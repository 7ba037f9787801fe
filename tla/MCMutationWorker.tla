--------------------------- MODULE MCMutationWorker ---------------------------
EXTENDS MutationWorker

Chains == {<<"relocate", "remove">>, <<"relocate", "relocate">>, <<"mkdir", "rmdir">>}
Removals == {<<"remove">>, <<"rmdir">>}
===============================================================================
