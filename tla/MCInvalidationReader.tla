------------------------ MODULE MCInvalidationReader ------------------------
EXTENDS InvalidationReader
=============================================================================
