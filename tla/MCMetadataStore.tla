--------------------------- MODULE MCMetadataStore ---------------------------
EXTENDS MetadataStore, TLC
OnPage == [i \in Ids |-> IF i \in Folders THEN 1 ELSE Pages]

=============================================================================
