----------------------------- MODULE MCPinnedCache -----------------------------
(* Small instances of PinnedCache. *)
EXTENDS PinnedCache, TLC

(* A folder of two files beside one file of it; a single file of two blocks. *)
Nested == [i \in {"folder", "file"} |-> IF i = "folder" THEN << <<"b1">>, <<"b2">> >> ELSE << <<"b1">> >>]
Single == [i \in {"file"} |-> << <<"b1", "b2">> >>]
ExactClaim == [i \in Items |-> Cardinality(BlocksOf(i))]

TaskSymmetry == Permutations(Tasks)
================================================================================
