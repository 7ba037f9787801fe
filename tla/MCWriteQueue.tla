----------------------------- MODULE MCWriteQueue -----------------------------
(* Small instances of WriteQueue. *)
EXTENDS WriteQueue, TLC

OneFile == {MaxOps + 1}
NoFiles == {}
FileHome == [i \in Existing |-> "a"]

(* A token is only compared for equality, so workers are interchangeable. *)
WorkerSymmetry == Permutations(Workers)
================================================================================
