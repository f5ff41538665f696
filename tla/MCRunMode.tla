------------------------------ MODULE MCRunMode ------------------------------
(* RunMode for TLC: threads are interchangeable. *)
EXTENDS RunMode, TLC

Interchangeable == Permutations(Threads)
=============================================================================
