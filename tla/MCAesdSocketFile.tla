-------------------------- MODULE MCAesdSocketFile --------------------------
(* The threads of AesdSocketFile are interchangeable. *)
EXTENDS AesdSocketFile, TLC

Threads == Permutations(Thread)
=============================================================================
