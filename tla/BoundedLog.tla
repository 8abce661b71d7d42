----------------------------- MODULE BoundedLog -----------------------------
(***************************************************************************)
(* What the driver's ring promises its caller: it holds the most recent N  *)
(* entries in the order they were added, and every add that makes room by  *)
(* dropping the oldest entry hands that entry's buffer back.               *)
(***************************************************************************)
EXTENDS Integers, Sequences

CONSTANTS N, Entry, NULL

VARIABLES
  log,       (* the entries held, oldest first                    *)
  handed     (* the buffer the last add handed back, NULL if none *)

vars == <<log, handed>>

Init == log = <<>> /\ handed = NULL

AddWithRoom(e) ==
  /\ Len(log) < N
  /\ log' = Append(log, e)
  /\ handed' = NULL

AddDroppingOldest(e) ==
  /\ Len(log) = N
  /\ log' = Append(Tail(log), e)
  /\ handed' = Head(log).buffptr

Next == \E e \in Entry : AddWithRoom(e) \/ AddDroppingOldest(e)

Spec == Init /\ [][Next]_vars
=============================================================================
