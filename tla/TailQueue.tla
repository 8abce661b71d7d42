------------------------------ MODULE TailQueue ------------------------------
(***************************************************************************)
(* server/queue.h: the TAILQ operations the server uses, on the pointers   *)
(* themselves.  A queue is two functions over the nodes and TQHead:        *)
(*   next[n] is n's tqe_next and next[TQHead] is tqh_first;                *)
(*   prev[n] is n's tqe_prev and prev[TQHead] is tqh_last.                 *)
(* tqe_prev and tqh_last hold the address of a next field, so prev names   *)
(* the node (or TQHead) whose field it is, and *prev is next[prev].        *)
(***************************************************************************)
EXTENDS Integers, Sequences

CONSTANTS TQHead, NULL

(* TAILQ_INIT; the fields of a node that is in no queue are not used.      *)
InitQueue(nodes) ==
  [next |-> [x \in nodes \cup {TQHead} |-> NULL],
   prev |-> [x \in nodes \cup {TQHead} |-> IF x = TQHead THEN TQHead ELSE NULL]]

(* TAILQ_INSERT_TAIL *)
InsertTail(q, n) ==
  [next |-> [q.next EXCEPT ![n] = NULL, ![q.prev[TQHead]] = n],
   prev |-> [q.prev EXCEPT ![n] = q.prev[TQHead], ![TQHead] = n]]

(* TAILQ_REMOVE: the pointer back to n is in the next node or, if n is the
   last one, in the head. *)
PointsBack(q, n) == IF q.next[n] # NULL THEN q.next[n] ELSE TQHead

RemoveForgetsLast(q, n) ==
  [next |-> [q.next EXCEPT ![q.prev[n]] = q.next[n]],
   prev |-> IF q.next[n] # NULL THEN [q.prev EXCEPT ![q.next[n]] = q.prev[n]] ELSE q.prev]

Remove(q, n) ==
  [next |-> [q.next EXCEPT ![q.prev[n]] = q.next[n]],
   prev |-> [q.prev EXCEPT ![PointsBack(q, n)] = q.prev[n]]]

(* free: the fields of the node are gone. *)
Forget(q, n) ==
  [next |-> [q.next EXCEPT ![n] = NULL], prev |-> [q.prev EXCEPT ![n] = NULL]]

(* The pointers of q spell the sequence s: from the head forward, and each
   node (the head after the last one) points back to the one before it. *)
Place(s, i) == IF i = 0 THEN TQHead ELSE s[i]

Spells(q, s) ==
  /\ \A i \in 0 .. Len(s) - 1 : /\ q.next[Place(s, i)] = s[i + 1]
                                /\ q.prev[s[i + 1]] = Place(s, i)
  /\ q.next[Place(s, Len(s))] = NULL
  /\ q.prev[TQHead] = Place(s, Len(s))
=============================================================================
