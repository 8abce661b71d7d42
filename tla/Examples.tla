------------------------------- MODULE Examples -------------------------------
(***************************************************************************)
(* The two course libraries under examples/.  They share nothing, so a     *)
(* program of the model uses one of them.                                  *)
(***************************************************************************)
EXTENDS SystemCalls, Threading

VARIABLE library

vars == <<library, callVars, threadVars>>

Init == library \in {"systemcalls", "threading"} /\ SystemCallsInit /\ ThreadingInit

Next ==
  /\ \/ library = "systemcalls" /\ SystemCallsNext /\ UNCHANGED threadVars
     \/ library = "threading" /\ ThreadingNext /\ UNCHANGED callVars
  /\ UNCHANGED library

Spec == Init /\ [][Next]_vars
=============================================================================
