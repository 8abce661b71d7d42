--------------------------- MODULE CommandDevice ---------------------------
(***************************************************************************)
(* What /dev/aesdchar promises: it keeps the most recent N commands, a     *)
(* command being the bytes up to and including a newline, plus the bytes   *)
(* of the command that is not finished yet.                                *)
(***************************************************************************)
EXTENDS Integers, Sequences

CONSTANTS
  N,         (* commands kept                                               *)
  Chunk,     (* non-empty byte sequences with no newline but a last one     *)
  NL         (* the newline                                                 *)

VARIABLES
  log,       (* the commands kept, oldest first *)
  partial    (* the bytes since the last newline *)

vars == <<log, partial>>

Init == log = <<>> /\ partial = <<>>

EndsCommand(c) == c[Len(c)] = NL

Extend(c) ==
  /\ ~EndsCommand(c)
  /\ partial' = partial \o c
  /\ UNCHANGED log

Complete(c) ==
  LET kept == IF Len(log) = N THEN Tail(log) ELSE log
  IN  /\ EndsCommand(c)
      /\ log' = Append(kept, partial \o c)
      /\ partial' = <<>>

(* The module is removed and, later, loaded again. *)
Reset == log' = <<>> /\ partial' = <<>>

Next == Reset \/ \E c \in Chunk : Extend(c) \/ Complete(c)

Spec == Init /\ [][Next]_vars
=============================================================================
