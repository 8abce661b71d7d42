---------------------------- MODULE MCAesdSystem ----------------------------
(* Values for the constants of AesdSystem: a packet ends with its newline. *)
EXTENDS AesdSystem

MCPacket == {<<"x", NL>>}

MCPtr == 1 .. 6
=============================================================================
