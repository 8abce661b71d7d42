----------------------------- MODULE MCAesdChar -----------------------------
(* Values for the constants of AesdChar. *)
EXTENDS AesdChar

(* A newline at the end, and one with more bytes after it. *)
MCPayload == {<<"x", NL>>, <<NL, "x">>}

(* Two newlines in one call to write. *)
MCMultiLine == {<<"x", NL, "x", NL>>}

MCPtr == 1 .. 6

Processes == Permutations(Proc)
=============================================================================
