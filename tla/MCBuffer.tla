------------------------------- MODULE MCBuffer -------------------------------
(* An instance of Buffer for TLC: lines end with a separator of two bytes. *)
EXTENDS Buffer, TLC

CONSTANTS CR, LF

SomeInputs == {<<LF>>, <<CR, LF>>, <<LF, LF, CR>>}
CRLF == <<CR, LF>>
Handles == Permutations(Buffers)
===============================================================================
