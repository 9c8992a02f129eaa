--------------------------- MODULE MC_StringStream ---------------------------
(* Model-checking instance of StringStream: two letters and one space,     *)
(* texts of up to 5 bytes, a 2-byte read buffer (words straddle refills)  *)
(* and a 3-byte word string (a 2-letter word fits with its null byte, a   *)
(* 3-letter word overflows, and so does an append to a 1-letter word).    *)
EXTENDS StringStream

CONSTANTS a, b, sp

MC_Letters == {a, b}
MC_Spaces == {sp}

=============================================================================
