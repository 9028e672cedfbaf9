----------------------------- MODULE MCDifficulty -----------------------------
(* 0x1c00ffff has a mantissa of two digits too. *)
EXTENDS Difficulty
MCPowBits == [exponent |-> 7, mantissa |-> 15]
================================================================================
