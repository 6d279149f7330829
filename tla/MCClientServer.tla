--------------------------- MODULE MCClientServer ---------------------------
(* ClientServer with values that tell every operation from the others.     *)
EXTENDS ClientServer

MCOldValue(i) == 100 + i
MCNewValue(c, r) == 20 * c + r
MCValue == 20 .. 119 \union {100 + i : i \in Unsigned}
=============================================================================
