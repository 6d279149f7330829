----------------------- MODULE MCTrivialClientServer -----------------------
(* The driver with values that tell every operation from the others.       *)
EXTENDS TrivialClientServer

MCOldValue(i) == 100 + i
MCNewValue(c, r) == 20 * c + r
MCValue == 20 .. 119 \union {100 + i : i \in Unsigned}
=============================================================================
