--------------------------- MODULE MCConvergence ---------------------------
(* Convergence with values that tell every operation from the others.      *)
EXTENDS Convergence

MCInitDoc == <<100, 101>>
MCMaxReceived(n) == IF n <= 2 THEN 4 ELSE 3
MCNewValue(c, r) == 10 * c + r
MCValue == 10 .. 39 \union {100, 101}
=============================================================================
