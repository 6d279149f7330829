------------------------ MODULE MCClientServerArrays ------------------------
(* ClientServerArrays with the values of MCClientServer.                   *)
EXTENDS ClientServerArrays

MCOldValue(i) == 100 + i
MCNewValue(c, r) == 20 * c + r
MCValue == 20 .. 119 \union {100 + i : i \in Unsigned}
=============================================================================
