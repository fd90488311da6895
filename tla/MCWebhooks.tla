------------------------------ MODULE MCWebhooks ------------------------------
(* Instances of Webhooks for TLC.                                          *)
EXTENDS Webhooks, TLC

CONSTANTS d1, d2, d3, d4, w1, w2

\* The first event goes to both endpoints, the last to w2, the others to w1.
Fanout == [d \in Calls |-> CASE d = d1 -> {w1, w2} [] d = d4 -> {w2} [] OTHER -> {w1}]
Symmetry == Permutations({d2, d3})
=============================================================================
