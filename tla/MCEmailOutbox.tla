---------------------------- MODULE MCEmailOutbox ----------------------------
(* Instances of EmailOutbox for TLC.                                       *)
EXTENDS EmailOutbox, TLC

CONSTANTS k1

OneKey == [m \in Mails |-> k1]
NoKeys == [m \in Mails |-> NoKey]
Symmetry == Permutations(Ticks)
=============================================================================
