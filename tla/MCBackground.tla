---------------------------- MODULE MCBackground ----------------------------
(* Constants for model checking Background. *)
EXTENDS Background

CONSTANTS v1, v2, u1, u2, a1, a2, r1, r2, j1

\* Both requests are the first user's; the one in the table may be another's.
Who == [a \in Askers |-> u1]
=============================================================================
