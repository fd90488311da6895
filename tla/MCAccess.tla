------------------------------ MODULE MCAccess ------------------------------
(* Constants for model checking Access. *)
EXTENDS Access

CONSTANTS r1, r2, p1, p2, c1, c2, s1, a, x, ch1

\* Everybody is served by the first replica; c2 is another user's request.
Home == [c \in Calls |-> r1]
Who == [c \in Calls |-> IF c = c2 THEN p2 ELSE p1]
AllRight == [ch \in Channels |-> x]
KeyScopes == [c \in Calls |-> IF c = c1 THEN {x} ELSE {}]
=============================================================================
