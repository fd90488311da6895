---------------------------- MODULE MCIdempotency ----------------------------
(* Instances of Idempotency for TLC.                                       *)
EXTENDS Idempotency

CONSTANTS q1, q2, q3, p1, p2, k1, h1, h2

\* The second request on another process, the third with another body.
Spread == [q \in Requests |-> IF q = q2 THEN p2 ELSE p1]
Bodies == [q \in Requests |-> IF q = q3 THEN h2 ELSE h1]

AllK1 == [q \in Requests |-> k1]
=============================================================================
