----------------------------- MODULE MCRequests -----------------------------
(***************************************************************************)
(* Constants for model checking Requests.                                   *)
(***************************************************************************)
EXTENDS Requests

CONSTANTS k1, v1, v2                           \* ApiKeys
CONSTANTS s1, s2, s3, f1, f2                   \* Devices
CONSTANTS d1, d2, c1, c2, x1, x2, x3             \* PowerSync
CONSTANTS i1, o1, o2, q1, a1, a2               \* Variants, Migrations, Notices
CONSTANTS t1, t2, r1, r2, n1, n2, p1, p2       \* Matrix

OneKey == [v \in Verifiers |-> k1]

Op(op, doc, data, id) == [op |-> op, doc |-> doc, data |-> data, id |-> id]

\* Two devices: one patches a document, then removes it, puts it again and puts
\* another whose data carry the id of a third; the other patches another field of
\* the first and puts the third, then removes the third.
Offline ==
  [d \in Clients |->
     IF d = d1
     THEN << <<Op("PATCH", x1, [f \in {f1} |-> 1], NoId)>>,
             <<Op("DELETE", x1, <<>>, NoId), Op("PUT", x1, [f \in {f2} |-> 1], NoId),
               Op("PUT", x3, [f \in {f1} |-> 1], x2)>> >>
     ELSE << <<Op("PATCH", x1, [f \in {f2} |-> 2], NoId), Op("PUT", x2, [f \in {f1} |-> 2], NoId)>>,
             <<Op("DELETE", x2, <<>>, NoId)>> >>]

\* The second of two calls runs on a replica whose clock is fast.
FastSecond == [c \in Calls |-> IF c = c2 THEN 1 ELSE 0]

\* Two tenants with a role each, one of them not made yet.
OneEach == [r \in Roles |-> IF r = r1 THEN t1 ELSE t2]
OneMade == [r \in Roles |-> IF r = r1 THEN n1 ELSE NoName]

\* The organization a session starts in matters to the matrix only.
MCInit == RequestsInit /\ title = OneMade /\ (part # "matrix" => active = t1)

MCSpec == MCInit /\ [][RequestsNext]_requestsVars
=============================================================================
