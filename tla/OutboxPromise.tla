---------------------------- MODULE OutboxPromise ----------------------------
(***************************************************************************)
(* What src/core/outbox promises the code that records an event, with no   *)
(* table, claim, tick or process in sight: an accepted event is owed to    *)
(* every dispatcher; a dispatcher may see it any number of times but never *)
(* before it was accepted; the debt is written off once, for good, and     *)
(* only when all have it or more than Limit attempts were made.            *)
(***************************************************************************)
EXTENDS Naturals

CONSTANTS Entries, Dispatchers, MayGiveUp, Limit

VARIABLES debt, got, tries

vars == <<debt, got, tries>>

Init ==
  /\ debt = [e \in Entries |-> "none"]
  /\ got = [e \in Entries |-> {}]
  /\ tries = [e \in Entries |-> 0]

Accept(e) ==
  /\ debt[e] = "none"
  /\ debt' = [debt EXCEPT ![e] = "owed"]
  /\ UNCHANGED <<got, tries>>

\* Attempts beyond the limit are not told apart.
Try(e) ==
  /\ debt[e] # "none"
  /\ tries[e] <= Limit
  /\ tries' = [tries EXCEPT ![e] = tries[e] + 1]
  /\ UNCHANGED <<debt, got>>

Deliver(e, d) ==
  /\ debt[e] # "none"
  /\ got' = [got EXCEPT ![e] = got[e] \cup {d}]
  /\ UNCHANGED <<debt, tries>>

WriteOff(e) ==
  /\ debt[e] = "owed"
  /\ got[e] = Dispatchers \/ (MayGiveUp /\ tries[e] > Limit)
  /\ debt' = [debt EXCEPT ![e] = "settled"]
  /\ UNCHANGED <<got, tries>>

Next ==
  \E e \in Entries :
    \/ Accept(e) \/ Try(e) \/ WriteOff(e)
    \/ \E d \in Dispatchers : Deliver(e, d)

Spec == Init /\ [][Next]_vars
=============================================================================
