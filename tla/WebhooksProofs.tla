--------------------------- MODULE WebhooksProofs ---------------------------
(***************************************************************************)
(* Proofs about Webhooks, for any finite set of calls, any endpoints,      *)
(* subscriptions, URLs, threshold and faults.                              *)
(***************************************************************************)
EXTENDS Webhooks, FiniteSetTheorems, TLAPS

\* A call is at an endpoint exactly in the phases between findById() and the
\* end of the iteration.
AtInv == \A d \in Calls : cur[d] \in Endpoints <=> pc[d] \in Writing \cup {"post"}

\* A step of the webhook inspector.
Inspect == (\E w \in Endpoints : SendTestEvent(w)) \/ (\E r \in log : Redeliver(r))

\* The inspector writes rows of the log and nothing else.
LEMMA InspectWrites == Inspect => UNCHANGED <<status, failures, callVars, historyVars>>
BY DEF Inspect, SendTestEvent, Redeliver

\* Typing and AtInv together: the writes go to the endpoint cur[d], which is
\* one only by AtInv.
LEMMA TypeAtStep == TypeOK /\ AtInv /\ [Next]_vars => TypeOK' /\ AtInv'
<1> SUFFICES ASSUME TypeOK, AtInv, [Next]_vars PROVE TypeOK' /\ AtInv'
  OBVIOUS
<1> USE WebhooksAssumption DEF TypeOK, AtInv, Phase, Writing, rowVars, callVars,
                               historyVars, Continue, GiveUpOn
<1>1. ASSUME NEW d \in Calls, FindActiveSubscribers(d) \/ SubscribersFail(d)
      PROVE TypeOK' /\ AtInv'
  <2>1. TypeOK'
    <3>1. CASE FindActiveSubscribers(d)
      BY <3>1 DEF FindActiveSubscribers
    <3>2. CASE SubscribersFail(d)
      BY <3>2 DEF SubscribersFail
    <3> QED
      BY <1>1, <3>1, <3>2
  <2>2. AtInv'
    BY <1>1, SMTT(40) DEF FindActiveSubscribers, SubscribersFail
  <2> QED
    BY <2>1, <2>2
<1>2. ASSUME NEW d \in Calls, NEW w \in Endpoints,
             Undeclared(d, w) \/ SkipEndpoint(d, w) \/ FindFails(d, w)
      PROVE TypeOK' /\ AtInv'
  <2>1. TypeOK'
    <3>1. CASE Undeclared(d, w)
      BY <3>1 DEF Undeclared
    <3>2. CASE SkipEndpoint(d, w)
      BY <3>2 DEF SkipEndpoint
    <3>3. CASE FindFails(d, w)
      BY <3>3 DEF FindFails
    <3> QED
      BY <1>2, <3>1, <3>2, <3>3
  <2>2. AtInv'
    BY <1>2, SMTT(30) DEF Undeclared, SkipEndpoint, FindFails
  <2> QED
    BY <2>1, <2>2
<1>3. ASSUME NEW d \in Calls, NEW w \in Endpoints, FindEndpoint(d, w)
      PROVE TypeOK' /\ AtInv'
  <2>1. TypeOK'
    BY <1>3 DEF FindEndpoint, At
  <2>2. AtInv'
    BY <1>3 DEF FindEndpoint
  <2> QED
    BY <2>1, <2>2
<1>4. ASSUME NEW d \in Calls, PostOk(d) \/ PostFails(d) PROVE TypeOK' /\ AtInv'
  <2>1. TypeOK'
    <3>1. CASE PostOk(d)
      BY <3>1 DEF PostOk
    <3>2. CASE PostFails(d)
      BY <3>2 DEF PostFails
    <3> QED
      BY <1>4, <3>1, <3>2
  <2>2. AtInv'
    <3>1. cur' = cur /\ pc[d] = "post" /\ pc' \in {[pc EXCEPT ![d] = "accepted"], [pc EXCEPT ![d] = "failed"]}
      BY <1>4 DEF PostOk, PostFails
    <3>2. \A c \in Calls : pc'[c] \in Writing \cup {"post"} <=> pc[c] \in Writing \cup {"post"}
      BY <3>1
    <3> QED
      BY <3>1, <3>2
  <2> QED
    BY <2>1, <2>2
<1>5. ASSUME NEW d \in Calls, ResetCount(d) \/ CountFailure(d) \/ Disable(d)
      PROVE TypeOK' /\ AtInv'
  <2>1. CASE ResetCount(d)
    BY <2>1 DEF ResetCount, SetFailureCount
  <2>2. CASE CountFailure(d)
    BY <2>2 DEF CountFailure, SetFailureCount
  <2>3. CASE Disable(d)
    BY <2>3 DEF Disable
  <2> QED
    BY <1>5, <2>1, <2>2, <2>3
<1>6. ASSUME NEW d \in Calls, RecordDelivery(d) PROVE TypeOK' /\ AtInv'
  <2>1. TypeOK'
    BY <1>6 DEF RecordDelivery, Delivery
  <2>2. AtInv'
    BY <1>6 DEF RecordDelivery
  <2> QED
    BY <2>1, <2>2
<1>7. ASSUME NEW d \in Calls, WriteFails(d) \/ Crash(d) PROVE TypeOK' /\ AtInv'
  <2>1. TypeOK'
    <3>1. CASE WriteFails(d)
      BY <3>1 DEF WriteFails
    <3>2. CASE Crash(d)
      BY <3>2 DEF Crash, At
    <3> QED
      BY <1>7, <3>1, <3>2
  <2>2. AtInv'
    <3>1. CASE WriteFails(d)
      BY <3>1 DEF WriteFails
    <3>2. CASE Crash(d)
      BY <3>2 DEF Crash
    <3> QED
      BY <1>7, <3>1, <3>2
  <2> QED
    BY <2>1, <2>2
<1>8. ASSUME NEW w \in Endpoints, Remove(w) PROVE TypeOK' /\ AtInv'
  BY <1>8 DEF Remove
<1>9. CASE UNCHANGED vars
  BY <1>9 DEF vars
<1>10. ASSUME Inspect PROVE TypeOK' /\ AtInv'
  <2>1. log' \subseteq Delivery
    <3>1. CASE \E w \in Endpoints : SendTestEvent(w)
      BY <3>1 DEF SendTestEvent, Delivery
    <3>2. ASSUME NEW r \in log, Redeliver(r)
          PROVE log' \subseteq Delivery
      <4>1. r[1] \in Calls \cup {TestEvent} /\ r[2] \in Endpoints
        BY DEF Delivery
      <4>2. log' = (log \ {r}) \cup {<<r[1], r[2], "DELIVERED", 2>>}
        BY <3>2 DEF Redeliver
      <4> QED
        BY <4>1, <4>2 DEF Delivery
    <3> QED
      BY <1>10, <3>1, <3>2 DEF Inspect
  <2> QED
    BY <1>10, <2>1, InspectWrites
<1> QED
  BY <1>1, <1>2, <1>3, <1>4, <1>5, <1>6, <1>7, <1>8, <1>9, <1>10
     DEF Inspect, Next, Step

\* Every reachable state is well typed.
THEOREM TypeCorrect == Spec => [](TypeOK /\ AtInv)
<1>1. Init => TypeOK /\ AtInv
  BY WebhooksAssumption DEF Init, TypeOK, AtInv, Phase, Writing
<1> QED
  BY <1>1, TypeAtStep, PTL DEF Spec

-----------------------------------------------------------------------------
(* Every subscriber is visited once.                                       *)

\* What a call still has to visit it has not tried, and the phase at an
\* endpoint says how the try ended.
VisitInv ==
  \A d \in Calls, w \in Endpoints :
    /\ ~(d \in got[w] /\ d \in lost[w])
    /\ pc[d] = "new" \/ w \in todo[d] => d \notin got[w] /\ d \notin lost[w]
    /\ cur[d] = w =>
         /\ w \notin todo[d]
         /\ pc[d] = "post" => d \notin got[w] /\ d \notin lost[w]
         /\ pc[d] \in {"accepted", "delivered"} => d \in got[w]
         /\ pc[d] \in {"failed", "disable", "undelivered"} => d \in lost[w]

\* A visit ends before the next begins, and no endpoint is visited again.
LEMMA VisitStep == TypeOK /\ AtInv /\ VisitInv /\ [Next]_vars => VisitInv'
<1> SUFFICES ASSUME TypeOK, AtInv, VisitInv, [Next]_vars PROVE VisitInv'
  OBVIOUS
<1> USE WebhooksAssumption DEF TypeOK, AtInv, VisitInv, Writing, rowVars, callVars,
                               historyVars, Continue, GiveUpOn
<1>1. ASSUME NEW d \in Calls, FindActiveSubscribers(d) \/ SubscribersFail(d)
      PROVE VisitInv'
  BY <1>1 DEF FindActiveSubscribers, SubscribersFail
<1>2. ASSUME NEW d \in Calls, NEW w \in Endpoints,
             Undeclared(d, w) \/ SkipEndpoint(d, w) \/ FindFails(d, w)
      PROVE VisitInv'
  BY <1>2 DEF Undeclared, SkipEndpoint, FindFails
<1>3. ASSUME NEW d \in Calls, NEW w \in Endpoints, FindEndpoint(d, w)
      PROVE VisitInv'
  BY <1>3 DEF FindEndpoint
<1>4. ASSUME NEW d \in Calls, PostOk(d) \/ PostFails(d) PROVE VisitInv'
  BY <1>4 DEF PostOk, PostFails
<1>5. ASSUME NEW d \in Calls, ResetCount(d) \/ CountFailure(d) \/ Disable(d)
      PROVE VisitInv'
  BY <1>5 DEF ResetCount, CountFailure, Disable, SetFailureCount
<1>6. ASSUME NEW d \in Calls, RecordDelivery(d) \/ WriteFails(d) \/ Crash(d)
      PROVE VisitInv'
  BY <1>6 DEF RecordDelivery, WriteFails, Crash
<1>7. ASSUME NEW w \in Endpoints, Remove(w) PROVE VisitInv'
  BY <1>7 DEF Remove
<1>8. CASE UNCHANGED vars
  BY <1>8 DEF vars
<1>9. ASSUME Inspect PROVE VisitInv'
  BY <1>9, InspectWrites
<1> QED
  BY <1>1, <1>2, <1>3, <1>4, <1>5, <1>6, <1>7, <1>8, <1>9
     DEF Inspect, Next, Step

\* The invariants so far, together.
LEMMA Visits == Spec => [](TypeOK /\ AtInv /\ VisitInv)
<1>1. Init => VisitInv
  BY WebhooksAssumption DEF Init, VisitInv
<1> QED
  BY <1>1, TypeCorrect, VisitStep, PTL DEF Spec

-----------------------------------------------------------------------------
(* The fan-out reaches everyone.                                           *)

\* Until a call dies, a subscriber it found is ahead of it, at hand, given up
\* on, or tried; a call that returned has none ahead.
FanoutInv ==
  \A d \in Calls :
    /\ pc[d] = "new" => targets[d] = {}
    /\ pc[d] = "done" => todo[d] = {}
    /\ pc[d] # "ended" => \A w \in targets[d] :
         w \in todo[d] \/ cur[d] = w \/ w \in excused[d] \/ d \in got[w] \/ d \in lost[w]

\* Only the end of an iteration takes a subscriber off the list.
LEMMA FanoutStep ==
  TypeOK /\ AtInv /\ VisitInv /\ FanoutInv /\ [Next]_vars => FanoutInv'
<1> SUFFICES ASSUME TypeOK, AtInv, VisitInv, FanoutInv, [Next]_vars PROVE FanoutInv'
  OBVIOUS
<1> USE WebhooksAssumption DEF TypeOK, AtInv, FanoutInv, Writing, rowVars, callVars,
                               historyVars, Continue, GiveUpOn
<1>1. ASSUME NEW d \in Calls, FindActiveSubscribers(d) \/ SubscribersFail(d)
      PROVE FanoutInv'
  BY <1>1 DEF FindActiveSubscribers, SubscribersFail
<1>2. ASSUME NEW d \in Calls, NEW w \in Endpoints,
             Undeclared(d, w) \/ SkipEndpoint(d, w) \/ FindFails(d, w)
      PROVE FanoutInv'
  <2>1. GiveUpOn(d, w) /\ UNCHANGED <<targets, got, lost>> /\ pc[d] = "loop"
    BY <1>2 DEF Undeclared, SkipEndpoint, FindFails
  <2> QED
    BY <2>1, SMTT(40)
<1>3. ASSUME NEW d \in Calls, NEW w \in Endpoints, FindEndpoint(d, w)
      PROVE FanoutInv'
  <2>1. /\ UNCHANGED <<targets, excused, got>>
        /\ \A v \in Endpoints : lost[v] \subseteq lost'[v]
        /\ \A c \in Calls : c # d => UNCHANGED <<cur[c], todo[c], pc[c]>>
        /\ pc[d] = "loop" /\ cur'[d] = w /\ todo'[d] = todo[d] \ {w}
        /\ pc'[d] \in {"post", "failed"}
    BY <1>3 DEF FindEndpoint
  <2>2. cur[d] \notin Endpoints
    BY <2>1
  <2> QED
    BY <2>1, <2>2
<1>4. ASSUME NEW d \in Calls, PostOk(d) \/ PostFails(d) PROVE FanoutInv'
  <2>1. /\ UNCHANGED <<targets, excused, todo, cur>>
        /\ \A w \in Endpoints : got[w] \subseteq got'[w] /\ lost[w] \subseteq lost'[w]
        /\ \A c \in Calls : pc'[c] = pc[c] \/ (c = d /\ pc'[c] \in {"accepted", "failed"})
        /\ pc[d] = "post"
    <3>1. CASE PostOk(d)
      BY <3>1 DEF PostOk
    <3>2. CASE PostFails(d)
      BY <3>2 DEF PostFails
    <3> QED
      BY <1>4, <3>1, <3>2
  <2> QED
    BY <2>1
<1>5. ASSUME NEW d \in Calls, ResetCount(d) \/ CountFailure(d) \/ Disable(d)
      PROVE FanoutInv'
  BY <1>5 DEF ResetCount, CountFailure, Disable, SetFailureCount
<1>6. ASSUME NEW d \in Calls, RecordDelivery(d) \/ WriteFails(d) \/ Crash(d)
      PROVE FanoutInv'
  <2>1. CASE RecordDelivery(d)
    BY <2>1 DEF RecordDelivery, VisitInv
  <2>2. CASE WriteFails(d)
    BY <2>2 DEF WriteFails
  <2>3. CASE Crash(d)
    BY <2>3 DEF Crash
  <2> QED
    BY <1>6, <2>1, <2>2, <2>3
<1>7. ASSUME NEW w \in Endpoints, Remove(w) PROVE FanoutInv'
  BY <1>7 DEF Remove
<1>8. CASE UNCHANGED vars
  BY <1>8 DEF vars
<1>9. ASSUME Inspect PROVE FanoutInv'
  BY <1>9, InspectWrites
<1> QED
  BY <1>1, <1>2, <1>3, <1>4, <1>5, <1>6, <1>7, <1>8, <1>9
     DEF Inspect, Next, Step

\* A call that returns has tried every subscriber, whatever failed for the
\* others.
THEOREM SiblingsTried == Spec => []SiblingsAreTried
<1>1. Init => FanoutInv
  BY DEF Init, FanoutInv
<1>2. TypeOK /\ AtInv /\ FanoutInv => SiblingsAreTried
  BY WebhooksAssumption, SMTT(30) DEF TypeOK, AtInv, FanoutInv, Writing, SiblingsAreTried
<1> QED
  BY <1>1, <1>2, Visits, FanoutStep, PTL DEF Spec

-----------------------------------------------------------------------------
(* Disabled endpoints.                                                     *)

\* Failed deliveries to w since it had a success to itself: of all calls,
\* and of all calls but d.
Lost(w) == Cardinality(since[w])
Others(d, w) == Cardinality(since[w] \ {d})

\* Two calls at one endpoint have met; failures are counted once; a delivery
\* still under way at a disabled endpoint met the one that disabled it, so
\* its success will not be one that had the endpoint to itself.
MetInv ==
  /\ \A c, d \in Calls : cur[c] \in Endpoints /\ cur[c] = cur[d] /\ c # d => c \in met
  /\ \A w \in Endpoints : since[w] \subseteq lost[w]
  /\ \A d \in Calls, w \in Endpoints : cur[d] = w =>
       /\ pc[d] \in {"failed", "disable"} => d \in since[w]
       /\ status[w] = "DISABLED" /\ pc[d] \in {"post", "accepted"} => d \in met

\* Who meets whom changes only where a call comes or goes.
LEMMA MetStep ==
  TypeOK /\ AtInv /\ VisitInv /\ MetInv /\ [Next]_vars => MetInv'
<1> SUFFICES ASSUME TypeOK, AtInv, VisitInv, MetInv, [Next]_vars PROVE MetInv'
  OBVIOUS
<1> USE WebhooksAssumption DEF TypeOK, AtInv, MetInv, Writing, rowVars, callVars,
                               historyVars, Continue, GiveUpOn
<1>1. ASSUME NEW d \in Calls, FindActiveSubscribers(d) \/ SubscribersFail(d)
      PROVE MetInv'
  BY <1>1, SMTT(30) DEF FindActiveSubscribers, SubscribersFail
<1>2. ASSUME NEW d \in Calls, NEW w \in Endpoints,
             Undeclared(d, w) \/ SkipEndpoint(d, w) \/ FindFails(d, w)
      PROVE MetInv'
  <2>1. GiveUpOn(d, w) /\ UNCHANGED <<status, since, lost>> /\ pc[d] = "loop"
    BY <1>2 DEF Undeclared, SkipEndpoint, FindFails
  <2> QED
    BY <2>1
<1>3. ASSUME NEW d \in Calls, NEW w \in Endpoints, FindEndpoint(d, w)
      PROVE MetInv'
  <2>1. /\ \A c \in Calls : c # d => UNCHANGED <<cur[c], pc[c]>>
        /\ cur'[d] = w /\ status' = status /\ status[w] = "ACTIVE"
        /\ met \subseteq met'
        /\ \A c \in Calls : cur[c] = w => c \in met' /\ d \in met'
    BY <1>3 DEF FindEndpoint, At
  <2>2. /\ \A v \in Endpoints : since[v] \subseteq since'[v] /\ since'[v] \subseteq lost'[v]
        /\ pc'[d] \in {"failed", "disable"} => d \in since'[w]
    BY <1>3 DEF FindEndpoint
  <2>3. ASSUME NEW c \in Calls, NEW e \in Calls,
               cur'[c] \in Endpoints, cur'[c] = cur'[e], c # e
        PROVE  c \in met'
    <3>1. CASE c = d
      BY <2>1, <2>3, <3>1
    <3>2. CASE c # d
      BY <2>1, <2>3, <3>2
    <3> QED
      BY <3>1, <3>2
  <2>4. ASSUME NEW c \in Calls, NEW v \in Endpoints, cur'[c] = v
        PROVE  /\ pc'[c] \in {"failed", "disable"} => c \in since'[v]
               /\ status'[v] = "DISABLED" /\ pc'[c] \in {"post", "accepted"} => c \in met'
    <3>1. CASE c = d
      BY <2>1, <2>2, <2>4, <3>1
    <3>2. CASE c # d
      BY <2>1, <2>2, <2>4, <3>2
    <3> QED
      BY <3>1, <3>2
  <2> QED
    BY <2>2, <2>3, <2>4
<1>4. ASSUME NEW d \in Calls, PostOk(d) \/ PostFails(d) PROVE MetInv'
  <2>1. CASE PostOk(d)
    BY <2>1 DEF PostOk
  <2>2. CASE PostFails(d)
    <3>1. /\ UNCHANGED <<status, cur, met>> /\ cur[d] \in Endpoints
          /\ since' = [since EXCEPT ![cur[d]] = since[cur[d]] \cup {d}]
          /\ lost' = [lost EXCEPT ![cur[d]] = lost[cur[d]] \cup {d}]
          /\ pc' = [pc EXCEPT ![d] = "failed"]
      BY <2>2 DEF PostFails
    <3> QED
      BY <3>1
  <2> QED
    BY <1>4, <2>1, <2>2
<1>5. ASSUME NEW d \in Calls, ResetCount(d) PROVE MetInv'
  <2>1. cur[d] \in Endpoints
    BY <1>5 DEF ResetCount
  <2>2. \A v \in Endpoints : \/ since'[v] = since[v]
                             \/ v = cur[d] /\ d \notin met /\ since'[v] = {}
    BY <1>5 DEF ResetCount
  <2>3. UNCHANGED <<status, lost, cur, met>> /\ \A c \in Calls : c # d => pc'[c] = pc[c]
    BY <1>5 DEF ResetCount
  <2>4. pc'[d] = "delivered"
    BY <1>5 DEF ResetCount
  <2>5. \A c \in Calls : c # d /\ cur[c] = cur[d] => d \in met
    BY <2>1
  <2> QED
    BY <2>1, <2>2, <2>3, <2>4, <2>5
<1>6. ASSUME NEW d \in Calls, CountFailure(d) \/ Disable(d) PROVE MetInv'
  BY <1>6 DEF CountFailure, Disable, SetFailureCount
<1>7. ASSUME NEW d \in Calls, RecordDelivery(d) \/ WriteFails(d) \/ Crash(d)
      PROVE MetInv'
  <2>1. /\ UNCHANGED <<status, since, lost>> /\ met' = met \ {d}
        /\ cur' = [cur EXCEPT ![d] = NoEndpoint]
        /\ \A c \in Calls : c # d => pc'[c] = pc[c]
    BY <1>7 DEF RecordDelivery, WriteFails, Crash
  <2> QED
    BY <2>1
<1>8. ASSUME NEW w \in Endpoints, Remove(w) PROVE MetInv'
  BY <1>8 DEF Remove
<1>9. CASE UNCHANGED vars
  BY <1>9 DEF vars
<1>10. ASSUME Inspect PROVE MetInv'
  BY <1>10, InspectWrites
<1> QED
  BY <1>1, <1>2, <1>3, <1>4, <1>5, <1>6, <1>7, <1>8, <1>9, <1>10
     DEF Inspect, Next, Step

\* No copy of a counter that will be written back, and so no counter, exceeds
\* the number of those failed deliveries; the call that holds the copy is
\* not one of them yet.
CountInv ==
  /\ \A w \in Endpoints :
       /\ status[w] # "gone" => failures[w] <= Lost(w)
       /\ status[w] = "DISABLED" => Threshold <= Lost(w)
  /\ \A d \in Calls, w \in Endpoints : cur[d] = w =>
       /\ pc[d] \in {"post", "failed", "disable"} => snap[d] <= Others(d, w)
       /\ pc[d] = "disable" => Threshold <= snap[d] + 1

\* The two counts differ by the one call.
LEMMA LostCounts ==
  ASSUME TypeOK, NEW w \in Endpoints
  PROVE  /\ Lost(w) \in Nat
         /\ \A d \in Calls : /\ Others(d, w) \in Nat
                             /\ d \in since[w] => Lost(w) = Others(d, w) + 1
                             /\ d \notin since[w] => Lost(w) = Others(d, w)
<1>1. since[w] \in SUBSET Calls
  BY DEF TypeOK
<1>2. IsFiniteSet(since[w]) /\ Cardinality(since[w]) \in Nat
  BY <1>1, WebhooksAssumption, FS_Subset, FS_CardinalityType
<1>3. ASSUME NEW d \in Calls
      PROVE  /\ Others(d, w) \in Nat
             /\ d \in since[w] => Lost(w) = Others(d, w) + 1
             /\ d \notin since[w] => Lost(w) = Others(d, w)
  <2>1. Cardinality(since[w] \ {d}) \in Nat
    BY <1>2, FS_Subset, FS_CardinalityType
  <2>2. d \in since[w] => Cardinality(since[w] \ {d}) = Cardinality(since[w]) - 1
    BY <1>2, FS_RemoveElement
  <2>3. d \notin since[w] => Cardinality(since[w] \ {d}) = Cardinality(since[w])
    <3>1. d \notin since[w] => since[w] \ {d} = since[w]
      OBVIOUS
    <3> QED
      BY <3>1
  <2> QED
    BY <1>2, <2>1, <2>2, <2>3 DEF Lost, Others
<1> QED
  BY <1>2, <1>3 DEF Lost

\* Failed deliveries are never forgotten.
LEMMA LostGrows ==
  ASSUME TypeOK, TypeOK', NEW w \in Endpoints, since[w] \subseteq since'[w]
  PROVE  /\ Lost(w)' \in Nat /\ Lost(w) <= Lost(w)'
         /\ \A d \in Calls : /\ Others(d, w)' \in Nat
                             /\ Others(d, w) <= Others(d, w)'
<1>1. since'[w] \in SUBSET Calls
  BY DEF TypeOK
<1>2. IsFiniteSet(since'[w]) /\ Cardinality(since'[w]) \in Nat
  BY <1>1, WebhooksAssumption, FS_Subset, FS_CardinalityType
<1>3. Cardinality(since[w]) <= Cardinality(since'[w])
  BY <1>2, FS_Subset
<1>4. ASSUME NEW d \in Calls
      PROVE Others(d, w)' \in Nat /\ Others(d, w) <= Others(d, w)'
  <2>1. IsFiniteSet(since'[w] \ {d}) /\ since[w] \ {d} \in SUBSET (since'[w] \ {d})
    BY <1>2, FS_Subset
  <2>2. Cardinality(since[w] \ {d}) <= Cardinality(since'[w] \ {d})
    BY <2>1, FS_Subset
  <2>3. Cardinality(since'[w] \ {d}) \in Nat
    BY <2>1, FS_CardinalityType
  <2> QED
    BY <2>2, <2>3 DEF Others
<1> QED
  BY <1>2, <1>3, <1>4 DEF Lost

\* A failed delivery is counted at most once, and a copy never counts the
\* delivery of its own call.
LEMMA CountStep ==
  TypeOK /\ AtInv /\ VisitInv /\ MetInv /\ CountInv /\ [Next]_vars => CountInv'
<1> SUFFICES ASSUME TypeOK, AtInv, VisitInv, MetInv, CountInv, [Next]_vars
             PROVE CountInv'
  OBVIOUS
<1>t. TypeOK'
  BY TypeAtStep
<1>n. \A w \in Endpoints :
        /\ Lost(w) \in Nat
        /\ \A d \in Calls : /\ Others(d, w) \in Nat
                            /\ d \in since[w] => Lost(w) = Others(d, w) + 1
                            /\ d \notin since[w] => Lost(w) = Others(d, w)
  BY LostCounts
<1>g. ASSUME \A w \in Endpoints : since[w] \subseteq since'[w]
      PROVE  \A w \in Endpoints :
               /\ Lost(w)' \in Nat /\ Lost(w) <= Lost(w)'
               /\ \A d \in Calls : /\ Others(d, w)' \in Nat
                                   /\ Others(d, w) <= Others(d, w)'
  BY <1>t, <1>g, LostGrows
<1> USE WebhooksAssumption DEF TypeOK, AtInv, CountInv, Writing, rowVars, callVars,
                               historyVars, Continue, GiveUpOn
<1>1. ASSUME NEW d \in Calls, FindActiveSubscribers(d) \/ SubscribersFail(d)
      PROVE CountInv'
  <2>1. /\ UNCHANGED <<status, failures, since>>
        /\ \A c \in Calls : \/ c # d /\ UNCHANGED <<cur[c], snap[c], pc[c]>>
                            \/ c = d /\ cur'[c] \notin Endpoints
    BY <1>1, SMTT(30) DEF FindActiveSubscribers, SubscribersFail
  <2>2. \A w \in Endpoints : Lost(w)' = Lost(w) /\ \A c \in Calls : Others(c, w)' = Others(c, w)
    BY <2>1 DEF Lost, Others
  <2>3. ASSUME NEW c \in Calls, NEW w \in Endpoints, cur'[c] = w
        PROVE  cur[c] = w /\ UNCHANGED <<snap[c], pc[c]>>
    BY <2>1, <2>3
  <2> QED
    BY <2>1, <2>2, <2>3, SMTT(30)
<1>2. ASSUME NEW d \in Calls, NEW w \in Endpoints,
             Undeclared(d, w) \/ SkipEndpoint(d, w) \/ FindFails(d, w)
      PROVE CountInv'
  <2>1. GiveUpOn(d, w) /\ UNCHANGED <<status, failures, since>>
    BY <1>2 DEF Undeclared, SkipEndpoint, FindFails
  <2> QED
    BY <1>n, <1>g, <2>1
<1>3. ASSUME NEW d \in Calls, NEW w \in Endpoints, FindEndpoint(d, w)
      PROVE CountInv'
  <2>1. d \notin since[w]
    BY <1>3 DEF FindEndpoint, VisitInv, MetInv
  <2>2. snap'[d] <= Others(d, w)
    BY <1>n, <1>3, <2>1 DEF FindEndpoint
  <2> QED
    BY <1>n, <1>g, <1>3, <2>2 DEF FindEndpoint
<1>4. ASSUME NEW d \in Calls, PostOk(d) \/ PostFails(d) PROVE CountInv'
  <2>1. /\ UNCHANGED <<status, failures, cur, snap>>
        /\ \A w \in Endpoints : since[w] \subseteq since'[w]
        /\ \A c \in Calls : \/ pc'[c] = pc[c]
                            \/ pc[c] = "post" /\ pc'[c] \in {"accepted", "failed"}
    BY <1>4 DEF PostOk, PostFails
  <2> QED
    BY <1>n, <1>g, <2>1, SMTT(30)
<1>5. ASSUME NEW d \in Calls, ResetCount(d) PROVE CountInv'
  <2>1. cur[d] \in Endpoints /\ pc[d] = "accepted" /\ pc'[d] = "delivered"
    BY <1>5 DEF ResetCount
  <2>2. CASE d \in met
    <3>1. since' = since
      BY <1>5, <2>2 DEF ResetCount
    <3> QED
      BY <1>n, <1>g, <1>5, <3>1 DEF ResetCount, SetFailureCount
  <2>3. CASE d \notin met
    <3>1. /\ \A c \in Calls : cur[c] = cur[d] => c = d
          /\ status[cur[d]] # "DISABLED"
      BY <2>1, <2>3 DEF MetInv
    <3>2. /\ \A v \in Endpoints : v # cur[d] => since'[v] = since[v]
          /\ UNCHANGED <<status, cur, snap>> /\ \A c \in Calls : c # d => pc'[c] = pc[c]
          /\ \A v \in Endpoints : v # cur[d] => failures'[v] = failures[v]
          /\ status[cur[d]] # "gone" => failures'[cur[d]] = 0
      BY <1>5, <2>1 DEF ResetCount, SetFailureCount
    <3>3. \A v \in Endpoints : v # cur[d] => /\ Lost(v)' = Lost(v)
                                            /\ \A c \in Calls : Others(c, v)' = Others(c, v)
      BY <3>2 DEF Lost, Others
    <3>4. ASSUME NEW v \in Endpoints
          PROVE  /\ status'[v] # "gone" => failures'[v] <= Lost(v)'
                 /\ status'[v] = "DISABLED" => Threshold <= Lost(v)'
      <4>1. CASE v = cur[d]
        <5>1. Lost(v)' \in Nat
          <6>1. since'[v] \in SUBSET Calls
            BY <1>t
          <6>2. IsFiniteSet(since'[v])
            BY <6>1, FS_Subset
          <6> QED
            BY <6>2, FS_CardinalityType DEF Lost
        <5> QED
          BY <3>1, <3>2, <4>1, <5>1
      <4>2. CASE v # cur[d]
        BY <3>2, <3>3, <4>2
      <4> QED
        BY <4>1, <4>2
    <3>5. ASSUME NEW c \in Calls, NEW v \in Endpoints, cur'[c] = v
          PROVE  /\ pc'[c] \in {"post", "failed", "disable"} => snap'[c] <= Others(c, v)'
                 /\ pc'[c] = "disable" => Threshold <= snap'[c] + 1
      BY <2>1, <3>1, <3>2, <3>3, <3>5
    <3> QED
      BY <3>4, <3>5
  <2> QED
    BY <2>2, <2>3
<1>6. ASSUME NEW d \in Calls, CountFailure(d) PROVE CountInv'
  <2>1. cur[d] \in Endpoints /\ d \in since[cur[d]]
    BY <1>6 DEF CountFailure, MetInv
  <2>2. snap[d] + 1 <= Lost(cur[d])
    BY <1>n, <1>6, <2>1 DEF CountFailure
  <2> QED
    BY <1>n, <1>g, <1>6, <2>1, <2>2 DEF CountFailure, SetFailureCount
<1>7. ASSUME NEW d \in Calls, Disable(d) PROVE CountInv'
  <2>1. cur[d] \in Endpoints /\ d \in since[cur[d]]
    BY <1>7 DEF Disable, MetInv
  <2>2. Threshold <= Lost(cur[d])
    BY <1>n, <1>7, <2>1 DEF Disable
  <2> QED
    BY <1>n, <1>g, <1>7, <2>1, <2>2 DEF Disable
<1>8. ASSUME NEW d \in Calls, RecordDelivery(d) \/ WriteFails(d) \/ Crash(d)
      PROVE CountInv'
  BY <1>n, <1>g, <1>8 DEF RecordDelivery, WriteFails, Crash
<1>9. ASSUME NEW w \in Endpoints, Remove(w) PROVE CountInv'
  BY <1>n, <1>g, <1>9 DEF Remove
<1>10. CASE UNCHANGED vars
  BY <1>n, <1>g, <1>10 DEF vars
<1>11. ASSUME Inspect PROVE CountInv'
  BY <1>n, <1>g, <1>11, InspectWrites
<1> QED
  BY <1>1, <1>2, <1>3, <1>4, <1>5, <1>6, <1>7, <1>8, <1>9, <1>10, <1>11
     DEF Inspect, Next, Step

\* Stale copies disable no endpoint that has not failed Threshold times since
\* it had a success to itself.
THEOREM DisabledEarned == Spec => []DisabledIsEarned
<1>1. Init => CountInv /\ MetInv
  <2>1. Cardinality({}) = 0 /\ \A d \in Calls : {} \ {d} = {}
    BY FS_EmptySet
  <2> QED
    BY <2>1, WebhooksAssumption DEF Init, CountInv, MetInv, Lost, Others
<1>2. CountInv /\ TypeOK => DisabledIsEarned
  BY WebhooksAssumption, FS_Subset, FS_CardinalityType
     DEF CountInv, DisabledIsEarned, Lost, TypeOK
<1> QED
  BY <1>1, <1>2, Visits, MetStep, CountStep, PTL DEF Spec

-----------------------------------------------------------------------------
(* The delivery log.                                                       *)

\* A delivery of call d to w is in the log.
InLog(d, w) == \E o \in {"DELIVERED", "FAILED"}, n \in {1, 2} : <<d, w, o, n>> \in log

\* A row of the dispatcher that the inspector has not touched tells what
\* happened.
LogRows ==
  \A w \in Endpoints :
    /\ \A d \in Calls : <<d, w, "DELIVERED", 1>> \in log => d \in got[w]
    /\ \A d \in Calls, n \in {1, 2} : <<d, w, "FAILED", n>> \in log => d \in lost[w]
    /\ \A n \in {1, 2} : <<TestEvent, w, "FAILED", n>> \notin log

\* A subscriber that a call found is ahead of it, at hand, given up on, deleted,
\* or in the log.
Kept(d) ==
  \A w \in targets[d] :
    w \in todo[d] \/ cur[d] = w \/ w \in excused[d] \/ status[w] = "gone" \/ InLog(d, w)

LogInv == LogRows /\ \A d \in Calls : pc[d] # "ended" => Kept(d)

\* record() is the only way out of an iteration that leaves no excuse.
LEMMA LogStep ==
  TypeOK /\ AtInv /\ VisitInv /\ FanoutInv /\ LogInv /\ [Next]_vars => LogInv'
<1> SUFFICES ASSUME TypeOK, AtInv, VisitInv, FanoutInv, LogInv, [Next]_vars
             PROVE LogInv'
  OBVIOUS
<1>t. /\ targets \in [Calls -> SUBSET Endpoints] /\ todo \in [Calls -> SUBSET Endpoints]
      /\ excused \in [Calls -> SUBSET Endpoints]
      /\ cur \in [Calls -> Endpoints \cup {NoEndpoint}] /\ pc \in [Calls -> Phase]
      /\ status \in [Endpoints -> {"ACTIVE", "DISABLED", "gone"}]
      /\ got \in [Endpoints -> SUBSET Calls] /\ lost \in [Endpoints -> SUBSET Calls]
      /\ log \subseteq Delivery
  BY DEF TypeOK
<1>a. /\ NoEndpoint \notin Endpoints /\ TestEvent \notin Calls
      /\ Matches \in [Calls -> SUBSET Endpoints]
  BY WebhooksAssumption
<1>b. \A d \in Calls : pc[d] \in {"loop", "new"} => cur[d] \notin Endpoints
  BY DEF AtInv, Writing
<1>k. \A d \in Calls : pc[d] # "ended" => Kept(d)
  BY DEF LogInv
\* A step of call d that writes no row.
<1>q. ASSUME NEW d \in Calls, log' = log,
             \A v \in Endpoints : /\ got[v] \subseteq got'[v] /\ lost[v] \subseteq lost'[v]
                                  /\ status[v] = "gone" => status'[v] = "gone",
             \A c \in Calls \ {d} : /\ targets'[c] = targets[c] /\ todo'[c] = todo[c]
                                    /\ cur'[c] = cur[c] /\ excused'[c] = excused[c]
                                    /\ pc'[c] = pc[c],
             pc'[d] # "ended" => Kept(d)'
      PROVE  LogInv'
  <2>1. LogRows'
    BY <1>q DEF LogInv, LogRows
  <2>2. ASSUME NEW c \in Calls \ {d}, pc'[c] # "ended", NEW v \in targets'[c]
        PROVE  v \in todo'[c] \/ cur'[c] = v \/ v \in excused'[c] \/ status'[v] = "gone"
                 \/ InLog(c, v)'
    <3>1. v \in targets[c] /\ v \in Endpoints /\ Kept(c)
      BY <1>t, <1>k, <1>q, <2>2
    <3>2. InLog(c, v) => InLog(c, v)'
      BY <1>q DEF InLog
    <3> QED
      BY <1>q, <2>2, <3>1, <3>2 DEF Kept
  <2>3. \A c \in Calls \ {d} : pc'[c] # "ended" => Kept(c)'
    BY <2>2 DEF Kept
  <2> QED
    BY <1>q, <2>1, <2>3 DEF LogInv
<1> USE DEF rowVars, callVars, historyVars, Continue, GiveUpOn
<1>1. ASSUME NEW d \in Calls, FindActiveSubscribers(d) \/ SubscribersFail(d)
      PROVE LogInv'
  <2>1. CASE FindActiveSubscribers(d)
    <3>1. targets'[d] = todo'[d]
      BY <1>t, <2>1 DEF FindActiveSubscribers
    <3>2. Kept(d)'
      BY <3>1 DEF Kept
    <3> QED
      BY <1>t, <1>q, <2>1, <3>2 DEF FindActiveSubscribers
  <2>2. CASE SubscribersFail(d)
    BY <1>t, <1>q, <2>2 DEF SubscribersFail
  <2> QED
    BY <1>1, <2>1, <2>2
<1>2. ASSUME NEW d \in Calls, NEW w \in Endpoints,
             Undeclared(d, w) \/ SkipEndpoint(d, w) \/ FindFails(d, w)
      PROVE LogInv'
  <2>1. GiveUpOn(d, w) /\ UNCHANGED <<status, log, targets, got, lost>> /\ pc[d] = "loop"
    BY <1>2 DEF Undeclared, SkipEndpoint, FindFails
  <2>2. Kept(d)'
    <3> SUFFICES ASSUME NEW v \in targets'[d]
                 PROVE  v \in todo'[d] \/ v \in excused'[d] \/ status'[v] = "gone"
                          \/ InLog(d, v)'
      BY DEF Kept
    <3>1. v \in targets[d] /\ v \in Endpoints /\ Kept(d) /\ cur[d] # v
      BY <1>t, <1>b, <1>k, <2>1
    <3>2. InLog(d, v) => InLog(d, v)'
      BY <2>1 DEF InLog
    <3>3. todo'[d] = todo[d] \ {w} /\ excused'[d] = excused[d] \cup {w}
      BY <1>t, <2>1
    <3> QED
      BY <2>1, <3>1, <3>2, <3>3 DEF Kept
  <2> QED
    BY <1>t, <1>q, <2>1, <2>2
<1>3. ASSUME NEW d \in Calls, NEW w \in Endpoints, FindEndpoint(d, w)
      PROVE LogInv'
  <2>1. /\ UNCHANGED <<status, log, targets, excused, got>>
        /\ \A v \in Endpoints : lost[v] \subseteq lost'[v]
        /\ \A c \in Calls \ {d} : cur'[c] = cur[c] /\ todo'[c] = todo[c] /\ pc'[c] = pc[c]
        /\ pc[d] = "loop" /\ cur'[d] = w /\ todo'[d] = todo[d] \ {w}
    BY <1>t, <1>3 DEF FindEndpoint
  <2>2. Kept(d)'
    <3> SUFFICES ASSUME NEW v \in targets'[d]
                 PROVE  v \in todo'[d] \/ cur'[d] = v \/ v \in excused'[d]
                          \/ status'[v] = "gone" \/ InLog(d, v)'
      BY DEF Kept
    <3>1. v \in targets[d] /\ v \in Endpoints /\ Kept(d) /\ cur[d] # v
      BY <1>t, <1>b, <1>k, <2>1
    <3>2. InLog(d, v) => InLog(d, v)'
      BY <2>1 DEF InLog
    <3> QED
      BY <2>1, <3>1, <3>2 DEF Kept
  <2> QED
    BY <1>q, <2>1, <2>2
\* A step that leaves the loop where it is.
<1>s. ASSUME NEW d \in Calls, UNCHANGED <<log, targets, excused, todo, cur>>,
             \A v \in Endpoints : /\ got[v] \subseteq got'[v] /\ lost[v] \subseteq lost'[v]
                                  /\ status[v] = "gone" => status'[v] = "gone",
             \A c \in Calls \ {d} : pc'[c] = pc[c],
             pc[d] # "ended"
      PROVE  LogInv'
  <2>1. \A v \in Endpoints : InLog(d, v) => InLog(d, v)'
    BY <1>s DEF InLog
  <2>2. Kept(d) /\ targets[d] \subseteq Endpoints
    BY <1>t, <1>k, <1>s
  <2>3. Kept(d)'
    BY <1>s, <2>1, <2>2 DEF Kept
  <2> QED
    BY <1>q, <1>s, <2>3
<1>4. ASSUME NEW d \in Calls, PostOk(d) \/ PostFails(d) PROVE LogInv'
  <2>1. CASE PostOk(d)
    BY <1>t, <1>s, <2>1 DEF PostOk
  <2>2. CASE PostFails(d)
    BY <1>t, <1>s, <2>2 DEF PostFails
  <2> QED
    BY <1>4, <2>1, <2>2
<1>5. ASSUME NEW d \in Calls, ResetCount(d) \/ CountFailure(d) \/ Disable(d)
      PROVE LogInv'
  <2>1. CASE ResetCount(d)
    BY <1>t, <1>s, <2>1 DEF ResetCount
  <2>2. CASE CountFailure(d)
    BY <1>t, <1>s, <2>2 DEF CountFailure
  <2>3. CASE Disable(d)
    BY <1>t, <1>s, <2>3 DEF Disable
  <2> QED
    BY <1>5, <2>1, <2>2, <2>3
<1>6. ASSUME NEW d \in Calls, RecordDelivery(d) PROVE LogInv'
  <2>w. PICK w \in Endpoints : w = cur[d]
    BY <1>6 DEF RecordDelivery, AtInv, Writing
  <2>o. PICK o \in {"DELIVERED", "FAILED"} :
          o = IF pc[d] = "delivered" THEN "DELIVERED" ELSE "FAILED"
    OBVIOUS
  <2>1. /\ log' = log \cup {<<d, w, o, 1>>}
        /\ UNCHANGED <<status, targets, excused, got, lost>>
        /\ todo'[d] = todo[d] /\ pc[d] # "ended"
        /\ \A c \in Calls \ {d} : cur'[c] = cur[c] /\ todo'[c] = todo[c] /\ pc'[c] = pc[c]
    BY <1>t, <1>6, <2>w, <2>o DEF RecordDelivery
  <2>2. /\ o = "DELIVERED" => d \in got[w]
        /\ o = "FAILED" => d \in lost[w]
        /\ d # TestEvent
    BY <1>a, <1>6, <2>w, <2>o DEF RecordDelivery, VisitInv
  <2>3. \A c \in Calls, v \in Endpoints : InLog(c, v) => InLog(c, v)'
    BY <2>1 DEF InLog
  <2>4. InLog(d, w)'
    BY <2>1 DEF InLog
  <2>5. LogRows'
    <3> SUFFICES ASSUME NEW v \in Endpoints
                 PROVE  /\ \A c \in Calls : <<c, v, "DELIVERED", 1>> \in log' => c \in got[v]
                        /\ \A c \in Calls, n \in {1, 2} :
                             <<c, v, "FAILED", n>> \in log' => c \in lost[v]
                        /\ \A n \in {1, 2} : <<TestEvent, v, "FAILED", n>> \notin log'
      BY <2>1 DEF LogRows
    <3>1. /\ \A c \in Calls : <<c, v, "DELIVERED", 1>> \in log => c \in got[v]
          /\ \A c \in Calls, n \in {1, 2} : <<c, v, "FAILED", n>> \in log => c \in lost[v]
          /\ \A n \in {1, 2} : <<TestEvent, v, "FAILED", n>> \notin log
      BY DEF LogInv, LogRows
    <3>2. \A c \in Calls, n \in {1, 2} :
            /\ <<c, v, "DELIVERED", 1>> = <<d, w, o, 1>> => c = d /\ v = w /\ o = "DELIVERED"
            /\ <<c, v, "FAILED", n>> = <<d, w, o, 1>> => c = d /\ v = w /\ o = "FAILED"
            /\ <<TestEvent, v, "FAILED", n>> # <<d, w, o, 1>>
      BY <2>2
    <3> QED
      BY <2>1, <2>2, <3>1, <3>2
  <2>6. ASSUME NEW c \in Calls, pc'[c] # "ended", NEW v \in targets'[c]
        PROVE  v \in todo'[c] \/ cur'[c] = v \/ v \in excused'[c] \/ status'[v] = "gone"
                 \/ InLog(c, v)'
    <3>1. v \in targets[c] /\ v \in Endpoints /\ Kept(c)
      BY <1>t, <1>k, <2>1, <2>6
    <3>2. CASE c = d /\ v = w
      BY <2>4, <3>2
    <3>3. CASE ~(c = d /\ v = w)
      BY <2>1, <2>3, <2>w, <2>6, <3>1, <3>3 DEF Kept
    <3> QED
      BY <3>2, <3>3
  <2>7. \A c \in Calls : pc'[c] # "ended" => Kept(c)'
    BY <2>6 DEF Kept
  <2> QED
    BY <2>5, <2>7 DEF LogInv
<1>7. ASSUME NEW d \in Calls, WriteFails(d) \/ Crash(d) PROVE LogInv'
  <2>1. CASE WriteFails(d)
    <3>1. /\ Continue(d, todo[d]) /\ UNCHANGED <<status, log, targets, got, lost>>
          /\ excused' = [excused EXCEPT ![d] = excused[d] \cup {cur[d]}]
          /\ pc[d] # "ended"
      BY <2>1 DEF WriteFails, Writing
    <3>2. Kept(d)'
      <4> SUFFICES ASSUME NEW v \in targets'[d]
                   PROVE  v \in todo'[d] \/ v \in excused'[d] \/ status'[v] = "gone"
                            \/ InLog(d, v)'
        BY DEF Kept
      <4>1. v \in targets[d] /\ v \in Endpoints /\ Kept(d)
        BY <1>t, <1>k, <3>1
      <4>2. InLog(d, v) => InLog(d, v)'
        BY <3>1 DEF InLog
      <4>3. todo'[d] = todo[d] /\ excused'[d] = excused[d] \cup {cur[d]}
        BY <1>t, <3>1
      <4> QED
        BY <3>1, <4>1, <4>2, <4>3 DEF Kept
    <3> QED
      BY <1>t, <1>q, <3>1, <3>2
  <2>2. CASE Crash(d)
    BY <1>t, <1>q, <2>2 DEF Crash
  <2> QED
    BY <1>7, <2>1, <2>2
\* A step that is no call's.
<1>p. ASSUME UNCHANGED <<targets, todo, cur, excused, pc>>,
             \A v \in Endpoints : status[v] = "gone" => status'[v] = "gone",
             \A c \in Calls, v \in Endpoints : InLog(c, v) => status'[v] = "gone" \/ InLog(c, v)'
      PROVE  \A c \in Calls : pc'[c] # "ended" => Kept(c)'
  <2> SUFFICES ASSUME NEW c \in Calls, pc'[c] # "ended", NEW v \in targets'[c]
               PROVE  v \in todo'[c] \/ cur'[c] = v \/ v \in excused'[c]
                        \/ status'[v] = "gone" \/ InLog(c, v)'
    BY DEF Kept
  <2>1. v \in targets[c] /\ v \in Endpoints /\ Kept(c)
    BY <1>t, <1>k, <1>p
  <2> QED
    BY <1>p, <2>1 DEF Kept
<1>8. ASSUME NEW w \in Endpoints, Remove(w) PROVE LogInv'
  <2>1. /\ log' = {r \in log : r[2] # w} /\ status'[w] = "gone"
        /\ \A v \in Endpoints : status[v] = "gone" => status'[v] = "gone"
        /\ UNCHANGED <<callVars, historyVars>>
    BY <1>t, <1>8 DEF Remove
  <2>2. LogRows'
    BY <2>1 DEF LogInv, LogRows
  <2>3. \A c \in Calls, v \in Endpoints : InLog(c, v) => status'[v] = "gone" \/ InLog(c, v)'
    BY <2>1 DEF InLog
  <2> QED
    BY <1>p, <2>1, <2>2, <2>3 DEF LogInv
<1>9. CASE UNCHANGED vars
  <2>1. LogRows'
    BY <1>9 DEF vars, LogInv, LogRows
  <2>2. \A c \in Calls, v \in Endpoints : InLog(c, v) => InLog(c, v)'
    BY <1>9 DEF vars, InLog
  <2> QED
    BY <1>p, <1>9, <2>1, <2>2 DEF vars, LogInv
<1>10. ASSUME NEW w \in Endpoints, SendTestEvent(w) PROVE LogInv'
  <2>1. /\ log' = log \cup {<<TestEvent, w, "DELIVERED", 1>>}
        /\ UNCHANGED <<status, callVars, historyVars>>
    BY <1>10 DEF SendTestEvent
  <2>2. \A c \in Calls, v \in Endpoints, n \in {1, 2} :
          /\ <<c, v, "DELIVERED", 1>> # <<TestEvent, w, "DELIVERED", 1>>
          /\ <<c, v, "FAILED", n>> # <<TestEvent, w, "DELIVERED", 1>>
          /\ <<TestEvent, v, "FAILED", n>> # <<TestEvent, w, "DELIVERED", 1>>
    BY <1>a
  <2>3. LogRows'
    BY <2>1, <2>2 DEF LogInv, LogRows
  <2>4. \A c \in Calls, v \in Endpoints : InLog(c, v) => InLog(c, v)'
    BY <2>1 DEF InLog
  <2> QED
    BY <1>p, <2>1, <2>3, <2>4 DEF LogInv
<1>11. ASSUME NEW r \in log, Redeliver(r) PROVE LogInv'
  <2>1. PICK c \in Calls \cup {TestEvent}, w \in Endpoints,
              o \in {"DELIVERED", "FAILED"}, n \in {1, 2} : r = <<c, w, o, n>>
    BY <1>t DEF Delivery
  <2>2. /\ log' = (log \ {r}) \cup {<<c, w, "DELIVERED", 2>>}
        /\ UNCHANGED <<status, callVars, historyVars>>
    BY <1>11, <2>1 DEF Redeliver
  <2>3. \A d \in Calls, v \in Endpoints : InLog(d, v) => InLog(d, v)'
    BY <2>1, <2>2 DEF InLog
  <2>4. \A d \in Calls, v \in Endpoints, m \in {1, 2} :
          /\ <<d, v, "FAILED", m>> \in log' => <<d, v, "FAILED", m>> \in log
          /\ <<TestEvent, v, "FAILED", m>> \in log' => <<TestEvent, v, "FAILED", m>> \in log
          /\ <<d, v, "DELIVERED", 1>> \in log' => <<d, v, "DELIVERED", 1>> \in log
    BY <2>2
  <2>5. LogRows'
    BY <2>2, <2>4 DEF LogInv, LogRows
  <2> QED
    BY <1>p, <2>2, <2>3, <2>5 DEF LogInv
<1> QED
  BY <1>1, <1>2, <1>3, <1>4, <1>5, <1>6, <1>7, <1>8, <1>9, <1>10, <1>11 DEF Next, Step

\* What the dispatcher wrote agrees with what the endpoints saw, a row that
\* the inspector wrote is told by its fields, and nothing is missing but what
\* a throwing query or a crash took.
THEOREM LogTruthful == Spec => []LogIsTruthful
<1>1. Init => FanoutInv /\ LogInv
  BY DEF Init, FanoutInv, LogInv, LogRows, Kept
<1>2. TypeOK /\ AtInv /\ VisitInv /\ FanoutInv /\ LogInv => LogIsTruthful
  <2> SUFFICES ASSUME TypeOK, AtInv, VisitInv, FanoutInv, LogInv PROVE LogIsTruthful
    OBVIOUS
  <2>1. ASSUME NEW r \in log
        PROVE /\ r[3] = "FAILED" => r[1] \in lost[r[2]]
              /\ r[3] = "DELIVERED" /\ r[1] # TestEvent /\ r[4] = 1 => r[1] \in got[r[2]]
    <3>1. PICK d \in Calls \cup {TestEvent}, w \in Endpoints,
                o \in {"DELIVERED", "FAILED"}, n \in {1, 2} : r = <<d, w, o, n>>
      BY DEF TypeOK, Delivery
    <3> QED
      BY <3>1 DEF LogInv, LogRows
  <2>2. \A w \in Endpoints : got[w] \cap lost[w] = {}
    BY DEF VisitInv, TypeOK
  <2>3. ASSUME NEW d \in Calls, pc[d] = "done", NEW w \in targets[d] \ excused[d],
               status[w] # "gone"
        PROVE \E r \in log : r[1] = d /\ r[2] = w
    <3>1. w \in Endpoints /\ w \notin todo[d] /\ cur[d] # w
      BY <2>3 DEF TypeOK, AtInv, FanoutInv, Writing
    <3>2. InLog(d, w)
      BY <2>3, <3>1 DEF LogInv, Kept
    <3> QED
      BY <3>2 DEF InLog
  <2> QED
    BY <2>1, <2>2, <2>3 DEF LogIsTruthful
<1> QED
  BY <1>1, <1>2, Visits, FanoutStep, LogStep, PTL DEF Spec

-----------------------------------------------------------------------------
(* The counter, when deliveries do not overlap.                            *)

\* What the row of w says once the delivery in phase p has come so far: x is
\* the copy that the delivery holds.
Row(w, p, x) ==
  /\ p = "post" => status[w] = "ACTIVE" /\ failures[w] = streak[w]
                     /\ x = streak[w] /\ streak[w] < Threshold
  /\ p = "accepted" => status[w] = "ACTIVE" /\ streak[w] = 0
  /\ p = "delivered" => status[w] = "ACTIVE" /\ streak[w] = 0 /\ failures[w] = 0
  /\ p = "failed" => status[w] = "ACTIVE" /\ streak[w] = x + 1
  /\ p = "disable" => status[w] = "ACTIVE" /\ streak[w] = x + 1
                        /\ failures[w] = streak[w] /\ Threshold <= streak[w]
  /\ p = "undelivered" => /\ failures[w] = streak[w]
                          /\ status[w] = "DISABLED" <=> Threshold <= streak[w]

\* At most one delivery is under way, and counter and status are as far as
\* it is; without one they are exact.
AloneAt(w) ==
  alone[w] =>
    /\ \A c, d \in Calls : cur[c] = w /\ cur[d] = w => c = d
    /\ status[w] # "gone" =>
         /\ \A d \in Calls : cur[d] = w => Row(w, pc[d], snap[d])
         /\ (\A d \in Calls : cur[d] # w) =>
              /\ failures[w] = streak[w]
              /\ status[w] = "DISABLED" <=> Threshold <= streak[w]

AloneInv == \A w \in Endpoints : AloneAt(w)

\* A step that leaves the row of w and the calls at w as they are.
LEMMA AloneQuiet ==
  ASSUME NEW w \in Endpoints, AloneAt(w),
         status'[w] = status[w], failures'[w] = failures[w], streak'[w] = streak[w],
         alone'[w] => alone[w],
         \A c \in Calls : cur'[c] = w <=> cur[c] = w,
         \A c \in Calls : cur[c] = w => pc'[c] = pc[c] /\ snap'[c] = snap[c]
  PROVE  AloneAt(w)'
BY DEF AloneAt, Row

\* The flag that a step writes is the flag it reads back.
LEMMA FlagWritten ==
  ASSUME NEW f \in [Endpoints -> BOOLEAN], NEW w \in Endpoints, NEW b \in BOOLEAN
  PROVE  [f EXCEPT ![w] = b][w] = b
OBVIOUS

\* Each phase of a lone delivery hands the row on to the next.
LEMMA AloneStep == TypeOK /\ AtInv /\ AloneInv /\ [Next]_vars => AloneInv'
<1> SUFFICES ASSUME TypeOK, AtInv, AloneInv, [Next]_vars PROVE AloneInv'
  OBVIOUS
<1> USE WebhooksAssumption DEF TypeOK, AtInv, AloneInv, AloneAt, Row, Writing, rowVars,
                               callVars, historyVars, Continue, GiveUpOn, At
<1>1. ASSUME NEW d \in Calls, FindActiveSubscribers(d) \/ SubscribersFail(d)
      PROVE AloneInv'
  <2>1. /\ UNCHANGED <<status, failures, streak, alone>>
        /\ cur[d] \notin Endpoints /\ cur'[d] \notin Endpoints
        /\ \A c \in Calls : c # d => UNCHANGED <<cur[c], snap[c], pc[c]>>
    <3> HIDE DEF AloneInv
    <3>1. CASE FindActiveSubscribers(d)
      BY <3>1 DEF FindActiveSubscribers
    <3>2. CASE SubscribersFail(d)
      BY <3>2 DEF SubscribersFail
    <3> QED
      BY <1>1, <3>1, <3>2
  <2> HIDE DEF AloneAt
  <2> SUFFICES ASSUME NEW v \in Endpoints PROVE AloneAt(v)'
    OBVIOUS
  <2>2. \A c \in Calls : /\ cur'[c] = v <=> cur[c] = v
                         /\ cur[c] = v => pc'[c] = pc[c] /\ snap'[c] = snap[c]
    BY <2>1
  <2> QED
    BY <2>1, <2>2, AloneQuiet
<1>2. ASSUME NEW d \in Calls, NEW w \in Endpoints,
             Undeclared(d, w) \/ SkipEndpoint(d, w) \/ FindFails(d, w)
      PROVE AloneInv'
  <2>1. /\ UNCHANGED <<status, failures, streak, alone>>
        /\ cur[d] \notin Endpoints /\ cur'[d] \notin Endpoints
        /\ \A c \in Calls : c # d => UNCHANGED <<cur[c], snap[c], pc[c]>>
    <3> HIDE DEF AloneInv
    <3>1. GiveUpOn(d, w) /\ UNCHANGED <<status, failures, streak, alone>> /\ pc[d] = "loop"
      BY <1>2 DEF Undeclared, SkipEndpoint, FindFails
    <3> QED
      BY <3>1
  <2> HIDE DEF AloneAt
  <2> SUFFICES ASSUME NEW v \in Endpoints PROVE AloneAt(v)'
    OBVIOUS
  <2>2. \A c \in Calls : /\ cur'[c] = v <=> cur[c] = v
                         /\ cur[c] = v => pc'[c] = pc[c] /\ snap'[c] = snap[c]
    BY <2>1
  <2> QED
    BY <2>1, <2>2, AloneQuiet
<1>3. ASSUME NEW d \in Calls, NEW w \in Endpoints, FindEndpoint(d, w)
      PROVE AloneInv'
  <2> SUFFICES ASSUME NEW v \in Endpoints PROVE AloneAt(v)'
    BY DEF AloneInv
  <2>1. cur[d] \notin Endpoints
    BY <1>3 DEF FindEndpoint
  <2>2. CASE v # w
    <3>1. AloneAt(v)
      BY DEF AloneInv
    <3>2. \A c \in Calls : /\ cur'[c] = v <=> cur[c] = v
                           /\ cur[c] = v => pc'[c] = pc[c] /\ snap'[c] = snap[c]
      BY <1>3, <2>1, <2>2 DEF FindEndpoint
    <3>3. /\ status'[v] = status[v] /\ failures'[v] = failures[v]
          /\ streak'[v] = streak[v] /\ alone'[v] = alone[v]
      BY <1>3, <2>2 DEF FindEndpoint
    <3> HIDE DEF AloneAt
    <3> QED
      BY <3>1, <3>2, <3>3, AloneQuiet
  <2>3. CASE v = w /\ alone'[w]
    <3>a. alone' = [alone EXCEPT ![w] = alone[w] /\ \A c \in Calls : ~At(c, w)]
      BY <1>3 DEF FindEndpoint
    <3>b. alone'[w] = (alone[w] /\ \A c \in Calls : ~At(c, w))
      <4> DEFINE b == alone[w] /\ \A c \in Calls : ~At(c, w)
      <4>1. b \in BOOLEAN /\ alone \in [Endpoints -> BOOLEAN]
        OBVIOUS
      <4> HIDE DEF b
      <4>2. alone' = [alone EXCEPT ![w] = b]
        BY <3>a DEF b
      <4>3. alone'[w] = b
        BY <4>1, <4>2, FlagWritten
      <4> QED
        BY <4>3 DEF b
    <3>1. alone[w] /\ \A c \in Calls : cur[c] # w
      BY <2>3, <3>b, Zenon DEF At
    <3>2. failures[w] = streak[w] /\ streak[w] < Threshold /\ status[w] = "ACTIVE"
      BY <1>3, <3>1, SMTT(30) DEF FindEndpoint
    <3>3. /\ \A c \in Calls : cur'[c] = w <=> c = d
          /\ UNCHANGED <<status, failures>>
          /\ snap'[d] = streak[w]
          /\ \/ pc'[d] = "post" /\ streak'[w] = streak[w]
             \/ pc'[d] = "failed" /\ streak'[w] = streak[w] + 1
      BY <1>3, <3>1, <3>2 DEF FindEndpoint
    <3> QED
      BY <2>3, <3>2, <3>3
  <2> QED
    BY <2>2, <2>3
<1>4. ASSUME NEW d \in Calls, PostOk(d) PROVE AloneInv'
  BY <1>4 DEF PostOk
<1>5. ASSUME NEW d \in Calls, PostFails(d) PROVE AloneInv'
  BY <1>5 DEF PostFails
<1>6. ASSUME NEW d \in Calls, ResetCount(d) PROVE AloneInv'
  BY <1>6 DEF ResetCount, SetFailureCount
<1>7. ASSUME NEW d \in Calls, CountFailure(d) PROVE AloneInv'
  BY <1>7 DEF CountFailure, SetFailureCount
<1>8. ASSUME NEW d \in Calls, Disable(d) PROVE AloneInv'
  BY <1>8 DEF Disable
<1>9. ASSUME NEW d \in Calls, RecordDelivery(d) PROVE AloneInv'
  BY <1>9 DEF RecordDelivery
<1>10. ASSUME NEW d \in Calls, WriteFails(d) \/ Crash(d) PROVE AloneInv'
  <2>1. /\ UNCHANGED <<status, failures, streak>>
        /\ cur'[d] \notin Endpoints
        /\ \A c \in Calls : c # d => UNCHANGED <<cur[c], snap[c], pc[c]>>
    BY <1>10 DEF WriteFails, Crash
  <2> SUFFICES ASSUME NEW v \in Endpoints PROVE AloneAt(v)'
    BY DEF AloneInv
  <2>2. CASE cur[d] = v
    <3>1. ~alone'[v]
      <4> HIDE DEF AloneInv, AloneAt
      <4>1. CASE WriteFails(d)
        BY <2>2, <4>1 DEF WriteFails
      <4>2. CASE Crash(d)
        <5>1. alone' = [u \in Endpoints |-> alone[u] /\ ~At(d, u)]
          BY <4>2 DEF Crash
        <5>2. alone'[v] = (alone[v] /\ ~At(d, v))
          BY <5>1, Zenon
        <5> QED
          BY <2>2, <5>2, Zenon DEF At
      <4> QED
        BY <1>10, <4>1, <4>2
    <3> QED
      BY <3>1
  <2>3. CASE cur[d] # v
    <3>1. alone'[v] = alone[v]
      BY <1>10, <2>3, SMTT(30) DEF WriteFails, Crash
    <3>2. \A c \in Calls : /\ cur'[c] = v <=> cur[c] = v
                           /\ cur[c] = v => pc'[c] = pc[c] /\ snap'[c] = snap[c]
      BY <2>1, <2>3
    <3>3. AloneAt(v)
      BY DEF AloneInv
    <3> HIDE DEF AloneAt
    <3> QED
      BY <2>1, <3>1, <3>2, <3>3, AloneQuiet
  <2> QED
    BY <2>2, <2>3
<1>11. ASSUME NEW w \in Endpoints, Remove(w) PROVE AloneInv'
  BY <1>11 DEF Remove
<1>12. CASE UNCHANGED vars
  BY <1>12 DEF vars
<1>13. ASSUME Inspect PROVE AloneInv'
  <2>1. UNCHANGED <<status, failures, streak, alone, cur, pc, snap>>
    BY <1>13, InspectWrites
  <2> HIDE DEF AloneAt
  <2> SUFFICES ASSUME NEW v \in Endpoints PROVE AloneAt(v)'
    OBVIOUS
  <2> QED
    BY <2>1, AloneQuiet
<1> QED
  BY <1>1, <1>2, <1>3, <1>4, <1>5, <1>6, <1>7, <1>8, <1>9, <1>10, <1>11, <1>12, <1>13
     DEF Inspect, Next, Step

\* Deliveries that do not overlap count exactly and disable exactly at the
\* threshold.
THEOREM CountExact == Spec => []CountIsExactWhenAlone
<1>1. Init => AloneInv
  BY WebhooksAssumption DEF Init, AloneInv, AloneAt
<1>2. TypeOK /\ AloneInv => CountIsExactWhenAlone
  BY WebhooksAssumption DEF TypeOK, AloneInv, AloneAt, CountIsExactWhenAlone, At
<1> QED
  BY <1>1, <1>2, TypeCorrect, AloneStep, PTL DEF Spec
=============================================================================
