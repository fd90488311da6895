---------------------------- MODULE OutboxProofs ----------------------------
(***************************************************************************)
(* Proofs about Outbox, for any number of entries, replicas, overlapping   *)
(* ticks and dispatchers, any batch size and any set of faults.            *)
(***************************************************************************)
EXTENDS Outbox, TLAPS

\* A claim of claimBatch() takes entries whose processed_at is NULL.
LEMMA BatchIsClaimable ==
  \A B \in Batches : B \subseteq Entries /\ \A e \in B : row[e] = "null"
BY DEF Batches, Claimable

\* Every reachable state of the outbox is well typed: the table, the
\* life cycle of OutboxWorkerLifecycle and the running runOnce() calls.
THEOREM TypeCorrect == Spec => []TypeOK
<1> USE OutboxAssumption
<1>1. Init => TypeOK
  BY DEF Init, TypeOK, RowState, BootState, Phase
<1>2. TypeOK /\ [Next]_vars => TypeOK'
  <2> SUFFICES ASSUME TypeOK, [Next]_vars PROVE TypeOK'
    OBVIOUS
  <2> USE DEF TypeOK, tableVars, bootVars, runVars
  <2>1. ASSUME NEW r \in Replicas, BootReset(r) PROVE TypeOK'
    BY <2>1 DEF BootReset, RowState, BootState
  <2>2. ASSUME NEW r \in Replicas, BootResetFails(r) PROVE TypeOK'
    BY <2>2 DEF BootResetFails, BootState
  <2>3. ASSUME NEW r \in Replicas, BootSeed(r) PROVE TypeOK'
    BY <2>3 DEF BootSeed, BootState, InTable
  <2>4. ASSUME NEW r \in Replicas, BootSeedFails(r) PROVE TypeOK'
    BY <2>4 DEF BootSeedFails, BootState
  <2>5. ASSUME NEW r \in Replicas, Shutdown(r) PROVE TypeOK'
    BY <2>5 DEF Shutdown, BootState
  <2>6. ASSUME NEW r \in Replicas, Crash(r) PROVE TypeOK'
    BY <2>6 DEF Crash, RowState, BootState, Phase
  <2>7. ASSUME NEW r \in Replicas, NEW e \in Entries, Record(r, e) PROVE TypeOK'
    BY <2>7 DEF Record, RowState
  <2>8. ASSUME NEW e \in Entries, Append(e) PROVE TypeOK'
    BY <2>8 DEF Append, RowState
  <2>9. ASSUME NEW e \in Entries, AppendFails(e) PROVE TypeOK'
    BY <2>9 DEF AppendFails, RowState
  <2>10. ASSUME NEW t \in Runs, ClaimBatch(t) PROVE TypeOK'
    <3>1. PICK B \in Batches :
            /\ batch' = [batch EXCEPT ![t] = B]
            /\ row' = [e \in Entries |->
                         IF Durable /\ e \in B THEN "inflight" ELSE row[e]]
            /\ stale' = [e \in Entries |-> IF e \in B THEN FALSE ELSE stale[e]]
      BY <2>10 DEF ClaimBatch
    <3>2. B \subseteq Entries
      BY BatchIsClaimable
    <3>3. batch' \in [Runs -> SUBSET Entries]
      BY <3>1, <3>2
    <3>4. row' \in [Entries -> RowState] /\ stale' \in [Entries -> BOOLEAN]
      BY <3>1 DEF RowState
    <3> QED
      BY <2>10, <3>3, <3>4 DEF ClaimBatch, Phase
  <2>11. ASSUME NEW t \in Runs, NextEntry(t) PROVE TypeOK'
    <3>1. PICK e \in batch[t] :
            /\ cur' = [cur EXCEPT ![t] = e]
            /\ attempts' = [attempts EXCEPT ![e] = Attempted(e)]
      BY <2>11 DEF NextEntry
    <3>2. e \in Entries
      OBVIOUS
    <3>3. attempts' \in [Entries -> Nat]
      BY <3>1, <3>2 DEF Attempted
    <3>4. cur' \in [Runs -> Entries \cup {NoEntry}]
      BY <3>1, <3>2
    <3>5. phase' \in [Runs -> Phase] /\ waiting' \in [Runs -> SUBSET Dispatchers]
      BY <2>11 DEF NextEntry, Phase
    <3> QED
      BY <2>11, <3>3, <3>4, <3>5 DEF NextEntry
  <2>12. ASSUME NEW t \in Runs, NEW d \in Dispatchers, DispatchOk(t, d)
         PROVE TypeOK'
    BY <2>12 DEF DispatchOk
  <2>13. ASSUME NEW t \in Runs, NEW d \in Dispatchers, DispatchFails(t, d)
         PROVE TypeOK'
    BY <2>13 DEF DispatchFails
  <2>14. ASSUME NEW t \in Runs, MarkProcessed(t) PROVE TypeOK'
    BY <2>14 DEF MarkProcessed, FinishEntry, Processed, Phase, RowState
  <2>15. ASSUME NEW t \in Runs, DeadLetter(t) PROVE TypeOK'
    BY <2>15 DEF DeadLetter, FinishEntry, Processed, Phase, RowState
  <2>16. ASSUME NEW t \in Runs, LeaveUnprocessed(t) PROVE TypeOK'
    BY <2>16 DEF LeaveUnprocessed, FinishEntry, Phase
  <2>17. ASSUME NEW t \in Runs, RunFails(t) PROVE TypeOK'
    BY <2>17 DEF RunFails, Phase
  <2>18. ASSUME NEW e \in Entries, ClaimGoesStale(e) PROVE TypeOK'
    BY <2>18 DEF ClaimGoesStale
  <2>19. CASE UNCHANGED vars
    BY <2>19 DEF vars
  <2> QED
    BY <2>1, <2>2, <2>3, <2>4, <2>5, <2>6, <2>7, <2>8, <2>9, <2>10, <2>11,
       <2>12, <2>13, <2>14, <2>15, <2>16, <2>17, <2>18, <2>19
       DEF Next, Boot, RunStep
<1> QED
  BY <1>1, <1>2, PTL DEF Spec

-----------------------------------------------------------------------------
(* What a running runOnce() knows about the entry it works on.             *)

\* Entries in the hands of a call are in the table; the current entry is
\* one of them; as long as no dispatcher has rejected, those that are no
\* longer running have accepted it; the dead-letter branch is reached only
\* above the cap.
RunInv ==
  \A t \in Runs :
    /\ batch[t] \subseteq InTable
    /\ phase[t] = "idle" => batch[t] = {}
    /\ phase[t] \in {"dispatch", "dead"} => cur[t] \in batch[t]
    /\ (phase[t] = "dispatch" /\ ~failed[t]) =>
         Dispatchers \ waiting[t] \subseteq delivered[cur[t]]
    /\ phase[t] = "dead" => Capped /\ attempts[cur[t]] > MaxAttempts


LEMMA RunInvStep ==
  TypeOK /\ TypeOK' /\ RunInv /\ [Next]_vars => RunInv'
<1> SUFFICES ASSUME TypeOK, TypeOK', RunInv, [Next]_vars PROVE RunInv'
  OBVIOUS
<1> USE OutboxAssumption DEF TypeOK, RunInv, InTable, tableVars, bootVars, runVars
<1>1. ASSUME NEW r \in Replicas, Boot(r) \/ Shutdown(r) PROVE RunInv'
  BY <1>1 DEF Boot, BootReset, BootResetFails, BootSeed, BootSeedFails, Shutdown
<1>2. ASSUME NEW r \in Replicas, Crash(r) PROVE RunInv'
  BY <1>2 DEF Crash
<1>3. ASSUME NEW r \in Replicas, NEW e \in Entries, Record(r, e) PROVE RunInv'
  BY <1>3 DEF Record
<1>4. ASSUME NEW e \in Entries, Append(e) \/ AppendFails(e) PROVE RunInv'
  BY <1>4 DEF Append, AppendFails
<1>5. ASSUME NEW e \in Entries, ClaimGoesStale(e) PROVE RunInv'
  BY <1>5 DEF ClaimGoesStale
<1>6. ASSUME NEW t \in Runs, ClaimBatch(t) PROVE RunInv'
  BY <1>6, BatchIsClaimable DEF ClaimBatch
<1>7. ASSUME NEW t \in Runs, NextEntry(t) PROVE RunInv'
  BY <1>7 DEF NextEntry, Attempted
<1>8. ASSUME NEW t \in Runs, NEW d \in Dispatchers, DispatchOk(t, d) PROVE RunInv'
  BY <1>8 DEF DispatchOk
<1>9. ASSUME NEW t \in Runs, NEW d \in Dispatchers, DispatchFails(t, d) PROVE RunInv'
  BY <1>9 DEF DispatchFails
<1>10. ASSUME NEW t \in Runs, MarkProcessed(t) PROVE RunInv'
  BY <1>10 DEF MarkProcessed, FinishEntry, Processed
<1>11. ASSUME NEW t \in Runs, DeadLetter(t) PROVE RunInv'
  BY <1>11 DEF DeadLetter, FinishEntry, Processed
<1>12. ASSUME NEW t \in Runs, LeaveUnprocessed(t) PROVE RunInv'
  BY <1>12 DEF LeaveUnprocessed, FinishEntry
<1>13. ASSUME NEW t \in Runs, RunFails(t) PROVE RunInv'
  BY <1>13 DEF RunFails
<1>14. CASE UNCHANGED vars
  BY <1>14 DEF vars
<1> QED
  BY <1>1, <1>2, <1>3, <1>4, <1>5, <1>6, <1>7, <1>8, <1>9, <1>10, <1>11,
     <1>12, <1>13, <1>14 DEF Next, RunStep

LEMMA RunInvariant == Spec => []RunInv
<1>1. Init => RunInv
  BY DEF Init, RunInv
<1> QED
  BY <1>1, RunInvStep, TypeCorrect, PTL DEF Spec

\* An entry that a call has held for less than five minutes is still marked
\* as claimed, and not as stale, so no claim and no sweep can take it.
LeaseInv ==
  Durable =>
    \A t \in Runs : \A e \in batch[t] \ overdue[t] :
      /\ row[e] \in {"inflight", "processed"}
      /\ row[e] = "inflight" => ~stale[e]

LEMMA LeaseStep ==
  TypeOK /\ TypeOK' /\ RunInv /\ LeaseInv /\ [Next]_vars => LeaseInv'
<1> SUFFICES ASSUME TypeOK, TypeOK', RunInv, LeaseInv, [Next]_vars PROVE LeaseInv'
  OBVIOUS
<1> USE OutboxAssumption DEF TypeOK, LeaseInv, tableVars, bootVars, runVars
<1>1. ASSUME NEW r \in Replicas, Boot(r) \/ Shutdown(r) PROVE LeaseInv'
  BY <1>1 DEF Boot, BootReset, BootResetFails, BootSeed, BootSeedFails, Shutdown
<1>2. ASSUME NEW r \in Replicas, Crash(r) PROVE LeaseInv'
  BY <1>2 DEF Crash
<1>3. ASSUME NEW r \in Replicas, NEW e \in Entries, Record(r, e) PROVE LeaseInv'
  BY <1>3 DEF Record
<1>4. ASSUME NEW e \in Entries, Append(e) \/ AppendFails(e) PROVE LeaseInv'
  BY <1>4 DEF Append, AppendFails
<1>5. ASSUME NEW e \in Entries, ClaimGoesStale(e) PROVE LeaseInv'
  BY <1>5 DEF ClaimGoesStale
<1>6. ASSUME NEW t \in Runs, ClaimBatch(t) PROVE LeaseInv'
  BY <1>6, BatchIsClaimable DEF ClaimBatch
<1>7. ASSUME NEW t \in Runs, NextEntry(t) PROVE LeaseInv'
  BY <1>7 DEF NextEntry
<1>8. ASSUME NEW t \in Runs, NEW d \in Dispatchers,
             DispatchOk(t, d) \/ DispatchFails(t, d)
      PROVE LeaseInv'
  BY <1>8 DEF DispatchOk, DispatchFails
<1>9. ASSUME NEW t \in Runs, MarkProcessed(t) \/ DeadLetter(t) PROVE LeaseInv'
  BY <1>9 DEF MarkProcessed, DeadLetter, FinishEntry, Processed
<1>10. ASSUME NEW t \in Runs, LeaveUnprocessed(t) PROVE LeaseInv'
  BY <1>10 DEF LeaveUnprocessed, FinishEntry
<1>11. ASSUME NEW t \in Runs, RunFails(t) PROVE LeaseInv'
  BY <1>11 DEF RunFails
<1>12. CASE UNCHANGED vars
  BY <1>12 DEF vars
<1> QED
  BY <1>1, <1>2, <1>3, <1>4, <1>5, <1>6, <1>7, <1>8, <1>9, <1>10, <1>11, <1>12
     DEF Next, RunStep

LEMMA LeaseInvariant == Spec => []LeaseInv
<1>1. Init => LeaseInv
  BY DEF Init, LeaseInv
<1> QED
  BY <1>1, LeaseStep, RunInvariant, TypeCorrect, PTL DEF Spec

-----------------------------------------------------------------------------
(* The safety properties of Outbox.                                        *)

\* runOnce() takes no entry off the queue that some dispatcher has not
\* accepted, unless its attempts are used up: for every number of replicas,
\* overlapping ticks and dispatchers, and every combination of faults.
THEOREM NothingLeavesUndelivered == Spec => []ProcessedMeansDelivered
<1>1. Init => ProcessedMeansDelivered
  BY DEF Init, ProcessedMeansDelivered
<1>2. TypeOK /\ RunInv /\ ProcessedMeansDelivered /\ [Next]_vars
        => ProcessedMeansDelivered'
  <2> SUFFICES ASSUME TypeOK, RunInv, ProcessedMeansDelivered, [Next]_vars
               PROVE ProcessedMeansDelivered'
    OBVIOUS
  <2> USE OutboxAssumption
      DEF TypeOK, ProcessedMeansDelivered, tableVars, bootVars, runVars
  <2>1. ASSUME NEW r \in Replicas, Boot(r) \/ Shutdown(r)
        PROVE ProcessedMeansDelivered'
    BY <2>1 DEF Boot, BootReset, BootResetFails, BootSeed, BootSeedFails, Shutdown
  <2>2. ASSUME NEW r \in Replicas, Crash(r) PROVE ProcessedMeansDelivered'
    BY <2>2 DEF Crash
  <2>3. ASSUME NEW r \in Replicas, NEW e \in Entries, Record(r, e)
        PROVE ProcessedMeansDelivered'
    BY <2>3 DEF Record
  <2>4. ASSUME NEW e \in Entries, Append(e) \/ AppendFails(e) \/ ClaimGoesStale(e)
        PROVE ProcessedMeansDelivered'
    BY <2>4 DEF Append, AppendFails, ClaimGoesStale
  <2>5. ASSUME NEW t \in Runs, ClaimBatch(t) PROVE ProcessedMeansDelivered'
    BY <2>5 DEF ClaimBatch
  <2>6. ASSUME NEW t \in Runs, NextEntry(t) PROVE ProcessedMeansDelivered'
    BY <2>6 DEF NextEntry, Attempted
  <2>7. ASSUME NEW t \in Runs, NEW d \in Dispatchers,
               DispatchOk(t, d) \/ DispatchFails(t, d)
        PROVE ProcessedMeansDelivered'
    <3>1. CASE DispatchOk(t, d)
      <4>1. ASSUME NEW e \in Entries, delivered[e] = Dispatchers
            PROVE delivered'[e] = Dispatchers
        <5>1. Dispatchers \cup {d} = Dispatchers
          OBVIOUS
        <5> QED
          BY <3>1, <4>1, <5>1 DEF DispatchOk
      <4> QED
        BY <3>1, <4>1 DEF DispatchOk
    <3>2. CASE DispatchFails(t, d)
      BY <3>2 DEF DispatchFails
    <3> QED
      BY <2>7, <3>1, <3>2
  <2>8. ASSUME NEW t \in Runs, MarkProcessed(t) PROVE ProcessedMeansDelivered'
    <3>1. cur[t] \in Entries
      BY <2>8 DEF MarkProcessed, Settled, RunInv, InTable
    <3>2. Dispatchers \ {} \subseteq delivered[cur[t]]
      BY <2>8 DEF MarkProcessed, Settled, RunInv
    <3>3. delivered[cur[t]] \in SUBSET Dispatchers
      BY <3>1
    <3>4. delivered[cur[t]] = Dispatchers
      BY <3>2, <3>3
    <3> QED
      BY <2>8, <3>1, <3>4 DEF MarkProcessed, Processed
  <2>9. ASSUME NEW t \in Runs, DeadLetter(t) PROVE ProcessedMeansDelivered'
    BY <2>9 DEF DeadLetter, Processed, RunInv
  <2>10. ASSUME NEW t \in Runs, LeaveUnprocessed(t) \/ RunFails(t)
         PROVE ProcessedMeansDelivered'
    BY <2>10 DEF LeaveUnprocessed, RunFails
  <2>11. CASE UNCHANGED vars
    BY <2>11 DEF vars
  <2> QED
    BY <2>1, <2>2, <2>3, <2>4, <2>5, <2>6, <2>7, <2>8, <2>9, <2>10, <2>11
       DEF Next, RunStep
<1> QED
  BY <1>1, <1>2, TypeCorrect, RunInvariant, PTL DEF Spec

\* Two runOnce() calls, of one replica or of two, never hold the same entry
\* unless one of them has exceeded the five minutes that
\* resetStaleSentinels() leaves it.
THEOREM LeaseIsExclusive == Spec => []ClaimIsExclusiveLease
<1>1. Init => ClaimIsExclusiveLease
  BY DEF Init, ClaimIsExclusiveLease
<1>2. TypeOK /\ RunInv /\ LeaseInv /\ ClaimIsExclusiveLease /\ [Next]_vars
        => ClaimIsExclusiveLease'
  <2> SUFFICES ASSUME TypeOK, RunInv, LeaseInv, ClaimIsExclusiveLease, [Next]_vars,
                      Durable
               PROVE ClaimIsExclusiveLease'
    BY DEF ClaimIsExclusiveLease
  <2> USE DEF TypeOK, ClaimIsExclusiveLease, tableVars, bootVars, runVars
  <2>1. CASE UNCHANGED <<batch, overdue>>
    BY <2>1
  <2>2. ASSUME NEW r \in Replicas, Crash(r) PROVE ClaimIsExclusiveLease'
    BY <2>2 DEF Crash
  <2>3. ASSUME NEW t \in Runs, ClaimBatch(t) PROVE ClaimIsExclusiveLease'
    <3>1. PICK B \in Batches : batch' = [batch EXCEPT ![t] = B]
      BY <2>3 DEF ClaimBatch
    <3>2. \A u \in Runs : B \cap batch[u] \subseteq overdue[u]
      BY <3>1, BatchIsClaimable DEF LeaseInv
    <3> QED
      BY <2>3, <3>1, <3>2 DEF ClaimBatch
  <2>4. ASSUME NEW t \in Runs, FinishEntry(t) PROVE ClaimIsExclusiveLease'
    BY <2>4 DEF FinishEntry
  <2>5. ASSUME NEW t \in Runs, RunFails(t) PROVE ClaimIsExclusiveLease'
    BY <2>5 DEF RunFails
  <2>6. ASSUME NEW e \in Entries, ClaimGoesStale(e) PROVE ClaimIsExclusiveLease'
    BY <2>6 DEF ClaimGoesStale
  <2>7. CASE \E r \in Replicas : Boot(r) \/ Shutdown(r)
    BY <2>1, <2>7 DEF Boot, BootReset, BootResetFails, BootSeed, BootSeedFails, Shutdown
  <2>8. CASE \/ \E r \in Replicas, e \in Entries : Record(r, e)
             \/ \E e \in Entries : Append(e) \/ AppendFails(e)
    BY <2>1, <2>8 DEF Record, Append, AppendFails
  <2>9. ASSUME NEW t \in Runs, RunStep(t) PROVE ClaimIsExclusiveLease'
    BY <2>1, <2>4, <2>5, <2>9
       DEF RunStep, NextEntry, DispatchOk, DispatchFails, MarkProcessed,
           DeadLetter, LeaveUnprocessed
  <2>10. CASE UNCHANGED vars
    BY <2>1, <2>10 DEF vars
  <2> QED
    BY <2>2, <2>3, <2>6, <2>7, <2>8, <2>9, <2>10 DEF Next
<1> QED
  BY <1>1, <1>2, TypeCorrect, RunInvariant, LeaseInvariant, PTL DEF Spec

\* Rows that exist or whose INSERT is under way.
Numbered == {e \in Entries : row[e] \in {"sending", "null", "inflight", "processed"}}

\* The recorder of a live replica is ahead of every row; a replica that has
\* not seeded its recorder has no INSERT under way, and nothing at all in
\* the in-memory store.
SeqInv ==
  /\ \A r \in Replicas :
       /\ Alive(r) => \A e \in Numbered : seq[e] < nextSeq[r]
       /\ ~Alive(r) => Numbered \subseteq InTable
       /\ ~Alive(r) /\ ~Durable => Numbered = {}
  /\ \A e, f \in Numbered : e # f => seq[e] # seq[f]
  /\ \A e \in Entries : row[e] = "sending" => caller[e] \in Replicas

\* A single replica whose seed query works never gives two rows the same
\* sequence number, across any number of crashes and restarts.
THEOREM SeqNeverReused ==
  ASSUME NEW r0, Replicas = {r0}, "seed" \notin Faults
  PROVE  Spec => []SeqUnique
<1>1. Init => SeqInv
  BY DEF Init, SeqInv, Numbered, Alive
<1>2. TypeOK /\ TypeOK' /\ SeqInv /\ [Next]_vars => SeqInv'
  <2> SUFFICES ASSUME TypeOK, TypeOK', SeqInv, [Next]_vars PROVE SeqInv'
    OBVIOUS
  <2> USE DEF TypeOK, Alive, tableVars, bootVars, runVars
  <2>1. CASE /\ UNCHANGED <<seq, boot, nextSeq, caller>>
             /\ UNCHANGED <<Numbered, InTable>>
             /\ \A e \in Entries : row'[e] = "sending" => row[e] = "sending"
    BY <2>1 DEF SeqInv
  <2>2. ASSUME NEW r \in Replicas, BootReset(r) PROVE SeqInv'
    BY <2>2 DEF BootReset, SeqInv, Numbered, InTable
  <2>3. ASSUME NEW r \in Replicas, BootResetFails(r) PROVE SeqInv'
    BY <2>3 DEF BootResetFails, SeqInv, Numbered, InTable
  <2>4. ASSUME NEW r \in Replicas, BootSeed(r) PROVE SeqInv'
    <3>1. PICK m \in {0} \cup {seq[e] : e \in InTable} :
            /\ \A e \in InTable : seq[e] <= m
            /\ nextSeq' = [nextSeq EXCEPT ![r] = IF Durable /\ m + 1 > nextSeq[r]
                                                 THEN m + 1 ELSE nextSeq[r]]
      BY <2>4 DEF BootSeed
    <3>2. m \in Nat
      BY <3>1 DEF InTable
    <3>3. Numbered \subseteq InTable /\ (~Durable => Numbered = {})
      BY <2>4 DEF BootSeed, SeqInv
    <3>4. UNCHANGED <<Numbered, InTable, seq, row, caller>>
      BY <2>4 DEF BootSeed, Numbered, InTable
    <3>5. \A e \in Numbered : seq[e] < nextSeq'[r]
      BY <3>1, <3>2, <3>3, OutboxAssumption DEF Numbered
    <3> QED
      BY <2>4, <3>4, <3>5 DEF SeqInv, BootSeed
  <2>5. ASSUME NEW r \in Replicas, Shutdown(r) PROVE SeqInv'
    BY <2>5 DEF Shutdown, SeqInv, Numbered, InTable
  <2>6. ASSUME NEW r \in Replicas, Crash(r) PROVE SeqInv'
    BY <2>6 DEF Crash, SeqInv, Numbered, InTable
  <2>7. ASSUME NEW r \in Replicas, NEW e \in Entries, Record(r, e) PROVE SeqInv'
    BY <2>7 DEF Record, SeqInv, Numbered, InTable
  <2>8. ASSUME NEW e \in Entries, Append(e) \/ AppendFails(e) PROVE SeqInv'
    BY <2>8 DEF Append, AppendFails, SeqInv, Numbered, InTable
  <2>9. ASSUME NEW e \in Entries, ClaimGoesStale(e) PROVE SeqInv'
    BY <2>1, <2>9 DEF ClaimGoesStale, Numbered, InTable
  <2>10. ASSUME NEW t \in Runs, ClaimBatch(t) PROVE SeqInv'
    <3>1. UNCHANGED <<Numbered, InTable>>
      BY <2>10, BatchIsClaimable DEF ClaimBatch, Numbered, InTable
    <3> QED
      BY <2>1, <2>10, <3>1 DEF ClaimBatch
  <2>11. ASSUME NEW t \in Runs, MarkProcessed(t) \/ DeadLetter(t) PROVE SeqInv'
    BY <2>1, <2>11 DEF MarkProcessed, DeadLetter, Processed, Numbered, InTable
  <2>12. ASSUME NEW t \in Runs, NextEntry(t) \/ LeaveUnprocessed(t) \/ RunFails(t)
         PROVE SeqInv'
    BY <2>1, <2>12 DEF NextEntry, LeaveUnprocessed, RunFails, Numbered, InTable
  <2>13. ASSUME NEW t \in Runs, NEW d \in Dispatchers,
                DispatchOk(t, d) \/ DispatchFails(t, d)
         PROVE SeqInv'
    BY <2>1, <2>13 DEF DispatchOk, DispatchFails, Numbered, InTable
  <2>14. CASE UNCHANGED vars
    BY <2>1, <2>14 DEF vars, Numbered, InTable
  <2>15. ~ \E r \in Replicas : BootSeedFails(r)
    BY DEF BootSeedFails
  <2> QED
    BY <2>2, <2>3, <2>4, <2>5, <2>6, <2>7, <2>8, <2>9, <2>10, <2>11, <2>12,
       <2>13, <2>14, <2>15 DEF Next, Boot, RunStep
<1>3. SeqInv => SeqUnique
  BY DEF SeqInv, SeqUnique, Numbered, InTable
<1> QED
  BY <1>1, <1>2, <1>3, TypeCorrect, PTL DEF Spec

-----------------------------------------------------------------------------
(* The outbox implements OutboxPromise.                                    *)

\* Every behaviour of the outbox, its overlapping ticks, claims, sweeps,
\* faults and restarts included, is a behaviour of the at-least-once
\* promise it makes to the code that records events.
THEOREM ImplementsPromise == Spec => KeepsPromise
<1> USE OutboxAssumption
<1>1. Init => Promise!Init
  BY DEF Init, Promise!Init, Debt
<1>2. TypeOK /\ RunInv /\ [Next]_vars => [Promise!Next]_(Promise!vars)
  <2> SUFFICES ASSUME TypeOK, RunInv, [Next]_vars
               PROVE  [Promise!Next]_(Promise!vars)
    OBVIOUS
  <2> USE DEF TypeOK, tableVars, bootVars, runVars
  <2>1. CASE UNCHANGED <<row, attempts, delivered>>
    BY <2>1 DEF Promise!vars, Debt
  <2>2. ASSUME NEW D, NEW e \in Entries,
               row' = [row EXCEPT ![e] = D], UNCHANGED <<attempts, delivered>>,
               row[e] = "sending", D = "null"
        PROVE  Promise!Accept(e)
    BY <2>2 DEF Promise!Accept, Debt
  <2>3. ASSUME row' \in [Entries -> RowState], UNCHANGED <<attempts, delivered>>,
               \A e \in Entries :
                 \/ row'[e] = row[e]
                 \/ {row[e], row'[e]} \subseteq {"null", "inflight"}
                 \/ {row[e], row'[e]} \subseteq {"absent", "sending", "lost"}
        PROVE  UNCHANGED Promise!vars
    <3>1. \A e \in Entries : Debt(e)' = Debt(e)
      BY <2>3 DEF Debt
    <3> QED
      BY <2>3, <3>1 DEF Promise!vars
  <2>4. ASSUME NEW t \in Runs, MarkProcessed(t) \/ DeadLetter(t)
        PROVE  [Promise!Next]_(Promise!vars)
    <3>1. /\ cur[t] \in Entries
          /\ row[cur[t]] \in {"null", "inflight", "processed"}
      BY <2>4 DEF MarkProcessed, DeadLetter, Settled, RunInv, InTable
    <3>2. row' = Processed(cur[t]) /\ UNCHANGED <<attempts, delivered>>
      BY <2>4 DEF MarkProcessed, DeadLetter
    <3>3. CASE row[cur[t]] = "processed"
      BY <2>1, <3>1, <3>2, <3>3 DEF Processed
    <3>4. CASE row[cur[t]] # "processed"
      <4>1. row' = [row EXCEPT ![cur[t]] = "processed"]
        BY <3>1, <3>2, <3>4 DEF Processed
      <4>2. delivered[cur[t]] = Dispatchers \/ (Capped /\ attempts[cur[t]] > MaxAttempts)
        <5>1. CASE MarkProcessed(t)
          <6>1. Dispatchers \ {} \subseteq delivered[cur[t]]
            BY <5>1 DEF MarkProcessed, Settled, RunInv
          <6>2. delivered[cur[t]] \in SUBSET Dispatchers
            BY <3>1
          <6> QED
            BY <6>1, <6>2
        <5>2. CASE DeadLetter(t)
          BY <5>2 DEF DeadLetter, RunInv
        <5> QED
          BY <2>4, <5>1, <5>2
      <4>3. Promise!WriteOff(cur[t])
        <5>1. Debt(cur[t]) = "owed"
          BY <3>1, <3>4 DEF Debt
        <5>2. [e \in Entries |-> Debt(e)]'
                = [[e \in Entries |-> Debt(e)] EXCEPT ![cur[t]] = "settled"]
          BY <3>1, <4>1 DEF Debt
        <5> QED
          BY <3>1, <3>2, <4>2, <5>1, <5>2 DEF Promise!WriteOff
      <4> QED
        BY <3>1, <4>3 DEF Promise!Next
    <3> QED
      BY <3>3, <3>4
  <2>5. ASSUME NEW t \in Runs, NextEntry(t) PROVE [Promise!Next]_(Promise!vars)
    <3>1. PICK e \in batch[t] : attempts' = [attempts EXCEPT ![e] = Attempted(e)]
      BY <2>5 DEF NextEntry
    <3>2. e \in Entries /\ row[e] \in {"null", "inflight", "processed"}
      BY <3>1 DEF RunInv, InTable
    <3>3. UNCHANGED <<row, delivered>>
      BY <2>5 DEF NextEntry
    <3>4. CASE attempts[e] > MaxAttempts
      BY <2>1, <3>1, <3>2, <3>3, <3>4 DEF Attempted
    <3>5. CASE ~(attempts[e] > MaxAttempts)
      <4>1. Promise!Try(e)
        BY <3>1, <3>2, <3>3, <3>5 DEF Attempted, Promise!Try, Debt
      <4> QED
        BY <3>2, <4>1 DEF Promise!Next
    <3> QED
      BY <3>4, <3>5
  <2>6. ASSUME NEW t \in Runs, NEW d \in Dispatchers, DispatchOk(t, d)
        PROVE  [Promise!Next]_(Promise!vars)
    <3>1. cur[t] \in Entries /\ row[cur[t]] \in {"null", "inflight", "processed"}
      BY <2>6 DEF DispatchOk, RunInv, InTable
    <3>2. Promise!Deliver(cur[t], d)
      BY <2>6, <3>1 DEF DispatchOk, Promise!Deliver, Debt
    <3> QED
      BY <3>1, <3>2 DEF Promise!Next
  <2>7. ASSUME NEW e \in Entries, Append(e) PROVE [Promise!Next]_(Promise!vars)
    <3>1. Promise!Accept(e)
      BY <2>2, <2>7 DEF Append
    <3> QED
      BY <3>1 DEF Promise!Next
  <2>8. ASSUME NEW r \in Replicas, Boot(r) \/ Shutdown(r) \/ Crash(r)
        PROVE  UNCHANGED Promise!vars
    <3>1. CASE BootReset(r)
      BY <2>3, <3>1 DEF BootReset, RowState
    <3>2. CASE Crash(r)
      BY <2>3, <3>2 DEF Crash, RowState
    <3>3. CASE BootResetFails(r) \/ BootSeed(r) \/ BootSeedFails(r) \/ Shutdown(r)
      BY <2>3, <3>3 DEF BootResetFails, BootSeed, BootSeedFails, Shutdown
    <3> QED
      BY <2>8, <3>1, <3>2, <3>3 DEF Boot
  <2>9. ASSUME NEW r \in Replicas, NEW e \in Entries, Record(r, e)
        PROVE  UNCHANGED Promise!vars
    BY <2>3, <2>9 DEF Record, RowState
  <2>10. ASSUME NEW e \in Entries, AppendFails(e) \/ ClaimGoesStale(e)
         PROVE  UNCHANGED Promise!vars
    BY <2>1, <2>3, <2>10 DEF AppendFails, ClaimGoesStale, RowState
  <2>11. ASSUME NEW t \in Runs, ClaimBatch(t) PROVE UNCHANGED Promise!vars
    <3>1. PICK B \in Batches :
            row' = [e \in Entries |->
                      IF Durable /\ e \in B THEN "inflight" ELSE row[e]]
      BY <2>11 DEF ClaimBatch
    <3>2. \A e \in Entries : \/ row'[e] = row[e]
                             \/ row[e] = "null" /\ row'[e] = "inflight"
      BY <3>1, BatchIsClaimable
    <3>3. row' \in [Entries -> RowState]
      BY <3>1 DEF RowState
    <3> QED
      <4>1. \A e \in Entries : \/ row'[e] = row[e]
                               \/ {row[e], row'[e]} \subseteq {"null", "inflight"}
        BY <3>2
      <4>2. UNCHANGED <<attempts, delivered>>
        BY <2>11 DEF ClaimBatch
      <4> QED
        BY <2>3, <3>3, <4>1, <4>2
  <2>12. ASSUME NEW t \in Runs, LeaveUnprocessed(t) \/ RunFails(t)
         PROVE  UNCHANGED Promise!vars
    BY <2>3, <2>12 DEF LeaveUnprocessed, RunFails
  <2>13. ASSUME NEW t \in Runs, NEW d \in Dispatchers, DispatchFails(t, d)
         PROVE  UNCHANGED Promise!vars
    BY <2>3, <2>13 DEF DispatchFails
  <2>14. CASE UNCHANGED vars
    BY <2>1, <2>14 DEF vars
  <2> QED
    BY <2>4, <2>5, <2>6, <2>7, <2>8, <2>9, <2>10, <2>11, <2>12, <2>13, <2>14
       DEF Next, RunStep
<1> QED
  BY <1>1, <1>2, TypeCorrect, RunInvariant, PTL DEF Spec, KeepsPromise, Promise!Spec
=============================================================================
