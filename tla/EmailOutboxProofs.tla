-------------------------- MODULE EmailOutboxProofs --------------------------
(***************************************************************************)
(* Proofs about EmailOutbox, for any number of records, keys, overlapping  *)
(* ticks and attempts, any batch size and any set of faults.               *)
(***************************************************************************)
EXTENDS EmailOutbox, FiniteSetTheorems, TLAPS

\* listDispatchable() returns existing records.
LEMMA BatchIsMails == \A B \in Batches : B \subseteq Mails
BY DEF Batches, Dispatchable

\* The rank that enqueue() gives to createdAt is a natural number.
LEMMA RankIsNat == Cardinality({n \in Mails : created[n] # 0}) \in Nat
<1>1. {n \in Mails : created[n] # 0} \subseteq Mails
  OBVIOUS
<1>2. IsFiniteSet({n \in Mails : created[n] # 0})
  BY <1>1, EmailAssumption, FS_Subset
<1> QED
  BY <1>2, FS_CardinalityType

\* A tick holds a mail exactly while it is between claim() and the write of
\* the outcome, and the mails it holds are stored; a driver's acceptance is
\* remembered until the write; a record exists once enqueue() has stored it.
HoldInv ==
  /\ \A t \in Ticks :
       /\ (cur[t] = NoMail) <=> (phase[t] \in {"idle", "loop"})
       /\ cur[t] \in Mails => status[cur[t]] # "none"
       /\ phase[t] = "accepted" => accepted[cur[t]]
  /\ \A m \in Mails : (status[m] # "none") <=> (enq[m] = "stored")

\* Typing and HoldInv together: the write actions touch the record cur[t],
\* which is one only by HoldInv.
LEMMA TypeHoldStep ==
  TypeOK /\ HoldInv /\ [Next]_vars => TypeOK' /\ HoldInv'
<1> SUFFICES ASSUME TypeOK, HoldInv, [Next]_vars PROVE TypeOK' /\ HoldInv'
  OBVIOUS
<1> USE EmailAssumption DEF TypeOK, HoldInv, recordVars, tickVars, historyVars,
                            Status, Claim, Phase, Enq
<1>1. ASSUME NEW m \in Mails, Lookup(m) PROVE TypeOK' /\ HoldInv'
  <2> DEFINE k == Cardinality({n \in Mails : created[n] # 0})
  <2>1. created' = created \/ created' = [created EXCEPT ![m] = 1 + k]
    BY <1>1 DEF Lookup
  <2>2. k \in Nat
    BY RankIsNat
  <2> HIDE DEF k
  <2>3. created' \in [Mails -> Nat]
    BY <2>1, <2>2
  <2>4. /\ enq[m] = "new"
        /\ enq' = [enq EXCEPT ![m] = "existing"] \/ enq' = [enq EXCEPT ![m] = "looked"]
        /\ UNCHANGED <<status, attempts, due, claim, tickVars, historyVars>>
    BY <1>1 DEF Lookup
  <2>5. TypeOK'
    <3>1. enq' \in [Mails -> Enq]
      BY <2>4, SMTT(40)
    <3>2. UNCHANGED <<status, attempts, due, claim, phase, cands, seen, cur, accepted, tries,
                      miscounted, disturbed>>
      BY <2>4
    <3> QED
      BY <2>3, <3>1, <3>2
  <2>6. HoldInv'
    BY <2>4
  <2> QED
    BY <2>5, <2>6
<1>2. ASSUME NEW m \in Mails, Append(m) PROVE TypeOK' /\ HoldInv'
  BY <1>2 DEF Append
<1>3. ASSUME NEW m \in Mails, AppendFails(m) PROVE TypeOK' /\ HoldInv'
  BY <1>3 DEF AppendFails
<1>4. ASSUME NEW t \in Ticks, List(t) PROVE TypeOK' /\ HoldInv'
  <2>1. PICK B \in Batches : cands' = [cands EXCEPT ![t] = B]
    BY <1>4 DEF List
  <2>2. cands' \in [Ticks -> SUBSET Mails]
    BY <2>1, BatchIsMails
  <2> QED
    BY <1>4, <2>2 DEF List
<1>5. ASSUME NEW t \in Ticks, NEW m \in Mails, ClaimMail(t, m)
      PROVE TypeOK' /\ HoldInv'
  <2>1. TypeOK'
    BY <1>5 DEF ClaimMail, IsNext, CountTry
  <2>2. HoldInv'
    BY <1>5 DEF ClaimMail, IsNext
  <2> QED
    BY <2>1, <2>2
<1>6. ASSUME NEW t \in Ticks, NEW m \in Mails, SkipMail(t, m)
      PROVE TypeOK' /\ HoldInv'
  BY <1>6 DEF SkipMail, IsNext, After
<1>7. ASSUME NEW t \in Ticks, DriverAccepts(t) PROVE TypeOK' /\ HoldInv'
  BY <1>7 DEF DriverAccepts
<1>8. ASSUME NEW t \in Ticks, NEW kind \in {"transient", "permanent"},
             DriverThrows(t, kind)
      PROVE TypeOK' /\ HoldInv'
  BY <1>8 DEF DriverThrows
<1>9. ASSUME NEW t \in Ticks, MarkSent(t) PROVE TypeOK' /\ HoldInv'
  <2>1. cur[t] \in Mails
    BY <1>9, SMTT(40) DEF MarkSent
  <2> QED
    BY <1>9, <2>1 DEF MarkSent, Release
<1>10. ASSUME NEW t \in Ticks, MarkSentFails(t) PROVE TypeOK' /\ HoldInv'
  BY <1>10 DEF MarkSentFails
<1>11. ASSUME NEW t \in Ticks, MarkDeadLetter(t) PROVE TypeOK' /\ HoldInv'
  <2>1. cur[t] \in Mails
    BY <1>11 DEF MarkDeadLetter
  <2> QED
    BY <1>11, <2>1 DEF MarkDeadLetter, Release
<1>12. ASSUME NEW t \in Ticks, RecordTransientFailure(t)
       PROVE TypeOK' /\ HoldInv'
  <2>1. cur[t] \in Mails
    BY <1>12 DEF RecordTransientFailure
  <2>2. seen[t][cur[t]] \in 0 .. MaxAttempts - 1
    BY <2>1
  <2>3. seen[t][cur[t]] + 1 \in 0 .. MaxAttempts - 1
    BY <1>12, <2>2 DEF RecordTransientFailure, Terminal
  <2>4. attempts' \in [Mails -> 0 .. MaxAttempts - 1]
    BY <1>12, <2>1, <2>3 DEF RecordTransientFailure
  <2>5. disturbed' \in [Mails -> BOOLEAN]
    BY <1>12, <2>1 DEF RecordTransientFailure, LosesClaim
  <2> QED
    BY <1>12, <2>1, <2>4, <2>5 DEF RecordTransientFailure, Release
<1>13. ASSUME NEW t \in Ticks, TickDies(t) PROVE TypeOK' /\ HoldInv'
  BY <1>13 DEF TickDies
<1>14. ASSUME NEW m \in Mails, ClaimGoesStale(m) PROVE TypeOK' /\ HoldInv'
  BY <1>14 DEF ClaimGoesStale
<1>15. ASSUME NEW m \in Mails, BackoffElapses(m) PROVE TypeOK' /\ HoldInv'
  BY <1>15 DEF BackoffElapses
<1>16. ASSUME NEW m \in Mails, AdminRetry(m) PROVE TypeOK' /\ HoldInv'
  BY <1>16 DEF AdminRetry, Actionable
<1>17. ASSUME NEW m \in Mails, AdminCancel(m) PROVE TypeOK' /\ HoldInv'
  BY <1>17 DEF AdminCancel, Actionable
<1>18. CASE UNCHANGED vars
  BY <1>18 DEF vars
<1> QED
  BY SMTT(40), <1>1, <1>2, <1>3, <1>4, <1>5, <1>6, <1>7, <1>8, <1>9, <1>10, <1>11,
     <1>12, <1>13, <1>14, <1>15, <1>16, <1>17, <1>18 DEF Next, Enqueue, Work

\* Every reachable state is well typed (attemptCount stays below the cap
\* among other things), and HoldInv holds of it.
THEOREM TypeCorrect == Spec => [](TypeOK /\ HoldInv)
<1>1. Init => TypeOK /\ HoldInv
  BY EmailAssumption
     DEF Init, TypeOK, HoldInv, Status, Claim, Phase, Enq
<1> QED
  BY <1>1, TypeHoldStep, PTL DEF Spec

-----------------------------------------------------------------------------
(* The claim as a lease.                                                   *)

\* An undisturbed mail has one holder at most, and while it has one its
\* record shows a fresh claim, or was cancelled and cannot be claimed.
LeaseInv ==
  \A m \in Mails :
    ~disturbed[m] =>
      /\ \A t, u \in Ticks : cur[t] = m /\ cur[u] = m => t = u
      /\ \A t \in Ticks :
           cur[t] = m => \/ status[m] = "cancelled"
                         \/ status[m] = "pending" /\ claim[m] = "fresh"

\* No action gives an undisturbed mail a second holder.
LEMMA LeaseStep ==
  TypeOK /\ HoldInv /\ LeaseInv /\ [Next]_vars => LeaseInv'
<1> SUFFICES ASSUME TypeOK, HoldInv, LeaseInv, [Next]_vars PROVE LeaseInv'
  OBVIOUS
<1> USE EmailAssumption DEF TypeOK, HoldInv, LeaseInv, recordVars, tickVars,
                            historyVars, Holders
<1>1. ASSUME NEW m \in Mails, Lookup(m) \/ AppendFails(m) \/ BackoffElapses(m)
      PROVE LeaseInv'
  <2>1. UNCHANGED <<status, claim, cur, disturbed>>
    BY <1>1 DEF Lookup, AppendFails, BackoffElapses
  <2> QED
    BY <2>1
<1>2. ASSUME NEW m \in Mails, Append(m) PROVE LeaseInv'
  BY <1>2 DEF Append
<1>3. ASSUME NEW t \in Ticks, List(t) PROVE LeaseInv'
  <2>1. UNCHANGED <<status, claim, cur, disturbed>>
    BY <1>3 DEF List
  <2> QED
    BY <2>1
<1>4. ASSUME NEW t \in Ticks, NEW m \in Mails, ClaimMail(t, m) PROVE LeaseInv'
  <2>1. cur[t] = NoMail
    BY <1>4 DEF ClaimMail, IsNext
  <2>2. disturbed[m] \/ \A u \in Ticks : cur[u] # m
    BY <1>4 DEF ClaimMail
  <2> QED
    BY <1>4, <2>1, <2>2 DEF ClaimMail
<1>5. ASSUME NEW t \in Ticks, NEW m \in Mails, SkipMail(t, m) PROVE LeaseInv'
  BY <1>5 DEF SkipMail
<1>6. ASSUME NEW t \in Ticks, DriverAccepts(t) \/ MarkSentFails(t)
      PROVE LeaseInv'
  BY <1>6 DEF DriverAccepts, MarkSentFails
<1>7. ASSUME NEW t \in Ticks, NEW kind \in {"transient", "permanent"},
             DriverThrows(t, kind)
      PROVE LeaseInv'
  BY <1>7 DEF DriverThrows
<1>8. ASSUME NEW t \in Ticks, MarkSent(t) PROVE LeaseInv'
  <2>1. cur[t] \in Mails
    BY <1>8 DEF MarkSent
  <2> QED
    BY <1>8, <2>1 DEF MarkSent, Release
<1>9. ASSUME NEW t \in Ticks, MarkDeadLetter(t) PROVE LeaseInv'
  <2>1. cur[t] \in Mails
    BY <1>9 DEF MarkDeadLetter
  <2> QED
    BY <1>9, <2>1 DEF MarkDeadLetter, Release
<1>10. ASSUME NEW t \in Ticks, RecordTransientFailure(t) PROVE LeaseInv'
  <2>1. cur[t] \in Mails
    BY <1>10 DEF RecordTransientFailure
  <2> QED
    BY <1>10, <2>1 DEF RecordTransientFailure, Release, LosesClaim
<1>11. ASSUME NEW t \in Ticks, TickDies(t) PROVE LeaseInv'
  BY <1>11 DEF TickDies
<1>12. ASSUME NEW m \in Mails, ClaimGoesStale(m) PROVE LeaseInv'
  <2>1. disturbed'[m] \/ \A u \in Ticks : cur[u] # m
    <3>1. Holders(m) # {} => disturbed'[m]
      BY <1>12, ZenonT(40) DEF ClaimGoesStale
    <3> QED
      BY <3>1
  <2>2. \A n \in Mails : n # m => /\ disturbed'[n] = disturbed[n]
                                  /\ status'[n] = status[n]
                                  /\ claim'[n] = claim[n]
    BY <1>12 DEF ClaimGoesStale
  <2>3. cur' = cur
    BY <1>12 DEF ClaimGoesStale
  <2> QED
    BY <2>1, <2>2, <2>3
<1>13. ASSUME NEW m \in Mails, AdminRetry(m) PROVE LeaseInv'
  <2>1. disturbed'[m] \/ \A u \in Ticks : cur[u] # m
    BY <1>13, ZenonT(40) DEF AdminRetry
  <2>2. \A n \in Mails : n # m => /\ disturbed'[n] = disturbed[n]
                                  /\ status'[n] = status[n]
                                  /\ claim'[n] = claim[n]
    BY <1>13 DEF AdminRetry
  <2>3. cur' = cur
    BY <1>13 DEF AdminRetry
  <2> QED
    BY <2>1, <2>2, <2>3
<1>14. ASSUME NEW m \in Mails, AdminCancel(m) PROVE LeaseInv'
  BY <1>14 DEF AdminCancel
<1>15. CASE UNCHANGED vars
  BY <1>15 DEF vars
<1> QED
  BY <1>1, <1>2, <1>3, <1>4, <1>5, <1>6, <1>7, <1>8, <1>9, <1>10, <1>11,
     <1>12, <1>13, <1>14, <1>15 DEF Next, Enqueue, Work

\* claim() serialises the driver calls for any number of replicas and
\* overlapping ticks: a mail has two holders only after its claim was taken
\* away under a running call.
THEOREM ClaimSerialises == Spec => []ClaimSerialisesSends
<1>1. Init => LeaseInv
  BY EmailAssumption DEF Init, LeaseInv
<1>2. LeaseInv => ClaimSerialisesSends
  BY DEF LeaseInv, ClaimSerialisesSends, Holders
<1> QED
  BY <1>1, <1>2, LeaseStep, TypeCorrect, PTL DEF Spec

-----------------------------------------------------------------------------
(* The ceiling of attempts.                                                *)

\* Of a mail that was neither miscounted nor disturbed, the holder's copy of
\* attemptCount is the stored one, and attemptCount is the number of driver
\* calls that are over: one less than all while a tick holds the mail.
CountOf(m) ==
  /\ \A t \in Ticks : cur[t] = m => /\ seen[t][m] = attempts[m]
                                     /\ tries[m] <= attempts[m] + 1
  /\ status[m] \in {"none", "pending"} /\ (\A t \in Ticks : cur[t] # m)
       => tries[m] <= attempts[m]
  /\ tries[m] <= MaxAttempts

CeilingInv ==
  \A m \in Mails : m \in miscounted \/ disturbed[m] \/ CountOf(m)

\* No action makes an attempt that attemptCount does not show.
LEMMA CeilingStep ==
  TypeOK /\ HoldInv /\ LeaseInv /\ CeilingInv /\ [Next]_vars => CeilingInv'
<1> SUFFICES ASSUME TypeOK, HoldInv, LeaseInv, CeilingInv, [Next]_vars,
                    NEW m \in Mails, m \notin miscounted', ~disturbed'[m]
             PROVE CountOf(m)'
  BY DEF CeilingInv
<1> USE EmailAssumption DEF TypeOK, HoldInv, recordVars, tickVars, historyVars
<1>0. /\ miscounted \subseteq miscounted'
      /\ disturbed[m] => disturbed'[m]
  <2>1. miscounted \subseteq miscounted'
    BY ZenonT(40) DEF vars, Next, Enqueue, Work, Lookup, Append, AppendFails, List, ClaimMail, CountTry,
           SkipMail, DriverAccepts, DriverThrows, MarkSent, MarkSentFails, MarkDeadLetter,
           RecordTransientFailure, TickDies, ClaimGoesStale, BackoffElapses, AdminRetry,
           AdminCancel
  <2>2. disturbed[m] => disturbed'[m]
    <3>1. ASSUME NEW n \in Mails, \/ ClaimGoesStale(n) \/ AdminRetry(n)
          PROVE disturbed[m] => disturbed'[m]
      BY <3>1 DEF ClaimGoesStale, AdminRetry
    <3>2. ASSUME NEW t \in Ticks, RecordTransientFailure(t)
          PROVE disturbed[m] => disturbed'[m]
      BY <3>2 DEF RecordTransientFailure, LosesClaim
    <3>3. ASSUME NEW n \in Mails,
                 \/ Lookup(n) \/ Append(n) \/ AppendFails(n)
                 \/ BackoffElapses(n) \/ AdminCancel(n)
          PROVE disturbed' = disturbed
      BY <3>3 DEF Lookup, Append, AppendFails, BackoffElapses, AdminCancel
    <3>4. ASSUME NEW t \in Ticks,
                 \/ List(t) \/ DriverAccepts(t) \/ MarkSent(t) \/ MarkSentFails(t)
                 \/ MarkDeadLetter(t) \/ TickDies(t)
                 \/ \E kind \in {"transient", "permanent"} : DriverThrows(t, kind)
                 \/ \E n \in Mails : ClaimMail(t, n) \/ SkipMail(t, n)
          PROVE disturbed' = disturbed
      BY <3>4 DEF List, DriverAccepts, MarkSent, MarkSentFails, MarkDeadLetter, TickDies,
                  DriverThrows, ClaimMail, SkipMail
    <3>5. CASE UNCHANGED vars
      BY <3>5 DEF vars
    <3> QED
      BY <3>1, <3>2, <3>3, <3>4, <3>5 DEF Next, Enqueue, Work
  <2> QED
    BY <2>1, <2>2
<1>a. m \notin miscounted /\ ~disturbed[m]
  BY <1>0
<1>b. /\ CountOf(m)
      /\ \A t, u \in Ticks : cur[t] = m /\ cur[u] = m => t = u
  BY <1>a DEF CeilingInv, LeaseInv
<1> USE DEF CountOf
<1>1. ASSUME NEW n \in Mails, Lookup(n) \/ AppendFails(n) \/ BackoffElapses(n)
      PROVE CountOf(m)'
  <2>1. UNCHANGED <<status, attempts, cur, seen, tries>>
    BY <1>1 DEF Lookup, AppendFails, BackoffElapses
  <2> QED
    BY <1>b, <2>1
<1>2. ASSUME NEW n \in Mails, Append(n) PROVE CountOf(m)'
  BY <1>2, <1>b DEF Append
<1>3. ASSUME NEW t \in Ticks, List(t) PROVE CountOf(m)'
  BY <1>3, <1>b DEF List
<1>4. ASSUME NEW t \in Ticks, NEW n \in Mails, ClaimMail(t, n) PROVE CountOf(m)'
  <2>1. CASE n = m
    <3>1. /\ seen[t][m] = attempts[m]
          /\ \A u \in Ticks : cur[u] # m
          /\ tries[m] <= attempts[m]
      <4>1. seen[t][m] = attempts[m]
        BY <1>4, <2>1 DEF ClaimMail, CountTry
      <4>2. \A u \in Ticks : cur[u] # m
        BY <1>4, <1>a, <2>1 DEF ClaimMail, LeaseInv
      <4> QED
        BY <1>4, <1>b, <2>1, <4>1, <4>2 DEF ClaimMail
    <3>2. /\ tries'[m] <= attempts[m] + 1
          /\ tries'[m] \in Nat
      BY <1>4, <2>1, <3>1 DEF ClaimMail, CountTry
    <3>3. /\ cur'[t] = m
          /\ seen' = seen /\ attempts' = attempts
          /\ \A u \in Ticks \ {t} : cur'[u] # m
      BY <1>4, <2>1, <3>1 DEF ClaimMail
    <3>4. attempts[m] \in 0 .. MaxAttempts - 1
      OBVIOUS
    <3> QED
      BY <3>1, <3>2, <3>3, <3>4
  <2>2. CASE n # m
    <3>1. /\ tries'[m] = tries[m]
          /\ seen' = seen /\ attempts' = attempts /\ status' = status
          /\ \A u \in Ticks : (cur'[u] = m) <=> (cur[u] = m)
      BY <1>4, <2>2 DEF ClaimMail, CountTry, IsNext
    <3> QED
      BY <1>b, <3>1
  <2> QED
    BY <2>1, <2>2
<1>5. ASSUME NEW t \in Ticks, NEW n \in Mails, SkipMail(t, n) PROVE CountOf(m)'
  BY <1>5, <1>b DEF SkipMail
<1>6. ASSUME NEW t \in Ticks, DriverAccepts(t) \/ MarkSentFails(t) PROVE CountOf(m)'
  BY <1>6, <1>b DEF DriverAccepts, MarkSentFails
<1>7. ASSUME NEW t \in Ticks, NEW kind \in {"transient", "permanent"},
             DriverThrows(t, kind)
      PROVE CountOf(m)'
  BY <1>7, <1>b DEF DriverThrows
<1>8. ASSUME NEW t \in Ticks, MarkSent(t) \/ MarkDeadLetter(t) PROVE CountOf(m)'
  <2>1. cur[t] \in Mails
    BY <1>8 DEF MarkSent, MarkDeadLetter
  <2>2. /\ \A u \in Ticks : cur'[u] = m => cur[u] = m
        /\ \A u \in Ticks \ {t} : cur'[u] = cur[u]
        /\ seen' = seen /\ attempts' = attempts /\ tries' = tries
        /\ status'[cur[t]] \notin {"none", "pending"}
        /\ \A n \in Mails : n # cur[t] => status'[n] = status[n]
    BY <1>8, <2>1 DEF MarkSent, MarkDeadLetter, Release
  <2> QED
    BY <1>b, <2>1, <2>2
<1>9. ASSUME NEW t \in Ticks, RecordTransientFailure(t) PROVE CountOf(m)'
  <2>1. cur[t] \in Mails
    BY <1>9 DEF RecordTransientFailure
  <2>2. /\ cur'[t] = NoMail
        /\ \A u \in Ticks \ {t} : cur'[u] = cur[u]
        /\ seen' = seen /\ status' = status /\ tries' = tries
        /\ attempts' = [attempts EXCEPT ![cur[t]] = seen[t][cur[t]] + 1]
    BY <1>9 DEF RecordTransientFailure, Release
  <2>3. CASE cur[t] = m
    <3>1. \A u \in Ticks : cur'[u] # m
      BY <1>b, <2>2, <2>3
    <3>2. attempts'[m] = attempts[m] + 1
      BY <1>b, <2>2, <2>3
    <3> QED
      BY <1>b, <2>2, <2>3, <3>1, <3>2
  <2>4. CASE cur[t] # m
    <3>1. attempts'[m] = attempts[m]
      BY <2>1, <2>2, <2>4
    <3>2. \A u \in Ticks : (cur'[u] = m) <=> (cur[u] = m)
      BY <2>2, <2>4
    <3> QED
      BY <1>b, <2>2, <3>1, <3>2
  <2> QED
    BY <2>3, <2>4
<1>10. ASSUME NEW t \in Ticks, TickDies(t) PROVE CountOf(m)'
  <2>1. cur[t] # m
    BY <1>10 DEF TickDies
  <2>2. \A u \in Ticks : (cur'[u] = m) <=> (cur[u] = m)
    BY <1>10, <2>1 DEF TickDies
  <2>3. UNCHANGED <<seen, status, attempts, tries>>
    BY <1>10 DEF TickDies
  <2> QED
    BY <1>b, <2>2, <2>3
<1>11. ASSUME NEW n \in Mails, ClaimGoesStale(n) PROVE CountOf(m)'
  BY <1>11, <1>b DEF ClaimGoesStale
<1>12. ASSUME NEW n \in Mails, AdminRetry(n) PROVE CountOf(m)'
  <2>1. CASE n = m
    <3>1. Holders(m) = {}
      BY <1>12, <2>1 DEF AdminRetry
    <3>2. \A t \in Ticks : cur'[t] # m
      BY <1>12, <3>1 DEF AdminRetry, Holders
    <3>3. tries'[m] = 0 /\ attempts'[m] = 0
      BY <1>12, <2>1 DEF AdminRetry
    <3> QED
      BY <3>2, <3>3
  <2>2. CASE n # m
    <3>1. /\ tries'[m] = tries[m] /\ attempts'[m] = attempts[m]
          /\ status'[m] = status[m] /\ seen' = seen /\ cur' = cur
      BY <1>12, <2>2 DEF AdminRetry
    <3> QED
      BY <1>b, <3>1
  <2> QED
    BY <2>1, <2>2
<1>13. ASSUME NEW n \in Mails, AdminCancel(n) PROVE CountOf(m)'
  BY <1>13, <1>b DEF AdminCancel
<1>14. CASE UNCHANGED vars
  BY <1>14, <1>b DEF vars
<1> QED
  BY <1>1, <1>2, <1>3, <1>4, <1>5, <1>6, <1>7, <1>8, <1>9, <1>10, <1>11,
     <1>12, <1>13, <1>14 DEF Next, Enqueue, Work

\* maxAttempts is a ceiling of the driver calls for any number of replicas,
\* ticks and faults, but for the three ways attemptCount goes wrong.
THEOREM CeilingHolds == Spec => []HardCeiling
<1>1. Init => LeaseInv /\ CeilingInv
  BY EmailAssumption DEF Init, LeaseInv, CeilingInv, CountOf
<1>2. TypeOK /\ CeilingInv => HardCeiling
  BY EmailAssumption DEF TypeOK, CeilingInv, CountOf, HardCeiling
<1> QED
  BY <1>1, <1>2, LeaseStep, CeilingStep, TypeCorrect, PTL DEF Spec

-----------------------------------------------------------------------------
(* Outcomes.                                                               *)

\* Whichever tick writes it, a record says sent only when the driver has
\* accepted the mail.
THEOREM SentIsAccepted == Spec => []SentMeansAccepted
<1>1. Init => SentMeansAccepted
  BY DEF Init, SentMeansAccepted
<1>2. TypeOK /\ HoldInv /\ SentMeansAccepted /\ [Next]_vars => SentMeansAccepted'
  <2> SUFFICES ASSUME TypeOK, HoldInv, SentMeansAccepted, [Next]_vars
               PROVE SentMeansAccepted'
    OBVIOUS
  <2> USE EmailAssumption DEF TypeOK, HoldInv, SentMeansAccepted, recordVars,
                              tickVars, historyVars
  <2>1. ASSUME NEW m \in Mails, Enqueue(m) PROVE SentMeansAccepted'
    BY <2>1 DEF Enqueue, Lookup, Append, AppendFails
  <2>2. ASSUME NEW m \in Mails,
               \/ ClaimGoesStale(m) \/ BackoffElapses(m)
               \/ AdminRetry(m) \/ AdminCancel(m)
        PROVE SentMeansAccepted'
    BY <2>2 DEF ClaimGoesStale, BackoffElapses, AdminRetry, AdminCancel
  <2>3. ASSUME NEW t \in Ticks, MarkSent(t) PROVE SentMeansAccepted'
    BY <2>3 DEF MarkSent
  <2>4. ASSUME NEW t \in Ticks, MarkDeadLetter(t) PROVE SentMeansAccepted'
    BY <2>4 DEF MarkDeadLetter
  <2>5. ASSUME NEW t \in Ticks, DriverAccepts(t) PROVE SentMeansAccepted'
    BY <2>5 DEF DriverAccepts
  <2>6. ASSUME NEW t \in Ticks, NEW m \in Mails,
               ClaimMail(t, m) \/ SkipMail(t, m)
        PROVE SentMeansAccepted'
    BY <2>6 DEF ClaimMail, SkipMail
  <2>7. ASSUME NEW t \in Ticks,
               \/ List(t) \/ MarkSentFails(t)
               \/ RecordTransientFailure(t) \/ TickDies(t)
               \/ \E kind \in {"transient", "permanent"} : DriverThrows(t, kind)
        PROVE SentMeansAccepted'
    BY <2>7 DEF List, MarkSentFails, RecordTransientFailure, TickDies, DriverThrows
  <2>8. CASE UNCHANGED vars
    BY <2>8 DEF vars
  <2> QED
    BY <2>1, <2>2, <2>3, <2>4, <2>5, <2>6, <2>7, <2>8 DEF Next, Work
<1> QED
  BY <1>1, <1>2, TypeCorrect, PTL DEF Spec

\* However many enqueue() calls with one idempotency key interleave, at most
\* one of them has a record.
THEOREM OneRecord == Spec => []OneRecordPerKey
<1>1. Init => OneRecordPerKey
  BY DEF Init, OneRecordPerKey
<1>2. TypeOK /\ HoldInv /\ OneRecordPerKey /\ [Next]_vars => OneRecordPerKey'
  <2> SUFFICES ASSUME TypeOK, HoldInv, OneRecordPerKey, [Next]_vars
               PROVE OneRecordPerKey'
    OBVIOUS
  <2> USE EmailAssumption DEF TypeOK, HoldInv, OneRecordPerKey, recordVars,
                              tickVars, historyVars
  <2>1. ASSUME NEW m \in Mails, Append(m) PROVE OneRecordPerKey'
    BY <2>1 DEF Append, Taken
  <2>2. ASSUME NEW m \in Mails,
               \/ Lookup(m) \/ AppendFails(m)
               \/ ClaimGoesStale(m) \/ BackoffElapses(m)
        PROVE OneRecordPerKey'
    BY <2>2 DEF Lookup, AppendFails, ClaimGoesStale, BackoffElapses
  <2>3. ASSUME NEW m \in Mails, AdminRetry(m) \/ AdminCancel(m)
        PROVE OneRecordPerKey'
    BY <2>3 DEF AdminRetry, AdminCancel, Actionable
  <2>4. ASSUME NEW t \in Ticks, MarkSent(t) \/ MarkDeadLetter(t)
        PROVE OneRecordPerKey'
    <3>1. cur[t] \in Mails /\ status[cur[t]] # "none"
      BY <2>4 DEF MarkSent, MarkDeadLetter
    <3> QED
      BY <2>4, <3>1 DEF MarkSent, MarkDeadLetter
  <2>5. ASSUME NEW t \in Ticks, NEW m \in Mails,
               ClaimMail(t, m) \/ SkipMail(t, m)
        PROVE OneRecordPerKey'
    BY <2>5 DEF ClaimMail, SkipMail
  <2>6. ASSUME NEW t \in Ticks,
               \/ List(t) \/ DriverAccepts(t) \/ MarkSentFails(t)
               \/ RecordTransientFailure(t) \/ TickDies(t)
               \/ \E kind \in {"transient", "permanent"} : DriverThrows(t, kind)
        PROVE OneRecordPerKey'
    BY <2>6 DEF List, DriverAccepts, MarkSentFails, RecordTransientFailure,
                TickDies, DriverThrows
  <2>7. CASE UNCHANGED vars
    BY <2>7 DEF vars
  <2> QED
    BY <2>1, <2>2, <2>3, <2>4, <2>5, <2>6, <2>7 DEF Next, Enqueue, Work
<1> QED
  BY <1>1, <1>2, TypeCorrect, PTL DEF Spec

\* A mail that is sent or cancelled, and held by no tick, stays so: stale
\* candidate lists and administrators do not bring it back.
THEOREM QuietStays == Spec => QuietForGood
<1>1. TypeOK /\ HoldInv /\ [Next]_vars
        => [\A m \in Mails : Quiet(m) => Quiet(m)']_vars
  <2> SUFFICES ASSUME TypeOK, HoldInv, [Next]_vars, NEW m \in Mails, Quiet(m)
               PROVE Quiet(m)'
    OBVIOUS
  <2> USE EmailAssumption DEF TypeOK, HoldInv, Quiet, Holders, recordVars,
                              tickVars, historyVars
  <2>1. ASSUME NEW n \in Mails, Enqueue(n) PROVE Quiet(m)'
    BY <2>1 DEF Enqueue, Lookup, Append, AppendFails
  <2>2. ASSUME NEW n \in Mails,
               \/ ClaimGoesStale(n) \/ BackoffElapses(n)
               \/ AdminRetry(n) \/ AdminCancel(n)
        PROVE Quiet(m)'
    BY <2>2 DEF ClaimGoesStale, BackoffElapses, AdminRetry, AdminCancel, Actionable
  <2>3. ASSUME NEW t \in Ticks, NEW n \in Mails, ClaimMail(t, n) PROVE Quiet(m)'
    BY <2>3 DEF ClaimMail
  <2>4. ASSUME NEW t \in Ticks, NEW n \in Mails, SkipMail(t, n) PROVE Quiet(m)'
    BY <2>4 DEF SkipMail
  <2>5. ASSUME NEW t \in Ticks,
               MarkSent(t) \/ MarkDeadLetter(t) \/ RecordTransientFailure(t)
        PROVE Quiet(m)'
    <3>1. cur[t] # m
      OBVIOUS
    <3> QED
      BY <2>5, <3>1 DEF MarkSent, MarkDeadLetter, RecordTransientFailure, Release
  <2>6. ASSUME NEW t \in Ticks,
               \/ List(t) \/ DriverAccepts(t) \/ MarkSentFails(t) \/ TickDies(t)
               \/ \E kind \in {"transient", "permanent"} : DriverThrows(t, kind)
        PROVE Quiet(m)'
    BY <2>6 DEF List, DriverAccepts, MarkSentFails, TickDies, DriverThrows
  <2>7. CASE UNCHANGED vars
    BY <2>7 DEF vars
  <2> QED
    BY <2>1, <2>2, <2>3, <2>4, <2>5, <2>6, <2>7 DEF Next, Work
<1> QED
  BY <1>1, TypeCorrect, PTL DEF Spec, QuietForGood

=============================================================================
