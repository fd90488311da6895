-------------------------- MODULE BackgroundProofs --------------------------
(***************************************************************************)
(* Proofs about JobQueue, Background and Geoip, for any number of           *)
(* processes, job ids, users, requests and rows, and for any bounds.        *)
(***************************************************************************)
EXTENDS Background, Geoip, SequenceTheorems, FiniteSetTheorems, TLAPS

\* A step of the queue of process q.
OneQueue(q) ==
  \/ \E j \in JobIds : Enqueue(q, j) \/ TimerFires(q, j)
  \/ Register(q) \/ Start(q) \/ Stop(q) \/ ScheduleRepeat(q)
  \/ \E old, new \in JobIds : Retry(q, old, new)
  \/ Work(q)

\* What n calls of scheduleProcess() do to the chain of promises.
LEMMA Scheduled ==
  ASSUME QueueTypeOK, NEW q \in Queues, NEW n \in Nat, Schedule(q, n)
  PROVE  /\ chain' \in [Queues -> 0..MaxChain]
         /\ starved' \in [Queues -> BOOLEAN]
         /\ n > 0 => chain'[q] > 0
         /\ n = 0 => chain'[q] = chain[q] /\ (starved[q] => starved'[q])
         /\ \A p \in Queues \ {q} : chain'[p] = chain[p] /\ starved'[p] = starved[p]
<1> USE QueueAssumption DEF QueueTypeOK
<1>1. chain' = [chain EXCEPT ![q] = IF chain[q] + n < MaxChain THEN chain[q] + n ELSE MaxChain]
  BY DEF Schedule
<1>2. starved' = [starved EXCEPT ![q] = starved[q] /\ n = 0]
  BY DEF Schedule
<1>3. chain' \in [Queues -> 0..MaxChain]
  BY <1>1
<1>4. starved' \in [Queues -> BOOLEAN]
  BY <1>2
<1>5. n > 0 => chain'[q] > 0
  BY <1>1
<1>6. n = 0 => chain'[q] = chain[q]
  BY <1>1
<1>7. n = 0 => (starved[q] => starved'[q])
  BY <1>2, Zenon
<1>8. \A p \in Queues \ {q} : chain'[p] = chain[p] /\ starved'[p] = starved[p]
  BY <1>1, <1>2
<1> QED
  BY <1>3, <1>4, <1>5, <1>6, <1>7, <1>8

\* A job that is not in the Map enters it, last in its order and in the line.
LEMMA PutTyped ==
  ASSUME QueueTypeOK, NEW q \in Queues, NEW j \in JobIds, Put(q, j)
  PROVE  /\ record' \in [Queues -> [JobIds -> JobState]]
         /\ older' \in [Queues -> SUBSET (JobIds \X JobIds)]
         /\ line' \in [Queues -> Seq(JobIds)]
<1>1. record' \in [Queues -> [JobIds -> JobState]]
  BY DEF QueueTypeOK, Put, JobState
<1>2. Records(record[q]) \X {j} \subseteq JobIds \X JobIds
  BY DEF Records
<1>3. older' \in [Queues -> SUBSET (JobIds \X JobIds)]
  BY <1>2 DEF QueueTypeOK, Put
<1>4. line' \in [Queues -> Seq(JobIds)]
  BY AppendProperties DEF QueueTypeOK, Put
<1> QED
  BY <1>1, <1>3, <1>4

\* Every operation of the queue keeps its types.
LEMMA QueueTypeStep ==
  ASSUME QueueTypeOK, NEW q \in Queues, OneQueue(q)
  PROVE  QueueTypeOK'
<1>1. ASSUME NEW j \in JobIds, Enqueue(q, j) PROVE QueueTypeOK'
  <2>1. Put(q, j) /\ Schedule(q, IF running[q] THEN 1 ELSE 0)
    BY <1>1 DEF Enqueue
  <2>2. /\ chain' \in [Queues -> 0..MaxChain]
        /\ starved' \in [Queues -> BOOLEAN]
    BY <2>1, Scheduled
  <2>3. /\ record' \in [Queues -> [JobIds -> JobState]]
        /\ older' \in [Queues -> SUBSET (JobIds \X JobIds)]
        /\ line' \in [Queues -> Seq(JobIds)]
    BY <2>1, PutTyped
  <2> QED
    BY <1>1, <2>2, <2>3 DEF Enqueue, QueueTypeOK
<1>2. ASSUME NEW j \in JobIds, TimerFires(q, j) PROVE QueueTypeOK'
  BY <1>1, <1>2 DEF TimerFires
<1>3. ASSUME Register(q) \/ Start(q) PROVE QueueTypeOK'
  <2>1. Schedule(q, Wakes(q)) \/ UNCHANGED <<chain, starved>>
    BY <1>3 DEF Register, Start
  <2>2. Wakes(q) \in Nat
    BY DEF Wakes
  <2>3. /\ chain' \in [Queues -> 0..MaxChain]
        /\ starved' \in [Queues -> BOOLEAN]
    BY <2>1, <2>2, Scheduled DEF QueueTypeOK
  <2> QED
    BY <1>3, <2>3 DEF Register, Start, QueueTypeOK
<1>4. ASSUME Stop(q) \/ ScheduleRepeat(q) PROVE QueueTypeOK'
  BY <1>4 DEF Stop, ScheduleRepeat, QueueTypeOK
<1>5. ASSUME NEW old \in JobIds, NEW new \in JobIds, Retry(q, old, new) PROVE QueueTypeOK'
  <2> DEFINE n == (IF started[q] THEN Wakes(q) ELSE 0) + (IF running'[q] THEN 1 ELSE 0)
  <2>1. Put(q, new) /\ Schedule(q, n)
    BY <1>5 DEF Retry
  <2>2. n \in Nat
    BY DEF Wakes
  <2> HIDE DEF n
  <2>3. /\ chain' \in [Queues -> 0..MaxChain]
        /\ starved' \in [Queues -> BOOLEAN]
    BY <2>1, <2>2, Scheduled
  <2>4. /\ record' \in [Queues -> [JobIds -> JobState]]
        /\ older' \in [Queues -> SUBSET (JobIds \X JobIds)]
        /\ line' \in [Queues -> Seq(JobIds)]
    BY <2>1, PutTyped
  <2>5. running' \in [Queues -> BOOLEAN]
    BY <1>5 DEF Retry, QueueTypeOK
  <2> QED
    BY <1>5, <2>3, <2>4, <2>5 DEF Retry, QueueTypeOK
<1>6. ASSUME ProcessNothing(q) PROVE QueueTypeOK'
  <2>1. chain' \in [Queues -> 0..MaxChain]
    BY <1>6, QueueAssumption DEF ProcessNothing, QueueTypeOK
  <2>2. starved' \in [Queues -> BOOLEAN]
    BY <1>6 DEF ProcessNothing, QueueTypeOK
  <2> QED
    BY <1>6, <2>1, <2>2 DEF ProcessNothing, QueueTypeOK
<1>7. ASSUME ProcessNext(q) PROVE QueueTypeOK'
  <2>1. chain' \in [Queues -> 0..MaxChain]
    BY <1>7, QueueAssumption DEF ProcessNext, QueueTypeOK
  <2>2. line[q] \in Seq(JobIds) /\ line[q] # <<>>
    BY <1>7 DEF ProcessNext, Idle, QueueTypeOK
  <2>3. Head(line[q]) \in JobIds /\ Tail(line[q]) \in Seq(JobIds)
    BY <2>2, HeadTailProperties
  <2>4. line' \in [Queues -> Seq(JobIds)]
    BY <1>7, <2>3 DEF ProcessNext, QueueTypeOK
  <2>5. record' \in [Queues -> [JobIds -> JobState]]
    BY <1>7, <2>3 DEF ProcessNext, QueueTypeOK, JobState
  <2> QED
    BY <1>7, <2>1, <2>3, <2>4, <2>5 DEF ProcessNext, QueueTypeOK
<1>8. ASSUME NEW outcome \in Terminal, Finish(q, outcome) PROVE QueueTypeOK'
  <2>1. Schedule(q, IF running[q] /\ line[q] # <<>> THEN 1 ELSE 0)
    BY <1>8 DEF Finish
  <2>2. /\ chain' \in [Queues -> 0..MaxChain]
        /\ starved' \in [Queues -> BOOLEAN]
    BY <2>1, Scheduled
  <2>3. at[q] \in JobIds
    BY <1>8 DEF Finish, QueueTypeOK
  <2> DEFINE rec == [record[q] EXCEPT ![at[q]] = outcome]
             gone == Evicted(q, rec)
  <2>4. rec \in [JobIds -> JobState]
    BY <2>3 DEF QueueTypeOK, JobState
  <2>5. record' = [record EXCEPT ![q] = [j \in JobIds |-> IF j \in gone THEN "none" ELSE rec[j]]]
    BY <1>8 DEF Finish
  <2>6. older' = [older EXCEPT ![q] = older[q] \ ((gone \X JobIds) \cup (JobIds \X gone))]
    BY <1>8 DEF Finish
  <2> HIDE DEF rec, gone
  <2>7. record' \in [Queues -> [JobIds -> JobState]]
    BY <2>4, <2>5 DEF QueueTypeOK, JobState
  <2>8. older' \in [Queues -> SUBSET (JobIds \X JobIds)]
    BY <2>6 DEF QueueTypeOK
  <2> QED
    BY <1>8, <2>2, <2>7, <2>8 DEF Finish, QueueTypeOK
<1> QED
  BY <1>1, <1>2, <1>3, <1>4, <1>5, <1>6, <1>7, <1>8 DEF OneQueue, Work

\* The in-process queue is well typed under every order of its operations.
THEOREM QueueTypeCorrect == QueueSpec => []QueueTypeOK
<1>1. QueueInit => QueueTypeOK
  <2>1. <<>> \in Seq(JobIds)
    BY EmptySeq
  <2> QED
    BY <2>1, QueueAssumption DEF QueueInit, QueueTypeOK, JobState
<1>2. QueueTypeOK /\ [QueueNext]_queueVars => QueueTypeOK'
  <2> SUFFICES ASSUME QueueTypeOK, [QueueNext]_queueVars PROVE QueueTypeOK'
    OBVIOUS
  <2>1. CASE QueueNext
    <3>1. PICK q \in Queues : OneQueue(q)
      BY <2>1 DEF QueueNext, OneQueue
    <3> QED
      BY <3>1, QueueTypeStep
  <2>2. CASE UNCHANGED queueVars
    BY <2>2 DEF queueVars, QueueTypeOK
  <2> QED
    BY <2>1, <2>2
<1> QED
  BY <1>1, <1>2, PTL DEF QueueSpec

-----------------------------------------------------------------------------
(* Somebody takes up the backlog. *)

\* WorkIsScheduled without the handler: a queue that runs and has a backlog
\* is inside a job or has a call of processOne() to come, or the last call
\* found no handler.
Attended(q) ==
  running[q] /\ line[q] # <<>> => at[q] # NoJob \/ chain[q] > 0 \/ starved[q]

\* No operation leaves a running queue unattended.
LEMMA AttendedStep ==
  ASSUME QueueTypeOK, \A p \in Queues : Attended(p), NEW q \in Queues, OneQueue(q)
  PROVE  \A p \in Queues : Attended(p)'
<1> USE DEF QueueTypeOK, Attended
<1>1. ASSUME NEW j \in JobIds, Enqueue(q, j) PROVE \A p \in Queues : Attended(p)'
  <2>1. /\ \A p \in Queues \ {q} : line'[p] = line[p]
        /\ running' = running /\ at' = at
    BY <1>1 DEF Enqueue, Put
  <2>2. /\ running[q] => chain'[q] > 0
        /\ \A p \in Queues \ {q} : chain'[p] = chain[p] /\ starved'[p] = starved[p]
    BY <1>1, Scheduled DEF Enqueue
  <2> QED
    BY <2>1, <2>2
<1>2. ASSUME NEW j \in JobIds, TimerFires(q, j) PROVE \A p \in Queues : Attended(p)'
  BY <1>1, <1>2 DEF TimerFires
<1>3. ASSUME Register(q) \/ Start(q) PROVE \A p \in Queues : Attended(p)'
  <2>1. line' = line /\ at' = at
    BY <1>3 DEF Register, Start
  <2>2. CASE UNCHANGED <<running, chain, starved>>
    BY <2>1, <2>2
  <2>3. CASE running' = [running EXCEPT ![q] = TRUE] /\ Schedule(q, Wakes(q))
    <3>1. /\ ~ running[q] => chain'[q] > 0
          /\ running[q] => chain'[q] = chain[q] /\ (starved[q] => starved'[q])
          /\ \A p \in Queues \ {q} : chain'[p] = chain[p] /\ starved'[p] = starved[p]
      BY <2>3, Scheduled DEF Wakes
    <3> QED
      BY <2>1, <2>3, <3>1
  <2> QED
    BY <1>3, <2>2, <2>3 DEF Register, Start
<1>4. ASSUME Stop(q) \/ ScheduleRepeat(q) PROVE \A p \in Queues : Attended(p)'
  BY <1>4 DEF Stop, ScheduleRepeat
<1>5. ASSUME NEW old \in JobIds, NEW new \in JobIds, Retry(q, old, new)
      PROVE \A p \in Queues : Attended(p)'
  <2> DEFINE n == (IF started[q] THEN Wakes(q) ELSE 0) + (IF running'[q] THEN 1 ELSE 0)
  <2>1. Schedule(q, n)
    BY <1>5 DEF Retry
  <2>2. n \in Nat /\ (running'[q] => n > 0)
    BY DEF Wakes
  <2> HIDE DEF n
  <2>3. /\ running'[q] => chain'[q] > 0
        /\ \A p \in Queues \ {q} : chain'[p] = chain[p] /\ starved'[p] = starved[p]
    BY <2>1, <2>2, Scheduled
  <2>4. /\ \A p \in Queues \ {q} : line'[p] = line[p] /\ running'[p] = running[p]
        /\ at' = at
    BY <1>5 DEF Retry, Put
  <2> QED
    BY <2>3, <2>4
<1>6. ASSUME ProcessNothing(q) PROVE \A p \in Queues : Attended(p)'
  <2>1. /\ running' = running /\ line' = line /\ at' = at
        /\ \A p \in Queues \ {q} : chain'[p] = chain[p] /\ starved'[p] = starved[p]
    BY <1>6 DEF ProcessNothing
  <2>2. CASE ~ running[q] \/ line[q] = <<>>
    BY <2>1, <2>2
  <2>3. CASE ~ handled[q]
    <3>1. starved' = [starved EXCEPT ![q] = starved[q] \/ ~ handled[q]]
      BY <1>6 DEF ProcessNothing
    <3>2. starved'[q]
      BY <2>3, <3>1, Zenon
    <3> QED
      BY <2>1, <3>2
  <2> QED
    BY <1>6, <2>2, <2>3 DEF ProcessNothing, Idle
<1>7. ASSUME ProcessNext(q) PROVE \A p \in Queues : Attended(p)'
  <2>1. Head(line[q]) \in JobIds
    BY <1>7, HeadTailProperties DEF ProcessNext, Idle
  <2>2. at'[q] # NoJob
    BY <1>7, <2>1, QueueAssumption DEF ProcessNext
  <2>3. \A p \in Queues \ {q} : line'[p] = line[p] /\ chain'[p] = chain[p] /\ at'[p] = at[p]
    BY <1>7 DEF ProcessNext
  <2> QED
    BY <1>7, <2>2, <2>3 DEF ProcessNext
<1>8. ASSUME NEW outcome \in Terminal, Finish(q, outcome)
      PROVE \A p \in Queues : Attended(p)'
  <2>1. Schedule(q, IF running[q] /\ line[q] # <<>> THEN 1 ELSE 0)
    BY <1>8 DEF Finish
  <2>2. /\ running[q] /\ line[q] # <<>> => chain'[q] > 0
        /\ \A p \in Queues \ {q} : chain'[p] = chain[p] /\ starved'[p] = starved[p]
    BY <2>1, Scheduled
  <2>3. /\ running' = running /\ line' = line
        /\ \A p \in Queues \ {q} : at'[p] = at[p]
    BY <1>8 DEF Finish
  <2> QED
    BY <2>2, <2>3
<1> QED
  BY <1>1, <1>2, <1>3, <1>4, <1>5, <1>6, <1>7, <1>8 DEF OneQueue, Work

\* A running queue with a handler and a backlog always has somebody to take
\* it up, for any number of queues and any order of the callers' operations.
THEOREM BacklogIsTakenUp == QueueSpec => []WorkIsScheduled
<1>1. QueueInit => \A p \in Queues : Attended(p)
  BY DEF QueueInit, Attended
<1>2. QueueTypeOK /\ (\A p \in Queues : Attended(p)) /\ [QueueNext]_queueVars
        => (\A p \in Queues : Attended(p))'
  <2> SUFFICES ASSUME QueueTypeOK, \A p \in Queues : Attended(p), [QueueNext]_queueVars
               PROVE (\A p \in Queues : Attended(p))'
    OBVIOUS
  <2>1. CASE QueueNext
    <3>1. PICK q \in Queues : OneQueue(q)
      BY <2>1 DEF QueueNext, OneQueue
    <3>2. \A p \in Queues : Attended(p)'
      BY <3>1, AttendedStep
    <3> QED
      BY <3>2
  <2>2. CASE UNCHANGED queueVars
    BY <2>2 DEF queueVars, Attended
  <2> QED
    BY <2>1, <2>2
<1>3. (\A p \in Queues : Attended(p)) => WorkIsScheduled
  BY DEF Attended, WorkIsScheduled
<1> QED
  BY <1>1, <1>2, <1>3, QueueTypeCorrect, PTL DEF QueueSpec

-----------------------------------------------------------------------------
(* Eviction spares what is still needed. *)

\* BacklogIsKept of one queue.
Kept(p) ==
  /\ \A j \in JobIds :
       record[p][j] = "created" <=> \E i \in DOMAIN line[p] : line[p][i] = j
  /\ \A i, k \in DOMAIN line[p] : line[p][i] = line[p][k] => i = k
  /\ {j \in JobIds : record[p][j] = "active"} = {at[p]} \ {NoJob}

\* What is appended to a line stands at its end.
LEMMA LineGrows ==
  ASSUME NEW s \in Seq(JobIds), NEW j \in JobIds
  PROVE  /\ DOMAIN Append(s, j) = DOMAIN s \cup {Len(s) + 1}
         /\ Len(s) + 1 \notin DOMAIN s
         /\ Append(s, j)[Len(s) + 1] = j
         /\ \A i \in DOMAIN s : Append(s, j)[i] = s[i]
<1>1. /\ Len(Append(s, j)) = Len(s) + 1
      /\ \A i \in 1..Len(s) : Append(s, j)[i] = s[i]
      /\ Append(s, j)[Len(s) + 1] = j
      /\ Append(s, j) \in Seq(JobIds)
  BY AppendProperties
<1>2. DOMAIN s = 1..Len(s) /\ DOMAIN Append(s, j) = 1..Len(Append(s, j)) /\ Len(s) \in Nat
  BY <1>1, LenProperties
<1> QED
  BY <1>1, <1>2

\* Taking the first of a line shifts the others.
LEMMA LineShifts ==
  ASSUME NEW s \in Seq(JobIds), s # <<>>
  PROVE  /\ Head(s) = s[1] /\ Head(s) \in JobIds
         /\ 1 \in DOMAIN s
         /\ \A i \in DOMAIN Tail(s) : Tail(s)[i] = s[i + 1] /\ i + 1 \in DOMAIN s
         /\ \A i \in DOMAIN s : i # 1 => i - 1 \in DOMAIN Tail(s)
         /\ \A i \in DOMAIN s \cup DOMAIN Tail(s) : i \in Int /\ i >= 1
<1>1. /\ Head(s) \in JobIds
      /\ Tail(s) \in Seq(JobIds)
      /\ Len(Tail(s)) = Len(s) - 1
      /\ \A i \in 1..Len(Tail(s)) : Tail(s)[i] = s[i + 1]
  BY HeadTailProperties
<1>2. /\ DOMAIN s = 1..Len(s) /\ Len(s) \in Nat
      /\ DOMAIN Tail(s) = 1..Len(Tail(s)) /\ Len(Tail(s)) \in Nat
  BY <1>1, LenProperties
<1>3. Head(s) = s[1]
  OBVIOUS
<1>4. Len(s) # 0
  BY EmptySeq
<1> QED
  BY <1>1, <1>2, <1>3, <1>4

\* A new job is created and in the line, once.
LEMMA PutKept ==
  ASSUME QueueTypeOK, NEW q \in Queues, Kept(q), NEW j \in JobIds, Put(q, j), at' = at
  PROVE  Kept(q)'
<1>1. /\ record[q] \in [JobIds -> JobState]
      /\ line[q] \in Seq(JobIds)
  BY DEF QueueTypeOK
<1>2. /\ record[q][j] = "none"
      /\ record'[q] = [record[q] EXCEPT ![j] = "created"]
      /\ line'[q] = Append(line[q], j)
  BY DEF Put, QueueTypeOK
<1>3. /\ DOMAIN line'[q] = DOMAIN line[q] \cup {Len(line[q]) + 1}
      /\ Len(line[q]) + 1 \notin DOMAIN line[q]
      /\ line'[q][Len(line[q]) + 1] = j
      /\ \A i \in DOMAIN line[q] : line'[q][i] = line[q][i]
  BY <1>1, <1>2, LineGrows
<1>4. \A i \in DOMAIN line[q] : line[q][i] # j
  BY <1>2 DEF Kept
<1>5. \A k \in JobIds : record'[q][k] = IF k = j THEN "created" ELSE record[q][k]
  BY <1>1, <1>2
<1>6. \A k \in JobIds :
        record'[q][k] = "created" <=> \E i \in DOMAIN line'[q] : line'[q][i] = k
  BY <1>3, <1>5 DEF Kept
<1>7. \A i, k \in DOMAIN line'[q] : line'[q][i] = line'[q][k] => i = k
  BY <1>3, <1>4 DEF Kept
<1>8. {k \in JobIds : record'[q][k] = "active"} = {k \in JobIds : record[q][k] = "active"}
  BY <1>2, <1>5
<1> QED
  BY <1>6, <1>7, <1>8 DEF Kept

\* No operation loses a job of the line or the one in progress.
LEMMA KeptStep ==
  ASSUME QueueTypeOK, \A p \in Queues : Kept(p), NEW q \in Queues, OneQueue(q)
  PROVE  \A p \in Queues : Kept(p)'
<1>1. ASSUME NEW p \in Queues, p # q PROVE Kept(p)'
  <2>1. record'[p] = record[p] /\ line'[p] = line[p] /\ at'[p] = at[p]
    BY <1>1, ZenonT(40) DEF OneQueue, QueueTypeOK, Enqueue, TimerFires, Put, Register, Start, Stop,
                ScheduleRepeat, Retry, Work, ProcessNothing, ProcessNext, Finish
  <2> QED
    BY <2>1 DEF Kept
<1>2. Kept(q)'
  <2>1. ASSUME NEW j \in JobIds, Enqueue(q, j) \/ TimerFires(q, j) PROVE Kept(q)'
    BY <2>1, PutKept DEF Enqueue, TimerFires
  <2>2. ASSUME NEW old \in JobIds, NEW new \in JobIds, Retry(q, old, new) PROVE Kept(q)'
    BY <2>2, PutKept DEF Retry
  <2>3. CASE Register(q) \/ Start(q) \/ Stop(q) \/ ScheduleRepeat(q) \/ ProcessNothing(q)
    BY <2>3 DEF Register, Start, Stop, ScheduleRepeat, ProcessNothing, Kept
  <2>4. CASE ProcessNext(q)
    <3> DEFINE s == line[q]
               h == Head(s)
    <3>1. s \in Seq(JobIds) /\ s # <<>> /\ at[q] = NoJob
      BY <2>4 DEF ProcessNext, Idle, QueueTypeOK
    <3>2. /\ line'[q] = Tail(s)
          /\ record'[q] = [record[q] EXCEPT ![h] = "active"]
          /\ at'[q] = h
      BY <2>4 DEF ProcessNext, QueueTypeOK
    <3>3. record[q] \in [JobIds -> JobState]
      BY DEF QueueTypeOK
    <3>4. /\ h = s[1] /\ h \in JobIds
          /\ 1 \in DOMAIN s
          /\ \A i \in DOMAIN Tail(s) : Tail(s)[i] = s[i + 1] /\ i + 1 \in DOMAIN s
          /\ \A i \in DOMAIN s : i # 1 => i - 1 \in DOMAIN Tail(s)
          /\ \A i \in DOMAIN s \cup DOMAIN Tail(s) : i \in Int /\ i >= 1
      BY <3>1, LineShifts
    <3>5. /\ \A j \in JobIds : record[q][j] = "created" <=> \E i \in DOMAIN s : s[i] = j
          /\ \A i, k \in DOMAIN s : s[i] = s[k] => i = k
          /\ {j \in JobIds : record[q][j] = "active"} = {}
      BY <3>1 DEF Kept
    <3> HIDE DEF s, h
    <3>6. \A j \in JobIds : record'[q][j] = IF j = h THEN "active" ELSE record[q][j]
      BY <3>2, <3>3
    <3>7. \A i \in DOMAIN Tail(s) : Tail(s)[i] # h
      BY <3>4, <3>5
    <3>8. ASSUME NEW j \in JobIds
          PROVE record'[q][j] = "created" <=> \E i \in DOMAIN Tail(s) : Tail(s)[i] = j
      <4>1. ASSUME NEW i \in DOMAIN Tail(s), Tail(s)[i] = j PROVE record'[q][j] = "created"
        BY <3>4, <3>5, <3>6, <3>7, <4>1
      <4>2. ASSUME record'[q][j] = "created" PROVE \E i \in DOMAIN Tail(s) : Tail(s)[i] = j
        <5>1. PICK i \in DOMAIN s : s[i] = j
          BY <3>5, <3>6, <4>2
        <5>2. i # 1
          BY <3>4, <3>6, <4>2, <5>1
        <5>3. i - 1 \in DOMAIN Tail(s) /\ Tail(s)[i - 1] = s[i]
          BY <3>4, <5>2
        <5> QED
          BY <5>1, <5>3
      <4> QED
        BY <4>1, <4>2
    <3>9. \A i, k \in DOMAIN Tail(s) : Tail(s)[i] = Tail(s)[k] => i = k
      BY <3>4, <3>5
    <3>10. {j \in JobIds : record'[q][j] = "active"} = {h} \ {NoJob}
      BY <3>4, <3>5, <3>6, QueueAssumption
    <3> QED
      BY <3>2, <3>8, <3>9, <3>10 DEF Kept
  <2>5. ASSUME NEW outcome \in Terminal, Finish(q, outcome) PROVE Kept(q)'
    <3> DEFINE a == at[q]
               rec == [record[q] EXCEPT ![a] = outcome]
               gone == Evicted(q, rec)
    <3>1. a \in JobIds /\ a # NoJob
      BY <2>5 DEF Finish, QueueTypeOK
    <3>2. /\ record'[q] = [j \in JobIds |-> IF j \in gone THEN "none" ELSE rec[j]]
          /\ line'[q] = line[q]
          /\ at'[q] = NoJob
      BY <2>5 DEF Finish, QueueTypeOK
    <3>3. \A j \in gone : j \in JobIds /\ rec[j] \in Terminal
      BY DEF Evicted
    <3>4. record[q] \in [JobIds -> JobState]
      BY DEF QueueTypeOK
    <3>5. \A j \in JobIds : rec[j] = IF j = a THEN outcome ELSE record[q][j]
      BY <3>1, <3>4
    <3> HIDE DEF rec, gone
    <3>6. record[q][a] = "active"
      BY <3>1 DEF Kept
    <3>7. \A j \in JobIds : record'[q][j] = "created" <=> record[q][j] = "created"
      BY <3>2, <3>3, <3>5, <3>6 DEF Terminal
    <3>8. {j \in JobIds : record'[q][j] = "active"} = {}
      <4>1. \A j \in JobIds : record[q][j] = "active" => j = a
        BY DEF Kept
      <4> QED
        BY <3>2, <3>5, <4>1 DEF Terminal
    <3> QED
      BY <3>2, <3>7, <3>8 DEF Kept
  <2> QED
    BY <2>1, <2>2, <2>3, <2>4, <2>5 DEF OneQueue, Work
<1> QED
  BY <1>1, <1>2

\* The line holds exactly the created jobs, each once, and the handler's job is
\* the active one, in every order of operations and evictions.
THEOREM BacklogKept == QueueSpec => []BacklogIsKept
<1>1. QueueInit => \A p \in Queues : Kept(p)
  BY QueueAssumption DEF QueueInit, Kept
<1>2. QueueTypeOK /\ (\A p \in Queues : Kept(p)) /\ [QueueNext]_queueVars
        => (\A p \in Queues : Kept(p))'
  <2> SUFFICES ASSUME QueueTypeOK, \A p \in Queues : Kept(p), [QueueNext]_queueVars
               PROVE (\A p \in Queues : Kept(p))'
    OBVIOUS
  <2>1. CASE QueueNext
    <3>1. PICK q \in Queues : OneQueue(q)
      BY <2>1 DEF QueueNext, OneQueue
    <3>2. \A p \in Queues : Kept(p)'
      BY <3>1, KeptStep
    <3> QED
      BY <3>2
  <2>2. CASE UNCHANGED queueVars
    BY <2>2 DEF queueVars, Kept
  <2> QED
    BY <2>1, <2>2
<1>3. (\A p \in Queues : Kept(p)) => BacklogIsKept
  BY DEF Kept, BacklogIsKept
<1> QED
  BY <1>1, <1>2, <1>3, QueueTypeCorrect, PTL DEF QueueSpec

-----------------------------------------------------------------------------
(* Background: the erasures of all servers through their queues. *)

\* A crash gives a process an empty queue and no plan.
LEMMA CrashTyped ==
  ASSUME TypeOK, NEW q \in Queues, Crash(q)
  PROVE  TypeOK'
<1> USE BackgroundAssumption, QueueAssumption DEF TypeOK
<1>1. <<>> \in Seq(JobIds)
  BY EmptySeq
<1>2. QueueTypeOK'
  BY <1>1 DEF Crash, QueueTypeOK, JobState
<1>3. ErasureTypeOK'
  BY DEF Crash, ErasureTypeOK
<1> QED
  BY <1>2, <1>3

\* The steps that go through a queue are steps of it.
LEMMA QueuePart ==
  ASSUME TypeOK, NEW q \in Queues, QueueStep(q) \/ BeginTick(q) \/ EndTick(q)
  PROVE  QueueTypeOK'
<1>1. OneQueue(q)
  BY DEF QueueStep, BeginTick, EndTick, Boot, OneQueue, Work, Terminal
<1> QED
  BY <1>1, QueueTypeStep DEF TypeOK

\* What readPendingErasures() returns are rows.
LEMMA BatchesAreRows == \A batch \in Batches : Ready(batch) \subseteq Rows
BY DEF Batches, Ready, Active

\* The requests, the clock and the administrator keep the table's types.
LEMMA TableTyped ==
  ASSUME ErasureTypeOK, AskForErasure \/ Day \/ \E r \in Rows : Cancel(r)
  PROVE  ErasureTypeOK'
<1> USE ErasureAssumption DEF ErasureTypeOK
<1>1. ASSUME NEW a \in Askers, CheckExisting(a) \/ InsertFails(a) PROVE ErasureTypeOK'
  BY <1>1 DEF CheckExisting, InsertFails
<1>2. ASSUME NEW a \in Askers, NEW r \in Rows, Insert(a, r) PROVE ErasureTypeOK'
  <2>1. rows' \in [Rows -> Row]
    <3>1. [user |-> UserOf[a], status |-> "pending", age |-> 0] \in Row
      BY DEF Row
    <3> QED
      BY <1>2, <3>1 DEF Insert
  <2>2. blind' \subseteq Askers /\ doubled' \subseteq Users
    BY <1>2 DEF Insert, Fellows
  <2> QED
    BY <1>2, <2>1, <2>2 DEF Insert
<1>3. ASSUME NEW r \in Rows, Cancel(r) PROVE ErasureTypeOK'
  BY <1>3 DEF Cancel, Row
<1>4. CASE Day
  <2>1. rows' = [r \in Rows |-> IF r \in Active /\ rows[r].age < Grace
                                THEN [rows[r] EXCEPT !.age = rows[r].age + 1]
                                ELSE rows[r]]
    BY <1>4 DEF Day
  <2>2. \A r \in Rows : rows[r].age < Grace => [rows[r] EXCEPT !.age = rows[r].age + 1] \in Row
    BY DEF Row
  <2>3. rows' \in [Rows -> Row]
    BY <2>1, <2>2
  <2> QED
    BY <1>4, <2>3 DEF Day
<1> QED
  BY <1>1, <1>2, <1>3, <1>4 DEF AskForErasure

\* The steps of tick() keep the table's types.
LEMMA TickTyped ==
  ASSUME ErasureTypeOK, NEW s \in Servers, TickStep(s)
  PROVE  ErasureTypeOK'
<1> USE DEF ErasureTypeOK
<1>1. CASE ReadPending(s)
  BY <1>1, BatchesAreRows DEF ReadPending
<1>2. CASE ReadPendingFails(s)
  BY <1>2 DEF ReadPendingFails
<1>3. ASSUME NEW r \in Rows, EraseUser(s, r) PROVE ErasureTypeOK'
  <2>1. rows' \in [Rows -> Row]
    BY <1>3 DEF EraseUser, Row
  <2>2. rows[r].user \in Users
    BY DEF Row
  <2> QED
    BY <1>3, <2>1, <2>2 DEF EraseUser
<1>4. ASSUME NEW r \in Rows, EraseFails(s, r) PROVE ErasureTypeOK'
  BY <1>4 DEF EraseFails
<1> QED
  BY <1>1, <1>2, <1>3, <1>4 DEF TickStep

\* Queues and table are well typed in every reachable state.
THEOREM BackgroundTypeCorrect == Spec => []TypeOK
<1>1. Init => TypeOK
  <2>1. <<>> \in Seq(JobIds)
    BY EmptySeq
  <2>2. QueueInit => QueueTypeOK
    BY <2>1, QueueAssumption DEF QueueInit, QueueTypeOK, JobState
  <2>3. ErasureInit => ErasureTypeOK
    BY ErasureAssumption DEF ErasureInit, ErasureTypeOK, Row
  <2> QED
    BY <2>2, <2>3, BackgroundAssumption DEF Init, TypeOK
<1>2. TypeOK /\ [Next]_backgroundVars => TypeOK'
  <2> SUFFICES ASSUME TypeOK, [Next]_backgroundVars PROVE TypeOK'
    OBVIOUS
  <2>1. ASSUME NEW q \in Queues, QueueStep(q) PROVE TypeOK'
    BY <2>1, QueuePart DEF QueueStep, TypeOK, erasureVars, ErasureTypeOK
  <2>2. ASSUME NEW q \in Queues, BeginTick(q) \/ EndTick(q)
        PROVE TypeOK'
    BY <2>2, QueuePart DEF BeginTick, EndTick, TypeOK, ErasureTypeOK
  <2>3. ASSUME NEW q \in Queues, TickStep(q), UNCHANGED queueVars PROVE TypeOK'
    BY <2>3, TickTyped, BackgroundAssumption DEF TypeOK, QueueTypeOK, queueVars
  <2>4. ASSUME NEW q \in Queues, Crash(q) PROVE TypeOK'
    BY <2>4, CrashTyped
  <2>5. CASE TableNext
    BY <2>5, TableTyped DEF TableNext, TypeOK, QueueTypeOK, queueVars
  <2>6. CASE UNCHANGED backgroundVars
    BY <2>6 DEF backgroundVars, queueVars, erasureVars, TypeOK, QueueTypeOK, ErasureTypeOK
  <2> QED
    BY <2>1, <2>2, <2>3, <2>4, <2>5, <2>6 DEF Next, TickNext
<1> QED
  BY <1>1, <1>2, PTL DEF Spec

\* A step of Background, as far as the table is concerned.
TableStep ==
  \/ AskForErasure \/ Day \/ \E r \in Rows : Cancel(r)
  \/ \E s \in Servers : TickStep(s)
  \/ /\ UNCHANGED <<rows, erased, ask, blind, doubled, late>>
     /\ \A s \in Servers : plan'[s] \subseteq plan[s]

\* Queues, ticks that begin or end and crashes leave the table alone.
LEMMA TableOnly == TypeOK /\ [Next]_backgroundVars => TableStep
BY BackgroundAssumption
   DEF Next, QueueStep, TickNext, BeginTick, EndTick, Crash, TableNext, TableStep,
       backgroundVars, erasureVars, TypeOK, ErasureTypeOK

\* A completed request means an erased user, whatever transactions fail and
\* whichever servers crash.
THEOREM CompletedMeansErased == Spec => []CompletedIsErased
<1>1. Init => CompletedIsErased
  BY DEF Init, ErasureInit, CompletedIsErased
<1>2. TypeOK /\ CompletedIsErased /\ [Next]_backgroundVars => CompletedIsErased'
  <2> SUFFICES ASSUME TypeOK, CompletedIsErased, TableStep PROVE CompletedIsErased'
    BY TableOnly
  <2> USE DEF TypeOK, ErasureTypeOK, CompletedIsErased
  <2>1. ASSUME NEW a \in Askers, CheckExisting(a) \/ InsertFails(a) PROVE CompletedIsErased'
    BY <2>1 DEF CheckExisting, InsertFails
  <2>2. ASSUME NEW a \in Askers, NEW r \in Rows, Insert(a, r) PROVE CompletedIsErased'
    BY <2>2 DEF Insert
  <2>3. ASSUME NEW r \in Rows, Cancel(r) PROVE CompletedIsErased'
    BY <2>3 DEF Cancel, Row
  <2>4. CASE Day
    BY <2>4 DEF Day, Row
  <2>5. ASSUME NEW s \in Servers, ReadPending(s) \/ ReadPendingFails(s)
        PROVE CompletedIsErased'
    BY <2>5 DEF ReadPending, ReadPendingFails
  <2>6. ASSUME NEW s \in Servers, NEW r \in Rows, EraseUser(s, r) PROVE CompletedIsErased'
    BY <2>6 DEF EraseUser, Row
  <2>7. ASSUME NEW s \in Servers, NEW r \in Rows, EraseFails(s, r) PROVE CompletedIsErased'
    BY <2>7 DEF EraseFails
  <2>8. CASE UNCHANGED <<rows, erased, ask, blind, doubled, late>>
    BY <2>8
  <2> QED
    BY <2>1, <2>2, <2>3, <2>4, <2>5, <2>6, <2>7, <2>8 DEF TableStep, AskForErasure, TickStep
<1> QED
  BY <1>1, <1>2, BackgroundTypeCorrect, PTL DEF Spec

\* A request that has seen no active row, and that no other insert of its user
\* has overtaken, still has none.
CheckHolds ==
  \A a \in Askers :
    ask[a] = "insert" => a \in blind \/ ActiveOf(UserOf[a]) = {}

\* A user has two active rows only where two of the user's requests overlapped.
THEOREM RepeatsAreCollapsed == Spec => []RepeatsCollapse
<1>1. Init => CheckHolds /\ RepeatsCollapse
  BY DEF Init, ErasureInit, CheckHolds, RepeatsCollapse, Active
<1>2. TypeOK /\ CheckHolds /\ RepeatsCollapse /\ [Next]_backgroundVars
        => CheckHolds' /\ RepeatsCollapse'
  <2> SUFFICES ASSUME TypeOK, CheckHolds, RepeatsCollapse, TableStep
               PROVE  CheckHolds' /\ RepeatsCollapse'
    BY TableOnly
  <2> USE ErasureAssumption DEF TypeOK, ErasureTypeOK, CheckHolds, RepeatsCollapse, Active, ActiveOf
  <2>1. ASSUME NEW a \in Askers, CheckExisting(a) \/ InsertFails(a)
        PROVE CheckHolds' /\ RepeatsCollapse'
    BY <2>1 DEF CheckExisting, InsertFails
  <2>2. ASSUME NEW a \in Askers, NEW r \in Rows, Insert(a, r)
        PROVE CheckHolds' /\ RepeatsCollapse'
    <3>1. /\ ask[a] = "insert"
          /\ ask' = [ask EXCEPT ![a] = "idle"]
          /\ blind' = (blind \cup Fellows(a)) \ {a}
          /\ doubled' = IF a \in blind THEN doubled \cup {UserOf[a]} ELSE doubled
      BY <2>2 DEF Insert
    <3>2. /\ \A t \in Rows \ {r} : rows'[t] = rows[t]
          /\ rows'[r].user = UserOf[a]
          /\ rows'[r].status = "pending"
      BY <2>2 DEF Insert
    <3>3. CheckHolds'
      <4> SUFFICES ASSUME NEW b \in Askers, ask'[b] = "insert", b \notin blind'
                   PROVE \A t \in Rows :
                           rows'[t].status = "pending" => rows'[t].user # UserOf[b]
        OBVIOUS
      <4>1. b # a /\ ask[b] = "insert" /\ b \notin blind
        BY <3>1
      <4>2. UserOf[b] # UserOf[a]
        BY <3>1, <4>1 DEF Fellows
      <4> QED
        BY <3>2, <4>1, <4>2
    <3>4. RepeatsCollapse'
      <4>1. doubled \subseteq doubled' /\ (a \in blind => UserOf[a] \in doubled')
        BY <3>1
      <4>2. a \in blind \/ \A t \in Rows : rows[t].status = "pending" => rows[t].user # UserOf[a]
        BY <3>1
      <4> QED
        BY <3>2, <4>1, <4>2
    <3> QED
      BY <3>3, <3>4
  <2>3. ASSUME NEW r \in Rows, Cancel(r) PROVE CheckHolds' /\ RepeatsCollapse'
    <3>1. /\ UNCHANGED <<ask, blind, doubled>>
          /\ \A t \in Rows : /\ rows'[t].user = rows[t].user
                             /\ rows'[t].status = "pending" => rows[t].status = "pending"
      BY <2>3 DEF Cancel, Row
    <3> QED
      BY <3>1
  <2>4. CASE Day
    <3>1. /\ UNCHANGED <<ask, blind, doubled>>
          /\ \A t \in Rows : /\ rows'[t].user = rows[t].user
                             /\ rows'[t].status = rows[t].status
      BY <2>4 DEF Day, Row
    <3> QED
      BY <3>1
  <2>5. ASSUME NEW s \in Servers, NEW r \in Rows, EraseUser(s, r)
        PROVE CheckHolds' /\ RepeatsCollapse'
    <3>1. /\ UNCHANGED <<ask, blind, doubled>>
          /\ \A t \in Rows : /\ rows'[t].user = rows[t].user
                             /\ rows'[t].status = "pending" => rows[t].status = "pending"
      BY <2>5 DEF EraseUser, Row
    <3> QED
      BY <3>1
  <2>6. ASSUME NEW s \in Servers,
               \/ ReadPending(s) \/ ReadPendingFails(s)
               \/ \E r \in Rows : EraseFails(s, r)
        PROVE CheckHolds' /\ RepeatsCollapse'
    <3>1. UNCHANGED <<rows, ask, blind, doubled>>
      BY <2>6 DEF ReadPending, ReadPendingFails, EraseFails
    <3> QED
      BY <3>1
  <2>7. CASE UNCHANGED <<rows, erased, ask, blind, doubled, late>>
    BY <2>7
  <2> QED
    BY <2>1, <2>2, <2>3, <2>4, <2>5, <2>6, <2>7 DEF TableStep, AskForErasure, TickStep
<1> QED
  BY <1>1, <1>2, BackgroundTypeCorrect, PTL DEF Spec

\* A planned row has had its grace period, and was withdrawn only after it was
\* planned.
PlanInv ==
  \A s \in Servers : \A r \in plan[s] :
    /\ rows[r].status # "unused"
    /\ rows[r].age = Grace
    /\ rows[r].status = "cancelled" => r \in late

\* Nobody is erased early, or after a withdrawal no tick had overtaken.
THEOREM ErasuresAreDue == Spec => ErasureIsDue
<1>1. Init => PlanInv
  BY DEF Init, ErasureInit, PlanInv
<1>2. TypeOK /\ PlanInv /\ [Next]_backgroundVars => PlanInv'
  <2> SUFFICES ASSUME TypeOK, PlanInv, TableStep PROVE PlanInv'
    BY TableOnly
  <2> USE ErasureAssumption DEF TypeOK, ErasureTypeOK, PlanInv
  <2>1. ASSUME NEW a \in Askers, CheckExisting(a) \/ InsertFails(a) PROVE PlanInv'
    BY <2>1 DEF CheckExisting, InsertFails
  <2>2. ASSUME NEW a \in Askers, NEW r \in Rows, Insert(a, r) PROVE PlanInv'
    BY <2>2 DEF Insert
  <2>3. ASSUME NEW r \in Rows, Cancel(r) PROVE PlanInv'
    <3>1. /\ plan' = plan
          /\ \A t \in Rows \ {r} : rows'[t] = rows[t]
          /\ rows'[r].age = rows[r].age /\ rows'[r].status = "cancelled"
          /\ late \subseteq late'
          /\ (\E s \in Servers : r \in plan[s]) => r \in late'
      BY <2>3 DEF Cancel, Row
    <3> QED
      BY <3>1
  <2>4. CASE Day
    <3>1. /\ UNCHANGED <<plan, late>>
          /\ \A t \in Rows : /\ rows'[t].status = rows[t].status
                             /\ rows[t].age = Grace => rows'[t].age = Grace
      BY <2>4 DEF Day, Row
    <3> QED
      BY <3>1
  <2>5. ASSUME NEW s \in Servers, ReadPending(s) PROVE PlanInv'
    <3>1. PICK batch \in Batches : plan' = [plan EXCEPT ![s] = Ready(batch)]
      BY <2>5 DEF ReadPending
    <3>2. \A r \in Ready(batch) : rows[r].status = "pending" /\ rows[r].age = Grace
      <4>1. batch \subseteq Active
        BY DEF Batches
      <4>2. \A r \in Active : r \in Rows /\ rows[r].status = "pending" /\ rows[r].age \in 0..Grace
        BY DEF Active, Row
      <4>3. \A r \in Ready(batch) : r \in batch /\ rows[r].age >= Grace
        BY DEF Ready
      <4> QED
        BY <4>1, <4>2, <4>3
    <3> QED
      BY <2>5, <3>1, <3>2 DEF ReadPending
  <2>6. ASSUME NEW s \in Servers, NEW r \in Rows, EraseUser(s, r) PROVE PlanInv'
    <3>1. /\ late' = late
          /\ \A t \in Rows \ {r} : rows'[t] = rows[t]
          /\ rows'[r].age = rows[r].age /\ rows'[r].status = "completed"
          /\ \A v \in Servers : plan'[v] \subseteq plan[v]
      BY <2>6 DEF EraseUser, Row
    <3> QED
      BY <3>1
  <2>7. ASSUME NEW s \in Servers, ReadPendingFails(s) \/ \E r \in Rows : EraseFails(s, r)
        PROVE PlanInv'
    BY <2>7 DEF ReadPendingFails, EraseFails
  <2>8. CASE /\ UNCHANGED <<rows, erased, ask, blind, doubled, late>>
             /\ \A s \in Servers : plan'[s] \subseteq plan[s]
    BY <2>8
  <2> QED
    BY <2>1, <2>2, <2>3, <2>4, <2>5, <2>6, <2>7, <2>8 DEF TableStep, AskForErasure, TickStep
<1> DEFINE Due == \A u \in erased' \ erased :
                    \E r \in Rows :
                      /\ rows[r].user = u
                      /\ rows[r].age = Grace
                      /\ rows[r].status = "pending" \/ r \in late
<1>3. TypeOK /\ PlanInv /\ CompletedIsErased /\ [Next]_backgroundVars => [Due]_erasureVars
  <2> SUFFICES ASSUME TypeOK, PlanInv, CompletedIsErased, TableStep PROVE Due
    BY TableOnly
  <2>1. ASSUME NEW s \in Servers, NEW r \in Rows, EraseUser(s, r) PROVE Due
    <3> SUFFICES ASSUME NEW u \in erased', u \notin erased
                 PROVE \E t \in Rows : /\ rows[t].user = u
                                       /\ rows[t].age = Grace
                                       /\ rows[t].status = "pending" \/ t \in late
      OBVIOUS
    <3>1. rows[r].user = u /\ r \in plan[s]
      BY <2>1 DEF EraseUser
    <3>2. rows[r].status # "completed"
      BY <3>1 DEF CompletedIsErased
    <3>3. rows[r].status \in {"unused", "pending", "completed", "cancelled"}
      BY DEF TypeOK, ErasureTypeOK, Row
    <3> QED
      BY <3>1, <3>2, <3>3 DEF PlanInv
  <2>2. CASE ~ \E s \in Servers, r \in Rows : EraseUser(s, r)
    <3>1. erased' = erased
      BY <2>2 DEF TableStep, AskForErasure, TickStep, CheckExisting, Insert, InsertFails, Day,
                  Cancel, ReadPending, ReadPendingFails, EraseFails
    <3> QED
      BY <3>1
  <2> QED
    BY <2>1, <2>2
<1> QED
  BY <1>1, <1>2, <1>3, BackgroundTypeCorrect, CompletedMeansErased, PTL DEF Spec, ErasureIsDue

-----------------------------------------------------------------------------
\* What keeps a cut-off GeoIP file due: only a running process downloads, it does
\* so when the refresh is due, and lastRunMs stays as old until the file is whole.
RefreshInv ==
  /\ tick # "rest" => up
  /\ tick \in {"fetch", "open", "write"} => sinceRun = Interval
  /\ mmdb = "torn" /\ up /\ ~ cut => sinceRun = Interval
  /\ mmdb = "torn" /\ ~ up => cut

(***************************************************************************)
(* A GeoIP file that a failed write has cut off stays due until a whole one *)
(* replaces it, unless the process ends meanwhile: for every interval and   *)
(* any number of crashes and failed downloads.                              *)
(***************************************************************************)
THEOREM RefreshSound == GeoSpec => []RefreshIsSound
<1> USE GeoAssumption
<1>1. GeoInit => GeoTypeOK /\ RefreshInv
  <2> SUFFICES ASSUME GeoInit PROVE GeoTypeOK /\ RefreshInv
    OBVIOUS
  <2>1. up \in BOOLEAN /\ cut \in BOOLEAN /\ ~ up
    BY Zenon DEF GeoInit
  <2>2. /\ mmdb = "missing" /\ mtime = Interval /\ sinceRun = Interval /\ tick = "rest"
        /\ begun = 0 /\ reader = "unopened" /\ exits = 0
    BY Zenon DEF GeoInit
  <2> QED
    BY <2>1, <2>2 DEF GeoTypeOK, RefreshInv, Ages
<1>2. GeoTypeOK /\ RefreshInv /\ [GeoNext]_geoVars => GeoTypeOK' /\ RefreshInv'
  <2> SUFFICES ASSUME GeoTypeOK, RefreshInv, [GeoNext]_geoVars PROVE GeoTypeOK' /\ RefreshInv'
    OBVIOUS
  <2> USE DEF GeoTypeOK, RefreshInv, Ages
  <2>1. CASE OnModuleInit
    BY <2>1 DEF OnModuleInit
  <2>2. CASE NextDay
    BY <2>2 DEF NextDay, Older
  <2>3. CASE MaybeRun
    BY <2>3 DEF MaybeRun, RefreshDue
  <2>4. CASE Fetched
    BY <2>4 DEF Fetched
  <2>5. CASE OpenFile
    <3>1. cut' \in BOOLEAN
      BY <2>5, Zenon DEF OpenFile
    <3>2. /\ mmdb' = "torn" /\ mtime' = 0 /\ tick' = "write" /\ tick = "open"
          /\ UNCHANGED <<up, sinceRun, begun, reader, exits>>
      BY <2>5, Zenon DEF OpenFile
    <3> QED
      BY <3>1, <3>2
  <2>6. CASE Written
    BY <2>6 DEF Written
  <2>7. CASE DownloadFails
    BY <2>7 DEF DownloadFails
  <2>8. CASE Lookup
    BY <2>8 DEF Lookup, Opened
  <2>9. CASE GeoCrash
    <3>1. up' \in BOOLEAN /\ ~ up' /\ cut' \in BOOLEAN /\ (mmdb = "torn" => cut')
      BY <2>9, Zenon DEF GeoCrash
    <3>2. /\ exits' = exits + 1 /\ exits < MaxExits
          /\ tick' = "rest" /\ reader' = "unopened"
          /\ UNCHANGED <<mmdb, mtime, sinceRun, begun>>
      BY <2>9, Zenon DEF GeoCrash
    <3> QED
      BY <3>1, <3>2
  <2>10. CASE UNCHANGED geoVars
    BY <2>10 DEF geoVars
  <2> QED
    BY <2>1, <2>2, <2>3, <2>4, <2>5, <2>6, <2>7, <2>8, <2>9, <2>10 DEF GeoNext, Download
<1>3. GeoTypeOK /\ RefreshInv => RefreshIsSound
  BY DEF RefreshInv, RefreshIsSound, TornIsDue
<1> QED
  BY <1>1, <1>2, <1>3, PTL DEF GeoSpec
=============================================================================
