------------------------------ MODULE JobQueue ------------------------------
(***************************************************************************)
(* BullMQJobQueue without Redis (src/src/core/jobs/bullmq-job-queue.ts):    *)
(* the InProcessQueue of one job name in each server process.  Callers      *)
(* enqueue, register, start, stop and retry in any order; the queue works   *)
(* one job at a time along a chain of promises, each of which calls         *)
(* processOne() once.                                                       *)
(***************************************************************************)
EXTENDS Integers, Sequences, FiniteSets

CONSTANTS
  Queues,      \* the queue of each process
  JobIds,      \* bound: job ids in use at a time; randomUUID() never repeats
  NoJob,       \* the queue is not inside a handler
  Keep,        \* EVICT_THRESHOLD
  Batch,       \* EVICT_BATCH
  MaxChain     \* bound: promises queued behind each other that are told apart

ASSUME QueueAssumption ==
  /\ NoJob \notin JobIds
  /\ IsFiniteSet(JobIds)
  /\ Keep \in Nat
  /\ Batch \in Nat \ {0}
  /\ MaxChain \in Nat \ {0}

VARIABLES
  made,      \* inProcessQueues has the queue
  handled,   \* its handler is set
  started,   \* BullMQJobQueue.started
  running,   \* InProcessQueue.running
  armed,     \* the interval timer that enqueues the job
  record,    \* the state of each record
  older,     \* the insertion order of the records Map
  line,      \* pendingIds
  chain,     \* calls of processOne() that inFlight still has to make
  at,        \* the job whose handler is awaited
  starved    \* history: the last call of the chain found no handler

queueVars == <<made, handled, started, running, armed, record, older, line,
               chain, at, starved>>

Terminal == {"completed", "failed"}

JobState == {"none", "created", "active"} \cup Terminal

\* Type invariant of a queue, its records and the timer.
QueueTypeOK ==
  /\ made \in [Queues -> BOOLEAN]
  /\ handled \in [Queues -> BOOLEAN]
  /\ started \in [Queues -> BOOLEAN]
  /\ running \in [Queues -> BOOLEAN]
  /\ armed \in [Queues -> BOOLEAN]
  /\ record \in [Queues -> [JobIds -> JobState]]
  /\ older \in [Queues -> SUBSET (JobIds \X JobIds)]
  /\ line \in [Queues -> Seq(JobIds)]
  /\ chain \in [Queues -> 0..MaxChain]
  /\ at \in [Queues -> JobIds \cup {NoJob}]
  /\ starved \in [Queues -> BOOLEAN]

QueueInit ==
  /\ made = [q \in Queues |-> FALSE]
  /\ handled = [q \in Queues |-> FALSE]
  /\ started = [q \in Queues |-> FALSE]
  /\ running = [q \in Queues |-> FALSE]
  /\ armed = [q \in Queues |-> FALSE]
  /\ record = [q \in Queues |-> [j \in JobIds |-> "none"]]
  /\ older = [q \in Queues |-> {}]
  /\ line = [q \in Queues |-> <<>>]
  /\ chain = [q \in Queues |-> 0]
  /\ at = [q \in Queues |-> NoJob]
  /\ starved = [q \in Queues |-> FALSE]

-----------------------------------------------------------------------------
(***************************************************************************)
(* scheduleProcess(), n times.  Calls beyond MaxChain only find an empty    *)
(* line, so they are not counted.                                           *)
(***************************************************************************)
Schedule(q, n) ==
  /\ chain' = [chain EXCEPT ![q] =
                 IF @ + n < MaxChain THEN @ + n ELSE MaxChain]
  /\ starved' = [starved EXCEPT ![q] = @ /\ n = 0]

\* InProcessQueue.start() schedules only what was not running.
Wakes(q) == IF running[q] THEN 0 ELSE 1

Records(rec) == {j \in JobIds : rec[j] # "none"}

\* add(): a record, a place in the line.
Put(q, j) ==
  /\ record[q][j] = "none"
  /\ record' = [record EXCEPT ![q][j] = "created"]
  /\ older' = [older EXCEPT ![q] = @ \cup (Records(record[q]) \X {j})]
  /\ line' = [line EXCEPT ![q] = Append(@, j)]

\* Variant of Enqueue: a running queue is not scheduled.
EnqueueQuietly(q, j) ==
  /\ Put(q, j)
  /\ made' = [made EXCEPT ![q] = TRUE]
  /\ UNCHANGED <<handled, started, running, armed, chain, at, starved>>

\* enqueue(): a queue that is not running is not scheduled.
Enqueue(q, j) ==
  /\ Put(q, j)
  /\ made' = [made EXCEPT ![q] = TRUE]
  /\ Schedule(q, IF running[q] THEN 1 ELSE 0)
  /\ UNCHANGED <<handled, started, running, armed, at>>

\* Variant of Register: a queue registered after start() is not started.
RegisterPassive(q) ==
  /\ made' = [made EXCEPT ![q] = TRUE]
  /\ handled' = [handled EXCEPT ![q] = TRUE]
  /\ UNCHANGED <<started, running, armed, record, older, line, chain, at, starved>>

\* register(): the handler is set and, after start(), the queue is started.
Register(q) ==
  /\ made' = [made EXCEPT ![q] = TRUE]
  /\ handled' = [handled EXCEPT ![q] = TRUE]
  /\ IF started[q]
     THEN running' = [running EXCEPT ![q] = TRUE] /\ Schedule(q, Wakes(q))
     ELSE UNCHANGED <<running, chain, starved>>
  /\ UNCHANGED <<started, armed, record, older, line, at>>

\* BullMQJobQueue.start(): the queues that exist are started.
Start(q) ==
  /\ started' = [started EXCEPT ![q] = TRUE]
  /\ IF made[q]
     THEN running' = [running EXCEPT ![q] = TRUE] /\ Schedule(q, Wakes(q))
     ELSE UNCHANGED <<running, chain, starved>>
  /\ UNCHANGED <<made, handled, armed, record, older, line, at>>

\* stop(): timers and queues; `started` stays set.
Stop(q) ==
  /\ running' = [running EXCEPT ![q] = FALSE]
  /\ armed' = [armed EXCEPT ![q] = FALSE]
  /\ UNCHANGED <<made, handled, started, record, older, line, chain, at, starved>>

\* scheduleRepeat(): one interval timer per job name.
ScheduleRepeat(q) ==
  /\ armed' = [armed EXCEPT ![q] = TRUE]
  /\ UNCHANGED <<made, handled, started, running, record, older, line, chain, at,
                 starved>>

\* The timer enqueues.
TimerFires(q, j) == armed[q] /\ Enqueue(q, j)

\* retry() of a failed job: a new job, and after start() the queue is started.
Retry(q, old, new) ==
  /\ record[q][old] = "failed"
  /\ Put(q, new)
  /\ running' = [running EXCEPT ![q] = @ \/ started[q]]
  /\ Schedule(q, (IF started[q] THEN Wakes(q) ELSE 0) +
                 (IF running'[q] THEN 1 ELSE 0))
  /\ UNCHANGED <<made, handled, started, armed, at>>

-----------------------------------------------------------------------------
(* processOne(), once the previous link of the chain has settled *)

Idle(q) == ~ running[q] \/ ~ handled[q] \/ line[q] = <<>>

\* It returns at once, without scheduling another call.
ProcessNothing(q) ==
  /\ chain[q] > 0 /\ at[q] = NoJob
  /\ Idle(q)
  /\ chain' = [chain EXCEPT ![q] = @ - 1]
  /\ starved' = [starved EXCEPT ![q] = @ \/ ~ handled[q]]
  /\ UNCHANGED <<made, handled, started, running, armed, record, older, line, at>>

\* Variant of ProcessNext: the job is popped off the end of the line.
ProcessLast(q) ==
  /\ chain[q] > 0 /\ at[q] = NoJob
  /\ ~ Idle(q)
  /\ chain' = [chain EXCEPT ![q] = @ - 1]
  /\ line' = [line EXCEPT ![q] = SubSeq(@, 1, Len(@) - 1)]
  /\ record' = [record EXCEPT ![q][line[q][Len(line[q])]] = "active"]
  /\ at' = [at EXCEPT ![q] = line[q][Len(line[q])]]
  /\ UNCHANGED <<made, handled, started, running, armed, older, starved>>

\* It shifts a job off the line and calls the handler.
ProcessNext(q) ==
  /\ chain[q] > 0 /\ at[q] = NoJob
  /\ ~ Idle(q)
  /\ chain' = [chain EXCEPT ![q] = @ - 1]
  /\ line' = [line EXCEPT ![q] = Tail(@)]
  /\ record' = [record EXCEPT ![q][Head(line[q])] = "active"]
  /\ at' = [at EXCEPT ![q] = Head(line[q])]
  /\ UNCHANGED <<made, handled, started, running, armed, older, starved>>

\* evictOldEntries(): the oldest finished records, once there are too many.
Evicted(q, rec) ==
  LET Done == {j \in JobIds : rec[j] \in Terminal}
      Before(j) == {i \in Done : <<i, j>> \in older[q]}
  IN  IF Cardinality(Records(rec)) > Keep
      THEN {j \in Done : Cardinality(Before(j)) < Batch}
      ELSE {}

\* The handler settles; old records go; the next job is scheduled.
Finish(q, outcome) ==
  LET rec == [record[q] EXCEPT ![at[q]] = outcome]
      gone == Evicted(q, rec)
  IN  /\ at[q] # NoJob
      /\ record' = [record EXCEPT ![q] =
                      [j \in JobIds |-> IF j \in gone THEN "none" ELSE rec[j]]]
      /\ older' = [older EXCEPT ![q] = @ \ ((gone \X JobIds) \cup (JobIds \X gone))]
      /\ at' = [at EXCEPT ![q] = NoJob]
      /\ Schedule(q, IF running[q] /\ line[q] # <<>> THEN 1 ELSE 0)
      /\ UNCHANGED <<made, handled, started, running, armed, line>>

Work(q) ==
  \/ ProcessNothing(q)
  \/ ProcessNext(q)
  \/ \E outcome \in Terminal : Finish(q, outcome)

QueueNext ==
  \E q \in Queues :
    \/ \E j \in JobIds : Enqueue(q, j) \/ TimerFires(q, j)
    \/ Register(q) \/ Start(q) \/ Stop(q) \/ ScheduleRepeat(q)
    \/ \E old, new \in JobIds : Retry(q, old, new)
    \/ Work(q)

QueueSpec == QueueInit /\ [][QueueNext]_queueVars

-----------------------------------------------------------------------------
(***************************************************************************)
(* A running queue with a handler and a backlog has somebody who will take  *)
(* it up, however stop(), start(), retry(), register() and enqueue() are    *)
(* ordered against a handler in progress; the one exception are jobs that   *)
(* were queued and started before register(), which wait for the next       *)
(* enqueue().                                                               *)
(***************************************************************************)
WorkIsScheduled ==
  \A q \in Queues :
    running[q] /\ handled[q] /\ line[q] # <<>> =>
      at[q] # NoJob \/ chain[q] > 0 \/ starved[q]

(***************************************************************************)
(* evictOldEntries() never takes a record that is still needed: the line    *)
(* holds exactly the created records, each once, and the handler's record   *)
(* is the active one.  (processOne() drops an id without a record and       *)
(* schedules nothing more.)                                                 *)
(***************************************************************************)
BacklogIsKept ==
  \A q \in Queues :
    /\ \A j \in JobIds :
         record[q][j] = "created" <=> \E i \in DOMAIN line[q] : line[q][i] = j
    /\ \A i, k \in DOMAIN line[q] : line[q][i] = line[q][k] => i = k
    /\ {j \in JobIds : record[q][j] = "active"} = {at[q]} \ {NoJob}

(***************************************************************************)
(* Every job that was accepted is worked off, unless the queue is stopped,  *)
(* nobody registers a handler, or it is one of those left behind by a late  *)
(* register().                                                              *)
(***************************************************************************)
EveryJobRuns ==
  \A q \in Queues, j \in JobIds :
    record[q][j] = "created" ~>
      \/ record[q][j] # "created"
      \/ ~ running[q] \/ ~ handled[q] \/ starved[q]
=============================================================================
