----------------------------- MODULE Background -----------------------------
(***************************************************************************)
(* Account erasure as it runs in a server without Redis: the scheduled job  *)
(* "gdprErasure" (src/src/core/jobs/scheduled-job-bullmq-adapter.ts) of     *)
(* every server process goes through that process's in-process queue, whose *)
(* handler is GdprErasureRunner.tick().  Processes crash and boot again.    *)
(* Composes JobQueue and Erasure.                                           *)
(***************************************************************************)
EXTENDS JobQueue, Erasure

ASSUME BackgroundAssumption == Servers = Queues

backgroundVars == <<queueVars, erasureVars>>

\* Type invariant of the queues, the requests and the ticks.
TypeOK == QueueTypeOK /\ ErasureTypeOK

Init == QueueInit /\ ErasureInit

\* onModuleInit() starts the queues, onApplicationBootstrap() registers the
\* job and sets its timer.
Boot(q) ==
  \/ ~ started[q] /\ Start(q)
  \/ started[q] /\ ~ handled[q] /\ Register(q)
  \/ handled[q] /\ ~ armed[q] /\ ScheduleRepeat(q)

\* The queue calls the handler, and the handler tick().
BeginTick(q) ==
  /\ ProcessNext(q)
  /\ ticking' = [ticking EXCEPT ![q] = "read"]
  /\ UNCHANGED <<rows, erased, ask, plan, blind, doubled, late>>

\* tick() returns or throws; the adapter's handler resolves either way.
EndTick(q) ==
  /\ ticking[q] = "erase" /\ plan[q] = {}
  /\ Finish(q, "completed")
  /\ ticking' = [ticking EXCEPT ![q] = "off"]
  /\ UNCHANGED <<rows, erased, ask, plan, blind, doubled, late>>

TickStep(s) ==
  \/ ReadPending(s)
  \/ ReadPendingFails(s)
  \/ \E r \in Rows : EraseUser(s, r) \/ EraseFails(s, r)

\* The process dies; its memory is gone, and it boots again.
Crash(q) ==
  /\ made' = [made EXCEPT ![q] = FALSE]
  /\ handled' = [handled EXCEPT ![q] = FALSE]
  /\ started' = [started EXCEPT ![q] = FALSE]
  /\ running' = [running EXCEPT ![q] = FALSE]
  /\ armed' = [armed EXCEPT ![q] = FALSE]
  /\ record' = [record EXCEPT ![q] = [j \in JobIds |-> "none"]]
  /\ older' = [older EXCEPT ![q] = {}]
  /\ line' = [line EXCEPT ![q] = <<>>]
  /\ chain' = [chain EXCEPT ![q] = 0]
  /\ at' = [at EXCEPT ![q] = NoJob]
  /\ starved' = [starved EXCEPT ![q] = FALSE]
  /\ ticking' = [ticking EXCEPT ![q] = "off"]
  /\ plan' = [plan EXCEPT ![q] = {}]
  /\ UNCHANGED <<rows, erased, ask, blind, doubled, late>>

QueueStep(q) ==
  /\ Boot(q) \/ ProcessNothing(q) \/ \E j \in JobIds : TimerFires(q, j)
  /\ UNCHANGED erasureVars

TickNext(q) ==
  \/ BeginTick(q) \/ EndTick(q)
  \/ TickStep(q) /\ UNCHANGED queueVars

TableNext ==
  /\ AskForErasure \/ Day \/ \E r \in Rows : Cancel(r)
  /\ UNCHANGED queueVars

Next ==
  \/ \E q \in Queues : QueueStep(q) \/ TickNext(q) \/ Crash(q)
  \/ TableNext

Spec == Init /\ [][Next]_backgroundVars

Succeeds(A) == A /\ UNCHANGED queueVars

(***************************************************************************)
(* A process boots, its timer fires and its promises settle; days pass; a   *)
(* query or a transaction that is tried again and again succeeds once; and  *)
(* processes do not crash for ever.                                         *)
(***************************************************************************)
Fairness ==
  /\ \A q \in Queues :
       WF_backgroundVars(QueueStep(q)) /\ WF_backgroundVars(TickNext(q))
  /\ SF_backgroundVars(Succeeds(\E q \in Queues : ReadPending(q)))
  /\ \A r \in Rows :
       SF_backgroundVars(Succeeds(\E q \in Queues : EraseUser(q, r)))
  /\ WF_backgroundVars(Succeeds(Day))
  /\ <>[][\A q \in Queues : ~ Crash(q)]_backgroundVars

FairSpec == Spec /\ Fairness

-----------------------------------------------------------------------------
(***************************************************************************)
(* Every account whose deletion was requested, and not withdrawn, is erased *)
(* in the end, although transactions fail and servers lose their queues, if *)
(* the active rows fit into one batch from some time on.  While they do not,*)
(* the SELECT may keep to rows in their grace period, new ones day by day,  *)
(* and pass over a row that is due: it has a LIMIT and no order.            *)
(***************************************************************************)
RequestsAreErased ==
  <>[](Cardinality(Active) <= ReadLimit) =>
    \A r \in Rows : rows[r].status = "pending" ~> rows[r].status # "pending"
=============================================================================
