------------------------------- MODULE Outbox -------------------------------
(***************************************************************************)
(* The transactional event outbox of src/core/outbox: OutboxRecorder       *)
(* appends rows, OutboxWorkerLifecycle starts one OutboxWorker.runOnce()   *)
(* per timer tick, runOnce() claims a batch and fans every entry out to    *)
(* the registered dispatchers.                                             *)
(*                                                                         *)
(* setInterval does not wait for the promise of the previous tick, so a    *)
(* replica runs several runOnce() calls at once: one per slot.  Every      *)
(* await is a point where other calls run, hence an action boundary.       *)
(*                                                                         *)
(* The five-minute age of a claim is a flag that goes up at any time after *)
(* the claim (ClaimGoesStale); the counter of dispatch attempts saturates  *)
(* one above MaxAttempts, the only threshold the code compares it with.    *)
(***************************************************************************)
EXTENDS Naturals, FiniteSets

CONSTANTS
  Entries,      \* the events that callers may record (one uuidV7 id each)
  Replicas,     \* server processes that share the table
  Slots,        \* overlapping runOnce() calls per replica
  Dispatchers,  \* what is registered on OUTBOX_DISPATCHERS
  Durable,      \* TRUE: PrismaOutboxStorage, FALSE: InMemoryOutboxStorage
  BatchSize,    \* OutboxWorkerOptions.batchSize
  Capped,       \* is OutboxWorkerOptions.maxAttempts set?
  MaxAttempts,  \* OutboxWorkerOptions.maxAttempts, meaningful when Capped
  Faults,       \* which calls may fail, and whether a process may die
  NoReplica, NoEntry

ASSUME OutboxAssumption ==
  /\ Durable \in BOOLEAN
  /\ Capped \in BOOLEAN
  /\ BatchSize \in Nat \ {0}
  /\ MaxAttempts \in Nat
  /\ Faults \subseteq {"append", "worker", "reset", "seed", "crash"}
  /\ NoReplica \notin Replicas
  /\ NoEntry \notin Entries

VARIABLES
  row,       \* row[e]: where the entry is, see RowState
  seq,       \* seq[e]: OutboxEntry.seq
  stale,     \* stale[e]: claimed_at is older than five minutes
  attempts,  \* attempts[e]: dispatch_attempt_count
  caller,    \* caller[e]: the replica whose record() call made the entry
  boot,      \* boot[r]: life cycle of the replica
  nextSeq,   \* nextSeq[r]: OutboxRecorder.nextSeq
  phase,     \* phase[t]: where runOnce() t is
  batch,     \* batch[t]: entries claimed by t and not finished with
  cur,       \* cur[t]: the entry of the for loop
  waiting,   \* waiting[t]: dispatchers of the Promise.all still running
  failed,    \* failed[t]: some dispatcher of the Promise.all has rejected
  overdue,   \* history: entries that t has held for over five minutes
  delivered  \* history: the dispatchers that have accepted the entry

tableVars == <<row, seq, stale, attempts, caller>>
bootVars  == <<boot, nextSeq>>
runVars   == <<phase, batch, cur, waiting, failed, overdue>>
vars      == <<tableVars, bootVars, runVars, delivered>>

Runs == Replicas \X Slots

\* absent: not recorded; sending: INSERT under way; the next three are
\* processed_at NULL, the in-flight sentinel, a real timestamp; lost: the
\* INSERT never committed and record() rejected or died with its process.
RowState  == {"absent", "sending", "null", "inflight", "processed", "lost"}
BootState == {"down", "seeding", "up", "draining"}
Phase     == {"idle", "next", "dispatch", "dead"}

InTable   == {e \in Entries : row[e] \in {"null", "inflight", "processed"}}
Claimable == {e \in Entries : row[e] = "null"}
Alive(r)  == boot[r] \in {"up", "draining"}

Init ==
  /\ row       = [e \in Entries |-> "absent"]
  /\ seq       = [e \in Entries |-> 0]
  /\ stale     = [e \in Entries |-> FALSE]
  /\ attempts  = [e \in Entries |-> 0]
  /\ caller    = [e \in Entries |-> NoReplica]
  /\ boot      = [r \in Replicas |-> "down"]
  /\ nextSeq   = [r \in Replicas |-> 1]
  /\ phase     = [t \in Runs |-> "idle"]
  /\ batch     = [t \in Runs |-> {}]
  /\ cur       = [t \in Runs |-> NoEntry]
  /\ waiting   = [t \in Runs |-> {}]
  /\ failed    = [t \in Runs |-> FALSE]
  /\ overdue   = [t \in Runs |-> {}]
  /\ delivered = [e \in Entries |-> {}]

-----------------------------------------------------------------------------
(* Start-up and shutdown: OutboxWorkerLifecycle.                           *)

\* Variant of BootReset: the sweep takes every in-flight row, whatever its age.
BootResetAnyAge(r) ==
  /\ boot[r] = "down"
  /\ boot' = [boot EXCEPT ![r] = "seeding"]
  /\ row' = [e \in Entries |-> IF row[e] = "inflight" THEN "null" ELSE row[e]]
  /\ UNCHANGED <<seq, stale, attempts, caller, nextSeq, runVars, delivered>>

\* Variant of BootReset: the sweep goes by claimed_at alone.
BootResetByAge(r) ==
  /\ boot[r] = "down"
  /\ boot' = [boot EXCEPT ![r] = "seeding"]
  /\ row' = [e \in Entries |->
               IF Durable /\ row[e] \in {"inflight", "processed"} /\ stale[e]
               THEN "null" ELSE row[e]]
  /\ UNCHANGED <<seq, stale, attempts, caller, nextSeq, runVars, delivered>>

\* resetStaleSentinels(): in-flight rows claimed over five minutes ago
\* become claimable again.  The in-memory store has nothing to reset.
BootReset(r) ==
  /\ boot[r] = "down"
  /\ boot' = [boot EXCEPT ![r] = "seeding"]
  /\ row' = [e \in Entries |->
               IF Durable /\ row[e] = "inflight" /\ stale[e]
               THEN "null" ELSE row[e]]
  /\ UNCHANGED <<seq, stale, attempts, caller, nextSeq, runVars, delivered>>

\* The UPDATE fails; the error is logged and start-up goes on.
BootResetFails(r) ==
  /\ "reset" \in Faults
  /\ boot[r] = "down"
  /\ boot' = [boot EXCEPT ![r] = "seeding"]
  /\ UNCHANGED <<tableVars, nextSeq, runVars, delivered>>

\* Variant of BootSeed: MAX(seq) without the + 1.
BootSeedAtMax(r) ==
  /\ boot[r] = "seeding"
  /\ boot' = [boot EXCEPT ![r] = "up"]
  /\ \E m \in {1} \cup {seq[e] : e \in InTable} :
       /\ \A e \in InTable : seq[e] <= m
       /\ nextSeq' = [nextSeq EXCEPT ![r] = m]
  /\ UNCHANGED <<tableVars, runVars, delivered>>

\* maxSeq() and initSeq(max + 1), then setInterval.  m is COALESCE(MAX, 0).
BootSeed(r) ==
  /\ boot[r] = "seeding"
  /\ boot' = [boot EXCEPT ![r] = "up"]
  /\ \E m \in {0} \cup {seq[e] : e \in InTable} :
       /\ \A e \in InTable : seq[e] <= m
       /\ nextSeq' = [nextSeq EXCEPT ![r] = IF Durable /\ m + 1 > nextSeq[r]
                                            THEN m + 1 ELSE nextSeq[r]]
  /\ UNCHANGED <<tableVars, runVars, delivered>>

BootSeedFails(r) ==
  /\ "seed" \in Faults
  /\ boot[r] = "seeding"
  /\ boot' = [boot EXCEPT ![r] = "up"]
  /\ UNCHANGED <<tableVars, nextSeq, runVars, delivered>>

\* onModuleDestroy(): the timer stops, running ticks are not awaited.
Shutdown(r) ==
  /\ boot[r] = "up"
  /\ boot' = [boot EXCEPT ![r] = "draining"]
  /\ UNCHANGED <<tableVars, nextSeq, runVars, delivered>>

\* The process ends, in the middle of whatever it is doing.  Only the
\* durable store outlives it; with the other one the behaviour ends here.
Crash(r) ==
  /\ Durable
  /\ "crash" \in Faults
  /\ Alive(r)
  /\ boot' = [boot EXCEPT ![r] = "down"]
  /\ nextSeq' = [nextSeq EXCEPT ![r] = 1]
  /\ row' = [e \in Entries |->
               IF row[e] = "sending" /\ caller[e] = r THEN "lost" ELSE row[e]]
  /\ phase'   = [t \in Runs |-> IF t[1] = r THEN "idle" ELSE phase[t]]
  /\ batch'   = [t \in Runs |-> IF t[1] = r THEN {} ELSE batch[t]]
  /\ cur'     = [t \in Runs |-> IF t[1] = r THEN NoEntry ELSE cur[t]]
  /\ waiting' = [t \in Runs |-> IF t[1] = r THEN {} ELSE waiting[t]]
  /\ failed'  = [t \in Runs |-> IF t[1] = r THEN FALSE ELSE failed[t]]
  /\ overdue' = [t \in Runs |-> IF t[1] = r THEN {} ELSE overdue[t]]
  /\ UNCHANGED <<seq, stale, attempts, caller, delivered>>

-----------------------------------------------------------------------------
(* OutboxRecorder.record(): the sequence number is taken before the await. *)

Record(r, e) ==
  /\ Alive(r)
  /\ row[e] = "absent"
  /\ row' = [row EXCEPT ![e] = "sending"]
  /\ seq' = [seq EXCEPT ![e] = nextSeq[r]]
  /\ caller' = [caller EXCEPT ![e] = r]
  /\ nextSeq' = [nextSeq EXCEPT ![r] = nextSeq[r] + 1]
  /\ UNCHANGED <<stale, attempts, boot, runVars, delivered>>

Append(e) ==
  /\ row[e] = "sending"
  /\ row' = [row EXCEPT ![e] = "null"]
  /\ UNCHANGED <<seq, stale, attempts, caller, bootVars, runVars, delivered>>

AppendFails(e) ==
  /\ "append" \in Faults
  /\ row[e] = "sending"
  /\ row' = [row EXCEPT ![e] = "lost"]
  /\ UNCHANGED <<seq, stale, attempts, caller, bootVars, runVars, delivered>>

-----------------------------------------------------------------------------
(* OutboxWorker.runOnce().                                                 *)

\* The rows a claim takes: the BatchSize first ones by seq.
Batches ==
  {B \in SUBSET Claimable :
     /\ B # {}
     /\ Cardinality(B) <= BatchSize
     /\ Cardinality(B) = BatchSize \/ B = Claimable
     /\ \A e \in B, f \in Claimable \ B : seq[e] <= seq[f]}

\* claimBatch(): one transaction selects the rows and, in the database,
\* writes the sentinel and claimed_at = NOW().  The in-memory store leaves
\* the rows claimable.
ClaimBatch(t) ==
  /\ boot[t[1]] = "up"
  /\ phase[t] = "idle"
  /\ \E B \in Batches :
       /\ batch' = [batch EXCEPT ![t] = B]
       /\ row' = [e \in Entries |->
                    IF Durable /\ e \in B THEN "inflight" ELSE row[e]]
       /\ stale' = [e \in Entries |-> IF e \in B THEN FALSE ELSE stale[e]]
  /\ phase' = [phase EXCEPT ![t] = "next"]
  /\ UNCHANGED <<seq, attempts, caller, bootVars, cur, waiting, failed,
                 overdue, delivered>>

\* Variant of Attempted: the counter is not written back.
AttemptedNotStored(e) == attempts[e]

\* The attempt counter after one more attempt, saturating.
Attempted(e) == IF attempts[e] > MaxAttempts THEN attempts[e] ELSE attempts[e] + 1

\* incrementDispatchAttemptCount() for the next entry of the batch, then the
\* retry-cap guard, then the start of every dispatcher.
NextEntry(t) ==
  /\ phase[t] = "next"
  /\ \E e \in batch[t] :
       /\ \A f \in batch[t] : seq[e] <= seq[f]
       /\ cur' = [cur EXCEPT ![t] = e]
       /\ attempts' = [attempts EXCEPT ![e] = Attempted(e)]
       /\ IF Capped /\ Attempted(e) > MaxAttempts
          THEN /\ phase' = [phase EXCEPT ![t] = "dead"]
               /\ UNCHANGED waiting
          ELSE /\ phase' = [phase EXCEPT ![t] = "dispatch"]
               /\ waiting' = [waiting EXCEPT ![t] = Dispatchers]
  /\ failed' = [failed EXCEPT ![t] = FALSE]
  /\ UNCHANGED <<row, seq, stale, caller, bootVars, batch, overdue, delivered>>

DispatchOk(t, d) ==
  /\ phase[t] = "dispatch"
  /\ d \in waiting[t]
  /\ waiting' = [waiting EXCEPT ![t] = waiting[t] \ {d}]
  /\ delivered' = [delivered EXCEPT ![cur[t]] = delivered[cur[t]] \cup {d}]
  /\ UNCHANGED <<tableVars, bootVars, phase, batch, cur, failed, overdue>>

DispatchFails(t, d) ==
  /\ phase[t] = "dispatch"
  /\ d \in waiting[t]
  /\ waiting' = [waiting EXCEPT ![t] = waiting[t] \ {d}]
  /\ failed' = [failed EXCEPT ![t] = TRUE]
  /\ UNCHANGED <<tableVars, bootVars, phase, batch, cur, overdue, delivered>>

\* The end of one iteration: on with the rest of the batch, or done.
FinishEntry(t) ==
  LET rest == batch[t] \ {cur[t]} IN
    /\ batch' = [batch EXCEPT ![t] = rest]
    /\ overdue' = [overdue EXCEPT ![t] = overdue[t] \ {cur[t]}]
    /\ phase' = [phase EXCEPT ![t] = IF rest = {} THEN "idle" ELSE "next"]
    /\ cur' = [cur EXCEPT ![t] = NoEntry]
    /\ failed' = [failed EXCEPT ![t] = FALSE]
    /\ UNCHANGED waiting

\* markProcessed(): the WHERE clause takes a NULL or an in-flight row.
Processed(e) == [row EXCEPT ![e] = IF row[e] \in {"null", "inflight"}
                                   THEN "processed" ELSE row[e]]

Settled(t) == phase[t] = "dispatch" /\ waiting[t] = {}

\* Variant of MarkProcessed: a rejected dispatcher does not keep the entry.
MarkProcessedRegardless(t) ==
  /\ Settled(t)
  /\ row' = Processed(cur[t])
  /\ FinishEntry(t)
  /\ UNCHANGED <<seq, stale, attempts, caller, bootVars, delivered>>

MarkProcessed(t) ==
  /\ Settled(t)
  /\ ~failed[t]
  /\ row' = Processed(cur[t])
  /\ FinishEntry(t)
  /\ UNCHANGED <<seq, stale, attempts, caller, bootVars, delivered>>

DeadLetter(t) ==
  /\ phase[t] = "dead"
  /\ row' = Processed(cur[t])
  /\ FinishEntry(t)
  /\ UNCHANGED <<seq, stale, attempts, caller, bootVars, delivered>>

\* A dispatcher threw: nothing is written, the loop moves on.
LeaveUnprocessed(t) ==
  /\ Settled(t)
  /\ failed[t]
  /\ FinishEntry(t)
  /\ UNCHANGED <<tableVars, bootVars, delivered>>

\* An UPDATE of the loop throws: runOnce() rejects and the rest of the
\* batch is dropped where it is.
RunFails(t) ==
  /\ "worker" \in Faults
  /\ phase[t] \in {"next", "dead"} \/ (Settled(t) /\ ~failed[t])
  /\ phase' = [phase EXCEPT ![t] = "idle"]
  /\ batch' = [batch EXCEPT ![t] = {}]
  /\ cur' = [cur EXCEPT ![t] = NoEntry]
  /\ failed' = [failed EXCEPT ![t] = FALSE]
  /\ overdue' = [overdue EXCEPT ![t] = {}]
  /\ UNCHANGED <<tableVars, bootVars, waiting, delivered>>

\* Five minutes have gone by since the row was claimed.
ClaimGoesStale(e) ==
  /\ Durable
  /\ row[e] = "inflight"
  /\ ~stale[e]
  /\ stale' = [stale EXCEPT ![e] = TRUE]
  /\ overdue' = [t \in Runs |-> IF e \in batch[t] THEN overdue[t] \cup {e}
                                                  ELSE overdue[t]]
  /\ UNCHANGED <<row, seq, attempts, caller, bootVars, phase, batch, cur,
                 waiting, failed, delivered>>

-----------------------------------------------------------------------------

Boot(r) == BootReset(r) \/ BootResetFails(r) \/ BootSeed(r) \/ BootSeedFails(r)

\* What a running runOnce() does by itself.
RunStep(t) ==
  \/ NextEntry(t)
  \/ \E d \in Dispatchers : DispatchOk(t, d) \/ DispatchFails(t, d)
  \/ MarkProcessed(t) \/ DeadLetter(t) \/ LeaveUnprocessed(t) \/ RunFails(t)

Next ==
  \/ \E r \in Replicas : Boot(r) \/ Shutdown(r) \/ Crash(r)
  \/ \E r \in Replicas, e \in Entries : Record(r, e)
  \/ \E e \in Entries : Append(e) \/ AppendFails(e) \/ ClaimGoesStale(e)
  \/ \E t \in Runs : ClaimBatch(t) \/ RunStep(t)

Spec == Init /\ [][Next]_vars

\* The timer keeps firing, the awaited UPDATEs return, and every dispatcher
\* settles one way or the other.  Nothing makes a dispatcher succeed, and
\* nothing makes a process restart.
Fairness ==
  /\ \A r \in Replicas : WF_vars(Boot(r))
  /\ \A e \in Entries : WF_vars(Append(e) \/ AppendFails(e))
  /\ \A t \in Runs : WF_vars(ClaimBatch(t)) /\ WF_vars(RunStep(t))

FairSpec == Spec /\ Fairness

-----------------------------------------------------------------------------
(* Properties.                                                             *)

\* Type correctness of the table, the replicas and the running ticks.
TypeOK ==
  /\ row \in [Entries -> RowState]
  /\ seq \in [Entries -> Nat]
  /\ stale \in [Entries -> BOOLEAN]
  /\ attempts \in [Entries -> Nat]
  /\ caller \in [Entries -> Replicas \cup {NoReplica}]
  /\ boot \in [Replicas -> BootState]
  /\ nextSeq \in [Replicas -> Nat]
  /\ phase \in [Runs -> Phase]
  /\ batch \in [Runs -> SUBSET Entries]
  /\ cur \in [Runs -> Entries \cup {NoEntry}]
  /\ waiting \in [Runs -> SUBSET Dispatchers]
  /\ failed \in [Runs -> BOOLEAN]
  /\ overdue \in [Runs -> SUBSET Entries]
  /\ delivered \in [Entries -> SUBSET Dispatchers]

\* An entry leaves the queue only when every dispatcher has accepted it, or
\* when it has used up its attempts (the dead-letter branch of runOnce()):
\* whatever crashed, failed or was claimed twice in between.
ProcessedMeansDelivered ==
  \A e \in Entries :
    row[e] = "processed" =>
      \/ delivered[e] = Dispatchers
      \/ Capped /\ attempts[e] > MaxAttempts

\* The sentinel of claimBatch() is a lease of five minutes: two runOnce()
\* calls, of one replica or of two, hold the same entry only when one of
\* them has held it for longer than that (so that a booting replica's
\* resetStaleSentinels() could take it away).
ClaimIsExclusiveLease ==
  Durable =>
    \A t, u \in Runs :
      t # u => batch[t] \cap batch[u] \subseteq overdue[t] \cup overdue[u]

\* Sequence numbers do not collide across restarts of the process (the
\* seeding of nextSeq from MAX(seq) in onModuleInit()).  Meant for one
\* replica whose seed query succeeds; two replicas do collide.
SeqUnique ==
  \A e, f \in InTable : e # f => seq[e] # seq[f]

\* With maxAttempts set no entry circulates for ever: it is processed,
\* delivered or dead-lettered, unless the server is shut down first.
PoisonPillLeaves ==
  \A e \in Entries :
    row[e] = "null" ~> \/ row[e] = "processed"
                       \/ \A r \in Replicas : boot[r] # "up"

-----------------------------------------------------------------------------
(* The outbox implements its promise.                                      *)

Debt(e) == CASE row[e] \in {"null", "inflight"} -> "owed"
             [] row[e] = "processed" -> "settled"
             [] OTHER -> "none"

Promise == INSTANCE OutboxPromise WITH
  debt <- [e \in Entries |-> Debt(e)],
  got <- delivered,
  tries <- attempts,
  MayGiveUp <- Capped,
  Limit <- MaxAttempts

\* Claims, overlapping ticks, resets, failed UPDATEs and restarts never
\* forget an accepted entry, deliver one that was not accepted, or settle
\* one early or twice: OutboxPromise holds of the table.
KeepsPromise == Promise!Spec

=============================================================================
