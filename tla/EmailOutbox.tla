----------------------------- MODULE EmailOutbox -----------------------------
(***************************************************************************)
(* The e-mail outbox of src/core/email: EmailOutboxRecorder.enqueue()      *)
(* writes a record, EmailOutboxWorker.runOnce() lists due records, claims  *)
(* them one by one, hands each to the driver and writes the outcome, and   *)
(* an administrator retries or cancels records meanwhile.                  *)
(*                                                                         *)
(* The timer does not wait for the previous runOnce(), and every replica   *)
(* has a timer of its own: Ticks are the calls that may run at once.       *)
(* Every await is an action boundary.  Time is two flags per record: a     *)
(* claim is none, fresh or stale (over STALE_CLAIM_THRESHOLD_MS old), and  *)
(* nextAttemptAt has come or not.                                          *)
(***************************************************************************)
EXTENDS Naturals, FiniteSets

CONSTANTS
  Mails,        \* the enqueue() calls, and the records they may create
  Key,          \* Key[m]: the idempotencyKey passed, or NoKey
  NoKey,
  Ticks,        \* runOnce() calls that may be under way at the same time
  BatchSize,    \* EmailOutboxWorkerOptions.batchSize
  MaxAttempts,  \* EmailOutboxRetryConfig.maxAttempts
  Faults,       \* what may go wrong, see the actions that name a fault
  NoMail

ASSUME EmailAssumption ==
  /\ NoMail \notin Mails
  /\ IsFiniteSet(Mails)
  /\ BatchSize \in Nat \ {0}
  /\ MaxAttempts \in Nat \ {0}
  /\ Faults \subseteq {"append", "claim", "write", "crash", "slow", "retry", "cancel"}

VARIABLES
  enq,       \* enq[m]: progress of the enqueue() call
  created,   \* created[m]: rank of createdAt, 0 before it is taken
  status,    \* status[m]: EmailOutboxRecord.status
  attempts,  \* attempts[m]: EmailOutboxRecord.attemptCount
  due,       \* due[m]: nextAttemptAt is null or has come
  claim,     \* claim[m]: EmailOutboxRecord.claimedAt
  phase,     \* phase[t]: where runOnce() t is
  cands,     \* cands[t]: candidates that t has not come to yet
  seen,      \* seen[t][m]: attemptCount in the candidate t has listed
  cur,       \* cur[t]: the candidate that t has claimed
  accepted,  \* history: the driver has accepted the mail
  tries,     \* history: driver calls since creation or the last retry
  miscounted,\* history: mails a tick tried from an old copy or died with
  disturbed  \* history: the claim was lost during a driver call

recordVars  == <<enq, created, status, attempts, due, claim>>
tickVars    == <<phase, cands, seen, cur>>
historyVars == <<accepted, tries, miscounted, disturbed>>
vars        == <<recordVars, tickVars, historyVars>>

Status == {"none", "pending", "sent", "dead-letter", "cancelled"}
Claim  == {"none", "fresh", "stale"}
Phase  == {"idle", "loop", "driver", "accepted", "transient", "permanent"}
Enq    == {"new", "looked", "stored", "existing", "rejected"}

\* Ticks that hold m from the claim to the write of the outcome.
Holders(m) == {t \in Ticks : cur[t] = m}

Init ==
  /\ enq       = [m \in Mails |-> "new"]
  /\ created   = [m \in Mails |-> 0]
  /\ status    = [m \in Mails |-> "none"]
  /\ attempts  = [m \in Mails |-> 0]
  /\ due       = [m \in Mails |-> TRUE]
  /\ claim     = [m \in Mails |-> "none"]
  /\ phase     = [t \in Ticks |-> "idle"]
  /\ cands     = [t \in Ticks |-> {}]
  /\ seen      = [t \in Ticks |-> [m \in Mails |-> 0]]
  /\ cur       = [t \in Ticks |-> NoMail]
  /\ accepted  = [m \in Mails |-> FALSE]
  /\ tries     = [m \in Mails |-> 0]
  /\ miscounted = {}
  /\ disturbed = [m \in Mails |-> FALSE]

-----------------------------------------------------------------------------
(* EmailOutboxRecorder.enqueue().                                          *)

\* A stored record with the key that m passes.
Taken(m) == Key[m] # NoKey /\ \E n \in Mails : status[n] # "none" /\ Key[n] = Key[m]

\* findByIdempotencyKey(), then createdAt unless a record is found.
Lookup(m) ==
  /\ enq[m] = "new"
  /\ IF Taken(m)
     THEN /\ enq' = [enq EXCEPT ![m] = "existing"]
          /\ UNCHANGED created
     ELSE /\ enq' = [enq EXCEPT ![m] = "looked"]
          /\ created' = [created EXCEPT ![m] =
                           1 + Cardinality({n \in Mails : created[n] # 0})]
  /\ UNCHANGED <<status, attempts, due, claim, tickVars, historyVars>>

\* The INSERT; the unique index on idempotency_key lets one of several
\* equal keys in.
Append(m) ==
  /\ enq[m] = "looked"
  /\ ~Taken(m)
  /\ enq' = [enq EXCEPT ![m] = "stored"]
  /\ status' = [status EXCEPT ![m] = "pending"]
  /\ UNCHANGED <<created, attempts, due, claim, tickVars, historyVars>>

\* The INSERT fails, on the unique index or otherwise: enqueue() rejects.
AppendFails(m) ==
  /\ enq[m] = "looked"
  /\ Taken(m) \/ "append" \in Faults
  /\ enq' = [enq EXCEPT ![m] = "rejected"]
  /\ UNCHANGED <<created, status, attempts, due, claim, tickVars, historyVars>>

-----------------------------------------------------------------------------
(* EmailOutboxWorker.runOnce().                                            *)

Dispatchable ==
  {m \in Mails : status[m] = "pending" /\ due[m] /\ claim[m] # "fresh"}

\* What listDispatchable() may return: the BatchSize oldest by createdAt.
Batches ==
  {B \in SUBSET Dispatchable :
     /\ B # {}
     /\ Cardinality(B) <= BatchSize
     /\ Cardinality(B) = BatchSize \/ B = Dispatchable
     /\ \A m \in B, n \in Dispatchable \ B : created[m] <= created[n]}

\* listDispatchable(): the candidates are a copy of the rows as they are now.
List(t) ==
  /\ phase[t] = "idle"
  /\ \E B \in Batches : cands' = [cands EXCEPT ![t] = B]
  /\ seen' = [seen EXCEPT ![t] = attempts]
  /\ phase' = [phase EXCEPT ![t] = "loop"]
  /\ UNCHANGED <<recordVars, cur, historyVars>>

IsNext(t, m) ==
  /\ phase[t] = "loop"
  /\ m \in cands[t]
  /\ \A n \in cands[t] : created[m] <= created[n]

\* The loop after candidate m: the next one, or the end of runOnce().
After(t, m) == IF cands[t] \subseteq {m} THEN "idle" ELSE "loop"

\* History of a driver call for m, capped above MaxAttempts.
CountTry(t, m) ==
  /\ tries' = [tries EXCEPT ![m] = IF tries[m] > MaxAttempts THEN tries[m]
                                                             ELSE tries[m] + 1]
  /\ miscounted' = miscounted \cup {n \in {m} : seen[t][n] # attempts[n]}

\* Variants of ClaimMail: without the status, and without the claim, in the
\* WHERE clause.
ClaimAnyStatus(t, m) ==
  /\ IsNext(t, m)
  /\ status[m] # "none"
  /\ claim[m] # "fresh"
  /\ claim' = [claim EXCEPT ![m] = "fresh"]
  /\ cands' = [cands EXCEPT ![t] = cands[t] \ {m}]
  /\ cur' = [cur EXCEPT ![t] = m]
  /\ phase' = [phase EXCEPT ![t] = "driver"]
  /\ CountTry(t, m)
  /\ UNCHANGED <<enq, created, status, attempts, due, seen, accepted, disturbed>>

ClaimAnyClaim(t, m) ==
  /\ IsNext(t, m)
  /\ status[m] = "pending"
  /\ claim' = [claim EXCEPT ![m] = "fresh"]
  /\ cands' = [cands EXCEPT ![t] = cands[t] \ {m}]
  /\ cur' = [cur EXCEPT ![t] = m]
  /\ phase' = [phase EXCEPT ![t] = "driver"]
  /\ CountTry(t, m)
  /\ UNCHANGED <<enq, created, status, attempts, due, seen, accepted, disturbed>>

\* claim(): one conditional UPDATE, then the driver call starts.  Whether
\* the record is still due is not looked at again.
ClaimMail(t, m) ==
  /\ IsNext(t, m)
  /\ status[m] = "pending"
  /\ claim[m] # "fresh"
  /\ claim' = [claim EXCEPT ![m] = "fresh"]
  /\ cands' = [cands EXCEPT ![t] = cands[t] \ {m}]
  /\ cur' = [cur EXCEPT ![t] = m]
  /\ phase' = [phase EXCEPT ![t] = "driver"]
  /\ CountTry(t, m)
  /\ UNCHANGED <<enq, created, status, attempts, due, seen, accepted, disturbed>>

\* claim() affects no row, or throws: the candidate is skipped.
SkipMail(t, m) ==
  /\ IsNext(t, m)
  /\ status[m] # "pending" \/ claim[m] = "fresh" \/ "claim" \in Faults
  /\ cands' = [cands EXCEPT ![t] = cands[t] \ {m}]
  /\ phase' = [phase EXCEPT ![t] = After(t, m)]
  /\ UNCHANGED <<recordVars, seen, cur, historyVars>>

DriverAccepts(t) ==
  /\ phase[t] = "driver"
  /\ phase' = [phase EXCEPT ![t] = "accepted"]
  /\ accepted' = [accepted EXCEPT ![cur[t]] = TRUE]
  /\ UNCHANGED <<recordVars, cands, seen, cur, tries, miscounted, disturbed>>

\* The driver throws; classifyErrorKind() tells the two kinds apart.
DriverThrows(t, kind) ==
  /\ phase[t] = "driver"
  /\ phase' = [phase EXCEPT ![t] = kind]
  /\ UNCHANGED <<recordVars, cands, seen, cur, historyVars>>

\* The candidate is dealt with.
Release(t) ==
  /\ cur' = [cur EXCEPT ![t] = NoMail]
  /\ phase' = [phase EXCEPT ![t] = IF cands[t] = {} THEN "idle" ELSE "loop"]
  /\ UNCHANGED <<cands, seen>>

\* Variant of MarkSent: also reached after a transient failure.
MarkSentAnyway(t) ==
  /\ phase[t] \in {"accepted", "transient"}
  /\ status' = [status EXCEPT ![cur[t]] = "sent"]
  /\ claim' = [claim EXCEPT ![cur[t]] = "none"]
  /\ Release(t)
  /\ UNCHANGED <<enq, created, attempts, due, historyVars>>

\* markSent(): whatever the record looks like by now.
MarkSent(t) ==
  /\ phase[t] = "accepted"
  /\ status' = [status EXCEPT ![cur[t]] = "sent"]
  /\ claim' = [claim EXCEPT ![cur[t]] = "none"]
  /\ Release(t)
  /\ UNCHANGED <<enq, created, attempts, due, historyVars>>

\* markSent() throws inside the try block: to the worker a transient failure
\* like any other.
MarkSentFails(t) ==
  /\ "write" \in Faults
  /\ phase[t] = "accepted"
  /\ phase' = [phase EXCEPT ![t] = "transient"]
  /\ UNCHANGED <<recordVars, cands, seen, cur, historyVars>>

\* planEmailRetry() for the attempt that has just failed, counted from the
\* candidate's copy of attemptCount.
Terminal(t) ==
  phase[t] = "permanent" \/ seen[t][cur[t]] + 1 >= MaxAttempts

\* Variant of MarkDeadLetter: the status is written only on permanent errors.
MarkDeadLetterPermanent(t) ==
  /\ phase[t] \in {"transient", "permanent"}
  /\ Terminal(t)
  /\ status' = IF phase[t] = "permanent"
               THEN [status EXCEPT ![cur[t]] = "dead-letter"] ELSE status
  /\ claim' = [claim EXCEPT ![cur[t]] = "none"]
  /\ Release(t)
  /\ UNCHANGED <<enq, created, attempts, due, historyVars>>

MarkDeadLetter(t) ==
  /\ phase[t] \in {"transient", "permanent"}
  /\ Terminal(t)
  /\ status' = [status EXCEPT ![cur[t]] = "dead-letter"]
  /\ claim' = [claim EXCEPT ![cur[t]] = "none"]
  /\ Release(t)
  /\ UNCHANGED <<enq, created, attempts, due, historyVars>>

\* Clearing claimed_at under the driver call of another tick.
LosesClaim(m, t) ==
  disturbed' = [disturbed EXCEPT ![m] = disturbed[m] \/ Holders(m) \ {t} # {}]

\* Variant of RecordTransientFailure: only the backoff is written.
RecordTransientUncounted(t) ==
  /\ phase[t] \in {"transient", "permanent"}
  /\ ~Terminal(t)
  /\ due' = [due EXCEPT ![cur[t]] = FALSE]
  /\ claim' = [claim EXCEPT ![cur[t]] = "none"]
  /\ LosesClaim(cur[t], t)
  /\ Release(t)
  /\ UNCHANGED <<enq, created, status, attempts, accepted, tries, miscounted>>

RecordTransientFailure(t) ==
  /\ phase[t] \in {"transient", "permanent"}
  /\ ~Terminal(t)
  /\ attempts' = [attempts EXCEPT ![cur[t]] = seen[t][cur[t]] + 1]
  /\ due' = [due EXCEPT ![cur[t]] = FALSE]
  /\ claim' = [claim EXCEPT ![cur[t]] = "none"]
  /\ LosesClaim(cur[t], t)
  /\ Release(t)
  /\ UNCHANGED <<enq, created, status, accepted, tries, miscounted>>

\* The write of a failure throws: runOnce() rejects and the claim stays.
\* Or the process ends, wherever the tick is.
TickDies(t) ==
  /\ \/ "write" \in Faults /\ phase[t] \in {"transient", "permanent"}
     \/ "crash" \in Faults /\ phase[t] # "idle"
  /\ phase' = [phase EXCEPT ![t] = "idle"]
  /\ cands' = [cands EXCEPT ![t] = {}]
  /\ cur' = [cur EXCEPT ![t] = NoMail]
  /\ miscounted' = miscounted \cup ({cur[t]} \ {NoMail})
  /\ UNCHANGED <<recordVars, seen, accepted, tries, disturbed>>

-----------------------------------------------------------------------------
(* Time, and EmailOutboxAdminController.                                   *)

\* STALE_CLAIM_THRESHOLD_MS after the claim.  A tick outlives its claim only
\* when the driver is slow.
ClaimGoesStale(m) ==
  /\ claim[m] = "fresh"
  /\ Holders(m) = {} \/ "slow" \in Faults
  /\ claim' = [claim EXCEPT ![m] = "stale"]
  /\ disturbed' = [disturbed EXCEPT ![m] = disturbed[m] \/ Holders(m) # {}]
  /\ UNCHANGED <<enq, created, status, attempts, due, tickVars, accepted, tries, miscounted>>

BackoffElapses(m) ==
  /\ ~due[m]
  /\ due' = [due EXCEPT ![m] = TRUE]
  /\ UNCHANGED <<enq, created, status, attempts, claim, tickVars, historyVars>>

\* planOutboxAdminAction() on a first read, and again in the WHERE clause.
Actionable(m) == status[m] \in {"pending", "dead-letter"}

\* retry(): findById(), the planner, markRetry().
AdminRetry(m) ==
  /\ "retry" \in Faults
  /\ Actionable(m)
  /\ status' = [status EXCEPT ![m] = "pending"]
  /\ attempts' = [attempts EXCEPT ![m] = 0]
  /\ due' = [due EXCEPT ![m] = TRUE]
  /\ claim' = [claim EXCEPT ![m] = "none"]
  /\ tries' = [tries EXCEPT ![m] = 0]
  /\ disturbed' = [disturbed EXCEPT ![m] = disturbed[m] \/ Holders(m) # {}]
  /\ UNCHANGED <<enq, created, tickVars, accepted, miscounted>>

\* cancel(): findById(), the planner, markCancelled().
AdminCancel(m) ==
  /\ "cancel" \in Faults
  /\ Actionable(m)
  /\ status' = [status EXCEPT ![m] = "cancelled"]
  /\ claim' = [claim EXCEPT ![m] = "none"]
  /\ UNCHANGED <<enq, created, attempts, due, tickVars, historyVars>>

-----------------------------------------------------------------------------

Enqueue(m) == Lookup(m) \/ Append(m) \/ AppendFails(m)

\* What a running runOnce() does by itself.
Work(t) ==
  \/ \E m \in Mails : ClaimMail(t, m) \/ SkipMail(t, m)
  \/ DriverAccepts(t)
  \/ \E kind \in {"transient", "permanent"} : DriverThrows(t, kind)
  \/ MarkSent(t) \/ MarkSentFails(t)
  \/ MarkDeadLetter(t) \/ RecordTransientFailure(t)

Next ==
  \/ \E m \in Mails :
       Enqueue(m) \/ ClaimGoesStale(m) \/ BackoffElapses(m)
         \/ AdminRetry(m) \/ AdminCancel(m)
  \/ \E t \in Ticks : List(t) \/ Work(t) \/ TickDies(t)

Spec == Init /\ [][Next]_vars

\* The timer fires, time passes, the awaited calls settle.  Nothing makes a
\* driver succeed.
Fairness ==
  /\ \A m \in Mails : WF_vars(ClaimGoesStale(m)) /\ WF_vars(BackoffElapses(m))
  /\ \A t \in Ticks : WF_vars(List(t)) /\ WF_vars(Work(t))

FairSpec == Spec /\ Fairness

-----------------------------------------------------------------------------
(* Properties.                                                             *)

\* Type correctness of the records and of the running ticks.
TypeOK ==
  /\ enq \in [Mails -> Enq]
  /\ created \in [Mails -> Nat]
  /\ status \in [Mails -> Status]
  /\ attempts \in [Mails -> 0 .. MaxAttempts - 1]
  /\ due \in [Mails -> BOOLEAN]
  /\ claim \in [Mails -> Claim]
  /\ phase \in [Ticks -> Phase]
  /\ cands \in [Ticks -> SUBSET Mails]
  /\ seen \in [Ticks -> [Mails -> 0 .. MaxAttempts - 1]]
  /\ cur \in [Ticks -> Mails \cup {NoMail}]
  /\ accepted \in [Mails -> BOOLEAN]
  /\ tries \in [Mails -> Nat]
  /\ miscounted \subseteq Mails
  /\ disturbed \in [Mails -> BOOLEAN]

\* claim() serialises the driver calls of overlapping ticks and replicas:
\* two ticks hold one mail only if its claim was taken away under a running
\* call, by the 30-second threshold, by an administrator's retry or by the
\* outcome of an earlier tick that had itself lost the claim.
ClaimSerialisesSends ==
  \A m \in Mails :
    ~disturbed[m] => \A t, u \in Holders(m) : t = u

\* A mail is finished with: sent or cancelled, and no tick holds it.
Quiet(m) == status[m] \in {"sent", "cancelled"} /\ Holders(m) = {}

\* A finished mail stays finished: no candidate list that is out of date, no
\* late write and no administrator brings it back.
QuietForGood == [][\A m \in Mails : Quiet(m) => Quiet(m)']_vars

\* A record says sent only if the driver has accepted the mail, whichever
\* tick wrote it.
SentMeansAccepted == \A m \in Mails : status[m] = "sent" => accepted[m]

\* Two calls with one idempotency key never store two records, also when
\* both looked the key up before either stored one.
OneRecordPerKey ==
  \A m, n \in Mails :
    (m # n /\ Key[m] = Key[n] /\ Key[m] # NoKey)
      => status[m] = "none" \/ status[n] = "none"

\* "a hard dead-letter ceiling": no more than maxAttempts driver calls
\* between two administrator's retries, across backoffs, stolen claims and
\* markSent() errors.  The ceiling gives way only where attemptCount cannot
\* tell: a tick went by the count in a list that was out of date, died
\* before it wrote the outcome, or lost its claim to another.
HardCeiling ==
  \A m \in Mails :
    tries[m] > MaxAttempts => m \in miscounted \/ disturbed[m]

\* Every pending mail ends, sent or dead-lettered, whatever the driver does.
EveryMailEnds == \A m \in Mails : status[m] = "pending" ~> status[m] # "pending"

=============================================================================
