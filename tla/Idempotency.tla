---------------------------- MODULE Idempotency ----------------------------
(***************************************************************************)
(* Idempotency keys, src/core/idempotency: every request that carries a    *)
(* key goes through IdempotencyService.runOrCache(), which looks the key   *)
(* up, replays or refuses or runs the handler, and stores the response.    *)
(*                                                                         *)
(* The store is shared by all processes; the inflight set is not.  A       *)
(* request is at an await in every phase but the last ones, so requests    *)
(* interleave between any two actions.  A record is named by the request   *)
(* that wrote it.  A client that retries is one more request.              *)
(***************************************************************************)
EXTENDS Naturals

CONSTANTS
  Requests,
  Processes,
  Keys,         \* scopeIdempotencyKey(): user and client key together
  ProcOf,       \* ProcOf[q]: the process that serves q
  KeyOf,        \* KeyOf[q]: the scoped key of q
  HashOf,       \* HashOf[q]: computeRequestHash() of q
  Faults,       \* which of get, put, handler may fail; crash; expiry
  NoRequest

ASSUME IdempotencyAssumption ==
  /\ ProcOf \in [Requests -> Processes]
  /\ KeyOf \in [Requests -> Keys]
  /\ Faults \subseteq {"get", "put", "handler", "crash", "expiry"}
  /\ NoRequest \notin Requests

VARIABLES
  rec,       \* rec[k]: whose record the store holds for k, or NoRequest
  expired,   \* the requests whose record is past its expiresAt
  inflight,  \* inflight[p]: IdempotencyService.inflight of process p
  pc,        \* pc[q]: where runOrCache() of q is
  snap,      \* snap[q]: the record that store.get() returned to q
  answer,    \* answer[q]: whose handler made the response that q got
  ranOk,     \* history: the requests whose handler has completed
  before     \* history: before[q]: records stored when q was looked up

vars == <<rec, expired, inflight, pc, snap, answer, ranOk, before>>

\* "handler" to "release" is the try block, "release" the finally clause.
Phase == {"new", "got", "handler", "put", "release", "threw",
          "ran", "replayed", "conflict", "busy", "failed"}

\* The requests of process p that are inside the try block.
Running(p) == {q \in Requests :
                 ProcOf[q] = p /\ pc[q] \in {"handler", "put", "release", "threw"}}

Init ==
  /\ rec      = [k \in Keys |-> NoRequest]
  /\ expired  = {}
  /\ inflight = [p \in Processes |-> {}]
  /\ pc       = [q \in Requests |-> "new"]
  /\ snap     = [q \in Requests |-> NoRequest]
  /\ answer   = [q \in Requests |-> NoRequest]
  /\ ranOk    = {}
  /\ before   = [q \in Requests |-> {}]

-----------------------------------------------------------------------------

\* store.get() reads the row; the request goes on some time later.
Get(q) ==
  /\ pc[q] = "new"
  /\ pc' = [pc EXCEPT ![q] = "got"]
  /\ snap' = [snap EXCEPT ![q] = rec[KeyOf[q]]]
  /\ before' = [before EXCEPT ![q] =
                  {w \in Requests : pc[w] \in {"release", "ran"}
                                      /\ KeyOf[w] = KeyOf[q]}]
  /\ UNCHANGED <<rec, expired, inflight, answer, ranOk>>

GetFails(q) ==
  /\ "get" \in Faults
  /\ pc[q] = "new"
  /\ pc' = [pc EXCEPT ![q] = "failed"]
  /\ UNCHANGED <<rec, expired, inflight, snap, answer, ranOk, before>>

\* existing && existing.expiresAt > now
Hit(q) == snap[q] # NoRequest /\ snap[q] \notin expired

Conflict(q) ==
  /\ pc[q] = "got"
  /\ Hit(q)
  /\ HashOf[snap[q]] # HashOf[q]
  /\ pc' = [pc EXCEPT ![q] = "conflict"]
  /\ UNCHANGED <<rec, expired, inflight, snap, answer, ranOk, before>>

\* Variant of Replay: the request hash is not compared.
ReplayAnyHash(q) ==
  /\ pc[q] = "got"
  /\ Hit(q)
  /\ pc' = [pc EXCEPT ![q] = "replayed"]
  /\ answer' = [answer EXCEPT ![q] = snap[q]]
  /\ UNCHANGED <<rec, expired, inflight, snap, ranOk, before>>

Replay(q) ==
  /\ pc[q] = "got"
  /\ Hit(q)
  /\ HashOf[snap[q]] = HashOf[q]
  /\ pc' = [pc EXCEPT ![q] = "replayed"]
  /\ answer' = [answer EXCEPT ![q] = snap[q]]
  /\ UNCHANGED <<rec, expired, inflight, snap, ranOk, before>>

\* Variant of Busy: the check is inside the try block, so the finally clause
\* releases the lock of the other request.
BusyInsideTry(q) ==
  /\ pc[q] = "got"
  /\ ~Hit(q)
  /\ KeyOf[q] \in inflight[ProcOf[q]]
  /\ pc' = [pc EXCEPT ![q] = "busy"]
  /\ inflight' = [inflight EXCEPT ![ProcOf[q]] = @ \ {KeyOf[q]}]
  /\ UNCHANGED <<rec, expired, snap, answer, ranOk, before>>

\* IdempotencyInProgressError.
Busy(q) ==
  /\ pc[q] = "got"
  /\ ~Hit(q)
  /\ KeyOf[q] \in inflight[ProcOf[q]]
  /\ pc' = [pc EXCEPT ![q] = "busy"]
  /\ UNCHANGED <<rec, expired, inflight, snap, answer, ranOk, before>>

\* A miss: the key is locked in this process and the handler starts.
Start(q) ==
  /\ pc[q] = "got"
  /\ ~Hit(q)
  /\ KeyOf[q] \notin inflight[ProcOf[q]]
  /\ inflight' = [inflight EXCEPT ![ProcOf[q]] = @ \cup {KeyOf[q]}]
  /\ pc' = [pc EXCEPT ![q] = "handler"]
  /\ UNCHANGED <<rec, expired, snap, answer, ranOk, before>>

HandlerReturns(q) ==
  /\ pc[q] = "handler"
  /\ pc' = [pc EXCEPT ![q] = "put"]
  /\ ranOk' = ranOk \cup {q}
  /\ UNCHANGED <<rec, expired, inflight, snap, answer, before>>

\* A thrown handler stores nothing.
HandlerThrows(q) ==
  /\ "handler" \in Faults
  /\ pc[q] = "handler"
  /\ pc' = [pc EXCEPT ![q] = "threw"]
  /\ UNCHANGED <<rec, expired, inflight, snap, answer, ranOk, before>>

\* store.put(): an upsert, over whatever is there.
Put(q) ==
  /\ pc[q] = "put"
  /\ rec' = [rec EXCEPT ![KeyOf[q]] = q]
  /\ pc' = [pc EXCEPT ![q] = "release"]
  /\ UNCHANGED <<expired, inflight, snap, answer, ranOk, before>>

\* The handler has done its work, the caller gets an error.
PutFails(q) ==
  /\ "put" \in Faults
  /\ pc[q] = "put"
  /\ pc' = [pc EXCEPT ![q] = "threw"]
  /\ UNCHANGED <<rec, expired, inflight, snap, answer, ranOk, before>>

\* Variant of Release: without finally, only a response releases the key.
ReleaseOnSuccess(q) ==
  /\ pc[q] \in {"release", "threw"}
  /\ inflight' = IF pc[q] = "release"
                 THEN [inflight EXCEPT ![ProcOf[q]] = @ \ {KeyOf[q]}]
                 ELSE inflight
  /\ pc' = [pc EXCEPT ![q] = IF pc[q] = "release" THEN "ran" ELSE "failed"]
  /\ answer' = [answer EXCEPT ![q] = IF pc[q] = "release" THEN q ELSE NoRequest]
  /\ UNCHANGED <<rec, expired, snap, ranOk, before>>

\* The finally clause, then the response or the error.
Release(q) ==
  /\ pc[q] \in {"release", "threw"}
  /\ inflight' = [inflight EXCEPT ![ProcOf[q]] = @ \ {KeyOf[q]}]
  /\ pc' = [pc EXCEPT ![q] = IF pc[q] = "release" THEN "ran" ELSE "failed"]
  /\ answer' = [answer EXCEPT ![q] = IF pc[q] = "release" THEN q ELSE NoRequest]
  /\ UNCHANGED <<rec, expired, snap, ranOk, before>>

-----------------------------------------------------------------------------

\* ttlMs have gone by since q decided to run its handler.
Expire(q) ==
  /\ "expiry" \in Faults
  /\ q \in ranOk \ expired
  /\ expired' = expired \cup {q}
  /\ UNCHANGED <<rec, inflight, pc, snap, answer, ranOk, before>>

\* Variant of Cleanup: the comparison of expiresAt is the wrong way round.
CleanupLive ==
  /\ \E k \in Keys : rec[k] # NoRequest
  /\ rec' = [k \in Keys |-> IF rec[k] \in expired THEN rec[k] ELSE NoRequest]
  /\ UNCHANGED <<expired, inflight, pc, snap, answer, ranOk, before>>

\* The table without the records whose expiresAt has passed.
DeleteOlderThan == [k \in Keys |-> IF rec[k] \in expired THEN NoRequest ELSE rec[k]]

\* IdempotencyCleanupCron: deleteOlderThan(Date.now()).  A failing one is
\* logged and changes nothing.
Cleanup ==
  /\ \E k \in Keys : rec[k] \in expired
  /\ rec' = DeleteOlderThan
  /\ UNCHANGED <<expired, inflight, pc, snap, answer, ranOk, before>>

\* Process p ends: its inflight set is gone, its requests get no answer.
Crash(p) ==
  /\ "crash" \in Faults
  /\ \E q \in Requests : ProcOf[q] = p /\ (pc[q] = "got" \/ q \in Running(p))
  /\ inflight' = [inflight EXCEPT ![p] = {}]
  /\ pc' = [q \in Requests |->
              IF ProcOf[q] = p /\ (pc[q] = "got" \/ q \in Running(p))
              THEN "failed" ELSE pc[q]]
  /\ UNCHANGED <<rec, expired, snap, answer, ranOk, before>>

-----------------------------------------------------------------------------

Step(q) ==
  \/ Conflict(q) \/ Replay(q) \/ Busy(q) \/ Start(q)
  \/ HandlerReturns(q) \/ HandlerThrows(q)
  \/ Put(q) \/ PutFails(q) \/ Release(q)

Next ==
  \/ \E q \in Requests : Get(q) \/ GetFails(q) \/ Step(q) \/ Expire(q)
  \/ Cleanup
  \/ \E p \in Processes : Crash(p)

Spec == Init /\ [][Next]_vars

\* Awaited calls settle, and handlers return or throw.
FairSpec == Spec /\ \A q \in Requests : WF_vars(Step(q))

-----------------------------------------------------------------------------
(* Properties.                                                             *)

\* Type correctness of the store, the inflight sets and the requests.
TypeOK ==
  /\ rec \in [Keys -> Requests \cup {NoRequest}]
  /\ expired \subseteq Requests
  /\ inflight \in [Processes -> SUBSET Keys]
  /\ pc \in [Requests -> Phase]
  /\ snap \in [Requests -> Requests \cup {NoRequest}]
  /\ answer \in [Requests -> Requests \cup {NoRequest}]
  /\ ranOk \subseteq Requests
  /\ before \in [Requests -> SUBSET Requests]

\* The inflight set is a mutex per key within a process: it holds exactly
\* the keys of the requests in the try block, one each.  Nobody releases the
\* key of another, no error and no refusal leaves a key locked.
InflightIsMutex ==
  \A p \in Processes :
    /\ inflight[p] = {KeyOf[q] : q \in Running(p)}
    /\ \A q, w \in Running(p) : KeyOf[q] = KeyOf[w] => q = w

\* What a request gets back was made by a completed handler, of a request
\* with the same user, key and body.
AnswerIsFaithful ==
  \A q \in Requests :
    answer[q] # NoRequest =>
      /\ answer[q] \in ranOk
      /\ KeyOf[answer[q]] = KeyOf[q]
      /\ HashOf[answer[q]] = HashOf[q]

\* A request that comes after a response was stored for its key never runs
\* its handler again, in whichever process, unless a record of that key has
\* expired meanwhile.
RetryReplays ==
  \A q \in Requests :
    (pc[q] \in {"handler", "put", "release", "threw", "ran"} /\ before[q] # {})
      => \E w \in expired : KeyOf[w] = KeyOf[q]

\* No key stays locked: a later retry of the client is not refused for ever.
KeyIsReleased ==
  \A p \in Processes, k \in Keys : k \in inflight[p] ~> k \notin inflight[p]

=============================================================================
