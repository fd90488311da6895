------------------------------ MODULE Webhooks ------------------------------
(***************************************************************************)
(* Webhook delivery, src/core/webhooks: the outbox worker calls            *)
(* WebhookOutboxDispatcher.dispatch() for an event; it reads the active    *)
(* subscribers and takes them one by one through                           *)
(* WebhookDispatcher.dispatch(): read the endpoint, POST, write the        *)
(* failure counter, disable at the threshold, record the delivery.         *)
(*                                                                         *)
(* Outbox ticks overlap and run on several replicas, so several calls are  *)
(* under way at once; every await is an action boundary.  The endpoint is  *)
(* read once, before the POST, and its counter is written from that copy.  *)
(* The hub's webhook inspector (dx/admin-spa.controller.ts) writes         *)
(* delivery rows as well, without a POST.                                  *)
(***************************************************************************)
EXTENDS Naturals, FiniteSets

CONSTANTS
  Calls,      \* calls of WebhookOutboxDispatcher.dispatch(), one event each
  Endpoints,  \* rows of webhook_endpoints
  Matches,    \* Matches[d]: endpoints of the tenant whose events[] match
  Declared,   \* calls whose event type passes the @WebhookEvent registry
  ValidUrl,   \* endpoints that validateWebhookUrl() lets through
  Threshold,  \* RetryConfig.autoDisableAfter
  Faults,     \* "store": a query throws; "crash"; "remove": a row is deleted
  Inspected,  \* endpoints an administrator acts on in the webhook inspector
  TestEvent,  \* in place of the call in a row with is_test
  NoEndpoint

ASSUME WebhooksAssumption ==
  /\ IsFiniteSet(Calls)
  /\ Matches \in [Calls -> SUBSET Endpoints]
  /\ Declared \subseteq Calls
  /\ ValidUrl \subseteq Endpoints
  /\ Threshold \in Nat \ {0}
  /\ Faults \subseteq {"store", "crash", "remove"}
  /\ Inspected \subseteq Endpoints
  /\ TestEvent \notin Calls
  /\ NoEndpoint \notin Endpoints

VARIABLES
  status,    \* status[w]: WebhookEndpoint.status, or gone
  failures,  \* failures[w]: WebhookEndpoint.consecutiveFailures
  log,       \* the rows of webhook_deliveries: <<event, endpoint, status,
             \* attempt_count>>, where 2 stands for any number above 1
  pc,        \* pc[d]: where the call is
  todo,      \* todo[d]: endpoints of the for loop still to come
  cur,       \* cur[d]: the endpoint the call is at
  snap,      \* snap[d]: consecutiveFailures in the copy that findById() gave
  targets,   \* history: the endpoints that findActiveSubscribers() returned
  excused,   \* history: targets found gone or disabled, or hit by a throw
  got,       \* history: got[w]: calls whose POST w answered with a 2xx
  lost,      \* history: lost[w]: calls whose delivery to w failed
  streak,    \* history: streak[w]: failed deliveries since the last 2xx
  alone,     \* history: alone[w]: no two calls met at w, no write was lost
  since,     \* history: since[w]: calls whose delivery to w failed since the
             \* last success that had w to itself
  met        \* history: calls that another call met where they are

rowVars     == <<status, failures, log>>
callVars    == <<pc, todo, cur, snap>>
historyVars == <<targets, excused, got, lost, streak, alone, since, met>>
vars        == <<rowVars, callVars, historyVars>>

\* "post" awaits the HTTP client; "accepted" and "failed" are before the
\* write of the counter, "delivered" and "undelivered" before the record;
\* "ended" is a call that rejected or died.
Phase == {"new", "loop", "post", "accepted", "failed", "disable",
          "delivered", "undelivered", "done", "ended"}

\* The rows of webhook_deliveries.
Delivery == (Calls \cup {TestEvent}) \X Endpoints \X {"DELIVERED", "FAILED"} \X {1, 2}

\* The call has read w and is not finished with it.
At(d, w) == cur[d] = w

Init ==
  /\ status   = [w \in Endpoints |-> "ACTIVE"]
  /\ failures = [w \in Endpoints |-> 0]
  /\ log      = {}
  /\ pc       = [d \in Calls |-> "new"]
  /\ todo     = [d \in Calls |-> {}]
  /\ cur      = [d \in Calls |-> NoEndpoint]
  /\ snap     = [d \in Calls |-> 0]
  /\ targets  = [d \in Calls |-> {}]
  /\ excused  = [d \in Calls |-> {}]
  /\ got      = [w \in Endpoints |-> {}]
  /\ lost     = [w \in Endpoints |-> {}]
  /\ streak   = [w \in Endpoints |-> 0]
  /\ alone    = [w \in Endpoints |-> TRUE]
  /\ since    = [w \in Endpoints |-> {}]
  /\ met      = {}

-----------------------------------------------------------------------------
(* WebhookOutboxDispatcher.dispatch().                                     *)

\* The loop has R left to visit: the next iteration, or the end.
Continue(d, R) ==
  /\ todo' = [todo EXCEPT ![d] = R]
  /\ cur' = [cur EXCEPT ![d] = NoEndpoint]
  /\ snap' = [snap EXCEPT ![d] = 0]
  /\ pc' = [pc EXCEPT ![d] = IF R = {} THEN "done" ELSE "loop"]
  /\ met' = met \ {d}

\* findActiveSubscribers(); without one the call returns at once.
FindActiveSubscribers(d) ==
  /\ pc[d] = "new"
  /\ LET R == {w \in Matches[d] : status[w] = "ACTIVE"} IN
       /\ Continue(d, R)
       /\ targets' = [targets EXCEPT ![d] = R]
  /\ UNCHANGED <<rowVars, excused, got, lost, streak, alone, since>>

\* That query throws: the call rejects and the outbox keeps the entry.
SubscribersFail(d) ==
  /\ "store" \in Faults
  /\ pc[d] = "new"
  /\ pc' = [pc EXCEPT ![d] = "ended"]
  /\ UNCHANGED <<rowVars, todo, cur, snap, historyVars>>

\* The iteration for w ends with nothing to record: an early return, or a
\* throw that the catch clause of the loop logs.
GiveUpOn(d, w) ==
  /\ Continue(d, todo[d] \ {w})
  /\ excused' = [excused EXCEPT ![d] = excused[d] \cup {w}]

-----------------------------------------------------------------------------
(* WebhookDispatcher.dispatch(), in the loop over the endpoints.           *)

\* The registry check comes before anything else and throws.
Undeclared(d, w) ==
  /\ pc[d] = "loop"
  /\ w \in todo[d]
  /\ d \notin Declared
  /\ GiveUpOn(d, w)
  /\ UNCHANGED <<rowVars, targets, got, lost, streak, alone, since>>

\* findById() returns nothing (throw) or a disabled endpoint (return).
SkipEndpoint(d, w) ==
  /\ pc[d] = "loop"
  /\ w \in todo[d]
  /\ d \in Declared
  /\ status[w] # "ACTIVE"
  /\ GiveUpOn(d, w)
  /\ UNCHANGED <<rowVars, targets, got, lost, streak, alone, since>>

\* findById() returns a live endpoint: on to the POST, or, with a URL that
\* validateWebhookUrl() refuses, straight to the failure branch.
FindEndpoint(d, w) ==
  /\ pc[d] = "loop"
  /\ w \in todo[d]
  /\ d \in Declared
  /\ status[w] = "ACTIVE"
  /\ cur' = [cur EXCEPT ![d] = w]
  /\ todo' = [todo EXCEPT ![d] = todo[d] \ {w}]
  /\ snap' = [snap EXCEPT ![d] = failures[w]]
  /\ pc' = [pc EXCEPT ![d] = IF w \in ValidUrl THEN "post" ELSE "failed"]
  /\ lost' = [lost EXCEPT ![w] = IF w \in ValidUrl THEN lost[w]
                                                   ELSE lost[w] \cup {d}]
  /\ streak' = [streak EXCEPT ![w] = IF w \in ValidUrl THEN streak[w]
                                                       ELSE streak[w] + 1]
  /\ alone' = [alone EXCEPT ![w] = alone[w] /\ \A c \in Calls : ~At(c, w)]
  /\ since' = [since EXCEPT ![w] = IF w \in ValidUrl THEN since[w]
                                                     ELSE since[w] \cup {d}]
  /\ LET here == {c \in Calls : At(c, w)} IN
       met' = IF here = {} THEN met ELSE met \cup here \cup {d}
  /\ UNCHANGED <<rowVars, targets, excused, got>>

\* findById() throws.
FindFails(d, w) ==
  /\ "store" \in Faults
  /\ pc[d] = "loop"
  /\ w \in todo[d]
  /\ d \in Declared
  /\ GiveUpOn(d, w)
  /\ UNCHANGED <<rowVars, targets, got, lost, streak, alone, since>>

\* A response with ok.
PostOk(d) ==
  /\ pc[d] = "post"
  /\ pc' = [pc EXCEPT ![d] = "accepted"]
  /\ got' = [got EXCEPT ![cur[d]] = got[cur[d]] \cup {d}]
  /\ streak' = [streak EXCEPT ![cur[d]] = 0]
  /\ UNCHANGED <<rowVars, todo, cur, snap, targets, excused, lost, alone, since, met>>

\* Variant of PostFails: a response counts as delivered whatever its status.
PostFailsUnnoticed(d) ==
  /\ pc[d] = "post"
  /\ pc' = [pc EXCEPT ![d] = "accepted"]
  /\ lost' = [lost EXCEPT ![cur[d]] = lost[cur[d]] \cup {d}]
  /\ streak' = [streak EXCEPT ![cur[d]] = streak[cur[d]] + 1]
  /\ since' = [since EXCEPT ![cur[d]] = since[cur[d]] \cup {d}]
  /\ UNCHANGED <<rowVars, todo, cur, snap, targets, excused, got, alone, met>>

\* Another response, or the HTTP client throws.
PostFails(d) ==
  /\ pc[d] = "post"
  /\ pc' = [pc EXCEPT ![d] = "failed"]
  /\ lost' = [lost EXCEPT ![cur[d]] = lost[cur[d]] \cup {d}]
  /\ streak' = [streak EXCEPT ![cur[d]] = streak[cur[d]] + 1]
  /\ since' = [since EXCEPT ![cur[d]] = since[cur[d]] \cup {d}]
  /\ UNCHANGED <<rowVars, todo, cur, snap, targets, excused, got, alone, met>>

\* UPDATE ... SET consecutive_failures = n: no row when w is gone.
SetFailureCount(w, n) ==
  failures' = [failures EXCEPT ![w] = IF status[w] = "gone" THEN failures[w] ELSE n]

\* Variant of ResetCount: only a failure writes the counter.
ResetCountForgotten(d) ==
  /\ pc[d] = "accepted"
  /\ pc' = [pc EXCEPT ![d] = "delivered"]
  /\ since' = [since EXCEPT ![cur[d]] = IF d \in met THEN since[cur[d]] ELSE {}]
  /\ UNCHANGED <<rowVars, todo, cur, snap, targets, excused, got, lost, streak,
                 alone, met>>

ResetCount(d) ==
  /\ pc[d] = "accepted"
  /\ SetFailureCount(cur[d], 0)
  /\ pc' = [pc EXCEPT ![d] = "delivered"]
  /\ since' = [since EXCEPT ![cur[d]] = IF d \in met THEN since[cur[d]] ELSE {}]
  /\ UNCHANGED <<status, log, todo, cur, snap, targets, excused, got, lost, streak,
                 alone, met>>

\* Variant of CountFailure: the threshold is off by one.
CountFailureEarly(d) ==
  /\ pc[d] = "failed"
  /\ SetFailureCount(cur[d], snap[d] + 1)
  /\ pc' = [pc EXCEPT ![d] = IF snap[d] + 1 >= Threshold - 1
                             THEN "disable" ELSE "undelivered"]
  /\ UNCHANGED <<status, log, todo, cur, snap, historyVars>>

\* nextFailures comes from the copy; shouldAutoDisable() decides on it.
CountFailure(d) ==
  /\ pc[d] = "failed"
  /\ SetFailureCount(cur[d], snap[d] + 1)
  /\ pc' = [pc EXCEPT ![d] = IF snap[d] + 1 >= Threshold
                             THEN "disable" ELSE "undelivered"]
  /\ UNCHANGED <<status, log, todo, cur, snap, historyVars>>

Disable(d) ==
  /\ pc[d] = "disable"
  /\ status' = [status EXCEPT ![cur[d]] =
                  IF status[cur[d]] = "gone" THEN "gone" ELSE "DISABLED"]
  /\ pc' = [pc EXCEPT ![d] = "undelivered"]
  /\ UNCHANGED <<failures, log, todo, cur, snap, historyVars>>

\* deliveryStore.record(); the foreign key refuses a row for a gone endpoint.
RecordDelivery(d) ==
  /\ pc[d] \in {"delivered", "undelivered"}
  /\ status[cur[d]] # "gone"
  /\ log' = log \cup {<<d, cur[d], IF pc[d] = "delivered" THEN "DELIVERED"
                                                         ELSE "FAILED", 1>>}
  /\ Continue(d, todo[d])
  /\ UNCHANGED <<status, failures, targets, excused, got, lost, streak, alone, since>>

\* A write after the POST is under way.
Writing == {"accepted", "failed", "disable", "delivered", "undelivered"}

\* Variant of WriteFails: the error ends the loop.
WriteFailsReturns(d) ==
  /\ pc[d] \in Writing
  /\ \/ "store" \in Faults
     \/ status[cur[d]] = "gone" /\ pc[d] \in {"delivered", "undelivered"}
  /\ Continue(d, {})
  /\ excused' = [excused EXCEPT ![d] = excused[d] \cup {cur[d]}]
  /\ alone' = [alone EXCEPT ![cur[d]] = FALSE]
  /\ UNCHANGED <<rowVars, targets, got, lost, streak, since>>

\* The write throws: the rest of the iteration is skipped, what was not
\* written is lost, and the loop goes on.
WriteFails(d) ==
  /\ pc[d] \in Writing
  /\ \/ "store" \in Faults
     \/ status[cur[d]] = "gone" /\ pc[d] \in {"delivered", "undelivered"}
  /\ Continue(d, todo[d])
  /\ excused' = [excused EXCEPT ![d] = excused[d] \cup {cur[d]}]
  /\ alone' = [alone EXCEPT ![cur[d]] = FALSE]
  /\ UNCHANGED <<rowVars, targets, got, lost, streak, since>>

-----------------------------------------------------------------------------

\* The process of the call dies.
Crash(d) ==
  /\ "crash" \in Faults
  /\ pc[d] \notin {"new", "done", "ended"}
  /\ pc' = [pc EXCEPT ![d] = "ended"]
  /\ cur' = [cur EXCEPT ![d] = NoEndpoint]
  /\ todo' = [todo EXCEPT ![d] = {}]
  /\ snap' = [snap EXCEPT ![d] = 0]
  /\ targets' = [targets EXCEPT ![d] = {}]
  /\ excused' = [excused EXCEPT ![d] = {}]
  /\ alone' = [w \in Endpoints |-> alone[w] /\ ~At(d, w)]
  /\ met' = met \ {d}
  /\ UNCHANGED <<rowVars, got, lost, streak, since>>

\* Project code deletes the endpoint; its deliveries go with it.
Remove(w) ==
  /\ "remove" \in Faults
  /\ status[w] # "gone"
  /\ status' = [status EXCEPT ![w] = "gone"]
  /\ log' = {r \in log : r[2] # w}
  /\ UNCHANGED <<failures, callVars, historyVars>>

\* sendTestEvent(): a row that says DELIVERED, and no POST.  The endpoint was
\* ACTIVE when it was read, as each was at first, and the foreign key
\* refuses the row only when it is gone.
SendTestEvent(w) ==
  /\ w \in Inspected
  /\ status[w] # "gone"
  /\ log' = log \cup {<<TestEvent, w, "DELIVERED", 1>>}
  /\ UNCHANGED <<status, failures, callVars, historyVars>>

\* redeliverWebhook(): the row, whatever it says, becomes DELIVERED, and
\* nothing is sent.
Redeliver(r) ==
  /\ r[2] \in Inspected
  /\ log' = (log \ {r}) \cup {<<r[1], r[2], "DELIVERED", 2>>}
  /\ UNCHANGED <<status, failures, callVars, historyVars>>

Step(d) ==
  \/ FindActiveSubscribers(d) \/ SubscribersFail(d)
  \/ \E w \in Endpoints : \/ Undeclared(d, w) \/ SkipEndpoint(d, w)
                          \/ FindEndpoint(d, w) \/ FindFails(d, w)
  \/ PostOk(d) \/ PostFails(d)
  \/ ResetCount(d) \/ CountFailure(d) \/ Disable(d)
  \/ RecordDelivery(d) \/ WriteFails(d)

Next ==
  \/ \E d \in Calls : Step(d) \/ Crash(d)
  \/ \E w \in Endpoints : Remove(w) \/ SendTestEvent(w)
  \/ \E r \in log : Redeliver(r)

Spec == Init /\ [][Next]_vars

-----------------------------------------------------------------------------
(* Properties.                                                             *)

\* Type correctness of the endpoints, the delivery log and the calls.
TypeOK ==
  /\ status \in [Endpoints -> {"ACTIVE", "DISABLED", "gone"}]
  /\ failures \in [Endpoints -> Nat]
  /\ log \subseteq Delivery
  /\ pc \in [Calls -> Phase]
  /\ todo \in [Calls -> SUBSET Endpoints]
  /\ cur \in [Calls -> Endpoints \cup {NoEndpoint}]
  /\ snap \in [Calls -> Nat]
  /\ targets \in [Calls -> SUBSET Endpoints]
  /\ excused \in [Calls -> SUBSET Endpoints]
  /\ got \in [Endpoints -> SUBSET Calls]
  /\ lost \in [Endpoints -> SUBSET Calls]
  /\ streak \in [Endpoints -> Nat]
  /\ alone \in [Endpoints -> BOOLEAN]
  /\ since \in [Endpoints -> SUBSET Calls]
  /\ met \subseteq Calls

\* Overlapping calls write the counter from copies that are out of date.  An
\* endpoint is still disabled only after Threshold deliveries failed since
\* the last success that had the endpoint to itself, from the read of the
\* row to the write of the counter.  A success next to a failing delivery is
\* not enough: that one writes its old copy, one up, over the reset, so the
\* failures need not be "consecutive", as retry-policy.ts:5 has it.
DisabledIsEarned ==
  \A w \in Endpoints :
    status[w] = "DISABLED" => Cardinality(since[w]) >= Threshold

\* What can be relied on in the delivery log, which the inspector writes too:
\* a FAILED row was not answered with a 2xx; a DELIVERED row was, unless it
\* is a test or has more than one attempt; and a call that returned has a
\* row for every endpoint it took on, unless a query threw.
LogIsTruthful ==
  /\ \A r \in log : r[3] = "FAILED" => r[1] \in lost[r[2]]
  /\ \A r \in log : r[3] = "DELIVERED" /\ r[1] # TestEvent /\ r[4] = 1 => r[1] \in got[r[2]]
  /\ \A w \in Endpoints : got[w] \cap lost[w] = {}
  /\ \A d \in Calls : pc[d] = "done" =>
       \A w \in targets[d] \ excused[d] :
         status[w] = "gone" \/ \E r \in log : r[1] = d /\ r[2] = w

\* "a single failing endpoint must not block sibling deliveries": a call
\* that returned has tried every subscriber that it was not excused from.
SiblingsAreTried ==
  \A d \in Calls : pc[d] = "done" =>
    \A w \in targets[d] : w \in excused[d] \/ d \in got[w] \cup lost[w]

\* When the deliveries to an endpoint come one after the other the counter
\* is the number of failures in a row, and the endpoint is disabled exactly
\* when that reaches autoDisableAfter: the one with a refused URL too, which
\* webhook-dispatcher.ts:138 expects to be disabled at once.
CountIsExactWhenAlone ==
  \A w \in Endpoints :
    (alone[w] /\ status[w] # "gone" /\ \A d \in Calls : ~At(d, w)) =>
      /\ failures[w] = streak[w]
      /\ status[w] = "DISABLED" <=> streak[w] >= Threshold

=============================================================================
