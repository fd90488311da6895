------------------------------ MODULE Notices -------------------------------
(***************************************************************************)
(* The notices about expiring API keys (src/src/core/auth/api-keys): a      *)
(* daily job of every server reads the keys, plans a notice for each that   *)
(* expires soon and was not notified lately, hands it to the e-mail outbox  *)
(* under an idempotency key made from the days left, and marks the key.     *)
(* One key: keys share nothing.  Without Redis the scheduler is an interval *)
(* of a day from the start of the process, so each server has its own hour, *)
(* and a restart begins the day anew.  Times are ticks of a clock, Length   *)
(* of them make a day.                                                      *)
(***************************************************************************)
EXTENDS Integers, FiniteSets

CONSTANTS
  Servers,       \* processes, each with the daily job
  Length,        \* ticks of a day, which is also notifyCooldownMs
  Lag,           \* bound: how late a timer fires and its job has planned
  Warn,          \* warnWithinMs, in days
  Expiry,        \* expiresAt
  MaxFaults,     \* bound: failures and restarts of a server in the warning period
  Never          \* lastNotifiedAt of a key without a notice

ASSUME NoticeAssumption ==
  /\ IsFiniteSet(Servers)
  /\ Length \in Nat \ {0}
  /\ Lag \in 0..Length - 1
  /\ Warn \in Nat \ {0}
  /\ Expiry \in Nat
  /\ MaxFaults \in Nat
  /\ Never \notin Nat

VARIABLES
  time,       \* the clock
  due,        \* when the timer of a server fires next
  notice,     \* what it has in hand
  lastSent,   \* lastNotifiedAt
  present,    \* the key's row exists
  outbox,     \* idempotency keys in the e-mail outbox
  sent,       \* history: the days left as told by each mail, in the order they were stored
  troubles    \* history: failures and restarts of a server in the warning period

noticeVars == <<time, due, notice, lastSent, present, outbox, sent, troubles>>

LastTime == Expiry + Length

\* The warning period begins.
Opens == Expiry - Warn * Length

\* readKeys() has answered; or a notification is to be sent, or to be marked.
Off == [at |-> "off"]

Notification ==
  [at : {"plan", "send", "mark"}, last : 0..LastTime \cup {Never}, days : 0..Warn, now : 0..LastTime]

\* Type invariant of the jobs, the mark and the outbox.
NoticeTypeOK ==
  /\ time \in 0..LastTime
  /\ due \in [Servers -> Nat]
  /\ \A s \in Servers : notice[s] = Off \/ notice[s] \in Notification
  /\ lastSent \in 0..LastTime \cup {Never}
  /\ present \in BOOLEAN
  /\ outbox \subseteq Nat
  /\ sent \in [0..Warn -> Nat]
  /\ troubles \in [Servers -> 0..MaxFaults]

NoticeInit ==
  /\ time = 0
  /\ due = [s \in Servers |-> Length]
  /\ notice = [s \in Servers |-> Off]
  /\ lastSent = Never
  /\ present = TRUE
  /\ outbox = {}
  /\ sent = [d \in 0..Warn |-> 0]
  /\ troubles = [s \in Servers |-> 0]

-----------------------------------------------------------------------------
\* The clock waits for timers and jobs that are late: a job is done before
\* its next one is due, and has planned at most Lag after its timer.
PassTime ==
  /\ time < LastTime
  /\ \A s \in Servers : /\ time < due[s] + Lag
                        /\ notice[s].at = "plan" => time < due[s] - Length + Lag
  /\ time' = time + 1
  /\ UNCHANGED <<due, notice, lastSent, present, outbox, sent, troubles>>

\* The timer has fired, a moment f ago, and counts the next day from there.
\* tick(): readExpiringApiKeys(); a key that has expired or gone is not listed.
ReadKeys(s) ==
  /\ notice[s] = Off
  /\ \E f \in due[s]..time : due' = [due EXCEPT ![s] = f + Length]
  /\ notice' = [notice EXCEPT ![s] =
                  IF present /\ Expiry > time
                  THEN [at |-> "plan", last |-> lastSent, days |-> 0, now |-> 0] ELSE Off]
  /\ UNCHANGED <<time, lastSent, present, outbox, sent, troubles>>

\* planExpiryNotifications()
Due(last) ==
  /\ Expiry > time
  /\ Expiry <= time + Warn * Length
  /\ last # Never => time - last >= Length

\* Variant of DaysLeft: the day under way counts.
DaysLeftRounded == ((Expiry - time) \div Length) + 1

DaysLeft == (Expiry - time) \div Length

Plan(s) ==
  /\ notice[s].at = "plan"
  /\ notice' = [notice EXCEPT ![s] =
                  IF Due(notice[s].last)
                  THEN [@ EXCEPT !.at = "send", !.days = DaysLeft, !.now = time] ELSE Off]
  /\ UNCHANGED <<time, due, lastSent, present, outbox, sent, troubles>>

\* Variant of DayBucket: the day of the plan.
DayBucketOfPlan(s) == notice[s].now \div Length

\* dayBucket: the date that lies the days left before the expiry
DayBucket(s) == (Expiry - notice[s].days * Length) \div Length

\* sendExpiryEmail(): a key that has gone is no error; the outbox takes one
\* mail per idempotency key.
SendNotice(s) ==
  /\ notice[s].at = "send"
  /\ IF present /\ DayBucket(s) \notin outbox
     THEN /\ outbox' = outbox \cup {DayBucket(s)}
          /\ sent' = [sent EXCEPT ![notice[s].days] = @ + 1]
     ELSE UNCHANGED <<outbox, sent>>
  /\ notice' = [notice EXCEPT ![s].at = "mark"]
  /\ UNCHANGED <<time, due, lastSent, present, troubles>>

\* markNotified(), with the time of the plan
MarkNotified(s) ==
  /\ notice[s].at = "mark"
  /\ lastSent' = IF present THEN notice[s].now ELSE lastSent
  /\ notice' = [notice EXCEPT ![s] = Off]
  /\ UNCHANGED <<time, due, present, outbox, sent, troubles>>

\* What goes wrong before the warning period is of no account.
Trouble(s) ==
  /\ Opens <= time => troubles[s] < MaxFaults
  /\ troubles' = [troubles EXCEPT ![s] = IF Opens <= time THEN @ + 1 ELSE @]

\* The database or the outbox fails: no mark is set.
NoticeFails(s) ==
  /\ notice[s] # Off
  /\ Trouble(s)
  /\ notice' = [notice EXCEPT ![s] = Off]
  /\ UNCHANGED <<time, due, lastSent, present, outbox, sent>>

\* The process ends, with its timer and its job, and another is started.
Restart(s) ==
  /\ Trouble(s)
  /\ notice' = [notice EXCEPT ![s] = Off]
  /\ due' = [due EXCEPT ![s] = time + Length]
  /\ UNCHANGED <<time, lastSent, present, outbox, sent>>

\* The key is revoked.
DropKey ==
  /\ present
  /\ present' = FALSE
  /\ UNCHANGED <<time, due, notice, lastSent, outbox, sent, troubles>>

Notify(s) == ReadKeys(s) \/ Plan(s) \/ SendNotice(s) \/ MarkNotified(s)
             \/ NoticeFails(s) \/ Restart(s)

NoticeNext == PassTime \/ DropKey \/ \E s \in Servers : Notify(s)

NoticeSpec == NoticeInit /\ [][NoticeNext]_noticeVars

-----------------------------------------------------------------------------
(***************************************************************************)
(* The owner of a key never gets two mails that tell the same number of     *)
(* days, though every server runs the job at its own hour, a mark may be    *)
(* lost and a restart moves the hour: the idempotency key goes by the days  *)
(* left and not by the day of the job.                                      *)
(***************************************************************************)
NeverRepeats == \A d \in 0..Warn : sent[d] <= 1

(***************************************************************************)
(* A trouble may cost a server two days, the one of the job that it ends    *)
(* and the one the timer counts anew: those of s fill the warning period.   *)
(***************************************************************************)
Spent(s) == Warn * Length <= (2 * troubles[s] + 1) * (Length + Lag) + Lag

(***************************************************************************)
(* When a key has expired unannounced and no job is under way, every server *)
(* failed or was restarted, in the warning period, about every other day or *)
(* more often.  Servers restarted more than once a day never warn: the      *)
(* interval of the scheduler counts from the start of the process.          *)
(***************************************************************************)
WarnedInTime ==
  time >= Expiry /\ Opens >= 0 /\ present /\ (\A s \in Servers : notice[s] = Off)
  => (\E d \in 0..Warn : sent[d] > 0) \/ \A s \in Servers : Spent(s)

\* The owner of a key is never told twice with one text, and before the key
\* expires unless each server's failures and restarts fill the warning period.
WarnedOnce == NeverRepeats /\ WarnedInTime
=============================================================================
