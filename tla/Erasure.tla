------------------------------ MODULE Erasure -------------------------------
(***************************************************************************)
(* Account erasure (src/src/core/gdpr): DELETE /me/account records a        *)
(* pending_erasures row in two queries; the daily tick of GdprErasureRunner *)
(* reads a batch of pending rows, plans, and erases one user after another, *)
(* each in a transaction that also completes the row.  Every server ticks.  *)
(***************************************************************************)
EXTENDS Integers, FiniteSets

CONSTANTS
  Servers,     \* processes whose scheduler runs tick()
  Users,
  Askers,      \* requests of DELETE /me/account
  UserOf,      \* who sends one
  Rows,        \* bound: rows of pending_erasures at one time
  Grace,       \* gracePeriodMs, in days of the model
  ReadLimit    \* LIMIT of readPendingErasures()

ASSUME ErasureAssumption ==
  /\ UserOf \in [Askers -> Users]
  /\ Grace \in Nat
  /\ ReadLimit \in Nat \ {0}

VARIABLES
  rows,      \* the pending_erasures table
  erased,    \* users whose record is anonymised
  ask,       \* how far a request is
  ticking,   \* how far tick() is on a server
  plan,      \* readyForErasure, what is left of it
  blind,     \* history: requests whose check another insert has overtaken
  doubled,   \* history: users with a row inserted by such a request
  late       \* history: rows withdrawn while in a plan

erasureVars == <<rows, erased, ask, ticking, plan, blind, doubled, late>>

Row == [user: Users, status: {"unused", "pending", "completed", "cancelled"},
        age: 0..Grace]

\* Type invariant of the pending rows, the requests and the ticks.
ErasureTypeOK ==
  /\ rows \in [Rows -> Row]
  /\ erased \subseteq Users
  /\ ask \in [Askers -> {"idle", "insert"}]
  /\ ticking \in [Servers -> {"off", "read", "erase"}]
  /\ plan \in [Servers -> SUBSET Rows]
  /\ blind \subseteq Askers
  /\ doubled \subseteq Users
  /\ late \subseteq Rows

\* A request of an earlier run may be in the table.
ErasureInit ==
  /\ \E u \in Users, left \in SUBSET Rows :
       /\ \A r, t \in left : r = t
       /\ rows = [r \in Rows |-> [user |-> u, age |-> 0,
                                 status |-> IF r \in left THEN "pending" ELSE "unused"]]
  /\ erased = {}
  /\ ask = [a \in Askers |-> "idle"]
  /\ ticking = [s \in Servers |-> "off"]
  /\ plan = [s \in Servers |-> {}]
  /\ blind = {}
  /\ doubled = {}
  /\ late = {}

-----------------------------------------------------------------------------
(* DELETE /me/account *)

\* completed_at IS NULL AND cancelled_at IS NULL
Active == {r \in Rows : rows[r].status = "pending"}

ActiveOf(u) == {r \in Active : rows[r].user = u}

\* Variant of CheckExisting: the lookup for an existing row is left out.
CheckNothing(a) ==
  /\ ask[a] = "idle"
  /\ UserOf[a] \notin erased
  /\ ask' = [ask EXCEPT ![a] = "insert"]
  /\ UNCHANGED <<rows, erased, ticking, plan, blind, doubled, late>>

\* deleteAccount(): an active row answers the request, otherwise one is inserted.
\* An erased user has no session left to send it with.
CheckExisting(a) ==
  /\ ask[a] = "idle"
  /\ UserOf[a] \notin erased
  /\ ActiveOf(UserOf[a]) = {}
  /\ ask' = [ask EXCEPT ![a] = "insert"]
  /\ UNCHANGED <<rows, erased, ticking, plan, blind, doubled, late>>

Fellows(a) == {b \in Askers \ {a} : UserOf[b] = UserOf[a] /\ ask[b] = "insert"}

\* insertPendingErasure().  A finished row that no plan names is of no further
\* account: its place is used again, so that requests never run out.
Insert(a, r) ==
  /\ ask[a] = "insert"
  /\ r \notin Active
  /\ \A s \in Servers : r \notin plan[s]
  /\ rows' = [rows EXCEPT ![r] = [user |-> UserOf[a], status |-> "pending", age |-> 0]]
  /\ ask' = [ask EXCEPT ![a] = "idle"]
  /\ blind' = (blind \cup Fellows(a)) \ {a}
  /\ doubled' = IF a \in blind THEN doubled \cup {UserOf[a]} ELSE doubled
  /\ late' = late \ {r}
  /\ UNCHANGED <<erased, ticking, plan>>

\* The INSERT throws: the request answers with an error.
InsertFails(a) ==
  /\ ask[a] = "insert"
  /\ ask' = [ask EXCEPT ![a] = "idle"]
  /\ blind' = blind \ {a}
  /\ UNCHANGED <<rows, erased, ticking, plan, doubled, late>>

\* Project code or an administrator sets cancelled_at.
Cancel(r) ==
  /\ r \in Active
  /\ rows' = [rows EXCEPT ![r].status = "cancelled"]
  /\ late' = IF \E s \in Servers : r \in plan[s] THEN late \cup {r} ELSE late
  /\ UNCHANGED <<erased, ask, ticking, plan, blind, doubled>>

\* A day passes.
Day ==
  /\ \E r \in Active : rows[r].age < Grace
  /\ rows' = [r \in Rows |->
                IF r \in Active /\ rows[r].age < Grace
                THEN [rows[r] EXCEPT !.age = @ + 1]
                ELSE rows[r]]
  /\ UNCHANGED <<erased, ask, ticking, plan, blind, doubled, late>>

-----------------------------------------------------------------------------
(* tick() *)

\* Variant of Ready: the grace period is one day short.
ReadyEarly(batch) == {r \in batch : rows[r].age + 1 >= Grace}

\* planGdprGracePeriodErasures(): the rows whose grace period is over.
Ready(batch) == {r \in batch : rows[r].age >= Grace}

\* The SELECT has a LIMIT and no order, so any rows may be the batch.
Batches ==
  {batch \in SUBSET Active :
     Cardinality(batch) = IF Cardinality(Active) < ReadLimit
                          THEN Cardinality(Active) ELSE ReadLimit}

ReadPending(s) ==
  /\ ticking[s] = "read"
  /\ \E batch \in Batches : plan' = [plan EXCEPT ![s] = Ready(batch)]
  /\ ticking' = [ticking EXCEPT ![s] = "erase"]
  /\ UNCHANGED <<rows, erased, ask, blind, doubled, late>>

\* The SELECT throws out of tick(); the job's wrapper logs it.
ReadPendingFails(s) ==
  /\ ticking[s] = "read"
  /\ ticking' = [ticking EXCEPT ![s] = "erase"]
  /\ UNCHANGED <<rows, erased, ask, plan, blind, doubled, late>>

\* eraseUser(): anonymise and complete the row, whatever its state is by now,
\* in one transaction.
EraseUser(s, r) ==
  /\ r \in plan[s]
  /\ plan' = [plan EXCEPT ![s] = @ \ {r}]
  /\ rows' = [rows EXCEPT ![r].status = "completed"]
  /\ erased' = erased \cup {rows[r].user}
  /\ UNCHANGED <<ask, ticking, blind, doubled, late>>

\* Variant of EraseFails: the row is completed although the user is not erased.
EraseFailsCompleted(s, r) ==
  /\ r \in plan[s]
  /\ plan' = [plan EXCEPT ![s] = @ \ {r}]
  /\ rows' = [rows EXCEPT ![r].status = "completed"]
  /\ UNCHANGED <<erased, ask, ticking, blind, doubled, late>>

\* The transaction is rolled back; tick() logs and goes on with the next.
EraseFails(s, r) ==
  /\ r \in plan[s]
  /\ plan' = [plan EXCEPT ![s] = @ \ {r}]
  /\ UNCHANGED <<rows, erased, ask, ticking, blind, doubled, late>>

AskForErasure ==
  \E a \in Askers :
    \/ CheckExisting(a)
    \/ \E r \in Rows : Insert(a, r)
    \/ InsertFails(a)

-----------------------------------------------------------------------------
(***************************************************************************)
(* A completed request means an anonymised user, for every crash and failed *)
(* transaction: eraseUser() and the watermark commit together, and nobody   *)
(* completes a row otherwise.                                               *)
(***************************************************************************)
CompletedIsErased ==
  \A r \in Rows : rows[r].status = "completed" => rows[r].user \in erased

(***************************************************************************)
(* "We collapse repeats to one active row": a user has two active rows only *)
(* if two of the user's requests overlapped between their SELECT and INSERT.*)
(***************************************************************************)
RepeatsCollapse ==
  \A r, t \in Active : r # t /\ rows[r].user = rows[t].user =>
                         rows[r].user \in doubled

(***************************************************************************)
(* Nobody is erased before a grace period of their own has run out, nor     *)
(* after withdrawing every request, unless the withdrawal came when a       *)
(* server's tick had already planned the row.                               *)
(***************************************************************************)
ErasureIsDue ==
  [][\A u \in erased' \ erased :
       \E r \in Rows :
         /\ rows[r].user = u
         /\ rows[r].age = Grace
         /\ rows[r].status = "pending" \/ r \in late]_erasureVars
=============================================================================
