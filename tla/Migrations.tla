----------------------------- MODULE Migrations -----------------------------
(***************************************************************************)
(* The migration handler of the developer hub (src/src/core/dx/migrations): *)
(* deploy, apply, retry, dry run and create run a child process or a        *)
(* transaction under an advisory lock of Postgres.  The lock belongs to a   *)
(* database session, and a session may take it again; the queries that take *)
(* and return it go through a pool, each over whichever connection is idle, *)
(* and the pool closes connections that stay idle.  The Prisma CLI has a    *)
(* lock of its own.                                                         *)
(***************************************************************************)
EXTENDS Integers, FiniteSetsExt

CONSTANTS
  Workers,      \* requests to the handler
  Conns,        \* places in the connection pool
  MaxFolders,   \* bound: migrations ever written
  MaxHeld,      \* bound: locks a session keeps; each that it leaks adds one
  NoWorker      \* the CLI's lock is free

ASSUME MigrationAssumption ==
  /\ IsFiniteSet(Workers)
  /\ MaxFolders \in Nat \ {0}
  /\ MaxHeld \in Nat \ {0}
  /\ NoWorker \notin Workers

VARIABLES
  disk,      \* the folders under prisma/migrations, by the order of their timestamps
  written,   \* the last timestamp given
  rows,      \* _prisma_migrations
  held,      \* how often the session of a connection has taken the lock
  work,      \* what a request is doing
  cli,       \* whose child process holds the CLI's lock
  leaked     \* history: connections that kept the lock after their request ended

migrationVars == <<disk, written, rows, held, work, cli, leaked>>

Folders == 1..MaxFolders

\* A request: what it does, how far it is, the connection that answered its
\* pg_try_advisory_lock; history: that lock was lost before it was returned.
AtRest == [at |-> "rest"]

Work ==
  [kind : {"deploy", "retry", "dry", "create"}, at : {"lock", "fn", "child", "unlock"},
   conn : Conns, lapsed : BOOLEAN]

\* Type invariant of the folders, the lock and the requests.
MigrationTypeOK ==
  /\ disk \subseteq Folders
  /\ written \in 0..MaxFolders
  /\ rows \in [Folders -> {"none", "failed", "done"}]
  /\ held \in [Conns -> 0..MaxHeld]
  /\ \A c \in Workers : work[c] = AtRest \/ work[c] \in Work
  /\ cli \in Workers \cup {NoWorker}
  /\ leaked \subseteq Conns

MigrationInit ==
  /\ disk = {1}
  /\ written = 1
  /\ rows = [k \in Folders |-> "none"]
  /\ held = [x \in Conns |-> 0]
  /\ work = [c \in Workers |-> AtRest]
  /\ cli = NoWorker
  /\ leaked = {}

-----------------------------------------------------------------------------
At(c, at) == work[c] # AtRest /\ work[c].at = at

Goes(c, next) == work' = [work EXCEPT ![c].at = next]

\* deployPending(), applyOne() and applyDraft(); retryFailed(); dryRun(); createDraft()
Ask(c, kind, x) ==
  /\ work[c] = AtRest
  /\ work' = [work EXCEPT ![c] = [kind |-> kind, at |-> "lock", conn |-> x, lapsed |-> FALSE]]
  /\ UNCHANGED <<disk, written, rows, held, cli, leaked>>

\* Variant of Locked: the answer has a row, whatever it says.
LockedAnyway(x) == TRUE

\* pg_try_advisory_lock over x: no other session has the lock.
Locked(x) == \A y \in Conns \ {x} : held[y] = 0

\* withAdvisoryLock(): without the lock the answer is 409.
TryLock(c) ==
  LET x == work[c].conn IN
  /\ At(c, "lock")
  /\ held[x] < MaxHeld
  /\ IF Locked(x)
     THEN held' = [held EXCEPT ![x] = @ + 1] /\ Goes(c, "fn")
     ELSE work' = [work EXCEPT ![c] = AtRest] /\ UNCHANGED held
  /\ UNCHANGED <<disk, written, rows, cli, leaked>>

\* retryFailed(): validateMigrationName() refuses every name of a folder, so
\* that nothing is ever resolved; the lock is returned.
Throw(c) ==
  /\ At(c, "fn")
  /\ work[c].kind = "retry"
  /\ Goes(c, "unlock")
  /\ UNCHANGED <<disk, written, rows, held, cli, leaked>>

\* dryRun(): a transaction that is rolled back.
DryRun(c) ==
  /\ At(c, "fn")
  /\ work[c].kind = "dry"
  /\ Goes(c, "unlock")
  /\ UNCHANGED <<disk, written, rows, held, cli, leaked>>

\* runPrismaCommand(): the child waits for the CLI's lock and has it.
Spawn(c) ==
  /\ At(c, "fn")
  /\ work[c].kind \in {"deploy", "create"}
  /\ cli = NoWorker
  /\ cli' = c
  /\ Goes(c, "child")
  /\ UNCHANGED <<disk, written, rows, held, leaked>>

\* The CLI's lock is not to be had in time, or the child cannot be started.
SpawnFails(c) ==
  /\ At(c, "fn")
  /\ work[c].kind \in {"deploy", "create"}
  /\ Goes(c, "unlock")
  /\ UNCHANGED <<disk, written, rows, held, cli, leaked>>

Pending == {k \in disk : rows[k] = "none"}
Stuck == \E k \in Folders : rows[k] = "failed"

Deploying(c) == At(c, "child") /\ work[c].kind = "deploy"

\* prisma migrate deploy: in order of the timestamps, unless one has failed
ApplyNext(c) ==
  /\ Deploying(c)
  /\ ~ Stuck
  /\ Pending # {}
  /\ rows' = [rows EXCEPT ![Min(Pending)] = "done"]
  /\ UNCHANGED <<disk, written, held, work, cli, leaked>>

\* The child is over and the names are listed again.
ChildExits(c) ==
  /\ cli' = NoWorker
  /\ Goes(c, "unlock")

DeployEnds(c) ==
  /\ Deploying(c)
  /\ Stuck \/ Pending = {}
  /\ ChildExits(c)
  /\ UNCHANGED <<disk, written, rows, held, leaked>>

\* A statement fails, or the child is killed after its time.
DeployFails(c) ==
  /\ Deploying(c)
  /\ ~ Stuck
  /\ Pending # {}
  /\ rows' = [rows EXCEPT ![Min(Pending)] = "failed"]
  /\ ChildExits(c)
  /\ UNCHANGED <<disk, written, held, leaked>>

\* runCreateMigration(): prisma migrate dev --create-only
CreateDraft(c) ==
  /\ At(c, "child")
  /\ work[c].kind = "create"
  /\ \/ /\ written < MaxFolders
        /\ written' = written + 1
        /\ disk' = disk \cup {written + 1}
     \/ UNCHANGED <<disk, written>>
  /\ ChildExits(c)
  /\ UNCHANGED <<rows, held, leaked>>

\* discardDraft(): without the lock, and whether or not it is applied.
DiscardDraft(k) ==
  /\ k \in disk
  /\ disk' = disk \ {k}
  /\ UNCHANGED <<written, rows, held, work, cli, leaked>>

\* pg_advisory_unlock over x does nothing in a session without the lock.
Returned(x) == IF held[x] > 0 THEN held[x] - 1 ELSE 0

\* The finally block, over whichever connection is idle.  A request that lost
\* its lock returns another's; one that meets another session keeps its own.
Unlock(c, x) ==
  LET own == work[c].conn
      lapsed == work[c].lapsed
  IN
  /\ At(c, "unlock")
  /\ held' = [held EXCEPT ![x] = Returned(x)]
  /\ leaked' = IF lapsed /\ held[x] > 1 THEN leaked \cup {x}
               ELSE IF ~ lapsed /\ x # own THEN leaked \cup {own}
               ELSE IF held[x] = 1 THEN leaked \ {x} ELSE leaked
  /\ work' = [d \in Workers |->
                IF d = c THEN AtRest
                ELSE IF lapsed /\ work[d] # AtRest /\ work[d].conn = x /\ ~ At(d, "lock")
                THEN [work[d] EXCEPT !.lapsed = TRUE]
                ELSE work[d]]
  /\ UNCHANGED <<disk, written, rows, cli>>

\* pg_advisory_unlock fails and is passed over.
UnlockFails(c) ==
  /\ At(c, "unlock")
  /\ leaked' = IF work[c].lapsed THEN leaked ELSE leaked \cup {work[c].conn}
  /\ work' = [work EXCEPT ![c] = AtRest]
  /\ UNCHANGED <<disk, written, rows, held, cli>>

\* The pool closes an idle connection, and opens another in its place.
Recycle(x) ==
  /\ held[x] > 0
  /\ held' = [held EXCEPT ![x] = 0]
  /\ leaked' = leaked \ {x}
  /\ work' = [c \in Workers |->
                IF work[c] # AtRest /\ work[c].conn = x /\ ~ At(c, "lock")
                THEN [work[c] EXCEPT !.lapsed = TRUE] ELSE work[c]]
  /\ UNCHANGED <<disk, written, rows, cli>>

-----------------------------------------------------------------------------
\* What withAdvisoryLock() runs.
Run(c) ==
  \/ Throw(c) \/ DryRun(c) \/ Spawn(c) \/ SpawnFails(c)
  \/ ApplyNext(c) \/ DeployEnds(c) \/ DeployFails(c) \/ CreateDraft(c)

MigrationNext ==
  \/ \E c \in Workers :
       \/ \E kind \in {"deploy", "retry", "dry", "create"}, x \in Conns : Ask(c, kind, x)
       \/ TryLock(c) \/ Run(c)
       \/ \E x \in Conns : Unlock(c, x)
       \/ UnlockFails(c)
  \/ \E k \in Folders : DiscardDraft(k)
  \/ \E x \in Conns : Recycle(x)

MigrationSpec == MigrationInit /\ [][MigrationNext]_migrationVars

-----------------------------------------------------------------------------
Runs(c) == At(c, "fn") \/ At(c, "child")

\* The requests that the session of x has the lock for.
Holders(x) ==
  {c \in Workers : work[c] # AtRest /\ work[c].conn = x /\ ~ At(c, "lock") /\ ~ work[c].lapsed}

(***************************************************************************)
(* The advisory lock keeps two requests from running a migration at once,   *)
(* except where it cannot over a pool: they were answered over one          *)
(* connection, whose session takes the lock as often as it likes; the       *)
(* connection of one was closed while its child was running; or a request   *)
(* that had lost its lock that way returned the other's.                    *)
(***************************************************************************)
Exclusive ==
  \A c, d \in Workers :
    c # d /\ Runs(c) /\ Runs(d) =>
      work[c].conn = work[d].conn \/ work[c].lapsed \/ work[d].lapsed

(***************************************************************************)
(* 409 tells the truth: the lock is held for a request that is not over, or *)
(* was kept by a connection because its unlock failed or went out over      *)
(* another one.  No exception or failing child leaves it behind.            *)
(***************************************************************************)
HeldIsUsed == \A x \in Conns : held[x] > 0 => x \in leaked \/ Holders(x) # {}

\* withAdvisoryLock() does what it is for: it excludes, and it is given back.
LockIsSound == Exclusive /\ HeldIsUsed
=============================================================================
