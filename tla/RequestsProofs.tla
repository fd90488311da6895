--------------------------- MODULE RequestsProofs ---------------------------
(***************************************************************************)
(* Proofs about ApiKeys, Migrations, Matrix, Devices, Variants, Notices and *)
(* PowerSync, in this order, each for any number of requests, rows and      *)
(* processes and for any bounds, and about Requests, which joins them.      *)
(***************************************************************************)
EXTENDS Requests, SequenceTheorems, FiniteSetTheorems, WellFoundedInduction, TLAPS

-----------------------------------------------------------------------------
\* The API keys are well typed, whatever requests and owners do.
THEOREM KeyTypeCorrect == KeySpec => []KeyTypeOK
<1> USE KeyAssumption
<1>1. KeyInit => KeyTypeOK
  BY DEF KeyInit, KeyTypeOK
<1>2. KeyTypeOK /\ [KeyNext]_keyVars => KeyTypeOK'
  <2> SUFFICES ASSUME KeyTypeOK, [KeyNext]_keyVars PROVE KeyTypeOK'
    OBVIOUS
  <2> USE DEF KeyTypeOK
  <2>1. ASSUME NEW v \in Verifiers, VerifyKey(v) PROVE KeyTypeOK'
    <3>1. CASE Find(v)
      <4>1. PICK n \in 0..issued[KeyOf[v]] :
              /\ shown' = [shown EXCEPT ![v] = n]
              /\ \/ Goto(v, "hash")
                 \/ Goto(v, "refused")
        BY <3>1 DEF Find
      <4>2. n \in 0..MaxSecret
        OBVIOUS
      <4>3. verify' \in [Verifiers -> {"out", "hash", "stamp", "in", "refused"}]
        BY <4>1 DEF Goto
      <4> QED
        BY <3>1, <4>1, <4>2, <4>3 DEF Find
    <3>2. CASE Hash(v)
      BY <3>2 DEF Hash, Goto
    <3>3. CASE Stamp(v)
      BY <3>3 DEF Stamp, Goto
    <3>4. CASE Leave(v)
      BY <3>4 DEF Leave, Goto
    <3> QED
      BY <2>1, <3>1, <3>2, <3>3, <3>4 DEF VerifyKey
  <2>2. ASSUME NEW k \in Keys, Overtake(k) PROVE overtaken' \in [Verifiers -> BOOLEAN]
    BY <2>2, Zenon DEF Overtake
  <2>3. ASSUME NEW k \in Keys, StartRotation(k) PROVE KeyTypeOK'
    BY <2>3 DEF StartRotation
  <2>4. ASSUME NEW k \in Keys, Revoke(k) PROVE KeyTypeOK'
    BY <2>4 DEF Revoke
  <2>5. ASSUME NEW k \in Keys, KeyExpires(k) PROVE KeyTypeOK'
    BY <2>5, <2>2 DEF KeyExpires
  <2>6. ASSUME NEW x \in rotating, Rotate(x) PROVE KeyTypeOK'
    BY <2>6, <2>2 DEF Rotate
  <2>7. CASE UNCHANGED keyVars
    BY <2>7 DEF keyVars
  <2> QED
    BY <2>1, <2>3, <2>4, <2>5, <2>6, <2>7 DEF KeyNext, ManageKeys
<1> QED
  BY <1>1, <1>2, PTL DEF KeySpec

\* A verification that no rotation and no expiry has met holds the secret that
\* the row has, and the row has not expired.
FoundInv ==
  \A v \in Verifiers :
    verify[v] \in {"hash", "stamp"} /\ ~ overtaken[v] =>
      secret[KeyOf[v]] = shown[v] /\ KeyOf[v] \notin expired

\* A verification that is past argon2Verify() has the secret part issued with
\* its lookup id.
HashedInv == \A v \in Verifiers : verify[v] = "stamp" => v \notin forged

(***************************************************************************)
(* verifyKey() answers with a user only while the row exists and only for   *)
(* the secret part issued with the lookup id, and then the key is the row's *)
(* current, unexpired one unless a rotation or the expiry fell between its  *)
(* lookup and its stamp: for every number of keys and requests, and of      *)
(* rotations that overlap each other and them.                              *)
(***************************************************************************)
THEOREM AcceptedKeysAreValid == KeySpec => AcceptedKeyIsValid
<1> USE KeyAssumption
<1>1. KeyInit => FoundInv
  BY DEF KeyInit, FoundInv
<1>2. KeyTypeOK /\ FoundInv /\ [KeyNext]_keyVars => FoundInv'
  <2> SUFFICES ASSUME KeyTypeOK, FoundInv, [KeyNext]_keyVars PROVE FoundInv'
    OBVIOUS
  <2> USE DEF KeyTypeOK, FoundInv
  <2>1. ASSUME NEW v \in Verifiers, VerifyKey(v) PROVE FoundInv'
    <3>1. CASE Find(v)
      <4>1. PICK n \in 0..issued[KeyOf[v]] :
              /\ shown' = [shown EXCEPT ![v] = n]
              /\ Goto(v, IF Usable(KeyOf[v], n) THEN "hash" ELSE "refused")
        BY <3>1 DEF Find
      <4>2. /\ verify'[v] \in {"hash", "stamp"}
                 => secret[KeyOf[v]] = shown'[v] /\ KeyOf[v] \notin expired
            /\ \A w \in Verifiers \ {v} : verify'[w] = verify[w] /\ shown'[w] = shown[w]
        BY <4>1 DEF Goto, Usable
      <4> QED
        BY <3>1, <4>2 DEF Find
    <3>2. CASE Hash(v) \/ Stamp(v) \/ Leave(v)
      BY <3>2 DEF Hash, Stamp, Leave, Goto
    <3> QED
      BY <2>1, <3>1, <3>2 DEF VerifyKey
  <2>2. ASSUME NEW k \in Keys, Overtake(k), verify' = verify
        PROVE  \A v \in Verifiers :
                 verify'[v] \in {"hash", "stamp"} /\ ~ overtaken'[v] =>
                   ~ overtaken[v] /\ KeyOf[v] # k
    BY <2>2, Zenon DEF Overtake
  <2>3. ASSUME NEW k \in Keys, StartRotation(k) \/ Revoke(k) PROVE FoundInv'
    BY <2>3 DEF StartRotation, Revoke
  <2>4. ASSUME NEW k \in Keys, KeyExpires(k) PROVE FoundInv'
    BY <2>4, <2>2 DEF KeyExpires
  <2>5. ASSUME NEW x \in rotating, Rotate(x) PROVE FoundInv'
    <3>1. CASE x.key \in live
      <4>1. x.key \in Keys
        OBVIOUS
      <4> QED
        BY <2>5, <2>2, <3>1, <4>1 DEF Rotate
    <3>2. CASE x.key \notin live
      BY <2>5, <3>2 DEF Rotate
    <3> QED
      BY <3>1, <3>2
  <2>6. CASE UNCHANGED keyVars
    BY <2>6 DEF keyVars
  <2> QED
    BY <2>1, <2>3, <2>4, <2>5, <2>6 DEF KeyNext, ManageKeys
<1>4. KeyInit => HashedInv
  BY DEF KeyInit, HashedInv
<1>5. KeyTypeOK /\ HashedInv /\ [KeyNext]_keyVars => HashedInv'
  <2> SUFFICES ASSUME KeyTypeOK, HashedInv, [KeyNext]_keyVars PROVE HashedInv'
    OBVIOUS
  <2>1. ASSUME NEW v \in Verifiers, VerifyKey(v) PROVE HashedInv'
    <3>1. CASE Find(v)
      <4>1. PICK n \in 0..issued[KeyOf[v]] : Goto(v, "hash") \/ Goto(v, "refused")
        BY <3>1 DEF Find
      <4> QED
        BY <3>1, <4>1 DEF Find, Goto, HashedInv, KeyTypeOK
    <3>2. CASE Hash(v) \/ Stamp(v) \/ Leave(v)
      BY <3>2 DEF Hash, Stamp, Leave, Goto, HashedInv, KeyTypeOK
    <3> QED
      BY <2>1, <3>1, <3>2 DEF VerifyKey
  <2>2. CASE ManageKeys \/ UNCHANGED keyVars
    BY <2>2 DEF ManageKeys, StartRotation, Revoke, KeyExpires, Rotate, keyVars, HashedInv
  <2> QED
    BY <2>1, <2>2 DEF KeyNext
<1> DEFINE Accepted ==
      \A v \in Verifiers :
        verify[v] # "in" /\ verify'[v] = "in" =>
          /\ KeyOf[v] \in live
          /\ v \notin forged
          /\ overtaken[v] \/ Usable(KeyOf[v], shown[v])
<1>3. KeyTypeOK /\ FoundInv /\ HashedInv /\ [KeyNext]_keyVars => [Accepted]_keyVars
  <2> SUFFICES ASSUME KeyTypeOK, FoundInv, HashedInv, KeyNext,
                      NEW v \in Verifiers, verify[v] # "in", verify'[v] = "in"
               PROVE  /\ KeyOf[v] \in live
                      /\ v \notin forged
                      /\ overtaken[v] \/ Usable(KeyOf[v], shown[v])
    OBVIOUS
  <2>1. Stamp(v) /\ KeyOf[v] \in live
    <3>1. PICK w \in Verifiers : VerifyKey(w)
      BY DEF KeyNext, ManageKeys, StartRotation, Revoke, KeyExpires, Rotate
    <3>2. w = v
      BY <3>1 DEF VerifyKey, Find, Hash, Stamp, Leave, Goto, KeyTypeOK
    <3> QED
      BY <3>1, <3>2 DEF VerifyKey, Find, Hash, Stamp, Leave, Goto, KeyTypeOK
  <2> QED
    BY <2>1 DEF Stamp, FoundInv, HashedInv, Usable
<1> QED
  BY <1>1, <1>2, <1>3, <1>4, <1>5, KeyTypeCorrect, PTL DEF KeySpec, AcceptedKeyIsValid

-----------------------------------------------------------------------------
\* What each request to the migration handler has in hand.
WorkTyped == work \in [Workers -> {AtRest} \cup Work]

\* A request is at rest or has all of a request's parts.
LEMMA WorkIs ==
  ASSUME WorkTyped, NEW c \in Workers
  PROVE  /\ work[c] = AtRest \/ work[c] \in Work
         /\ work[c] \in Work => work[c] # AtRest
BY DEF WorkTyped, Work, AtRest

\* A step of what withAdvisoryLock() runs moves one request on and leaves the lock.
LEMMA RunStep ==
  ASSUME WorkTyped, NEW c \in Workers, Run(c)
  PROVE  /\ \E next \in {"fn", "child", "unlock"} :
              \/ Goes(c, next) /\ work[c] # AtRest /\ work[c].at # "lock"
              \/ UNCHANGED work
         /\ UNCHANGED <<held, leaked>>
BY DEF Run, Throw, DryRun, Spawn, SpawnFails, ApplyNext, DeployEnds, DeployFails, CreateDraft,
       ChildExits, Deploying, At, AtRest

\* A request that moves on is still one, over the same connection.
LEMMA Moved ==
  ASSUME WorkTyped, NEW c \in Workers, NEW next \in {"fn", "child", "unlock"},
         Goes(c, next), work[c] # AtRest
  PROVE  /\ WorkTyped'
         /\ \A d \in Workers \ {c} : work'[d] = work[d]
         /\ work'[c] # AtRest /\ work'[c].at = next
         /\ work'[c].conn = work[c].conn /\ work'[c].lapsed = work[c].lapsed
<1>1. work[c] \in Work
  BY WorkIs
<1>2. [work[c] EXCEPT !.at = next] \in Work
  BY <1>1 DEF Work
<1>3. /\ [work[c] EXCEPT !.at = next].conn = work[c].conn
      /\ [work[c] EXCEPT !.at = next].lapsed = work[c].lapsed
      /\ [work[c] EXCEPT !.at = next].at = next
  BY <1>1 DEF Work
<1>4. work' = [work EXCEPT ![c] = [work[c] EXCEPT !.at = next]]
  BY DEF Goes
<1>5. work'[c] = [work[c] EXCEPT !.at = next] /\ \A d \in Workers \ {c} : work'[d] = work[d]
  BY <1>4 DEF WorkTyped
<1>6. WorkTyped'
  BY <1>2, <1>4 DEF WorkTyped
<1> QED
  BY <1>2, <1>3, <1>5, <1>6 DEF Work, AtRest

\* A request that loses its lock keeps everything else.
LEMMA Lapsed ==
  ASSUME NEW w \in Work
  PROVE  LET v == [w EXCEPT !.lapsed = TRUE]
         IN  v \in Work /\ v.lapsed /\ v.at = w.at /\ v.conn = w.conn /\ v # AtRest
BY DEF Work, AtRest

\* Requests over x lose their lock, except those in R; the others stay as they are.
LosesLock(x, R) ==
  \A d \in Workers \ R :
    IF work[d] # AtRest /\ work[d].conn = x /\ ~ At(d, "lock")
    THEN /\ work'[d] \in Work /\ work'[d] # AtRest /\ work'[d].lapsed
         /\ work'[d].at = work[d].at /\ work'[d].conn = work[d].conn
    ELSE work'[d] = work[d]

LEMMA UnlockStep ==
  ASSUME WorkTyped, NEW c \in Workers, NEW x \in Conns, Unlock(c, x)
  PROVE  /\ WorkTyped'
         /\ work'[c] = AtRest
         /\ work[c].lapsed => LosesLock(x, {c})
         /\ ~ work[c].lapsed => \A d \in Workers \ {c} : work'[d] = work[d]
<1> DEFINE Struck(d) == work[c].lapsed /\ work[d] # AtRest /\ work[d].conn = x /\ ~ At(d, "lock")
<1>1. work' = [d \in Workers |->
                 IF d = c THEN AtRest
                 ELSE IF Struck(d) THEN [work[d] EXCEPT !.lapsed = TRUE]
                 ELSE work[d]]
  BY DEF Unlock
<1>2. \A d \in Workers : Struck(d) => work[d] \in Work
  BY WorkIs
<1>3. \A d \in Workers : Struck(d) => [work[d] EXCEPT !.lapsed = TRUE] \in Work
  BY <1>2, Lapsed
<1> HIDE DEF Struck
<1>4. WorkTyped'
  BY <1>1, <1>3 DEF WorkTyped
<1>5. /\ work'[c] = AtRest
      /\ \A d \in Workers \ {c} :
           work'[d] = IF Struck(d) THEN [work[d] EXCEPT !.lapsed = TRUE] ELSE work[d]
  BY <1>1
<1>6. ASSUME work[c].lapsed PROVE LosesLock(x, {c})
  <2> SUFFICES ASSUME NEW d \in Workers \ {c}
               PROVE  IF work[d] # AtRest /\ work[d].conn = x /\ ~ At(d, "lock")
                      THEN /\ work'[d] \in Work /\ work'[d] # AtRest /\ work'[d].lapsed
                           /\ work'[d].at = work[d].at /\ work'[d].conn = work[d].conn
                      ELSE work'[d] = work[d]
    BY Zenon DEF LosesLock
  <2>1. CASE Struck(d)
    BY <2>1, <1>2, <1>5, Lapsed DEF Struck
  <2>2. CASE ~ Struck(d)
    BY <2>2, <1>5, <1>6 DEF Struck
  <2> QED
    BY <2>1, <2>2
<1> QED
  BY <1>4, <1>5, <1>6 DEF Struck

LEMMA RecycleStep ==
  ASSUME WorkTyped, NEW x \in Conns, Recycle(x)
  PROVE  WorkTyped' /\ LosesLock(x, {})
<1> DEFINE Struck(d) == work[d] # AtRest /\ work[d].conn = x /\ ~ At(d, "lock")
<1>1. work' = [d \in Workers |-> IF Struck(d) THEN [work[d] EXCEPT !.lapsed = TRUE] ELSE work[d]]
  BY DEF Recycle
<1>2. \A d \in Workers : Struck(d) => work[d] \in Work
  BY WorkIs
<1>3. \A d \in Workers : Struck(d) => [work[d] EXCEPT !.lapsed = TRUE] \in Work
  BY <1>2, Lapsed
<1> HIDE DEF Struck
<1>4. WorkTyped'
  BY <1>1, <1>3 DEF WorkTyped
<1>5. \A d \in Workers :
        work'[d] = IF Struck(d) THEN [work[d] EXCEPT !.lapsed = TRUE] ELSE work[d]
  BY <1>1
<1> SUFFICES ASSUME NEW d \in Workers
             PROVE  IF work[d] # AtRest /\ work[d].conn = x /\ ~ At(d, "lock")
                    THEN /\ work'[d] \in Work /\ work'[d] # AtRest /\ work'[d].lapsed
                         /\ work'[d].at = work[d].at /\ work'[d].conn = work[d].conn
                    ELSE work'[d] = work[d]
  BY <1>4, Zenon DEF LosesLock
<1>6. CASE Struck(d)
  BY <1>6, <1>2, <1>5, Lapsed DEF Struck
<1>7. CASE ~ Struck(d)
  BY <1>7, <1>5 DEF Struck
<1> QED
  BY <1>6, <1>7

\* The requests of the migration handler stay well typed.
LEMMA WorkStep == MigrationTypeOK /\ WorkTyped /\ [MigrationNext]_migrationVars => WorkTyped'
<1> SUFFICES ASSUME WorkTyped, [MigrationNext]_migrationVars PROVE WorkTyped'
  OBVIOUS
<1>1. ASSUME NEW c \in Workers, NEW kind \in {"deploy", "retry", "dry", "create"}, NEW x \in Conns,
             Ask(c, kind, x)
      PROVE  WorkTyped'
  <2>1. [kind |-> kind, at |-> "lock", conn |-> x, lapsed |-> FALSE] \in Work
    BY DEF Work
  <2> QED
    BY <1>1, <2>1 DEF Ask, WorkTyped
<1>2. ASSUME NEW c \in Workers, TryLock(c) PROVE WorkTyped'
  <2>1. (Goes(c, "fn") /\ work[c] # AtRest) \/ work' = [work EXCEPT ![c] = AtRest]
    BY <1>2 DEF TryLock, At
  <2>2. CASE Goes(c, "fn") /\ work[c] # AtRest
    BY <2>2, Moved
  <2>3. CASE work' = [work EXCEPT ![c] = AtRest]
    BY <2>3 DEF WorkTyped
  <2> QED
    BY <2>1, <2>2, <2>3
<1>3. ASSUME NEW c \in Workers, Run(c) PROVE WorkTyped'
  <2>1. PICK next \in {"fn", "child", "unlock"} :
          \/ Goes(c, next) /\ work[c] # AtRest /\ work[c].at # "lock"
          \/ UNCHANGED work
    BY <1>3, RunStep
  <2>2. CASE UNCHANGED work
    BY <2>2 DEF WorkTyped
  <2> QED
    BY <2>1, <2>2, Moved
<1>4. ASSUME NEW c \in Workers, UnlockFails(c) PROVE WorkTyped'
  BY <1>4 DEF UnlockFails, WorkTyped
<1>5. ASSUME UNCHANGED work PROVE WorkTyped'
  BY <1>5 DEF WorkTyped
<1> QED
  BY <1>1, <1>2, <1>3, <1>4, <1>5, UnlockStep, RecycleStep
     DEF MigrationNext, DiscardDraft, migrationVars

\* The migration handler is well typed, and so is what each request has in hand.
LEMMA MigrationTyped == MigrationSpec => [](MigrationTypeOK /\ WorkTyped)
<1> USE MigrationAssumption
<1>1. MigrationInit => MigrationTypeOK /\ WorkTyped
  BY DEF MigrationInit, MigrationTypeOK, WorkTyped, Folders
<1>2. MigrationTypeOK /\ WorkTyped /\ [MigrationNext]_migrationVars
        => MigrationTypeOK' /\ WorkTyped'
  <2> SUFFICES ASSUME MigrationTypeOK, WorkTyped, [MigrationNext]_migrationVars
               PROVE  MigrationTypeOK'
    BY WorkStep
  <2>1. \A c \in Workers : (work[c] = AtRest \/ work[c] \in Work)'
    BY WorkStep DEF WorkTyped
  <2> DEFINE Tables ==
        /\ disk \subseteq Folders
        /\ written \in 0..MaxFolders
        /\ rows \in [Folders -> {"none", "failed", "done"}]
        /\ cli \in Workers \cup {NoWorker}
      Lock == held \in [Conns -> 0..MaxHeld] /\ leaked \subseteq Conns
  <2>2. Tables'
    <3>1. Tables
      BY DEF MigrationTypeOK
    <3>2. ASSUME NEW c \in Workers, Throw(c) \/ DryRun(c) \/ Spawn(c) \/ SpawnFails(c) PROVE Tables'
      BY <3>1, <3>2 DEF Throw, DryRun, Spawn, SpawnFails
    <3>3. ASSUME NEW c \in Workers, ApplyNext(c) \/ DeployEnds(c) \/ DeployFails(c) PROVE Tables'
      BY <3>1, <3>3 DEF ApplyNext, DeployEnds, DeployFails, ChildExits
    <3>4. ASSUME NEW c \in Workers, CreateDraft(c) PROVE Tables'
      BY <3>1, <3>4 DEF CreateDraft, ChildExits, Folders
    <3>5. ASSUME NEW k \in Folders, DiscardDraft(k) PROVE Tables'
      BY <3>1, <3>5 DEF DiscardDraft
    <3>6. CASE UNCHANGED <<disk, written, rows, cli>>
      BY <3>1, <3>6
    <3> QED
      BY <3>2, <3>3, <3>4, <3>5, <3>6
         DEF MigrationNext, Run, Ask, TryLock, Unlock, UnlockFails, Recycle, migrationVars
  <2>3. Lock'
    <3>1. Lock
      BY DEF MigrationTypeOK
    <3>2. \A c \in Workers : work[c] # AtRest => work[c].conn \in Conns
      BY WorkIs DEF Work
    <3>3. ASSUME NEW c \in Workers, TryLock(c) PROVE Lock'
      BY <3>1, <3>2, <3>3 DEF TryLock, At
    <3>4. ASSUME NEW c \in Workers, NEW x \in Conns, Unlock(c, x) PROVE Lock'
      <4>1. held' = [held EXCEPT ![x] = Returned(x)] /\ Returned(x) \in 0..MaxHeld
        BY <3>1, <3>4 DEF Unlock, Returned
      <4>2. leaked' \subseteq leaked \cup {x, work[c].conn} /\ work[c] # AtRest
        BY <3>4 DEF Unlock, At
      <4> QED
        BY <3>1, <3>2, <4>1, <4>2
    <3>5. ASSUME NEW c \in Workers, UnlockFails(c) PROVE Lock'
      BY <3>1, <3>2, <3>5 DEF UnlockFails, At
    <3>6. ASSUME NEW x \in Conns, Recycle(x) PROVE Lock'
      BY <3>1, <3>6 DEF Recycle
    <3>7. CASE UNCHANGED <<held, leaked>>
      BY <3>1, <3>7
    <3> QED
      BY <3>3, <3>4, <3>5, <3>6, <3>7, RunStep
         DEF MigrationNext, Ask, DiscardDraft, migrationVars
  <2> QED
    BY <2>1, <2>2, <2>3 DEF MigrationTypeOK
<1> QED
  BY <1>1, <1>2, PTL DEF MigrationSpec

\* What the advisory lock rests on: one session has it at most; a session has taken
\* it once for every request it still holds it for, and more often only where an
\* unlock has gone astray.
LockInv ==
  /\ \A c \in Workers : At(c, "lock") => ~ work[c].lapsed
  /\ \A x, y \in Conns : held[x] > 0 /\ held[y] > 0 => x = y
  /\ \A x \in Conns :
       /\ Cardinality(Holders(x)) <= held[x]
       /\ x \in leaked \/ held[x] = Cardinality(Holders(x))

\* How many requests hold the lock, when one more or one less does.
LEMMA HoldersCount ==
  /\ \A x : IsFiniteSet(Holders(x)) /\ Cardinality(Holders(x)) \in Nat
  /\ \A x : \A c \in Holders(x) :
       Cardinality(Holders(x) \ {c}) = Cardinality(Holders(x)) - 1 /\ Cardinality(Holders(x)) > 0
  /\ \A x : \A c \in Workers \ Holders(x) :
       Cardinality(Holders(x) \cup {c}) = Cardinality(Holders(x)) + 1
<1>1. \A x : Holders(x) \subseteq Workers
  BY DEF Holders
<1>2. \A x : IsFiniteSet(Holders(x))
  BY <1>1, FS_Subset, MigrationAssumption
<1>3. \A x : Cardinality(Holders(x)) \in Nat
  BY <1>2, FS_CardinalityType
<1>4. ASSUME NEW x, NEW c \in Holders(x)
      PROVE  /\ Cardinality(Holders(x) \ {c}) = Cardinality(Holders(x)) - 1
             /\ Cardinality(Holders(x)) > 0
  <2>1. Cardinality(Holders(x) \ {c}) = Cardinality(Holders(x)) - 1
    BY <1>2, FS_RemoveElement
  <2>2. Cardinality(Holders(x)) # 0
    BY <1>2, FS_EmptySet
  <2> QED
    BY <1>3, <2>1, <2>2
<1>5. ASSUME NEW x, NEW c \in Workers \ Holders(x)
      PROVE  Cardinality(Holders(x) \cup {c}) = Cardinality(Holders(x)) + 1
  BY <1>2, FS_AddElement
<1> QED
  BY <1>2, <1>3, <1>4, <1>5

\* The lock stays as it is when the same requests hold it.
LEMMA SameHolders ==
  ASSUME LockInv, WorkTyped, UNCHANGED <<held, leaked>>,
         \A x : Holders(x)' = Holders(x),
         \A c \in Workers : At(c, "lock")' => ~ work'[c].lapsed
  PROVE  LockInv'
BY DEF LockInv

LEMMA LockStep ==
  ASSUME MigrationTypeOK, WorkTyped, LockInv, [MigrationNext]_migrationVars
  PROVE  LockInv'
<1> USE DEF At
<1>1. ASSUME NEW c \in Workers, NEW kind \in {"deploy", "retry", "dry", "create"}, NEW x \in Conns,
             Ask(c, kind, x)
      PROVE  LockInv'
  <2>1. /\ work'[c] = [kind |-> kind, at |-> "lock", conn |-> x, lapsed |-> FALSE]
        /\ \A d \in Workers \ {c} : work'[d] = work[d]
        /\ work[c] = AtRest
        /\ UNCHANGED <<held, leaked>>
    BY <1>1 DEF Ask, WorkTyped
  <2>2. work'[c].at = "lock" /\ ~ work'[c].lapsed
    BY <2>1
  <2>3. \A d \in Workers : At(d, "lock")' => ~ work'[d].lapsed
    BY <2>1, <2>2 DEF LockInv
  <2>4. \A y : Holders(y)' = Holders(y)
    <3> SUFFICES ASSUME NEW y PROVE Holders(y)' = Holders(y)
      OBVIOUS
    <3>1. c \notin Holders(y) /\ c \notin Holders(y)'
      BY <2>1, <2>2 DEF Holders
    <3>2. \A d \in Workers \ {c} : d \in Holders(y) <=> d \in Holders(y)'
      BY <2>1 DEF Holders
    <3>3. Holders(y) \subseteq Workers /\ Holders(y)' \subseteq Workers
      BY DEF Holders
    <3> QED
      BY <3>1, <3>2, <3>3
  <2> QED
    BY <2>1, <2>3, <2>4, SameHolders
<1>2. ASSUME NEW c \in Workers, NEW next \in {"fn", "child", "unlock"},
             Goes(c, next), work[c] # AtRest, work[c].at # "lock", UNCHANGED <<held, leaked>>
      PROVE  LockInv'
  <2>1. /\ \A d \in Workers \ {c} : work'[d] = work[d]
        /\ work'[c] # AtRest /\ work'[c].at = next
        /\ work'[c].conn = work[c].conn /\ work'[c].lapsed = work[c].lapsed
    BY <1>2, Moved
  <2>2. \A d \in Workers : At(d, "lock")' => ~ work'[d].lapsed
    BY <2>1 DEF LockInv
  <2>3. \A y : Holders(y)' = Holders(y)
    BY <1>2, <2>1 DEF Holders
  <2> QED
    BY <1>2, <2>2, <2>3, SameHolders
<1>3. ASSUME UNCHANGED <<work, held, leaked>> PROVE LockInv'
  BY <1>3, SameHolders DEF Holders, LockInv
<1>4. ASSUME NEW c \in Workers, Run(c) PROVE LockInv'
  BY <1>2, <1>3, <1>4, RunStep
<1>5. ASSUME NEW c \in Workers, work[c] # AtRest, work' = [work EXCEPT ![c] = AtRest]
      PROVE  /\ \A y : Holders(y)' = Holders(y) \ {c}
             /\ \A d \in Workers : At(d, "lock")' => ~ work'[d].lapsed
  <2>1. work'[c] = AtRest /\ \A d \in Workers \ {c} : work'[d] = work[d]
    BY <1>5 DEF WorkTyped
  <2> QED
    BY <2>1 DEF Holders, LockInv
<1>6. ASSUME NEW c \in Workers, TryLock(c) PROVE LockInv'
  <2>1. PICK x \in Conns : work[c] # AtRest /\ work[c].at = "lock" /\ work[c].conn = x
    BY <1>6, WorkIs DEF TryLock, Work
  <2>2. CASE ~ Locked(x)
    <3>1. work' = [work EXCEPT ![c] = AtRest] /\ UNCHANGED <<held, leaked>>
      BY <1>6, <2>1, <2>2 DEF TryLock
    <3>2. \A y : c \notin Holders(y)
      BY <2>1 DEF Holders
    <3>3. /\ \A y : Holders(y)' = Holders(y) \ {c}
          /\ \A d \in Workers : At(d, "lock")' => ~ work'[d].lapsed
      BY <1>5, <2>1, <3>1
    <3>4. \A y : Holders(y)' = Holders(y)
      BY <3>2, <3>3
    <3> QED
      BY <3>1, <3>3, <3>4, SameHolders
  <2>3. CASE Locked(x)
    <3>1. held' = [held EXCEPT ![x] = @ + 1] /\ Goes(c, "fn") /\ leaked' = leaked
      BY <1>6, <2>1, <2>3 DEF TryLock
    <3>2. /\ \A d \in Workers \ {c} : work'[d] = work[d]
          /\ work'[c] # AtRest /\ work'[c].at = "fn"
          /\ work'[c].conn = x /\ work'[c].lapsed = work[c].lapsed
      BY <2>1, <3>1, Moved
    <3>3. c \notin Holders(x) /\ ~ work[c].lapsed
      BY <2>1 DEF Holders, LockInv
    <3>4. /\ Holders(x)' = Holders(x) \cup {c}
          /\ \A y : y # x => Holders(y)' = Holders(y)
      BY <2>1, <3>2, <3>3 DEF Holders
    <3>5. Cardinality(Holders(x)') = Cardinality(Holders(x)) + 1
      BY <3>3, <3>4, HoldersCount
    <3>6. held'[x] = held[x] + 1 /\ \A y \in Conns \ {x} : held'[y] = held[y] /\ held[y] = 0
      BY <2>1, <2>3, <3>1 DEF Locked, MigrationTypeOK
    <3>7. \A d \in Workers : At(d, "lock")' => ~ work'[d].lapsed
      BY <3>2 DEF LockInv
    <3>8. \A y, z \in Conns : held'[y] > 0 /\ held'[z] > 0 => y = z
      BY <3>6
    <3>9. \A y \in Conns : held[y] \in Nat /\ Cardinality(Holders(y)) \in Nat
      BY HoldersCount DEF MigrationTypeOK
    <3>10. \A y \in Conns : /\ Cardinality(Holders(y)') <= held'[y]
                            /\ y \in leaked' \/ held'[y] = Cardinality(Holders(y)')
      <4>1. /\ Cardinality(Holders(x)') <= held'[x]
            /\ x \in leaked' \/ held'[x] = Cardinality(Holders(x)')
        BY <3>1, <3>5, <3>6, <3>9 DEF LockInv
      <4>2. ASSUME NEW y \in Conns, y # x
            PROVE  /\ Cardinality(Holders(y)') <= held'[y]
                   /\ y \in leaked' \/ held'[y] = Cardinality(Holders(y)')
        BY <3>1, <3>4, <3>6, <4>2 DEF LockInv
      <4> QED
        BY <4>1, <4>2
    <3> QED
      BY <3>7, <3>8, <3>10 DEF LockInv
  <2> QED
    BY <2>2, <2>3
<1>7. ASSUME NEW c \in Workers, UnlockFails(c) PROVE LockInv'
  <2>1. /\ work[c] # AtRest /\ work[c].at = "unlock" /\ work[c].conn \in Conns
        /\ work' = [work EXCEPT ![c] = AtRest] /\ held' = held
        /\ leaked' = IF work[c].lapsed THEN leaked ELSE leaked \cup {work[c].conn}
    BY <1>7, WorkIs DEF UnlockFails, Work
  <2>2. /\ \A y : Holders(y)' = Holders(y) \ {c}
        /\ \A d \in Workers : At(d, "lock")' => ~ work'[d].lapsed
    BY <1>5, <2>1
  <2>3. \A y : y # work[c].conn \/ work[c].lapsed => c \notin Holders(y)
    BY DEF Holders
  <2>4. \A y \in Conns : held[y] \in Nat /\ Cardinality(Holders(y)) \in Nat
    BY HoldersCount DEF MigrationTypeOK
  <2>5. \A y : Cardinality(Holders(y)') <= Cardinality(Holders(y))
    BY <2>2, HoldersCount
  <2>6. \A y \in Conns : /\ Cardinality(Holders(y)') <= held'[y]
                         /\ y \in leaked' \/ held'[y] = Cardinality(Holders(y)')
    <3> SUFFICES ASSUME NEW y \in Conns
                 PROVE  /\ Cardinality(Holders(y)') <= held'[y]
                        /\ y \in leaked' \/ held'[y] = Cardinality(Holders(y)')
      OBVIOUS
    <3>1. CASE c \in Holders(y)
      <4>1. y \in leaked' /\ Cardinality(Holders(y)') = Cardinality(Holders(y)) - 1
        BY <2>1, <2>2, <2>3, <3>1, HoldersCount
      <4> QED
        BY <2>1, <2>4, <4>1 DEF LockInv
    <3>2. CASE c \notin Holders(y)
      <4>1. Holders(y)' = Holders(y) /\ (y \in leaked => y \in leaked')
        BY <2>1, <2>2, <3>2
      <4> QED
        BY <2>1, <4>1 DEF LockInv
    <3> QED
      BY <3>1, <3>2
  <2> QED
    BY <2>1, <2>2, <2>6 DEF LockInv
<1>8. ASSUME NEW x \in Conns, Recycle(x) PROVE LockInv'
  <2>1. /\ held' = [held EXCEPT ![x] = 0] /\ leaked' = leaked \ {x}
        /\ LosesLock(x, {})
    BY <1>8, RecycleStep DEF Recycle
  <2>2. held'[x] = 0 /\ \A y \in Conns \ {x} : held'[y] = held[y]
    BY <2>1 DEF MigrationTypeOK
  <2>3. Holders(x)' = {} /\ \A y : y # x => Holders(y)' = Holders(y)
    BY <2>1 DEF Holders, LosesLock
  <2>4. \A d \in Workers : At(d, "lock")' => ~ work'[d].lapsed
    BY <2>1 DEF LosesLock, LockInv
  <2>5. \A y, z \in Conns : held'[y] > 0 /\ held'[z] > 0 => y = z
    BY <2>2 DEF LockInv, MigrationTypeOK
  <2>6. \A y \in Conns : /\ Cardinality(Holders(y)') <= held'[y]
                         /\ y \in leaked' \/ held'[y] = Cardinality(Holders(y)')
    <3>1. Cardinality(Holders(x)') = 0
      BY <2>3, FS_EmptySet
    <3>2. ASSUME NEW y \in Conns, y # x
          PROVE  /\ Cardinality(Holders(y)') <= held'[y]
                 /\ y \in leaked' \/ held'[y] = Cardinality(Holders(y)')
      BY <2>1, <2>2, <2>3, <3>2 DEF LockInv
    <3> QED
      BY <2>2, <3>1, <3>2
  <2> QED
    BY <2>4, <2>5, <2>6 DEF LockInv
<1>9. ASSUME NEW c \in Workers, NEW x \in Conns, Unlock(c, x) PROVE LockInv'
  <2>1. PICK own \in Conns : /\ work[c] # AtRest /\ work[c].at = "unlock" /\ work[c].conn = own
                            /\ work[c].lapsed \in BOOLEAN
    BY <1>9, WorkIs DEF Unlock, Work
  <2>2. /\ work'[c] = AtRest
        /\ work[c].lapsed => LosesLock(x, {c})
        /\ ~ work[c].lapsed => \A d \in Workers \ {c} : work'[d] = work[d]
    BY <1>9, UnlockStep
  <2>3. held' = [held EXCEPT ![x] = Returned(x)]
    BY <1>9 DEF Unlock
  <2>4. /\ held'[x] = IF held[x] > 0 THEN held[x] - 1 ELSE 0
        /\ \A y \in Conns \ {x} : held'[y] = held[y]
    BY <2>3 DEF Returned, MigrationTypeOK
  <2>5. \A y \in Conns : held[y] \in Nat /\ held'[y] \in Nat /\ Cardinality(Holders(y)) \in Nat
    BY <2>4, HoldersCount DEF MigrationTypeOK
  <2>6. leaked' = IF work[c].lapsed /\ held[x] > 1 THEN leaked \cup {x}
                  ELSE IF ~ work[c].lapsed /\ x # own THEN leaked \cup {own}
                  ELSE IF held[x] = 1 THEN leaked \ {x} ELSE leaked
    BY <1>9, <2>1 DEF Unlock
  <2>7. \A d \in Workers : At(d, "lock")' => ~ work'[d].lapsed
    BY <2>1, <2>2 DEF LosesLock, LockInv
  <2>8. \A y, z \in Conns : held'[y] > 0 /\ held'[z] > 0 => y = z
    <3>1. \A y \in Conns : held'[y] > 0 => held[y] > 0
      BY <2>4, <2>5
    <3> QED
      BY <3>1 DEF LockInv
  <2> DEFINE Count == \A y \in Conns : /\ Cardinality(Holders(y)') <= held'[y]
                                       /\ y \in leaked' \/ held'[y] = Cardinality(Holders(y)')
  <2>9. CASE work[c].lapsed
    <3>1. \A y : c \notin Holders(y)
      BY <2>9 DEF Holders
    <3>2. Holders(x)' = {} /\ \A y : y # x => Holders(y)' = Holders(y)
      BY <2>2, <2>9, <3>1 DEF Holders, LosesLock
    <3>3. Cardinality(Holders(x)') = 0
      BY <3>2, FS_EmptySet
    <3>4. ASSUME NEW y \in Conns, y # x
          PROVE  /\ Cardinality(Holders(y)') <= held'[y]
                 /\ y \in leaked' \/ held'[y] = Cardinality(Holders(y)')
      BY <2>4, <2>6, <2>9, <3>2, <3>4 DEF LockInv
    <3>5. x \in leaked' \/ held'[x] = 0
      BY <2>4, <2>5, <2>6, <2>9
    <3>6. Count
      BY <2>5, <3>3, <3>4, <3>5
    <3> QED
      BY <2>7, <2>8, <3>6 DEF LockInv
  <2>10. CASE ~ work[c].lapsed
    <3>1. \A y : Holders(y)' = Holders(y) \ {c}
      BY <2>2, <2>10 DEF Holders
    <3>2. c \in Holders(own) /\ \A y : y # own => c \notin Holders(y)
      BY <2>1, <2>10 DEF Holders
    <3>3. /\ Cardinality(Holders(own)') = Cardinality(Holders(own)) - 1
          /\ Cardinality(Holders(own)) > 0
          /\ \A y : y # own => Holders(y)' = Holders(y)
      <4>1. Holders(own)' = Holders(own) \ {c} /\ \A y : y # own => Holders(y)' = Holders(y)
        BY <3>1, <3>2
      <4> QED
        BY <3>2, <4>1, HoldersCount
    <3>4. Cardinality(Holders(own)) <= held[own] /\ held[own] > 0
      BY <2>1, <2>5, <3>3 DEF LockInv
    <3>5. CASE x = own
      <4>1. held'[own] = held[own] - 1 /\ \A y \in Conns \ {own} : held'[y] = held[y]
        BY <2>4, <3>4, <3>5
      <4>2. \A y \in Conns : y \in leaked => y \in leaked' \/ (y = own /\ held[own] = 1)
        BY <2>6, <2>10, <3>5
      <4>3. ASSUME NEW y \in Conns, y # own
            PROVE  /\ Cardinality(Holders(y)') <= held'[y]
                   /\ y \in leaked' \/ held'[y] = Cardinality(Holders(y)')
        BY <3>3, <4>1, <4>2, <4>3 DEF LockInv
      <4>4. /\ Cardinality(Holders(own)') <= held'[own]
            /\ own \in leaked' \/ held'[own] = Cardinality(Holders(own)')
        BY <2>1, <2>5, <3>3, <3>4, <4>1, <4>2 DEF LockInv
      <4>5. Count
        BY <4>3, <4>4
      <4> QED
        BY <2>7, <2>8, <4>5 DEF LockInv
    <3>6. CASE x # own
      <4>1. held[x] = 0
        BY <2>1, <2>5, <3>4, <3>6 DEF LockInv
      <4>2. \A y \in Conns : held'[y] = held[y]
        BY <2>4, <4>1
      <4>3. leaked' = leaked \cup {own}
        BY <2>6, <2>10, <3>6
      <4>4. ASSUME NEW y \in Conns, y # own
            PROVE  /\ Cardinality(Holders(y)') <= held'[y]
                   /\ y \in leaked' \/ held'[y] = Cardinality(Holders(y)')
        BY <3>3, <4>2, <4>3, <4>4 DEF LockInv
      <4>5. /\ Cardinality(Holders(own)') <= held'[own]
            /\ own \in leaked'
        BY <2>1, <2>5, <3>3, <3>4, <4>2, <4>3
      <4>6. Count
        BY <4>4, <4>5
      <4> QED
        BY <2>7, <2>8, <4>6 DEF LockInv
    <3> QED
      BY <3>5, <3>6
  <2> QED
    BY <2>1, <2>9, <2>10
<1>10. CASE UNCHANGED migrationVars
  BY <1>3, <1>10 DEF migrationVars
<1>11. ASSUME NEW k \in Folders, DiscardDraft(k) PROVE LockInv'
  BY <1>3, <1>11 DEF DiscardDraft
<1> QED
  BY <1>1, <1>4, <1>6, <1>7, <1>8, <1>9, <1>10, <1>11 DEF MigrationNext

(***************************************************************************)
(* The advisory lock excludes and is given back as far as it can be over a  *)
(* pool of connections: for any number of requests and connections, however *)
(* often connections are closed, children fail and unlocks go astray.       *)
(***************************************************************************)
THEOREM LockSound == MigrationSpec => [](MigrationTypeOK /\ LockIsSound)
<1>1. MigrationInit => LockInv
  <2> SUFFICES ASSUME MigrationInit PROVE LockInv
    OBVIOUS
  <2>1. \A x \in Conns : Holders(x) = {}
    BY DEF MigrationInit, Holders
  <2> QED
    BY <2>1, FS_EmptySet DEF MigrationInit, LockInv, At, AtRest
<1>2. MigrationTypeOK /\ WorkTyped /\ LockInv /\ [MigrationNext]_migrationVars => LockInv'
  BY LockStep
<1>3. MigrationTypeOK /\ WorkTyped /\ LockInv => LockIsSound
  <2> SUFFICES ASSUME MigrationTypeOK, WorkTyped, LockInv PROVE LockIsSound
    OBVIOUS
  <2>1. Exclusive
    <3> SUFFICES ASSUME NEW c \in Workers, NEW d \in Workers, Runs(c), Runs(d),
                        ~ work[c].lapsed, ~ work[d].lapsed
                 PROVE  work[c].conn = work[d].conn
      BY DEF Exclusive
    <3>1. ASSUME NEW e \in Workers, Runs(e), ~ work[e].lapsed
          PROVE  work[e].conn \in Conns /\ held[work[e].conn] > 0
      <4>1. work[e] # AtRest /\ e \in Holders(work[e].conn)
        BY <3>1 DEF Runs, At, Holders
      <4>2. work[e].conn \in Conns
        BY <4>1, WorkIs DEF Work
      <4>3. Cardinality(Holders(work[e].conn)) > 0
        BY <4>1, HoldersCount
      <4> QED
        BY <4>2, <4>3, HoldersCount DEF LockInv, MigrationTypeOK
    <3> QED
      BY <3>1 DEF LockInv
  <2>2. HeldIsUsed
    BY FS_EmptySet DEF HeldIsUsed, LockInv
  <2> QED
    BY <2>1, <2>2 DEF LockIsSound
<1> QED
  BY <1>1, <1>2, <1>3, MigrationTyped, PTL DEF MigrationSpec

-----------------------------------------------------------------------------
\* What each matrix page has loaded and which click is in progress.
PagesTyped ==
  /\ view \in [Pages -> [Roles -> {Hidden} \cup Column]]
  /\ toggle \in [Pages -> {Settled} \cup Toggle]

\* A click in progress has all that its next request needs.
LEMMA ToggleIs ==
  ASSUME PagesTyped, NEW g \in Pages
  PROVE  /\ toggle[g] = Settled \/ toggle[g] \in Toggle
         /\ toggle[g] = Settled <=> toggle[g].at = "rest"
         /\ toggle[g] = Settled <=> toggle[g] \notin Toggle
         /\ toggle[g] # Settled => toggle[g].role \in Roles /\ toggle[g].name \in Names
         /\ toggle[g].at \in {"attach", "permit", "revoke"} => toggle[g].policy \in Policies
         /\ toggle[g].at = "revoke" => toggle[g].id \in 1..MaxRows
         /\ toggle[g].at \in {"rest", "policy", "attach", "permit", "revoke"}
BY DEF PagesTyped, Toggle, Settled

\* A column of the loaded matrix.
LEMMA ColumnIs ==
  ASSUME PagesTyped, NEW g \in Pages, NEW r \in Roles, view[g][r] # Hidden
  PROVE  /\ view[g][r].name \in Names
         /\ view[g][r].grant \in Grant \cup {NoGrant}
         /\ view[g][r].first \in Policies \cup {NoPolicy}
<1>1. view[g][r] \in Column
  BY DEF PagesTyped
<1> QED
  BY <1>1 DEF Column

\* The click of a page ends, or comes to its next request.
LEMMA EndsIs ==
  ASSUME PagesTyped, NEW g \in Pages, Ends(g)
  PROVE  /\ toggle' \in [Pages -> {Settled} \cup Toggle]
         /\ toggle'[g] = Settled
         /\ \A h \in Pages \ {g} : toggle'[h] = toggle[h]
BY DEF Ends, PagesTyped

LEMMA AttachNext ==
  ASSUME PagesTyped, NEW g \in Pages, NEW p \in Policies, toggle[g].at = "policy",
         toggle' = [toggle EXCEPT ![g] = [@ EXCEPT !.at = "attach", !.policy = p]]
  PROVE  /\ toggle' \in [Pages -> {Settled} \cup Toggle]
         /\ toggle'[g].at = "attach" /\ toggle'[g].policy = p /\ toggle'[g].role = toggle[g].role
         /\ \A h \in Pages \ {g} : toggle'[h] = toggle[h]
<1> DEFINE T == [at : {"policy"}, role : Roles, name : Names, policy : {NoPolicy}, id : {0}]
           A == [at : {"attach", "permit"}, role : Roles, name : Names, policy : Policies, id : {0}]
           t == [toggle[g] EXCEPT !.at = "attach", !.policy = p]
<1>1. toggle[g] \in T
  BY DEF PagesTyped, Toggle, Settled
<1>2. t \in A /\ t.at = "attach" /\ t.policy = p /\ t.role = toggle[g].role
  BY <1>1
<1>3. t \in Toggle
  BY <1>2 DEF Toggle
<1>4. toggle' = [toggle EXCEPT ![g] = t]
  OBVIOUS
<1> HIDE DEF t, T, A
<1> QED
  BY <1>2, <1>3, <1>4 DEF PagesTyped

LEMMA PermitNext ==
  ASSUME PagesTyped, NEW g \in Pages, toggle[g].at = "attach",
         toggle' = [toggle EXCEPT ![g].at = "permit"]
  PROVE  /\ toggle' \in [Pages -> {Settled} \cup Toggle]
         /\ toggle'[g].at = "permit" /\ toggle'[g].role = toggle[g].role
         /\ toggle'[g].policy = toggle[g].policy
         /\ \A h \in Pages \ {g} : toggle'[h] = toggle[h]
<1> DEFINE T == [at : {"attach", "permit"}, role : Roles, name : Names, policy : Policies, id : {0}]
           t == [toggle[g] EXCEPT !.at = "permit"]
<1>1. toggle[g] \in T
  BY DEF PagesTyped, Toggle, Settled
<1>2. t \in T /\ t.at = "permit" /\ t.role = toggle[g].role /\ t.policy = toggle[g].policy
  BY <1>1
<1>3. t \in Toggle
  BY <1>2 DEF Toggle
<1>4. toggle' = [toggle EXCEPT ![g] = t]
  OBVIOUS
<1> HIDE DEF t, T
<1> QED
  BY <1>2, <1>3, <1>4 DEF PagesTyped

\* A click begins with the request that the loaded column asks for.
LEMMA ClickNext ==
  ASSUME PagesTyped, NEW g \in Pages, NEW r \in Roles, Click(g, r)
  PROVE  /\ toggle' \in [Pages -> {Settled} \cup Toggle]
         /\ toggle'[g].at \in {"revoke", "policy", "permit"}
         /\ toggle'[g].at = "permit" =>
              /\ toggle'[g].role = r
              /\ <<r, toggle'[g].policy>> \in attached \/ g \in astray'
         /\ toggle[g] = Settled
         /\ \A h \in Pages \ {g} : toggle'[h] = toggle[h]
         /\ astray' \subseteq astray \cup {g} /\ astray \subseteq astray' \cup {g}
<1> DEFINE c == view[g][r]
           t == IF c.grant # NoGrant
                THEN [at |-> "revoke", role |-> r, name |-> c.name,
                      policy |-> c.grant.policy, id |-> c.grant.id]
                ELSE [at |-> IF c.first = NoPolicy THEN "policy" ELSE "permit",
                      role |-> r, name |-> c.name, policy |-> c.first, id |-> 0]
<1>1. c # Hidden /\ toggle[g] = Settled /\ toggle' = [toggle EXCEPT ![g] = t]
  BY DEF Click
<1>2. c.name \in Names /\ c.grant \in Grant \cup {NoGrant} /\ c.first \in Policies \cup {NoPolicy}
  BY <1>1, ColumnIs
<1>3. astray' = IF c.grant = NoGrant /\ c.first # NoPolicy /\ c.first \notin PoliciesOf(r)
                THEN astray \cup {g} ELSE astray \ {g}
  BY DEF Click
<1> HIDE DEF c
<1>4. t \in Toggle
  <2>1. CASE c.grant # NoGrant
    <3>1. c.grant.policy \in Policies /\ c.grant.id \in 1..MaxRows
      BY <1>2, <2>1 DEF Grant
    <3>2. t \in [at : {"revoke"}, role : Roles, name : Names, policy : Policies, id : 1..MaxRows]
      BY <1>2, <2>1, <3>1
    <3> QED
      BY <3>2 DEF Toggle
  <2>2. CASE c.grant = NoGrant /\ c.first = NoPolicy
    <3>1. t \in [at : {"policy"}, role : Roles, name : Names, policy : {NoPolicy}, id : {0}]
      BY <1>2, <2>2
    <3> QED
      BY <3>1 DEF Toggle
  <2>3. CASE c.grant = NoGrant /\ c.first # NoPolicy
    <3>1. t \in [at : {"attach", "permit"}, role : Roles, name : Names, policy : Policies, id : {0}]
      BY <1>2, <2>3
    <3> QED
      BY <3>1 DEF Toggle
  <2> QED
    BY <2>1, <2>2, <2>3
<1>5. /\ t.at \in {"revoke", "policy", "permit"}
      /\ t.at = "permit"
           => c.grant = NoGrant /\ c.first # NoPolicy /\ t.role = r /\ t.policy = c.first
  OBVIOUS
<1> HIDE DEF t
<1>6. toggle'[g] = t
  BY <1>1 DEF PagesTyped
<1>7. t.at = "permit" => <<r, t.policy>> \in attached \/ g \in astray'
  <2> SUFFICES ASSUME t.at = "permit", c.first \in PoliciesOf(r) PROVE <<r, t.policy>> \in attached
    BY <1>3, <1>5
  <2> QED
    BY <1>5 DEF PoliciesOf
<1> QED
  BY <1>1, <1>3, <1>4, <1>5, <1>6, <1>7 DEF PagesTyped

\* The matrix query answers with columns.
LEMMA ColumnsTyped ==
  ASSUME MatrixTypeOK, NEW r \in Roles
  PROVE  Columns(r) \subseteq {Hidden} \cup Column
<1> SUFFICES ASSUME NEW c \in Columns(r), HomeOf[r] = active, title[r] \in Names
             PROVE  c \in Column
  BY DEF Columns
<1> DEFINE G == IF \A q \in PoliciesOf(r) : row[q] = 0 THEN {NoGrant}
                ELSE {[policy |-> q, id |-> row[q]] : q \in {x \in PoliciesOf(r) : row[x] # 0}}
           P == IF PoliciesOf(r) = {} THEN {NoPolicy} ELSE PoliciesOf(r)
<1>1. c \in {[shown |-> TRUE, name |-> title[r], grant |-> g, first |-> p] : g \in G, p \in P}
  BY DEF Columns
<1>2. PICK g \in G, p \in P : c = [shown |-> TRUE, name |-> title[r], grant |-> g, first |-> p]
  BY <1>1
<1>3. PoliciesOf(r) \subseteq Policies
  BY DEF PoliciesOf
<1>4. g \in Grant \cup {NoGrant}
  <2>1. CASE g = NoGrant
    BY <2>1
  <2>2. CASE g # NoGrant
    <3>1. PICK q \in PoliciesOf(r) : row[q] # 0 /\ g = [policy |-> q, id |-> row[q]]
      BY <2>2
    <3>2. row[q] \in 1..MaxRows
      BY <1>3, <3>1, MatrixAssumption DEF MatrixTypeOK
    <3> QED
      BY <1>3, <3>1, <3>2 DEF Grant
  <2> QED
    BY <2>1, <2>2
<1>5. p \in Policies \cup {NoPolicy}
  BY <1>3
<1> HIDE DEF G, P
<1> QED
  BY <1>2, <1>4, <1>5 DEF Column

LEMMA PagesStep ==
  ASSUME MatrixTypeOK, PagesTyped, [MatrixNext]_matrixVars
  PROVE  PagesTyped'
<1>1. ASSUME NEW g \in Pages, Load(g) PROVE PagesTyped'
  <2>1. PICK v \in [Roles -> UNION {Columns(r) : r \in Roles}] :
          view' = [view EXCEPT ![g] = v] /\ \A r \in Roles : v[r] \in Columns(r)
    BY <1>1 DEF Load
  <2>2. v \in [Roles -> {Hidden} \cup Column]
    BY <2>1, ColumnsTyped
  <2> QED
    BY <1>1, <2>1, <2>2 DEF Load, PagesTyped
<1>2. ASSUME NEW g \in Pages, MakePolicy(g) PROVE PagesTyped'
  <2>1. /\ toggle[g].at = "policy" /\ view' = view
        /\ \/ Ends(g)
           \/ \E p \in Policies :
                toggle' = [toggle EXCEPT ![g] = [@ EXCEPT !.at = "attach", !.policy = p]]
    BY <1>2 DEF MakePolicy
  <2> QED
    BY <2>1, EndsIs, AttachNext DEF PagesTyped
<1>3. ASSUME NEW g \in Pages, Attach(g) PROVE PagesTyped'
  <2>1. /\ toggle[g].at = "attach" /\ view' = view
        /\ Ends(g) \/ toggle' = [toggle EXCEPT ![g].at = "permit"]
    BY <1>3 DEF Attach
  <2> QED
    BY <2>1, EndsIs, PermitNext DEF PagesTyped
<1>4. ASSUME NEW g \in Pages, Permit(g) \/ RevokeGrant(g) \/ Fail(g) PROVE PagesTyped'
  <2>1. Ends(g) /\ view' = view
    BY <1>4 DEF Permit, RevokeGrant, Fail
  <2> QED
    BY <2>1, EndsIs DEF PagesTyped
<1>5. ASSUME NEW g \in Pages, NEW r \in Roles, Click(g, r) PROVE PagesTyped'
  <2>1. view' = view
    BY <1>5 DEF Click
  <2> QED
    BY <1>5, <2>1, ClickNext DEF PagesTyped
<1>6. CASE UNCHANGED <<view, toggle>>
  BY <1>6 DEF PagesTyped
<1> QED
  BY <1>1, <1>2, <1>3, <1>4, <1>5, <1>6
     DEF MatrixNext, SetActive, CreateRole, RenameRole, DeleteRole, AttachByHand, Detach,
         CreatePolicy, DeletePolicy, matrixVars

\* Policy p is attached to role s, or a page is about to attach it.
Promised(s, p) ==
  \/ <<s, p>> \in attached
  \/ \E g \in Pages : toggle[g].at = "attach" /\ toggle[g].role = s /\ toggle[g].policy = p

\* A policy that is attached, or about to be, has its name or is deleted; and one
\* that is not spoilt is attached to a role, or about to be.
PolicyInv ==
  /\ \A r \in Roles, p \in Policies : <<r, p>> \in attached => policy[p] \in Names
  /\ \A g \in Pages :
       toggle[g].at = "attach" => policy[toggle[g].policy] \in Names \cup {Gone}
  /\ \A p \in Policies \ spoilt : policy[p] \in Names => \E s \in Roles : Promised(s, p)

\* The tables of the matrix are well typed.
LEMMA MatrixTypeStep ==
  ASSUME MatrixTypeOK, PagesTyped, [MatrixNext]_matrixVars
  PROVE  MatrixTypeOK'
<1> USE MatrixAssumption
<1> DEFINE Tables ==
      /\ active \in Orgs
      /\ title \in [Roles -> Names \cup {NoName, Gone}]
      /\ policy \in [Policies -> Names \cup {NoName, Gone}]
      /\ attached \subseteq Roles \X Policies
      /\ row \in [Policies -> 0..MaxRows]
      /\ added \in [Policies -> 0..MaxRows]
      /\ astray \subseteq Pages
      /\ spoilt \subseteq Policies
      /\ mishaps \in 0..MaxMishaps
<1>1. Tables
  BY DEF MatrixTypeOK
<1>2. ASSUME ByHand PROVE mishaps' \in 0..MaxMishaps
  BY <1>1, <1>2 DEF ByHand
<1>3. \A p, R : GoingBy(p, R) \subseteq Pages
  BY DEF GoingBy
<1>4. ASSUME NEW g \in Pages, MakePolicy(g) PROVE Tables'
  <2>1. toggle[g].name \in Names
    BY <1>4, ToggleIs DEF MakePolicy
  <2> QED
    BY <1>1, <1>4, <2>1 DEF MakePolicy
<1>5. ASSUME NEW g \in Pages, Attach(g) PROVE Tables'
  <2>1. toggle[g] # Settled /\ toggle[g].role \in Roles /\ toggle[g].policy \in Policies
    BY <1>5, ToggleIs DEF Attach
  <2> QED
    BY <1>1, <1>5, <2>1 DEF Attach
<1>6. ASSUME NEW g \in Pages, Permit(g) PROVE Tables'
  <2>1. toggle[g].policy \in Policies
    BY <1>6, ToggleIs DEF Permit
  <2> QED
    BY <1>1, <1>6, <2>1 DEF Permit
<1>7. ASSUME NEW g \in Pages, RevokeGrant(g) PROVE Tables'
  <2>1. row' = row \/ \E p \in Policies : row' = [row EXCEPT ![p] = 0]
    BY <1>7, ToggleIs DEF RevokeGrant
  <2>2. row' \in [Policies -> 0..MaxRows]
    BY <1>1, <2>1
  <2>3. UNCHANGED <<active, title, policy, attached, added, astray, spoilt, mishaps>>
    BY <1>7 DEF RevokeGrant
  <2> QED
    BY <1>1, <2>2, <2>3
<1>8. ASSUME NEW g \in Pages, Fail(g) PROVE Tables'
  <2>1. toggle[g].at = "attach" => toggle[g].policy \in Policies
    BY ToggleIs
  <2> QED
    BY <1>1, <1>8, <2>1 DEF Fail
<1>9. ASSUME NEW g \in Pages, NEW r \in Roles, Click(g, r) PROVE Tables'
  BY <1>1, <1>9, ClickNext DEF Click
<1>10. ASSUME NEW r \in Roles, NEW p \in Policies, AttachByHand(r, p) PROVE Tables'
  BY <1>1, <1>2, <1>10 DEF AttachByHand
<1>11. ASSUME NEW r \in Roles, NEW p \in Policies, Detach(r, p) PROVE Tables'
  BY <1>1, <1>2, <1>3, <1>11 DEF Detach
<1>12. ASSUME NEW p \in Policies, DeletePolicy(p) PROVE Tables'
  BY <1>1, <1>2, <1>3, <1>12 DEF DeletePolicy
<1>13. ASSUME NEW t \in Orgs, SetActive(t) PROVE Tables'
  BY <1>1, <1>13 DEF SetActive
<1>14. ASSUME NEW g \in Pages, Load(g) PROVE Tables'
  BY <1>1, <1>14 DEF Load
<1>15. ASSUME NEW r \in Roles, NEW n \in Names, CreateRole(r, n) PROVE Tables'
  BY <1>1, <1>15 DEF CreateRole
<1>16. ASSUME NEW r \in Roles, NEW n \in Names, RenameRole(r, n) PROVE Tables'
  BY <1>1, <1>2, <1>16 DEF RenameRole
<1>17. ASSUME NEW r \in Roles, DeleteRole(r) PROVE Tables'
  <2>1. PoliciesOf(r) \subseteq Policies
    BY DEF PoliciesOf
  <2>2. UNION {GoingBy(p, {r}) : p \in PoliciesOf(r)} \subseteq Pages
    BY <1>3
  <2> QED
    BY <1>1, <1>2, <1>17, <2>1, <2>2 DEF DeleteRole
<1>18. ASSUME NEW p \in Policies, NEW n \in Names, CreatePolicy(p, n) PROVE Tables'
  BY <1>1, <1>2, <1>18 DEF CreatePolicy
<1>19. ASSUME UNCHANGED matrixVars PROVE Tables'
  <2>1. /\ active' = active /\ title' = title /\ policy' = policy /\ attached' = attached
        /\ row' = row /\ added' = added /\ astray' = astray /\ spoilt' = spoilt
        /\ mishaps' = mishaps
    BY <1>19 DEF matrixVars
  <2> QED
    BY <1>1, <2>1
<1> HIDE DEF Tables
<1>20. Tables'
  BY <1>4, <1>5, <1>6, <1>7, <1>8, <1>9, <1>10, <1>11, <1>12, <1>13, <1>14, <1>15, <1>16,
     <1>17, <1>18, <1>19 DEF MatrixNext
<1>21. PagesTyped'
  BY PagesStep
<1> QED
  BY <1>20, <1>21 DEF Tables, MatrixTypeOK, PagesTyped

LEMMA PolicyStep ==
  ASSUME MatrixTypeOK, PagesTyped, PolicyInv, [MatrixNext]_matrixVars
  PROVE  PolicyInv'
<1> USE MatrixAssumption
<1>1. /\ \A r \in Roles, p \in Policies : <<r, p>> \in attached => policy[p] \in Names
      /\ \A g \in Pages :
           toggle[g].at = "attach" => policy[toggle[g].policy] \in Names \cup {Gone}
      /\ \A p \in Policies \ spoilt : policy[p] \in Names => \E s \in Roles : Promised(s, p)
  BY DEF PolicyInv
<1>2. NoName \notin Names /\ Gone \notin Names /\ NoName # Gone
  OBVIOUS
<1>3. ASSUME NEW g \in Pages, toggle[g].at # "attach", toggle'[g].at # "attach",
             \A h \in Pages \ {g} : toggle'[h] = toggle[h],
             UNCHANGED <<policy, attached, spoilt>>
      PROVE  PolicyInv'
  <2>1. \A s, p : Promised(s, p)' <=> Promised(s, p)
    BY <1>3 DEF Promised
  <2> QED
    BY <1>1, <1>3, <2>1 DEF PolicyInv
<1>4. ASSUME NEW g \in Pages, Permit(g) \/ RevokeGrant(g) \/ (Fail(g) /\ toggle[g].at # "attach")
      PROVE  PolicyInv'
  <2>1. Ends(g) /\ toggle[g].at # "attach" /\ UNCHANGED <<policy, attached, spoilt>>
    BY <1>4 DEF Permit, RevokeGrant, Fail
  <2>2. toggle'[g].at # "attach" /\ \A h \in Pages \ {g} : toggle'[h] = toggle[h]
    BY <2>1, EndsIs DEF Settled
  <2> QED
    BY <1>3, <2>1, <2>2
<1>5. ASSUME NEW g \in Pages, NEW r \in Roles, Click(g, r) PROVE PolicyInv'
  <2>1. /\ toggle'[g].at # "attach" /\ toggle[g].at # "attach"
        /\ \A h \in Pages \ {g} : toggle'[h] = toggle[h]
    <3>1. /\ toggle'[g].at \in {"revoke", "policy", "permit"} /\ toggle[g] = Settled
          /\ \A h \in Pages \ {g} : toggle'[h] = toggle[h]
      BY <1>5, ClickNext
    <3> QED
      BY <3>1, ToggleIs
  <2>2. UNCHANGED <<policy, attached, spoilt>>
    BY <1>5 DEF Click
  <2> QED
    BY <1>3, <2>1, <2>2
<1>6. ASSUME NEW g \in Pages, toggle[g].at = "attach", Ends(g),
             spoilt' = spoilt \cup {toggle[g].policy}, UNCHANGED <<policy, attached>>
      PROVE  PolicyInv'
  <2>1. toggle'[g].at # "attach" /\ \A h \in Pages \ {g} : toggle'[h] = toggle[h]
    BY <1>6, EndsIs DEF Settled
  <2>2. \A s, p : p # toggle[g].policy /\ Promised(s, p) => Promised(s, p)'
    BY <1>6, <2>1 DEF Promised
  <2> QED
    BY <1>1, <1>6, <2>1, <2>2 DEF PolicyInv
<1>7. ASSUME NEW g \in Pages, MakePolicy(g) PROVE PolicyInv'
  <2>1. /\ toggle[g].at = "policy" /\ toggle[g].role \in Roles /\ toggle[g].name \in Names
        /\ UNCHANGED <<attached, spoilt>>
    BY <1>7, ToggleIs DEF MakePolicy, Settled
  <2>2. CASE Ends(g) /\ policy' = policy
    <3>1. toggle'[g].at # "attach" /\ \A h \in Pages \ {g} : toggle'[h] = toggle[h]
      BY <2>2, EndsIs DEF Settled
    <3> QED
      BY <1>3, <2>1, <2>2, <3>1
  <2>3. ASSUME NEW p \in Policies, policy[p] = NoName,
               policy' = [policy EXCEPT ![p] = toggle[g].name],
               toggle' = [toggle EXCEPT ![g] = [@ EXCEPT !.at = "attach", !.policy = p]]
        PROVE  PolicyInv'
    <3>1. /\ toggle'[g].at = "attach" /\ toggle'[g].policy = p /\ toggle'[g].role = toggle[g].role
          /\ \A h \in Pages \ {g} : toggle'[h] = toggle[h]
      BY <2>1, <2>3, AttachNext
    <3>2. policy'[p] \in Names /\ \A q \in Policies \ {p} : policy'[q] = policy[q]
      BY <2>1, <2>3 DEF MatrixTypeOK
    <3>3. \A s, q : Promised(s, q) => Promised(s, q)'
      BY <2>1, <3>1 DEF Promised
    <3>4. \E s \in Roles : Promised(s, p)'
      BY <2>1, <3>1 DEF Promised
    <3>5. \A h \in Pages \ {g} : toggle[h].at = "attach" => toggle[h].policy \in Policies \ {p}
      BY <1>1, <1>2, <2>3, ToggleIs
    <3>6. \A r \in Roles, q \in Policies : <<r, q>> \in attached' => policy'[q] \in Names
      BY <1>1, <1>2, <2>1, <3>2
    <3>7. \A h \in Pages :
            toggle'[h].at = "attach" => policy'[toggle'[h].policy] \in Names \cup {Gone}
      BY <1>1, <3>1, <3>2, <3>5
    <3>8. \A q \in Policies \ spoilt' : policy'[q] \in Names => \E s \in Roles : Promised(s, q)'
      <4>1. ASSUME NEW q \in Policies \ spoilt', q # p, policy'[q] \in Names
            PROVE  \E s \in Roles : Promised(s, q)'
        BY <1>1, <2>1, <3>2, <3>3, <4>1
      <4> QED
        BY <3>4, <4>1
    <3> QED
      BY <3>6, <3>7, <3>8 DEF PolicyInv
  <2> QED
    BY <1>7, <2>2, <2>3 DEF MakePolicy
<1>8. ASSUME NEW g \in Pages, Attach(g) PROVE PolicyInv'
  <2>1. PICK r \in Roles, p \in Policies :
          toggle[g].at = "attach" /\ toggle[g].role = r /\ toggle[g].policy = p /\ policy' = policy
    BY <1>8, ToggleIs DEF Attach, Settled
  <2>2. CASE ~ Attachable(r, p)
    <3>1. Ends(g) /\ spoilt' = spoilt \cup {p} /\ attached' = attached
      BY <1>8, <2>1, <2>2 DEF Attach
    <3> QED
      BY <1>6, <2>1, <3>1
  <2>3. CASE Attachable(r, p)
    <3>1. /\ attached' = attached \cup {<<r, p>>} /\ spoilt' = spoilt \ {p}
          /\ toggle' = [toggle EXCEPT ![g].at = "permit"]
      BY <1>8, <2>1, <2>3 DEF Attach
    <3>2. toggle'[g].at = "permit" /\ \A h \in Pages \ {g} : toggle'[h] = toggle[h]
      BY <2>1, <3>1, PermitNext
    <3>3. policy[p] \in Names
      BY <1>1, <2>1, <2>3 DEF Attachable
    <3>4. \A s, q : Promised(s, q) => Promised(s, q)'
      BY <2>1, <3>1, <3>2 DEF Promised
    <3>5. Promised(r, p)'
      BY <3>1 DEF Promised
    <3>6. \A s \in Roles, q \in Policies : <<s, q>> \in attached' => policy'[q] \in Names
      BY <1>1, <2>1, <3>1, <3>3
    <3> QED
      BY <1>1, <2>1, <3>1, <3>2, <3>4, <3>5, <3>6 DEF PolicyInv
  <2> QED
    BY <2>2, <2>3
<1>9. ASSUME NEW g \in Pages, Fail(g) PROVE PolicyInv'
  <2>1. CASE toggle[g].at = "attach"
    BY <1>6, <1>9, <2>1 DEF Fail
  <2> QED
    BY <1>4, <1>9, <2>1
<1>10. ASSUME NEW r \in Roles, NEW p \in Policies, AttachByHand(r, p) PROVE PolicyInv'
  <2>1. /\ policy[p] \in Names /\ attached' = attached \cup {<<r, p>>}
        /\ spoilt' = spoilt \ {p} /\ UNCHANGED <<policy, toggle>>
    BY <1>10 DEF AttachByHand
  <2>2. Promised(r, p)' /\ \A s, q : Promised(s, q) => Promised(s, q)'
    BY <2>1 DEF Promised
  <2>3. \A s \in Roles, q \in Policies : <<s, q>> \in attached' => policy'[q] \in Names
    BY <1>1, <2>1
  <2> QED
    BY <1>1, <2>1, <2>2, <2>3 DEF PolicyInv
<1>11. ASSUME NEW r \in Roles, NEW p \in Policies, Detach(r, p) PROVE PolicyInv'
  <2>1. /\ attached' = attached \ {<<r, p>>} /\ spoilt' = spoilt \cup {p}
        /\ UNCHANGED <<policy, toggle>>
    BY <1>11 DEF Detach
  <2>2. \A s : \A q \in Policies \ {p} : Promised(s, q) => Promised(s, q)'
    BY <2>1 DEF Promised
  <2> QED
    BY <1>1, <2>1, <2>2 DEF PolicyInv
<1>12. ASSUME NEW p \in Policies, DeletePolicy(p) PROVE PolicyInv'
  <2>1. /\ policy' = [policy EXCEPT ![p] = Gone] /\ attached' = {a \in attached : a[2] # p}
        /\ UNCHANGED <<toggle, spoilt>>
    BY <1>12 DEF DeletePolicy
  <2>2. policy'[p] = Gone /\ \A q \in Policies \ {p} : policy'[q] = policy[q]
    BY <2>1 DEF MatrixTypeOK
  <2>3. \A s : \A q \in Policies \ {p} : Promised(s, q) => Promised(s, q)'
    BY <2>1 DEF Promised
  <2>4. \A s \in Roles, q \in Policies : <<s, q>> \in attached' => policy'[q] \in Names
    BY <1>1, <2>1, <2>2
  <2>5. \A g \in Pages :
          toggle'[g].at = "attach" => policy'[toggle'[g].policy] \in Names \cup {Gone}
    BY <1>1, <2>1, <2>2, ToggleIs
  <2> QED
    BY <1>1, <1>2, <2>1, <2>2, <2>3, <2>4, <2>5 DEF PolicyInv
<1>13. ASSUME NEW r \in Roles, DeleteRole(r) PROVE PolicyInv'
  <2>1. /\ attached' = {a \in attached : a[1] # r} /\ spoilt' = spoilt \cup PoliciesOf(r)
        /\ UNCHANGED <<policy, toggle>>
    BY <1>13 DEF DeleteRole
  <2>2. \A s \in Roles : \A q \in Policies \ PoliciesOf(r) : Promised(s, q) => Promised(s, q)'
    BY <2>1 DEF Promised, PoliciesOf
  <2> QED
    BY <1>1, <2>1, <2>2 DEF PolicyInv
<1>14. ASSUME NEW p \in Policies, NEW n \in Names, CreatePolicy(p, n) PROVE PolicyInv'
  <2>1. /\ policy[p] = NoName /\ policy' = [policy EXCEPT ![p] = n]
        /\ spoilt' = spoilt \cup {p} /\ UNCHANGED <<attached, toggle>>
    BY <1>14 DEF CreatePolicy
  <2>2. policy'[p] = n /\ \A q \in Policies \ {p} : policy'[q] = policy[q]
    BY <2>1 DEF MatrixTypeOK
  <2>3. \A s, q : Promised(s, q) => Promised(s, q)'
    BY <2>1 DEF Promised
  <2>4. \A s \in Roles, q \in Policies : <<s, q>> \in attached' => policy'[q] \in Names
    BY <1>1, <2>1, <2>2
  <2>5. \A g \in Pages :
          toggle'[g].at = "attach" => policy'[toggle'[g].policy] \in Names \cup {Gone}
    BY <1>1, <2>1, <2>2, ToggleIs
  <2>6. \A q \in Policies \ spoilt' : policy'[q] \in Names => \E s \in Roles : Promised(s, q)'
    BY <1>1, <2>1, <2>2, <2>3
  <2> QED
    BY <2>4, <2>5, <2>6 DEF PolicyInv
<1>15. ASSUME UNCHANGED <<policy, attached, toggle, spoilt>> PROVE PolicyInv'
  <2>1. \A s, q : Promised(s, q)' <=> Promised(s, q)
    BY <1>15 DEF Promised
  <2> QED
    BY <1>1, <1>15, <2>1 DEF PolicyInv
<1> QED
  BY <1>4, <1>5, <1>7, <1>8, <1>9, <1>10, <1>11, <1>12, <1>13, <1>14, <1>15
     DEF MatrixNext, SetActive, Load, CreateRole, RenameRole, matrixVars

\* A permission goes to the role that was clicked, whatever happens between.
LEMMA ReachStep ==
  ASSUME MatrixTypeOK, PagesTyped, GrantReachesRole, [MatrixNext]_matrixVars
  PROVE  GrantReachesRole'
<1>1. \A g \in Pages \ astray :
        toggle[g].at = "permit" => <<toggle[g].role, toggle[g].policy>> \in attached
  BY ToggleIs DEF GrantReachesRole, Settled
<1> DEFINE Reaches == \A g \in Pages \ astray' :
                        toggle'[g].at = "permit"
                          => <<toggle'[g].role, toggle'[g].policy>> \in attached'
<1> SUFFICES Reaches
  BY DEF GrantReachesRole
<1>2. ASSUME NEW g \in Pages, toggle'[g].at # "permit",
             \A h \in Pages \ {g} : toggle'[h] = toggle[h],
             UNCHANGED <<attached, astray>>
      PROVE  Reaches
  BY <1>1, <1>2
<1>3. ASSUME NEW g \in Pages, Permit(g) \/ RevokeGrant(g) \/ Fail(g) PROVE Reaches
  <2>1. Ends(g) /\ UNCHANGED <<attached, astray>>
    BY <1>3 DEF Permit, RevokeGrant, Fail
  <2>2. toggle'[g].at # "permit" /\ \A h \in Pages \ {g} : toggle'[h] = toggle[h]
    BY <2>1, EndsIs DEF Settled
  <2> QED
    BY <1>2, <2>1, <2>2
<1>4. ASSUME NEW g \in Pages, NEW r \in Roles, Click(g, r) PROVE Reaches
  <2>1. attached' = attached
    BY <1>4 DEF Click
  <2> QED
    BY <1>1, <1>4, <2>1, ClickNext
<1>5. ASSUME NEW g \in Pages, MakePolicy(g) PROVE Reaches
  <2>1. /\ toggle[g].at = "policy" /\ UNCHANGED <<attached, astray>>
        /\ \/ Ends(g)
           \/ \E p \in Policies :
                toggle' = [toggle EXCEPT ![g] = [@ EXCEPT !.at = "attach", !.policy = p]]
    BY <1>5 DEF MakePolicy
  <2>2. toggle'[g].at # "permit" /\ \A h \in Pages \ {g} : toggle'[h] = toggle[h]
    <3>1. ASSUME Ends(g)
          PROVE  toggle'[g].at # "permit" /\ \A h \in Pages \ {g} : toggle'[h] = toggle[h]
      BY <3>1, EndsIs DEF Settled
    <3>2. ASSUME NEW p \in Policies,
                 toggle' = [toggle EXCEPT ![g] = [@ EXCEPT !.at = "attach", !.policy = p]]
          PROVE  toggle'[g].at # "permit" /\ \A h \in Pages \ {g} : toggle'[h] = toggle[h]
      BY <2>1, <3>2, AttachNext
    <3> QED
      BY <2>1, <3>1, <3>2
  <2> QED
    BY <1>2, <2>1, <2>2
<1>6. ASSUME NEW g \in Pages, Attach(g) PROVE Reaches
  <2>1. toggle[g].at = "attach" /\ astray' = astray
    BY <1>6 DEF Attach
  <2>2. CASE Ends(g) /\ attached' = attached
    <3>1. toggle'[g].at # "permit" /\ \A h \in Pages \ {g} : toggle'[h] = toggle[h]
      BY <2>2, EndsIs DEF Settled
    <3> QED
      BY <1>2, <2>1, <2>2, <3>1
  <2>3. CASE /\ toggle' = [toggle EXCEPT ![g].at = "permit"]
             /\ attached' = attached \cup {<<toggle[g].role, toggle[g].policy>>}
    <3>1. /\ toggle'[g].role = toggle[g].role /\ toggle'[g].policy = toggle[g].policy
          /\ \A h \in Pages \ {g} : toggle'[h] = toggle[h]
      BY <2>1, <2>3, PermitNext
    <3> QED
      BY <1>1, <2>1, <2>3, <3>1
  <2> QED
    BY <1>6, <2>2, <2>3 DEF Attach
<1>7. ASSUME NEW r \in Roles, NEW p \in Policies, AttachByHand(r, p) PROVE Reaches
  BY <1>1, <1>7 DEF AttachByHand
<1>8. ASSUME NEW p \in Policies, NEW R \in SUBSET Roles,
             toggle' = toggle, astray' = astray \cup GoingBy(p, R),
             \A r \in Roles, q \in Policies :
               <<r, q>> \in attached => <<r, q>> \in attached' \/ (q = p /\ r \in R)
      PROVE  Reaches
  <2> SUFFICES ASSUME NEW g \in Pages \ astray', toggle[g].at = "permit"
               PROVE  <<toggle[g].role, toggle[g].policy>> \in attached'
    BY <1>8
  <2>1. toggle[g] # Settled /\ toggle[g].role \in Roles /\ toggle[g].policy \in Policies
    BY ToggleIs DEF Settled
  <2>2. ~ (toggle[g].policy = p /\ toggle[g].role \in R)
    BY <1>8, <2>1 DEF GoingBy
  <2> QED
    BY <1>1, <1>8, <2>1, <2>2
<1>9. ASSUME NEW r \in Roles, NEW p \in Policies, Detach(r, p) PROVE Reaches
  <2>1. /\ toggle' = toggle /\ astray' = astray \cup GoingBy(p, {r})
        /\ attached' = attached \ {<<r, p>>}
    BY <1>9 DEF Detach
  <2> QED
    BY <1>8, <2>1, SMTT(30)
<1>10. ASSUME NEW p \in Policies, DeletePolicy(p) PROVE Reaches
  <2>1. /\ toggle' = toggle /\ astray' = astray \cup GoingBy(p, Roles)
        /\ attached' = {a \in attached : a[2] # p}
    BY <1>10 DEF DeletePolicy
  <2> QED
    BY <1>8, <2>1
<1>11. ASSUME NEW r \in Roles, DeleteRole(r) PROVE Reaches
  <2>1. /\ toggle' = toggle /\ attached' = {a \in attached : a[1] # r}
        /\ astray' = astray \cup UNION {GoingBy(p, {r}) : p \in PoliciesOf(r)}
    BY <1>11 DEF DeleteRole
  <2> SUFFICES ASSUME NEW g \in Pages \ astray', toggle[g].at = "permit"
               PROVE  <<toggle[g].role, toggle[g].policy>> \in attached'
    BY <2>1
  <2>2. toggle[g] # Settled /\ toggle[g].policy \in Policies
    BY ToggleIs DEF Settled
  <2>3. <<toggle[g].role, toggle[g].policy>> \in attached
    BY <1>1, <2>1
  <2>4. toggle[g].role # r
    <3> SUFFICES ASSUME toggle[g].role = r PROVE FALSE
      OBVIOUS
    <3>1. toggle[g].policy \in PoliciesOf(r) /\ g \in GoingBy(toggle[g].policy, {r})
      BY <2>2, <2>3 DEF PoliciesOf, GoingBy
    <3> QED
      BY <2>1, <3>1
  <2> QED
    BY <2>1, <2>3, <2>4
<1>12. ASSUME UNCHANGED <<attached, toggle, astray>> PROVE Reaches
  BY <1>1, <1>12
<1> HIDE DEF Reaches
<1> QED
  BY <1>3, <1>4, <1>5, <1>6, <1>7, <1>9, <1>10, <1>11, <1>12
     DEF MatrixNext, SetActive, Load, CreateRole, RenameRole, CreatePolicy, matrixVars

(***************************************************************************)
(* Clicks of overlapping matrix pages put a permission only into a policy   *)
(* that the clicked role has, unless it was taken away by hand since, and   *)
(* leave no policy behind that no role has, unless its attach failed or it  *)
(* was made or taken away by hand: for any number of tenants, roles,        *)
(* policies and pages, and whatever is created, renamed, attached, detached *)
(* and deleted by hand between the requests of a click.                     *)
(***************************************************************************)
THEOREM GrantsSound == MatrixSpec => [](MatrixTypeOK /\ GrantsAreSound)
<1> DEFINE Inv == MatrixTypeOK /\ PagesTyped /\ PolicyInv /\ GrantReachesRole
<1>1. MatrixInit => Inv
  <2> SUFFICES ASSUME MatrixInit PROVE Inv
    OBVIOUS
  <2>1. MatrixTypeOK /\ PagesTyped
    BY MatrixAssumption DEF MatrixInit, MatrixTypeOK, PagesTyped
  <2>2. \A g \in Pages : toggle[g] = Settled /\ toggle[g].at = "rest"
    BY DEF MatrixInit, Settled
  <2>3. \A p \in Policies : policy[p] \notin Names
    BY MatrixAssumption DEF MatrixInit
  <2>4. PolicyInv /\ GrantReachesRole
    BY <2>2, <2>3 DEF MatrixInit, PolicyInv, GrantReachesRole
  <2> QED
    BY <2>1, <2>4
<1>2. Inv /\ [MatrixNext]_matrixVars => Inv'
  BY MatrixTypeStep, PagesStep, PolicyStep, ReachStep
<1>3. Inv => GrantsAreSound
  <2> SUFFICES ASSUME MatrixTypeOK, PagesTyped, PolicyInv,
                      NEW p \in Policies \ spoilt, policy[p] \in Names
               PROVE  \E s \in Roles :
                        \/ <<s, p>> \in attached
                        \/ \E g \in GoingBy(p, {s}) : toggle[g].at = "attach"
    BY DEF GrantsAreSound, PoliciesHaveRoles
  <2>1. PICK s \in Roles : Promised(s, p)
    BY DEF PolicyInv
  <2>2. \A g \in Pages :
          toggle[g].at = "attach" /\ toggle[g].role = s /\ toggle[g].policy = p
            => g \in GoingBy(p, {s})
    BY DEF GoingBy, Settled
  <2> QED
    BY <2>1, <2>2 DEF Promised
<1> QED
  BY <1>1, <1>2, <1>3, PTL DEF MatrixSpec

-----------------------------------------------------------------------------
\* What is left of a sequence without its k-th element.
LEMMA RemoveAtIs ==
  ASSUME NEW S, NEW s \in Seq(S), NEW k \in 1..Len(s)
  PROVE  /\ RemoveAt(s, k) \in Seq(S)
         /\ DOMAIN RemoveAt(s, k) = 1..Len(s) - 1
         /\ \A i \in 1..Len(s) - 1 : RemoveAt(s, k)[i] = IF i < k THEN s[i] ELSE s[i + 1]
<1> DEFINE l == k - 1
           m == k + 1
           n == Len(s)
           t == RemoveAt(s, k)
           u == SubSeq(s, 1, l)
           v == SubSeq(s, m, n)
<1>1. k \in 1..n /\ n \in Nat /\ DOMAIN s = 1..n /\ l = k - 1 /\ m = k + 1
  BY LenProperties
<1>2. t = u \o v
  BY DEF RemoveAt
<1> HIDE DEF l, m, n, t
<1>3. \A i \in 1..n : s[i] \in S
  BY <1>1
<1>4. u \in Seq(S) /\ Len(u) = l /\ \A i \in 1..l : u[i] = s[i]
  <2>1. \A i \in 1..l : s[i] \in S
    BY <1>1, <1>3
  <2>2. 1 \in Int /\ l \in Int
    BY <1>1
  <2>3. /\ SubSeq(s, 1, l) \in Seq(S)
        /\ Len(SubSeq(s, 1, l)) = IF 1 <= l THEN l - 1 + 1 ELSE 0
        /\ \A i \in 1 .. l - 1 + 1 : SubSeq(s, 1, l)[i] = s[1 + i - 1]
    BY <2>1, <2>2, SubSeqProperties
  <2> QED
    BY <1>1, <2>3
<1>5. v \in Seq(S) /\ Len(v) = n - k /\ \A i \in 1..n - k : v[i] = s[k + i]
  <2>1. \A i \in m..n : s[i] \in S
    BY <1>1, <1>3
  <2>2. m \in Int /\ n \in Int
    BY <1>1
  <2>3. /\ SubSeq(s, m, n) \in Seq(S)
        /\ Len(SubSeq(s, m, n)) = IF m <= n THEN n - m + 1 ELSE 0
        /\ \A i \in 1 .. n - m + 1 : SubSeq(s, m, n)[i] = s[m + i - 1]
    BY <2>1, <2>2, SubSeqProperties
  <2> QED
    BY <1>1, <2>3, SMTT(30)
<1> HIDE DEF u, v
<1>6. /\ t \in Seq(S) /\ Len(t) = Len(u) + Len(v)
      /\ \A i \in 1..Len(t) : t[i] = IF i <= Len(u) THEN u[i] ELSE v[i - Len(u)]
  <2>1. u \in Seq(S) /\ v \in Seq(S)
    BY <1>4, <1>5
  <2>2. /\ u \o v \in Seq(S) /\ Len(u \o v) = Len(u) + Len(v)
        /\ \A i \in 1..Len(u) + Len(v) :
             (u \o v)[i] = IF i <= Len(u) THEN u[i] ELSE v[i - Len(u)]
    BY <2>1, ConcatProperties
  <2> QED
    BY <1>2, <2>2
<1>7. Len(t) = n - 1
  BY <1>1, <1>4, <1>5, <1>6, SMTT(30)
<1>8. DOMAIN t = 1..n - 1
  BY <1>6, <1>7, LenProperties
<1>9. ASSUME NEW i \in 1..n - 1 PROVE t[i] = IF i < k THEN s[i] ELSE s[i + 1]
  <2>1. CASE i < k
    <3>1. i \in 1..Len(t) /\ i <= Len(u) /\ i \in 1..l
      BY <1>1, <1>4, <1>7, <2>1
    <3> QED
      BY <1>4, <1>6, <2>1, <3>1
  <2>2. CASE ~ (i < k)
    <3>1. /\ i \in 1..Len(t) /\ ~ (i <= Len(u)) /\ i - Len(u) \in 1..n - k
          /\ k + (i - Len(u)) = i + 1
      BY <1>1, <1>4, <1>7, <2>2
    <3> QED
      BY <1>5, <1>6, <2>2, <3>1
  <2> QED
    BY <2>1, <2>2
<1> QED
  BY <1>6, <1>8, <1>9 DEF n, t

\* The elements of a sequence, and that none comes twice.
Members(s) == {s[i] : i \in DOMAIN s}
NoneTwice(s) == \A i, j \in DOMAIN s : s[i] = s[j] => i = j

\* The session rows without that of t.
LEMMA WithoutIs ==
  ASSUME signedIn \in Seq(Sessions), NoneTwice(signedIn), NEW t
  PROVE  /\ Without(t) \in Seq(Sessions)
         /\ NoneTwice(Without(t))
         /\ Members(Without(t)) = Rows \ {t}
<1>1. CASE t \notin Rows
  BY <1>1 DEF Without, Members, Rows
<1>2. CASE t \in Rows
  <2> DEFINE k == CHOOSE i \in DOMAIN signedIn : signedIn[i] = t
             w == Without(t)
             n == Len(signedIn)
  <2>1. DOMAIN signedIn = 1..n /\ n \in Nat
    BY LenProperties
  <2>2. k \in 1..n /\ signedIn[k] = t
    BY <1>2, <2>1 DEF Rows
  <2>3. w = RemoveAt(signedIn, k)
    BY <1>2 DEF Without
  <2> HIDE DEF k, w, n
  <2>4. /\ w \in Seq(Sessions) /\ DOMAIN w = 1..n - 1
        /\ \A i \in 1..n - 1 : w[i] = IF i < k THEN signedIn[i] ELSE signedIn[i + 1]
    BY <2>2, <2>3, RemoveAtIs DEF n
  <2>5. NoneTwice(w)
    <3> SUFFICES ASSUME NEW i \in 1..n - 1, NEW j \in 1..n - 1, w[i] = w[j] PROVE i = j
      BY <2>4 DEF NoneTwice
    <3> DEFINE I == IF i < k THEN i ELSE i + 1
               J == IF j < k THEN j ELSE j + 1
    <3>1. I \in 1..n /\ J \in 1..n /\ (I = J => i = j)
      BY <2>1, <2>2
    <3>2. w[i] = signedIn[I] /\ w[j] = signedIn[J]
      BY <2>4
    <3> HIDE DEF I, J
    <3> QED
      BY <2>1, <3>1, <3>2 DEF NoneTwice
  <2>6. ASSUME NEW x \in Members(w) PROVE x \in Rows \ {t}
    <3>1. PICK i \in 1..n - 1 : w[i] = x
      BY <2>4, <2>6 DEF Members
    <3>2. CASE i < k
      <4>1. i \in 1..n /\ x = signedIn[i] /\ i # k
        BY <2>1, <2>2, <2>4, <3>1, <3>2
      <4> QED
        BY <2>1, <2>2, <4>1 DEF Rows, NoneTwice
    <3>3. CASE ~ (i < k)
      <4>1. i + 1 \in 1..n /\ x = signedIn[i + 1] /\ i + 1 # k
        BY <2>1, <2>2, <2>4, <3>1, <3>3
      <4> QED
        BY <2>1, <2>2, <4>1 DEF Rows, NoneTwice
    <3> QED
      BY <3>2, <3>3
  <2>7. ASSUME NEW x \in Rows, x # t PROVE x \in Members(w)
    <3>1. PICK i \in 1..n : signedIn[i] = x
      BY <2>1, <2>7 DEF Rows
    <3>2. i # k
      BY <2>2, <2>7, <3>1
    <3>3. CASE i < k
      <4>1. i \in 1..n - 1 /\ w[i] = x
        BY <2>1, <2>2, <2>4, <3>1, <3>3
      <4> QED
        BY <2>4, <4>1 DEF Members
    <3>4. CASE ~ (i < k)
      <4>1. i - 1 \in 1..n - 1 /\ ~ (i - 1 < k) /\ i - 1 + 1 = i
        BY <2>1, <2>2, <3>1, <3>2, <3>4
      <4>2. w[i - 1] = x
        BY <2>4, <3>1, <4>1
      <4> QED
        BY <2>4, <4>1, <4>2 DEF Members
    <3> QED
      BY <3>3, <3>4
  <2>8. Members(w) = Rows \ {t}
    BY <2>6, <2>7
  <2> QED
    BY <2>4, <2>5, <2>8 DEF w
<1> QED
  BY <1>1, <1>2

\* A row is put behind others.
LEMMA BehindIs ==
  ASSUME NEW s \in Seq(Sessions), NoneTwice(s), NEW t \in Sessions, t \notin Members(s)
  PROVE  /\ Append(s, t) \in Seq(Sessions)
         /\ NoneTwice(Append(s, t))
         /\ Members(Append(s, t)) = Members(s) \cup {t}
<1> DEFINE w == Append(s, t)
           n == Len(s)
<1>1. DOMAIN s = 1..n /\ n \in Nat
  BY LenProperties
<1>2. w \in Seq(Sessions) /\ Len(w) = n + 1 /\ (\A i \in 1..n : w[i] = s[i]) /\ w[n + 1] = t
  BY AppendProperties
<1> HIDE DEF w, n
<1>3. DOMAIN w = 1..n + 1
  BY <1>2, LenProperties
<1>4. \A i \in 1..n : s[i] # t
  BY <1>1 DEF Members
<1>5. NoneTwice(w)
  BY <1>1, <1>2, <1>3, <1>4 DEF NoneTwice
<1>6. Members(w) = Members(s) \cup {t}
  <2>1. \A x \in Members(w) : x \in Members(s) \cup {t}
    BY <1>1, <1>2, <1>3 DEF Members
  <2>2. \A x \in Members(s) \cup {t} : x \in Members(w)
    BY <1>1, <1>2, <1>3 DEF Members
  <2> QED
    BY <2>1, <2>2
<1> QED
  BY <1>2, <1>5, <1>6 DEF w

\* The session rows are told apart; only sign-ins that have begun have one, and only
\* those past their decision have been excused.
RowsInv ==
  /\ NoneTwice(signedIn)
  /\ \A s \in Rows : stage[s] # "none"
  /\ \A s \in excused : stage[s] \in {"mail", "send", "over"}

\* What a step does to the session rows.
RowsGo(R) == signedIn' \in Seq(Sessions) /\ NoneTwice(signedIn') /\ Rows' = R

LEMMA RowsAre ==
  ASSUME DeviceTypeOK, RowsInv
  PROVE  /\ Rows \subseteq Sessions
         /\ \A s \in Sessions \ Rows : signedIn' = Append(signedIn, s) => RowsGo(Rows \cup {s})
         /\ \A s \in Rows : signedIn' = Append(Without(s), s) => RowsGo(Rows)
         /\ \A t : signedIn' = Without(t) => RowsGo(Rows \ {t})
         /\ signedIn' = signedIn => RowsGo(Rows)
<1>1. signedIn \in Seq(Sessions) /\ NoneTwice(signedIn)
  BY DEF DeviceTypeOK, RowsInv
<1>2. Rows = Members(signedIn) /\ Rows' = Members(signedIn')
  BY DEF Rows, Members
<1>3. Rows \subseteq Sessions
  <2>1. DOMAIN signedIn = 1..Len(signedIn) /\ \A i \in 1..Len(signedIn) : signedIn[i] \in Sessions
    BY <1>1, LenProperties
  <2> QED
    BY <2>1 DEF Rows
<1>4. ASSUME NEW s \in Sessions \ Rows, signedIn' = Append(signedIn, s) PROVE RowsGo(Rows \cup {s})
  BY <1>1, <1>2, <1>4, BehindIs DEF RowsGo
<1>5. ASSUME NEW s \in Rows, signedIn' = Append(Without(s), s) PROVE RowsGo(Rows)
  <2>1. Without(s) \in Seq(Sessions) /\ NoneTwice(Without(s)) /\ Members(Without(s)) = Rows \ {s}
    BY <1>1, WithoutIs
  <2>2. s \in Sessions /\ s \notin Members(Without(s))
    BY <1>3, <1>5, <2>1
  <2>3. /\ Append(Without(s), s) \in Seq(Sessions) /\ NoneTwice(Append(Without(s), s))
        /\ Members(Append(Without(s), s)) = Rows \cup {s}
    BY <2>1, <2>2, BehindIs
  <2> QED
    BY <1>2, <1>5, <2>3 DEF RowsGo
<1>6. ASSUME NEW t, signedIn' = Without(t) PROVE RowsGo(Rows \ {t})
  BY <1>1, <1>2, <1>6, WithoutIs DEF RowsGo
<1>7. ASSUME signedIn' = signedIn PROVE RowsGo(Rows)
  BY <1>1, <1>2, <1>7 DEF RowsGo
<1> QED
  BY <1>3, <1>4, <1>5, <1>6, <1>7

\* How the handling of a sign-in goes on, and what happens to the rows.
LEMMA HandlingStep ==
  ASSUME DeviceTypeOK, RowsInv, DeviceNext
  PROVE  \/ \E s \in Sessions :
              \/ stage[s] = "none" /\ To(s, "mark") /\ RowsGo(Rows \cup {s}) /\ excused' = excused
              \/ stage[s] = "mark" /\ To(s, "list") /\ RowsGo(Rows) /\ excused' = excused
              \/ stage[s] = "list" /\ To(s, "revoke") /\ RowsGo(Rows) /\ excused' = excused
              \/ /\ stage[s] = "list" /\ Cardinality(Rows) <= Cap
                 /\ To(s, "over") \/ To(s, "mail")
                 /\ RowsGo(Rows) /\ excused' = excused
              \/ /\ stage[s] \in {"mark", "list", "revoke"}
                 /\ To(s, "over") \/ To(s, "mail")
                 /\ RowsGo(Rows) /\ excused' = excused \cup {s}
              \/ /\ stage[s] = "revoke" /\ To(s, "mail") /\ excused' = excused
                 /\ \E t \in Rows : RowsGo(Rows \ {t})
              \/ /\ stage[s] \in {"mail", "send"}
                 /\ To(s, "over") \/ To(s, "send")
                 /\ RowsGo(Rows) /\ excused' = excused
         \/ (\E R \in SUBSET Rows : RowsGo(R)) /\ UNCHANGED <<stage, excused>>
<1> USE DeviceAssumption
<1>1. ASSUME NEW s \in Sessions, SignIn(s)
      PROVE  stage[s] = "none" /\ To(s, "mark") /\ RowsGo(Rows \cup {s}) /\ excused' = excused
  <2>1. s \notin Rows
    BY <1>1 DEF SignIn, RowsInv
  <2> QED
    BY <1>1, <2>1, RowsAre DEF SignIn
<1>2. ASSUME NEW s \in Sessions, Seen(s) PROVE RowsGo(Rows) /\ UNCHANGED <<stage, excused>>
  BY <1>2, RowsAre DEF Seen
<1>3. ASSUME NEW s \in Sessions, SignOut(s) PROVE RowsGo(Rows \ {s}) /\ UNCHANGED <<stage, excused>>
  BY <1>3, RowsAre DEF SignOut, Delete
<1>4. ASSUME NEW s \in Sessions, Mark(s)
      PROVE  stage[s] = "mark" /\ To(s, "list") /\ RowsGo(Rows) /\ excused' = excused
  BY <1>4, RowsAre DEF Mark
<1>5. ASSUME NEW s \in Sessions, GiveUp(s)
      PROVE  /\ stage[s] \in {"mark", "list", "revoke"} /\ To(s, "over")
             /\ RowsGo(Rows) /\ excused' = excused \cup {s}
  BY <1>5, RowsAre DEF GiveUp
<1>6. IsFiniteSet(Rows) /\ \A s : IsFiniteSet(Others(s))
  BY RowsAre, FS_Subset DEF Others
<1>7. ASSUME NEW s \in Sessions
      PROVE  Cardinality(Rows) <= Cardinality(Others(s)) + 1 /\ Cardinality(Others(s)) \in Nat
  <2>1. CASE s \in Rows
    <3>1. Cardinality(Others(s)) = Cardinality(Rows) - 1
      BY <1>6, <2>1, FS_RemoveElement DEF Others
    <3> QED
      BY <1>6, <3>1, FS_CardinalityType
  <2>2. CASE s \notin Rows
    <3>1. Others(s) = Rows
      BY <2>2 DEF Others
    <3> QED
      BY <1>6, <3>1, FS_CardinalityType
  <2> QED
    BY <2>1, <2>2
<1>8. ASSUME NEW s \in Sessions, Decide(s)
      PROVE  /\ stage[s] = "list" /\ RowsGo(Rows)
             /\ \/ To(s, "revoke") /\ excused' = excused
                \/ /\ Cardinality(Rows) <= Cap /\ excused' = excused
                   /\ To(s, "over") \/ To(s, "mail")
                \/ To(s, "over") /\ excused' = excused \cup {s}
  <2>1. stage[s] = "list" /\ RowsGo(Rows)
    BY <1>8, RowsAre DEF Decide
  <2>2. CASE Others(s) = {}
    <3>1. To(s, "over") /\ excused' = excused
      BY <1>8, <2>2 DEF Decide
    <3>2. Cardinality(Rows) <= Cap
      <4>1. Cardinality(Others(s)) = 0
        BY <2>2, FS_EmptySet
      <4>2. Cardinality(Rows) \in Nat
        BY <1>6, FS_CardinalityType
      <4> QED
        BY <1>7, <4>1, <4>2
    <3> QED
      BY <2>1, <3>1, <3>2
  <2>3. CASE Others(s) # {} /\ Known(s)
    BY <1>8, <2>1, <2>3 DEF Decide
  <2>4. CASE Others(s) # {} /\ ~ Known(s) /\ TooMany(s)
    BY <1>8, <2>1, <2>4 DEF Decide
  <2>5. CASE Others(s) # {} /\ ~ Known(s) /\ ~ TooMany(s)
    <3>1. To(s, "mail") /\ excused' = excused
      BY <1>8, <2>5 DEF Decide
    <3>2. Cardinality(Others(s)) + 1 <= Cap
      BY <1>7, <2>5 DEF TooMany
    <3>3. Cardinality(Rows) \in Nat
      BY <1>6, FS_CardinalityType
    <3>4. Cardinality(Rows) <= Cap
      BY <1>7, <3>2, <3>3
    <3> QED
      BY <2>1, <3>1, <3>4
  <2> QED
    BY <2>2, <2>3, <2>4, <2>5
<1>9. ASSUME NEW s \in Sessions, RevokeOldest(s)
      PROVE  /\ stage[s] = "revoke" /\ To(s, "mail")
             /\ \/ excused' = excused /\ \E t \in Rows : RowsGo(Rows \ {t})
                \/ RowsGo(Rows) /\ excused' = excused \cup {s}
  <2>1. stage[s] = "revoke" /\ To(s, "mail") /\ RowsGo(Rows \ {victim[s]})
    BY <1>9, RowsAre DEF RevokeOldest, Delete
  <2>2. CASE victim[s] \in Rows
    BY <1>9, <2>1, <2>2 DEF RevokeOldest
  <2>3. CASE victim[s] \notin Rows
    <3>1. Rows \ {victim[s]} = Rows /\ excused' = excused \cup {s}
      BY <1>9, <2>3 DEF RevokeOldest
    <3> QED
      BY <2>1, <3>1
  <2> QED
    BY <2>2, <2>3
<1>10. ASSUME NEW s \in Sessions, RevokeFails(s)
       PROVE  stage[s] = "revoke" /\ To(s, "mail") /\ RowsGo(Rows) /\ excused' = excused \cup {s}
  BY <1>10, RowsAre DEF RevokeFails
<1>11. ASSUME NEW s \in Sessions, Check(s) \/ Send(s) \/ SendFails(s)
       PROVE  /\ stage[s] \in {"mail", "send"}
              /\ To(s, "over") \/ To(s, "send")
              /\ RowsGo(Rows) /\ excused' = excused
  BY <1>11, RowsAre DEF Check, Send, SendFails
<1>12. ASSUME WindowPasses PROVE RowsGo(Rows) /\ UNCHANGED <<stage, excused>>
  BY <1>12, RowsAre DEF WindowPasses
<1>13. Rows \in SUBSET Rows /\ \A s : Rows \ {s} \in SUBSET Rows
  OBVIOUS
<1>14. ASSUME NEW s \in Sessions, HandleSessionCreated(s)
       PROVE  \/ stage[s] = "mark" /\ To(s, "list") /\ RowsGo(Rows) /\ excused' = excused
              \/ stage[s] = "list" /\ To(s, "revoke") /\ RowsGo(Rows) /\ excused' = excused
              \/ /\ stage[s] = "list" /\ Cardinality(Rows) <= Cap
                 /\ To(s, "over") \/ To(s, "mail")
                 /\ RowsGo(Rows) /\ excused' = excused
              \/ /\ stage[s] \in {"mark", "list", "revoke"}
                 /\ To(s, "over") \/ To(s, "mail")
                 /\ RowsGo(Rows) /\ excused' = excused \cup {s}
              \/ /\ stage[s] = "revoke" /\ To(s, "mail") /\ excused' = excused
                 /\ \E t \in Rows : RowsGo(Rows \ {t})
              \/ /\ stage[s] \in {"mail", "send"}
                 /\ To(s, "over") \/ To(s, "send")
                 /\ RowsGo(Rows) /\ excused' = excused
  BY <1>4, <1>5, <1>8, <1>9, <1>10, <1>11, <1>14 DEF HandleSessionCreated
<1>15. CASE \E s \in Sessions : SignIn(s)
  BY <1>1, <1>15
<1>16. CASE \E s \in Sessions : HandleSessionCreated(s)
  BY <1>14, <1>16, Zenon
<1>17. CASE (\E s \in Sessions : Seen(s) \/ SignOut(s)) \/ WindowPasses
  BY <1>2, <1>3, <1>12, <1>13, <1>17
<1> QED
  BY <1>15, <1>16, <1>17 DEF DeviceNext

LEMMA RowsStep ==
  ASSUME DeviceTypeOK, RowsInv, CapIsKept, [DeviceNext]_deviceVars
  PROVE  RowsInv' /\ CapIsKept'
<1>1. CASE UNCHANGED deviceVars
  <2>1. UNCHANGED <<signedIn, stage, excused>>
    BY <1>1 DEF deviceVars
  <2> QED
    BY <2>1 DEF RowsInv, CapIsKept, Rows, Unsettled
<1> SUFFICES ASSUME DeviceNext PROVE RowsInv' /\ CapIsKept'
  BY <1>1
<1> DEFINE U == Cardinality(Unsettled)
           E == Cardinality(excused)
<1>2. /\ Rows \subseteq Sessions
      /\ stage \in [Sessions -> Stage] /\ excused \subseteq Sessions /\ Unsettled \subseteq Sessions
  BY RowsAre DEF DeviceTypeOK, Unsettled
<1>3. IsFiniteSet(Rows) /\ IsFiniteSet(Unsettled) /\ IsFiniteSet(excused)
  BY <1>2, FS_Subset, DeviceAssumption
<1>4. Cardinality(Rows) \in Nat /\ U \in Nat /\ E \in Nat /\ Cap \in Nat
  BY <1>3, FS_CardinalityType, DeviceAssumption
<1>5. Cardinality(Rows) <= Cap + U + E
  BY DEF CapIsKept
<1>6. ASSUME NEW s \in Sessions, NEW next \in Stage, To(s, next)
      PROVE  /\ stage'[s] = next /\ \A t \in Sessions \ {s} : stage'[t] = stage[t]
             /\ next \in {"mark", "list", "revoke"} => Unsettled' = Unsettled \cup {s}
             /\ next \notin {"mark", "list", "revoke"} => Unsettled' = Unsettled \ {s}
  <2>1. stage'[s] = next /\ \A t \in Sessions \ {s} : stage'[t] = stage[t]
    BY <1>2, <1>6 DEF To
  <2> QED
    BY <2>1 DEF Unsettled
<1>7. ASSUME NEW R, RowsGo(R) PROVE Rows' = R /\ NoneTwice(signedIn')
  BY <1>7 DEF RowsGo
<1>8. /\ \A s \in Unsettled : Cardinality(Unsettled \ {s}) = U - 1
      /\ \A s \in Unsettled : Unsettled \cup {s} = Unsettled
      /\ \A s \in Sessions \ Unsettled : Cardinality(Unsettled \cup {s}) = U + 1
      /\ \A s \in Sessions \ Unsettled : Unsettled \ {s} = Unsettled
      /\ \A s \in Sessions \ excused : Cardinality(excused \cup {s}) = E + 1
      /\ \A t \in Rows : Cardinality(Rows \ {t}) = Cardinality(Rows) - 1
      /\ \A t \in Sessions \ Rows : Cardinality(Rows \cup {t}) = Cardinality(Rows) + 1
  <2>1. \A s \in Unsettled : Cardinality(Unsettled \ {s}) = U - 1
    BY <1>3, FS_RemoveElement
  <2>2. \A t \in Rows : Cardinality(Rows \ {t}) = Cardinality(Rows) - 1
    BY <1>3, FS_RemoveElement
  <2>3. \A s \in Sessions \ Unsettled : Cardinality(Unsettled \cup {s}) = U + 1
    BY <1>3, FS_AddElement
  <2>4. \A s \in Sessions \ excused : Cardinality(excused \cup {s}) = E + 1
    BY <1>3, FS_AddElement
  <2>5. \A t \in Sessions \ Rows : Cardinality(Rows \cup {t}) = Cardinality(Rows) + 1
    BY <1>3, FS_AddElement
  <2> QED
    BY <2>1, <2>2, <2>3, <2>4, <2>5
<1>9. \A s \in Sessions : /\ s \in Unsettled <=> stage[s] \in {"mark", "list", "revoke"}
                          /\ s \in Rows => stage[s] # "none"
                          /\ s \in excused => stage[s] \in {"mail", "send", "over"}
  BY DEF Unsettled, RowsInv
<1>10. {"none", "mark", "list", "revoke", "mail", "send", "over"} = Stage
  BY DEF Stage
<1>11. ASSUME NEW s \in Sessions, NEW next \in Stage, To(s, next),
              next # "none", NEW R \in SUBSET (Rows \cup {s}), RowsGo(R),
              excused' \in {excused, excused \cup {s}},
              s \in excused' => next \in {"mail", "send", "over"}
       PROVE  RowsInv'
  <2>1. stage'[s] = next /\ \A t \in Sessions \ {s} : stage'[t] = stage[t]
    BY <1>6, <1>11
  <2>2. Rows' = R /\ NoneTwice(signedIn')
    BY <1>7, <1>11
  <2>3. \A t \in Rows' : stage'[t] # "none"
    BY <1>2, <1>9, <1>11, <2>1, <2>2
  <2>4. \A t \in excused' : stage'[t] \in {"mail", "send", "over"}
    BY <1>2, <1>9, <1>11, <2>1
  <2> QED
    BY <2>2, <2>3, <2>4 DEF RowsInv
<1>12. CASE \E s \in Sessions :
              stage[s] = "none" /\ To(s, "mark") /\ RowsGo(Rows \cup {s}) /\ excused' = excused
  <2>1. PICK s \in Sessions :
          stage[s] = "none" /\ To(s, "mark") /\ RowsGo(Rows \cup {s}) /\ excused' = excused
    BY <1>12
  <2>2. s \notin Rows /\ s \notin excused /\ s \notin Unsettled
    BY <1>9, <2>1
  <2>3. RowsInv'
    BY <1>10, <1>11, <2>1, <2>2
  <2>4. Rows' = Rows \cup {s} /\ Unsettled' = Unsettled \cup {s}
    BY <1>6, <1>7, <1>10, <2>1
  <2>5. Cardinality(Rows') = Cardinality(Rows) + 1 /\ Cardinality(Unsettled') = U + 1
    BY <1>8, <2>2, <2>4
  <2> QED
    BY <1>4, <1>5, <2>1, <2>3, <2>5 DEF CapIsKept
<1>13. CASE \E s \in Sessions :
              \/ stage[s] = "mark" /\ To(s, "list") /\ RowsGo(Rows) /\ excused' = excused
              \/ stage[s] = "list" /\ To(s, "revoke") /\ RowsGo(Rows) /\ excused' = excused
  <2>1. PICK s \in Sessions : /\ stage[s] \in {"mark", "list"} /\ RowsGo(Rows) /\ excused' = excused
                              /\ To(s, "list") \/ To(s, "revoke")
    BY <1>13
  <2>2. s \notin excused /\ s \in Unsettled
    BY <1>9, <2>1
  <2>3. RowsInv'
    BY <1>10, <1>11, <2>1, <2>2
  <2>4. Rows' = Rows /\ Unsettled' = Unsettled
    BY <1>6, <1>7, <1>8, <1>10, <2>1, <2>2
  <2> QED
    BY <1>5, <2>1, <2>3, <2>4 DEF CapIsKept
<1>14. CASE \E s \in Sessions :
              /\ stage[s] = "list" /\ Cardinality(Rows) <= Cap
              /\ To(s, "over") \/ To(s, "mail")
              /\ RowsGo(Rows) /\ excused' = excused
  <2>1. PICK s \in Sessions : /\ stage[s] = "list" /\ Cardinality(Rows) <= Cap
                              /\ To(s, "over") \/ To(s, "mail")
                              /\ RowsGo(Rows) /\ excused' = excused
    BY <1>14
  <2>2. s \notin excused /\ s \in Unsettled
    BY <1>9, <2>1
  <2>3. RowsInv'
    BY <1>10, <1>11, <2>1, <2>2
  <2>4. Rows' = Rows /\ Unsettled' = Unsettled \ {s}
    BY <1>6, <1>7, <1>10, <2>1
  <2>5. Cardinality(Unsettled') = U - 1 /\ Cardinality(Unsettled') \in Nat
    BY <1>3, <1>8, <2>2, <2>4, FS_RemoveElement, FS_CardinalityType
  <2> QED
    BY <1>4, <2>1, <2>3, <2>4, <2>5 DEF CapIsKept
<1>15. CASE \E s \in Sessions :
              /\ stage[s] \in {"mark", "list", "revoke"}
              /\ To(s, "over") \/ To(s, "mail")
              /\ RowsGo(Rows) /\ excused' = excused \cup {s}
  <2>1. PICK s \in Sessions : /\ stage[s] \in {"mark", "list", "revoke"}
                              /\ To(s, "over") \/ To(s, "mail")
                              /\ RowsGo(Rows) /\ excused' = excused \cup {s}
    BY <1>15
  <2>2. s \notin excused /\ s \in Unsettled
    BY <1>9, <2>1
  <2>3. RowsInv'
    BY <1>10, <1>11, <2>1
  <2>4. Rows' = Rows /\ Unsettled' = Unsettled \ {s}
    BY <1>6, <1>7, <1>10, <2>1
  <2>5. Cardinality(Unsettled') = U - 1 /\ Cardinality(excused') = E + 1
    BY <1>8, <2>1, <2>2, <2>4
  <2> QED
    BY <1>4, <1>5, <2>3, <2>4, <2>5 DEF CapIsKept
<1>16. CASE \E s \in Sessions :
              /\ stage[s] = "revoke" /\ To(s, "mail") /\ excused' = excused
              /\ \E t \in Rows : RowsGo(Rows \ {t})
  <2>1. PICK s \in Sessions, t \in Rows :
          stage[s] = "revoke" /\ To(s, "mail") /\ excused' = excused /\ RowsGo(Rows \ {t})
    BY <1>16
  <2>2. s \notin excused /\ s \in Unsettled
    BY <1>9, <2>1
  <2>3. RowsInv'
    BY <1>10, <1>11, <2>1, <2>2
  <2>4. Rows' = Rows \ {t} /\ Unsettled' = Unsettled \ {s}
    BY <1>6, <1>7, <1>10, <2>1
  <2>5. Cardinality(Unsettled') = U - 1 /\ Cardinality(Rows') = Cardinality(Rows) - 1
    BY <1>8, <2>2, <2>4
  <2> QED
    BY <1>4, <1>5, <2>1, <2>3, <2>5 DEF CapIsKept
<1>17. CASE \E s \in Sessions :
              /\ stage[s] \in {"mail", "send"}
              /\ To(s, "over") \/ To(s, "send")
              /\ RowsGo(Rows) /\ excused' = excused
  <2>1. PICK s \in Sessions : /\ stage[s] \in {"mail", "send"}
                              /\ To(s, "over") \/ To(s, "send")
                              /\ RowsGo(Rows) /\ excused' = excused
    BY <1>17
  <2>2. s \notin Unsettled
    BY <1>9, <2>1
  <2>3. RowsInv'
    BY <1>10, <1>11, <2>1
  <2>4. Rows' = Rows /\ Unsettled' = Unsettled
    BY <1>6, <1>7, <1>8, <1>10, <2>1, <2>2
  <2> QED
    BY <1>5, <2>1, <2>3, <2>4 DEF CapIsKept
<1>18. CASE (\E R \in SUBSET Rows : RowsGo(R)) /\ UNCHANGED <<stage, excused>>
  <2>1. PICK R \in SUBSET Rows : RowsGo(R)
    BY <1>18
  <2>2. Rows' = R /\ NoneTwice(signedIn') /\ Unsettled' = Unsettled
    BY <1>7, <1>18, <2>1 DEF Unsettled
  <2>3. RowsInv'
    BY <1>18, <2>2 DEF RowsInv
  <2>4. Cardinality(R) <= Cardinality(Rows) /\ Cardinality(R) \in Nat
    BY <1>3, <2>1, FS_Subset, FS_CardinalityType
  <2> QED
    BY <1>4, <1>5, <1>18, <2>2, <2>3, <2>4 DEF CapIsKept
<1> QED
  BY <1>12, <1>13, <1>14, <1>15, <1>16, <1>17, <1>18, HandlingStep, Zenon

LEMMA DeviceTypeStep ==
  ASSUME DeviceTypeOK, RowsInv, [DeviceNext]_deviceVars
  PROVE  DeviceTypeOK'
<1> USE DeviceAssumption
<1>1. CASE UNCHANGED deviceVars
  BY <1>1 DEF deviceVars, DeviceTypeOK
<1> SUFFICES ASSUME DeviceNext PROVE DeviceTypeOK'
  BY <1>1
<1>2. Rows \subseteq Sessions
  BY RowsAre
<1>3. signedIn' \in Seq(Sessions)
  BY HandlingStep DEF RowsGo
<1> DEFINE Handling ==
      /\ print \in [Sessions -> Prints \cup {Unmarked}]
      /\ stage \in [Sessions -> Stage]
      /\ victim \in [Sessions -> Sessions \cup {Nobody}]
      /\ excused \subseteq Sessions
           Mails == recent \in BOOLEAN /\ mails \in Nat /\ crowd \in BOOLEAN
<1>4. Handling /\ Mails
  BY DEF DeviceTypeOK
<1>5. Handling'
  <2>1. ASSUME NEW t, Delete(t) PROVE print' \in [Sessions -> Prints \cup {Unmarked}]
    BY <1>4, <2>1 DEF Delete
  <2>2. ASSUME NEW s \in Sessions, Decide(s) PROVE Handling'
    <3>1. Others(s) # {} => Oldest(s) \in Sessions
      <4>1. Without(s) \in Seq(Sessions) /\ Members(Without(s)) = Others(s)
        BY WithoutIs DEF DeviceTypeOK, RowsInv, Others
      <4>2. Others(s) # {} => Without(s) # <<>>
        BY <4>1 DEF Members
      <4> QED
        BY <4>1, <4>2, HeadTailProperties DEF Oldest
    <3>2. victim' \in [Sessions -> Sessions \cup {Nobody}]
      BY <1>4, <2>2, <3>1 DEF Decide
    <3>3. stage' \in [Sessions -> Stage]
      BY <1>4, <2>2 DEF Decide, To, Stage
    <3> QED
      BY <1>4, <2>2, <3>2, <3>3 DEF Decide
  <2>3. ASSUME NEW s \in Sessions, RevokeOldest(s) PROVE Handling'
    BY <1>4, <2>1, <2>3 DEF RevokeOldest, To, Stage
  <2>4. ASSUME NEW s \in Sessions, SignOut(s) PROVE Handling'
    BY <1>4, <2>1, <2>4 DEF SignOut
  <2>5. ASSUME NEW s \in Sessions, SignIn(s) \/ Seen(s) \/ Mark(s) \/ GiveUp(s) PROVE Handling'
    BY <1>4, <2>5 DEF SignIn, Seen, Mark, GiveUp, To, Stage
  <2>6. ASSUME NEW s \in Sessions, RevokeFails(s) \/ Send(s) \/ SendFails(s) PROVE Handling'
    BY <1>4, <2>6 DEF RevokeFails, Send, SendFails, To, Stage
  <2>7. ASSUME NEW s \in Sessions, Check(s) PROVE Handling'
    <3>1. stage' \in [Sessions -> Stage]
      BY <1>4, <2>7 DEF Check, To, Stage
    <3> QED
      BY <1>4, <2>7, <3>1 DEF Check
  <2>8. ASSUME WindowPasses PROVE Handling'
    BY <1>4, <2>8 DEF WindowPasses
  <2> QED
    BY <2>2, <2>3, <2>4, <2>5, <2>6, <2>7, <2>8 DEF DeviceNext, HandleSessionCreated
<1>6. Mails'
  <2>1. ASSUME NEW s \in Sessions, Check(s) PROVE Mails'
    <3>1. recent' = recent /\ mails' = mails
      BY <2>1 DEF Check
    <3>2. crowd' \in BOOLEAN
      BY <1>4, <2>1, Zenon DEF Check
    <3> QED
      BY <1>4, <3>1, <3>2
  <2>2. ASSUME NEW s \in Sessions, Send(s) PROVE Mails'
    BY <1>4, <2>2 DEF Send
  <2>3. ASSUME WindowPasses PROVE Mails'
    <3>1. mails' = 0
      BY <2>3 DEF WindowPasses
    <3>2. crowd' \in BOOLEAN /\ recent' \in BOOLEAN
      BY <1>4, <2>3, Zenon DEF WindowPasses
    <3> QED
      BY <3>1, <3>2
  <2>4. ASSUME UNCHANGED <<recent, mails, crowd>> PROVE Mails'
    BY <1>4, <2>4
  <2> QED
    BY <2>1, <2>2, <2>3, <2>4
       DEF DeviceNext, HandleSessionCreated, SignIn, Seen, SignOut, Mark, Decide, GiveUp,
           RevokeOldest, RevokeFails, SendFails
<1> QED
  BY <1>3, <1>5, <1>6 DEF DeviceTypeOK

\* One mail in a window uses its slot: until two handlings mail at once there is at
\* most one that was sent or is being sent.
MailInv ==
  /\ mails > 0 => recent
  /\ ~ crowd => /\ mails <= 1
                /\ \A s, t \in Sessions : stage[s] = "send" /\ stage[t] = "send" => s = t
                /\ mails > 0 => \A s \in Sessions : stage[s] # "send"

LEMMA MailStep ==
  ASSUME DeviceTypeOK, MailInv, [DeviceNext]_deviceVars
  PROVE  MailInv'
<1>1. stage \in [Sessions -> Stage] /\ mails \in Nat
  BY DEF DeviceTypeOK
<1>2. ASSUME NEW s \in Sessions, NEW next, To(s, next)
      PROVE  stage'[s] = next /\ \A t \in Sessions \ {s} : stage'[t] = stage[t]
  BY <1>1, <1>2 DEF To
<1>3. ASSUME NEW s \in Sessions, NEW next, next # "send", To(s, next),
             UNCHANGED <<recent, mails, crowd>>
      PROVE  MailInv'
  <2>1. \A t \in Sessions : stage'[t] = "send" => stage[t] = "send"
    BY <1>2, <1>3
  <2> QED
    BY <1>3, <2>1 DEF MailInv
<1>4. ASSUME NEW s \in Sessions, Check(s) PROVE MailInv'
  <2>1. recent' = recent /\ mails' = mails /\ To(s, IF recent THEN "over" ELSE "send")
    BY <1>4 DEF Check
  <2>2. crowd' <=> (crowd \/ (~ recent /\ \E t \in Sessions : stage[t] = "send"))
    BY <1>4, Zenon DEF Check
  <2>3. CASE recent
    <3>1. \A t \in Sessions : stage'[t] = "send" => stage[t] = "send"
      BY <1>2, <2>1, <2>3
    <3> QED
      BY <2>1, <2>2, <2>3, <3>1 DEF MailInv
  <2>4. CASE ~ recent
    <3>1. mails = 0
      BY <1>1, <2>4 DEF MailInv
    <3>2. \A t \in Sessions \ {s} : stage'[t] = stage[t]
      BY <1>2, <2>1, <2>4
    <3>3. ~ crowd' => \A t \in Sessions \ {s} : stage'[t] # "send"
      BY <2>2, <2>4, <3>2
    <3> QED
      BY <2>1, <3>1, <3>3 DEF MailInv
  <2> QED
    BY <2>3, <2>4
<1>5. ASSUME NEW s \in Sessions, Send(s) PROVE MailInv'
  <2>1. stage[s] = "send" /\ mails' = mails + 1 /\ To(s, "over") /\ crowd' = crowd
    BY <1>5 DEF Send
  <2>2. recent'
    BY <1>5, Zenon DEF Send
  <2>3. ~ crowd => mails = 0 /\ \A t \in Sessions \ {s} : stage[t] # "send"
    BY <1>1, <2>1 DEF MailInv
  <2>4. ~ crowd => \A t \in Sessions : stage'[t] # "send"
    BY <1>2, <2>1, <2>3
  <2> QED
    BY <1>1, <2>1, <2>2, <2>3, <2>4 DEF MailInv
<1>6. ASSUME WindowPasses PROVE MailInv'
  <2>1. mails' = 0 /\ stage' = stage
    BY <1>6 DEF WindowPasses
  <2>2. crowd' <=> \E s \in Sessions : stage[s] = "send"
    BY <1>6, Zenon DEF WindowPasses
  <2> QED
    BY <2>1, <2>2 DEF MailInv
<1>7. ASSUME UNCHANGED <<stage, recent, mails, crowd>> PROVE MailInv'
  BY <1>7 DEF MailInv
<1>8. ASSUME NEW s \in Sessions, Decide(s) PROVE MailInv'
  <2>1. UNCHANGED <<recent, mails, crowd>> /\ (To(s, "over") \/ To(s, "revoke") \/ To(s, "mail"))
    BY <1>8 DEF Decide
  <2> QED
    BY <1>3, <2>1
<1>9. ASSUME NEW s \in Sessions,
             \/ SignIn(s) \/ Mark(s) \/ GiveUp(s)
             \/ RevokeOldest(s) \/ RevokeFails(s) \/ SendFails(s)
      PROVE  MailInv'
  <2>1. /\ UNCHANGED <<recent, mails, crowd>>
        /\ To(s, "mark") \/ To(s, "list") \/ To(s, "over") \/ To(s, "mail")
    BY <1>9 DEF SignIn, Mark, GiveUp, RevokeOldest, RevokeFails, SendFails
  <2> QED
    BY <1>3, <2>1
<1> QED
  BY <1>4, <1>5, <1>6, <1>7, <1>8, <1>9
     DEF DeviceNext, HandleSessionCreated, Seen, SignOut, deviceVars

(***************************************************************************)
(* The handling of sign-ins keeps its two limits, the cap on a user's       *)
(* sessions and one mail per window, up to what overlap and failure         *)
(* explain: for any number of sign-ins and any cap.                         *)
(***************************************************************************)
THEOREM SignInsLimited == DeviceSpec => [](DeviceTypeOK /\ SignInsAreLimited)
<1> DEFINE Inv == DeviceTypeOK /\ RowsInv /\ CapIsKept /\ MailInv
<1>1. DeviceInit => Inv
  <2> SUFFICES ASSUME DeviceInit PROVE Inv
    OBVIOUS
  <2>1. recent \in BOOLEAN /\ crowd \in BOOLEAN
    BY Zenon DEF DeviceInit
  <2>2. /\ signedIn = <<>> /\ excused = {} /\ mails = 0
        /\ print = [s \in Sessions |-> Unmarked]
        /\ stage = [s \in Sessions |-> "none"]
        /\ victim = [s \in Sessions |-> Nobody]
    BY DEF DeviceInit
  <2>3. DeviceTypeOK
    BY <2>1, <2>2, EmptySeq DEF DeviceTypeOK, Stage
  <2>4. Rows = {} /\ Unsettled = {}
    BY <2>2 DEF Rows, Unsettled
  <2>5. CapIsKept
    BY <2>2, <2>4, FS_EmptySet, DeviceAssumption DEF CapIsKept
  <2>6. RowsInv
    BY <2>2, <2>4 DEF RowsInv, NoneTwice
  <2>7. MailInv
    BY <2>2 DEF MailInv
  <2> QED
    BY <2>3, <2>5, <2>6, <2>7
<1>2. Inv /\ [DeviceNext]_deviceVars => Inv'
  BY DeviceTypeStep, RowsStep, MailStep
<1>3. Inv => SignInsAreLimited
  BY DEF DeviceTypeOK, MailInv, SignInsAreLimited, MailsAreSpaced
<1> QED
  BY <1>1, <1>2, <1>3, PTL DEF DeviceSpec

-----------------------------------------------------------------------------
\* Variants: what the requests have in hand, as functions.
RequestsTyped ==
  /\ read \in [Readers -> {Resting} \cup Reading]
  /\ drop \in [Admins -> {Resting} \cup Dropping]

VariantsTyped == VariantTypeOK /\ RequestsTyped

\* A key names one of the sources.
LEMMA SourceOfKey == \A k \in VariantKeys : k[1] \in Sources
BY DEF VariantKeys

\* A request in hand is not one at rest.
LEMMA NotResting ==
  /\ \A r \in Reading : r # Resting /\ r.at \in {"hit", "origin", "put", "record"}
                        /\ r.key \in VariantKeys /\ r.version \in Version
  /\ \A d \in Dropping : d # Resting /\ d.at \in {"rows", "cascade", "list", "sweep"}
                         /\ d.source \in Sources /\ d.keys \subseteq VariantKeys
                         /\ d.since \in Int
  /\ Resting.at = "idle"
BY DEF Reading, Dropping, Resting

\* A request that is past its first step is one in hand.
LEMMA InHand ==
  ASSUME RequestsTyped
  PROVE  /\ \A q \in Readers : (read[q].at # "idle" \/ read[q] # Resting) => read[q] \in Reading
         /\ \A a \in Admins : (drop[a].at # "idle" \/ drop[a] # Resting) => drop[a] \in Dropping
BY NotResting DEF RequestsTyped

\* Renew() leaves every invalidation as it is, but for its history.
LEMMA RenewIs ==
  ASSUME VariantsTyped, NEW s \in Sources, Renew(s, drop)
  PROVE  /\ drop' \in [Admins -> {Resting} \cup Dropping]
         /\ passes' \in [Sources -> 0..2]
         /\ \A t \in Sources : passes'[t] = IF t = s THEN 0 ELSE passes[t]
         /\ \A a \in Admins :
              /\ drop'[a] = Resting <=> drop[a] = Resting
              /\ drop[a] # Resting =>
                   /\ drop'[a].at = drop[a].at
                   /\ drop'[a].source = drop[a].source
                   /\ drop'[a].keys = drop[a].keys
                   /\ drop'[a].since = IF drop[a].source = s THEN -1 ELSE drop[a].since
<1>1. /\ passes \in [Sources -> 0..2]
      /\ drop \in [Admins -> {Resting} \cup Dropping]
  BY DEF VariantsTyped, VariantTypeOK, RequestsTyped
<1>2. \A d \in Dropping :
        /\ [d EXCEPT !.since = -1] \in Dropping
        /\ [d EXCEPT !.since = -1].at = d.at
        /\ [d EXCEPT !.since = -1].source = d.source
        /\ [d EXCEPT !.since = -1].keys = d.keys
        /\ [d EXCEPT !.since = -1].since = -1
  BY DEF Dropping
<1>3. /\ passes' \in [Sources -> 0..2]
      /\ \A t \in Sources : passes'[t] = IF t = s THEN 0 ELSE passes[t]
  BY <1>1 DEF Renew
<1>4. ASSUME NEW a \in Admins
      PROVE  drop'[a] = IF drop[a] # Resting /\ drop[a].source = s
                        THEN [drop[a] EXCEPT !.since = -1] ELSE drop[a]
  BY DEF Renew
<1>5. DOMAIN drop' = Admins /\ drop' = [a \in Admins |-> drop'[a]]
  BY DEF Renew
<1>6. ASSUME NEW a \in Admins
      PROVE  /\ drop'[a] \in {Resting} \cup Dropping
             /\ drop'[a] = Resting <=> drop[a] = Resting
             /\ drop[a] # Resting =>
                  /\ drop'[a].at = drop[a].at
                  /\ drop'[a].source = drop[a].source
                  /\ drop'[a].keys = drop[a].keys
                  /\ drop'[a].since = IF drop[a].source = s THEN -1 ELSE drop[a].since
  <2>1. CASE drop[a] # Resting /\ drop[a].source = s
    BY <2>1, <1>1, <1>2, <1>4, NotResting, ZenonT(60)
  <2>2. CASE ~ (drop[a] # Resting /\ drop[a].source = s)
    BY <2>2, <1>1, <1>4
  <2> QED
    BY <2>1, <2>2
<1> QED
  BY <1>3, <1>5, <1>6

\* Every step of a delivery, of an invalidation and of their surroundings
\* keeps the types.
LEMMA VariantTypeStep ==
  ASSUME VariantsTyped, [VariantNext]_variantVars
  PROVE  VariantsTyped'
<1> USE VariantAssumption, SourceOfKey
<1>0. /\ origin \in [Sources -> 1..MaxVersion]
      /\ cache \in [VariantKeys -> Version]
      /\ index \in [VariantKeys -> {"none", "row", "old"}]
      /\ read \in [Readers -> {Resting} \cup Reading]
      /\ drop \in [Admins -> {Resting} \cup Dropping]
      /\ breaks \in 0..MaxBreaks
      /\ passes \in [Sources -> 0..2]
      /\ unlisted \subseteq VariantKeys
  BY DEF VariantsTyped, VariantTypeOK, RequestsTyped
<1> SUFFICES /\ origin' \in [Sources -> 1..MaxVersion]
             /\ cache' \in [VariantKeys -> Version]
             /\ index' \in [VariantKeys -> {"none", "row", "old"}]
             /\ read' \in [Readers -> {Resting} \cup Reading]
             /\ drop' \in [Admins -> {Resting} \cup Dropping]
             /\ breaks' \in 0..MaxBreaks
             /\ passes' \in [Sources -> 0..2]
             /\ unlisted' \subseteq VariantKeys
  BY DEF VariantsTyped, VariantTypeOK, RequestsTyped
<1>1. ASSUME NEW q \in Readers, NEW k \in VariantKeys, Deliver(q, k)
      PROVE  read' \in [Readers -> {Resting} \cup Reading]
  <2>1. [at |-> IF cache[k] # 0 THEN "hit" ELSE "origin", key |-> k, version |-> 0] \in Reading
    BY DEF Reading, Version
  <2> QED
    BY <1>0, <1>1, <2>1 DEF Deliver
<1>2. ASSUME NEW q \in Readers, Render(q)
      PROVE  read' \in [Readers -> {Resting} \cup Reading]
  <2>1. read[q] \in Reading
    BY <1>0, <1>2, NotResting DEF Render
  <2>2. origin[read[q].key[1]] \in Version
    BY <1>0, <2>1, NotResting DEF Version
  <2>3. read' = [read EXCEPT ![q] = [read[q] EXCEPT !.at = "put", !.version = origin[read[q].key[1]]]]
    BY <1>0, <1>2 DEF Render
  <2>4. [read[q] EXCEPT !.at = "put", !.version = origin[read[q].key[1]]] \in Reading
    BY <2>1, <2>2 DEF Reading
  <2> QED
    BY <1>0, <2>3, <2>4
<1>3. ASSUME NEW q \in Readers, PutVariant(q)
      PROVE  /\ read' \in [Readers -> {Resting} \cup Reading]
             /\ cache' \in [VariantKeys -> Version]
             /\ drop' \in [Admins -> {Resting} \cup Dropping]
             /\ passes' \in [Sources -> 0..2]
  <2>1. read[q] \in Reading
    BY <1>0, <1>3, NotResting DEF PutVariant
  <2>2. [read[q] EXCEPT !.at = "record"] \in Reading
    BY <2>1 DEF Reading
  <2>3. /\ read' \in [Readers -> {Resting} \cup Reading]
        /\ cache' \in [VariantKeys -> Version]
    BY <1>0, <1>3, <2>1, <2>2, NotResting DEF PutVariant
  <2>4. Renew(read[q].key[1], drop) \/ UNCHANGED <<drop, passes>>
    BY <1>3 DEF PutVariant
  <2> QED
    BY <1>0, <2>1, <2>3, <2>4, RenewIs, NotResting
<1>4. ASSUME NEW q \in Readers, Record(q)
      PROVE  /\ read' \in [Readers -> {Resting} \cup Reading]
             /\ index' \in [VariantKeys -> {"none", "row", "old"}]
             /\ drop' \in [Admins -> {Resting} \cup Dropping]
             /\ passes' \in [Sources -> 0..2]
             /\ unlisted' \subseteq VariantKeys
  <2>1. read[q] \in Reading
    BY <1>0, <1>4, NotResting DEF Record
  <2>2. drop' \in [Admins -> {Resting} \cup Dropping] /\ passes' \in [Sources -> 0..2]
    BY <1>4, <2>1, RenewIs, NotResting DEF Record
  <2> QED
    BY <1>0, <1>4, <2>1, <2>2, NotResting DEF Record, Recorded
<1>5. ASSUME NEW q \in Readers, BreakDelivery(q)
      PROVE  /\ read' \in [Readers -> {Resting} \cup Reading]
             /\ breaks' \in 0..MaxBreaks
             /\ unlisted' \subseteq VariantKeys
  <2>1. read[q] \in Reading
    BY <1>0, <1>5 DEF BreakDelivery
  <2> QED
    BY <1>0, <1>5, <2>1, NotResting DEF BreakDelivery, Cached
<1>6. ASSUME NEW q \in Readers, DeliverAsset(q)
      PROVE  /\ origin' \in [Sources -> 1..MaxVersion]
             /\ cache' \in [VariantKeys -> Version]
             /\ index' \in [VariantKeys -> {"none", "row", "old"}]
             /\ read' \in [Readers -> {Resting} \cup Reading]
             /\ drop' \in [Admins -> {Resting} \cup Dropping]
             /\ breaks' \in 0..MaxBreaks
             /\ passes' \in [Sources -> 0..2]
             /\ unlisted' \subseteq VariantKeys
  <2>1. ASSUME NEW k \in VariantKeys, Deliver(q, k)
        PROVE  UNCHANGED <<origin, cache, index, drop, breaks, passes, unlisted>>
    BY <2>1 DEF Deliver
  <2>2. ASSUME Hit(q)
        PROVE  /\ UNCHANGED <<origin, cache, index, drop, breaks, passes, unlisted>>
               /\ read' \in [Readers -> {Resting} \cup Reading]
    BY <1>0, <2>2 DEF Hit
  <2>3. ASSUME Render(q) PROVE UNCHANGED <<origin, cache, index, drop, breaks, passes, unlisted>>
    BY <2>3 DEF Render
  <2>4. ASSUME PutVariant(q) PROVE UNCHANGED <<origin, index, breaks, unlisted>>
    BY <2>4 DEF PutVariant
  <2>5. ASSUME Record(q) PROVE UNCHANGED <<origin, cache, breaks>>
    BY <2>5 DEF Record
  <2>6. ASSUME BreakDelivery(q) PROVE UNCHANGED <<origin, cache, index, drop, passes>>
    BY <2>6 DEF BreakDelivery
  <2> QED
    BY <1>0, <1>1, <1>2, <1>3, <1>4, <1>5, <1>6, <2>1, <2>2, <2>3, <2>4, <2>5, <2>6
       DEF DeliverAsset
<1>7. ASSUME NEW a \in Admins, NEW s \in Sources, FindRows(a, s)
      PROVE  /\ drop' \in [Admins -> {Resting} \cup Dropping]
             /\ UNCHANGED <<origin, cache, index, read, breaks, passes, unlisted>>
  <2>1. [at |-> IF RowsOf(s) = {} THEN "list" ELSE "rows", source |-> s,
         keys |-> RowsOf(s), since |-> passes[s]] \in Dropping
    BY <1>0 DEF Dropping, RowsOf
  <2> QED
    BY <1>0, <1>7, <2>1 DEF FindRows
<1>8. ASSUME NEW a \in Admins, drop[a] \in Dropping,
             NEW at \in {"cascade", "sweep"}, NEW K \in SUBSET VariantKeys
      PROVE  /\ [drop[a] EXCEPT !.at = at, !.keys = K] \in Dropping
             /\ [drop[a] EXCEPT !.at = at] \in Dropping
             /\ [drop[a] EXCEPT !.keys = K] \in Dropping
  BY <1>8 DEF Dropping
<1>9. ASSUME NEW a \in Admins, DeleteRows(a)
      PROVE  /\ index' \in [VariantKeys -> {"none", "row", "old"}]
             /\ drop' \in [Admins -> {Resting} \cup Dropping]
             /\ unlisted' \subseteq VariantKeys
             /\ UNCHANGED <<origin, cache, read, breaks, passes>>
  <2>1. drop[a] \in Dropping
    BY <1>0, <1>9, NotResting DEF DeleteRows
  <2>2. drop' = [drop EXCEPT ![a] = [drop[a] EXCEPT !.at = "cascade"]]
    BY <1>0, <1>9 DEF DeleteRows
  <2>3. drop' \in [Admins -> {Resting} \cup Dropping]
    BY <1>0, <2>1, <2>2, <1>8
  <2> QED
    BY <1>0, <1>9, <2>3 DEF DeleteRows, Cached, RowsOf
<1>10. ASSUME NEW a \in Admins, ListCache(a)
      PROVE  /\ drop' \in [Admins -> {Resting} \cup Dropping]
             /\ UNCHANGED <<origin, cache, index, read, breaks, passes, unlisted>>
  <2>1. drop[a] \in Dropping /\ Cached(VariantKeys) \in SUBSET VariantKeys
    BY <1>0, <1>10, NotResting DEF ListCache, Cached
  <2>2. drop' = [drop EXCEPT ![a] = [drop[a] EXCEPT !.at = "sweep", !.keys = Cached(VariantKeys)]]
    BY <1>0, <1>10 DEF ListCache
  <2>3. drop' \in [Admins -> {Resting} \cup Dropping]
    BY <1>0, <2>1, <2>2, <1>8
  <2> QED
    BY <1>10, <2>3 DEF ListCache
<1>11. ASSUME NEW a \in Admins, NEW k \in VariantKeys, DeleteBytes(a, k) \/ SkipBytes(a, k)
      PROVE  /\ cache' \in [VariantKeys -> Version]
             /\ drop' \in [Admins -> {Resting} \cup Dropping]
             /\ breaks' \in 0..MaxBreaks
             /\ unlisted' \subseteq VariantKeys
             /\ UNCHANGED <<origin, index, read, passes>>
  <2>1. drop[a] \in Dropping
    BY <1>0, <1>11, NotResting DEF DeleteBytes, SkipBytes
  <2>2. drop' = [drop EXCEPT ![a] = [drop[a] EXCEPT !.keys = drop[a].keys \ {k}]]
    BY <1>0, <1>11 DEF DeleteBytes, SkipBytes
  <2>3. drop' \in [Admins -> {Resting} \cup Dropping]
    BY <1>0, <2>1, <2>2, <1>8, NotResting
  <2> QED
    BY <1>0, <1>11, <2>3 DEF DeleteBytes, SkipBytes, Cached, Version
<1>12. ASSUME NEW a \in Admins, Answer(a)
      PROVE  /\ drop' \in [Admins -> {Resting} \cup Dropping]
             /\ passes' \in [Sources -> 0..2]
             /\ UNCHANGED <<origin, cache, index, read, breaks, unlisted>>
  <2>1. drop[a] \in Dropping
    BY <1>0, <1>12, NotResting DEF Answer
  <2>2. PICK s \in Sources, n \in Int : s = drop[a].source /\ n = drop[a].since + 1
    BY <2>1, NotResting
  <2>3. passes' = [passes EXCEPT ![s] = IF n > passes[s] /\ n <= 2 THEN n ELSE passes[s]]
    BY <1>12, <2>2 DEF Answer
  <2>4. (IF n > passes[s] /\ n <= 2 THEN n ELSE passes[s]) \in 0..2
    BY <1>0
  <2>5. passes' \in [Sources -> 0..2]
    BY <1>0, <2>3, <2>4
  <2> QED
    BY <1>0, <1>12, <2>5 DEF Answer
<1>13. ASSUME NEW a \in Admins, BreakInvalidation(a)
      PROVE  /\ drop' \in [Admins -> {Resting} \cup Dropping]
             /\ breaks' \in 0..MaxBreaks
             /\ unlisted' \subseteq VariantKeys
             /\ UNCHANGED <<origin, cache, index, read, passes>>
  <2>1. drop[a] \in Dropping
    BY <1>0, <1>13 DEF BreakInvalidation
  <2> QED
    BY <1>0, <1>13, <2>1, NotResting DEF BreakInvalidation, Cached
<1>14. ASSUME NEW k \in VariantKeys, EvictBytes(k) \/ Age(k)
      PROVE  /\ cache' \in [VariantKeys -> Version]
             /\ index' \in [VariantKeys -> {"none", "row", "old"}]
             /\ unlisted' \subseteq VariantKeys
             /\ UNCHANGED <<origin, read, drop, breaks, passes>>
  BY <1>0, <1>14 DEF EvictBytes, Age, Version
<1>15. ASSUME NEW s \in Sources, Rewrite(s)
      PROVE  /\ origin' \in [Sources -> 1..MaxVersion]
             /\ drop' \in [Admins -> {Resting} \cup Dropping]
             /\ passes' \in [Sources -> 0..2]
             /\ UNCHANGED <<cache, index, read, breaks, unlisted>>
  BY <1>0, <1>15, RenewIs DEF Rewrite
<1>16. ASSUME Prune
      PROVE  /\ index' \in [VariantKeys -> {"none", "row", "old"}]
             /\ unlisted' \subseteq VariantKeys
             /\ UNCHANGED <<origin, cache, read, drop, breaks, passes>>
  BY <1>0, <1>16 DEF Prune, Cached, Expired
<1>17. CASE UNCHANGED variantVars
  BY <1>0, <1>17 DEF variantVars
<1> QED
  BY <1>0, <1>6, <1>7, <1>9, <1>10, <1>11, <1>12, <1>13, <1>14, <1>15, <1>16, <1>17
     DEF VariantNext, Invalidate

(***************************************************************************)
(* Bytes in the cache have a row in the index, or have lost it, or a        *)
(* delivery is about to record them or an invalidation to delete them.      *)
(***************************************************************************)
Accounted(k) == index[k] # "none" \/ k \in unlisted \/ Recording(k) \/ Discarding(k)

IndexInv == \A k \in VariantKeys : cache[k] # 0 => Accounted(k)

\* A delivery or an invalidation that is not concerned with a key leaves the
\* others as they are.
LEMMA StillRecording ==
  ASSUME RequestsTyped, NEW q \in Readers, NEW k \in VariantKeys,
         \A x \in Readers \ {q} : read'[x] = read[x],
         read[q] # Resting => read[q].at # "record" \/ read[q].key # k,
         Recording(k)
  PROVE  Recording(k)'
BY DEF Recording, RequestsTyped

LEMMA StillDiscarding ==
  ASSUME RequestsTyped, NEW a \in Admins, NEW k \in VariantKeys,
         \A x \in Admins \ {a} : drop'[x] = drop[x],
         drop[a] # Resting => drop[a].at # "cascade" \/ k \notin drop[a].keys,
         Discarding(k)
  PROVE  Discarding(k)'
BY DEF Discarding, RequestsTyped

\* A renewal touches only the history.
LEMMA DiscardingRenewed ==
  ASSUME VariantsTyped, NEW s \in Sources, Renew(s, drop), NEW k \in VariantKeys, Discarding(k)
  PROVE  Discarding(k)'
BY RenewIs DEF Discarding

LEMMA IndexStep ==
  ASSUME VariantsTyped, IndexInv, [VariantNext]_variantVars
  PROVE  IndexInv'
<1> USE SourceOfKey
<1>0. /\ RequestsTyped
      /\ cache \in [VariantKeys -> Version]
      /\ index \in [VariantKeys -> {"none", "row", "old"}]
      /\ read \in [Readers -> {Resting} \cup Reading]
      /\ drop \in [Admins -> {Resting} \cup Dropping]
  BY DEF VariantsTyped, VariantTypeOK, RequestsTyped
<1>1. ASSUME NEW k \in VariantKeys, UNCHANGED read, Recording(k) PROVE Recording(k)'
  BY <1>1 DEF Recording
<1>2. ASSUME NEW k \in VariantKeys, UNCHANGED drop, Discarding(k) PROVE Discarding(k)'
  BY <1>2 DEF Discarding
\* Deliveries
<1>3. ASSUME NEW q \in Readers,
             read[q] = Resting \/ read[q].at # "record",
             \A x \in Readers \ {q} : read'[x] = read[x],
             UNCHANGED <<cache, index, drop, unlisted>>
      PROVE  IndexInv'
  <2> SUFFICES ASSUME NEW k \in VariantKeys, cache[k] # 0 PROVE Accounted(k)'
    BY <1>3 DEF IndexInv
  <2>1. Recording(k) => Recording(k)'
    BY <1>0, <1>3, StillRecording
  <2>2. Accounted(k)
    BY DEF IndexInv
  <2> QED
    BY <1>2, <1>3, <2>1, <2>2 DEF Accounted
<1>4. ASSUME NEW q \in Readers, NEW j \in VariantKeys, Deliver(q, j) PROVE IndexInv'
  <2>1. /\ read[q] = Resting /\ UNCHANGED <<cache, index, drop, unlisted>>
        /\ \A x \in Readers \ {q} : read'[x] = read[x]
    BY <1>0, <1>4 DEF Deliver
  <2> QED
    BY <1>3, <2>1
<1>5. ASSUME NEW q \in Readers, Hit(q) \/ Render(q) PROVE IndexInv'
  <2>1. /\ read[q].at # "record" /\ UNCHANGED <<cache, index, drop, unlisted>>
        /\ \A x \in Readers \ {q} : read'[x] = read[x]
    BY <1>0, <1>5 DEF Hit, Render
  <2> QED
    BY <1>3, <2>1
<1>6. ASSUME NEW q \in Readers, PutVariant(q) PROVE IndexInv'
  <2>1. PICK j \in VariantKeys : read[q].key = j /\ read[q] \in Reading /\ read[q].at = "put"
    BY <1>0, <1>6, InHand, NotResting DEF PutVariant
  <2>2. /\ UNCHANGED <<index, unlisted>>
        /\ cache' = [cache EXCEPT ![j] = read[q].version]
        /\ \A x \in Readers \ {q} : read'[x] = read[x]
        /\ read'[q] = [read[q] EXCEPT !.at = "record"]
        /\ Renew(j[1], drop) \/ UNCHANGED <<drop, passes>>
    BY <1>0, <1>6, <2>1 DEF PutVariant
  <2>3. read'[q].at = "record" /\ read'[q].key = j /\ read'[q] # Resting
    BY <2>1, <2>2, NotResting DEF Reading
  <2>4. Recording(j)'
    BY <2>3 DEF Recording
  <2>5. ASSUME NEW k \in VariantKeys, k # j, cache'[k] # 0 PROVE Accounted(k)'
    <3>1. cache[k] # 0 /\ index'[k] = index[k] /\ unlisted' = unlisted
      BY <1>0, <2>2, <2>5
    <3>2. Recording(k) => Recording(k)'
      BY <1>0, <2>1, <2>2, StillRecording
    <3>3. Discarding(k) => Discarding(k)'
      BY <1>2, <2>2, DiscardingRenewed
    <3> QED
      BY <3>1, <3>2, <3>3 DEF IndexInv, Accounted
  <2> QED
    BY <2>4, <2>5 DEF IndexInv, Accounted
<1>7. ASSUME NEW q \in Readers, Record(q) PROVE IndexInv'
  <2>1. PICK j \in VariantKeys : read[q].key = j /\ read[q] \in Reading
    BY <1>0, <1>7, InHand, NotResting DEF Record
  <2>2. /\ UNCHANGED cache
        /\ index' = [index EXCEPT ![j] = Recorded(j)]
        /\ unlisted' = unlisted \ {j}
        /\ \A x \in Readers \ {q} : read'[x] = read[x]
        /\ Renew(j[1], drop)
    BY <1>0, <1>7, <2>1 DEF Record
  <2>3. index'[j] # "none"
    BY <1>0, <2>2 DEF Recorded
  <2>4. ASSUME NEW k \in VariantKeys, k # j, cache'[k] # 0 PROVE Accounted(k)'
    <3>1. cache[k] # 0 /\ index'[k] = index[k] /\ (k \in unlisted => k \in unlisted')
      BY <1>0, <2>2, <2>4
    <3>2. Recording(k) => Recording(k)'
      BY <1>0, <2>1, <2>2, <2>4, StillRecording
    <3>3. Discarding(k) => Discarding(k)'
      BY <2>2, DiscardingRenewed
    <3> QED
      BY <3>1, <3>2, <3>3 DEF IndexInv, Accounted
  <2> QED
    BY <2>3, <2>4 DEF IndexInv, Accounted
<1>8. ASSUME NEW q \in Readers, BreakDelivery(q) PROVE IndexInv'
  <2>1. PICK j \in VariantKeys : read[q].key = j /\ read[q] \in Reading
    BY <1>0, <1>8, InHand, NotResting DEF BreakDelivery
  <2>2. /\ UNCHANGED <<cache, index, drop>>
        /\ unlisted' = IF read[q].at = "record" /\ index[j] = "none"
                       THEN unlisted \cup Cached({j}) ELSE unlisted
        /\ \A x \in Readers \ {q} : read'[x] = read[x]
    BY <1>0, <1>8, <2>1 DEF BreakDelivery
  <2> SUFFICES ASSUME NEW k \in VariantKeys, cache[k] # 0 PROVE Accounted(k)'
    BY <2>2 DEF IndexInv
  <2>3. Accounted(k)
    BY DEF IndexInv
  <2>4. CASE k = j /\ read[q].at = "record"
    BY <2>2, <2>4 DEF Accounted, Cached
  <2>5. CASE ~ (k = j /\ read[q].at = "record")
    <3>1. Recording(k) => Recording(k)'
      BY <1>0, <2>1, <2>2, <2>5, StillRecording
    <3> QED
      BY <1>2, <2>2, <2>3, <3>1 DEF Accounted
  <2> QED
    BY <2>4, <2>5
\* Invalidations
<1>9. ASSUME NEW a \in Admins,
             drop[a] = Resting \/ drop[a].at # "cascade" \/ drop[a].keys = {},
             \A x \in Admins \ {a} : drop'[x] = drop[x],
             UNCHANGED <<cache, index, read, unlisted>>
      PROVE  IndexInv'
  <2> SUFFICES ASSUME NEW k \in VariantKeys, cache[k] # 0 PROVE Accounted(k)'
    BY <1>9 DEF IndexInv
  <2>1. Discarding(k) => Discarding(k)'
    BY <1>0, <1>9, StillDiscarding
  <2>2. Accounted(k)
    BY DEF IndexInv
  <2> QED
    BY <1>1, <1>9, <2>1, <2>2 DEF Accounted
<1>10. ASSUME NEW a \in Admins, NEW s \in Sources, FindRows(a, s) PROVE IndexInv'
  <2>1. /\ drop[a] = Resting /\ UNCHANGED <<cache, index, read, unlisted>>
        /\ \A x \in Admins \ {a} : drop'[x] = drop[x]
    BY <1>0, <1>10 DEF FindRows
  <2> QED
    BY <1>9, <2>1
<1>11. ASSUME NEW a \in Admins, ListCache(a) \/ Answer(a) PROVE IndexInv'
  <2>1. /\ drop[a].at # "cascade" \/ drop[a].keys = {}
        /\ UNCHANGED <<cache, index, read, unlisted>>
        /\ \A x \in Admins \ {a} : drop'[x] = drop[x]
    BY <1>0, <1>11 DEF ListCache, Answer
  <2> QED
    BY <1>9, <2>1
<1>12. ASSUME NEW a \in Admins, DeleteRows(a) PROVE IndexInv'
  <2>1. PICK s \in Sources : drop[a].source = s /\ drop[a] \in Dropping /\ drop[a].at = "rows"
    BY <1>0, <1>12, InHand, NotResting DEF DeleteRows
  <2>2. /\ UNCHANGED <<cache, read>>
        /\ index' = [k \in VariantKeys |-> IF k \in RowsOf(s) THEN "none" ELSE index[k]]
        /\ unlisted' = unlisted \cup Cached(RowsOf(s) \ drop[a].keys)
        /\ \A x \in Admins \ {a} : drop'[x] = drop[x]
        /\ drop'[a] = [drop[a] EXCEPT !.at = "cascade"]
    BY <1>0, <1>12, <2>1 DEF DeleteRows
  <2>3. drop'[a].at = "cascade" /\ drop'[a].keys = drop[a].keys /\ drop'[a] # Resting
    BY <2>1, <2>2, NotResting DEF Dropping
  <2> SUFFICES ASSUME NEW k \in VariantKeys, cache[k] # 0 PROVE Accounted(k)'
    BY <2>2 DEF IndexInv
  <2>4. Accounted(k)
    BY DEF IndexInv
  <2>5. CASE k \in RowsOf(s) /\ k \in drop[a].keys
    BY <2>3, <2>5 DEF Accounted, Discarding
  <2>6. CASE k \in RowsOf(s) /\ k \notin drop[a].keys
    BY <2>2, <2>6 DEF Accounted, Cached
  <2>7. CASE k \notin RowsOf(s)
    <3>1. Discarding(k) => Discarding(k)'
      BY <1>0, <2>1, <2>2, StillDiscarding
    <3>2. index'[k] = index[k]
      BY <2>2, <2>7
    <3> QED
      BY <1>1, <2>2, <2>4, <3>1, <3>2 DEF Accounted
  <2> QED
    BY <2>5, <2>6, <2>7
<1>13. ASSUME NEW a \in Admins, NEW j \in VariantKeys, DeleteBytes(a, j) \/ SkipBytes(a, j)
       PROVE  IndexInv'
  <2>1. drop[a] \in Dropping
    BY <1>0, <1>13, InHand DEF DeleteBytes, SkipBytes
  <2>2. /\ UNCHANGED <<index, read>>
        /\ \A x \in Admins \ {a} : drop'[x] = drop[x]
        /\ drop'[a] = [drop[a] EXCEPT !.keys = drop[a].keys \ {j}]
        /\ cache'[j] = 0 \/ j \in unlisted'
        /\ \A k \in VariantKeys \ {j} :
             cache'[k] = cache[k] /\ (k \in unlisted => k \in unlisted')
    <3>1. CASE DeleteBytes(a, j)
      BY <1>0, <3>1 DEF DeleteBytes
    <3>2. CASE SkipBytes(a, j)
      BY <1>0, <3>2 DEF SkipBytes, Cached
    <3> QED
      BY <1>13, <3>1, <3>2
  <2>3. drop'[a].at = drop[a].at /\ drop'[a].keys = drop[a].keys \ {j} /\ drop'[a] # Resting
    BY <2>1, <2>2, NotResting DEF Dropping
  <2>4. ASSUME NEW k \in VariantKeys, k # j, cache'[k] # 0 PROVE Accounted(k)'
    <3>1. Accounted(k)
      BY <2>2, <2>4 DEF IndexInv
    <3>2. Discarding(k) => Discarding(k)'
      BY <2>2, <2>3, <2>4 DEF Discarding
    <3> QED
      BY <1>1, <2>2, <2>4, <3>1, <3>2 DEF Accounted
  <2> QED
    BY <2>2, <2>4 DEF IndexInv, Accounted
<1>14. ASSUME NEW a \in Admins, BreakInvalidation(a) PROVE IndexInv'
  <2>1. drop[a] \in Dropping
    BY <1>0, <1>14, InHand DEF BreakInvalidation
  <2>2. /\ UNCHANGED <<cache, index, read>>
        /\ \A x \in Admins \ {a} : drop'[x] = drop[x]
        /\ unlisted' = IF drop[a].at = "cascade" THEN unlisted \cup Cached(drop[a].keys)
                       ELSE unlisted
    BY <1>0, <1>14 DEF BreakInvalidation
  <2> SUFFICES ASSUME NEW k \in VariantKeys, cache[k] # 0 PROVE Accounted(k)'
    BY <2>2 DEF IndexInv
  <2>3. Accounted(k)
    BY DEF IndexInv
  <2>4. CASE drop[a].at = "cascade" /\ k \in drop[a].keys
    BY <2>2, <2>4 DEF Accounted, Cached
  <2>5. CASE ~ (drop[a].at = "cascade" /\ k \in drop[a].keys)
    <3>1. Discarding(k) => Discarding(k)'
      BY <1>0, <2>2, <2>5, StillDiscarding
    <3> QED
      BY <1>1, <2>2, <2>3, <3>1 DEF Accounted
  <2> QED
    BY <2>4, <2>5
\* The surroundings
<1>15. ASSUME NEW j \in VariantKeys, EvictBytes(j) PROVE IndexInv'
  <2>1. /\ UNCHANGED <<index, read, drop>>
        /\ cache' = [cache EXCEPT ![j] = 0]
        /\ unlisted' = unlisted \ {j}
    BY <1>15 DEF EvictBytes
  <2> SUFFICES ASSUME NEW k \in VariantKeys, cache'[k] # 0 PROVE Accounted(k)'
    BY DEF IndexInv
  <2>2. k # j /\ cache[k] # 0
    BY <1>0, <2>1
  <2>3. Accounted(k)
    BY <2>2 DEF IndexInv
  <2> QED
    BY <1>1, <1>2, <2>1, <2>2, <2>3 DEF Accounted
<1>16. ASSUME NEW j \in VariantKeys, Age(j) PROVE IndexInv'
  <2>1. /\ UNCHANGED <<cache, read, drop, unlisted>>
        /\ \A k \in VariantKeys : index[k] # "none" => index'[k] # "none"
    BY <1>0, <1>16 DEF Age
  <2> SUFFICES ASSUME NEW k \in VariantKeys, cache[k] # 0 PROVE Accounted(k)'
    BY <2>1 DEF IndexInv
  <2>2. Accounted(k)
    BY DEF IndexInv
  <2> QED
    BY <1>1, <1>2, <2>1, <2>2 DEF Accounted
<1>17. ASSUME NEW s \in Sources, Rewrite(s) PROVE IndexInv'
  <2>1. UNCHANGED <<cache, index, read, unlisted>> /\ Renew(s, drop)
    BY <1>17 DEF Rewrite
  <2> SUFFICES ASSUME NEW k \in VariantKeys, cache[k] # 0 PROVE Accounted(k)'
    BY <2>1 DEF IndexInv
  <2>2. Accounted(k)
    BY DEF IndexInv
  <2> QED
    BY <1>1, <2>1, <2>2, DiscardingRenewed DEF Accounted
<1>18. ASSUME Prune PROVE IndexInv'
  <2>1. /\ UNCHANGED <<cache, read, drop>>
        /\ index' = [k \in VariantKeys |-> IF k \in Expired THEN "none" ELSE index[k]]
        /\ unlisted' = unlisted \cup Cached(Expired)
    BY <1>18 DEF Prune
  <2> SUFFICES ASSUME NEW k \in VariantKeys, cache[k] # 0 PROVE Accounted(k)'
    BY <2>1 DEF IndexInv
  <2>2. Accounted(k)
    BY DEF IndexInv
  <2>3. k \in unlisted' \/ index'[k] = index[k]
    BY <2>1 DEF Cached
  <2> QED
    BY <1>1, <1>2, <2>1, <2>2, <2>3 DEF Accounted
<1>19. ASSUME UNCHANGED variantVars PROVE IndexInv'
  BY <1>19 DEF variantVars, IndexInv, Accounted, Recording, Discarding
<1> QED
  BY <1>4, <1>5, <1>6, <1>7, <1>8, <1>10, <1>11, <1>12, <1>13, <1>14, <1>15, <1>16, <1>17,
     <1>18, <1>19 DEF VariantNext, DeliverAsset, Invalidate

\* The index lists no variant of the source.
Bare(s) == \A k \in VariantKeys : k[1] = s => index[k] = "none"

(***************************************************************************)
(* What an undisturbed invalidation has achieved: once it is past the rows, *)
(* its source has none left; the second one after another finds none, so it *)
(* sweeps the cache and its list holds every outdated variant.              *)
(***************************************************************************)
PassAt(a) ==
  drop[a] # Resting /\ drop[a].since >= 0 =>
    /\ drop[a].at # "rows" => Bare(drop[a].source)
    /\ drop[a].since > 0 =>
         /\ drop[a].at \in {"list", "sweep"}
         /\ drop[a].at = "sweep" =>
              \A k \in VariantKeys : k[1] = drop[a].source /\ Stale(k) => k \in drop[a].keys

PassInv ==
  /\ \A a \in Admins : PassAt(a)
  /\ \A s \in Sources : passes[s] > 0 => Bare(s)
  /\ \A k \in VariantKeys : passes[k[1]] = 2 => ~ Stale(k)

(***************************************************************************)
(* Rows appear and variants get outdated only for sources whose passes      *)
(* begin anew with that step.                                               *)
(***************************************************************************)
LEMMA PassesRenewed ==
  ASSUME VariantsTyped, PassInv, NEW R \in SUBSET Sources,
         \A k \in VariantKeys : k[1] \notin R /\ index[k] = "none" => index'[k] = "none",
         \A k \in VariantKeys : k[1] \notin R /\ Stale(k)' => Stale(k),
         \A s \in Sources : passes'[s] = IF s \in R THEN 0 ELSE passes[s],
         \A a \in Admins :
           /\ drop'[a] = Resting <=> drop[a] = Resting
           /\ drop[a] # Resting =>
                /\ drop'[a].at = drop[a].at
                /\ drop'[a].source = drop[a].source
                /\ drop'[a].keys = drop[a].keys
                /\ drop'[a].since = IF drop[a].source \in R THEN -1 ELSE drop[a].since
  PROVE  PassInv'
<1>1. ASSUME NEW s \in Sources, s \notin R, Bare(s) PROVE Bare(s)'
  BY <1>1 DEF Bare
<1>2. ASSUME NEW a \in Admins PROVE PassAt(a)'
  <2> SUFFICES ASSUME drop'[a] # Resting, drop'[a].since >= 0
               PROVE  /\ drop'[a].at # "rows" => Bare(drop[a].source)'
                      /\ drop'[a].since > 0 =>
                           /\ drop'[a].at \in {"list", "sweep"}
                           /\ drop'[a].at = "sweep" =>
                                \A k \in VariantKeys :
                                  k[1] = drop'[a].source /\ Stale(k)' => k \in drop'[a].keys
    BY DEF PassAt
  <2>1. drop[a] \in Dropping
    BY DEF VariantsTyped, RequestsTyped
  <2>2. PICK s \in Sources : drop[a].source = s
    BY <2>1, NotResting
  <2>3. /\ s \notin R /\ drop'[a].source = s
        /\ drop'[a].at = drop[a].at /\ drop'[a].keys = drop[a].keys
        /\ drop'[a].since = drop[a].since
    BY <2>1, <2>2, NotResting
  <2>4. /\ drop[a].at # "rows" => Bare(s)
        /\ drop[a].since > 0 =>
             /\ drop[a].at \in {"list", "sweep"}
             /\ drop[a].at = "sweep" =>
                  \A k \in VariantKeys : k[1] = s /\ Stale(k) => k \in drop[a].keys
    BY <2>1, <2>2, <2>3, NotResting DEF PassInv, PassAt
  <2>5. drop'[a].at # "rows" => Bare(s)'
    BY <1>1, <2>3, <2>4
  <2>6. drop'[a].at # "rows" => Bare(drop[a].source)'
    BY <2>3, <2>5 DEF Bare
  <2> QED
    BY <2>3, <2>4, <2>6
<1>3. ASSUME NEW s \in Sources, passes'[s] > 0 PROVE Bare(s)'
  BY <1>1, <1>3 DEF PassInv
<1>4. ASSUME NEW k \in VariantKeys, passes'[k[1]] = 2 PROVE ~ Stale(k)'
  <2>1. k[1] \in Sources \ R /\ passes[k[1]] = 2
    BY <1>4, SourceOfKey
  <2> QED
    BY <2>1 DEF PassInv
<1> QED
  BY <1>2, <1>3, <1>4 DEF PassInv

\* An invalidation goes on: rows go, variants do not get outdated.
LEMMA PassesMoved ==
  ASSUME VariantsTyped, PassInv, NEW a \in Admins,
         \A k \in VariantKeys : index[k] = "none" => index'[k] = "none",
         \A k \in VariantKeys : Stale(k)' => Stale(k),
         \A x \in Admins \ {a} : drop'[x] = drop[x],
         PassAt(a)'
  PROVE  /\ \A x \in Admins : PassAt(x)'
         /\ passes' = passes => PassInv'
<1>1. ASSUME NEW s \in Sources, Bare(s) PROVE Bare(s)'
  BY <1>1 DEF Bare
<1>2. ASSUME NEW x \in Admins, x # a PROVE PassAt(x)'
  <2> SUFFICES ASSUME drop[x] # Resting, drop[x].since >= 0
               PROVE  /\ drop[x].at # "rows" => Bare(drop[x].source)'
                      /\ drop[x].since > 0 =>
                           /\ drop[x].at \in {"list", "sweep"}
                           /\ drop[x].at = "sweep" =>
                                \A k \in VariantKeys :
                                  k[1] = drop[x].source /\ Stale(k)' => k \in drop[x].keys
    BY <1>2 DEF PassAt
  <2>1. drop[x] \in Dropping
    BY DEF VariantsTyped, RequestsTyped
  <2>2. PICK s \in Sources : drop[x].source = s
    BY <2>1, NotResting
  <2>3. drop'[x].source = s
    BY <1>2, <2>2
  <2>4. /\ drop[x].at # "rows" => Bare(s)
        /\ drop[x].since > 0 =>
             /\ drop[x].at \in {"list", "sweep"}
             /\ drop[x].at = "sweep" =>
                  \A k \in VariantKeys : k[1] = s /\ Stale(k) => k \in drop[x].keys
    BY <2>2 DEF PassInv, PassAt
  <2>5. drop[x].at # "rows" => Bare(s)'
    BY <1>1, <2>4
  <2>6. drop[x].at # "rows" => Bare(drop[x].source)'
    BY <2>3, <2>5 DEF Bare
  <2> QED
    BY <2>2, <2>4, <2>6
<1>3. \A x \in Admins : PassAt(x)'
  BY <1>2
<1>4. ASSUME passes' = passes PROVE PassInv'
  <2>1. \A s \in Sources : passes'[s] > 0 => Bare(s)'
    BY <1>1, <1>4 DEF PassInv
  <2>2. \A k \in VariantKeys : passes'[k[1]] = 2 => ~ Stale(k)'
    BY <1>4 DEF PassInv
  <2> QED
    BY <1>3, <2>1, <2>2 DEF PassInv
<1> QED
  BY <1>3, <1>4

LEMMA PassStep ==
  ASSUME VariantsTyped, PassInv, [VariantNext]_variantVars
  PROVE  PassInv'
<1> USE SourceOfKey
<1>0. /\ RequestsTyped
      /\ origin \in [Sources -> 1..MaxVersion]
      /\ cache \in [VariantKeys -> Version]
      /\ index \in [VariantKeys -> {"none", "row", "old"}]
      /\ read \in [Readers -> {Resting} \cup Reading]
      /\ drop \in [Admins -> {Resting} \cup Dropping]
      /\ passes \in [Sources -> 0..2]
  BY DEF VariantsTyped, VariantTypeOK, RequestsTyped
<1>1. ASSUME UNCHANGED <<drop, passes>>,
             \A k \in VariantKeys : index[k] = "none" => index'[k] = "none",
             \A k \in VariantKeys : Stale(k)' => Stale(k)
      PROVE  PassInv'
  <2>0. PICK R \in SUBSET Sources : R = {}
    OBVIOUS
  <2>1. \A s \in Sources : passes'[s] = IF s \in R THEN 0 ELSE passes[s]
    BY <1>1, <2>0
  <2>2. \A a \in Admins :
          /\ drop'[a] = Resting <=> drop[a] = Resting
          /\ drop[a] # Resting =>
               /\ drop'[a].at = drop[a].at
               /\ drop'[a].source = drop[a].source
               /\ drop'[a].keys = drop[a].keys
               /\ drop'[a].since = IF drop[a].source \in R THEN -1 ELSE drop[a].since
    BY <1>1, <2>0
  <2>3. \A k \in VariantKeys : k[1] \notin R /\ index[k] = "none" => index'[k] = "none"
    BY <1>1
  <2>4. \A k \in VariantKeys : k[1] \notin R /\ Stale(k)' => Stale(k)
    BY <1>1
  <2> QED
    BY <1>1, <2>1, <2>2, <2>3, <2>4, PassesRenewed
<1>2. ASSUME NEW s \in Sources, Renew(s, drop),
             \A k \in VariantKeys : k[1] # s /\ index[k] = "none" => index'[k] = "none",
             \A k \in VariantKeys : k[1] # s /\ Stale(k)' => Stale(k)
      PROVE  PassInv'
  <2>1. \A t \in Sources : passes'[t] = IF t \in {s} THEN 0 ELSE passes[t]
    BY <1>2, RenewIs
  <2>2. \A a \in Admins :
          /\ drop'[a] = Resting <=> drop[a] = Resting
          /\ drop[a] # Resting =>
               /\ drop'[a].at = drop[a].at
               /\ drop'[a].source = drop[a].source
               /\ drop'[a].keys = drop[a].keys
               /\ drop'[a].since = IF drop[a].source \in {s} THEN -1 ELSE drop[a].since
    BY <1>2, RenewIs
  <2>3. \A k \in VariantKeys : k[1] \notin {s} /\ index[k] = "none" => index'[k] = "none"
    BY <1>2
  <2>4. \A k \in VariantKeys : k[1] \notin {s} /\ Stale(k)' => Stale(k)
    BY <1>2
  <2> QED
    BY <2>1, <2>2, <2>3, <2>4, PassesRenewed
<1>3. ASSUME UNCHANGED <<origin, cache>> PROVE \A k \in VariantKeys : Stale(k)' <=> Stale(k)
  BY <1>3 DEF Stale
\* Deliveries
<1>4. ASSUME UNCHANGED <<origin, cache, index, drop, passes>> PROVE PassInv'
  BY <1>1, <1>3, <1>4
<1>5. ASSUME NEW q \in Readers, PutVariant(q) PROVE PassInv'
  <2>1. PICK j \in VariantKeys : read[q].key = j /\ read[q] \in Reading
    BY <1>0, <1>5, InHand, NotResting DEF PutVariant
  <2>2. /\ UNCHANGED <<origin, index>>
        /\ cache' = [cache EXCEPT ![j] = read[q].version]
        /\ IF read[q].version < origin[j[1]] THEN Renew(j[1], drop) ELSE UNCHANGED <<drop, passes>>
    BY <1>0, <1>5, <2>1 DEF PutVariant
  <2>3. \A k \in VariantKeys : k # j /\ Stale(k)' => Stale(k)
    BY <1>0, <2>2 DEF Stale
  <2>4. CASE read[q].version < origin[j[1]]
    <3>1. \A k \in VariantKeys : k[1] # j[1] /\ Stale(k)' => Stale(k)
      BY <2>3
    <3> QED
      BY <1>2, <2>2, <2>4, <3>1
  <2>5. CASE ~ (read[q].version < origin[j[1]])
    <3>1. ~ Stale(j)'
      BY <1>0, <2>2, <2>5 DEF Stale
    <3> QED
      BY <1>1, <2>2, <2>3, <2>5, <3>1
  <2> QED
    BY <2>4, <2>5
<1>6. ASSUME NEW q \in Readers, Record(q) PROVE PassInv'
  <2>1. PICK j \in VariantKeys : read[q].key = j
    BY <1>0, <1>6, InHand, NotResting DEF Record
  <2>2. /\ UNCHANGED <<origin, cache>>
        /\ index' = [index EXCEPT ![j] = Recorded(j)]
        /\ Renew(j[1], drop)
    BY <1>6, <2>1 DEF Record
  <2>3. \A k \in VariantKeys : k[1] # j[1] /\ index[k] = "none" => index'[k] = "none"
    BY <1>0, <2>2
  <2> QED
    BY <1>2, <1>3, <2>2, <2>3
\* Invalidations
<1>7. ASSUME NEW a \in Admins, UNCHANGED <<origin, cache, index>>,
             \A x \in Admins \ {a} : drop'[x] = drop[x],
             PassAt(a)'
      PROVE  /\ \A x \in Admins : PassAt(x)'
             /\ passes' = passes => PassInv'
  BY <1>3, <1>7, PassesMoved
<1>8. ASSUME NEW a \in Admins, NEW s \in Sources, FindRows(a, s) PROVE PassInv'
  <2>1. /\ UNCHANGED <<origin, cache, index, passes>>
        /\ \A x \in Admins \ {a} : drop'[x] = drop[x]
        /\ drop'[a].at = IF RowsOf(s) = {} THEN "list" ELSE "rows"
        /\ drop'[a].source = s /\ drop'[a].since = passes[s]
    BY <1>0, <1>8 DEF FindRows
  <2>2. Bare(s) <=> RowsOf(s) = {}
    BY <1>0 DEF Bare, RowsOf
  <2>3. Bare(s)' <=> Bare(s)
    BY <2>1 DEF Bare
  <2>4. passes[s] > 0 => Bare(s)
    BY DEF PassInv
  <2>5. Bare(drop[a].source)' <=> Bare(s)
    BY <2>1, <2>3 DEF Bare
  <2>6. PassAt(a)'
    BY <2>1, <2>2, <2>4, <2>5 DEF PassAt
  <2> QED
    BY <1>7, <2>1, <2>6
<1>9. ASSUME NEW a \in Admins, DeleteRows(a) PROVE PassInv'
  <2>1. PICK s \in Sources : drop[a].source = s /\ drop[a] \in Dropping /\ drop[a].at = "rows"
    BY <1>0, <1>9, InHand, NotResting DEF DeleteRows
  <2>2. /\ UNCHANGED <<origin, cache, passes>>
        /\ index' = [k \in VariantKeys |-> IF k \in RowsOf(s) THEN "none" ELSE index[k]]
        /\ \A x \in Admins \ {a} : drop'[x] = drop[x]
        /\ drop'[a] = [drop[a] EXCEPT !.at = "cascade"]
    BY <1>0, <1>9, <2>1 DEF DeleteRows
  <2>3. drop'[a].source = s /\ drop'[a].since = drop[a].since
    BY <2>1, <2>2 DEF Dropping
  <2>4. Bare(s)'
    BY <1>0, <2>2 DEF Bare, RowsOf
  <2>5. Bare(drop[a].source)'
    BY <2>3, <2>4 DEF Bare
  <2>6. ~ (drop[a].since > 0)
    BY <2>1, NotResting DEF PassInv, PassAt
  <2>7. PassAt(a)'
    BY <2>3, <2>5, <2>6 DEF PassAt
  <2>8. \A k \in VariantKeys : index[k] = "none" => index'[k] = "none"
    BY <2>2
  <2> QED
    BY <1>3, <2>2, <2>7, <2>8, PassesMoved
<1>10. ASSUME NEW a \in Admins, ListCache(a) PROVE PassInv'
  <2>1. PICK s \in Sources : drop[a].source = s /\ drop[a] \in Dropping /\ drop[a].at = "list"
    BY <1>0, <1>10, InHand, NotResting DEF ListCache
  <2>2. /\ UNCHANGED <<origin, cache, index, passes>>
        /\ \A x \in Admins \ {a} : drop'[x] = drop[x]
        /\ drop'[a] = [drop[a] EXCEPT !.at = "sweep", !.keys = Cached(VariantKeys)]
    BY <1>0, <1>10, <2>1 DEF ListCache
  <2>3. /\ drop'[a].source = s /\ drop'[a].since = drop[a].since
        /\ drop'[a].at = "sweep" /\ drop'[a].keys = Cached(VariantKeys)
    BY <2>1, <2>2 DEF Dropping
  <2>4. drop[a].since >= 0 => Bare(s)
    BY <2>1, NotResting DEF PassInv, PassAt
  <2>5. Bare(drop[a].source)' <=> Bare(s)
    BY <2>2, <2>3 DEF Bare
  <2>6. \A k \in VariantKeys : Stale(k)' => k \in Cached(VariantKeys)
    BY <2>2 DEF Stale, Cached
  <2>7. PassAt(a)'
    BY <2>3, <2>4, <2>5, <2>6 DEF PassAt
  <2> QED
    BY <1>7, <2>2, <2>7
<1>11. ASSUME NEW a \in Admins, NEW j \in VariantKeys, DeleteBytes(a, j) \/ SkipBytes(a, j)
       PROVE  PassInv'
  <2>1. PICK s \in Sources : drop[a].source = s /\ drop[a] \in Dropping
    BY <1>0, <1>11, InHand, NotResting DEF DeleteBytes, SkipBytes
  <2>2. /\ UNCHANGED <<origin, index, passes>>
        /\ \A x \in Admins \ {a} : drop'[x] = drop[x]
        /\ drop'[a] = [drop[a] EXCEPT !.keys = drop[a].keys \ {j}]
    BY <1>0, <1>11 DEF DeleteBytes, SkipBytes
  <2>3. /\ \A k \in VariantKeys \ {j} : cache'[k] = cache[k]
        /\ cache'[j] = 0 \/ (cache' = cache /\ drop[a].at = "cascade")
    <3>1. CASE DeleteBytes(a, j)
      BY <1>0, <3>1 DEF DeleteBytes
    <3>2. CASE SkipBytes(a, j)
      BY <3>2 DEF SkipBytes
    <3> QED
      BY <1>11, <3>1, <3>2
  <2>4. /\ drop'[a].source = s /\ drop'[a].since = drop[a].since
        /\ drop'[a].at = drop[a].at /\ drop'[a].keys = drop[a].keys \ {j}
    BY <2>1, <2>2 DEF Dropping
  <2>5. \A k \in VariantKeys : Stale(k)' => Stale(k)
    BY <2>2, <2>3 DEF Stale
  <2>6. drop[a].at = "sweep" => ~ Stale(j)'
    BY <2>3 DEF Stale
  <2>7. Bare(drop[a].source)' <=> Bare(s)
    BY <2>2, <2>4 DEF Bare
  <2>8. drop[a].since >= 0 =>
          /\ drop[a].at # "rows" => Bare(s)
          /\ drop[a].since > 0 =>
               /\ drop[a].at \in {"list", "sweep"}
               /\ drop[a].at = "sweep" =>
                    \A k \in VariantKeys : k[1] = s /\ Stale(k) => k \in drop[a].keys
    BY <2>1, NotResting DEF PassInv, PassAt
  <2>9. PassAt(a)'
    BY <2>4, <2>5, <2>6, <2>7, <2>8 DEF PassAt
  <2>10. \A k \in VariantKeys : index[k] = "none" => index'[k] = "none"
    BY <2>2
  <2> QED
    BY <2>2, <2>5, <2>9, <2>10, PassesMoved
<1>12. ASSUME NEW a \in Admins, BreakInvalidation(a) PROVE PassInv'
  <2>1. /\ UNCHANGED <<origin, cache, index, passes>>
        /\ \A x \in Admins \ {a} : drop'[x] = drop[x]
        /\ drop'[a] = Resting
    BY <1>0, <1>12 DEF BreakInvalidation
  <2>2. PassAt(a)'
    BY <2>1 DEF PassAt
  <2> QED
    BY <1>7, <2>1, <2>2
<1>13. ASSUME NEW a \in Admins, Answer(a) PROVE PassInv'
  <2>1. PICK s \in Sources, n \in Int :
          drop[a].source = s /\ drop[a].since = n /\ drop[a] \in Dropping
    BY <1>0, <1>13, InHand, NotResting DEF Answer
  <2>2. /\ UNCHANGED <<origin, cache, index>>
        /\ \A x \in Admins \ {a} : drop'[x] = drop[x]
        /\ drop'[a] = Resting
        /\ passes' = [passes EXCEPT ![s] = IF n + 1 > @ /\ n + 1 <= 2 THEN n + 1 ELSE @]
        /\ drop[a].at \in {"cascade", "sweep"} /\ drop[a].keys = {}
    BY <1>0, <1>13, <2>1 DEF Answer
  <2>3. PassAt(a)'
    BY <2>2 DEF PassAt
  <2>4. \A x \in Admins : PassAt(x)'
    BY <1>7, <2>2, <2>3
  <2>5. n >= 0 =>
          /\ Bare(s)
          /\ n > 0 => \A k \in VariantKeys : k[1] = s => ~ Stale(k)
    BY <2>1, <2>2, NotResting DEF PassInv, PassAt
  <2>6. \A t \in Sources : passes'[t] = IF t = s /\ n + 1 > passes[s] /\ n + 1 <= 2
                                        THEN n + 1 ELSE passes[t]
    BY <1>0, <2>2
  <2>7. ASSUME NEW t \in Sources, passes'[t] > 0 PROVE Bare(t)'
    <3>1. Bare(t)
      <4>1. CASE t = s /\ n + 1 > passes[s] /\ n + 1 <= 2
        BY <2>5, <2>6, <2>7, <4>1
      <4>2. CASE ~ (t = s /\ n + 1 > passes[s] /\ n + 1 <= 2)
        BY <2>6, <2>7, <4>2 DEF PassInv
      <4> QED
        BY <4>1, <4>2
    <3> QED
      BY <2>2, <3>1 DEF Bare
  <2>8. ASSUME NEW k \in VariantKeys, passes'[k[1]] = 2 PROVE ~ Stale(k)'
    <3>1. ~ Stale(k)
      <4>1. CASE k[1] = s /\ n + 1 > passes[s] /\ n + 1 <= 2
        BY <2>5, <2>6, <2>8, <4>1
      <4>2. CASE ~ (k[1] = s /\ n + 1 > passes[s] /\ n + 1 <= 2)
        BY <2>6, <2>8, <4>2 DEF PassInv
      <4> QED
        BY <4>1, <4>2
    <3> QED
      BY <1>3, <2>2, <3>1
  <2> QED
    BY <2>4, <2>7, <2>8 DEF PassInv
\* The surroundings
<1>14. ASSUME NEW j \in VariantKeys, EvictBytes(j) PROVE PassInv'
  <2>1. /\ UNCHANGED <<origin, index, drop, passes>>
        /\ cache' = [cache EXCEPT ![j] = 0]
    BY <1>14 DEF EvictBytes
  <2>2. \A k \in VariantKeys : Stale(k)' => Stale(k)
    BY <1>0, <2>1 DEF Stale
  <2> QED
    BY <1>1, <2>1, <2>2
<1>15. ASSUME NEW j \in VariantKeys, Age(j) PROVE PassInv'
  <2>1. /\ UNCHANGED <<origin, cache, drop, passes>>
        /\ \A k \in VariantKeys : index[k] = "none" => index'[k] = "none"
    BY <1>0, <1>15 DEF Age
  <2> QED
    BY <1>1, <1>3, <2>1
<1>16. ASSUME NEW s \in Sources, Rewrite(s) PROVE PassInv'
  <2>1. /\ UNCHANGED <<cache, index>> /\ Renew(s, drop)
        /\ \A t \in Sources \ {s} : origin'[t] = origin[t]
    BY <1>0, <1>16 DEF Rewrite
  <2>2. \A k \in VariantKeys : k[1] # s /\ Stale(k)' => Stale(k)
    BY <2>1 DEF Stale
  <2> QED
    BY <1>2, <2>1, <2>2
<1>17. ASSUME Prune PROVE PassInv'
  <2>1. /\ UNCHANGED <<origin, cache, drop, passes>>
        /\ \A k \in VariantKeys : index[k] = "none" => index'[k] = "none"
    BY <1>17 DEF Prune
  <2> QED
    BY <1>1, <1>3, <2>1
<1>18. ASSUME NEW q \in Readers, Hit(q) \/ Render(q) \/ BreakDelivery(q) PROVE PassInv'
  BY <1>4, <1>18 DEF Hit, Render, BreakDelivery
<1>19. ASSUME NEW q \in Readers, NEW k \in VariantKeys, Deliver(q, k) PROVE PassInv'
  BY <1>4, <1>19 DEF Deliver
<1>20. ASSUME UNCHANGED variantVars PROVE PassInv'
  BY <1>4, <1>20 DEF variantVars
<1> QED
  BY <1>5, <1>6, <1>8, <1>9, <1>10, <1>11, <1>12, <1>13, <1>14, <1>15, <1>16, <1>17, <1>18,
     <1>19, <1>20 DEF VariantNext, DeliverAsset, Invalidate

(***************************************************************************)
(* Invalidation gets rid of the outdated variants that are in the cache:    *)
(* one pass of what the index lists, two in a row of everything, for any    *)
(* number of variants, deliveries and invalidations and whatever the index  *)
(* has lost.  A delivery that puts outdated bytes later starts the count    *)
(* again.                                                                   *)
(***************************************************************************)
THEOREM InvalidationClears == VariantSpec => [](VariantTypeOK /\ PassesClear)
<1> DEFINE Inv == VariantsTyped /\ IndexInv /\ PassInv
<1>1. VariantInit => Inv
  <2> SUFFICES ASSUME VariantInit PROVE Inv
    OBVIOUS
  <2>1. /\ origin = [s \in Sources |-> 1] /\ cache = [k \in VariantKeys |-> 0]
        /\ index = [k \in VariantKeys |-> "none"] /\ read = [q \in Readers |-> Resting]
        /\ drop = [a \in Admins |-> Resting] /\ breaks = 0
        /\ passes = [s \in Sources |-> 0] /\ unlisted = {}
    BY DEF VariantInit
  <2>2. VariantsTyped
    BY <2>1, VariantAssumption DEF VariantsTyped, VariantTypeOK, RequestsTyped, Version
  <2>3. IndexInv
    BY <2>1 DEF IndexInv
  <2>4. PassInv
    BY <2>1, SourceOfKey DEF PassInv, PassAt, Stale
  <2> QED
    BY <2>2, <2>3, <2>4
<1>2. Inv /\ [VariantNext]_variantVars => Inv'
  BY VariantTypeStep, IndexStep, PassStep
<1>3. Inv => VariantTypeOK /\ PassesClear
  <2> SUFFICES ASSUME Inv, NEW k \in VariantKeys
               PROVE  /\ passes[k[1]] = 1 /\ Stale(k)
                           => k \in unlisted \/ Recording(k) \/ Discarding(k)
                      /\ passes[k[1]] = 2 => ~ Stale(k)
    BY DEF VariantsTyped, PassesClear
  <2>1. passes[k[1]] > 0 => index[k] = "none"
    BY SourceOfKey DEF PassInv, Bare
  <2>2. Stale(k) => index[k] # "none" \/ k \in unlisted \/ Recording(k) \/ Discarding(k)
    BY DEF IndexInv, Accounted, Stale
  <2> QED
    BY <2>1, <2>2 DEF PassInv
<1> QED
  BY <1>1, <1>2, <1>3, PTL DEF VariantSpec

-----------------------------------------------------------------------------
\* Multiplication and division with an arbitrary length of the day.
LEMMA Products ==
  ASSUME NEW a \in Int, NEW b \in Int, NEW n \in Nat
  PROVE  /\ a * n \in Int
         /\ a <= b => a * n <= b * n
         /\ (a + 1) * n = a * n + n
         /\ (a - b) * n = a * n - b * n
<1>1. a <= b => a * n <= b * n
  <2> SUFFICES ASSUME a <= b PROVE a * n <= b * n
    OBVIOUS
  <2>1. b * n = a * n + (b - a) * n
    OBVIOUS
  <2>2. (b - a) * n >= 0
    <3>1. PICK c \in Nat : c = b - a
      OBVIOUS
    <3>2. c * n >= 0
      BY SMTT(30)
    <3> QED
      BY <3>1, <3>2
  <2> QED
    BY <2>1, <2>2
<1> QED
  BY <1>1

LEMMA Division ==
  ASSUME NEW a \in Int, NEW n \in Nat \ {0}
  PROVE  /\ a \div n \in Int
         /\ a % n \in 0..n - 1
         /\ a = (a \div n) * n + (a % n)
OBVIOUS

-----------------------------------------------------------------------------
\* Notices: what the jobs have in hand, as a function; a text is stored once.
NoticesTyped ==
  /\ NoticeTypeOK
  /\ notice \in [Servers -> {Off} \cup Notification]
  /\ sent \in [0..Warn -> 0..1]

\* What DayBucket() is for a text.
Bucket(d) == (Expiry - d * Length) \div Length

(***************************************************************************)
(* A text that was stored has its idempotency key in the outbox; and the    *)
(* days of a planned text do not reach back before the first day.           *)
(***************************************************************************)
TextInv ==
  /\ \A d \in 0..Warn : sent[d] = 1 => Bucket(d) \in outbox
  /\ \A s \in Servers :
       notice[s] # Off /\ notice[s].at # "plan" => notice[s].days * Length <= Expiry

LEMMA NotOff ==
  /\ Off.at = "off"
  /\ \A n \in Notification :
       /\ n # Off /\ n.at \in {"plan", "send", "mark"} /\ n.last \in 0..LastTime \cup {Never}
       /\ n.days \in 0..Warn /\ n.now \in 0..LastTime
BY DEF Off, Notification

\* The days left of a notice that is due.
LEMMA DaysAre ==
  ASSUME time \in 0..LastTime, Expiry > time, Expiry <= time + Warn * Length
  PROVE  DaysLeft \in 0..Warn /\ DaysLeft * Length <= Expiry
<1> USE NoticeAssumption
<1>1. PICK a \in Nat : a = Expiry - time /\ a > 0 /\ a <= Expiry
  BY DEF LastTime
<1>2. PICK q \in Int, r \in 0..Length - 1 : q = DaysLeft /\ a = q * Length + r
  <2>1. /\ a \div Length \in Int
        /\ a % Length \in 0..Length - 1
        /\ a = (a \div Length) * Length + (a % Length)
    BY Division
  <2>2. DaysLeft = a \div Length
    BY <1>1 DEF DaysLeft
  <2> QED
    BY <2>1, <2>2
<1>3. q * Length \in Int /\ Warn * Length \in Int
  BY Products
<1>4. a <= Warn * Length
  BY <1>1, <1>3 DEF LastTime
<1>5. q <= Warn
  <2> SUFFICES ASSUME Warn + 1 <= q PROVE FALSE
    OBVIOUS
  <2>1. (Warn + 1) * Length <= q * Length /\ (Warn + 1) * Length = Warn * Length + Length
    BY Products
  <2> QED
    BY <1>2, <1>3, <1>4, <2>1
<1>6. q >= 0
  <2> SUFFICES ASSUME q <= -1 PROVE FALSE
    OBVIOUS
  <2>1. q * Length <= -1 * Length
    BY Products
  <2>2. -1 * Length = -Length
    OBVIOUS
  <2> QED
    BY <1>1, <1>2, <1>3, <2>1, <2>2
<1> QED
  BY <1>1, <1>2, <1>3, <1>5, <1>6

\* The idempotency key of a planned text is a day.
LEMMA BucketIsDay ==
  ASSUME NEW d \in 0..Warn, d * Length <= Expiry
  PROVE  Bucket(d) \in Nat
<1> USE NoticeAssumption
<1>1. d * Length \in Int
  BY Products
<1>2. PICK a \in Nat : a = Expiry - d * Length
  BY <1>1
<1>3. a \div Length \in Nat
  OBVIOUS
<1> QED
  BY <1>2, <1>3 DEF Bucket

\* A trouble counts once at most.
LEMMA TroubleTyped ==
  ASSUME NEW s \in Servers, time \in Nat, troubles \in [Servers -> 0..MaxFaults], Trouble(s)
  PROVE  /\ troubles' \in [Servers -> 0..MaxFaults]
         /\ \A x \in Servers \ {s} : troubles'[x] = troubles[x]
         /\ troubles'[s] = IF Opens <= time THEN troubles[s] + 1 ELSE troubles[s]
<1> USE NoticeAssumption
<1>1. Opens \in Int
  BY Products DEF Opens
<1> QED
  BY <1>1 DEF Trouble

LEMMA NoticeTypeStep ==
  ASSUME NoticesTyped, TextInv, [NoticeNext]_noticeVars
  PROVE  NoticesTyped' /\ TextInv'
<1> USE NoticeAssumption
<1>0. /\ time \in 0..LastTime /\ LastTime \in Nat
      /\ due \in [Servers -> Nat]
      /\ notice \in [Servers -> {Off} \cup Notification]
      /\ lastSent \in 0..LastTime \cup {Never}
      /\ present \in BOOLEAN
      /\ outbox \subseteq Nat
      /\ sent \in [0..Warn -> 0..1]
      /\ troubles \in [Servers -> 0..MaxFaults]
  BY DEF NoticesTyped, NoticeTypeOK, LastTime
<1>1. ASSUME /\ time' \in 0..LastTime
             /\ due' \in [Servers -> Nat]
             /\ notice' \in [Servers -> {Off} \cup Notification]
             /\ lastSent' \in 0..LastTime \cup {Never}
             /\ present' \in BOOLEAN
             /\ troubles' \in [Servers -> 0..MaxFaults],
             UNCHANGED <<outbox, sent>>,
             \A s \in Servers : notice'[s] # Off /\ notice'[s].at # "plan"
                                  => notice'[s].days * Length <= Expiry
      PROVE  NoticesTyped' /\ TextInv'
  <2>1. NoticesTyped'
    BY <1>0, <1>1 DEF NoticesTyped, NoticeTypeOK
  <2>2. TextInv'
    BY <1>1 DEF TextInv, Bucket
  <2> QED
    BY <2>1, <2>2
<1>2. CASE PassTime
  BY <1>0, <1>1, <1>2 DEF PassTime, TextInv
<1>3. CASE DropKey
  <2>1. present' \in BOOLEAN
    BY <1>3, Zenon DEF DropKey
  <2> QED
    BY <1>0, <1>1, <1>3, <2>1 DEF DropKey, TextInv
<1>4. ASSUME NEW s \in Servers, ReadKeys(s) PROVE NoticesTyped' /\ TextInv'
  <2>1. [at |-> "plan", last |-> lastSent, days |-> 0, now |-> 0] \in Notification
    BY <1>0 DEF Notification
  <2>2. /\ notice' \in [Servers -> {Off} \cup Notification]
        /\ due' \in [Servers -> Nat]
        /\ UNCHANGED <<time, lastSent, present, outbox, sent, troubles>>
    BY <1>0, <1>4, <2>1 DEF ReadKeys
  <2>3. /\ \A x \in Servers \ {s} : notice'[x] = notice[x]
        /\ notice'[s] = Off \/ notice'[s].at = "plan"
    BY <1>0, <1>4 DEF ReadKeys
  <2> QED
    BY <1>0, <1>1, <2>2, <2>3 DEF TextInv
<1>5. ASSUME NEW s \in Servers, Plan(s) PROVE NoticesTyped' /\ TextInv'
  <2>1. notice[s] \in Notification
    BY <1>0, <1>5, NotOff DEF Plan
  <2>2. PICK n : n = [notice[s] EXCEPT !.at = "send", !.days = DaysLeft, !.now = time]
    OBVIOUS
  <2>3. /\ UNCHANGED <<time, due, lastSent, present, outbox, sent, troubles>>
        /\ notice' = [notice EXCEPT ![s] = IF Due(notice[s].last) THEN n ELSE Off]
    BY <1>5, <2>2 DEF Plan
  <2>4. CASE Due(notice[s].last)
    <3>1. DaysLeft \in 0..Warn /\ DaysLeft * Length <= Expiry
      BY <1>0, <2>4, DaysAre DEF Due
    <3>2. n \in Notification /\ n.days = DaysLeft
      BY <1>0, <2>1, <2>2, <3>1 DEF Notification
    <3>3. /\ notice' \in [Servers -> {Off} \cup Notification]
          /\ notice'[s].days = DaysLeft
          /\ \A x \in Servers \ {s} : notice'[x] = notice[x]
      BY <1>0, <2>3, <2>4, <3>2
    <3> QED
      BY <1>0, <1>1, <2>3, <3>1, <3>3 DEF TextInv
  <2>5. CASE ~ Due(notice[s].last)
    BY <1>0, <1>1, <2>3, <2>5 DEF TextInv
  <2> QED
    BY <2>4, <2>5
<1>6. ASSUME NEW s \in Servers, SendNotice(s) PROVE NoticesTyped' /\ TextInv'
  <2>1. PICK d \in 0..Warn :
          d = notice[s].days /\ notice[s] \in Notification /\ d * Length <= Expiry
    BY <1>0, <1>6, NotOff DEF SendNotice, TextInv
  <2>2. DayBucket(s) = Bucket(d)
    BY <2>1 DEF DayBucket, Bucket
  <2>3. /\ UNCHANGED <<time, due, lastSent, present, troubles>>
        /\ notice' = [notice EXCEPT ![s] = [notice[s] EXCEPT !.at = "mark"]]
        /\ \/ UNCHANGED <<outbox, sent>>
           \/ /\ Bucket(d) \notin outbox
              /\ outbox' = outbox \cup {Bucket(d)}
              /\ sent' = [sent EXCEPT ![d] = @ + 1]
    BY <1>0, <1>6, <2>1, <2>2 DEF SendNotice
  <2>4. /\ [notice[s] EXCEPT !.at = "mark"] \in Notification
        /\ [notice[s] EXCEPT !.at = "mark"].days = d
    BY <2>1 DEF Notification
  <2>5. /\ notice' \in [Servers -> {Off} \cup Notification]
        /\ notice'[s].days = d
        /\ \A x \in Servers \ {s} : notice'[x] = notice[x]
    BY <1>0, <2>3, <2>4
  <2>6. \A x \in Servers : notice'[x] # Off /\ notice'[x].at # "plan"
                             => notice'[x].days * Length <= Expiry
    BY <2>1, <2>5 DEF TextInv
  <2>7. CASE UNCHANGED <<outbox, sent>>
    BY <1>0, <1>1, <2>3, <2>5, <2>6, <2>7
  <2>8. CASE /\ Bucket(d) \notin outbox
             /\ outbox' = outbox \cup {Bucket(d)}
             /\ sent' = [sent EXCEPT ![d] = @ + 1]
    <3>1. sent[d] = 0
      BY <1>0, <2>8 DEF TextInv
    <3>2. sent' = [sent EXCEPT ![d] = 1]
      BY <1>0, <2>8, <3>1
    <3>3. sent' \in [0..Warn -> 0..1] /\ sent' \in [0..Warn -> Nat]
      BY <1>0, <3>2, SMTT(30)
    <3>4. outbox' \subseteq Nat
      BY <1>0, <2>1, <2>8, BucketIsDay
    <3>5. NoticesTyped'
      BY <1>0, <2>3, <2>5, <3>3, <3>4 DEF NoticesTyped, NoticeTypeOK
    <3>6. \A x \in 0..Warn : sent'[x] = 1 => Bucket(x) \in outbox'
      BY <1>0, <2>8, <3>2 DEF TextInv
    <3> QED
      BY <2>6, <3>5, <3>6 DEF TextInv, Bucket
  <2> QED
    BY <2>3, <2>7, <2>8
<1>7. ASSUME NEW s \in Servers, MarkNotified(s) PROVE NoticesTyped' /\ TextInv'
  <2>1. notice[s].now \in 0..LastTime
    BY <1>0, <1>7, NotOff DEF MarkNotified
  <2>2. /\ UNCHANGED <<time, due, present, outbox, sent, troubles>>
        /\ lastSent' \in 0..LastTime \cup {Never}
        /\ notice' = [notice EXCEPT ![s] = Off]
    BY <1>0, <1>7, <2>1 DEF MarkNotified
  <2> QED
    BY <1>0, <1>1, <2>2 DEF TextInv
<1>8. ASSUME NEW s \in Servers, NoticeFails(s) PROVE NoticesTyped' /\ TextInv'
  <2>1. /\ UNCHANGED <<time, due, lastSent, present, outbox, sent>>
        /\ troubles' \in [Servers -> 0..MaxFaults]
        /\ notice' = [notice EXCEPT ![s] = Off]
    BY <1>0, <1>8, TroubleTyped DEF NoticeFails
  <2> QED
    BY <1>0, <1>1, <2>1 DEF TextInv
<1>9. ASSUME NEW s \in Servers, Restart(s) PROVE NoticesTyped' /\ TextInv'
  <2>1. /\ UNCHANGED <<time, lastSent, present, outbox, sent>>
        /\ troubles' \in [Servers -> 0..MaxFaults]
        /\ due' \in [Servers -> Nat]
        /\ notice' = [notice EXCEPT ![s] = Off]
    BY <1>0, <1>9, TroubleTyped DEF Restart
  <2> QED
    BY <1>0, <1>1, <2>1 DEF TextInv
<1>10. CASE UNCHANGED noticeVars
  BY <1>0, <1>1, <1>10 DEF noticeVars, TextInv
<1> QED
  BY <1>2, <1>3, <1>4, <1>5, <1>6, <1>7, <1>8, <1>9, <1>10 DEF NoticeNext, Notify

(***************************************************************************)
(* The timer of a server is not older than Lag, nor later than a day; and a *)
(* job that has not planned is not older than Lag.                          *)
(***************************************************************************)
TimerInv ==
  \A s \in Servers :
    /\ time <= due[s] + Lag
    /\ due[s] <= time + Length
    /\ notice[s].at = "plan" => time <= due[s] - Length + Lag

LEMMA TimerStep ==
  ASSUME NoticesTyped, TimerInv, [NoticeNext]_noticeVars
  PROVE  TimerInv'
<1> USE NoticeAssumption
<1>0. /\ time \in Nat
      /\ due \in [Servers -> Nat]
      /\ notice \in [Servers -> {Off} \cup Notification]
  BY DEF NoticesTyped, NoticeTypeOK, LastTime
<1>1. CASE PassTime
  BY <1>0, <1>1 DEF PassTime, TimerInv
<1>2. ASSUME NEW s \in Servers, UNCHANGED time,
             \A x \in Servers \ {s} : due'[x] = due[x] /\ notice'[x] = notice[x],
             due'[s] \in Nat, time <= due'[s] + Lag, due'[s] <= time + Length,
             notice'[s].at = "plan" => time <= due'[s] - Length + Lag
      PROVE  TimerInv'
  BY <1>2 DEF TimerInv
<1>3. ASSUME NEW s \in Servers, ReadKeys(s) PROVE TimerInv'
  <2>1. PICK f \in due[s]..time : due' = [due EXCEPT ![s] = f + Length]
    BY <1>3 DEF ReadKeys
  <2>2. due'[s] = f + Length /\ f \in Nat /\ f <= time /\ due[s] <= f
    BY <1>0, <2>1
  <2>3. /\ UNCHANGED time
        /\ \A x \in Servers \ {s} : due'[x] = due[x] /\ notice'[x] = notice[x]
    BY <1>0, <1>3, <2>1 DEF ReadKeys
  <2>4. time <= due[s] + Lag
    BY DEF TimerInv
  <2> QED
    BY <1>0, <1>2, <2>2, <2>3, <2>4
<1>4. ASSUME NEW s \in Servers, Plan(s) \/ SendNotice(s) \/ MarkNotified(s) \/ NoticeFails(s)
      PROVE  TimerInv'
  <2>1. /\ UNCHANGED <<time, due>>
        /\ \A x \in Servers \ {s} : notice'[x] = notice[x]
    BY <1>0, <1>4 DEF Plan, SendNotice, MarkNotified, NoticeFails
  <2>2. notice'[s].at # "plan"
    <3>1. CASE Plan(s)
      <4>1. notice[s] \in Notification
        BY <1>0, <3>1, NotOff DEF Plan
      <4>2. [notice[s] EXCEPT !.at = "send", !.days = DaysLeft, !.now = time].at = "send"
        BY <4>1 DEF Notification
      <4> QED
        BY <1>0, <3>1, <4>2, NotOff DEF Plan
    <3>2. CASE SendNotice(s)
      <4>1. notice[s] \in Notification
        BY <1>0, <3>2, NotOff DEF SendNotice
      <4>2. [notice[s] EXCEPT !.at = "mark"].at = "mark"
        BY <4>1 DEF Notification
      <4>3. notice'[s] = [notice[s] EXCEPT !.at = "mark"]
        BY <1>0, <3>2 DEF SendNotice
      <4> QED
        BY <4>2, <4>3
    <3>3. CASE MarkNotified(s) \/ NoticeFails(s)
      BY <1>0, <3>3, NotOff DEF MarkNotified, NoticeFails
    <3> QED
      BY <1>4, <3>1, <3>2, <3>3
  <2> QED
    BY <1>0, <1>2, <2>1, <2>2 DEF TimerInv
<1>5. ASSUME NEW s \in Servers, Restart(s) PROVE TimerInv'
  <2>1. /\ UNCHANGED time
        /\ \A x \in Servers \ {s} : due'[x] = due[x] /\ notice'[x] = notice[x]
        /\ due'[s] = time + Length /\ notice'[s] = Off
    BY <1>0, <1>5 DEF Restart
  <2> QED
    BY <1>0, <1>2, <2>1, NotOff
<1>6. ASSUME UNCHANGED <<time, due, notice>> PROVE TimerInv'
  BY <1>6 DEF TimerInv
<1> QED
  BY <1>1, <1>3, <1>4, <1>5, <1>6 DEF NoticeNext, Notify, DropKey, noticeVars

-----------------------------------------------------------------------------
\* The key is still there and nobody was told.
Quiet == present /\ \A d \in 0..Warn : sent[d] = 0

(***************************************************************************)
(* While nobody was told, nothing keeps a job from planning and storing a   *)
(* notice.                                                                  *)
(***************************************************************************)
QuietInv ==
  Quiet =>
    /\ outbox = {} /\ lastSent = Never
    /\ \A s \in Servers : notice[s] # Off => notice[s].at # "mark" /\ notice[s].last = Never

LEMMA QuietStep ==
  ASSUME NoticesTyped, TextInv, QuietInv, [NoticeNext]_noticeVars
  PROVE  QuietInv' /\ (Quiet' => Quiet)
<1> USE NoticeAssumption
<1>0. /\ notice \in [Servers -> {Off} \cup Notification]
      /\ sent \in [0..Warn -> 0..1]
  BY DEF NoticesTyped
<1>1. ASSUME UNCHANGED <<notice, lastSent, outbox, sent>>, Quiet' => Quiet
      PROVE  QuietInv' /\ (Quiet' => Quiet)
  BY <1>1 DEF QuietInv
<1>2. ASSUME NEW s \in Servers, UNCHANGED <<present, lastSent, outbox, sent>>,
             \A x \in Servers \ {s} : notice'[x] = notice[x],
             Quiet /\ notice'[s] # Off => notice'[s].at # "mark" /\ notice'[s].last = Never
      PROVE  QuietInv' /\ (Quiet' => Quiet)
  BY <1>2 DEF QuietInv, Quiet
<1>3. CASE PassTime
  BY <1>1, <1>3 DEF PassTime, Quiet
<1>4. CASE DropKey
  BY <1>1, <1>4 DEF DropKey, Quiet
<1>5. ASSUME NEW s \in Servers, ReadKeys(s) PROVE QuietInv' /\ (Quiet' => Quiet)
  <2>1. /\ UNCHANGED <<present, lastSent, outbox, sent>>
        /\ \A x \in Servers \ {s} : notice'[x] = notice[x]
        /\ \/ notice'[s] = Off
           \/ notice'[s] = [at |-> "plan", last |-> lastSent, days |-> 0, now |-> 0]
    BY <1>0, <1>5 DEF ReadKeys
  <2>2. Quiet => lastSent = Never
    BY DEF QuietInv
  <2> QED
    BY <1>2, <2>1, <2>2
<1>6. ASSUME NEW s \in Servers, Plan(s) PROVE QuietInv' /\ (Quiet' => Quiet)
  <2>1. notice[s] \in Notification /\ notice[s] # Off
    BY <1>0, <1>6, NotOff DEF Plan
  <2>2. PICK n : n = [notice[s] EXCEPT !.at = "send", !.days = DaysLeft, !.now = time]
    OBVIOUS
  <2>3. /\ UNCHANGED <<present, lastSent, outbox, sent>>
        /\ \A x \in Servers \ {s} : notice'[x] = notice[x]
        /\ notice'[s] = Off \/ notice'[s] = n
    BY <1>0, <1>6, <2>2 DEF Plan
  <2>4. n.at = "send" /\ n.last = notice[s].last
    BY <2>1, <2>2 DEF Notification
  <2>5. Quiet => notice[s].last = Never
    BY <2>1 DEF QuietInv
  <2> QED
    BY <1>2, <2>3, <2>4, <2>5
<1>7. ASSUME NEW s \in Servers, SendNotice(s) PROVE QuietInv' /\ (Quiet' => Quiet)
  <2> SUFFICES ASSUME Quiet' PROVE FALSE
    BY DEF QuietInv
  <2>1. PICK d \in 0..Warn : d = notice[s].days
    BY <1>0, <1>7, NotOff DEF SendNotice
  <2>2. /\ UNCHANGED present
        /\ IF present /\ DayBucket(s) \notin outbox
           THEN sent' = [sent EXCEPT ![d] = @ + 1] ELSE UNCHANGED sent
    BY <1>7, <2>1 DEF SendNotice
  <2>3. present /\ sent'[d] = 0
    BY <2>2 DEF Quiet
  <2>4. CASE DayBucket(s) \notin outbox
    BY <1>0, <2>2, <2>3, <2>4
  <2>5. CASE DayBucket(s) \in outbox
    <3>1. Quiet
      BY <2>2, <2>5 DEF Quiet
    <3> QED
      BY <2>5, <3>1 DEF QuietInv
  <2> QED
    BY <2>4, <2>5
<1>8. ASSUME NEW s \in Servers, MarkNotified(s) PROVE QuietInv' /\ (Quiet' => Quiet)
  <2> SUFFICES ASSUME Quiet' PROVE FALSE
    BY DEF QuietInv
  <2>1. Quiet /\ notice[s].at = "mark" /\ notice[s] # Off
    BY <1>8, NotOff DEF MarkNotified, Quiet
  <2> QED
    BY <2>1 DEF QuietInv
<1>9. ASSUME NEW s \in Servers, NoticeFails(s) \/ Restart(s)
      PROVE  QuietInv' /\ (Quiet' => Quiet)
  BY <1>0, <1>2, <1>9 DEF NoticeFails, Restart
<1>10. CASE UNCHANGED noticeVars
  BY <1>1, <1>10 DEF noticeVars, Quiet
<1> QED
  BY <1>3, <1>4, <1>5, <1>6, <1>7, <1>8, <1>9, <1>10 DEF NoticeNext, Notify

-----------------------------------------------------------------------------
(***************************************************************************)
(* How late a server may be after t troubles in the warning period, with h  *)
(* jobs in hand: its first timer fires within a day of the beginning, and a *)
(* timer follows the one before by a day and the lag.                       *)
(***************************************************************************)
Latest(t, h) == Opens + Length + (2 * t + h) * (Length + Lag)

Underway(s) == IF notice[s] = Off THEN 0 ELSE 1

LateInv ==
  Quiet /\ 0 <= Opens /\ Opens <= time
  => \A s \in Servers : Spent(s) \/ due[s] <= Latest(troubles[s], Underway(s))

\* What a job or a trouble adds; and when it is too much.
LEMMA Lateness ==
  ASSUME NEW t \in Nat
  PROVE  /\ Opens \in Int /\ Latest(t, 0) \in Int /\ Latest(t, 1) \in Int
         /\ Latest(t, 1) = Latest(t, 0) + Length + Lag
         /\ Latest(t + 1, 0) = Latest(t, 1) + Length + Lag
         /\ Opens + Length <= Latest(t, 0)
         /\ Expiry + Length <= Latest(t, 1) + Lag
              => Warn * Length <= (2 * t + 1) * (Length + Lag) + Lag
<1> USE NoticeAssumption
<1>1. PICK n \in Nat : n = Length + Lag
  OBVIOUS
<1>2. /\ (2 * t + 1) * n = (2 * t) * n + n
      /\ (2 * t + 1 + 1) * n = (2 * t + 1) * n + n
      /\ (2 * t) * n \in Int
      /\ 0 * n <= (2 * t) * n
  BY Products
<1>3. Warn * Length \in Int
  BY Products
<1>4. 2 * (t + 1) + 0 = 2 * t + 1 + 1 /\ 2 * t + 0 = 2 * t /\ 0 * n = 0
  OBVIOUS
<1>5. /\ Latest(t, 0) = Opens + Length + (2 * t) * n
      /\ Latest(t, 1) = Opens + Length + (2 * t + 1) * n
      /\ Latest(t + 1, 0) = Opens + Length + (2 * t + 1 + 1) * n
  BY <1>1, <1>4 DEF Latest
<1> QED
  BY <1>1, <1>2, <1>3, <1>4, <1>5 DEF Opens

LEMMA LateStep ==
  ASSUME NoticesTyped, TextInv, TimerInv, QuietInv, LateInv, [NoticeNext]_noticeVars
  PROVE  LateInv'
<1> USE NoticeAssumption
<1>0. /\ time \in Nat
      /\ due \in [Servers -> Nat]
      /\ notice \in [Servers -> {Off} \cup Notification]
      /\ troubles \in [Servers -> 0..MaxFaults]
      /\ Opens \in Int
  <2>1. Opens \in Int
    BY Products DEF Opens
  <2> QED
    BY <2>1 DEF NoticesTyped, NoticeTypeOK, LastTime
<1> SUFFICES ASSUME Quiet', 0 <= Opens, Opens <= time'
             PROVE  \A s \in Servers : Spent(s)' \/ due'[s] <= Latest(troubles'[s], Underway(s)')
  BY DEF LateInv, Latest, Opens
<1>1. Quiet
  BY QuietStep
\* A step of one server within the warning period.
<1>2. ASSUME NEW s \in Servers, UNCHANGED time,
             \A x \in Servers \ {s} : /\ due'[x] = due[x] /\ notice'[x] = notice[x]
                                      /\ troubles'[x] = troubles[x],
             Spent(s) \/ due[s] <= Latest(troubles[s], Underway(s))
               => Spent(s)' \/ due'[s] <= Latest(troubles'[s], Underway(s)')
      PROVE  \A x \in Servers : Spent(x)' \/ due'[x] <= Latest(troubles'[x], Underway(x)')
  <2>1. \A x \in Servers : Spent(x) \/ due[x] <= Latest(troubles[x], Underway(x))
    BY <1>1, <1>2 DEF LateInv
  <2>2. ASSUME NEW x \in Servers \ {s}
        PROVE  Spent(x)' \/ due'[x] <= Latest(troubles'[x], Underway(x)')
    <3>1. (Spent(x)' <=> Spent(x)) /\ Underway(x)' = Underway(x)
      BY <1>2 DEF Spent, Underway
    <3> QED
      BY <1>2, <2>1, <3>1
  <2> QED
    BY <1>2, <2>1, <2>2
<1>3. CASE PassTime
  <2>1. /\ time' = time + 1 /\ UNCHANGED <<due, notice, troubles>>
    BY <1>3 DEF PassTime
  <2> SUFFICES ASSUME NEW s \in Servers
               PROVE  Spent(s)' \/ due'[s] <= Latest(troubles'[s], Underway(s)')
    OBVIOUS
  <2>2. (Spent(s)' <=> Spent(s)) /\ Underway(s)' = Underway(s)
    BY <2>1 DEF Spent, Underway
  <2>3. CASE Opens <= time
    BY <1>1, <2>1, <2>2, <2>3 DEF LateInv
  <2>4. CASE time < Opens
    <3>1. due[s] <= time + Length
      BY DEF TimerInv
    <3>2. PICK t \in Nat : t = troubles[s]
      BY <1>0
    <3>3. /\ Opens + Length <= Latest(t, 0) /\ Latest(t, 0) \in Int
          /\ Latest(t, 1) = Latest(t, 0) + Length + Lag
      BY Lateness
    <3>4. Underway(s) \in {0, 1}
      BY DEF Underway
    <3> QED
      BY <1>0, <2>1, <2>2, <2>4, <3>1, <3>2, <3>3, <3>4
  <2> QED
    BY <1>0, <2>3, <2>4
<1>4. ASSUME NEW s \in Servers, ReadKeys(s)
      PROVE  \A x \in Servers : Spent(x)' \/ due'[x] <= Latest(troubles'[x], Underway(x)')
  <2>1. PICK f \in due[s]..time : due' = [due EXCEPT ![s] = f + Length]
    BY <1>4 DEF ReadKeys
  <2>2. due'[s] = f + Length /\ f \in Nat /\ f <= time
    BY <1>0, <2>1
  <2>3. /\ UNCHANGED <<time, troubles>> /\ notice[s] = Off
        /\ \A x \in Servers \ {s} : due'[x] = due[x] /\ notice'[x] = notice[x]
        /\ notice'[s] = IF present /\ Expiry > time
                        THEN [at |-> "plan", last |-> lastSent, days |-> 0, now |-> 0] ELSE Off
    BY <1>0, <1>4, <2>1 DEF ReadKeys
  <2>4. time <= due[s] + Lag
    BY DEF TimerInv
  <2>5. PICK t \in Nat : t = troubles[s] /\ troubles'[s] = t
    BY <1>0, <2>3
  <2>6. Spent(s)' <=> Spent(s)
    BY <2>3 DEF Spent
  <2>7. CASE Expiry > time
    <3>1. Underway(s)' = 1 /\ Underway(s) = 0
      BY <1>1, <2>3, <2>7 DEF Underway, Quiet, Off
    <3>2. Latest(t, 1) = Latest(t, 0) + Length + Lag /\ Latest(t, 0) \in Int
      BY Lateness
    <3>3. due[s] <= Latest(t, 0) => due'[s] <= Latest(t, 1)
      BY <1>0, <2>2, <2>4, <3>2
    <3> QED
      BY <1>2, <2>3, <2>5, <2>6, <3>1, <3>3
  <2>8. CASE Expiry <= time
    <3>1. due[s] <= Latest(t, 0) => Expiry + Length <= Latest(t, 1) + Lag
      <4>1. Latest(t, 1) = Latest(t, 0) + Length + Lag /\ Latest(t, 0) \in Int
        BY Lateness
      <4> QED
        BY <1>0, <2>4, <2>8, <4>1
    <3>2. due[s] <= Latest(t, 0) => Spent(s)
      BY <2>5, <3>1, Lateness DEF Spent
    <3>3. Underway(s) = 0
      BY <2>3 DEF Underway
    <3> QED
      BY <1>2, <2>3, <2>5, <2>6, <3>2, <3>3
  <2> QED
    BY <1>0, <2>7, <2>8
<1>5. ASSUME NEW s \in Servers, Plan(s)
      PROVE  \A x \in Servers : Spent(x)' \/ due'[x] <= Latest(troubles'[x], Underway(x)')
  <2>1. notice[s] \in Notification /\ notice[s] # Off /\ notice[s].at = "plan"
    BY <1>0, <1>5, NotOff DEF Plan
  <2>2. PICK n : n = [notice[s] EXCEPT !.at = "send", !.days = DaysLeft, !.now = time]
    OBVIOUS
  <2>3. /\ UNCHANGED <<time, due, troubles>>
        /\ \A x \in Servers \ {s} : notice'[x] = notice[x]
        /\ notice'[s] = IF Due(notice[s].last) THEN n ELSE Off
    BY <1>0, <1>5, <2>2 DEF Plan
  <2>4. n # Off
    BY <2>1, <2>2 DEF Notification, Off
  <2>5. PICK t \in Nat : t = troubles[s] /\ troubles'[s] = t
    BY <1>0, <2>3
  <2>6. (Spent(s)' <=> Spent(s)) /\ Underway(s) = 1
    BY <2>1, <2>3 DEF Spent, Underway
  <2>7. CASE Expiry > time
    <3>1. Warn * Length \in Int
      BY Products
    <3>2. Due(notice[s].last)
      <4>1. notice[s].last = Never
        BY <1>1, <2>1 DEF QuietInv
      <4>2. Expiry <= time + Warn * Length
        BY <1>0, <2>3, <3>1 DEF Opens
      <4> QED
        BY <2>7, <4>1, <4>2 DEF Due
    <3>3. Underway(s)' = 1
      BY <2>3, <2>4, <3>2 DEF Underway
    <3> QED
      BY <1>2, <2>3, <2>5, <2>6, <3>3
  <2>8. CASE Expiry <= time
    <3>1. time <= due[s] - Length + Lag
      BY <2>1 DEF TimerInv
    <3>2. due[s] <= Latest(t, 1) => Expiry + Length <= Latest(t, 1) + Lag
      BY <1>0, <2>8, <3>1, Lateness
    <3>3. due[s] <= Latest(t, 1) => Spent(s)
      BY <2>5, <3>2, Lateness DEF Spent
    <3> QED
      BY <1>2, <2>3, <2>5, <2>6, <3>3
  <2> QED
    BY <1>0, <2>7, <2>8
<1>6. ASSUME NEW s \in Servers, SendNotice(s)
      PROVE  \A x \in Servers : Spent(x)' \/ due'[x] <= Latest(troubles'[x], Underway(x)')
  <2>1. notice[s] \in Notification /\ notice[s] # Off
    BY <1>0, <1>6, NotOff DEF SendNotice
  <2>2. [notice[s] EXCEPT !.at = "mark"] # Off
    BY <2>1 DEF Notification, Off
  <2>3. /\ UNCHANGED <<time, due, troubles>>
        /\ \A x \in Servers \ {s} : notice'[x] = notice[x]
        /\ notice'[s] = [notice[s] EXCEPT !.at = "mark"]
    BY <1>0, <1>6 DEF SendNotice
  <2>4. Underway(s)' = Underway(s) /\ (Spent(s)' <=> Spent(s))
    BY <2>1, <2>2, <2>3 DEF Underway, Spent
  <2> QED
    BY <1>2, <2>3, <2>4
<1>7. ASSUME NEW s \in Servers, MarkNotified(s)
      PROVE  \A x \in Servers : Spent(x)' \/ due'[x] <= Latest(troubles'[x], Underway(x)')
  <2>1. notice[s].at = "mark" /\ notice[s] # Off
    BY <1>7, NotOff DEF MarkNotified
  <2> QED
    BY <1>1, <2>1 DEF QuietInv
\* A trouble ends the day in hand and begins another.
<1>8. ASSUME NEW s \in Servers, NoticeFails(s) \/ Restart(s)
      PROVE  \A x \in Servers : Spent(x)' \/ due'[x] <= Latest(troubles'[x], Underway(x)')
  <2>1. /\ UNCHANGED time /\ Trouble(s) /\ notice'[s] = Off
        /\ \A x \in Servers \ {s} : due'[x] = due[x] /\ notice'[x] = notice[x]
        /\ due'[s] \in {due[s], time + Length}
    BY <1>0, <1>8 DEF NoticeFails, Restart
  <2>2. PICK t \in Nat : t = troubles[s]
    BY <1>0
  <2>3. troubles'[s] = t + 1 /\ \A x \in Servers \ {s} : troubles'[x] = troubles[x]
    BY <1>0, <2>1, <2>2, TroubleTyped
  <2>4. /\ Latest(t, 0) \in Int /\ Latest(t, 1) = Latest(t, 0) + Length + Lag
        /\ Latest(t + 1, 0) = Latest(t, 1) + Length + Lag
    BY Lateness
  <2>5. time <= due[s] + Lag /\ Underway(s) \in {0, 1} /\ Underway(s)' = 0
    BY <2>1 DEF TimerInv, Underway
  <2>6. due[s] <= Latest(t, Underway(s)) => due'[s] <= Latest(t + 1, 0)
    <3>1. due[s] <= Latest(t, Underway(s)) => due[s] <= Latest(t, 1)
      BY <1>0, <2>4, <2>5
    <3> QED
      BY <1>0, <2>1, <2>4, <2>5, <3>1
  <2>7. Spent(s) => Spent(s)'
    <3>1. PICK n \in Nat : n = Length + Lag
      OBVIOUS
    <3>2. (2 * t + 1) * n <= (2 * (t + 1) + 1) * n /\ (2 * t + 1) * n \in Int
      BY Products
    <3>3. (2 * (t + 1) + 1) * n \in Int /\ Warn * Length \in Int
      BY Products
    <3> QED
      BY <2>2, <2>3, <3>1, <3>2, <3>3 DEF Spent
  <2> QED
    BY <1>2, <2>1, <2>2, <2>3, <2>5, <2>6, <2>7
<1>9. ASSUME UNCHANGED <<time, due, notice, troubles>>
      PROVE  \A x \in Servers : Spent(x)' \/ due'[x] <= Latest(troubles'[x], Underway(x)')
  BY <1>1, <1>9 DEF LateInv, Spent, Underway
<1> QED
  BY <1>3, <1>4, <1>5, <1>6, <1>7, <1>8, <1>9 DEF NoticeNext, Notify, DropKey, noticeVars

(***************************************************************************)
(* The owner of a key is never told one number of days twice, and is told   *)
(* before the key expires unless failures and restarts of every server fill *)
(* the warning period: for any number of servers, any length of the day,    *)
(* delay of the timers and warning period, though the servers run the job   *)
(* at hours of their own and lose a day with each restart.                  *)
(***************************************************************************)
THEOREM OwnersWarnedOnce == NoticeSpec => [](NoticeTypeOK /\ WarnedOnce)
<1> USE NoticeAssumption
<1> DEFINE Inv == NoticesTyped /\ TextInv /\ TimerInv /\ QuietInv /\ LateInv
<1>1. NoticeInit => Inv
  <2> SUFFICES ASSUME NoticeInit PROVE Inv
    OBVIOUS
  <2>1. present \in BOOLEAN
    BY Zenon DEF NoticeInit
  <2>2. /\ time = 0 /\ due = [s \in Servers |-> Length] /\ notice = [s \in Servers |-> Off]
        /\ lastSent = Never /\ outbox = {} /\ sent = [d \in 0..Warn |-> 0]
        /\ troubles = [s \in Servers |-> 0]
    BY DEF NoticeInit
  <2>3. LastTime \in Nat
    BY DEF LastTime
  <2>4. NoticesTyped
    BY <2>1, <2>2, <2>3 DEF NoticesTyped, NoticeTypeOK
  <2>5. TextInv
    BY <2>2 DEF TextInv
  <2>6. TimerInv
    BY <2>2, NotOff DEF TimerInv
  <2>7. QuietInv
    BY <2>2 DEF QuietInv
  <2>8. LateInv
    <3> SUFFICES ASSUME 0 <= Opens, NEW s \in Servers PROVE due[s] <= Latest(troubles[s], Underway(s))
      BY DEF LateInv
    <3>1. due[s] = Length /\ troubles[s] = 0 /\ Underway(s) = 0
      BY <2>2 DEF Underway
    <3>2. Opens \in Int /\ Opens + Length <= Latest(0, 0) /\ Latest(0, 0) \in Int
      BY Lateness
    <3> QED
      BY <3>1, <3>2
  <2> QED
    BY <2>4, <2>5, <2>6, <2>7, <2>8
<1>2. Inv /\ [NoticeNext]_noticeVars => Inv'
  BY NoticeTypeStep, TimerStep, QuietStep, LateStep
<1>3. Inv => NoticeTypeOK /\ WarnedOnce
  <2> SUFFICES ASSUME Inv PROVE NeverRepeats /\ WarnedInTime
    BY DEF NoticesTyped, WarnedOnce
  <2>1. NeverRepeats
    BY DEF NoticesTyped, NeverRepeats
  <2>2. ASSUME time >= Expiry, Opens >= 0, present,
               \A s \in Servers : notice[s] = Off,
               ~ \E d \in 0..Warn : sent[d] > 0,
               NEW s \in Servers
        PROVE  Spent(s)
    <3>1. Quiet
      BY <2>2 DEF Quiet, NoticesTyped
    <3>2. PICK t \in Nat : t = troubles[s]
      BY DEF NoticesTyped, NoticeTypeOK
    <3>3. Opens \in Int /\ Opens <= Expiry
      <4>1. Warn * Length \in Int /\ 0 * Length <= Warn * Length
        BY Products
      <4> QED
        BY <4>1 DEF Opens
    <3>4. time \in Nat /\ due[s] \in Nat /\ time <= due[s] + Lag
      BY DEF NoticesTyped, NoticeTypeOK, LastTime, TimerInv
    <3>5. Spent(s) \/ due[s] <= Latest(t, 0)
      BY <2>2, <3>1, <3>2, <3>3, <3>4 DEF LateInv, Underway
    <3>6. Latest(t, 0) \in Int /\ Latest(t, 1) = Latest(t, 0) + Length + Lag
      BY Lateness
    <3>7. due[s] <= Latest(t, 0) => Expiry + Length <= Latest(t, 1) + Lag
      BY <2>2, <3>4, <3>6
    <3> QED
      BY <3>2, <3>5, <3>7, Lateness DEF Spent
  <2> QED
    BY <2>1, <2>2 DEF WarnedInTime
<1> QED
  BY <1>1, <1>2, <1>3, PTL DEF NoticeSpec

-----------------------------------------------------------------------------
\* PowerSync: merging fields.
LEMMA DataIs ==
  ASSUME NEW p \in Data
  PROVE  /\ DOMAIN p \subseteq Fields
         /\ p = [f \in DOMAIN p |-> p[f]]
         /\ \A f \in DOMAIN p : p[f] \in Values
BY DEF Data

LEMMA IsData ==
  ASSUME NEW F \in SUBSET Fields, NEW p \in [F -> Values]
  PROVE  p \in Data
BY DEF Data

LEMMA MergeTyped ==
  ASSUME NEW p \in Data, NEW d \in Data
  PROVE  Merge(p, d) \in Data
<1>1. PICK F \in SUBSET Fields : F = DOMAIN p \cup DOMAIN d
  BY DataIs
<1>2. Merge(p, d) \in [F -> Values]
  BY <1>1, DataIs DEF Merge
<1> QED
  BY <1>2, IsData

LEMMA MergeAgain ==
  ASSUME NEW p \in Data, NEW d \in Data
  PROVE  Merge(p, p) = p /\ Merge(p, Merge(p, d)) = Merge(p, d)
<1>1. Merge(p, p) = p
  <2>1. Merge(p, p) = [f \in DOMAIN p |-> p[f]]
    BY DEF Merge
  <2> QED
    BY <2>1, DataIs
<1>2. DOMAIN Merge(p, d) = DOMAIN p \cup DOMAIN d
  BY DEF Merge
<1>3. \A f \in DOMAIN p \cup DOMAIN d : Merge(p, d)[f] = IF f \in DOMAIN p THEN p[f] ELSE d[f]
  BY DEF Merge
<1>4. Merge(p, Merge(p, d)) =
        [f \in DOMAIN p \cup DOMAIN d |-> IF f \in DOMAIN p THEN p[f] ELSE Merge(p, d)[f]]
  BY <1>2 DEF Merge
<1>5. Merge(p, Merge(p, d))
        = [f \in DOMAIN p \cup DOMAIN d |-> IF f \in DOMAIN p THEN p[f] ELSE d[f]]
  BY <1>3, <1>4
<1> QED
  BY <1>1, <1>5 DEF Merge

LEMMA MergeTwo ==
  ASSUME NEW p \in Data, NEW q \in Data, NEW d \in Data
  PROVE  Merge(p, Merge(q, d)) = Merge(Merge(p, q), d)
<1>1. DOMAIN Merge(q, d) = DOMAIN q \cup DOMAIN d /\ DOMAIN Merge(p, q) = DOMAIN p \cup DOMAIN q
  BY DEF Merge
<1>2. \A f \in DOMAIN q \cup DOMAIN d : Merge(q, d)[f] = IF f \in DOMAIN q THEN q[f] ELSE d[f]
  BY DEF Merge
<1>3. \A f \in DOMAIN p \cup DOMAIN q : Merge(p, q)[f] = IF f \in DOMAIN p THEN p[f] ELSE q[f]
  BY DEF Merge
<1> DEFINE All == DOMAIN p \cup DOMAIN q \cup DOMAIN d
           One == [f \in All |-> IF f \in DOMAIN p THEN p[f]
                                 ELSE IF f \in DOMAIN q THEN q[f] ELSE d[f]]
<1>4. Merge(p, Merge(q, d)) = [f \in All |-> IF f \in DOMAIN p THEN p[f] ELSE Merge(q, d)[f]]
  BY <1>1 DEF Merge
<1>5. Merge(p, Merge(q, d)) = One
  BY <1>2, <1>4
<1>6. Merge(Merge(p, q), d) =
        [f \in All |-> IF f \in DOMAIN p \cup DOMAIN q THEN Merge(p, q)[f] ELSE d[f]]
  BY <1>1 DEF Merge
<1>7. Merge(Merge(p, q), d) = One
  BY <1>3, <1>6
<1> QED
  BY <1>5, <1>7

-----------------------------------------------------------------------------
\* The map of documents that a batch is applied to.
Maps == [Docs -> Row \cup {NoRow}]

LEMMA NoRowIsNone == NoRow \notin Data /\ NoRow \notin Row
BY SyncAssumption

LEMMA OpsAre ==
  ASSUME NEW b \in Batches
  PROVE  /\ b[1] \in Clients /\ b[2] \in 1..Len(Queue[b[1]]) /\ b = <<b[1], b[2]>>
         /\ Ops(b) \in Seq(Operation)
         /\ Len(Ops(b)) \in Nat
         /\ \A i \in 1..Len(Ops(b)) : Ops(b)[i] \in Operation
<1>0. PICK d \in Clients : b \in {<<d, n>> : n \in 1..Len(Queue[d])}
  BY DEF Batches
<1>1. PICK n \in 1..Len(Queue[d]) : b = <<d, n>>
  BY <1>0
<1>2. Queue[d] \in Seq(Seq(Operation))
  BY SyncAssumption
<1>3. Queue[d][n] \in Seq(Operation)
  BY <1>2, ElementOfSeq
<1>4. Ops(b) \in Seq(Operation)
  BY <1>1, <1>3 DEF Ops
<1>5. Len(Ops(b)) \in Nat /\ \A i \in 1..Len(Ops(b)) : Ops(b)[i] \in Operation
  BY <1>4, LenProperties, ElementOfSeq
<1> QED
  BY <1>1, <1>4, <1>5

\* The first row of a document, and one merged into another.
LEMMA FirstRowIs ==
  ASSUME NEW op \in Operation, NEW now \in Nat
  PROVE  /\ FirstRow(op, now) \in Row
         /\ FirstRow(op, now).data = op.data /\ FirstRow(op, now).stamp = now
         /\ FirstRow(op, now).id = IF op.id = NoId THEN op.doc ELSE op.id
<1>1. op.doc \in Docs /\ op.data \in Data /\ op.id \in Docs \cup {NoId}
  BY DEF Operation
<1>2. PICK j \in Docs : j = IF op.id = NoId THEN op.doc ELSE op.id
  BY <1>1
<1>3. FirstRow(op, now) = [id |-> j, data |-> op.data, stamp |-> now]
  BY <1>2 DEF FirstRow
<1> QED
  BY <1>1, <1>2, <1>3 DEF Row

LEMMA ResolveIs ==
  ASSUME NEW op \in Operation, NEW now \in Nat, NEW u \in Row
  PROVE  /\ Resolve(op, now, u) \in Row
         /\ Resolve(op, now, u).stamp = now
         /\ u.stamp <= now => Resolve(op, now, u).data = Merge(op.data, u.data)
         /\ \/ Resolve(op, now, u).id = u.id
            \/ op.id # NoId /\ Resolve(op, now, u).id = op.id
<1>1. op.data \in Data /\ op.id \in Docs \cup {NoId}
  BY DEF Operation
<1>2. u.id \in Docs /\ u.data \in Data /\ u.stamp \in Nat
  BY DEF Row
<1>3. CASE u.stamp > now
  <2>1. Resolve(op, now, u) = [u EXCEPT !.stamp = now]
    BY <1>3 DEF Resolve
  <2> QED
    BY <1>2, <1>3, <2>1 DEF Row
<1>4. CASE ~ (u.stamp > now)
  <2>1. PICK d \in Data : d = Merge(op.data, u.data)
    BY <1>1, <1>2, MergeTyped
  <2>2. PICK k \in Docs : k = IF op.id = NoId THEN u.id ELSE op.id
    BY <1>1, <1>2
  <2>3. Resolve(op, now, u) = [id |-> k, data |-> d, stamp |-> now]
    BY <1>4, <2>1, <2>2 DEF Resolve
  <2> QED
    BY <2>1, <2>2, <2>3 DEF Row
<1> QED
  BY <1>3, <1>4

\* One round changes the row of one document.
LEMMA RoundIs ==
  ASSUME NEW m \in Maps, NEW op \in Operation, NEW now \in Nat
  PROVE  /\ ApplyOp(m, op, now) \in Maps
         /\ \A k \in Docs : k # op.doc => ApplyOp(m, op, now)[k] = m[k]
         /\ op.op = "DELETE" => ApplyOp(m, op, now)[op.doc] = NoRow
         /\ op.op # "DELETE" =>
              ApplyOp(m, op, now)[op.doc] =
                IF m[op.doc] = NoRow THEN FirstRow(op, now) ELSE Resolve(op, now, m[op.doc])
<1>1. op.doc \in Docs
  BY DEF Operation
<1>2. PICK r : r = IF op.op = "DELETE" THEN NoRow
                   ELSE IF m[op.doc] = NoRow THEN FirstRow(op, now)
                   ELSE Resolve(op, now, m[op.doc])
  OBVIOUS
<1>3. ApplyOp(m, op, now) = [m EXCEPT ![op.doc] = r]
  BY <1>1, <1>2 DEF ApplyOp, Maps
<1>4. m[op.doc] = NoRow \/ m[op.doc] \in Row
  BY <1>1 DEF Maps
<1>5. FirstRow(op, now) \in Row
  BY FirstRowIs
<1>6. m[op.doc] # NoRow => Resolve(op, now, m[op.doc]) \in Row
  BY <1>4, ResolveIs
<1>7. r \in Row \cup {NoRow}
  BY <1>2, <1>4, <1>5, <1>6
<1> QED
  BY <1>1, <1>2, <1>3, <1>7 DEF Maps

\* A set of numbers that is not empty has a least one.
LEMMA Least ==
  ASSUME NEW T, T \subseteq Nat, T # {}
  PROVE \E x \in T : \A y \in T : x <= y
<1>1. PICK R : IsWellFoundedOn(R, Nat) /\ \A x, y \in Nat : y < x => <<y, x>> \in R
  <2>1. \A x, y \in Nat : y < x => <<y, x>> \in {ss \in Nat \X Nat : ss[1] < ss[2]}
    OBVIOUS
  <2>2. IsWellFoundedOn({ss \in Nat \X Nat : ss[1] < ss[2]}, Nat)
    BY NatLessThanWellFounded, Zenon DEF OpToRel
  <2> QED BY <2>1, <2>2
<1>3. PICK x \in T : \A y \in T : ~ (<<y, x>> \in R)
  BY <1>1, WFMin
<1>4. \A y \in T : ~ (y < x)
  <2> TAKE y \in T
  <2> HIDE <1>3
  <2>1. x \in Nat /\ y \in Nat
    OBVIOUS
  <2>2. ~ (<<y, x>> \in R)
    BY <1>3, Zenon
  <2> QED BY <1>1, <2>1, <2>2, Zenon
<1>5. \A y \in T : x <= y
  BY <1>4
<1> QED BY <1>5

\* The maps after each operation of a batch.
MapsAfter(b, map, now) ==
  CHOOSE g : g = [i \in 0..Len(Ops(b)) |->
                    IF i = 0 THEN map ELSE ApplyOp(g[i - 1], Ops(b)[i], now)]

\* There are such maps, and the last one is the result.
LEMMA BatchIsApplied ==
  ASSUME NEW b \in Batches, NEW map \in Maps, NEW now \in Nat
  PROVE  /\ ApplyBatch(b, map, now) \in Maps
         /\ ApplyBatch(b, map, now) = MapsAfter(b, map, now)[Len(Ops(b))]
         /\ MapsAfter(b, map, now)[0] = map
         /\ \A i \in 0..Len(Ops(b)) : MapsAfter(b, map, now)[i] \in Maps
         /\ \A i \in 1..Len(Ops(b)) :
              MapsAfter(b, map, now)[i] = ApplyOp(MapsAfter(b, map, now)[i - 1], Ops(b)[i], now)
<1>0. PICK n \in Nat : n = Len(Ops(b))
  BY OpsAre
<1>1. \A i \in 1..n : Ops(b)[i] \in Operation
  BY <1>0, OpsAre
<1> DEFINE Upto(j) == \E m \in [0..j -> Maps] :
                        m[0] = map /\ \A i \in 1..j : m[i] = ApplyOp(m[i - 1], Ops(b)[i], now)
           Bad == {j \in Nat : j <= n /\ ~ Upto(j)}
<1>2. Upto(0)
  <2>1. PICK m \in [0..0 -> Maps] : m[0] = map
    <3>1. [i \in 0..0 |-> map] \in [0..0 -> Maps] /\ [i \in 0..0 |-> map][0] = map
      OBVIOUS
    <3> QED
      BY <3>1
  <2> QED
    BY <2>1
<1>3. ASSUME NEW j \in Nat, j + 1 <= n, Upto(j) PROVE Upto(j + 1)
  <2>1. PICK m \in [0..j -> Maps] :
          m[0] = map /\ \A i \in 1..j : m[i] = ApplyOp(m[i - 1], Ops(b)[i], now)
    BY <1>3
  <2>2. PICK r \in Maps : r = ApplyOp(m[j], Ops(b)[j + 1], now)
    <3>1. m[j] \in Maps /\ Ops(b)[j + 1] \in Operation
      BY <1>1, <1>3, <2>1
    <3>2. ApplyOp(m[j], Ops(b)[j + 1], now) \in Maps
      BY <3>1, RoundIs, Zenon
    <3> QED
      BY <3>2
  <2>3. PICK g : g = [i \in 0..(j + 1) |-> IF i = j + 1 THEN r ELSE m[i]]
    OBVIOUS
  <2>4. g \in [0..(j + 1) -> Maps] /\ g[0] = map
    BY <2>1, <2>3
  <2>5. ASSUME NEW i \in 1..(j + 1) PROVE g[i] = ApplyOp(g[i - 1], Ops(b)[i], now)
    <3>1. CASE i = j + 1
      BY <2>2, <2>3, <3>1
    <3>2. CASE i \in 1..j
      BY <2>1, <2>3, <3>2
    <3> QED
      BY <3>1, <3>2
  <2> QED
    BY <2>4, <2>5
<1> HIDE DEF Upto
<1>4. Bad = {}
  <2> SUFFICES ASSUME Bad # {} PROVE FALSE
    OBVIOUS
  <2>1. PICK j \in Bad : \A i \in Bad : j <= i
    BY Least
  <2>2. j \in Nat /\ j <= n /\ ~ Upto(j)
    OBVIOUS
  <2>3. j # 0
    BY <1>2, <2>2
  <2>4. PICK i \in Nat : j = i + 1
    BY <2>2, <2>3
  <2>5. i \notin Bad
    BY <2>1, <2>4
  <2>6. Upto(i)
    BY <2>2, <2>4, <2>5
  <2> QED
    BY <1>3, <2>2, <2>4, <2>6
<1>5. PICK m \in [0..n -> Maps] :
        m[0] = map /\ \A i \in 1..n : m[i] = ApplyOp(m[i - 1], Ops(b)[i], now)
  <2>1. Upto(n)
    BY <1>4
  <2> QED
    BY <2>1, Zenon DEF Upto
<1>6. m = [i \in 0..n |-> IF i = 0 THEN map ELSE ApplyOp(m[i - 1], Ops(b)[i], now)]
  BY <1>5
<1>7. \E g : g = [i \in 0..n |-> IF i = 0 THEN map ELSE ApplyOp(g[i - 1], Ops(b)[i], now)]
  BY <1>6
<1>8. PICK g : /\ g = MapsAfter(b, map, now)
               /\ g = [i \in 0..n |-> IF i = 0 THEN map ELSE ApplyOp(g[i - 1], Ops(b)[i], now)]
  BY <1>0, <1>7, Zenon DEF MapsAfter
<1>9. ApplyBatch(b, map, now) = MapsAfter(b, map, now)[Len(Ops(b))]
  BY Zenon DEF ApplyBatch, MapsAfter
<1>10. g[0] = map /\ \A i \in 1..n : g[i] = ApplyOp(g[i - 1], Ops(b)[i], now)
  BY <1>8
<1> DEFINE Odd == {j \in Nat : j <= n /\ g[j] \notin Maps}
<1>11. Odd = {}
  <2> SUFFICES ASSUME Odd # {} PROVE FALSE
    OBVIOUS
  <2>1. PICK j \in Odd : \A i \in Odd : j <= i
    BY Least
  <2>2. j # 0
    BY <1>10
  <2>3. PICK i \in Nat : j = i + 1
    BY <2>2
  <2>4. g[i] \in Maps
    BY <2>1, <2>3
  <2>5. g[j] = ApplyOp(g[i], Ops(b)[j], now)
    BY <1>10, <2>3
  <2>6. Ops(b)[j] \in Operation
    BY <1>1, <2>3
  <2> HIDE DEF Odd
  <2>7. ApplyOp(g[i], Ops(b)[j], now) \in Maps
    BY <2>4, <2>6, RoundIs, Zenon
  <2> QED
    BY <2>5, <2>7 DEF Odd
<1>12. \A i \in 0..n : g[i] \in Maps
  BY <1>11
<1>13. ApplyBatch(b, map, now) \in Maps
  <2>1. n \in 0..n
    BY <1>0
  <2>2. g[n] \in Maps
    BY <2>1, <1>12, Zenon
  <2>3. ApplyBatch(b, map, now) = g[n]
    BY <1>0, <1>8, <1>9, Zenon
  <2> QED
    BY <2>2, <2>3, Zenon
<1> QED
  BY <1>0, <1>8, <1>9, <1>10, <1>12, <1>13, Zenon

-----------------------------------------------------------------------------
(***************************************************************************)
(* What a sequence of operations comes to for one document: nothing, a      *)
(* patch, a document put in its place, or its removal.                      *)
(***************************************************************************)
Nets == [op : {"keep", "PATCH", "PUT", "DELETE"}, data : Data]

Net(e, v) ==
  IF e.op = "keep" THEN v
  ELSE IF e.op = "DELETE" THEN NoRow
  ELSE IF e.op = "PUT" \/ v = NoRow THEN e.data
  ELSE Merge(e.data, v)

\* A row as far as the data go; and one that no clock ahead has stamped.
DataAt(m, k) == IF m[k] = NoRow THEN NoRow ELSE m[k].data
Fresh(m, k, now) == m[k] = NoRow \/ m[k].stamp <= now

\* One operation more, which is not a removal.
Compose(e, op) ==
  [op |-> IF e.op \in {"keep", "PATCH"} THEN "PATCH" ELSE "PUT",
   data |-> IF e.op \in {"keep", "DELETE"} THEN op.data ELSE Merge(op.data, e.data)]

LEMMA NetTyped ==
  ASSUME NEW e \in Nets, NEW v \in Data \cup {NoRow}
  PROVE  /\ e.op \in {"keep", "PATCH", "PUT", "DELETE"} /\ e.data \in Data
         /\ Net(e, v) \in Data \cup {NoRow}
<1>1. e.op \in {"keep", "PATCH", "PUT", "DELETE"} /\ e.data \in Data
  BY DEF Nets
<1> QED
  BY <1>1, MergeTyped DEF Net

\* It makes no difference to do it twice.
LEMMA NetAgain ==
  ASSUME NEW e \in Nets, NEW v \in Data \cup {NoRow}
  PROVE  Net(e, Net(e, v)) = Net(e, v)
<1>1. e.op \in {"keep", "PATCH", "PUT", "DELETE"} /\ e.data \in Data /\ e.data # NoRow
  BY NetTyped, NoRowIsNone
<1>2. CASE e.op = "PATCH" /\ v = NoRow
  BY <1>1, <1>2, MergeAgain DEF Net
<1>3. CASE e.op = "PATCH" /\ v # NoRow
  <2>1. Net(e, v) = Merge(e.data, v) /\ Merge(e.data, v) # NoRow
    BY <1>1, <1>3, MergeTyped, NoRowIsNone DEF Net
  <2>2. Net(e, Net(e, v)) = Merge(e.data, Merge(e.data, v))
    BY <1>3, <2>1 DEF Net
  <2> QED
    BY <1>1, <1>3, <2>1, <2>2, MergeAgain
<1>4. CASE e.op # "PATCH"
  BY <1>1, <1>4 DEF Net
<1> QED
  BY <1>2, <1>3, <1>4

LEMMA ComposeIs ==
  ASSUME NEW e \in Nets, NEW op \in Operation, NEW v \in Data \cup {NoRow}
  PROVE  /\ Compose(e, op) \in Nets
         /\ Net(e, v) = NoRow => Net(Compose(e, op), v) = op.data
         /\ Net(e, v) # NoRow => Net(Compose(e, op), v) = Merge(op.data, Net(e, v))
<1>1. e.op \in {"keep", "PATCH", "PUT", "DELETE"} /\ e.data \in Data /\ e.data # NoRow
  BY NetTyped, NoRowIsNone
<1>2. op.data \in Data
  BY DEF Operation
<1>3. Merge(op.data, e.data) \in Data
  BY <1>1, <1>2, MergeTyped
<1>4. PICK c \in Nets : c = Compose(e, op)
  BY <1>1, <1>2, <1>3 DEF Compose, Nets
<1>5. /\ c.op = IF e.op \in {"keep", "PATCH"} THEN "PATCH" ELSE "PUT"
      /\ c.data = IF e.op \in {"keep", "DELETE"} THEN op.data ELSE Merge(op.data, e.data)
  BY <1>4 DEF Compose
<1>6. CASE e.op = "keep"
  BY <1>4, <1>5, <1>6 DEF Net
<1>7. CASE e.op = "DELETE"
  BY <1>4, <1>5, <1>7 DEF Net
<1>8. CASE e.op = "PUT"
  BY <1>1, <1>4, <1>5, <1>8 DEF Net
<1>9. CASE e.op = "PATCH" /\ v = NoRow
  BY <1>1, <1>4, <1>5, <1>9 DEF Net
<1>10. CASE e.op = "PATCH" /\ v # NoRow
  <2>1. Net(e, v) = Merge(e.data, v) /\ Merge(e.data, v) # NoRow
    BY <1>1, <1>10, MergeTyped, NoRowIsNone DEF Net
  <2>2. Net(c, v) = Merge(Merge(op.data, e.data), v)
    BY <1>5, <1>10 DEF Net
  <2>3. Merge(Merge(op.data, e.data), v) = Merge(op.data, Merge(e.data, v))
    BY <1>1, <1>2, <1>10, MergeTwo
  <2> QED
    BY <1>4, <2>1, <2>2, <2>3
<1> QED
  BY <1>1, <1>6, <1>7, <1>8, <1>9, <1>10

\* One operation more.
LEMMA NetRound ==
  ASSUME NEW e \in Nets, NEW op \in Operation, NEW k \in Docs
  PROVE  \E c \in Nets :
           /\ op.doc # k => c = e
           /\ \A m \in Maps, now \in Nat, v \in Data \cup {NoRow} :
                Fresh(m, k, now) /\ DataAt(m, k) = Net(e, v)
                  => /\ Fresh(ApplyOp(m, op, now), k, now)
                     /\ DataAt(ApplyOp(m, op, now), k) = Net(c, v)
<1>1. op.data \in Data /\ op.doc \in Docs
  BY DEF Operation
<1>2. CASE op.doc # k
  <2>1. ASSUME NEW m \in Maps, NEW now \in Nat PROVE ApplyOp(m, op, now)[k] = m[k]
    BY <1>2, RoundIs, ZenonT(60)
  <2>2. \A m \in Maps, now \in Nat, v \in Data \cup {NoRow} :
          Fresh(m, k, now) /\ DataAt(m, k) = Net(e, v)
            => /\ Fresh(ApplyOp(m, op, now), k, now)
               /\ DataAt(ApplyOp(m, op, now), k) = Net(e, v)
    BY <2>1 DEF Fresh, DataAt
  <2> QED
    BY <1>2, <2>2, Zenon
<1>3. CASE op.doc = k /\ op.op = "DELETE"
  <2>1. PICK c \in Nets : c.op = "DELETE"
    <3>1. [op |-> "DELETE", data |-> op.data] \in Nets
      BY <1>1 DEF Nets
    <3> QED
      BY <3>1
  <2>2. \A m \in Maps, now \in Nat : ApplyOp(m, op, now)[k] = NoRow
    BY <1>3, RoundIs, ZenonT(60)
  <2>3. \A v : Net(c, v) = NoRow
    BY <2>1 DEF Net
  <2> QED
    BY <1>3, <2>2, <2>3 DEF Fresh, DataAt
<1>4. CASE op.doc = k /\ op.op # "DELETE"
  <2>0. \A v \in Data \cup {NoRow} : Compose(e, op) \in Nets
    BY ComposeIs
  <2>1. PICK c \in Nets : c = Compose(e, op)
    BY <2>0
  <2>2. ASSUME NEW m \in Maps, NEW now \in Nat, NEW v \in Data \cup {NoRow},
               Fresh(m, k, now), DataAt(m, k) = Net(e, v)
        PROVE  /\ Fresh(ApplyOp(m, op, now), k, now)
               /\ DataAt(ApplyOp(m, op, now), k) = Net(c, v)
    <3>1. PICK w \in Row :
            /\ ApplyOp(m, op, now)[k] = w /\ w.stamp = now
            /\ w.data = IF m[k] = NoRow THEN op.data ELSE Merge(op.data, m[k].data)
      <4>1. ApplyOp(m, op, now)[k] = IF m[k] = NoRow THEN FirstRow(op, now)
                                     ELSE Resolve(op, now, m[k])
        BY <1>4, RoundIs
      <4>2. CASE m[k] = NoRow
        <5>2. /\ FirstRow(op, now) \in Row /\ FirstRow(op, now).data = op.data
              /\ FirstRow(op, now).stamp = now
          BY FirstRowIs
        <5> QED
          BY <4>1, <4>2, <5>2
      <4>3. CASE m[k] # NoRow
        <5>1. m[k] \in Row /\ m[k].stamp <= now
          BY <2>2, <4>3 DEF Maps, Fresh
        <5>2. /\ Resolve(op, now, m[k]) \in Row /\ Resolve(op, now, m[k]).stamp = now
              /\ Resolve(op, now, m[k]).data = Merge(op.data, m[k].data)
          BY <5>1, ResolveIs
        <5> QED
          BY <4>1, <4>3, <5>2
      <4> QED
        BY <4>2, <4>3
    <3>4. Fresh(ApplyOp(m, op, now), k, now) /\ DataAt(ApplyOp(m, op, now), k) = w.data
      BY <3>1, NoRowIsNone DEF Fresh, DataAt
    <3>5. CASE m[k] = NoRow
      <4>1. Net(e, v) = NoRow
        BY <2>2, <3>5 DEF DataAt
      <4> QED
        BY <2>1, <3>1, <3>4, <3>5, <4>1, ComposeIs
    <3>6. CASE m[k] # NoRow
      <4>1. m[k] \in Row
        BY <3>6 DEF Maps
      <4>2. Net(e, v) = m[k].data /\ m[k].data \in Data /\ m[k].data # NoRow
        BY <2>2, <3>6, <4>1, NoRowIsNone DEF DataAt, Row
      <4>4. Net(c, v) = Merge(op.data, m[k].data)
        BY <2>1, <4>2, ComposeIs
      <4> QED
        BY <3>1, <3>4, <3>6, <4>4
    <3> QED
      BY <3>5, <3>6
  <2> QED
    BY <1>4, <2>2
<1> QED
  BY <1>2, <1>3, <1>4

\* What a whole batch comes to for one document.
LEMMA NetOfBatch ==
  ASSUME NEW b \in Batches, NEW k \in Docs
  PROVE  \E e \in Nets :
           /\ k \notin Touched(b) => e.op = "keep"
           /\ \A map \in Maps, now \in Nat :
                Fresh(map, k, now) => DataAt(ApplyBatch(b, map, now), k) = Net(e, DataAt(map, k))
<1>0. PICK n \in Nat : n = Len(Ops(b))
  BY OpsAre
<1>1. \A i \in 1..n : Ops(b)[i] \in Operation
  BY <1>0, OpsAre
<1>2. \A map \in Maps : DataAt(map, k) \in Data \cup {NoRow}
  BY DEF DataAt, Maps, Row
<1> DEFINE Does(e, j) ==
             /\ (\A i \in 1..j : Ops(b)[i].doc # k) => e.op = "keep"
             /\ \A map \in Maps, now \in Nat :
                  Fresh(map, k, now)
                    => /\ Fresh(MapsAfter(b, map, now)[j], k, now)
                       /\ DataAt(MapsAfter(b, map, now)[j], k) = Net(e, DataAt(map, k))
           Bad == {j \in Nat : j <= n /\ ~ \E e \in Nets : Does(e, j)}
<1>3. \E e \in Nets : Does(e, 0)
  <2>1. PICK e \in Nets : e.op = "keep"
    <3>1. PICK p \in Data : TRUE
      <4>1. [f \in {} |-> f] \in [{} -> Values] /\ {} \in SUBSET Fields
        OBVIOUS
      <4> QED
        BY <4>1, IsData
    <3>2. [op |-> "keep", data |-> p] \in Nets
      BY DEF Nets
    <3> QED
      BY <3>2
  <2>2. \A map \in Maps, now \in Nat : MapsAfter(b, map, now)[0] = map
    BY BatchIsApplied
  <2>3. \A v : Net(e, v) = v
    BY <2>1 DEF Net
  <2>4. \A map \in Maps, now \in Nat :
          Fresh(map, k, now)
            => /\ Fresh(MapsAfter(b, map, now)[0], k, now)
               /\ DataAt(MapsAfter(b, map, now)[0], k) = Net(e, DataAt(map, k))
    BY <2>2, <2>3
  <2> QED
    BY <2>1, <2>4
<1>4. ASSUME NEW j \in Nat, j + 1 <= n, NEW e \in Nets, Does(e, j)
      PROVE  \E c \in Nets : Does(c, j + 1)
  <2>1. PICK op \in Operation : op = Ops(b)[j + 1]
    BY <1>1, <1>4
  <2>2. PICK c \in Nets :
          /\ op.doc # k => c = e
          /\ \A m \in Maps, now \in Nat, v \in Data \cup {NoRow} :
               Fresh(m, k, now) /\ DataAt(m, k) = Net(e, v)
                 => /\ Fresh(ApplyOp(m, op, now), k, now)
                    /\ DataAt(ApplyOp(m, op, now), k) = Net(c, v)
    BY NetRound
  <2>3. (\A i \in 1..(j + 1) : Ops(b)[i].doc # k) => c.op = "keep"
    BY <1>4, <2>1, <2>2
  <2>4. ASSUME NEW map \in Maps, NEW now \in Nat, Fresh(map, k, now)
        PROVE  /\ Fresh(MapsAfter(b, map, now)[j + 1], k, now)
               /\ DataAt(MapsAfter(b, map, now)[j + 1], k) = Net(c, DataAt(map, k))
    <3>1. PICK m \in Maps : m = MapsAfter(b, map, now)[j]
      <4>1. j \in 0..Len(Ops(b))
        BY <1>0, <1>4
      <4>2. MapsAfter(b, map, now)[j] \in Maps
        BY <4>1, BatchIsApplied, Zenon
      <4> QED
        BY <4>2
    <3>2. MapsAfter(b, map, now)[j + 1] = ApplyOp(m, op, now)
      <4>1. j + 1 \in 1..Len(Ops(b)) /\ (j + 1) - 1 = j
        BY <1>0, <1>4
      <4>2. MapsAfter(b, map, now)[j + 1]
              = ApplyOp(MapsAfter(b, map, now)[(j + 1) - 1], Ops(b)[j + 1], now)
        BY <4>1, BatchIsApplied, ZenonT(60)
      <4> QED
        BY <2>1, <3>1, <4>1, <4>2
    <3>3. Fresh(m, k, now) /\ DataAt(m, k) = Net(e, DataAt(map, k))
      BY <1>4, <2>4, <3>1
    <3> QED
      BY <1>2, <2>2, <3>2, <3>3
  <2> QED
    BY <2>3, <2>4
<1> HIDE DEF Does
<1>5. Bad = {}
  <2> SUFFICES ASSUME Bad # {} PROVE FALSE
    OBVIOUS
  <2>1. PICK j \in Bad : \A i \in Bad : j <= i
    BY Least
  <2>2. j \in Nat /\ j <= n /\ ~ \E e \in Nets : Does(e, j)
    OBVIOUS
  <2>3. j # 0
    BY <1>3, <2>2
  <2>4. PICK i \in Nat : j = i + 1
    BY <2>2, <2>3
  <2>5. i \notin Bad
    BY <2>1, <2>4
  <2>6. PICK e \in Nets : Does(e, i)
    BY <2>2, <2>4, <2>5
  <2> QED
    BY <1>4, <2>2, <2>4, <2>6
<1>6. PICK e \in Nets : Does(e, n)
  BY <1>5
<1>7. k \notin Touched(b) => \A i \in 1..n : Ops(b)[i].doc # k
  <2>1. DOMAIN Ops(b) = 1..n
    BY <1>0, OpsAre, LenProperties
  <2> QED
    BY <2>1 DEF Touched
<1>8. \A map \in Maps, now \in Nat : ApplyBatch(b, map, now) = MapsAfter(b, map, now)[n]
  BY <1>0, BatchIsApplied
<1> QED
  BY <1>6, <1>7, <1>8 DEF Does

\* The data of all documents, and the map that has them.
Contents == [Docs -> Data \cup {NoRow}]

Lift(data) ==
  [k \in Docs |-> IF data[k] = NoRow THEN NoRow
                  ELSE [id |-> k, data |-> data[k], stamp |-> 0]]

LEMMA LiftIs ==
  ASSUME NEW data \in Contents
  PROVE  /\ Lift(data) \in Maps
         /\ \A k \in Docs : DataAt(Lift(data), k) = data[k] /\ Fresh(Lift(data), k, 0)
<1>1. \A k \in Docs : data[k] = NoRow \/ data[k] \in Data
  BY DEF Contents
<1>2. \A k \in Docs, d \in Data : [id |-> k, data |-> d, stamp |-> 0] \in Row
  BY DEF Row
<1>3. Lift(data) \in Maps
  BY <1>1, <1>2 DEF Lift, Maps
<1>4. ASSUME NEW k \in Docs PROVE DataAt(Lift(data), k) = data[k] /\ Fresh(Lift(data), k, 0)
  <2>1. CASE data[k] = NoRow
    BY <2>1 DEF Lift, DataAt, Fresh
  <2>2. CASE data[k] # NoRow
    <3>1. Lift(data)[k] = [id |-> k, data |-> data[k], stamp |-> 0]
      BY <2>2 DEF Lift
    <3>2. Lift(data)[k] # NoRow
      BY <1>1, <1>2, <2>2, <3>1, NoRowIsNone
    <3> QED
      BY <3>1, <3>2 DEF DataAt, Fresh
  <2> QED
    BY <2>1, <2>2
<1> QED
  BY <1>3, <1>4

\* What a batch does to one document by itself.
EffectOn(b, k, v) == Effect(b, [j \in Docs |-> v])[k]

(***************************************************************************)
(* A batch treats every document by itself, treats it alike at all times    *)
(* unless its row is ahead, leaves documents alone that it does not name,   *)
(* and makes no difference when it is applied twice.                        *)
(***************************************************************************)
LEMMA EffectIs ==
  ASSUME NEW b \in Batches, NEW k \in Docs
  PROVE  /\ \A data \in Contents : Effect(b, data)[k] = EffectOn(b, k, data[k])
         /\ \A map \in Maps, now \in Nat :
              Fresh(map, k, now)
                => DataOf(ApplyBatch(b, map, now))[k] = EffectOn(b, k, DataOf(map)[k])
         /\ k \notin Touched(b) => \A v \in Data \cup {NoRow} : EffectOn(b, k, v) = v
         /\ \A v \in Data \cup {NoRow} :
              /\ EffectOn(b, k, v) \in Data \cup {NoRow}
              /\ EffectOn(b, k, EffectOn(b, k, v)) = EffectOn(b, k, v)
<1>1. PICK e \in Nets :
        /\ k \notin Touched(b) => e.op = "keep"
        /\ \A map \in Maps, now \in Nat :
             Fresh(map, k, now) => DataAt(ApplyBatch(b, map, now), k) = Net(e, DataAt(map, k))
  BY NetOfBatch
<1>2. \A map : DataOf(map)[k] = DataAt(map, k)
  BY DEF DataOf, DataAt
<1>3. ASSUME NEW data \in Contents PROVE Effect(b, data)[k] = Net(e, data[k])
  <2>1. Effect(b, data) = DataOf(ApplyBatch(b, Lift(data), 0))
    BY DEF Effect, Lift
  <2>2. DataAt(ApplyBatch(b, Lift(data), 0), k) = Net(e, DataAt(Lift(data), k))
    BY <1>1, LiftIs
  <2> QED
    BY <1>2, <2>1, <2>2, LiftIs
<1>4. ASSUME NEW v \in Data \cup {NoRow} PROVE EffectOn(b, k, v) = Net(e, v)
  <2>1. PICK data \in Contents : data = [j \in Docs |-> v]
    BY DEF Contents
  <2> QED
    BY <1>3, <2>1 DEF EffectOn
<1>5. \A data \in Contents : Effect(b, data)[k] = EffectOn(b, k, data[k])
  BY <1>3, <1>4 DEF Contents
<1>6. \A map \in Maps : DataAt(map, k) \in Data \cup {NoRow}
  BY DEF DataAt, Maps, Row
<1>7. \A map \in Maps, now \in Nat :
        Fresh(map, k, now)
          => DataOf(ApplyBatch(b, map, now))[k] = EffectOn(b, k, DataOf(map)[k])
  BY <1>1, <1>2, <1>4, <1>6
<1>8. k \notin Touched(b) => \A v \in Data \cup {NoRow} : EffectOn(b, k, v) = v
  BY <1>1, <1>4 DEF Net
<1>9. \A v \in Data \cup {NoRow} :
        /\ EffectOn(b, k, v) \in Data \cup {NoRow}
        /\ EffectOn(b, k, EffectOn(b, k, v)) = EffectOn(b, k, v)
  BY <1>4, NetTyped, NetAgain
<1> QED
  BY <1>5, <1>7, <1>8, <1>9

-----------------------------------------------------------------------------
\* Rows carry their own ids, but for the documents that a batch mixes.
OwnIds(m, b) ==
  \A k \in Docs : m[k] = NoRow \/ m[k].id = k \/ (k \in Mixed(b) /\ m[k].id \in Mixed(b))

LEMMA MixedIs ==
  ASSUME NEW b \in Batches
  PROVE  /\ Mixed(b) \subseteq Docs
         /\ \A i \in 1..Len(Ops(b)) :
              Ops(b)[i].id = NoId \/ Ops(b)[i].id = Ops(b)[i].doc
                \/ (Ops(b)[i].doc \in Mixed(b) /\ Ops(b)[i].id \in Mixed(b))
<1>1. DOMAIN Ops(b) = 1..Len(Ops(b))
  BY OpsAre, LenProperties
<1>2. \A i \in 1..Len(Ops(b)) : Ops(b)[i].doc \in Docs /\ Ops(b)[i].id \in Docs \cup {NoId}
  BY OpsAre DEF Operation
<1> QED
  BY <1>1, <1>2 DEF Mixed

LEMMA RoundKeepsIds ==
  ASSUME NEW b \in Batches, NEW i \in 1..Len(Ops(b)), NEW m \in Maps, NEW now \in Nat,
         OwnIds(m, b)
  PROVE  OwnIds(ApplyOp(m, Ops(b)[i], now), b)
<1>1. PICK op \in Operation : op = Ops(b)[i]
  BY OpsAre
<1>2. op.doc \in Docs /\ op.id \in Docs \cup {NoId} /\ op.data \in Data
  BY DEF Operation
<1>3. op.id = NoId \/ op.id = op.doc \/ (op.doc \in Mixed(b) /\ op.id \in Mixed(b))
  BY <1>1, MixedIs
<1>4. PICK w \in Maps : w = ApplyOp(m, op, now)
  <2>1. ApplyOp(m, op, now) \in Maps
    BY RoundIs, Zenon
  <2> QED
    BY <2>1
<1>5. /\ \A k \in Docs : k # op.doc => w[k] = m[k]
      /\ op.op = "DELETE" => w[op.doc] = NoRow
      /\ op.op # "DELETE" => w[op.doc] = IF m[op.doc] = NoRow THEN FirstRow(op, now)
                                         ELSE Resolve(op, now, m[op.doc])
  BY <1>4, RoundIs
<1> SUFFICES ASSUME NEW k \in Docs, w[k] # NoRow
             PROVE  w[k].id = k \/ (k \in Mixed(b) /\ w[k].id \in Mixed(b))
  BY <1>1, <1>4 DEF OwnIds
<1>6. CASE k # op.doc
  BY <1>5, <1>6 DEF OwnIds
<1>7. CASE k = op.doc /\ m[k] = NoRow
  <2>1. w[k] = FirstRow(op, now)
    BY <1>5, <1>7
  <2>2. FirstRow(op, now).id = IF op.id = NoId THEN op.doc ELSE op.id
    BY FirstRowIs
  <2> QED
    BY <1>3, <1>7, <2>1, <2>2
<1>8. CASE k = op.doc /\ m[k] # NoRow
  <2>1. m[k] \in Row /\ w[k] = Resolve(op, now, m[k])
    BY <1>5, <1>8 DEF Maps
  <2>2. w[k].id = m[k].id \/ (op.id # NoId /\ w[k].id = op.id)
    BY <2>1, ResolveIs
  <2>3. m[k].id = k \/ (k \in Mixed(b) /\ m[k].id \in Mixed(b))
    BY <1>8 DEF OwnIds
  <2> QED
    BY <1>3, <1>8, <2>2, <2>3
<1> QED
  BY <1>6, <1>7, <1>8

LEMMA BatchKeepsIds ==
  ASSUME NEW b \in Batches, NEW map \in Maps, NEW now \in Nat, OwnIds(map, b)
  PROVE  OwnIds(ApplyBatch(b, map, now), b)
<1>0. PICK n \in Nat : n = Len(Ops(b))
  BY OpsAre
<1>1. PICK g : /\ g = MapsAfter(b, map, now)
               /\ ApplyBatch(b, map, now) = g[n] /\ g[0] = map
               /\ \A i \in 0..n : g[i] \in Maps
               /\ \A i \in 1..n : g[i] = ApplyOp(g[i - 1], Ops(b)[i], now)
  <2>1. PICK g : g = MapsAfter(b, map, now)
    OBVIOUS
  <2>2. /\ ApplyBatch(b, map, now) = g[n] /\ g[0] = map
        /\ \A i \in 0..n : g[i] \in Maps
        /\ \A i \in 1..n : g[i] = ApplyOp(g[i - 1], Ops(b)[i], now)
    BY <1>0, <2>1, BatchIsApplied, ZenonT(60)
  <2> QED
    BY <2>1, <2>2
<1> DEFINE Odd == {j \in Nat : j <= n /\ ~ OwnIds(g[j], b)}
<1>2. Odd = {}
  <2> SUFFICES ASSUME Odd # {} PROVE FALSE
    OBVIOUS
  <2>1. PICK j \in Odd : \A i \in Odd : j <= i
    BY Least
  <2>2. j # 0
    BY <1>1
  <2>3. PICK i \in Nat : j = i + 1
    BY <2>2
  <2>4. OwnIds(g[i], b)
    BY <2>1, <2>3
  <2>5. g[j] = ApplyOp(g[i], Ops(b)[j], now) /\ g[i] \in Maps /\ j \in 1..Len(Ops(b))
    BY <1>0, <1>1, <2>3
  <2>6. ~ OwnIds(g[j], b)
    OBVIOUS
  <2>7. OwnIds(ApplyOp(g[i], Ops(b)[j], now), b)
    BY <2>4, <2>5, RoundKeepsIds, Zenon
  <2> QED
    BY <2>5, <2>6, <2>7
<1>3. OwnIds(g[n], b)
  BY <1>2
<1> QED
  BY <1>1, <1>3

-----------------------------------------------------------------------------
\* Devices and calls as functions; the ids of the rows that calls have in hand;
\* and a device waits for a call of its next batch.
SyncTyped ==
  /\ SyncTypeOK
  /\ acked \in [Clients -> Nat]
  /\ call \in [Calls -> {Idle} \cup Call]
  /\ \A c \in Calls : call[c] # Idle => OwnIds(call[c].map, call[c].batch)

WaitInv ==
  \A d \in Clients :
    waiting[d] # NoCall =>
      /\ call[waiting[d]] # Idle
      /\ call[waiting[d]].batch = <<d, acked[d] + 1>>

LEMMA CallIs ==
  ASSUME NEW x \in Call
  PROVE  /\ x # Idle /\ x.batch \in Batches /\ x.map \in Maps /\ x.stale \subseteq Docs
         /\ x.batch[1] \in Clients
<1>1. x.batch \in Batches /\ x.map \in Maps /\ x.stale \subseteq Docs
  BY DEF Call, Maps, Row
<1>2. "map" \in DOMAIN x /\ "map" \notin DOMAIN Idle
  BY DEF Call, Idle
<1> QED
  BY <1>1, <1>2, OpsAre

\* The documents of a batch are documents.
LEMMA TouchedIs ==
  ASSUME NEW b \in Batches
  PROVE  Touched(b) \subseteq Docs
<1>1. \A i \in DOMAIN Ops(b) : Ops(b)[i] \in Operation
  BY OpsAre, LenProperties
<1> QED
  BY <1>1 DEF Touched, Operation

LEMMA MapsIs == Maps = [Docs -> Row \cup {NoRow}]
BY DEF Maps

\* Of the documents whose rows go to an id, one is written last.
LEMMA LastIs ==
  ASSUME NEW b \in Batches, NEW F \in SUBSET Touched(b), F # {}
  PROVE  \E j \in F : \A x \in F \ {j} : After(b, j, x)
<1>0. PICK n \in Nat : n = Len(Ops(b))
  BY OpsAre
<1>1. DOMAIN Ops(b) = 1..n
  BY <1>0, OpsAre, LenProperties
<1> DEFINE T == {n - i : i \in {x \in 1..n : Ops(b)[x].doc \in F}}
<1>2. T \subseteq Nat /\ T # {}
  <2>1. T \subseteq Nat
    OBVIOUS
  <2>2. PICK j \in F : j \in Touched(b)
    OBVIOUS
  <2>3. PICK i \in 1..n : Ops(b)[i].doc = j
    BY <1>1, <2>2 DEF Touched
  <2>4. n - i \in T
    BY <2>2, <2>3
  <2> QED
    BY <2>1, <2>4
<1>3. PICK t \in T : \A y \in T : t <= y
  BY <1>2, Least
<1>4. PICK i \in 1..n : t = n - i /\ Ops(b)[i].doc \in F
  OBVIOUS
<1>5. \A x \in 1..n : Ops(b)[x].doc \in F => x <= i
  <2> SUFFICES ASSUME NEW x \in 1..n, Ops(b)[x].doc \in F PROVE x <= i
    OBVIOUS
  <2>1. n - x \in T
    OBVIOUS
  <2>2. n - i <= n - x
    BY <1>3, <1>4, <2>1
  <2> HIDE DEF T
  <2> QED
    BY <2>2
<1>6. PICK j \in F : Ops(b)[i].doc = j
  BY <1>4
<1>7. ASSUME NEW x \in F, x # j PROVE After(b, j, x)
  <2>1. \A y \in 1..n : Ops(b)[y].doc = x => y < i
    BY <1>5, <1>6, <1>7
  <2> QED
    BY <1>1, <1>6, <2>1 DEF After
<1> QED
  BY <1>7

\* The rows as a transaction leaves them.
LEMMA CommitWrites ==
  ASSUME SyncTyped, NEW c \in Calls, Commit(c), NEW b \in Batches, call[c].batch = b,
         NEW map \in Maps, call[c].map = map, NEW k \in Docs
  PROVE  /\ table'[k] \in Row \cup {NoRow}
         /\ table'[k] # NoRow => table'[k].id = k
         /\ k \notin Mixed(b) =>
              DataOf(table')[k] = IF k \in Touched(b) THEN DataOf(map)[k] ELSE DataOf(table)[k]
<1> USE SyncAssumption
<1>0. /\ table \in Maps /\ Now(c) \in Nat
      /\ table[k] # NoRow => table[k].id = k
      /\ OwnIds(map, b)
  BY MapsIs DEF SyncTyped, SyncTypeOK, Now, Commit
<1>1. PICK F \in SUBSET Touched(b) : F = {j \in Touched(b) : map[j] # NoRow /\ map[j].id = k}
  OBVIOUS
<1>2. Touched(b) \subseteq Docs
  BY TouchedIs
<1>3. table'[k] = IF k \in Touched(b) /\ map[k] = NoRow THEN NoRow ELSE Upserted(c, k)
  BY DEF Commit, Written
<1>4. CASE F = {}
  <2>1. Upserted(c, k) = table[k]
    BY <1>1, <1>4 DEF Upserted, Written
  <2>2. k \in Touched(b) /\ k \notin Mixed(b) => map[k] = NoRow
    BY <1>0, <1>1, <1>4 DEF OwnIds
  <2>3. table[k] \in Row \cup {NoRow}
    BY <1>0 DEF Maps
  <2> QED
    BY <1>0, <1>3, <2>1, <2>2, <2>3 DEF DataOf
<1>5. CASE F # {}
  <2>1. PICK j \in F : j = CHOOSE x \in F : \A y \in F \ {x} : After(b, x, y)
    <3>1. \E x \in F : \A y \in F \ {x} : After(b, x, y)
      BY <1>5, LastIs, Zenon
    <3> QED
      BY <3>1, Zenon
  <2>2. Upserted(c, k) = [map[j] EXCEPT !.stamp = Now(c)]
    BY <1>1, <1>5, <2>1 DEF Upserted, Written
  <2>3. j \in Docs /\ map[j] \in Row /\ map[j].id = k
    BY <1>1, <1>2, <2>1 DEF Maps
  <2>4. PICK u \in Row : u = [map[j] EXCEPT !.stamp = Now(c)]
    BY <1>0, <2>3 DEF Row
  <2>5. u.id = k /\ u.data = map[j].data /\ u # NoRow
    BY <2>3, <2>4, NoRowIsNone DEF Row
  <2>6. k \notin Mixed(b) => j = k
    BY <1>0, <1>1, <2>1, <2>3 DEF OwnIds
  <2>7. k \notin Mixed(b) => k \in Touched(b) /\ map[k] # NoRow
    <3>1. j \in Touched(b) /\ map[j] # NoRow
      BY <1>1
    <3> QED
      BY <2>6, <3>1, Zenon
  <2>8. table'[k] = NoRow \/ table'[k] = u
    BY <1>3, <2>2, <2>4
  <2>9. k \notin Mixed(b) => table'[k] = u /\ u.data = map[k].data
    BY <1>3, <2>2, <2>4, <2>5, <2>6, <2>7
  <2>10. k \notin Mixed(b) => DataOf(table')[k] = DataOf(map)[k]
    BY <2>5, <2>7, <2>9 DEF DataOf
  <2>11. table'[k] \in Row \cup {NoRow} /\ (table'[k] # NoRow => table'[k].id = k)
    BY <2>4, <2>5, <2>8
  <2>12. k \notin Mixed(b) =>
          DataOf(table')[k] = IF k \in Touched(b) THEN DataOf(map)[k] ELSE DataOf(table)[k]
    BY <2>7, <2>10
  <2> QED
    BY <2>11, <2>12
<1> QED
  BY <1>4, <1>5

\* What a transaction does, stated part by part.
LEMMA CommitIs ==
  ASSUME SyncTyped, WaitInv, NEW c \in Calls, Commit(c)
  PROVE  \E b \in Batches :
           /\ call[c] \in Call /\ call[c].batch = b
           /\ table' \in Maps
           /\ \A k \in Docs : table'[k] # NoRow => table'[k].id = k
           /\ \A k \in Docs \ Mixed(b) :
                DataOf(table')[k] = IF k \in Touched(b) THEN DataOf(call[c].map)[k]
                                    ELSE DataOf(table)[k]
           /\ \A x \in Calls :
                /\ x = c => call'[x] = Idle
                /\ x # c /\ call[x] = Idle => call'[x] = Idle
                /\ x # c /\ call[x] # Idle =>
                     /\ call'[x] \in Call /\ call'[x].batch = call[x].batch
                     /\ call'[x].map = call[x].map /\ call[x].stale \subseteq call'[x].stale
                     /\ call[x].batch # b =>
                          Touched(b) \cap Touched(call[x].batch) \subseteq call'[x].stale
           /\ call' \in [Calls -> {Idle} \cup Call]
           /\ acked' \in [Clients -> Nat]
           /\ waiting' \in [Clients -> Calls \cup {NoCall}]
           /\ \A d \in Clients :
                \/ waiting'[d] = NoCall /\ acked'[d] \in {acked[d], acked[d] + 1}
                   /\ acked'[d] \in 0..Len(Queue[d])
                \/ waiting[d] # c /\ waiting'[d] = waiting[d] /\ acked'[d] = acked[d]
<1> USE SyncAssumption
<1>0. /\ table \in Maps /\ clock \in Nat /\ Now(c) \in Nat
      /\ waiting \in [Clients -> Calls \cup {NoCall}]
      /\ call \in [Calls -> {Idle} \cup Call]
      /\ acked \in [Clients -> Nat]
      /\ \A d \in Clients : acked[d] \in 0..Len(Queue[d])
  BY MapsIs DEF SyncTyped, SyncTypeOK, Now
<1>1. call[c] \in Call
  BY <1>0 DEF Commit
<1>2. PICK b \in Batches : call[c].batch = b
  BY <1>1, CallIs
<1>3. PICK map \in Maps : call[c].map = map
  BY <1>1, CallIs
<1>4. /\ DOMAIN table' = Docs /\ table' = [k \in Docs |-> table'[k]]
      /\ IF Awaited(c)
         THEN /\ acked' = [acked EXCEPT ![b[1]] = @ + 1]
              /\ waiting' = [waiting EXCEPT ![b[1]] = NoCall]
         ELSE UNCHANGED <<acked, waiting>>
      /\ call' = [x \in Calls |->
                    IF x = c THEN Idle
                    ELSE IF call[x] = Idle \/ call[x].batch = b THEN call[x]
                    ELSE [call[x] EXCEPT !.stale = @ \cup (Touched(b) \cap Touched(call[x].batch))]]
  BY <1>2, <1>3 DEF Commit
<1>5. \A k \in Docs :
        /\ table'[k] \in Row \cup {NoRow}
        /\ table'[k] # NoRow => table'[k].id = k
        /\ k \notin Mixed(b) =>
             DataOf(table')[k] = IF k \in Touched(b) THEN DataOf(map)[k] ELSE DataOf(table)[k]
  BY <1>2, <1>3, CommitWrites
<1>7. table' \in Maps
  BY <1>4, <1>5 DEF Maps
<1>9. ASSUME NEW x \in Calls
       PROVE  /\ call'[x] \in {Idle} \cup Call
              /\ x = c => call'[x] = Idle
              /\ x # c /\ call[x] = Idle => call'[x] = Idle
              /\ x # c /\ call[x] # Idle =>
                   /\ call'[x] \in Call /\ call'[x].batch = call[x].batch
                   /\ call'[x].map = call[x].map /\ call[x].stale \subseteq call'[x].stale
                   /\ call[x].batch # b =>
                        Touched(b) \cap Touched(call[x].batch) \subseteq call'[x].stale
  <2>1. CASE x = c \/ call[x] = Idle
    BY <1>4, <2>1
  <2>2. CASE x # c /\ call[x] # Idle /\ call[x].batch = b
    <3>1. call'[x] = call[x] /\ call[x] \in Call
      BY <1>0, <1>4, <2>2
    <3> QED
      BY <2>2, <3>1
  <2>3. CASE x # c /\ call[x] # Idle /\ call[x].batch # b
    <3>1. PICK y \in Call : y = call[x]
      BY <1>0, <2>3
    <3>2. PICK S \in SUBSET Docs : S = Touched(b) \cap Touched(call[x].batch)
      BY <1>2, TouchedIs
    <3>3. call'[x] = [y EXCEPT !.stale = y.stale \cup S]
      BY <1>4, <2>3, <3>1, <3>2
    <3>4. /\ call'[x] \in Call /\ call'[x].batch = call[x].batch
          /\ call'[x].map = call[x].map /\ call'[x].stale = call[x].stale \cup S
      BY <3>1, <3>3 DEF Call
    <3> QED
      BY <2>3, <3>2, <3>4
  <2> QED
    BY <2>1, <2>2, <2>3
<1>10. call' \in [Calls -> {Idle} \cup Call]
  <2>1. call' = [x \in Calls |-> call'[x]]
    BY <1>4
  <2> QED
    BY <1>9, <2>1
<1>11. b[1] \in Clients
  BY OpsAre
<1>12. Awaited(c) <=> waiting[b[1]] = c
  BY <1>2 DEF Awaited
<1>13. waiting[b[1]] = c => acked[b[1]] + 1 \in 0..Len(Queue[b[1]])
  <2> SUFFICES ASSUME waiting[b[1]] = c PROVE acked[b[1]] + 1 \in 0..Len(Queue[b[1]])
    OBVIOUS
  <2>1. b = <<b[1], acked[b[1]] + 1>>
    BY <1>2, <1>11 DEF WaitInv
  <2>2. b[2] = acked[b[1]] + 1
    BY <2>1
  <2> QED
    BY <2>2, OpsAre
<1>14. /\ acked' \in [Clients -> Nat]
       /\ waiting' \in [Clients -> Calls \cup {NoCall}]
  <2>1. CASE Awaited(c)
    <3>1. PICK d \in Clients : d = b[1]
      BY <1>11
    <3>2. /\ acked' = [acked EXCEPT ![d] = acked[d] + 1]
          /\ waiting' = [waiting EXCEPT ![d] = NoCall]
      BY <1>4, <2>1, <3>1
    <3> QED
      BY <1>0, <3>2
  <2>2. CASE ~ Awaited(c)
    BY <1>0, <1>4, <2>2
  <2> QED
    BY <2>1, <2>2
<1>15. ASSUME NEW d \in Clients
       PROVE  \/ /\ waiting'[d] = NoCall /\ acked'[d] \in {acked[d], acked[d] + 1}
                 /\ acked'[d] \in 0..Len(Queue[d])
              \/ waiting[d] # c /\ waiting'[d] = waiting[d] /\ acked'[d] = acked[d]
  <2>1. CASE Awaited(c) /\ d = b[1]
    BY <1>0, <1>4, <1>11, <1>12, <1>13, <2>1
  <2>2. CASE Awaited(c) /\ d # b[1]
    <3>1. waiting'[d] = waiting[d] /\ acked'[d] = acked[d]
      BY <1>0, <1>4, <2>2
    <3>2. waiting[d] # c
      <4> SUFFICES ASSUME waiting[d] = c PROVE FALSE
        OBVIOUS
      <4>1. b = <<d, acked[d] + 1>>
        BY <1>2 DEF WaitInv
      <4> QED
        BY <2>2, <4>1
    <3> QED
      BY <3>1, <3>2
  <2>3. CASE ~ Awaited(c)
    <3>1. waiting'[d] = waiting[d] /\ acked'[d] = acked[d]
      BY <1>4, <2>3
    <3>2. waiting[d] # c
      <4> SUFFICES ASSUME waiting[d] = c PROVE FALSE
        OBVIOUS
      <4>1. b = <<d, acked[d] + 1>>
        BY <1>2 DEF WaitInv
      <4>2. b[1] = d
        BY <4>1
      <4> QED
        BY <1>12, <2>3, <4>2
    <3> QED
      BY <3>1, <3>2
  <2> QED
    BY <2>1, <2>2, <2>3
<1>16. /\ \A k \in Docs : table'[k] # NoRow => table'[k].id = k
       /\ \A k \in Docs \ Mixed(b) :
            DataOf(table')[k] = IF k \in Touched(b) THEN DataOf(call[c].map)[k]
                                ELSE DataOf(table)[k]
  BY <1>3, <1>5
<1> QED
  BY <1>1, <1>2, <1>7, <1>9, <1>10, <1>14, <1>15, <1>16

(***************************************************************************)
(* A call in hand has, for the documents that nothing has come across, what *)
(* its batch makes of the data with every batch counted once; and a batch   *)
(* that was counted would change nothing any more, up to what others wrote  *)
(* since.                                                                   *)
(***************************************************************************)
CopiesInv ==
  /\ \A c \in Calls : call[c] # Idle =>
       \A k \in Touched(call[c].batch) :
         /\ k \notin disturbed /\ k \notin call[c].stale
         /\ call[c].batch \in DOMAIN later => k \notin later[call[c].batch]
         => DataOf(call[c].map)[k] = EffectOn(call[c].batch, k, once[k])
  /\ \A b \in DOMAIN later : \A k \in Touched(b) :
       k \notin later[b] /\ k \notin disturbed => EffectOn(b, k, once[k]) = once[k]

\* A batch is counted with its first transaction; a copy changes nothing.
LEMMA CommitCounts ==
  ASSUME SyncTyped, WaitInv, BatchesCountOnce, CopiesInv, NEW c \in Calls, Commit(c)
  PROVE  SyncTyped' /\ WaitInv' /\ BatchesCountOnce' /\ CopiesInv'
<1>0. /\ once \in Contents /\ disturbed \subseteq Docs /\ clock \in 0..MaxClock
      /\ lost \in 0..MaxLost
      /\ \A x \in DOMAIN later : x \in Batches /\ later[x] \subseteq Docs
  BY DEF SyncTyped, SyncTypeOK, Contents
<1>1. PICK b \in Batches :
        /\ call[c] \in Call /\ call[c].batch = b
        /\ table' \in Maps
        /\ \A k \in Docs : table'[k] # NoRow => table'[k].id = k
        /\ \A k \in Docs \ Mixed(b) :
             DataOf(table')[k] = IF k \in Touched(b) THEN DataOf(call[c].map)[k]
                                 ELSE DataOf(table)[k]
        /\ \A x \in Calls :
             /\ x = c => call'[x] = Idle
             /\ x # c /\ call[x] = Idle => call'[x] = Idle
             /\ x # c /\ call[x] # Idle =>
                  /\ call'[x] \in Call /\ call'[x].batch = call[x].batch
                  /\ call'[x].map = call[x].map /\ call[x].stale \subseteq call'[x].stale
                  /\ call[x].batch # b =>
                       Touched(b) \cap Touched(call[x].batch) \subseteq call'[x].stale
        /\ call' \in [Calls -> {Idle} \cup Call]
        /\ acked' \in [Clients -> Nat]
        /\ waiting' \in [Clients -> Calls \cup {NoCall}]
        /\ \A d \in Clients :
             \/ waiting'[d] = NoCall /\ acked'[d] \in {acked[d], acked[d] + 1}
                /\ acked'[d] \in 0..Len(Queue[d])
             \/ waiting[d] # c /\ waiting'[d] = waiting[d] /\ acked'[d] = acked[d]
  BY CommitIs
<1>2. PICK S \in SUBSET Docs : S = call[c].stale
  BY <1>1, CallIs
<1>3. Touched(b) \subseteq Docs /\ Mixed(b) \subseteq Docs
  BY TouchedIs, MixedIs
<1>4. /\ UNCHANGED <<clock, lost>>
      /\ once' = IF b \in DOMAIN later THEN once ELSE Effect(b, once)
      /\ later' = [x \in DOMAIN later \cup {b} |->
                     IF x = b THEN (IF b \in DOMAIN later THEN later[b] ELSE {})
                     ELSE later[x] \cup Touched(b)]
      /\ disturbed' = disturbed \cup S \cup Mixed(b)
                        \cup (IF b \in DOMAIN later THEN later[b] \cap Touched(b) ELSE {})
  BY <1>1, <1>2 DEF Commit
<1>5. /\ disturbed \subseteq disturbed' /\ S \subseteq disturbed' /\ disturbed' \subseteq Docs
      /\ Mixed(b) \subseteq disturbed'
      /\ b \in DOMAIN later => later[b] \cap Touched(b) \subseteq disturbed'
  BY <1>0, <1>2, <1>3, <1>4
<1>6. /\ DOMAIN later' = DOMAIN later \cup {b}
      /\ \A x \in DOMAIN later : x # b => later'[x] = later[x] \cup Touched(b)
      /\ b \in DOMAIN later => later'[b] = later[b]
      /\ b \notin DOMAIN later => later'[b] = {}
  BY <1>4
<1>7. \A k \in Docs : once[k] \in Data \cup {NoRow}
  BY <1>0 DEF Contents
<1>8. \A k \in Docs : once'[k] = IF b \in DOMAIN later THEN once[k] ELSE EffectOn(b, k, once[k])
  BY <1>0, <1>4, EffectIs
<1>9. \A k \in Docs : k \notin Touched(b) => once'[k] = once[k]
  BY <1>7, <1>8, EffectIs
<1>10. once' \in Contents
  <2>1. DOMAIN once' = Docs /\ once' = [k \in Docs |-> once'[k]]
    BY <1>0, <1>4 DEF Effect, DataOf, Contents
  <2>2. \A k \in Docs : once'[k] \in Data \cup {NoRow}
    BY <1>7, <1>8, EffectIs
  <2> QED
    BY <2>1, <2>2 DEF Contents
<1>11. SyncTyped'
  <2>1. \A x \in DOMAIN later' : x \in Batches /\ later'[x] \subseteq Docs
    BY <1>0, <1>3, <1>6
  <2>2. \A d \in Clients : acked'[d] \in 0..Len(Queue[d])
    BY <1>1 DEF SyncTyped, SyncTypeOK
  <2>3. \A x \in Calls : call'[x] = Idle \/ call'[x] \in Call
    BY <1>1
  <2>4. SyncTypeOK'
    BY <1>0, <1>1, <1>4, <1>5, <1>10, <2>1, <2>2, <2>3, MapsIs DEF SyncTypeOK, Contents
  <2>5. \A x \in Calls : call'[x] # Idle => OwnIds(call'[x].map, call'[x].batch)
    BY <1>1 DEF SyncTyped
  <2> QED
    BY <1>1, <2>4, <2>5 DEF SyncTyped, OwnIds
<1>12. WaitInv'
  <2> SUFFICES ASSUME NEW d \in Clients, waiting'[d] # NoCall
               PROVE  /\ call'[waiting'[d]] # Idle
                      /\ call'[waiting'[d]].batch = <<d, acked'[d] + 1>>
    BY DEF WaitInv
  <2>1. /\ waiting[d] # c /\ waiting'[d] = waiting[d] /\ acked'[d] = acked[d]
        /\ waiting[d] \in Calls
    BY <1>1 DEF SyncTyped, SyncTypeOK
  <2>2. /\ call[waiting[d]] # Idle
        /\ call[waiting[d]].batch = <<d, acked[d] + 1>>
    BY <2>1 DEF WaitInv
  <2> QED
    BY <1>1, <2>1, <2>2, CallIs
\* The documents of the batch that nothing has come across.
<1>13. ASSUME NEW k \in Touched(b), k \notin disturbed'
       PROVE  /\ DataOf(call[c].map)[k] = EffectOn(b, k, once[k])
              /\ EffectOn(b, k, once[k]) = once'[k]
              /\ EffectOn(b, k, once'[k]) = once'[k]
  <2>1. k \in Docs /\ k \notin disturbed /\ k \notin call[c].stale
    BY <1>2, <1>3, <1>5, <1>13
  <2>2. b \in DOMAIN later => k \notin later[b]
    BY <1>5, <1>13
  <2>3. DataOf(call[c].map)[k] = EffectOn(b, k, once[k])
    BY <1>1, <2>1, <2>2, CallIs DEF CopiesInv
  <2>4. CASE b \in DOMAIN later
    <3>1. EffectOn(b, k, once[k]) = once[k]
      BY <2>1, <2>2, <2>4 DEF CopiesInv
    <3> QED
      BY <1>8, <2>1, <2>3, <2>4, <3>1
  <2>5. CASE b \notin DOMAIN later
    <3>1. once'[k] = EffectOn(b, k, once[k])
      BY <1>8, <2>1, <2>5
    <3>2. EffectOn(b, k, EffectOn(b, k, once[k])) = EffectOn(b, k, once[k])
      BY <1>7, <2>1, EffectIs
    <3> QED
      BY <2>3, <3>1, <3>2
  <2> QED
    BY <2>4, <2>5
<1>14. BatchesCountOnce'
  <2> SUFFICES ASSUME NEW k \in Docs, k \notin disturbed' PROVE DataOf(table')[k] = once'[k]
    BY DEF BatchesCountOnce
  <2>1. CASE k \in Touched(b)
    BY <1>1, <1>5, <1>13, <2>1
  <2>2. CASE k \notin Touched(b)
    <3>1. DataOf(table)[k] = once[k]
      BY <1>5 DEF BatchesCountOnce
    <3> QED
      BY <1>1, <1>5, <1>9, <2>2, <3>1
  <2> QED
    BY <2>1, <2>2
<1>15. ASSUME NEW x \in Calls, call'[x] # Idle, NEW k \in Touched(call'[x].batch),
              k \notin disturbed', k \notin call'[x].stale,
              call'[x].batch \in DOMAIN later' => k \notin later'[call'[x].batch]
       PROVE  DataOf(call'[x].map)[k] = EffectOn(call'[x].batch, k, once'[k])
  <2>1. x # c /\ call[x] # Idle
    BY <1>1, <1>15
  <2>2. PICK a \in Batches : call[x].batch = a /\ call'[x].batch = a
    BY <1>1, <2>1, CallIs
  <2>3. /\ call'[x].map = call[x].map /\ k \in Touched(a) /\ k \in Docs
        /\ k \notin call[x].stale /\ k \notin disturbed
        /\ a # b => k \notin Touched(b)
    BY <1>1, <1>5, <1>15, <2>1, <2>2, TouchedIs
  <2>4. a \in DOMAIN later => k \notin later[a]
    BY <1>6, <1>15, <2>2
  <2>5. DataOf(call[x].map)[k] = EffectOn(a, k, once[k])
    BY <2>1, <2>2, <2>3, <2>4 DEF CopiesInv
  <2>6. CASE a = b
    BY <1>13, <1>15, <2>2, <2>3, <2>5, <2>6
  <2>7. CASE a # b
    BY <1>9, <2>2, <2>3, <2>5, <2>7
  <2> QED
    BY <2>6, <2>7
<1>16. ASSUME NEW a \in DOMAIN later', NEW k \in Touched(a), k \notin later'[a], k \notin disturbed'
       PROVE  EffectOn(a, k, once'[k]) = once'[k]
  <2>1. CASE a = b
    BY <1>13, <1>16, <2>1
  <2>2. CASE a # b
    <3>1. a \in DOMAIN later /\ a \in Batches /\ k \in Docs
      BY <1>0, <1>6, <2>2, TouchedIs
    <3>2. k \notin later[a] /\ k \notin Touched(b) /\ k \notin disturbed
      BY <1>5, <1>6, <1>16, <2>2, <3>1
    <3>3. EffectOn(a, k, once[k]) = once[k]
      BY <3>1, <3>2 DEF CopiesInv
    <3> QED
      BY <1>9, <3>1, <3>2, <3>3
  <2> QED
    BY <2>1, <2>2
<1>17. CopiesInv'
  BY <1>15, <1>16 DEF CopiesInv
<1> QED
  BY <1>11, <1>12, <1>14, <1>17

\* A call that is taken up resolves its batch against rows that are not ahead.
LEMMA UploadCounts ==
  ASSUME SyncTyped, WaitInv, BatchesCountOnce, CopiesInv,
         NEW c \in Calls, NEW d \in Clients, Upload(c, d)
  PROVE  SyncTyped' /\ WaitInv' /\ BatchesCountOnce' /\ CopiesInv'
<1> USE SyncAssumption
<1>0. /\ table \in Maps /\ clock \in Nat /\ Now(c) \in Nat
      /\ waiting \in [Clients -> Calls \cup {NoCall}]
      /\ call \in [Calls -> {Idle} \cup Call]
  BY MapsIs DEF SyncTyped, SyncTypeOK, Now
<1>1. PICK b \in Batches : b = <<d, acked[d] + 1>>
  BY DEF Upload
<1>2. PICK map \in Maps : map = ApplyBatch(b, table, Now(c))
  <2>1. ApplyBatch(b, table, Now(c)) \in Maps
    BY <1>0, BatchIsApplied, Zenon
  <2> QED
    BY <2>1
<1>3. PICK S \in SUBSET Docs : S = Ahead(c, b)
  BY TouchedIs DEF Ahead
<1>4. PICK y \in Call : y = [batch |-> b, map |-> map, stale |-> S]
  BY MapsIs DEF Call
<1>5. /\ call[c] = Idle /\ waiting[d] = NoCall
      /\ call' = [call EXCEPT ![c] = y]
      /\ waiting' = [waiting EXCEPT ![d] = c]
      /\ UNCHANGED <<table, clock, acked, lost, once, later, disturbed>>
  BY <1>1, <1>2, <1>3, <1>4 DEF Upload
<1>6. /\ call' \in [Calls -> {Idle} \cup Call]
      /\ waiting' \in [Clients -> Calls \cup {NoCall}]
      /\ call'[c] = y /\ \A x \in Calls : x # c => call'[x] = call[x]
      /\ waiting'[d] = c /\ \A e \in Clients : e # d => waiting'[e] = waiting[e]
  BY <1>0, <1>5
<1>8. y # Idle /\ y.batch = b /\ y.map = map /\ y.stale = S
  BY <1>4, CallIs
<1>7. SyncTyped'
  <2>1. SyncTypeOK'
    BY <1>5, <1>6 DEF SyncTyped, SyncTypeOK
  <2>2. OwnIds(table, b)
    BY DEF SyncTyped, SyncTypeOK, OwnIds
  <2>3. OwnIds(map, b)
    BY <1>0, <1>2, <2>2, BatchKeepsIds
  <2>4. \A x \in Calls : call'[x] # Idle => OwnIds(call'[x].map, call'[x].batch)
    BY <1>6, <1>8, <2>3 DEF SyncTyped
  <2> QED
    BY <1>5, <1>6, <2>1, <2>4 DEF SyncTyped, OwnIds
<1>9. WaitInv'
  <2> SUFFICES ASSUME NEW e \in Clients, waiting'[e] # NoCall
               PROVE  /\ call'[waiting'[e]] # Idle
                      /\ call'[waiting'[e]].batch = <<e, acked'[e] + 1>>
    BY DEF WaitInv
  <2>1. CASE e = d
    BY <1>1, <1>5, <1>6, <1>8, <2>1
  <2>2. CASE e # d
    <3>1. waiting'[e] = waiting[e] /\ waiting[e] \in Calls
      BY <1>0, <1>6, <2>2
    <3>2. call[waiting[e]] # Idle /\ call[waiting[e]].batch = <<e, acked[e] + 1>>
      BY <3>1 DEF WaitInv
    <3> QED
      BY <1>5, <1>6, <3>1, <3>2
  <2> QED
    BY <2>1, <2>2
<1>10. BatchesCountOnce'
  BY <1>5 DEF BatchesCountOnce
<1>11. ASSUME NEW k \in Touched(b), k \notin disturbed, k \notin S
       PROVE  DataOf(map)[k] = EffectOn(b, k, once[k])
  <2>1. k \in Docs
    BY TouchedIs
  <2>2. Fresh(table, k, Now(c))
    <3>1. table[k] = NoRow \/ ~ (table[k].stamp > Now(c))
      BY <1>3, <1>11 DEF Ahead
    <3>2. table[k] # NoRow => table[k].stamp \in Nat
      BY <1>0, <2>1 DEF Maps, Row
    <3> QED
      BY <1>0, <3>1, <3>2 DEF Fresh
  <2>3. DataOf(map)[k] = EffectOn(b, k, DataOf(table)[k])
    BY <1>0, <1>2, <2>1, <2>2, EffectIs
  <2>4. DataOf(table)[k] = once[k]
    BY <1>11, <2>1 DEF BatchesCountOnce
  <2> QED
    BY <2>3, <2>4
<1>12. ASSUME NEW x \in Calls, call'[x] # Idle, NEW k \in Touched(call'[x].batch),
              k \notin disturbed, k \notin call'[x].stale,
              call'[x].batch \in DOMAIN later => k \notin later[call'[x].batch]
       PROVE  DataOf(call'[x].map)[k] = EffectOn(call'[x].batch, k, once[k])
  <2>1. CASE x = c
    BY <1>6, <1>8, <1>11, <1>12, <2>1
  <2>2. CASE x # c
    <3>1. call'[x] = call[x]
      BY <1>6, <2>2
    <3> QED
      BY <1>12, <3>1 DEF CopiesInv
  <2> QED
    BY <2>1, <2>2
<1>13. CopiesInv'
  <2>1. \A a \in DOMAIN later' : \A k \in Touched(a) :
          k \notin later'[a] /\ k \notin disturbed' => EffectOn(a, k, once'[k]) = once'[k]
    BY <1>5 DEF CopiesInv
  <2> QED
    BY <1>5, <1>12, <2>1 DEF CopiesInv
<1> QED
  BY <1>7, <1>9, <1>10, <1>13

LEMMA SyncStep ==
  ASSUME SyncTyped, WaitInv, BatchesCountOnce, CopiesInv, [SyncNext]_syncVars
  PROVE  SyncTyped' /\ WaitInv' /\ BatchesCountOnce' /\ CopiesInv'
<1> USE SyncAssumption
<1>0. /\ waiting \in [Clients -> Calls \cup {NoCall}]
      /\ call \in [Calls -> {Idle} \cup Call]
      /\ lost \in 0..MaxLost /\ clock \in 0..MaxClock
  BY DEF SyncTyped, SyncTypeOK
<1>1. ASSUME NEW d \in Clients, Timeout(d)
      PROVE  SyncTyped' /\ WaitInv' /\ BatchesCountOnce' /\ CopiesInv'
  <2>1. /\ UNCHANGED <<table, clock, acked, call, once, later, disturbed>>
        /\ lost' \in 0..MaxLost
        /\ waiting' = [waiting EXCEPT ![d] = NoCall]
    BY <1>0, <1>1 DEF Timeout
  <2>2. waiting' \in [Clients -> Calls \cup {NoCall}]
    BY <1>0, <2>1
  <2>3. SyncTyped'
    BY <2>1, <2>2 DEF SyncTyped, SyncTypeOK
  <2>4. \A e \in Clients : waiting'[e] # NoCall => waiting'[e] = waiting[e]
    BY <1>0, <2>1
  <2>5. WaitInv'
    BY <2>1, <2>4 DEF WaitInv
  <2>6. BatchesCountOnce'
    BY <2>1 DEF BatchesCountOnce
  <2>7. CopiesInv'
    BY <2>1 DEF CopiesInv
  <2> QED
    BY <2>3, <2>5, <2>6, <2>7
<1>2. ASSUME NEW c \in Calls, Abort(c)
      PROVE  SyncTyped' /\ WaitInv' /\ BatchesCountOnce' /\ CopiesInv'
  <2>1. PICK d \in Clients : d = call[c].batch[1]
    BY <1>0, <1>2, CallIs DEF Abort
  <2>2. /\ UNCHANGED <<table, clock, acked, once, later, disturbed>>
        /\ lost' \in 0..MaxLost
        /\ call' = [call EXCEPT ![c] = Idle]
        /\ waiting' = [waiting EXCEPT ![d] = IF waiting[d] = c THEN NoCall ELSE waiting[d]]
    BY <1>0, <1>2, <2>1 DEF Abort
  <2>3. /\ waiting' \in [Clients -> Calls \cup {NoCall}]
        /\ call' \in [Calls -> {Idle} \cup Call]
        /\ call'[c] = Idle /\ \A x \in Calls : x # c => call'[x] = call[x]
    BY <1>0, <2>2
  <2>4. SyncTyped'
    BY <2>2, <2>3 DEF SyncTyped, SyncTypeOK
  <2>5. ASSUME NEW e \in Clients, waiting'[e] # NoCall
        PROVE  waiting'[e] = waiting[e] /\ waiting[e] # c /\ waiting[e] \in Calls
    <3>1. waiting'[e] = waiting[e] /\ waiting[e] \in Calls /\ (e = d => waiting[e] # c)
      BY <1>0, <2>2, <2>5
    <3>2. waiting[e] = c => call[c].batch = <<e, acked[e] + 1>>
      BY <2>5, <3>1 DEF WaitInv
    <3> QED
      BY <2>1, <3>1, <3>2
  <2>6. WaitInv'
    BY <2>2, <2>3, <2>5 DEF WaitInv
  <2>7. BatchesCountOnce'
    BY <2>2 DEF BatchesCountOnce
  <2>8. CopiesInv'
    BY <2>2, <2>3 DEF CopiesInv
  <2> QED
    BY <2>4, <2>6, <2>7, <2>8
<1>3. ASSUME UNCHANGED <<table, acked, waiting, call, lost, once, later, disturbed>>,
             clock' \in 0..MaxClock
      PROVE  SyncTyped' /\ WaitInv' /\ BatchesCountOnce' /\ CopiesInv'
  <2>1. SyncTyped'
    BY <1>3 DEF SyncTyped, SyncTypeOK
  <2>2. WaitInv' /\ BatchesCountOnce'
    BY <1>3 DEF WaitInv, BatchesCountOnce
  <2>3. CopiesInv'
    BY <1>3 DEF CopiesInv
  <2> QED
    BY <2>1, <2>2, <2>3
<1>4. CASE SyncTick
  BY <1>0, <1>3, <1>4 DEF SyncTick
<1>5. CASE UNCHANGED syncVars
  BY <1>0, <1>3, <1>5 DEF syncVars
<1> QED
  BY <1>1, <1>2, <1>4, <1>5, CommitCounts, UploadCounts DEF SyncNext

(***************************************************************************)
(* Sending a batch again does no harm: for any batches, any number of       *)
(* devices, calls and documents and any clocks, the rows are what they are  *)
(* when every batch counts once, but for the documents that a race, a late  *)
(* copy, a clock ahead or an id among the data of another has come across.  *)
(***************************************************************************)
THEOREM BatchesOnce == SyncSpec => [](SyncTypeOK /\ BatchesCountOnce)
<1> DEFINE Inv == SyncTyped /\ WaitInv /\ BatchesCountOnce /\ CopiesInv
<1>1. SyncInit => Inv
  <2> USE SyncAssumption
  <2> SUFFICES ASSUME SyncInit PROVE Inv
    OBVIOUS
  <2>1. /\ table = [k \in Docs |-> NoRow] /\ clock = 0 /\ acked = [d \in Clients |-> 0]
        /\ waiting = [d \in Clients |-> NoCall] /\ call = [c \in Calls |-> Idle] /\ lost = 0
        /\ once = [k \in Docs |-> NoRow] /\ later = <<>> /\ disturbed = {}
    BY DEF SyncInit
  <2>2. DOMAIN later = {}
    BY <2>1
  <2>3. \A d \in Clients : Len(Queue[d]) \in Nat
    BY LenProperties
  <2>4. SyncTyped
    BY <2>1, <2>2, <2>3 DEF SyncTyped, SyncTypeOK
  <2>5. WaitInv
    BY <2>1 DEF WaitInv
  <2>6. BatchesCountOnce
    BY <2>1 DEF BatchesCountOnce, DataOf
  <2>7. CopiesInv
    BY <2>1, <2>2 DEF CopiesInv
  <2> QED
    BY <2>4, <2>5, <2>6, <2>7
<1>2. Inv /\ [SyncNext]_syncVars => Inv'
  BY SyncStep
<1>3. Inv => SyncTypeOK /\ BatchesCountOnce
  BY DEF SyncTyped
<1> QED
  BY <1>1, <1>2, <1>3, PTL DEF SyncSpec

-----------------------------------------------------------------------------
(***************************************************************************)
(* The behaviours of Requests are behaviours of each part: whichever part   *)
(* takes the steps, the others stutter, so what the theorems above say of   *)
(* a part holds of Requests as well.                                        *)
(***************************************************************************)
THEOREM PartsAreKept ==
  RequestsSpec =>
    /\ KeySpec /\ DeviceSpec /\ SyncSpec /\ VariantSpec /\ MigrationSpec
    /\ NoticeSpec /\ MatrixSpec
<1>1. RequestsInit => /\ KeyInit /\ DeviceInit /\ SyncInit /\ VariantInit /\ MigrationInit
                      /\ NoticeInit /\ MatrixInit
  BY DEF RequestsInit
<1>2. [RequestsNext]_requestsVars => [KeyNext]_keyVars
  BY Zenon DEF RequestsNext, requestsVars
<1>3. [RequestsNext]_requestsVars => [DeviceNext]_deviceVars
  BY Zenon DEF RequestsNext, requestsVars
<1>4. [RequestsNext]_requestsVars => [SyncNext]_syncVars
  BY Zenon DEF RequestsNext, requestsVars
<1>5. [RequestsNext]_requestsVars => [VariantNext]_variantVars
  BY Zenon DEF RequestsNext, requestsVars
<1>6. [RequestsNext]_requestsVars => [MigrationNext]_migrationVars
  BY Zenon DEF RequestsNext, requestsVars
<1>7. [RequestsNext]_requestsVars => [NoticeNext]_noticeVars
  BY Zenon DEF RequestsNext, requestsVars
<1>8. [RequestsNext]_requestsVars => [MatrixNext]_matrixVars
  BY Zenon DEF RequestsNext, requestsVars
<1> QED
  BY <1>1, <1>2, <1>3, <1>4, <1>5, <1>6, <1>7, <1>8, PTL
     DEF RequestsSpec, KeySpec, DeviceSpec, SyncSpec, VariantSpec, MigrationSpec,
         NoticeSpec, MatrixSpec

\* The state of every part stays well typed.
THEOREM RequestsTypeCorrect == RequestsSpec => []RequestsTypeOK
<1>1. KeyTypeOK /\ (DeviceTypeOK /\ SignInsAreLimited) /\ (SyncTypeOK /\ BatchesCountOnce)
      /\ (VariantTypeOK /\ PassesClear) /\ (MigrationTypeOK /\ LockIsSound)
      /\ (NoticeTypeOK /\ WarnedOnce) /\ (MatrixTypeOK /\ GrantsAreSound)
        => RequestsTypeOK
  BY DEF RequestsTypeOK
<1> QED
  BY <1>1, PartsAreKept, KeyTypeCorrect, SignInsLimited, BatchesOnce, InvalidationClears,
     LockSound, OwnersWarnedOnce, GrantsSound, PTL

=============================================================================
