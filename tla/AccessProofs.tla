---------------------------- MODULE AccessProofs ----------------------------
(***************************************************************************)
(* Proofs about Access, for any number of replicas, callers, sockets,      *)
(* pairs, roles and rights, and any size of the cache.                     *)
(***************************************************************************)
EXTENDS Access, SequenceTheorems, FiniteSetTheorems, TLAPS

-----------------------------------------------------------------------------
(* Orders of keys.                                                         *)

Distinct(s) == \A i, j \in DOMAIN s : s[i] = s[j] => i = j

Lists(s, p) == \E i \in DOMAIN s : s[i] = p

\* Deleting a key keeps the order of the others and nothing else.
LEMMA DeletedIs ==
  ASSUME NEW S, NEW s \in Seq(S), Distinct(s), NEW p
  PROVE  /\ Deleted(s, p) \in Seq(S)
         /\ Distinct(Deleted(s, p))
         /\ \A q : Lists(Deleted(s, p), q) <=> Lists(s, q) /\ q # p
         /\ Len(Deleted(s, p)) = IF Lists(s, p) THEN Len(s) - 1 ELSE Len(s)
<1>1. CASE ~ Lists(s, p)
  BY <1>1 DEF Deleted, Lists, Distinct
<1>2. CASE Lists(s, p)
  <2> DEFINE k == CHOOSE i \in DOMAIN s : s[i] = p
             t == Deleted(s, p)
             u == SubSeq(s, 1, k - 1)
             v == SubSeq(s, k + 1, Len(s))
  <2>1. k \in 1..Len(s) /\ s[k] = p /\ Len(s) \in Nat /\ DOMAIN s = 1..Len(s)
    <3>1. DOMAIN s = 1..Len(s) /\ Len(s) \in Nat
      BY LenProperties
    <3>2. k \in DOMAIN s /\ s[k] = p
      BY <1>2 DEF Lists
    <3> QED
      BY <3>1, <3>2
  <2>2. t = u \o v
    BY <1>2 DEF Deleted, Lists
  <2> HIDE DEF k, t
  <2>3. \A i \in 1..Len(s) : s[i] \in S
    BY <2>1
  <2>4. u \in Seq(S) /\ Len(u) = k - 1 /\ \A i \in 1..k - 1 : u[i] = s[i]
    <3>1. \A i \in 1..k - 1 : s[i] \in S
      BY <2>1, <2>3
    <3>2. 1 \in Int /\ k - 1 \in Int
      BY <2>1
    <3> DEFINE l == k - 1
    <3> HIDE DEF l
    <3>3. /\ SubSeq(s, 1, l) \in Seq(S)
          /\ Len(SubSeq(s, 1, l)) = IF 1 <= l THEN l - 1 + 1 ELSE 0
          /\ \A i \in 1 .. l - 1 + 1 : SubSeq(s, 1, l)[i] = s[1 + i - 1]
      BY <3>1, <3>2, SubSeqProperties DEF l
    <3> QED
      BY <2>1, <3>3 DEF l
  <2>5. v \in Seq(S) /\ Len(v) = Len(s) - k /\ \A i \in 1..Len(s) - k : v[i] = s[k + i]
    <3> DEFINE m == k + 1
               n == Len(s)
    <3>1. \A i \in m..n : s[i] \in S
      BY <2>1, <2>3
    <3>2. m \in Int /\ n \in Int
      BY <2>1
    <3> HIDE DEF m, n
    <3>3. /\ SubSeq(s, m, n) \in Seq(S)
          /\ Len(SubSeq(s, m, n)) = IF m <= n THEN n - m + 1 ELSE 0
          /\ \A i \in 1 .. n - m + 1 : SubSeq(s, m, n)[i] = s[m + i - 1]
      BY <3>1, <3>2, SubSeqProperties
    <3> QED
      BY <2>1, <3>3 DEF m, n
  <2> HIDE DEF u, v
  <2>6. /\ t \in Seq(S) /\ Len(t) = Len(s) - 1 /\ DOMAIN t = 1..Len(s) - 1
        /\ \A i \in 1..Len(s) - 1 : t[i] = IF i < k THEN s[i] ELSE s[i + 1]
    <3>1. /\ t \in Seq(S) /\ Len(t) = Len(u) + Len(v)
          /\ \A i \in 1..Len(t) : t[i] = IF i <= Len(u) THEN u[i] ELSE v[i - Len(u)]
      <4>1. u \in Seq(S) /\ v \in Seq(S)
        BY <2>4, <2>5
      <4>2. /\ u \o v \in Seq(S) /\ Len(u \o v) = Len(u) + Len(v)
            /\ \A i \in 1..Len(u) + Len(v) :
                 (u \o v)[i] = IF i <= Len(u) THEN u[i] ELSE v[i - Len(u)]
        BY <4>1, ConcatProperties
      <4> QED
        BY <2>2, <4>2
    <3>2. Len(t) = Len(s) - 1
      BY <2>1, <2>4, <2>5, <3>1
    <3>3. DOMAIN t = 1..Len(s) - 1
      BY <3>1, <3>2, LenProperties
    <3>4. ASSUME NEW i \in 1..Len(s) - 1 PROVE t[i] = IF i < k THEN s[i] ELSE s[i + 1]
      <4>1. CASE i < k
        <5>1. i \in 1..Len(t) /\ i <= Len(u) /\ i \in 1..k - 1
          BY <2>1, <2>4, <3>2, <4>1
        <5> QED
          BY <2>4, <3>1, <4>1, <5>1
      <4>2. CASE ~ (i < k)
        <5>1. /\ i \in 1..Len(t) /\ ~ (i <= Len(u)) /\ i - Len(u) \in 1..Len(s) - k
              /\ k + (i - Len(u)) = i + 1
          BY <2>1, <2>4, <3>2, <4>2
        <5> QED
          BY <2>5, <3>1, <4>2, <5>1
      <4> QED
        BY <4>1, <4>2
    <3> QED
      BY <3>1, <3>2, <3>3, <3>4
  <2>7. Distinct(t)
    BY <2>1, <2>6, SMTT(30) DEF Distinct
  <2>8. ASSUME NEW q PROVE Lists(t, q) <=> Lists(s, q) /\ q # p
    <3>1. ASSUME Lists(t, q) PROVE Lists(s, q) /\ q # p
      <4>1. PICK i \in 1..Len(s) - 1 : t[i] = q
        BY <2>6, <3>1 DEF Lists
      <4>2. CASE i < k
        BY <2>1, <2>6, <4>1, <4>2, SMTT(30) DEF Lists, Distinct
      <4>3. CASE ~ (i < k)
        BY <2>1, <2>6, <4>1, <4>3 DEF Lists, Distinct
      <4> QED
        BY <4>2, <4>3
    <3>2. ASSUME Lists(s, q), q # p PROVE Lists(t, q)
      <4>1. PICK i \in 1..Len(s) : s[i] = q
        BY <2>1, <3>2 DEF Lists
      <4>2. i # k
        BY <2>1, <3>2, <4>1
      <4>3. CASE i < k
        <5>1. i \in DOMAIN t /\ t[i] = q
          BY <2>1, <2>6, <4>1, <4>3
        <5> QED
          BY <5>1 DEF Lists
      <4>4. CASE i > k
        <5>1. i - 1 \in DOMAIN t /\ t[i - 1] = q
          BY <2>1, <2>6, <4>1, <4>4
        <5> QED
          BY <5>1 DEF Lists
      <4> QED
        BY <2>1, <4>2, <4>3, <4>4
    <3> QED
      BY <3>1, <3>2
  <2> QED
    BY <1>2, <2>6, <2>7, <2>8 DEF t
<1> QED
  BY <1>1, <1>2

\* A new key comes last.
LEMMA AppendedIs ==
  ASSUME NEW S, NEW s \in Seq(S), Distinct(s), NEW p \in S, ~ Lists(s, p)
  PROVE  /\ Append(s, p) \in Seq(S)
         /\ Distinct(Append(s, p))
         /\ \A q : Lists(Append(s, p), q) <=> Lists(s, q) \/ q = p
         /\ Len(Append(s, p)) = Len(s) + 1
<1> DEFINE t == Append(s, p)
<1>1. /\ t \in Seq(S) /\ Len(t) = Len(s) + 1 /\ Len(s) \in Nat
      /\ DOMAIN s = 1..Len(s) /\ DOMAIN t = 1..Len(s) + 1
      /\ t[Len(s) + 1] = p /\ \A i \in 1..Len(s) : t[i] = s[i]
  OBVIOUS
<1> HIDE DEF t
<1>2. Distinct(t)
  BY <1>1 DEF Distinct, Lists
<1>3. ASSUME NEW q PROVE Lists(t, q) <=> Lists(s, q) \/ q = p
  <2>1. ASSUME Lists(t, q) PROVE Lists(s, q) \/ q = p
    BY <1>1, <2>1 DEF Lists
  <2>2. ASSUME Lists(s, q) PROVE Lists(t, q)
    BY <1>1, <2>2 DEF Lists
  <2>3. Lists(t, p)
    BY <1>1 DEF Lists
  <2> QED
    BY <2>1, <2>2, <2>3
<1> QED
  BY <1>1, <1>2, <1>3 DEF t

\* Dropping the k oldest keys.
LEMMA SuffixIs ==
  ASSUME NEW S, NEW s \in Seq(S), Distinct(s), NEW k \in Nat, k <= Len(s)
  PROVE  LET t == SubSeq(s, k + 1, Len(s))
         IN  /\ t \in Seq(S)
             /\ Distinct(t)
             /\ \A q : Lists(t, q) <=> Lists(s, q) /\ q \notin {s[i] : i \in 1..k}
             /\ Len(t) = Len(s) - k
<1> DEFINE m == k + 1
           n == Len(s)
           t == SubSeq(s, m, n)
<1>1. n \in Nat /\ DOMAIN s = 1..n /\ \A i \in 1..n : s[i] \in S
  BY LenProperties
<1>2. \A i \in m..n : s[i] \in S
  BY <1>1
<1>3. m \in Int /\ n \in Int /\ k <= n
  BY <1>1
<1> HIDE DEF n
<1>4. /\ t \in Seq(S) /\ Len(t) = n - k /\ \A i \in 1..n - k : t[i] = s[k + i]
  <2> HIDE DEF m
  <2>1. /\ SubSeq(s, m, n) \in Seq(S)
        /\ Len(SubSeq(s, m, n)) = IF m <= n THEN n - m + 1 ELSE 0
        /\ \A i \in 1 .. n - m + 1 : SubSeq(s, m, n)[i] = s[m + i - 1]
    BY <1>2, <1>3, SubSeqProperties
  <2> QED
    BY <1>1, <1>3, <2>1 DEF m
<1> HIDE DEF t
<1>5. DOMAIN t = 1..n - k
  BY <1>4, LenProperties
<1>6. Distinct(t)
  <2> SUFFICES ASSUME NEW i \in 1..n - k, NEW j \in 1..n - k, t[i] = t[j] PROVE i = j
    BY <1>5 DEF Distinct
  <2>1. k + i \in DOMAIN s /\ k + j \in DOMAIN s
    BY <1>1, <1>3
  <2>2. s[k + i] = s[k + j]
    BY <1>4
  <2>3. k + i = k + j
    BY <2>1, <2>2 DEF Distinct
  <2> QED
    BY <1>1, <2>3
<1>7. ASSUME NEW q PROVE Lists(t, q) <=> Lists(s, q) /\ q \notin {s[i] : i \in 1..k}
  <2>1. ASSUME Lists(t, q) PROVE Lists(s, q) /\ q \notin {s[i] : i \in 1..k}
    <3>1. PICK i \in 1..n - k : t[i] = q
      BY <1>5, <2>1 DEF Lists
    <3>2. k + i \in DOMAIN s /\ s[k + i] = q
      BY <1>1, <1>3, <1>4, <3>1
    <3>3. \A j \in 1..k : j \in DOMAIN s /\ j # k + i
      BY <1>1, <1>3, <3>1
    <3> QED
      BY <3>2, <3>3 DEF Lists, Distinct
  <2>2. ASSUME Lists(s, q), q \notin {s[i] : i \in 1..k} PROVE Lists(t, q)
    <3>1. PICK i \in 1..n : s[i] = q
      BY <1>1, <2>2 DEF Lists
    <3>2. i > k
      BY <1>1, <2>2, <3>1
    <3>3. PICK j \in 1..n - k : k + j = i
      <4>1. i - k \in 1..n - k /\ k + (i - k) = i
        BY <1>1, <1>3, <3>1, <3>2
      <4> QED
        BY <4>1
    <3>4. t[j] = q
      BY <1>4, <3>1, <3>3
    <3> QED
      BY <1>5, <3>4 DEF Lists
  <2> QED
    BY <2>1, <2>2
<1> QED
  BY <1>4, <1>6, <1>7 DEF t, m, n

-----------------------------------------------------------------------------
(* The inductive invariants.                                               *)

\* The role a second query is about is a role.
SeenInv == \A c \in Calls : pc[c] = "grants" => seen[c] \in Roles

\* The Map's order names each entry once, and no more than maxEntries.
OrderInv ==
  \A r \in Replicas :
    /\ Len(order[r]) <= MaxEntries
    /\ Distinct(order[r])
    /\ \A p \in Principals : entry[r][p] # NoEntry <=> Lists(order[r], p)

\* Sockets: a registered one was accepted and is up unless it went away before
\* that; only registered ones are in rooms, the rooms the inspector lists.
RegistryInv ==
  \A s \in Sockets :
    /\ auth[s] # "none" => link[s] # "new"
    /\ link[s] = "down" /\ auth[s] \in {"session", "ability"} => hungUp[s]
    /\ s \in registry => auth[s] = "accepted" /\ (link[s] = "up" \/ hungUp[s])
    /\ link[s] = "up" /\ auth[s] = "accepted" => s \in registry
    /\ rooms[s] = listed[s]
    /\ s \notin registry => rooms[s] = {}

\* A call nobody has changed anything under holds what the tables say.
CallAt(c) ==
  ~ suspect[c] =>
    /\ pc[c] = "grants" => seen[c] = role[PrincipalOf[c]]
    /\ pc[c] = "fill" => got[c] = Rules(PrincipalOf[c])
    /\ pc[c] = "done" => got[c] \subseteq Rules(PrincipalOf[c])

CallInv == \A c \in Calls : CallAt(c)

\* An entry nobody has changed anything under says what the tables say.
EntryInv ==
  \A r \in Replicas, p \in Principals :
    entry[r][p] # NoEntry /\ ~ entry[r][p].doubt /\ ~ Untold(r, p) =>
      entry[r][p].ability = Rules(p)

-----------------------------------------------------------------------------
(* The caches.                                                             *)

\* The steps of callers, handlers and the clock, which move no socket.
CacheMove ==
  \/ \E c \in Calls : Lookup(c) \/ Load(c) \/ Return(c)
  \/ Administer
  \/ Tick

SocketMove == \E s \in Sockets : Authenticate(s) \/ Converse(s)

\* A step of the composition is one of a cache or one of a socket.
LEMMA StepIsOneOf ==
  ASSUME [Next]_accessVars
  PROVE  \/ CacheMove /\ UNCHANGED socketVars
         \/ SocketMove /\ UNCHANGED cacheVars
         \/ UNCHANGED cacheVars /\ UNCHANGED socketVars
<1>1. CASE \E s \in Sockets : Authenticate(s) \/ Converse(s)
  <2>1. UNCHANGED cacheVars
    BY <1>1 DEF Authenticate, Converse, Connect, SessionFound, SessionRefused, Accept, HangUp,
                AdminDisconnect, Subscribe, Unsubscribe
  <2> QED
    BY <1>1, <2>1 DEF SocketMove
<1>2. CASE (\E c \in Calls : CallStep(c)) /\ UNCHANGED socketVars
  BY <1>2 DEF CallStep, Served, CacheMove
<1>3. CASE (Administer \/ Tick) /\ UNCHANGED socketVars
  BY <1>3 DEF CacheMove
<1>4. CASE UNCHANGED accessVars
  BY <1>4 DEF accessVars
<1> QED
  BY <1>1, <1>2, <1>3, <1>4 DEF Next

CacheInv == CacheTypeOK /\ SeenInv /\ OrderInv

\* An entry that is written is an entry.
LEMMA EntryIs ==
  ASSUME NEW a \in SUBSET Rights, NEW d \in BOOLEAN
  PROVE  /\ [ability |-> a, age |-> 0, doubt |-> d] \in Entry
         /\ [ability |-> a, age |-> 0, doubt |-> d] # NoEntry
<1>1. [ability |-> a, age |-> 0, doubt |-> d] \in Entry
  BY CacheAssumption DEF Entry
<1> QED
  BY <1>1, NoEntryAssumption

\* An entry that grows older stays one until its time to live is over.
LEMMA OlderIs ==
  ASSUME NEW e \in Entry, e.age < Ttl
  PROVE  [e EXCEPT !.age = @ + 1] \in Entry
<1>1. e.age + 1 \in 0..Ttl
  BY CacheAssumption DEF Entry
<1> QED
  BY <1>1 DEF Entry

\* A write of the tables marks entries and calls and moves neither.
LEMMA CommitKeeps ==
  ASSUME CacheInv, NEW ro \in [Principals -> Roles \cup {NoRole}],
         NEW gr \in [Roles -> SUBSET Rights], NEW untold, Commit(ro, gr, untold),
         pending' \subseteq [at: Replicas, scope: Scopes]
  PROVE  CacheInv'
<1> USE DEF CacheInv, CacheTypeOK
<1>1. UNCHANGED <<order, pc, seen, got>> /\ role' = ro /\ grants' = gr
  BY DEF Commit
<1>2. changes' \in 0..MaxChanges
  BY CacheAssumption DEF Commit
<1>3. suspect' \in [Calls -> BOOLEAN]
  BY DEF Commit
<1>4. /\ entry' \in [Replicas -> [Principals -> Entry \cup {NoEntry}]]
      /\ \A r \in Replicas, p \in Principals : entry'[r][p] = NoEntry <=> entry[r][p] = NoEntry
  <2> DEFINE E(r, p) == IF r \in untold /\ p \in {q \in Principals : RulesIn(ro, gr, q) # Rules(q)}
                             /\ entry[r][p] # NoEntry
                        THEN [entry[r][p] EXCEPT !.doubt = TRUE]
                        ELSE entry[r][p]
  <2>1. entry' = [r \in Replicas |-> [p \in Principals |-> E(r, p)]]
    BY DEF Commit
  <2>2. ASSUME NEW r \in Replicas, NEW p \in Principals
        PROVE  E(r, p) \in Entry \cup {NoEntry} /\ (E(r, p) = NoEntry <=> entry[r][p] = NoEntry)
    <3>1. entry[r][p] \in Entry \cup {NoEntry}
      OBVIOUS
    <3>2. ASSUME entry[r][p] \in Entry
          PROVE  [entry[r][p] EXCEPT !.doubt = TRUE] \in Entry
      BY <3>2 DEF Entry
    <3> QED
      BY <3>1, <3>2, NoEntryAssumption
  <2> HIDE DEF E
  <2> QED
    BY <2>1, <2>2
<1>5. CacheTypeOK'
  BY <1>1, <1>2, <1>3, <1>4
<1>6. SeenInv' /\ OrderInv'
  BY <1>1, <1>4 DEF SeenInv, OrderInv
<1> QED
  BY <1>5, <1>6

\* Fills, hits, evictions and invalidations keep the order exact and the cache
\* within its bound.
LEMMA CacheStep == CacheInv /\ [CacheMove]_cacheVars => CacheInv'
<1> SUFFICES ASSUME CacheInv, [CacheMove]_cacheVars PROVE CacheInv'
  OBVIOUS
<1> USE CacheAssumption DEF CacheInv, CacheTypeOK
<1>1. ASSUME NEW c \in Calls, Hit(c) PROVE CacheInv'
  <2> DEFINE r == ReplicaOf[c]
             p == PrincipalOf[c]
             s == order[r]
             t == Append(Deleted(s, p), p)
  <2>1. r \in Replicas /\ p \in Principals /\ s \in Seq(Principals) /\ Distinct(s)
    BY DEF OrderInv
  <2>2. Lists(s, p) /\ Len(s) <= MaxEntries /\ Len(s) \in Nat
    BY <1>1, <2>1 DEF Hit, Fresh, Mine, OrderInv
  <2>3. /\ Deleted(s, p) \in Seq(Principals) /\ Distinct(Deleted(s, p))
        /\ \A q : Lists(Deleted(s, p), q) <=> Lists(s, q) /\ q # p
        /\ Len(Deleted(s, p)) = Len(s) - 1
    BY <2>1, <2>2, DeletedIs
  <2> HIDE DEF s
  <2>4. /\ t \in Seq(Principals) /\ Distinct(t) /\ Len(t) <= MaxEntries
        /\ \A q : Lists(t, q) <=> Lists(s, q)
    BY <2>1, <2>2, <2>3, AppendedIs
  <2>5. /\ order' = [order EXCEPT ![r] = t]
        /\ UNCHANGED <<role, grants, entry, seen, pending, changes>>
    BY <1>1 DEF Hit, Touch, s
  <2> HIDE DEF t
  <2>6. OrderInv'
    BY <2>1, <2>4, <2>5 DEF OrderInv, s
  <2>7. got' \in [Calls -> SUBSET Rights]
    <3>1. Mine(c) \in Entry
      BY <1>1, <2>1 DEF Hit, Fresh, Mine
    <3>2. Mine(c).ability \in SUBSET Rights
      BY <3>1 DEF Entry
    <3> QED
      BY <1>1, <3>2 DEF Hit
  <2>8. suspect' \in [Calls -> BOOLEAN]
    <3>1. Mine(c) \in Entry
      BY <1>1, <2>1 DEF Hit, Fresh, Mine
    <3>2. (Mine(c).doubt \/ Untold(ReplicaOf[c], PrincipalOf[c])) \in BOOLEAN
      OBVIOUS
    <3> QED
      BY <1>1, <3>2 DEF Hit
  <2>9. pc' \in [Calls -> Phase] /\ SeenInv'
    BY <1>1, <2>5 DEF Hit, Phase, SeenInv
  <2>10. order' \in [Replicas -> Seq(Principals)]
    BY <2>1, <2>4, <2>5
  <2> QED
    BY <2>5, <2>6, <2>7, <2>8, <2>9, <2>10
<1>2. ASSUME NEW c \in Calls, Miss(c) \/ Return(c) PROVE CacheInv'
  BY <1>2 DEF Miss, Return, Phase, SeenInv, OrderInv
<1>3. ASSUME NEW c \in Calls, ReadMember(c) PROVE CacheInv'
  BY <1>3 DEF ReadMember, Phase, SeenInv, OrderInv
<1>4. ASSUME NEW c \in Calls, ReadGrants(c) \/ ReadFails(c) PROVE CacheInv'
  <2>1. pc[c] = "grants" => grants[seen[c]] \cup MemberRights \in SUBSET Rights
    BY DEF SeenInv
  <2>2. UNCHANGED <<role, grants, entry, order, seen, suspect, pending, changes>>
    BY <1>4 DEF ReadGrants, ReadFails
  <2>3. got' \in [Calls -> SUBSET Rights] /\ pc' \in [Calls -> Phase]
    BY <1>4, <2>1 DEF ReadGrants, ReadFails, Phase
  <2>4. SeenInv'
    BY <1>4, <2>2 DEF ReadGrants, ReadFails, SeenInv
  <2> QED
    BY <2>2, <2>3, <2>4 DEF OrderInv
<1>5. ASSUME NEW c \in Calls, Fill(c) PROVE CacheInv'
  <2> DEFINE r == ReplicaOf[c]
             p == PrincipalOf[c]
             s == IF Mine(c) = NoEntry THEN Append(order[r], p) ELSE order[r]
             e == [ability |-> got[c], age |-> 0, doubt |-> suspect[c]]
             k == Excess(s)
             t == SubSeq(s, k + 1, Len(s))
             f == [q \in Principals |->
                     IF q \in Overflow(s) THEN NoEntry ELSE IF q = p THEN e ELSE entry[r][q]]
  <2>1. /\ r \in Replicas /\ p \in Principals /\ order[r] \in Seq(Principals)
        /\ Distinct(order[r]) /\ Len(order[r]) <= MaxEntries /\ Len(order[r]) \in Nat
        /\ \A q \in Principals : entry[r][q] # NoEntry <=> Lists(order[r], q)
    BY DEF OrderInv
  <2>2. e \in Entry /\ e # NoEntry
    BY EntryIs
  <2>3. /\ order' = [order EXCEPT ![r] = t] /\ entry' = [entry EXCEPT ![r] = f]
        /\ pc' = [pc EXCEPT ![c] = "done"]
        /\ UNCHANGED <<role, grants, seen, got, suspect, pending, changes>>
    BY <1>5 DEF Fill
  <2>4. /\ s \in Seq(Principals) /\ Distinct(s) /\ Len(s) \in Nat
        /\ \A q \in Principals : Lists(s, q) <=> entry[r][q] # NoEntry \/ q = p
    <3>1. CASE Mine(c) = NoEntry
      <4>1. ~ Lists(order[r], p)
        BY <2>1, <3>1 DEF Mine
      <4>2. /\ Append(order[r], p) \in Seq(Principals) /\ Distinct(Append(order[r], p))
            /\ \A q : Lists(Append(order[r], p), q) <=> Lists(order[r], q) \/ q = p
            /\ Len(Append(order[r], p)) = Len(order[r]) + 1
        BY <2>1, <4>1, AppendedIs
      <4> QED
        BY <2>1, <3>1, <4>2
    <3>2. CASE Mine(c) # NoEntry
      BY <2>1, <3>2 DEF Mine
    <3> QED
      BY <3>1, <3>2
  <2> HIDE DEF s, e
  <2>5. k \in Nat /\ k <= Len(s) /\ Len(s) - k <= MaxEntries
    BY <2>4 DEF Excess
  <2> HIDE DEF k
  <2>6. /\ t \in Seq(Principals) /\ Distinct(t) /\ Len(t) <= MaxEntries
        /\ \A q : Lists(t, q) <=> Lists(s, q) /\ q \notin {s[i] : i \in 1..k}
    BY <2>4, <2>5, SuffixIs
  <2> HIDE DEF t
  <2>7. Overflow(s) = {s[i] : i \in 1..k}
    BY DEF Overflow, k
  <2>8. f \in [Principals -> Entry \cup {NoEntry}]
    BY <2>1, <2>2
  <2>9. \A q \in Principals : f[q] # NoEntry <=> Lists(t, q)
    BY <2>2, <2>4, <2>6, <2>7
  <2> HIDE DEF f
  <2>10. /\ order' \in [Replicas -> Seq(Principals)]
         /\ entry' \in [Replicas -> [Principals -> Entry \cup {NoEntry}]]
    BY <2>1, <2>3, <2>6, <2>8
  <2>11. OrderInv'
    BY <2>1, <2>3, <2>6, <2>9 DEF OrderInv
  <2>12. pc' \in [Calls -> Phase] /\ SeenInv'
    BY <2>3 DEF Phase, SeenInv
  <2> QED
    BY <2>3, <2>10, <2>11, <2>12
<1>6. ASSUME NEW r \in Replicas, NEW ro \in Roles, NEW rights \in SUBSET Rights,
             ChangeGrants(r, ro, rights)
      PROVE  CacheInv'
  <2>1. [grants EXCEPT ![ro] = rights] \in [Roles -> SUBSET Rights]
    OBVIOUS
  <2>2. pending' \subseteq [at: Replicas, scope: Scopes]
    BY <1>6 DEF ChangeGrants, Scopes
  <2> QED
    BY <1>6, <2>1, <2>2, CommitKeeps DEF ChangeGrants
<1>7. ASSUME NEW r \in Replicas, NEW p \in Principals, NEW ro \in Roles, AssignRole(r, p, ro)
      PROVE  CacheInv'
  <2>1. [role EXCEPT ![p] = ro] \in [Principals -> Roles \cup {NoRole}]
    OBVIOUS
  <2>2. pending' \subseteq [at: Replicas, scope: Scopes]
    BY <1>7 DEF AssignRole, Scopes
  <2> QED
    BY <1>7, <2>1, <2>2, CommitKeeps DEF AssignRole
<1>8. ASSUME NEW p \in Principals, NEW ro \in Roles \cup {NoRole}, TenantAdminChange(p, ro)
      PROVE  CacheInv'
  <2>1. [role EXCEPT ![p] = ro] \in [Principals -> Roles \cup {NoRole}]
    OBVIOUS
  <2> QED
    BY <1>8, <2>1, CommitKeeps DEF TenantAdminChange
<1>9. ASSUME NEW i \in pending, Invalidate(i) PROVE CacheInv'
  <2> DEFINE r == i.at
             s == order[r]
             t == IF i.scope = Principals THEN <<>> ELSE Deleted(s, CHOOSE p \in i.scope : TRUE)
             f == [p \in Principals |-> IF p \in i.scope THEN NoEntry ELSE entry[r][p]]
  <2>1. i \in [at: Replicas, scope: Scopes]
    OBVIOUS
  <2>2. r \in Replicas /\ i.scope \in Scopes
    BY <2>1
  <2>3. /\ s \in Seq(Principals) /\ Distinct(s) /\ Len(s) <= MaxEntries /\ Len(s) \in Nat
        /\ \A q \in Principals : entry[r][q] # NoEntry <=> Lists(s, q)
    BY <2>2 DEF OrderInv
  <2>4. /\ order' = [order EXCEPT ![r] = t] /\ entry' = [entry EXCEPT ![r] = f]
        /\ pending' \subseteq pending
        /\ UNCHANGED <<role, grants, pc, seen, got, suspect, changes>>
    BY <1>9 DEF Invalidate
  <2> HIDE DEF s
  <2>5. /\ t \in Seq(Principals) /\ Distinct(t) /\ Len(t) <= MaxEntries
        /\ \A q \in Principals : Lists(t, q) <=> Lists(s, q) /\ q \notin i.scope
    <3>1. CASE i.scope = Principals
      <4>1. t = <<>>
        BY <3>1
      <4> HIDE DEF t
      <4> QED
        BY <3>1, <4>1 DEF Distinct, Lists
    <3>2. CASE i.scope # Principals
      <4>1. PICK p \in Principals : i.scope = {p}
        BY <2>2, <3>2 DEF Scopes
      <4>2. t = Deleted(s, p)
        BY <3>2, <4>1
      <4>3. /\ Deleted(s, p) \in Seq(Principals) /\ Distinct(Deleted(s, p))
            /\ \A q : Lists(Deleted(s, p), q) <=> Lists(s, q) /\ q # p
            /\ Len(Deleted(s, p)) = IF Lists(s, p) THEN Len(s) - 1 ELSE Len(s)
        BY <2>3, DeletedIs
      <4> HIDE DEF t
      <4> QED
        BY <2>3, <4>1, <4>2, <4>3
    <3> QED
      BY <3>1, <3>2
  <2> HIDE DEF t
  <2>6. f \in [Principals -> Entry \cup {NoEntry}]
    BY <2>2
  <2>7. \A q \in Principals : f[q] # NoEntry <=> Lists(t, q)
    BY <2>3, <2>5
  <2> HIDE DEF f
  <2>8. /\ order' \in [Replicas -> Seq(Principals)]
        /\ entry' \in [Replicas -> [Principals -> Entry \cup {NoEntry}]]
    BY <2>2, <2>4, <2>5, <2>6
  <2>9. OrderInv' /\ SeenInv'
    BY <2>2, <2>4, <2>5, <2>7 DEF OrderInv, SeenInv
  <2> QED
    BY <2>4, <2>8, <2>9
<1>10. CASE Tick
  <2>1. /\ entry' \in [Replicas -> [Principals -> Entry \cup {NoEntry}]]
        /\ \A r \in Replicas, p \in Principals :
             entry'[r][p] = NoEntry <=> entry[r][p] = NoEntry
    <3> DEFINE E(r, p) == IF Ages(entry[r][p])
                          THEN [entry[r][p] EXCEPT !.age = @ + 1] ELSE entry[r][p]
    <3>1. entry' = [r \in Replicas |-> [p \in Principals |-> E(r, p)]]
      BY <1>10 DEF Tick
    <3>2. ASSUME NEW r \in Replicas, NEW p \in Principals
          PROVE  E(r, p) \in Entry \cup {NoEntry} /\ (E(r, p) = NoEntry <=> entry[r][p] = NoEntry)
      <4>1. entry[r][p] \in Entry \cup {NoEntry}
        OBVIOUS
      <4>2. ASSUME Ages(entry[r][p]), entry[r][p] \in Entry
            PROVE  [entry[r][p] EXCEPT !.age = @ + 1] \in Entry
        BY <4>2, OlderIs DEF Ages
      <4>3. Ages(entry[r][p]) => entry[r][p] # NoEntry
        BY DEF Ages
      <4>4. CASE Ages(entry[r][p])
        <5>1. E(r, p) \in Entry /\ entry[r][p] \in Entry
          BY <4>1, <4>2, <4>3, <4>4
        <5> HIDE DEF E
        <5> QED
          BY <5>1, NoEntryAssumption
      <4>5. CASE ~ Ages(entry[r][p])
        BY <4>1, <4>5
      <4> QED
        BY <4>4, <4>5
    <3> HIDE DEF E
    <3> QED
      BY <3>1, <3>2
  <2>2. UNCHANGED <<role, grants, order, pc, seen, got, suspect, pending, changes>>
    BY <1>10 DEF Tick
  <2> QED
    BY <2>1, <2>2 DEF OrderInv, SeenInv
<1>11. CASE UNCHANGED cacheVars
  BY <1>11 DEF cacheVars, OrderInv, SeenInv
<1> QED
  BY <1>1, <1>2, <1>3, <1>4, <1>5, <1>6, <1>7, <1>8, <1>9, <1>10, <1>11
  DEF CacheMove, Lookup, Load, Administer

-----------------------------------------------------------------------------
(* The sockets.                                                            *)

SocketInv == SocketTypeOK /\ RegistryInv

\* The registry and the rooms move together, wherever a socket goes away.
LEMMA SocketStep == SocketInv /\ [SocketMove]_socketVars => SocketInv'
<1> SUFFICES ASSUME SocketInv, [SocketMove]_socketVars PROVE SocketInv'
  OBVIOUS
<1> USE DEF SocketInv, SocketTypeOK, RegistryInv
<1>1. ASSUME NEW s \in Sockets, Connect(s) \/ SessionFound(s) PROVE SocketInv'
  BY <1>1 DEF Connect, SessionFound
<1>2. ASSUME NEW s \in Sockets, SessionRefused(s) PROVE SocketInv'
  BY <1>2 DEF SessionRefused, Drop
<1>3. ASSUME NEW s \in Sockets, Accept(s) PROVE SocketInv'
  <2>1. s \notin registry /\ rooms[s] = {} /\ link[s] # "new"
    BY <1>3 DEF Accept
  <2> QED
    BY <1>3, <2>1 DEF Accept
<1>4. ASSUME NEW s \in Sockets, HangUp(s) PROVE SocketInv'
  BY <1>4 DEF HangUp, Drop
<1>5. ASSUME NEW s \in Sockets, AdminDisconnect(s) PROVE SocketInv'
  BY <1>5 DEF AdminDisconnect, Drop
<1>6. ASSUME NEW s \in Sockets, NEW ch \in Channels, Subscribe(s, ch) \/ Unsubscribe(s, ch)
      PROVE  SocketInv'
  BY <1>6, SMTT(30) DEF Subscribe, Unsubscribe
<1>7. CASE UNCHANGED socketVars
  BY <1>7 DEF socketVars
<1> QED
  BY <1>1, <1>2, <1>3, <1>4, <1>5, <1>6, <1>7 DEF SocketMove, Authenticate, Converse

-----------------------------------------------------------------------------
(* The books of a replica.                                                 *)

BooksInv == CacheInv /\ SocketInv

\* The books are kept by every step of the composition.
LEMMA BooksInvHolds == Spec => []BooksInv
<1>1. Init => BooksInv
  <2> SUFFICES ASSUME Init PROVE BooksInv
    OBVIOUS
  <2> USE CacheAssumption DEF Init, CacheInit, SocketInit
  <2>1. /\ entry \in [Replicas -> [Principals -> Entry \cup {NoEntry}]]
        /\ order \in [Replicas -> Seq(Principals)]
        /\ pc \in [Calls -> Phase] /\ changes \in 0..MaxChanges
    BY DEF Phase
  <2>2. CacheTypeOK
    BY <2>1 DEF CacheTypeOK
  <2>3. SeenInv /\ OrderInv
    BY DEF SeenInv, OrderInv, Distinct, Lists
  <2>4. SocketInv
    BY DEF SocketInv, SocketTypeOK, RegistryInv
  <2> QED
    BY <2>2, <2>3, <2>4 DEF BooksInv, CacheInv
<1>2. BooksInv /\ [Next]_accessVars => BooksInv'
  <2> SUFFICES ASSUME BooksInv, [Next]_accessVars PROVE BooksInv'
    OBVIOUS
  <2>1. [CacheMove]_cacheVars /\ [SocketMove]_socketVars
    BY StepIsOneOf
  <2> QED
    BY <2>1, CacheStep, SocketStep DEF BooksInv
<1> QED
  BY <1>1, <1>2, PTL DEF Spec

\* The bookkeeping of a replica is sound under every overlap of fills, hits,
\* invalidations, connections and disconnections.
THEOREM BooksSound == Spec => []BooksAreSound
<1>1. ASSUME BooksInv PROVE BooksAreSound
  <2> USE <1>1 DEF BooksInv, CacheInv, SocketInv
  <2>1. TypeOK
    BY DEF TypeOK
  <2>2. ASSUME NEW r \in Replicas, NEW p \in Principals
        PROVE  Cardinality({i \in DOMAIN order[r] : order[r][i] = p})
                 = IF entry[r][p] = NoEntry THEN 0 ELSE 1
    <3> DEFINE P == {i \in DOMAIN order[r] : order[r][i] = p}
    <3>1. CASE entry[r][p] = NoEntry
      <4>1. P = {}
        BY <3>1 DEF OrderInv, Lists
      <4> QED
        BY <3>1, <4>1, FS_EmptySet
    <3>2. CASE entry[r][p] # NoEntry
      <4>1. PICK i \in DOMAIN order[r] : order[r][i] = p
        BY <3>2 DEF OrderInv, Lists
      <4>2. P = {i}
        BY <4>1 DEF OrderInv, Distinct
      <4> QED
        BY <3>2, <4>2, FS_Singleton
    <3> QED
      BY <3>1, <3>2
  <2>3. CacheBounded
    BY <2>2 DEF CacheBounded, OrderInv
  <2>4. RegistryIsLive
    BY DEF RegistryIsLive, RegistryInv
  <2>5. CountsAreTrue
    BY DEF CountsAreTrue, Subscribers, Recipients, RegistryInv, SocketTypeOK
  <2> QED
    BY <2>1, <2>3, <2>4, <2>5 DEF BooksAreSound
<1> QED
  BY <1>1, BooksInvHolds, PTL

-----------------------------------------------------------------------------
(* Stale abilities.                                                        *)

StaleInv == CallInv /\ EntryInv

\* A write: whoever has read what it changes is a suspect, the entries it
\* outdates are in doubt or await the invalidation of their replica's handler.
LEMMA CommitTells ==
  ASSUME CacheInv, StaleInv, NEW ro \in [Principals -> Roles \cup {NoRole}],
         NEW gr \in [Roles -> SUBSET Rights], NEW untold, Commit(ro, gr, untold),
         pending \subseteq pending',
         \A r \in Replicas \ untold, p \in Principals :
           RulesIn(ro, gr, p) # Rules(p) => Untold(r, p)'
  PROVE  StaleInv'
<1> USE DEF CacheInv, CacheTypeOK
<1>1. UNCHANGED <<order, pc, seen, got>> /\ role' = ro /\ grants' = gr
  BY DEF Commit
<1>2. \A p \in Principals : Rules(p)' = RulesIn(ro, gr, p)
  BY <1>1 DEF Rules
<1>3. CallInv'
  <2> SUFFICES ASSUME NEW c \in Calls, ~ suspect'[c]
               PROVE  /\ pc'[c] = "grants" => seen'[c] = role'[PrincipalOf[c]]
                      /\ pc'[c] = "fill" => got'[c] = Rules(PrincipalOf[c])'
                      /\ pc'[c] = "done" => got'[c] \subseteq Rules(PrincipalOf[c])'
    BY DEF CallInv, CallAt
  <2>1. PrincipalOf[c] \in Principals
    BY CacheAssumption
  <2>2. /\ ~ suspect[c]
        /\ pc[c] \notin {"idle", "member"} =>
             /\ RulesIn(ro, gr, PrincipalOf[c]) = Rules(PrincipalOf[c])
             /\ ro[PrincipalOf[c]] = role[PrincipalOf[c]]
    BY <2>1 DEF Commit
  <2> QED
    BY <1>1, <1>2, <2>1, <2>2 DEF StaleInv, CallInv, CallAt
<1>4. EntryInv'
  <2> SUFFICES ASSUME NEW r \in Replicas, NEW p \in Principals, entry'[r][p] # NoEntry,
                      ~ entry'[r][p].doubt, ~ Untold(r, p)'
               PROVE  entry'[r][p].ability = Rules(p)'
    BY DEF EntryInv
  <2>1. entry'[r][p] = IF r \in untold /\ RulesIn(ro, gr, p) # Rules(p) /\ entry[r][p] # NoEntry
                       THEN [entry[r][p] EXCEPT !.doubt = TRUE]
                       ELSE entry[r][p]
    BY DEF Commit
  <2>2. entry[r][p] \in Entry \cup {NoEntry}
    OBVIOUS
  <2>3. RulesIn(ro, gr, p) = Rules(p)
    <3>1. CASE r \notin untold
      BY <3>1
    <3>2. CASE r \in untold
      <4> SUFFICES ASSUME RulesIn(ro, gr, p) # Rules(p) PROVE FALSE
        OBVIOUS
      <4>1. entry[r][p] \in Entry
        BY <2>1, <2>2
      <4>2. entry'[r][p] = [entry[r][p] EXCEPT !.doubt = TRUE]
        BY <2>1, <3>2, <4>1, NoEntryAssumption
      <4> QED
        BY <4>1, <4>2 DEF Entry
    <3> QED
      BY <3>1, <3>2
  <2>4. entry'[r][p] = entry[r][p]
    BY <2>1, <2>3
  <2>5. ~ Untold(r, p)
    BY DEF Untold
  <2> QED
    BY <1>2, <2>3, <2>4, <2>5 DEF StaleInv, EntryInv
<1> QED
  BY <1>3, <1>4 DEF StaleInv

\* What a step does to the calls and the entries keeps them true to the tables
\* or marks them.
LEMMA StaleStep == CacheInv /\ StaleInv /\ [CacheMove]_cacheVars => StaleInv'
<1> SUFFICES ASSUME CacheInv, StaleInv, [CacheMove]_cacheVars PROVE StaleInv'
  OBVIOUS
<1> USE CacheAssumption DEF CacheInv, CacheTypeOK
\* Steps that write no table: rules stay.
<1>a. ASSUME UNCHANGED <<role, grants>> PROVE \A p \in Principals : Rules(p)' = Rules(p)
  BY <1>a DEF Rules
<1>b. ASSUME UNCHANGED <<role, grants, entry, pending>> PROVE EntryInv'
  BY <1>a, <1>b DEF StaleInv, EntryInv, Untold
<1>c. ASSUME NEW c \in Calls, UNCHANGED <<role, grants>>, CallAt(c)',
             \A d \in Calls : d # c => /\ pc'[d] = pc[d] /\ got'[d] = got[d] /\ seen'[d] = seen[d]
                                       /\ suspect'[d] = suspect[d]
      PROVE  CallInv'
  <2> SUFFICES ASSUME NEW d \in Calls, d # c PROVE CallAt(d)'
    BY <1>c DEF CallInv
  <2>1. /\ pc'[d] = pc[d] /\ got'[d] = got[d] /\ seen'[d] = seen[d] /\ suspect'[d] = suspect[d]
        /\ role' = role /\ PrincipalOf[d] \in Principals
    BY <1>c
  <2>2. Rules(PrincipalOf[d])' = Rules(PrincipalOf[d])
    BY <1>a, <1>c, <2>1
  <2>3. CallAt(d)
    BY DEF StaleInv, CallInv
  <2> QED
    BY <2>1, <2>2, <2>3 DEF CallAt
<1>1. ASSUME NEW c \in Calls, Hit(c) PROVE StaleInv'
  <2>1. EntryInv'
    BY <1>1, <1>b DEF Hit
  <2>2. /\ pc' = [pc EXCEPT ![c] = "done"] /\ got' = [got EXCEPT ![c] = Mine(c).ability]
        /\ suspect' = [suspect EXCEPT ![c] = \/ Mine(c).doubt
                                             \/ Untold(ReplicaOf[c], PrincipalOf[c])]
        /\ UNCHANGED <<role, grants, seen>> /\ Mine(c) # NoEntry
    BY <1>1 DEF Hit, Fresh
  <2>3. ~ suspect'[c] => got'[c] = Rules(PrincipalOf[c])
    BY <2>2 DEF Mine, StaleInv, EntryInv
  <2>4. CallAt(c)'
    BY <1>a, <2>2, <2>3 DEF CallAt
  <2>5. CallInv'
    BY <1>c, <2>2, <2>4
  <2> QED
    BY <2>1, <2>5 DEF StaleInv
<1>2. ASSUME NEW c \in Calls, Miss(c) \/ Return(c) PROVE StaleInv'
  <2>1. EntryInv'
    BY <1>2, <1>b DEF Miss, Return
  <2>2. /\ pc'[c] \in {"idle", "member"}
        /\ \A d \in Calls : d # c => /\ pc'[d] = pc[d] /\ got'[d] = got[d] /\ seen'[d] = seen[d]
                                     /\ suspect'[d] = suspect[d]
        /\ UNCHANGED <<role, grants>>
    BY <1>2 DEF Miss, Return
  <2>3. CallAt(c)'
    BY <2>2 DEF CallAt
  <2>4. CallInv'
    BY <1>c, <2>2, <2>3
  <2> QED
    BY <2>1, <2>4 DEF StaleInv
<1>3. ASSUME NEW c \in Calls, ReadMember(c) PROVE StaleInv'
  <2>1. EntryInv'
    BY <1>3, <1>b DEF ReadMember
  <2>2. /\ pc'[c] = (IF role[PrincipalOf[c]] = NoRole THEN "fill" ELSE "grants")
        /\ got'[c] = {} /\ seen'[c] = role[PrincipalOf[c]]
        /\ \A d \in Calls : d # c => /\ pc'[d] = pc[d] /\ got'[d] = got[d] /\ seen'[d] = seen[d]
                                     /\ suspect'[d] = suspect[d]
        /\ UNCHANGED <<role, grants>>
    BY <1>3 DEF ReadMember
  <2>3. role[PrincipalOf[c]] = NoRole => Rules(PrincipalOf[c]) = {}
    BY DEF Rules, RulesIn
  <2>4. CallAt(c)'
    BY <1>a, <2>2, <2>3 DEF CallAt
  <2>5. CallInv'
    BY <1>c, <2>2, <2>4
  <2> QED
    BY <2>1, <2>5 DEF StaleInv
<1>4. ASSUME NEW c \in Calls, ReadGrants(c) PROVE StaleInv'
  <2>1. EntryInv'
    BY <1>4, <1>b DEF ReadGrants
  <2>2. /\ pc[c] = "grants" /\ pc'[c] = "fill"
        /\ got'[c] = grants[seen[c]] \cup MemberRights
        /\ \A d \in Calls : d # c => pc'[d] = pc[d] /\ got'[d] = got[d]
        /\ UNCHANGED <<role, grants, seen, suspect>>
    BY <1>4 DEF ReadGrants
  <2>3. ~ suspect[c] => got'[c] = Rules(PrincipalOf[c])
    <3>1. seen[c] # NoRole
      BY <2>2 DEF SeenInv
    <3>2. ~ suspect[c] => seen[c] = role[PrincipalOf[c]]
      BY <2>2 DEF StaleInv, CallInv, CallAt
    <3> QED
      BY <2>2, <3>1, <3>2 DEF Rules, RulesIn
  <2>4. CallAt(c)'
    BY <1>a, <2>2, <2>3 DEF CallAt
  <2>5. CallInv'
    BY <1>c, <2>2, <2>4
  <2> QED
    BY <2>1, <2>5 DEF StaleInv
<1>5. ASSUME NEW c \in Calls, ReadFails(c) PROVE StaleInv'
  <2>1. EntryInv'
    BY <1>5, <1>b DEF ReadFails
  <2>2. /\ pc'[c] = "done" /\ got'[c] = {}
        /\ \A d \in Calls : d # c => pc'[d] = pc[d] /\ got'[d] = got[d]
        /\ UNCHANGED <<role, grants, seen, suspect>>
    BY <1>5 DEF ReadFails
  <2>3. CallAt(c)'
    BY <2>2 DEF CallAt
  <2>4. CallInv'
    BY <1>c, <2>2, <2>3
  <2> QED
    BY <2>1, <2>4 DEF StaleInv
<1>6. ASSUME NEW c \in Calls, Fill(c) PROVE StaleInv'
  <2>1. /\ pc[c] = "fill" /\ pc'[c] = "done"
        /\ \A d \in Calls : d # c => pc'[d] = pc[d]
        /\ UNCHANGED <<role, grants, seen, got, suspect, pending>>
    BY <1>6 DEF Fill
  <2>2. ~ suspect[c] => got[c] = Rules(PrincipalOf[c])
    BY <2>1 DEF StaleInv, CallInv, CallAt
  <2>3. CallInv'
    <3>1. CallAt(c)'
      BY <1>a, <2>1, <2>2 DEF CallAt
    <3> QED
      BY <1>c, <2>1, <3>1
  <2>4. \A r \in Replicas, p \in Principals :
          entry'[r][p] \in {NoEntry, entry[r][p]}
            \cup (IF p = PrincipalOf[c]
                  THEN {[ability |-> got[c], age |-> 0, doubt |-> suspect[c]]} ELSE {})
    BY <1>6 DEF Fill
  <2>5. EntryInv'
    <3> SUFFICES ASSUME NEW r \in Replicas, NEW p \in Principals, entry'[r][p] # NoEntry,
                        ~ entry'[r][p].doubt, ~ Untold(r, p)'
                 PROVE  entry'[r][p].ability = Rules(p)'
      BY DEF EntryInv
    <3>1. Rules(p)' = Rules(p) /\ ~ Untold(r, p)
      BY <1>a, <2>1 DEF Untold
    <3>2. CASE entry'[r][p] = entry[r][p]
      BY <3>1, <3>2 DEF StaleInv, EntryInv
    <3>3. CASE /\ p = PrincipalOf[c]
               /\ entry'[r][p] = [ability |-> got[c], age |-> 0, doubt |-> suspect[c]]
      BY <2>2, <3>1, <3>3
    <3> QED
      BY <2>4, <3>2, <3>3
  <2> QED
    BY <2>3, <2>5 DEF StaleInv
<1>7. ASSUME NEW r \in Replicas, NEW ro \in Roles, NEW rights \in SUBSET Rights,
             ChangeGrants(r, ro, rights)
      PROVE  StaleInv'
  <2>1. [grants EXCEPT ![ro] = rights] \in [Roles -> SUBSET Rights]
    OBVIOUS
  <2>2. pending' = pending \cup {[at |-> r, scope |-> Principals]}
    BY <1>7 DEF ChangeGrants
  <2> DEFINE i == [at |-> r, scope |-> Principals]
  <2>3. \A q \in Replicas \ (Replicas \ {r}), p \in Principals : Untold(q, p)'
    <3>1. i \in pending' /\ i.at = r /\ i.scope = Principals
      BY <2>2
    <3> HIDE DEF i
    <3> QED
      BY <3>1 DEF Untold
  <2> QED
    BY <1>7, <2>1, <2>2, <2>3, CommitTells DEF ChangeGrants
<1>8. ASSUME NEW r \in Replicas, NEW p \in Principals, NEW ro \in Roles, AssignRole(r, p, ro)
      PROVE  StaleInv'
  <2>1. [role EXCEPT ![p] = ro] \in [Principals -> Roles \cup {NoRole}]
    OBVIOUS
  <2>2. pending' = pending \cup {[at |-> r, scope |-> {p}]}
    BY <1>8 DEF AssignRole
  <2> DEFINE i == [at |-> r, scope |-> {p}]
  <2>3. Untold(r, p)'
    <3>1. i \in pending' /\ i.at = r /\ i.scope = {p}
      BY <2>2
    <3> HIDE DEF i
    <3> QED
      BY <3>1 DEF Untold
  <2>4. \A q \in Principals : RulesIn([role EXCEPT ![p] = ro], grants, q) # Rules(q) => q = p
    BY DEF Rules, RulesIn
  <2>5. \A q \in Replicas \ (Replicas \ {r}), w \in Principals :
          RulesIn([role EXCEPT ![p] = ro], grants, w) # Rules(w) => Untold(q, w)'
    BY <2>3, <2>4
  <2>6. pending \subseteq pending'
    BY <2>2
  <2>7. Commit([role EXCEPT ![p] = ro], grants, Replicas \ {r})
    BY <1>8 DEF AssignRole
  <2> QED
    BY <2>1, <2>5, <2>6, <2>7, CommitTells
<1>9. ASSUME NEW p \in Principals, NEW ro \in Roles \cup {NoRole}, TenantAdminChange(p, ro)
      PROVE  StaleInv'
  <2>1. [role EXCEPT ![p] = ro] \in [Principals -> Roles \cup {NoRole}]
    OBVIOUS
  <2> QED
    BY <1>9, <2>1, CommitTells DEF TenantAdminChange
<1>10. ASSUME NEW i \in pending, Invalidate(i) PROVE StaleInv'
  <2>1. UNCHANGED <<role, grants, pc, seen, got, suspect>> /\ pending' = pending \ {i}
    BY <1>10 DEF Invalidate
  <2>2. CallInv'
    BY <1>a, <2>1 DEF StaleInv, CallInv, CallAt
  <2>3. i.at \in Replicas
    OBVIOUS
  <2>4. \A r \in Replicas, p \in Principals :
          entry'[r][p] = IF r = i.at /\ p \in i.scope THEN NoEntry ELSE entry[r][p]
    BY <1>10, <2>3 DEF Invalidate
  <2>5. EntryInv'
    <3> SUFFICES ASSUME NEW r \in Replicas, NEW p \in Principals, entry'[r][p] # NoEntry,
                        ~ entry'[r][p].doubt, ~ Untold(r, p)'
                 PROVE  entry'[r][p].ability = Rules(p)'
      BY DEF EntryInv
    <3>1. ~ (r = i.at /\ p \in i.scope) /\ entry'[r][p] = entry[r][p]
      BY <2>4
    <3>2. ~ Untold(r, p)
      BY <2>1, <3>1 DEF Untold
    <3> QED
      BY <1>a, <2>1, <3>1, <3>2 DEF StaleInv, EntryInv
  <2> QED
    BY <2>2, <2>5 DEF StaleInv
<1>11. CASE Tick
  <2>1. UNCHANGED <<role, grants, pc, seen, got, suspect, pending>>
    BY <1>11 DEF Tick
  <2>2. CallInv'
    BY <1>a, <2>1 DEF StaleInv, CallInv, CallAt
  <2>3. EntryInv'
    <3> SUFFICES ASSUME NEW r \in Replicas, NEW p \in Principals, entry'[r][p] # NoEntry,
                        ~ entry'[r][p].doubt, ~ Untold(r, p)'
                 PROVE  entry'[r][p].ability = Rules(p)'
      BY DEF EntryInv
    <3>1. entry'[r][p] = IF Ages(entry[r][p])
                         THEN [entry[r][p] EXCEPT !.age = @ + 1] ELSE entry[r][p]
      BY <1>11 DEF Tick
    <3>2. entry[r][p] \in Entry \cup {NoEntry}
      OBVIOUS
    <3>3. entry[r][p] \in Entry
      BY <3>1, <3>2 DEF Ages
    <3>4. entry'[r][p].ability = entry[r][p].ability /\ entry'[r][p].doubt = entry[r][p].doubt
      BY <3>1, <3>3 DEF Entry
    <3>5. ~ Untold(r, p)
      BY <2>1 DEF Untold
    <3> QED
      BY <1>a, <2>1, <3>3, <3>4, <3>5, NoEntryAssumption DEF StaleInv, EntryInv
  <2> QED
    BY <2>2, <2>3 DEF StaleInv
<1>12. CASE UNCHANGED cacheVars
  <2>1. UNCHANGED <<role, grants, entry, pc, seen, got, suspect, pending>>
    BY <1>12 DEF cacheVars
  <2> QED
    BY <1>a, <1>b, <2>1 DEF StaleInv, CallInv, CallAt
<1> QED
  BY <1>1, <1>2, <1>3, <1>4, <1>5, <1>6, <1>7, <1>8, <1>9, <1>10, <1>11, <1>12
  DEF CacheMove, Lookup, Load, Administer

\* Nobody works with more than the tables allow, and no entry differs from
\* them, except where the tables changed under the request or the fill, behind
\* the replica's back, or before a handler's invalidate() has run.
THEOREM StaleByOverlapOnly == Spec => []StaleOnlyByOverlap
<1>1. Init => StaleInv
  BY DEF Init, CacheInit, StaleInv, CallInv, CallAt, EntryInv
<1>2. BooksInv /\ StaleInv /\ [Next]_accessVars => StaleInv'
  <2> SUFFICES ASSUME BooksInv, StaleInv, [Next]_accessVars PROVE StaleInv'
    OBVIOUS
  <2>1. [CacheMove]_cacheVars
    BY StepIsOneOf
  <2> QED
    BY <2>1, StaleStep DEF BooksInv
<1>3. ASSUME StaleInv PROVE StaleOnlyByOverlap
  <2>1. ASSUME NEW c \in Calls, pc[c] = "done", ~ suspect[c]
        PROVE  Effective(c) \subseteq RestrictByScopes(Rules(PrincipalOf[c]), ScopesOf[c])
    <3>1. got[c] \subseteq Rules(PrincipalOf[c])
      BY <1>3, <2>1 DEF StaleInv, CallInv, CallAt
    <3> QED
      BY <3>1 DEF Effective, RestrictByScopes
  <2> QED
    BY <1>3, <2>1 DEF StaleInv, EntryInv, StaleOnlyByOverlap
<1> QED
  BY <1>1, <1>2, <1>3, BooksInvHolds, PTL DEF Spec
=============================================================================
