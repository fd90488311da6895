-------------------------- MODULE PermissionCache --------------------------
(***************************************************************************)
(* PermissionService (src/src/core/permissions/permission.service.ts) over *)
(* PrismaPermissionStorage: every server replica caches the abilities it    *)
(* built from the member and permission tables, per (user, tenant) pair,    *)
(* for a time to live and up to a number of entries, and the handlers that  *)
(* change those tables.                                                     *)
(*                                                                          *)
(* The cache is filled across two awaited queries, and a handler            *)
(* invalidates after its awaited write, so reads, writes, fills and         *)
(* invalidations of several requests and administrators interleave.         *)
(***************************************************************************)
EXTENDS Integers, Sequences, FiniteSets

CONSTANTS
  Replicas,     \* server processes, each with its own cache
  Principals,   \* (userId, tenantId) pairs, the keys of the cache
  Roles,        \* role names of the member rows
  NoRole,       \* no member row
  Rights,       \* what a rule can allow
  MemberRights, \* the synthesized rules of every member
  Calls,        \* callers of abilityFor(): requests and sockets
  ReplicaOf,    \* the replica a caller is served by
  PrincipalOf,  \* the pair a caller asks for
  MaxEntries,   \* maxEntries
  Ttl,          \* ttlMs, in ticks of the clock
  MaxChanges,   \* bound: how often the tables change
  NoEntry       \* the cache has no entry for a pair

ASSUME CacheAssumption ==
  /\ NoRole \notin Roles
  /\ MemberRights \subseteq Rights
  /\ ReplicaOf \in [Calls -> Replicas]
  /\ PrincipalOf \in [Calls -> Principals]
  /\ MaxEntries \in Nat \ {0}
  /\ Ttl \in Nat \ {0}
  /\ MaxChanges \in Nat

(***************************************************************************)
(* An entry holds the ability, its age in ticks, and as history whether the *)
(* tables changed under its fill or changed later without this replica      *)
(* being told.                                                              *)
(***************************************************************************)
Entry == [ability: SUBSET Rights, age: 0..Ttl, doubt: BOOLEAN]

ASSUME NoEntryAssumption == NoEntry \notin Entry

VARIABLES
  role,      \* the member table: the role of a pair, or NoRole
  grants,    \* the role, policy and permission tables: the rights of a role
  entry,     \* PermissionService.cache of each replica
  order,     \* the insertion order of that Map
  pc,        \* how far a call of abilityFor() is
  seen,      \* the role a call read
  got,       \* the ability a call is about to return or has returned
  suspect,   \* history: what the call reads has changed since it began to
  pending,   \* handlers between their write and their invalidation
  changes    \* bound: writes so far

cacheVars == <<role, grants, entry, order, pc, seen, got, suspect, pending,
               changes>>

\* What a handler invalidates: everything, or one pair.
Scopes == {Principals} \cup {{p} : p \in Principals}

Phase == {"idle", "member", "grants", "fill", "done"}

\* Type invariant of the tables, the caches and those who ask.
CacheTypeOK ==
  /\ role \in [Principals -> Roles \cup {NoRole}]
  /\ grants \in [Roles -> SUBSET Rights]
  /\ entry \in [Replicas -> [Principals -> Entry \cup {NoEntry}]]
  /\ order \in [Replicas -> Seq(Principals)]
  /\ pc \in [Calls -> Phase]
  /\ seen \in [Calls -> Roles \cup {NoRole}]
  /\ got \in [Calls -> SUBSET Rights]
  /\ suspect \in [Calls -> BOOLEAN]
  /\ pending \subseteq [at: Replicas, scope: Scopes]
  /\ changes \in 0..MaxChanges

CacheInit ==
  /\ role \in [Principals -> Roles \cup {NoRole}]
  /\ grants \in [Roles -> SUBSET Rights]
  /\ entry = [r \in Replicas |-> [p \in Principals |-> NoEntry]]
  /\ order = [r \in Replicas |-> <<>>]
  /\ pc = [c \in Calls |-> "idle"]
  /\ seen = [c \in Calls |-> NoRole]
  /\ got = [c \in Calls |-> {}]
  /\ suspect = [c \in Calls |-> FALSE]
  /\ pending = {}
  /\ changes = 0

(***************************************************************************)
(* What findRulesForUser() would answer if it read both tables at once: no  *)
(* member row, no rules; otherwise the role's rows and the member rules.    *)
(***************************************************************************)
RulesIn(ro, gr, p) ==
  IF ro[p] = NoRole THEN {} ELSE gr[ro[p]] \cup MemberRights

Rules(p) == RulesIn(role, grants, p)

Mine(c) == entry[ReplicaOf[c]][PrincipalOf[c]]

\* Variant of Fresh: the expiry is not looked at.
FreshForever(e) == e # NoEntry

Fresh(e) == e # NoEntry /\ e.age < Ttl

\* A handler of replica r has written rules of p and not yet invalidated.
Untold(r, p) == \E i \in pending : i.at = r /\ p \in i.scope

-----------------------------------------------------------------------------
(* abilityForCached() *)

\* Map.delete(): a key leaves the order.
Deleted(s, p) ==
  IF \E i \in DOMAIN s : s[i] = p
  THEN LET i == CHOOSE i \in DOMAIN s : s[i] = p
       IN  SubSeq(s, 1, i - 1) \o SubSeq(s, i + 1, Len(s))
  ELSE s

\* The LRU touch: delete and set move the key to the end of the Map.
Touch(r, p) == order' = [order EXCEPT ![r] = Append(Deleted(@, p), p)]

\* A fresh entry is returned as it is; its expiry does not move.
Hit(c) ==
  /\ pc[c] = "idle"
  /\ Fresh(Mine(c))
  /\ Touch(ReplicaOf[c], PrincipalOf[c])
  /\ got' = [got EXCEPT ![c] = Mine(c).ability]
  /\ suspect' = [suspect EXCEPT ![c] = \/ Mine(c).doubt
                                       \/ Untold(ReplicaOf[c], PrincipalOf[c])]
  /\ pc' = [pc EXCEPT ![c] = "done"]
  /\ UNCHANGED <<role, grants, entry, seen, pending, changes>>

Miss(c) ==
  /\ pc[c] = "idle"
  /\ ~ Fresh(Mine(c))
  /\ pc' = [pc EXCEPT ![c] = "member"]
  /\ UNCHANGED <<role, grants, entry, order, seen, got, suspect, pending, changes>>

\* The first query.  Without a member row there are no rules and no second.
ReadMember(c) ==
  /\ pc[c] = "member"
  /\ seen' = [seen EXCEPT ![c] = role[PrincipalOf[c]]]
  /\ got' = [got EXCEPT ![c] = {}]
  /\ suspect' = [suspect EXCEPT ![c] = FALSE]
  /\ pc' = [pc EXCEPT ![c] =
              IF role[PrincipalOf[c]] = NoRole THEN "fill" ELSE "grants"]
  /\ UNCHANGED <<role, grants, entry, order, pending, changes>>

\* The second query, for the role the first one returned.
ReadGrants(c) ==
  /\ pc[c] = "grants"
  /\ got' = [got EXCEPT ![c] = grants[seen[c]] \cup MemberRights]
  /\ pc' = [pc EXCEPT ![c] = "fill"]
  /\ UNCHANGED <<role, grants, entry, order, seen, suspect, pending, changes>>

\* A query throws; the middleware and the gateway go on with an empty ability.
ReadFails(c) ==
  /\ pc[c] \in {"member", "grants"}
  /\ got' = [got EXCEPT ![c] = {}]
  /\ pc' = [pc EXCEPT ![c] = "done"]
  /\ UNCHANGED <<role, grants, entry, order, seen, suspect, pending, changes>>

\* evictIfNeeded() deletes the oldest keys while there are more than maxEntries.
Excess(s) == IF Len(s) > MaxEntries THEN Len(s) - MaxEntries ELSE 0

Overflow(s) == {s[i] : i \in 1..Excess(s)}

\* Map.set() keeps the position of a key it already has.
Fill(c) ==
  LET r == ReplicaOf[c]
      p == PrincipalOf[c]
      s == IF Mine(c) = NoEntry THEN Append(order[r], p) ELSE order[r]
      e == [ability |-> got[c], age |-> 0, doubt |-> suspect[c]]
  IN  /\ pc[c] = "fill"
      /\ order' = [order EXCEPT ![r] = SubSeq(s, Excess(s) + 1, Len(s))]
      /\ entry' = [entry EXCEPT ![r] = [q \in Principals |->
                     IF q \in Overflow(s) THEN NoEntry
                     ELSE IF q = p THEN e ELSE @[q]]]
      /\ pc' = [pc EXCEPT ![c] = "done"]
      /\ UNCHANGED <<role, grants, seen, got, suspect, pending, changes>>

-----------------------------------------------------------------------------
(* The handlers that change the tables *)

(***************************************************************************)
(* A write commits.  The history of calls that have already read the old    *)
(* rules, and of entries in replicas whose cache nobody will clear, says so.*)
(***************************************************************************)
Commit(ro, gr, untold) ==
  LET hit == {p \in Principals : RulesIn(ro, gr, p) # Rules(p)}
      read == hit \cup {p \in Principals : ro[p] # role[p]}
  IN  /\ <<ro, gr>> # <<role, grants>>
      /\ changes < MaxChanges
      /\ changes' = changes + 1
      /\ role' = ro
      /\ grants' = gr
      /\ entry' = [r \in Replicas |-> [p \in Principals |->
                     IF r \in untold /\ p \in hit /\ entry[r][p] # NoEntry
                     THEN [entry[r][p] EXCEPT !.doubt = TRUE]
                     ELSE entry[r][p]]]
      /\ suspect' = [c \in Calls |->
                       \/ suspect[c]
                       \/ PrincipalOf[c] \in read /\ pc[c] \notin {"idle", "member"}]
      /\ UNCHANGED <<order, pc, seen, got>>

\* Creating, editing, deleting, attaching and detaching roles, policies and
\* permissions (RoleAdminController and its siblings).
ChangeGrants(r, ro, rights) ==
  /\ Commit(role, [grants EXCEPT ![ro] = rights], Replicas \ {r})
  /\ pending' = pending \cup {[at |-> r, scope |-> Principals]}

\* assignUserRole() and updateMemberRole() of the user administration.
AssignRole(r, p, ro) ==
  /\ Commit([role EXCEPT ![p] = ro], grants, Replicas \ {r})
  /\ pending' = pending \cup {[at |-> r, scope |-> {p}]}

\* removeMember() and updateMemberRole() of the tenant administration, and an
\* accepted invitation, go through better-auth and tell no cache.
TenantAdminChange(p, ro) ==
  /\ Commit([role EXCEPT ![p] = ro], grants, Replicas)
  /\ UNCHANGED pending

\* Variant of Invalidate: the handler returns without it.
InvalidateForgotten(i) ==
  /\ i \in pending
  /\ pending' = pending \ {i}
  /\ UNCHANGED <<role, grants, entry, order, pc, seen, got, suspect, changes>>

\* invalidateAll() or invalidate(userId, tenantId), on the handler's replica.
Invalidate(i) ==
  /\ i \in pending
  /\ pending' = pending \ {i}
  /\ entry' = [entry EXCEPT ![i.at] = [p \in Principals |->
                 IF p \in i.scope THEN NoEntry ELSE @[p]]]
  /\ order' = [order EXCEPT ![i.at] =
                 IF i.scope = Principals THEN <<>>
                 ELSE Deleted(@, CHOOSE p \in i.scope : TRUE)]
  /\ UNCHANGED <<role, grants, pc, seen, got, suspect, changes>>

Ages(e) == e # NoEntry /\ e.age < Ttl

\* Time passes: Date.now() moves towards the expiry of every entry.
Tick ==
  /\ \E r \in Replicas, p \in Principals : Ages(entry[r][p])
  /\ entry' = [r \in Replicas |-> [p \in Principals |->
                 IF Ages(entry[r][p])
                 THEN [entry[r][p] EXCEPT !.age = @ + 1]
                 ELSE entry[r][p]]]
  /\ UNCHANGED <<role, grants, order, pc, seen, got, suspect, pending, changes>>

\* The caller of abilityFor() is finished with the answer.
Return(c) ==
  /\ pc[c] = "done"
  /\ pc' = [pc EXCEPT ![c] = "idle"]
  /\ got' = [got EXCEPT ![c] = {}]
  /\ seen' = [seen EXCEPT ![c] = NoRole]
  /\ suspect' = [suspect EXCEPT ![c] = FALSE]
  /\ UNCHANGED <<role, grants, entry, order, pending, changes>>

Lookup(c) == Hit(c) \/ Miss(c)

Load(c) == ReadMember(c) \/ ReadGrants(c) \/ ReadFails(c) \/ Fill(c)

Administer ==
  \/ \E r \in Replicas, ro \in Roles, rights \in SUBSET Rights :
       ChangeGrants(r, ro, rights)
  \/ \E r \in Replicas, p \in Principals, ro \in Roles : AssignRole(r, p, ro)
  \/ \E p \in Principals, ro \in Roles \cup {NoRole} : TenantAdminChange(p, ro)
  \/ \E i \in pending : Invalidate(i)
=============================================================================
