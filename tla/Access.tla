------------------------------- MODULE Access -------------------------------
(***************************************************************************)
(* How a request and a socket come by what they may do: AbilityMiddleware   *)
(* (src/src/core/permissions/ability.middleware.ts) asks PermissionService  *)
(* for the request's ability, narrowed to the scopes of its API key; a      *)
(* socket asks for it while it is authenticated.  Composes PermissionCache  *)
(* and Realtime.                                                            *)
(***************************************************************************)
EXTENDS Realtime

CONSTANTS
  ScopesOf    \* the scopes of a caller's API key; none for a session

ASSUME AccessAssumption == ScopesOf \in [Calls -> SUBSET Rights]

accessVars == <<cacheVars, socketVars>>

\* Type invariant of the caches, the readers and the sockets.
TypeOK == CacheTypeOK /\ SocketTypeOK

Init == CacheInit /\ SocketInit

\* Who calls abilityFor(): requests, and sockets whose session was found.
Ready(c) == c \in Sockets => auth[c] = "ability"

\* restrictAbilityByScopes(); abilityFor() skips it when there are none.
RestrictByScopes(full, scopes) == IF scopes = {} THEN full ELSE full \cap scopes

\* req.ability, or client.data.ability.
Effective(c) == RestrictByScopes(got[c], ScopesOf[c])

\* The request was served with its ability; a socket keeps its own.
Served(c) == c \notin Sockets /\ Return(c)

CallStep(c) ==
  \/ Ready(c) /\ Lookup(c)
  \/ Load(c)
  \/ Served(c)

Next ==
  \/ (\E c \in Calls : CallStep(c)) /\ UNCHANGED socketVars
  \/ \E s \in Sockets : Authenticate(s) \/ Converse(s)
  \/ Administer /\ UNCHANGED socketVars
  \/ Tick /\ UNCHANGED socketVars

Spec == Init /\ [][Next]_accessVars

(***************************************************************************)
(* Queries settle, a handler whose write returned goes on to its            *)
(* invalidation, and time passes.  Nobody has to connect or to ask.         *)
(***************************************************************************)
Fairness ==
  /\ WF_accessVars(Tick /\ UNCHANGED socketVars)
  /\ WF_accessVars((\E i \in pending : Invalidate(i)) /\ UNCHANGED socketVars)
  /\ \A c \in Calls : WF_accessVars(Load(c) /\ UNCHANGED socketVars)

FairSpec == Spec /\ Fairness

-----------------------------------------------------------------------------
(***************************************************************************)
(* A request or a socket never works with more than its user has, nor does  *)
(* a cached ability differ from the tables, except where the tables changed *)
(* under the request, under the fill, or behind this replica's back         *)
(* (another replica, the tenant administration), or a handler of this       *)
(* replica has not reached its invalidate() yet.  So once such a handler    *)
(* has returned, the next request rebuilds.                                 *)
(***************************************************************************)
StaleOnlyByOverlap ==
  /\ \A c \in Calls :
       pc[c] = "done" /\ ~ suspect[c] =>
         Effective(c) \subseteq RestrictByScopes(Rules(PrincipalOf[c]), ScopesOf[c])
  /\ \A r \in Replicas, p \in Principals :
       entry[r][p] # NoEntry /\ ~ entry[r][p].doubt /\ ~ Untold(r, p) =>
         entry[r][p].ability = Rules(p)

(***************************************************************************)
(* evictIfNeeded() keeps the cache within maxEntries whatever fills and     *)
(* invalidations overlap, and the Map's order lists each entry once.        *)
(***************************************************************************)
CacheBounded ==
  \A r \in Replicas :
    /\ Len(order[r]) <= MaxEntries
    /\ \A p \in Principals :
         Cardinality({i \in DOMAIN order[r] : order[r][i] = p})
           = IF entry[r][p] = NoEntry THEN 0 ELSE 1

(***************************************************************************)
(* The bookkeeping of a replica is sound under every overlap: well typed,   *)
(* the cache bounded and its order exact, the inspector's registry and its  *)
(* subscriber lists what Socket.IO has.                                     *)
(***************************************************************************)
BooksAreSound == TypeOK /\ CacheBounded /\ RegistryIsLive /\ CountsAreTrue

(***************************************************************************)
(* Rules that stop changing are enforced everywhere in the end: no replica  *)
(* goes on answering from an entry built on older rules, however often it   *)
(* is used, whoever made the change and whether or not it was announced.    *)
(***************************************************************************)
StaleEntriesEnd ==
  <>[](\A r \in Replicas, p \in Principals :
         Fresh(entry[r][p]) => entry[r][p].ability = Rules(p))
=============================================================================
