------------------------------ MODULE Variants ------------------------------
(***************************************************************************)
(* The cache of image variants (src/src/core/files): AssetService renders a *)
(* variant of a source on a miss, puts it into the cache and records it in  *)
(* the index; DELETE /_ipx/cache/<source> drops what the index lists, or    *)
(* everything if it lists nothing; a daily job prunes old rows of the       *)
(* index, and only those.  The index is the one over Prisma.  Bytes are     *)
(* known by the version of the source that they were rendered from.         *)
(***************************************************************************)
EXTENDS Integers, FiniteSets

CONSTANTS
  Sources,       \* storage keys of originals
  Options,       \* sets of transform options
  Readers,       \* requests that deliver an asset
  Admins,        \* requests that invalidate a source
  MaxVersion,    \* bound: times a source is written
  MaxBreaks      \* bound: calls that fail at an await

ASSUME VariantAssumption ==
  /\ MaxVersion \in Nat \ {0}
  /\ MaxBreaks \in Nat

\* computeCacheKey(): a hash of the source and the options
VariantKeys == Sources \X Options

Version == 0..MaxVersion

VARIABLES
  origin,     \* the version of each source
  cache,      \* the version each cached variant was rendered from; 0: not cached
  index,      \* the index: no row, a row, or a row past its retention
  read,       \* what a delivery has in hand
  drop,       \* what an invalidation has in hand
  breaks,     \* how many calls failed
  passes,     \* history: undisturbed invalidations of a source, one after another
  unlisted    \* history: keys whose row was lost while their bytes were kept

variantVars == <<origin, cache, index, read, drop, breaks, passes, unlisted>>

\* A delivery: how far it is, its key, the version of the bytes it holds.
Resting == [at |-> "idle"]
Reading == [at : {"hit", "origin", "put", "record"}, key : VariantKeys, version : Version]

\* An invalidation: the keys still to delete; history: the passes that were
\* complete when it began, or -1.
Dropping ==
  [at : {"rows", "cascade", "list", "sweep"}, source : Sources, keys : SUBSET VariantKeys,
   since : Int]

\* Type invariant of the cache, its index and the requests.
VariantTypeOK ==
  /\ origin \in [Sources -> 1..MaxVersion]
  /\ cache \in [VariantKeys -> Version]
  /\ index \in [VariantKeys -> {"none", "row", "old"}]
  /\ \A q \in Readers : read[q] = Resting \/ read[q] \in Reading
  /\ \A a \in Admins : drop[a] = Resting \/ drop[a] \in Dropping
  /\ breaks \in 0..MaxBreaks
  /\ passes \in [Sources -> 0..2]
  /\ unlisted \subseteq VariantKeys

VariantInit ==
  /\ origin = [s \in Sources |-> 1]
  /\ cache = [k \in VariantKeys |-> 0]
  /\ index = [k \in VariantKeys |-> "none"]
  /\ read = [q \in Readers |-> Resting]
  /\ drop = [a \in Admins |-> Resting]
  /\ breaks = 0
  /\ passes = [s \in Sources |-> 0]
  /\ unlisted = {}

-----------------------------------------------------------------------------
\* The passes of a source begin anew, also those under way.
Renew(s, d) ==
  /\ passes' = [passes EXCEPT ![s] = 0]
  /\ drop' = [a \in Admins |->
                IF d[a] # Resting /\ d[a].source = s THEN [d[a] EXCEPT !.since = -1] ELSE d[a]]

\* A source is written again under its key, by whoever manages the storage.
Rewrite(s) ==
  /\ origin[s] < MaxVersion
  /\ origin' = [origin EXCEPT ![s] = @ + 1]
  /\ Renew(s, drop)
  /\ UNCHANGED <<cache, index, read, breaks, unlisted>>

\* The storage evicts an object of the cache.
EvictBytes(k) ==
  /\ cache[k] # 0
  /\ cache' = [cache EXCEPT ![k] = 0]
  /\ unlisted' = unlisted \ {k}
  /\ UNCHANGED <<origin, index, read, drop, breaks, passes>>

\* A row gets older than the retention.
Age(k) ==
  /\ index[k] = "row"
  /\ index' = [index EXCEPT ![k] = "old"]
  /\ UNCHANGED <<origin, cache, read, drop, breaks, passes, unlisted>>

Cached(K) == {k \in K : cache[k] # 0}

\* The rows that deleteOlderThan() takes.
Expired == {k \in VariantKeys : index[k] = "old"}

\* The daily runOnce(): rows, not bytes
Prune ==
  /\ Expired # {}
  /\ index' = [k \in VariantKeys |-> IF k \in Expired THEN "none" ELSE index[k]]
  /\ unlisted' = unlisted \cup Cached(Expired)
  /\ UNCHANGED <<origin, cache, read, drop, breaks, passes>>

-----------------------------------------------------------------------------
\* deliver(): cache.exists()
Deliver(q, k) ==
  /\ read[q] = Resting
  /\ read' = [read EXCEPT ![q] =
                [at |-> IF cache[k] # 0 THEN "hit" ELSE "origin", key |-> k, version |-> 0]]
  /\ UNCHANGED <<origin, cache, index, drop, breaks, passes, unlisted>>

\* cache.get(): the bytes, or 404 when they have gone since
Hit(q) ==
  /\ read[q].at = "hit"
  /\ read' = [read EXCEPT ![q] = Resting]
  /\ UNCHANGED <<origin, cache, index, drop, breaks, passes, unlisted>>

\* origin.get(), and the transformer
Render(q) ==
  /\ read[q].at = "origin"
  /\ read' = [read EXCEPT ![q].at = "put", ![q].version = origin[read[q].key[1]]]
  /\ UNCHANGED <<origin, cache, index, drop, breaks, passes, unlisted>>

\* cache.put(); bytes of an earlier version are outdated when they come, and the
\* passes begin anew.
PutVariant(q) ==
  LET k == read[q].key IN
  /\ read[q].at = "put"
  /\ cache' = [cache EXCEPT ![k] = read[q].version]
  /\ read' = [read EXCEPT ![q].at = "record"]
  /\ IF read[q].version < origin[k[1]] THEN Renew(k[1], drop) ELSE UNCHANGED <<drop, passes>>
  /\ UNCHANGED <<origin, index, breaks, unlisted>>

\* record(): the upsert leaves createdAt of an existing row as it was.
Recorded(k) == IF index[k] = "none" THEN "row" ELSE index[k]

Record(q) ==
  LET k == read[q].key IN
  /\ read[q].at = "record"
  /\ index' = [index EXCEPT ![k] = Recorded(k)]
  /\ unlisted' = unlisted \ {k}
  /\ Renew(k[1], drop)
  /\ read' = [read EXCEPT ![q] = Resting]
  /\ UNCHANGED <<origin, cache, breaks>>

\* The delivery fails at an await or its process dies.
BreakDelivery(q) ==
  /\ read[q] # Resting
  /\ breaks < MaxBreaks
  /\ breaks' = breaks + 1
  /\ unlisted' = IF read[q].at = "record" /\ index[read[q].key] = "none"
                 THEN unlisted \cup Cached({read[q].key}) ELSE unlisted
  /\ read' = [read EXCEPT ![q] = Resting]
  /\ UNCHANGED <<origin, cache, index, drop, passes>>

-----------------------------------------------------------------------------

RowsOf(s) == {k \in VariantKeys : k[1] = s /\ index[k] # "none"}

\* Variant of FindRows: without rows there is nothing to delete.
FindRowsOnly(a, s) ==
  /\ drop[a] = Resting
  /\ drop' = [drop EXCEPT ![a] =
                [at |-> "rows", source |-> s, keys |-> RowsOf(s), since |-> passes[s]]]
  /\ UNCHANGED <<origin, cache, index, read, breaks, passes, unlisted>>

\* removeBySourceKey(): the rows of the source; without any, the controller
\* goes on to list the whole cache.
FindRows(a, s) ==
  /\ drop[a] = Resting
  /\ drop' = [drop EXCEPT ![a] =
                [at |-> IF RowsOf(s) = {} THEN "list" ELSE "rows", source |-> s,
                 keys |-> RowsOf(s), since |-> passes[s]]]
  /\ UNCHANGED <<origin, cache, index, read, breaks, passes, unlisted>>

\* deleteMany() also takes rows recorded since: their bytes are not known.
DeleteRows(a) ==
  LET s == drop[a].source IN
  /\ drop[a].at = "rows"
  /\ index' = [k \in VariantKeys |-> IF k \in RowsOf(s) THEN "none" ELSE index[k]]
  /\ unlisted' = unlisted \cup Cached(RowsOf(s) \ drop[a].keys)
  /\ drop' = [drop EXCEPT ![a].at = "cascade"]
  /\ UNCHANGED <<origin, cache, read, breaks, passes>>

\* cache.list("assets/")
ListCache(a) ==
  /\ drop[a].at = "list"
  /\ drop' = [drop EXCEPT ![a].at = "sweep", ![a].keys = Cached(VariantKeys)]
  /\ UNCHANGED <<origin, cache, index, read, breaks, passes, unlisted>>

DeleteBytes(a, k) ==
  /\ drop[a].at \in {"cascade", "sweep"}
  /\ k \in drop[a].keys
  /\ cache' = [cache EXCEPT ![k] = 0]
  /\ unlisted' = unlisted \ {k}
  /\ drop' = [drop EXCEPT ![a].keys = @ \ {k}]
  /\ UNCHANGED <<origin, index, read, breaks, passes>>

\* invalidateSource() takes a deletion that fails for done.
SkipBytes(a, k) ==
  /\ drop[a].at = "cascade"
  /\ k \in drop[a].keys
  /\ breaks < MaxBreaks
  /\ breaks' = breaks + 1
  /\ unlisted' = unlisted \cup Cached({k})
  /\ drop' = [drop EXCEPT ![a].keys = @ \ {k}]
  /\ UNCHANGED <<origin, cache, index, read, passes>>

Answer(a) ==
  LET s == drop[a].source
      n == drop[a].since + 1
  IN
  /\ drop[a].at \in {"cascade", "sweep"}
  /\ drop[a].keys = {}
  /\ passes' = [passes EXCEPT ![s] = IF n > @ /\ n <= 2 THEN n ELSE @]
  /\ drop' = [drop EXCEPT ![a] = Resting]
  /\ UNCHANGED <<origin, cache, index, read, breaks, unlisted>>

\* The database or the sweep fails, or the process dies.
BreakInvalidation(a) ==
  /\ drop[a] # Resting
  /\ breaks < MaxBreaks
  /\ breaks' = breaks + 1
  /\ unlisted' = IF drop[a].at = "cascade" THEN unlisted \cup Cached(drop[a].keys) ELSE unlisted
  /\ drop' = [drop EXCEPT ![a] = Resting]
  /\ UNCHANGED <<origin, cache, index, read, passes>>

-----------------------------------------------------------------------------
DeliverAsset(q) ==
  \/ \E k \in VariantKeys : Deliver(q, k)
  \/ Hit(q) \/ Render(q) \/ PutVariant(q) \/ Record(q)
  \/ BreakDelivery(q)

Invalidate(a) ==
  \/ \E s \in Sources : FindRows(a, s)
  \/ DeleteRows(a) \/ ListCache(a)
  \/ \E k \in VariantKeys : DeleteBytes(a, k) \/ SkipBytes(a, k)
  \/ Answer(a)
  \/ BreakInvalidation(a)

VariantNext ==
  \/ \E q \in Readers : DeliverAsset(q)
  \/ \E a \in Admins : Invalidate(a)
  \/ \E k \in VariantKeys : EvictBytes(k) \/ Age(k)
  \/ \E s \in Sources : Rewrite(s)
  \/ Prune

VariantSpec == VariantInit /\ [][VariantNext]_variantVars

-----------------------------------------------------------------------------
Stale(k) == cache[k] # 0 /\ cache[k] < origin[k[1]]

Recording(k) ==
  \E q \in Readers : read[q] # Resting /\ read[q].at = "record" /\ read[q].key = k

Discarding(k) ==
  \E a \in Admins : drop[a] # Resting /\ drop[a].at = "cascade" /\ k \in drop[a].keys

(***************************************************************************)
(* Invalidation gets rid of outdated variants.  One pass is enough for what *)
(* the index lists: one that survives it was not listed, or another request *)
(* is still about to record or to delete it.  A pass that finds no row      *)
(* sweeps the cache; so two in a row leave no outdated one, whatever the    *)
(* index has lost.  The passes count only from the last step that makes     *)
(* work for them: a source written again, a variant of it recorded, or an   *)
(* outdated one put by a delivery that rendered it before the source was    *)
(* written.  Such a delivery may put its bytes after any number of passes,  *)
(* and they are then served until the next ones.                            *)
(***************************************************************************)
PassesClear ==
  \A k \in VariantKeys :
    /\ passes[k[1]] = 1 /\ Stale(k) => k \in unlisted \/ Recording(k) \/ Discarding(k)
    /\ passes[k[1]] = 2 => ~ Stale(k)
=============================================================================
