\* Two replicas over one table, one tick each; database calls fail, processes
\* die and boot again.
CONSTANTS
  e1 = e1
  e2 = e2
  r1 = r1
  r2 = r2
  d1 = d1
  Entries = {e1, e2}
  Replicas = {r1, r2}
  Slots = {1}
  Dispatchers = {d1}
  Durable = TRUE
  BatchSize = 2
  Capped = FALSE
  MaxAttempts = 0
  Faults = {"worker", "reset", "seed", "crash"}
  NoReplica = NoReplica
  NoEntry = NoEntry
SPECIFICATION Spec
SYMMETRY Symmetry
INVARIANT ClaimIsExclusiveLease
