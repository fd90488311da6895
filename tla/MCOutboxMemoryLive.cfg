\* The in-memory store: what is not done is tried again.
CONSTANTS
  e1 = e1
  e2 = e2
  r1 = r1
  d1 = d1
  Entries = {e1, e2}
  Replicas = {r1}
  Slots = {1, 2}
  Dispatchers = {d1}
  Durable = FALSE
  BatchSize = 1
  Capped = TRUE
  MaxAttempts = 1
  Faults = {}
  NoReplica = NoReplica
  NoEntry = NoEntry
SPECIFICATION FairSpec
PROPERTY PoisonPillLeaves
CHECK_DEADLOCK FALSE
