\* One replica with two overlapping ticks and two dispatchers.
CONSTANTS
  e1 = e1
  e2 = e2
  r1 = r1
  d1 = d1
  d2 = d2
  Entries = {e1, e2}
  Replicas = {r1}
  Slots = {1, 2}
  Dispatchers = {d1, d2}
  Durable = TRUE
  BatchSize = 1
  Capped = TRUE
  MaxAttempts = 1
  Faults = {"append", "worker", "reset", "crash"}
  NoReplica = NoReplica
  NoEntry = NoEntry
SPECIFICATION Spec
INVARIANTS
  ProcessedMeansDelivered
  SeqUnique
PROPERTIES
  KeepsPromise
