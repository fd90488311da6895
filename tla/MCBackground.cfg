\* Two servers; two requests of one user, maybe an earlier one of another, batches of one
\* row.  The servers go on for ever.
CONSTANTS
  v1 = v1
  v2 = v2
  u1 = u1
  u2 = u2
  a1 = a1
  a2 = a2
  r1 = r1
  r2 = r2
  j1 = j1
  Queues = {v1, v2}
  Servers = {v1, v2}
  JobIds = {j1}
  NoJob = NoJob
  Keep = 0
  Batch = 1
  MaxChain = 1
  Users = {u1, u2}
  Askers = {a1, a2}
  UserOf <- Who
  Rows = {r1, r2}
  Grace = 1
  ReadLimit = 1
SPECIFICATION FairSpec
INVARIANTS
  CompletedIsErased
  RepeatsCollapse
PROPERTIES
  ErasureIsDue
  RequestsAreErased
