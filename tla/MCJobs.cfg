\* One queue; four jobs at a time, two finished records kept.  The calls of its
\* users may stop at any point, and then the queue rests.  A download every
\* three days, two crashes.
CONSTANTS
  q1 = q1
  j1 = j1
  j2 = j2
  j3 = j3
  j4 = j4
  Queues = {q1}
  JobIds = {j1, j2, j3, j4}
  NoJob = NoJob
  Keep = 2
  Batch = 2
  MaxChain = 5
  Interval = 3
  MaxExits = 2
SPECIFICATION JobsSpec
INVARIANTS
  WorkIsScheduled
  RefreshIsSound
PROPERTIES
  EveryJobRuns
  TornIsReplaced
