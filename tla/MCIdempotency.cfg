\* Three requests with one key on two processes, one with another body; every
\* fault, expiry and the cleanup job.  The behaviour ends when all are answered.
CONSTANTS
  q1 = q1
  q2 = q2
  q3 = q3
  p1 = p1
  p2 = p2
  k1 = k1
  h1 = h1
  h2 = h2
  Requests = {q1, q2, q3}
  Processes = {p1, p2}
  Keys = {k1}
  ProcOf <- Spread
  KeyOf <- AllK1
  HashOf <- Bodies
  Faults = {"get", "put", "handler", "crash", "expiry"}
  NoRequest = NoRequest
SPECIFICATION FairSpec
INVARIANTS
  InflightIsMutex
  AnswerIsFaithful
  RetryReplays
PROPERTY KeyIsReleased
CHECK_DEADLOCK FALSE
