\* One API key with two rotations and two requests; three sign-ins where one session is allowed.
\* Two devices with two batches each, two calls at once, two answers lost.
\* Two variants of a source that is written twice, a delivery against two
\* invalidations, one failure.
\* Two users of the migration handler over two connections.
\* Two servers, a day of two ticks and a key that expires after four days, one failure or restart of each.
\* Two matrix pages over a role of each of two tenants, one of them made later; two names,
\* two policies, one failure or change by hand.
\* When all is handled nothing is left to do.
CONSTANTS
  k1 = k1
  v1 = v1
  v2 = v2
  s1 = s1
  s2 = s2
  s3 = s3
  f1 = f1
  f2 = f2
  Keys = {k1}
  Verifiers = {v1, v2}
  KeyOf <- OneKey
  MaxSecret = 2
  Sessions = {s1, s2, s3}
  Prints = {f1, f2}
  Cap = 1
  Nobody = Nobody
  Unmarked = Unmarked
  d1 = d1
  d2 = d2
  c1 = c1
  c2 = c2
  x1 = x1
  x2 = x2
  x3 = x3
  Clients = {d1, d2}
  Calls = {c1, c2}
  Docs = {x1, x2, x3}
  Fields = {f1, f2}
  Values = {1, 2}
  Queue <- Offline
  Skew <- FastSecond
  MaxClock = 1
  MaxLost = 2
  NoRow = NoRow
  NoId = NoId
  NoCall = NoCall
  i1 = i1
  o1 = o1
  o2 = o2
  q1 = q1
  a1 = a1
  a2 = a2
  Sources = {i1}
  Options = {o1, o2}
  Readers = {q1}
  Admins = {a1, a2}
  MaxVersion = 2
  MaxBreaks = 1
  Workers = {a1, a2}
  Conns = {a1, a2}
  MaxFolders = 2
  MaxHeld = 2
  NoWorker = NoWorker
  Servers = {a1, a2}
  Length = 2
  Lag = 1
  Warn = 3
  Expiry = 8
  MaxFaults = 1
  Never = Never
  t1 = t1
  t2 = t2
  r1 = r1
  r2 = r2
  n1 = n1
  n2 = n2
  p1 = p1
  p2 = p2
  Orgs = {t1, t2}
  Roles = {r1, r2}
  HomeOf <- OneEach
  Names = {n1, n2}
  Policies = {p1, p2}
  Pages = {a1, a2}
  MaxRows = 1
  MaxMishaps = 1
  NoPolicy = NoPolicy
  NoName = NoName
  Gone = Gone
SPECIFICATION MCSpec
INVARIANTS
  RequestsTypeOK
  SignInsAreLimited
  BatchesCountOnce
  PassesClear
  LockIsSound
  WarnedOnce
  GrantsAreSound
PROPERTY AcceptedKeyIsValid
CHECK_DEADLOCK FALSE
