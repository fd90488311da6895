\* One user's request (with an API key's scopes) and socket, and another user's
\* request, on one replica with one cache slot; administrators on two replicas
\* and in the tenant administration.  The server never stops.
CONSTANTS
  r1 = r1
  r2 = r2
  p1 = p1
  p2 = p2
  c1 = c1
  c2 = c2
  s1 = s1
  a = a
  x = x
  ch1 = ch1
  Replicas = {r1, r2}
  Principals = {p1, p2}
  Roles = {a}
  NoRole = NoRole
  Rights = {x}
  MemberRights = {}
  Calls = {c1, c2, s1}
  ReplicaOf <- Home
  PrincipalOf <- Who
  MaxEntries = 1
  Ttl = 1
  MaxChanges = 1
  NoEntry = NoEntry
  Sockets = {s1}
  Channels = {ch1}
  RightOf <- AllRight
  ScopesOf <- KeyScopes
SPECIFICATION FairSpec
INVARIANTS
  BooksAreSound
  StaleOnlyByOverlap
PROPERTY StaleEntriesEnd
