\* Two replicas, two requests at a time, a file of two bytes in chunks of at most one,
\* at most one failure; the objects on the disk of one replica or shared.
\* The client may stop: a removed upload has nothing left to do.
CONSTANTS
  r1 = r1
  r2 = r2
  q1 = q1
  q2 = q2
  Replicas = {r1, r2}
  Requests = {q1, q2}
  Disks = {r1, Shared}
  Size = 2
  MaxChunk = 1
  MaxFailures = 1
  MaxFiles = 2
  Absent = Absent
  Deferred = Deferred
  Shared = Shared
  Free = Free
SPECIFICATION FairSpec
INVARIANTS
  StoredIsSound
  RecordedOnce
PROPERTY Resumes
CHECK_DEADLOCK FALSE
