\* Three overlapping calls and one with an undeclared event type; a good and a
\* bad URL; every fault.  The work ends when all calls have returned.
CONSTANTS
  d1 = d1
  d2 = d2
  d3 = d3
  d4 = d4
  w1 = w1
  w2 = w2
  Calls = {d1, d2, d3, d4}
  Endpoints = {w1, w2}
  Matches <- Fanout
  Declared = {d1, d2, d3}
  ValidUrl = {w1}
  Threshold = 2
  Faults = {"store", "crash", "remove"}
  Inspected = {w2}
  TestEvent = TestEvent
  NoEndpoint = NoEndpoint
SPECIFICATION Spec
SYMMETRY Symmetry
INVARIANTS
  DisabledIsEarned
  LogIsTruthful
  SiblingsAreTried
  CountIsExactWhenAlone
CHECK_DEADLOCK FALSE
