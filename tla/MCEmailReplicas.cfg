\* Two enqueue() calls with one key, three ticks; every fault, slow drivers, and
\* the administrator.  Sent, cancelled or rejected mail is the end of the work.
CONSTANTS
  m1 = m1
  m2 = m2
  t1 = t1
  t2 = t2
  t3 = t3
  Mails = {m1, m2}
  Key <- OneKey
  k1 = k1
  NoKey = NoKey
  NoMail = NoMail
  Ticks = {t1, t2, t3}
  BatchSize = 2
  MaxAttempts = 2
  Faults = {"append", "claim", "write", "crash", "slow", "retry", "cancel"}
SPECIFICATION Spec
SYMMETRY Symmetry
INVARIANTS
  ClaimSerialisesSends
  SentMeansAccepted
  HardCeiling
PROPERTY QuietForGood
CHECK_DEADLOCK FALSE
