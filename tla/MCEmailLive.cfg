\* Two ticks over two records, slow drivers that may always fail, fair.
\* The work ends when both are done.
CONSTANTS
  m1 = m1
  m2 = m2
  t1 = t1
  t2 = t2
  Mails = {m1, m2}
  Key <- NoKeys
  k1 = k1
  NoKey = NoKey
  NoMail = NoMail
  Ticks = {t1, t2}
  BatchSize = 2
  MaxAttempts = 2
  Faults = {"slow"}
SPECIFICATION FairSpec
PROPERTY EveryMailEnds
CHECK_DEADLOCK FALSE
