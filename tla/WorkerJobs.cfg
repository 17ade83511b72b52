\* Two messages and three jobs; a batch posted twice; two crashes, an error.
SPECIFICATION FairSpec
CONSTANTS
  Inbound = {m1, m2}
  Templates = {t1}
  Files = {f1}
  Backups = {k1}
  m3 = m3
  m4 = m4
  Batch <- TwoMessages
  Posts = {p1, p2}
  MaxStalls = 1
  MaxWork = 3
  MaxCrashes = 2
  MaxErrors = 1
INVARIANTS OnceForEachRun StoredWithoutGap
PROPERTY InboundIsStored
CHECK_DEADLOCK FALSE
