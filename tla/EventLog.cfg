CONSTANTS
  Threads = {t1, t2}
  LOGBUF_CAP = 2
  LOGBUF_RETENTION_MS = 1
  EventsMemMax = 3
  EventsFileMax = 1
  MaxTick = 1
  MaxSeq = 4
  MaxEvents = 6
  MaxRuns = 3
SYMMETRY MCSymmetry
SPECIFICATION MCSpec
INVARIANTS
  NeverSilent
  LoadLosesNothing
PROPERTIES
  KeepsHistory
CHECK_DEADLOCK FALSE
