SPECIFICATION FairBatchSpec
CONSTANTS
  Batches = {b1}
  Devices = {d1, d2}
  NoDevice = NoDevice
  NoSummary = NoSummary
  Repeats = 2
  Faults = {"enqueue", "save", "crash", "device", "job"}
  LinkFirst = FALSE
INVARIANT CountsMatchWork
INVARIANT SummaryIsFinal
INVARIANT OnlyPersistenceAborts
PROPERTY EveryBatchEnds
CHECK_DEADLOCK FALSE
