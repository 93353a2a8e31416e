SPECIFICATION FairSpec
CONSTANTS
  Batches = {1, 2}
  Devices = {d1}
  NoDevice = NoDevice
  NoSummary = NoSummary
  Repeats = 1
  Faults = {"enqueue", "crash", "device"}
  LinkFirst = TRUE
  Schedules = {1, 2}
  NoSchedule = NoSchedule
  NoBatch = NoBatch
  NoEdit = NoEdit
  MaxRuns = 2
  Interval = 2
  MaxEdits = 1
  ScheduleFaults = {"edit", "delete", "rename"}
INVARIANT OneBatchPerSchedule
INVARIANT NormalRunCoversAll
INVARIANT LastRunIsReal
PROPERTY OperatorsDecide
PROPERTY FetchedIsDispatched
CHECK_DEADLOCK FALSE
