SPECIFICATION Spec
CONSTANTS
  s1 = s1
  s2 = s2
  s3 = s3
  g1 = g1
  d1 = d1
  d2 = d2
  Jobs = {j1}
  Devices = {d1, d2}
  Snapshots = {s1, s2, s3}
  Goldens = {g1}
  FirstOwner <- MCFirstOwner
  NoDevice = NoDevice
  NoInput = NoInput
  JobTypes = {"capture", "parse", "learn", "diff", "compliance"}
  Faults = {"enqueue", "save", "crash", "delete", "edit"}
  LinkFirst = FALSE
INVARIANT TypeOK
INVARIANT AtMostOneResult
INVARIANT ErrorMeansNoResult
INVARIANT SuccessMeansResult
INVARIANT NoDanglingLink
INVARIANT BadInputsReported
CHECK_DEADLOCK FALSE
