SPECIFICATION Spec
CONSTANTS
  NoName = NoName
  NoCredential = NoCredential
  Empty = Empty
  Raises = Raises
  Credentials = {1, 2}
  Names = {1, 2}
  Devices = {1}
  DeviceRow <- MCDeviceRow
  NoDevice = NoDevice
  Passwords = {p1, p2}
  Keys = {"k1"}
  e1 = e1
  e2 = e2
  Editors = {e1, e2}
  BuildLists <- MCBuildLists
  MaxActs = 4
  Pages = {q1, q2}
  NoEntry = NoEntry
  NoBadge = NoBadge
  TTL = 2
  MaxDelay = 1
  MaxTime = 9
  MaxWorkers = 1
  PageDevices = {1, 2}
  Slugs = {"ios", "vyos"}
  Histories <- MCHistories
  Captures <- MCCaptures
  Goldens = {1}
  CommandLists <- MCCommandLists
  Manual <- MCManual
  NoPage = NoPage
  NoRequest = NoRequest
  NoOwner = NoOwner
  NoRow = NoRow
  DEVICE_PAGE_SNAPSHOT_LIMIT = 3
  SNAPSHOT_LIMIT = 3
  MaxChanges = 2
SYMMETRY Symmetry
INVARIANT LastPasswordOrRefused
INVARIANT ReportCoversDevices
INVARIANT BadgeIsRecent
INVARIANT PageKeepsItsWord
INVARIANT WorkerAgrees
CHECK_DEADLOCK FALSE
