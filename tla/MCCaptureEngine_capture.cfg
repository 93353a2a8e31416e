SPECIFICATION Spec
CONSTANTS
  c1 = c1
  c2 = c2
  f1 = f1
  f2 = f2
  Commands = {c1, c2}
  Features = {f1, f2}
  ParseLists <- MCParseLists
  StateLists <- MCStateLists
  FeatureLists <- MCFeatureLists
  Resolver = "device"
INVARIANT TypeOK
INVARIANT FailureExplained
INVARIANT NoSilentEmptySuccess
INVARIANT EveryCommandAccounted
INVARIANT LostTextWarned
INVARIANT AlwaysDisconnects
INVARIANT OnlyReadyDevicesDialled
CHECK_DEADLOCK FALSE
