SPECIFICATION Spec
CONSTANTS
  a = a
  b = b
  Delimiter = Delimiter
  Tokens = {a, b, Delimiter, 2}
  MaxGolden = 3
  MaxActual = 3
  ComplianceRequests <- MCComplianceRequests
  Values <- MCValues
  Depth <- MCDepth
  DiffRequests <- MCDiffRequests
INVARIANT VerdictIsRight
INVARIANT NoiseIsIgnored
INVARIANT TreeHoldsEveryLine
INVARIANT DiffIsLossless
INVARIANT ChangesAreReal
INVARIANT DiffIsSymmetric
CHECK_DEADLOCK FALSE
