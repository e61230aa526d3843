CONSTANTS
  P = 103
  R = 512
  B = 5
  Par = 1
  Order = 97
  Gen <- MCGen
  Width = 4
  PointCount = 2
  Decoded = {0, 1}
  Scalars <- MCScalars
  MaxCalls = 3
  MulCalls = 1
SPECIFICATION EpSpec
INVARIANTS EpTypeOK GroupLaw RecodingsRight
CHECK_DEADLOCK FALSE
