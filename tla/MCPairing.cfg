CONSTANTS
  P = 2143
  R = 16384
  QNR = 9
  B = 5
  Par <- MCPar
  Order = 2089
  Gen1 <- MCGen1
  Gen2 <- MCGen2
  Inputs <- MCInputs
  Loops = {"oatep", "ate"}
SPECIFICATION Spec
INVARIANTS TypeOK ExactMiller LazyWithinReach AtMultiple Bilinear
CHECK_DEADLOCK FALSE
