CONSTANTS
  HALF = 2
  R_MOD <- MCR_MOD
  BYTE = 2
  BPL = 2
  BITS = 2
  Cells = {m1, m2}
  Inputs <- MCInputs
SPECIFICATION Spec
INVARIANTS TypeOK ResultCorrect NoCarryLost RemainderOfUpperPart StoreLoads
CHECK_DEADLOCK FALSE
