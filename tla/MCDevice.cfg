SPECIFICATION Spec
CONSTANTS
  Q = 5
  OFF = OFF
  Images <- MCImages
  PAIRING_ITERS = 2
  MaxResets = 2
  None = None
INVARIANTS TypeOK PhasesTimeOwnWork DoneMeansFinal
PROPERTIES EveryRunReports
CHECK_DEADLOCK FALSE
