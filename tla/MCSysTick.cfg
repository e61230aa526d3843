CONSTANTS
  RELOAD = 3
  Phases = 2
  ResultMod = 16
  Slack = 2
  Gap = 2
  Horizon = 18
  Between = 4
SPECIFICATION SysTickFairSpec
INVARIANTS SysTickTypeOK OverflowsAccounted ReadingOffByPeriods CleanReadingExact
PROPERTY AllPhasesMeasured
CHECK_DEADLOCK FALSE
