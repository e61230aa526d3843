CONSTANTS
  RELOAD = 3
  Phases = 1
  ResultMod = 16
  Slack = 1
  Gap = 2
  Horizon = 18
  Between = 4
SPECIFICATION SysTickSpec
INVARIANTS TicksAreCoreCycles
CHECK_DEADLOCK FALSE
