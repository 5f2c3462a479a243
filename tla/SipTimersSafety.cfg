CONSTANTS
  Wrap = 12
  LoopGap = 3
  Limit <- MCLimit
SPECIFICATION TSpec
INVARIANTS
  TimersFire
  WindowIsKept
  EarlyOnlyAtZero
