SPECIFICATION FairSpec
CONSTANTS
  Exit = 4
  Handler = 2
  NR_BP = 2
  Cmds = {"b", "w", "d", "c", "si"}
  Careful = TRUE
  MaxSteps = 2
INVARIANTS PoolAndCodeAreKept EveryBreakIsFound NoChangeIsMissed
PROPERTIES CloseEndsTheRun ImplementsDebugger
CHECK_DEADLOCK FALSE
