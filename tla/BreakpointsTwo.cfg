SPECIFICATION Spec
CONSTANTS
  Exit = 3
  Handler = 2
  NR_BP = 2
  Cmds = {"b", "c"}
  Careful = FALSE
  MaxSteps = 0
INVARIANT RestoresTheProgram
CHECK_DEADLOCK FALSE
