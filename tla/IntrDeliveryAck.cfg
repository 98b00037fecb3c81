SPECIFICATION Spec
CONSTANTS
  AsyncIrqs = {0, 1}
  TimerIrq = 0
  KeyboardIrq = 1
  SyncIrq = 14
  Cpu = Cpu
  MaxDepth = 1
INVARIANT AckClearsWhatWasQueried
