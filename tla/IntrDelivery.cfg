SPECIFICATION FairSpec
CONSTANTS
  AsyncIrqs = {0, 1, 2}
  TimerIrq = 0
  KeyboardIrq = 1
  SyncIrq = 14
  Cpu = Cpu
  MaxDepth = 2
INVARIANTS LineMatchesSlot QueryFindsRequest AcceptedWasRaised SyncNeverLost
PROPERTIES ImplementsLatch HltEnds SyncServed
