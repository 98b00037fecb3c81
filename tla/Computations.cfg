SPECIFICATION Spec
CONSTANTS
  Byte = 2
  ExpBits = 3
  FracBits = 4
  DivBits = 14
  Values = {0, 1, 2, 3, 4, 7, 8, 9, 15, 16, 63, 85, 127, 128, 129, 170, 192, 254, 255}
  Gpr <- MCGpr
  Dividends = {0, 1, 2, 3, 5, 8, 15, 63, 127, 128, 200, 254, 255}
  ValueOf <- MCValueOf
  Memory <- MCMemory
  Leaves = {"NUM", "ZERO", "REG"}
  Depth = 2
  Loaded <- MCLoaded
  Budget = 3
  Scratch = {0, 6}
  Pushed = {1, 130}
  Locals = {0, 3}
  Copies <- MCCopies
  Page = 4
  NR_PTE = 4
  KOFFSET = 192
  PHY_MEM = 64
  KMEM = 32
  VMEM_ADDR = 4
  SCR_SIZE = 6
  STACK_SIZE = 4
  VideoLen = 12
  Layouts <- MCLayouts
  Growths = {3, 4}
  Stored = {228}
  MaxCalls = 2
  MaxStores = 1
INVARIANTS AluIsExact JumpsCompare OperandsDecode FloatsAreRounded StringsAreMoved FpuStackUnwinds TreesMeanWhatTheySay
PROPERTIES PiecesUnwind PagesHold
CHECK_DEADLOCK FALSE
