SPECIFICATION Spec
CONSTANTS
  LineSize = 2
  NR_GROUPS = 2
  NR_WAYS = 2
  Lines <- MCLines
  Uint8 = {0, 1}
  Lens = {1, 2}
INVARIANTS Coherent OneWayPerLine
PROPERTY ImplementsMemory
