SPECIFICATION Spec
CONSTANTS
  NrSecCache = 2
  Words = 2
  NR_FILES = 2
  Size <- MCSize
  DiskOffset <- MCDiskOffset
  Wrap = 1048576
  Lens <- MCLens
  Seeks <- MCSeeks
  NR_IRQ_HANDLE = 4
  Header = 2
  Segments <- MCSegments
  Guest <- MCGuest
PROPERTY SeekEndIsSize
