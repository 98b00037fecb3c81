SPECIFICATION FairSpec
CONSTANTS
  CTR_ROW = 2
  CTR_COL = 2
  Colors = {0, 1}
  MaxStores = 3
INVARIANT CleanIsShown
PROPERTY ShownInTheEnd
CHECK_DEADLOCK FALSE
