SPECIFICATION FairSpec
CONSTANTS
  Lengths <- SmallLengths
  MaxRows = 34
  MaxWindows = 12
INVARIANTS TypeOK MissingIsExact WindowsAsCounted
PROPERTY SearchEnds
CHECK_DEADLOCK FALSE
