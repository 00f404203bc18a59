CONSTANTS
  Keys = {k1}
  MaxWrites = 3
  MaxVersion = 2
SPECIFICATION FairSpec
INVARIANTS
  AckedIsSaved
  NeverTorn
PROPERTIES
  EveryWriteIsMade
  FileGrows
  ImplementsDurableRecord
CHECK_DEADLOCK FALSE
