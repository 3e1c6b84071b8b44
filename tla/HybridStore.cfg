CONSTANTS
  MaxUpdates = 2
  Threshold = 1
  MayCorrupt = TRUE
  WritesLate = TRUE
SPECIFICATION FairSpec
INVARIANTS
  StoreTypeOK
  FlashIsWhole
  
  MilestoneOnce
PROPERTY ShutdownEnds
