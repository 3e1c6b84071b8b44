CONSTANTS
  MaxUpdates = 4
  Threshold = 2
  MayCorrupt = FALSE
  WritesLate = FALSE
SPECIFICATION FairSpec
PROPERTY FlashNeverForgets
