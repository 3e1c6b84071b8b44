CONSTANTS
  Callers = {main_loop, telegram}
  DailyLimit = 4
  CostLimit = 5
  MaxTokens = 2
  Attempts = 2
SPECIFICATION FairSpec
INVARIANTS
  CloudTypeOK
  TrippedIsOpen
  SentIsPaid
PROPERTY BreakerRecovers
