SPECIFICATION FairSpec
CONSTANTS
  Caller = {c1, c2}
  LongBurst = 2
  LongPeriod = 2
  ShortBurst = 1
  ShortPeriod = 1
  maxRetries = 3
  RetryAfter = {0, 1}
  DefaultPause = 2
  Window = 4
  MaxDebt = 4
INVARIANT SentWithinBudget
PROPERTY CallReturns
