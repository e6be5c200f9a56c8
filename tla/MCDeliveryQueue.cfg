SPECIFICATION FairSpec
CONSTANTS
  Deliveries = {d1}
  NPayloads = 2
  Recoveries = {r1, r2}
  Budgets = {12}
  Backoff <- MCBackoff
  MaxRetries = 1
  MaxFaults = 1
INVARIANTS NothingLost
PROPERTIES AtLeastOnceSpec EveryEntrySettled
