\* The constants of the code: five retries, 60 s for a recovery.
SPECIFICATION FairSpec
CONSTANTS
  Deliveries = {d1}
  NPayloads = 1
  Recoveries = {r1}
  Budgets = {12}
  Backoff <- MCBackoff
  MaxRetries = 5
  MaxFaults = 0
PROPERTIES EveryEntrySettled
