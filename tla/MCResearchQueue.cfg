SPECIFICATION FewPairsSpec
CONSTANTS
  Memories = {1, 2, 3}
  UserMemories = {3}
  Items = {1, 2}
  Verdicts = {"A", "unclear"}
  HourlyLimit = 1
  DailyLimit = 1
  Day = 2
  ConfirmationHours = 2
  DisplaceBeta = 5
  MaxFaults = 1
INVARIANTS
  EffectsMatchStatus
PROPERTIES
  ClosedForGood
  QueuedUnderLimits
  EveryItemClosed
