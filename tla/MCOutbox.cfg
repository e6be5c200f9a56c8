SPECIFICATION UserSpec
CONSTANTS
  r1 = r1
  r2 = r2
  k1 = k1
  h1 = h1
  h2 = h2
  Reminders = {r1, r2}
  Milestones = {k1}
  Notes = {1, 2, 3}
  OtherNotes = {1}
  Handlers = {h1, h2}
  Preferences <- Users
  DueLimit = 1
  PushLimit = 1
  PassiveLimit = 2
  MaxFaults = 1
INVARIANTS
  PushedOnce
  ShownBounded
  StatusIsHonest
  ReminderQueuedOnce
  MilestoneQueuedOnce
  ClearedIsTold
PROPERTIES
  PushPromiseSpec
  PushClosed
  DueFires
