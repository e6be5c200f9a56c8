SPECIFICATION FairSpec
CONSTANTS
  Routes = {a, b}
  Unroutable = {}
  Modes = {"collect", "followup"}
  Policies = {"summarize", "old", "new"}
  Cap = 2
  MaxQueues = 3
  MaxMessages = 5
  MaxClears = 1
  MaxFailures = 1
PROPERTIES FifoQueueSpec InOrder QueuedIsDrained
CHECK_DEADLOCK FALSE
