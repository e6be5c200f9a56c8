SPECIFICATION FairSpec
CONSTANTS
  everyJob = everyJob
  onceJob = onceJob
  Jobs = {everyJob, onceJob}
  Kind <- Kinds
  Present = {everyJob}
  Services = {s1, s2}
  Backoffs = {0}
  MaxOcc = 1
  MaxEvents = 2
INVARIANTS NoOverlap
PROPERTIES OccurrenceOnce NeverSkipped EveryDueRuns
CHECK_DEADLOCK FALSE
