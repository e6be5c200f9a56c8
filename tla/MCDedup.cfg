SPECIFICATION Spec
CONSTANTS
  j1 = j1
  j2 = j2
  Memories = {1, 2, 3}
  Jobs = {j1}
  Answers = {"distinct", "A", "B", "synthesize", "no text"}
  Quality <- AnyQuality
  DryRuns = {FALSE}
  SynthesisColumn = TRUE
  MayFail = FALSE
  MaxCopies = 2
INVARIANTS
  CountedOnce
  HeirHoldsAll
PROPERTIES
  MergesLiveRows
  IdeaPartitionSpec
CHECK_DEADLOCK FALSE
