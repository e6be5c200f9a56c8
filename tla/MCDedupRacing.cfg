SPECIFICATION SweepingSpec
CONSTANTS
  j1 = j1
  j2 = j2
  Memories = {1, 2, 3}
  Jobs = {j1, j2}
  Answers = {"B"}
  Quality <- Ranked
  DryRuns = {TRUE, FALSE}
  SynthesisColumn = TRUE
  MayFail = TRUE
  MaxCopies = 1
SYMMETRY Symmetry
INVARIANTS
  NoIdeaLost
