SPECIFICATION Spec
CONSTANTS
  Pages = 3
  MaxCuts = 1
INVARIANTS
  SuccessIsStored
PROPERTIES
  ProbeJudges
  UpdateEnds
