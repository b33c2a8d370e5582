SPECIFICATION Spec
CONSTANTS
  k1 = k1
  k2 = k2
  k3 = k3
  Symbol <- MCSymbol
  Trees <- MCTrees
  Settings <- MCSettings
  None = None
  Limits = {1, 2}
  CandidateFactor = 2
  CandidateFloor = 2
  MaxDistance = 85
  Words = 2
  MaxSnapshots = 2
INVARIANTS
  TypeOK
  ReadsActiveSnapshot
  NearestAreShown
  WeightsNeverPromote
  BetterMatchesFirst
  AutoFindsSomething
CHECK_DEADLOCK FALSE
