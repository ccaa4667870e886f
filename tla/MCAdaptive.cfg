SPECIFICATION FairSpec
CONSTANTS
  MaxU64 = 1000
  MaxU32 = 15
  TBases = {1, 3, 4, 7}
  TMax = 240
  AlphaNum = 5
  AlphaDen = 4
  DecayNum = 9
  DecayDen = 10
  DecayEpochThreshold = 3
  ExpectedSolveMs = 4
  TolerancePct = 50
  SolveTimes = {0, 1, 2, 6, 7}
INVARIANTS
  DelayBounded
PROPERTIES
  FallsOnlyWhenHealthy
  RisesToCap
  ReturnsToBase
