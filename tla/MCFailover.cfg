SPECIFICATION Spec
CONSTANTS
  NoEstimate = NoEstimate
  NoName = NoName
  Unset = Unset
  NoFile = NoFile
  BadFile = BadFile
  Normalize <- MCNormalize
  DefaultPriority <- MCDefaultPriority
  BuiltIn = {"AXELAR", "LAYERZERO"}
  Dummy = "DUMMY"
  Configurations <- MCConfigurations
  Requests = {1}
  Watched = "AXELAR"
  Estimates = {1, 4}
  FallbackFee = 1
  FeeBufferBps = 11000
  MaxFeeCap = 3
  DailyBudget = 2
  MaxRuns = 3
  MaxFaults = 2
  MaxDay = 1
  MaxLives = 2
INVARIANTS
  TypeOK
  BudgetHeld
  SecondRelayMeansAbandoned
  ResultTellsTheTruth
  EachBridgeOnce
  ResolutionAsListed
CHECK_DEADLOCK FALSE
