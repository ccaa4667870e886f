SPECIFICATION DaemonFairSpec
CONSTANTS
  NoEstimate = NoEstimate
  NoName = NoName
  Unset = Unset
  NoFile = NoFile
  BadFile = BadFile
  Normalize <- MCNormalize
  DefaultPriority <- MCDefaultPriority
  BuiltIn = {"AXELAR", "LAYERZERO"}
  Dummy = "DUMMY"
  Configurations <- MCConfigurations
  Requests = {1, 2}
  Watched = "AXELAR"
  Estimates = {1}
  FallbackFee = 1
  FeeBufferBps = 10000
  MaxFeeCap = 3
  DailyBudget = 0
  Lookback = 3
  Lag = 2
  FirstBlock = 1
  MaxBlock = 4
  MaxRuns = 5
  MaxFaults = 1
  MaxDay = 0
  MaxLives = 2
INVARIANTS
  DaemonTypeOK
  NoRequestPassedOver
  DuplicatesExplained
  ProcessedWasRelayed
PROPERTIES
  EveryRequestHandled
CHECK_DEADLOCK FALSE
