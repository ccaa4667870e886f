SPECIFICATION Spec
CONSTANTS
  MaxUint = 100000
  Bridges = {"AXELAR", "OTHER"}
  GasServiceBridges = {"AXELAR"}
  Adapters = {"Axelar", "LayerZero", "Wormhole"}
  Kind <- MCKind
  NoAdapter = NoAdapter
  Accounts = {deployer, successor}
  Deployer = deployer
  Destinations = {dest1, dest2}
  Places = {place}
  NoRoute = NoRoute
  Oracles = {relayer, oracle}
  DefaultOracle = relayer
  Endpoint = endpoint
  Prices = {1, 20000}
  NoPrice = NoPrice
  Hints = {0, 2, 60000}
  DefaultHint = 2
  GasQuotes = {2, 100000}
  Reverts = Reverts
  EstimatedSize = 3
  PayloadSizes = {4, 6}
  FeeBufferBps = 14000
  FallbackFee = 3
  FeeCaps = {8, 20}
  InitialPrice = 1
  MaxRequests = 1
  MaxTxs = 1
  MaxChanges = 3
SYMMETRY Interchangeable
INVARIANTS
  TypeOK
  RevertExplained
  SentinelNeverDispatches
CHECK_DEADLOCK FALSE
