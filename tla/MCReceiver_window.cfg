SPECIFICATION FairSpec
CONSTANTS
  r1 = r1  r2 = r2  p1 = p1  p2 = p2  e1 = e1  s1 = s1
  v1 = v1  k1 = k1  k2 = k2  w1 = w1  w2 = w2  w3 = w3
  NoProof = NoProof  NoVerifier = NoVerifier
  NoPkHash = NoPkHash  NoHash = NoHash
  Packing <- MCPacking
  Accepts <- MCAccepts
  Proofs = {}
  Defaults <- MCDefaults
  Signatures = {s1}
  AggregateKeys = {k1}
  FirstBlock = 1
  Requests = {r1}
  Payloads = {p1, p2}
  IncompletePayloads = {}
  ValidPayloads = {p1}
  Verifiers = {v1}
  Oversized = {}
  PkHashes = {}
  Accounts = {w1}
  Payees = {w1}
  Windows = {0, 1, 2}
  Thresholds = {0, 1}
  Factors = {0, 1, 3}
  BaseFees = {1, 2}
  DynamicModes = {FALSE, TRUE}
  BlsModes = {FALSE}
  ZkModes = {FALSE}
  ChallengerRewards = {1}
  BaselineRewards = {1}
  AuditEpochs = {9}
  Deposits = {1}
  MaxBlock = 5
  MaxDeposits = 0
INVARIANTS
  ChallengeableForAWindow
PROPERTIES
  QueuedIsSettled
