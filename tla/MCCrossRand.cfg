SPECIFICATION CrossFairSpec
CONSTANTS
  r1 = r1  r2 = r2  p1 = p1  p2 = p2  p3 = p3  k1 = k1  k2 = k2  
  s1 = s1  v1 = v1  w1 = w1
  NoProof = NoProof  NoVerifier = NoVerifier
  NoPkHash = NoPkHash  NoHash = NoHash
  Packing <- MCPacking
  Accepts <- MCAccepts
  Proofs <- MCProofs
  Defaults <- MCDefaults
  Committee <- MCCommittee
  Signature <- MCSignature
  Transcript <- MCTranscript
  Bridges = {"axelar", "layerzero"}
  EntryPoints = {"axelar"}
  Signatures = {s1}
  AggregateKeys = {k1}
  FirstBlock = 1
  Requests = {r1}
  Payloads = {p1, p2, p3}
  Outputs = {p1, p2}
  IncompletePayloads = {}
  Verifiers = {v1}
  PkHashes = {k1, k2}
  Accounts = {w1}
  Payees = {w1}
  Windows = {1}
  Thresholds = {1}
  Factors = {1}
  BaseFees = {1}
  DynamicModes = {FALSE}
  BlsModes = {FALSE}
  ZkModes = {FALSE, TRUE}
  ChallengerRewards = {1}
  BaselineRewards = {1}
  AuditEpochs = {1}
  Deposits = {}
  MaxBlock = 3
  MaxDeposits = 0
INVARIANTS
  CrossTypeOK
  ExecutedIsQueued
PROPERTIES
  DeliverableIsSettled
CHECK_DEADLOCK FALSE
