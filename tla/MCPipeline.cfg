SPECIFICATION FairSpec
CONSTANTS
  Orders = {6, 7}
  Delays = {0, 5}
  TwoPow <- MCTwoPow
  Counters = 2
  Candidates = {11, 23, 29, 35, 47, 127}
  SmoothPrimes <- MCSmoothPrimes
  Nibble = 2
  HalfLength = 2
  Root = 2
  Prime = 17
  PkBytes = 6
  SigBytes = 5
  MsgBytes = 4
  RequestBytes = 2
  FieldBytes = 3
  ReservedRows = 6
  Committees <- MCCommittees
  Secrets = {1, 2}
  CurveOrder = 3
  Digests <- MCDigests
  DkgTag <- MCDkgTag
  SessionTag <- MCSessionTag
  Request = 2
  UserSeed <- MCUserSeed
  Modulus <- MCModulus
  ElementBytes = 2
  Ks = {4, 5}
INVARIANTS
  PipelineTypeOK
  DelayProofVerifies
  ChallengeIsFirstFit
  SignalsMatchPayload
  ProofNamesSigners
  HonestProofIsComplete
PROPERTIES
  RunEnds
CHECK_DEADLOCK FALSE
