--------------------------- MODULE RandomReceiver ---------------------------
(***************************************************************************)
(* The destination contract, contracts/src/RandomReceiver.sol: the         *)
(* optimistic queue (submit, challenge, finalize), the owner's settings,   *)
(* the audit rewards of the watchers and the contract's balance.           *)
(*                                                                         *)
(* A transaction is one step.  A call that reverts changes nothing and has *)
(* no action.  The two calls that send ether do it after every assignment  *)
(* and assign nothing afterwards, so whatever the payee calls in between   *)
(* is equivalent to calling it next.                                       *)
(*                                                                         *)
(* Names that begin with Mutant_ are plausible mistakes in the definition  *)
(* they precede; no specification uses them.                               *)
(*                                                                         *)
(* Data.  The tuple (y, pi, seedCollective, modulus) is a member of        *)
(* Payloads; Packing gives the bytes abi.encodePacked makes of it, the     *)
(* same for two tuples that differ only in where the parts are cut.  A     *)
(* hash is injective, so a hash is the record of what is hashed.           *)
(***************************************************************************)
EXTENDS Integers, Sequences, FiniteSets

CONSTANTS
  Requests,            \* request identifiers
  Payloads,            \* (y, pi, seedCollective, modulus)
  IncompletePayloads,  \* the payloads with an empty part
  Packing,             \* Payloads -> packed bytes
  Signatures,          \* BLS signatures
  Proofs, NoProof,     \* what zkProofData holds; empty zkProofData
  Verifiers, NoVerifier,
  Accepts,             \* verifyProof: Verifiers -> SUBSET (Proofs \X Signals)
  PkHashes, NoPkHash,  \* committee key hashes; bytes32(0)
  NoHash,              \* bytes32(0)
  Accounts, Payees,    \* callers; those whose code accepts ether
  AggregateKeys        \* values of the stored aggregate public key

CONSTANTS              \* the values the owner and the chain may choose
  Windows, Thresholds, Factors, BaseFees,
  DynamicModes, BlsModes, ZkModes,
  ChallengerRewards, BaselineRewards, AuditEpochs, Deposits,
  Defaults             \* the initial settings of the contract

CONSTANTS              \* bounds of the explored instance
  FirstBlock,          \* the block of the deployment
  MaxBlock,            \* the last block explored
  MaxDeposits          \* ether the contract is ever given

\* The digest signals 4 and 5 must be: sha256 of the id and the packed parts.
PayloadDigest(r, p) == <<r, Packing[p]>>

\* Whatever the caller writes into zkPublicSignals 2 to 6.  Nothing reads the
\* first two, the commitment.
Signals ==
  [payloadHash : {PayloadDigest(r, p) : r \in Requests, p \in Payloads},
   pkHash      : PkHashes \cup {NoPkHash},
   requestId   : Requests]

Settings ==
  [challengeWindowBlocks : Windows,
   baseFeeThreshold      : Thresholds,
   maxExpansionFactor    : Factors,
   dynamicWindowEnabled  : DynamicModes,
   enforceBlsSignature   : BlsModes,
   aggregatePublicKey    : AggregateKeys,
   enforceZkProof        : ZkModes,
   zkVerifier            : Verifiers \cup {NoVerifier},
   registeredPkHash      : PkHashes \cup {NoPkHash},
   challengerReward      : ChallengerRewards,
   watcherBaselineReward : BaselineRewards,
   auditEpochBlocks      : AuditEpochs]

ASSUME NumberAssumption ==
  /\ FirstBlock \in Nat \ {0} /\ MaxBlock \in Nat /\ MaxDeposits \in Nat
  /\ Windows \subseteq Nat /\ Thresholds \subseteq Nat
  /\ Factors \subseteq Nat /\ BaseFees \subseteq Nat
  /\ ChallengerRewards \subseteq Nat /\ BaselineRewards \subseteq Nat
  /\ AuditEpochs \subseteq Nat /\ Deposits \subseteq Nat
  /\ DynamicModes \cup BlsModes \cup ZkModes \subseteq BOOLEAN

ASSUME DefaultsAssumption ==
  /\ Defaults \in Settings
  /\ Defaults.challengeWindowBlocks # 0
  /\ Defaults.auditEpochBlocks # 0

ASSUME DataAssumption ==
  /\ NoHash \notin [parts : Payloads, sig : Signatures]
  /\ NoProof \notin Proofs
  /\ NoVerifier \notin Verifiers

Hashes == [parts : Payloads, sig : Signatures]

ResultItems ==
  [challengeDeadlineBlock : Nat,
   payloadHash            : Hashes \cup {NoHash},
   challenged             : BOOLEAN,
   finalized              : BOOLEAN]

VARIABLES
  block, baseFee,              \* block.number, block.basefee
  queue,                       \* Requests -> ResultItems
  finalRandomnessByRequest,
  config,                      \* the owner's settings
  balance, lastAuditBlock, watcherAccrued, registeredWatcher, watcherList

VARIABLES                      \* what the contract's events have reported
  submission,                  \* when and how a result was submitted
  falseChallenges,             \* requests FalseChallenge was emitted for
  payout,                      \* reward of each ResultChallenged
  claimed,                     \* sum of WatcherRewardClaimed, per account
  deposited                    \* ether received

chainVars    == <<block, baseFee>>
queueVars    == <<queue, finalRandomnessByRequest>>
treasuryVars == <<balance, lastAuditBlock, watcherAccrued,
                  registeredWatcher, watcherList>>
eventVars    == <<submission, falseChallenges, payout, claimed, deposited>>
vars == <<chainVars, queueVars, config, treasuryVars, eventVars>>

\* The transaction that submitted a result: its block, its proof, the window
\* then configured, and whether a zero expansion factor applied to it.
Submissions ==
  [at : Nat, proof : Proofs \cup {NoProof}, window : Nat, zeroFactor : BOOLEAN]
NotSubmitted ==
  [at |-> 0, proof |-> NoProof, window |-> 0, zeroFactor |-> FALSE]

NoItem == [challengeDeadlineBlock |-> 0, payloadHash |-> NoHash,
           challenged |-> FALSE, finalized |-> FALSE]

Init ==
  /\ block = FirstBlock
  /\ baseFee \in BaseFees
  /\ queue = [r \in Requests |-> NoItem]
  /\ finalRandomnessByRequest = [r \in Requests |-> NoHash]
  /\ config = Defaults
  /\ balance = 0
  /\ lastAuditBlock = FirstBlock
  /\ watcherAccrued = [a \in Accounts |-> 0]
  /\ registeredWatcher = [a \in Accounts |-> FALSE]
  /\ watcherList = << >>
  /\ submission = [r \in Requests |-> NotSubmitted]
  /\ falseChallenges = {}
  /\ payout = [r \in Requests |-> 0]
  /\ claimed = [a \in Accounts |-> 0]
  /\ deposited = 0

-----------------------------------------------------------------------------
(* The chain. *)

NextBlock ==
  /\ block < MaxBlock
  /\ block' = block + 1
  /\ baseFee' \in BaseFees
  /\ UNCHANGED <<queueVars, config, treasuryVars, eventVars>>

-----------------------------------------------------------------------------
(* The owner's settings. *)

Configure(settings) ==
  /\ config' = settings
  /\ UNCHANGED <<chainVars, queueVars, treasuryVars, eventVars>>

SetAggregatePublicKey ==
  \E k \in AggregateKeys :
    Configure([config EXCEPT !.aggregatePublicKey = k])

SetChallengeWindow ==
  \E w \in Windows :
    /\ w # 0
    /\ Configure([config EXCEPT !.challengeWindowBlocks = w])

SetDynamicWindowConfig ==
  \E t \in Thresholds, f \in Factors, b \in DynamicModes :
    Configure([config EXCEPT !.baseFeeThreshold = t,
                             !.maxExpansionFactor = f,
                             !.dynamicWindowEnabled = b])

SetIncentiveConfig ==
  \E c \in ChallengerRewards, w \in BaselineRewards, e \in AuditEpochs :
    /\ e # 0
    /\ Configure([config EXCEPT !.challengerReward = c,
                                !.watcherBaselineReward = w,
                                !.auditEpochBlocks = e])

SetBlsVerificationMode ==
  \E b \in BlsModes : Configure([config EXCEPT !.enforceBlsSignature = b])

SetZkVerifier ==
  \E v \in Verifiers \cup {NoVerifier} :
    Configure([config EXCEPT !.zkVerifier = v])

SetZkProofMode ==
  \E b \in ZkModes : Configure([config EXCEPT !.enforceZkProof = b])

RegisterPkHash ==
  \E k \in PkHashes \cup {NoPkHash} :
    Configure([config EXCEPT !.registeredPkHash = k])

-----------------------------------------------------------------------------
(* The optimistic queue. *)

WindowIsDynamic ==
  /\ config.dynamicWindowEnabled
  /\ config.baseFeeThreshold # 0
  /\ baseFee > config.baseFeeThreshold

Mutant_ShrinkingWindow ==
  IF WindowIsDynamic /\ config.maxExpansionFactor > 0
    THEN config.challengeWindowBlocks \div config.maxExpansionFactor
    ELSE config.challengeWindowBlocks

DynamicChallengeWindow ==
  LET ratio == baseFee \div config.baseFeeThreshold
      capped == IF ratio > config.maxExpansionFactor
                  THEN config.maxExpansionFactor ELSE ratio
  IN IF WindowIsDynamic
       THEN config.challengeWindowBlocks * capped
       ELSE config.challengeWindowBlocks

\* The signals name this request and this payload, and the registered
\* committee if one is registered.
SignalsBind(r, p, signals) ==
  /\ signals.payloadHash = PayloadDigest(r, p)
  /\ config.registeredPkHash # NoPkHash
       => signals.pkHash = config.registeredPkHash
  /\ signals.requestId = r

ProofAccepted(r, p, proof, signals) ==
  \/ /\ proof = NoProof
     /\ ~config.enforceZkProof
  \/ /\ proof \in Proofs
     /\ config.zkVerifier # NoVerifier
     /\ <<proof, signals>> \in Accepts[config.zkVerifier]
     /\ SignalsBind(r, p, signals)

\* submitOptimisticResult is public, and _execute passes what the bridge
\* delivers to it unchanged.  The caller writes the signals next to the proof.
SubmitOptimisticResult(r, p, s, proof, signals) ==
  LET deadline == block + DynamicChallengeWindow
  IN /\ queue[r].challengeDeadlineBlock = 0
     /\ p \notin IncompletePayloads
     /\ ProofAccepted(r, p, proof, signals)
     /\ deadline <= MaxBlock      \* bound: its window ends in the instance
     /\ queue' = [queue EXCEPT ![r] =
                    [challengeDeadlineBlock |-> deadline,
                     payloadHash |-> [parts |-> p, sig |-> s],
                     challenged |-> FALSE, finalized |-> FALSE]]
     /\ submission' = [submission EXCEPT ![r] =
                         [at |-> block, proof |-> proof,
                          window |-> config.challengeWindowBlocks,
                          zeroFactor |-> /\ WindowIsDynamic
                                         /\ config.maxExpansionFactor = 0]]
     /\ UNCHANGED <<finalRandomnessByRequest, falseChallenges, payout, claimed,
                    deposited, chainVars, config, treasuryVars>>

Mutant_PayWithoutBalance(r, a) ==
  /\ a \in Payees
  /\ balance' = balance - config.challengerReward
  /\ payout' = [payout EXCEPT ![r] = config.challengerReward]

\* The reward is paid only when the balance covers it; a payee that refuses
\* it makes the whole challenge revert.
PayChallenger(r, a) ==
  LET owed == IF balance >= config.challengerReward
                THEN config.challengerReward ELSE 0
  IN /\ owed > 0 => a \in Payees
     /\ balance' = balance - owed
     /\ payout' = [payout EXCEPT ![r] = owed]

Mutant_ChallengeableWhenFinal(r) ==
  /\ queue[r].challengeDeadlineBlock # 0
  /\ ~queue[r].challenged
  /\ block <= queue[r].challengeDeadlineBlock

Mutant_ChallengeableAgain(r) ==
  /\ queue[r].challengeDeadlineBlock # 0
  /\ ~queue[r].finalized
  /\ block <= queue[r].challengeDeadlineBlock

Challengeable(r) ==
  /\ queue[r].challengeDeadlineBlock # 0
  /\ ~queue[r].finalized
  /\ ~queue[r].challenged
  /\ block <= queue[r].challengeDeadlineBlock

\* The verdicts of verifyProof, of the digest and of the modexp check are
\* logged and not used: only the comparison with the queued hash decides.
\* verifyProof is still called, and reverts while no verifier is set.
ChallengeResult(r, a, h) ==
  /\ Challengeable(r)
  /\ config.zkVerifier # NoVerifier
  /\ \/ /\ queue[r].payloadHash = h
        /\ falseChallenges' = falseChallenges \cup {r}
        /\ UNCHANGED <<queue, balance, payout>>
     \/ /\ queue[r].payloadHash # h
        /\ queue' = [queue EXCEPT ![r].challenged = TRUE]
        /\ PayChallenger(r, a)
        /\ UNCHANGED falseChallenges
  /\ UNCHANGED <<chainVars, config, finalRandomnessByRequest,
                 lastAuditBlock, watcherAccrued, registeredWatcher,
                 watcherList, submission, claimed, deposited>>

Mutant_FinalizableAfterChallenge(r) ==
  /\ queue[r].challengeDeadlineBlock # 0
  /\ ~queue[r].finalized
  /\ block >= queue[r].challengeDeadlineBlock

Mutant_FinalizableUndisputed(r) ==
  /\ queue[r].challengeDeadlineBlock # 0
  /\ ~queue[r].finalized /\ ~queue[r].challenged
  /\ r \notin falseChallenges
  /\ block >= queue[r].challengeDeadlineBlock

Finalizable(r) ==
  /\ queue[r].challengeDeadlineBlock # 0
  /\ ~queue[r].finalized
  /\ ~queue[r].challenged
  /\ block >= queue[r].challengeDeadlineBlock

FinalizeRandomness(r) ==
  /\ Finalizable(r)
  /\ queue' = [queue EXCEPT ![r].finalized = TRUE]
  /\ finalRandomnessByRequest' =
       [finalRandomnessByRequest EXCEPT ![r] = queue[r].payloadHash]
  /\ UNCHANGED <<chainVars, config, treasuryVars, eventVars>>

-----------------------------------------------------------------------------
(* The watchers and the balance. *)

Receive(amount) ==
  /\ deposited + amount <= MaxDeposits
  /\ balance' = balance + amount
  /\ deposited' = deposited + amount
  /\ UNCHANGED <<chainVars, queueVars, config, lastAuditBlock, watcherAccrued,
                 registeredWatcher, watcherList, submission, falseChallenges,
                 payout, claimed>>

Mutant_RegisterTwice(a) ==
  /\ registeredWatcher' = [registeredWatcher EXCEPT ![a] = TRUE]
  /\ watcherList' = Append(watcherList, a)
  /\ UNCHANGED <<chainVars, queueVars, config, balance, lastAuditBlock,
                 watcherAccrued, eventVars>>

RegisterWatcher(a) ==
  /\ ~registeredWatcher[a]
  /\ registeredWatcher' = [registeredWatcher EXCEPT ![a] = TRUE]
  /\ watcherList' = Append(watcherList, a)
  /\ UNCHANGED <<chainVars, queueVars, config, balance, lastAuditBlock,
                 watcherAccrued, eventVars>>

Mutant_CreditsFromSecond(a) ==
  Cardinality({i \in DOMAIN watcherList \ {1} : watcherList[i] = a})

\* How often the loop over watcherList credits the account.
Credits(a) == Cardinality({i \in DOMAIN watcherList : watcherList[i] = a})

DistributeBaselineRewards ==
  /\ block >= lastAuditBlock + config.auditEpochBlocks
  /\ lastAuditBlock' = block
  /\ watcherAccrued' =
       [a \in Accounts |->
          watcherAccrued[a] + Credits(a) * config.watcherBaselineReward]
  /\ UNCHANGED <<chainVars, queueVars, config, balance, registeredWatcher,
                 watcherList, eventVars>>

\* The transfer fails, and the claim reverts, when the balance is short or
\* the watcher refuses ether.
ClaimWatcherReward(a) ==
  /\ watcherAccrued[a] > 0
  /\ balance >= watcherAccrued[a]
  /\ a \in Payees
  /\ watcherAccrued' = [watcherAccrued EXCEPT ![a] = 0]
  /\ balance' = balance - watcherAccrued[a]
  /\ claimed' = [claimed EXCEPT ![a] = @ + watcherAccrued[a]]
  /\ UNCHANGED <<chainVars, queueVars, config, lastAuditBlock,
                 registeredWatcher, watcherList, submission, falseChallenges,
                 payout, deposited>>

-----------------------------------------------------------------------------
OwnerStep ==
  \/ SetAggregatePublicKey
  \/ SetChallengeWindow
  \/ SetDynamicWindowConfig
  \/ SetIncentiveConfig
  \/ SetBlsVerificationMode
  \/ SetZkVerifier
  \/ SetZkProofMode
  \/ RegisterPkHash

QueueStep ==
  \E r \in Requests :
    \/ \E p \in Payloads, s \in Signatures, proof \in Proofs \cup {NoProof},
          signals \in Signals :
         SubmitOptimisticResult(r, p, s, proof, signals)
    \/ \E a \in Accounts, h \in Hashes : ChallengeResult(r, a, h)
    \/ FinalizeRandomness(r)

WatcherStep ==
  \/ \E amount \in Deposits : Receive(amount)
  \/ \E a \in Accounts : RegisterWatcher(a) \/ ClaimWatcherReward(a)
  \/ DistributeBaselineRewards

Next == NextBlock \/ OwnerStep \/ QueueStep \/ WatcherStep

Spec == Init /\ [][Next]_vars

(* Blocks keep coming, and somebody finalizes each result once its window  *)
(* has passed: finalizeRandomness is open to everyone and the operator's   *)
(* script contracts/scripts/ops/02_finalize_randomness.ts calls it.        *)
FairSpec ==
  /\ Spec
  /\ WF_vars(NextBlock)
  /\ \A r \in Requests : WF_vars(FinalizeRandomness(r))

-----------------------------------------------------------------------------
(* Properties. *)

TypeOK ==
  /\ block \in Nat /\ block >= FirstBlock /\ baseFee \in BaseFees
  /\ queue \in [Requests -> ResultItems]
  /\ finalRandomnessByRequest \in [Requests -> Hashes \cup {NoHash}]
  /\ config \in Settings
  /\ balance \in Nat /\ lastAuditBlock \in FirstBlock..block
  /\ watcherAccrued \in [Accounts -> Nat]
  /\ registeredWatcher \in [Accounts -> BOOLEAN]
  /\ watcherList \in Seq(Accounts)
  /\ submission \in [Requests -> Submissions]
  /\ falseChallenges \subseteq Requests
  /\ payout \in [Requests -> Nat]
  /\ claimed \in [Accounts -> Nat]
  /\ deposited \in Nat
=============================================================================
