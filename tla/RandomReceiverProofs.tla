------------------------ MODULE RandomReceiverProofs ------------------------
(***************************************************************************)
(* Theorems about the destination contract, for every set of requests,     *)
(* payloads, proofs, accounts and settings.                                *)
(***************************************************************************)
EXTENDS ReceiverProperties, FoldFacts

(* The window added to the submission block is a number of blocks.         *)
LEMMA WindowType ==
  ASSUME config \in Settings, baseFee \in BaseFees
  PROVE  DynamicChallengeWindow \in Nat
<1> DEFINE w == config.challengeWindowBlocks
           t == config.baseFeeThreshold
           m == config.maxExpansionFactor
           ratio == baseFee \div t
           capped == IF ratio > m THEN m ELSE ratio
<1>1. w \in Nat /\ t \in Nat /\ m \in Nat /\ baseFee \in Nat
  BY NumberAssumption DEF Settings
<1>2. CASE ~WindowIsDynamic
  BY <1>1, <1>2 DEF DynamicChallengeWindow
<1>3. CASE WindowIsDynamic
  <2>1. ratio \in Nat
    BY <1>1, <1>3 DEF WindowIsDynamic
  <2>2. capped \in Nat
    BY <1>1, <2>1
  <2> HIDE DEF w, capped
  <2>3. w * capped \in Nat
    BY <1>1, <2>2
  <2>4. DynamicChallengeWindow = w * capped
    BY <1>3 DEF DynamicChallengeWindow, w, capped
  <2> QED  BY <2>3, <2>4
<1> QED  BY <1>2, <1>3

(* An audit credits each account a natural number of times.                *)
LEMMA CreditsType ==
  ASSUME TypeOK, NEW a \in Accounts
  PROVE  Credits(a) \in Nat
<1>1. watcherList \in Seq(Accounts)
  BY DEF TypeOK
<1>2. DOMAIN watcherList = 1..Len(watcherList) /\ Len(watcherList) \in Nat
  BY <1>1
<1>3. IsFiniteSet(1..Len(watcherList))
  BY <1>2, FS_Interval
<1>4. IsFiniteSet({i \in DOMAIN watcherList : watcherList[i] = a})
  BY <1>2, <1>3, FS_Subset
<1> QED  BY <1>4, FS_CardinalityType DEF Credits

-----------------------------------------------------------------------------
(* Type correctness. *)

LEMMA SettingsType ==
  ASSUME config \in Settings, OwnerStep
  PROVE  /\ config' \in Settings
         /\ UNCHANGED <<chainVars, queueVars, treasuryVars, eventVars>>
<1> USE DEF Configure, Settings
<1>1. CASE SetAggregatePublicKey   BY <1>1 DEF SetAggregatePublicKey
<1>2. CASE SetChallengeWindow      BY <1>2 DEF SetChallengeWindow
<1>3. CASE SetDynamicWindowConfig  BY <1>3 DEF SetDynamicWindowConfig
<1>4. CASE SetIncentiveConfig      BY <1>4 DEF SetIncentiveConfig
<1>5. CASE SetBlsVerificationMode  BY <1>5 DEF SetBlsVerificationMode
<1>6. CASE SetZkVerifier           BY <1>6 DEF SetZkVerifier
<1>7. CASE SetZkProofMode          BY <1>7 DEF SetZkProofMode
<1>8. CASE RegisterPkHash          BY <1>8 DEF RegisterPkHash
<1> QED
  BY <1>1, <1>2, <1>3, <1>4, <1>5, <1>6, <1>7, <1>8 DEF OwnerStep

LEMMA InitType == Init => TypeOK
<1> SUFFICES ASSUME Init PROVE TypeOK
  OBVIOUS
<1>1. NoItem \in ResultItems
  BY DEF NoItem, ResultItems
<1>2. queue \in [Requests -> ResultItems]
  BY <1>1 DEF Init
<1>3. << >> \in Seq(Accounts)
  OBVIOUS
<1> QED
  BY <1>2, <1>3, NumberAssumption, DefaultsAssumption
  DEF Init, TypeOK, NotSubmitted, Submissions

LEMMA SubmitType ==
  ASSUME TypeOK, NEW r \in Requests, NEW p \in Payloads, NEW s \in Signatures,
         NEW proof \in Proofs \cup {NoProof}, NEW signals \in Signals,
         SubmitOptimisticResult(r, p, s, proof, signals)
  PROVE  TypeOK'
<1> DEFINE deadline == block + DynamicChallengeWindow
           item == [challengeDeadlineBlock |-> deadline,
                    payloadHash |-> [parts |-> p, sig |-> s],
                    challenged |-> FALSE, finalized |-> FALSE]
<1>1. deadline \in Nat
  BY WindowType DEF TypeOK
<1>2. item \in ResultItems
  BY <1>1 DEF ResultItems, Hashes
<1>3. queue' = [queue EXCEPT ![r] = item]
  BY DEF SubmitOptimisticResult
<1>4. queue' \in [Requests -> ResultItems]
  BY <1>2, <1>3 DEF TypeOK
<1>5. submission' \in [Requests -> Submissions]
  <2> DEFINE sub == [at |-> block, proof |-> proof,
                     window |-> config.challengeWindowBlocks,
                     zeroFactor |-> /\ WindowIsDynamic
                                    /\ config.maxExpansionFactor = 0]
  <2>1. /\ block \in Nat /\ config.challengeWindowBlocks \in Nat
        /\ submission \in [Requests -> Submissions]
    BY NumberAssumption DEF TypeOK, Settings
  <2>2. sub.zeroFactor \in BOOLEAN
    OBVIOUS
  <2>3. sub \in Submissions
    BY <2>1, <2>2 DEF Submissions
  <2>4. submission' = [submission EXCEPT ![r] = sub]
    BY DEF SubmitOptimisticResult
  <2> QED  BY <2>1, <2>3, <2>4
<1> QED
  BY <1>4, <1>5 DEF TypeOK, SubmitOptimisticResult, chainVars, treasuryVars

LEMMA PayType ==
  ASSUME TypeOK, NEW r \in Requests, NEW a, PayChallenger(r, a)
  PROVE  balance' \in Nat /\ payout' \in [Requests -> Nat]
<1>1. config.challengerReward \in Nat
  BY NumberAssumption DEF TypeOK, Settings
<1> QED
  BY <1>1 DEF TypeOK, PayChallenger

LEMMA ChallengeType ==
  ASSUME TypeOK, NEW r \in Requests, NEW a \in Accounts, NEW h \in Hashes,
         ChallengeResult(r, a, h)
  PROVE  TypeOK'
<1>1. CASE queue[r].payloadHash = h
  BY <1>1 DEF TypeOK, ChallengeResult, chainVars
<1>2. CASE queue[r].payloadHash # h
  <2>1. balance' \in Nat /\ payout' \in [Requests -> Nat]
    BY <1>2, PayType DEF ChallengeResult
  <2>2. [queue[r] EXCEPT !.challenged = TRUE] \in ResultItems
    <3>1. queue[r] \in ResultItems
      BY DEF TypeOK
    <3> QED  BY <3>1, Zenon DEF ResultItems
  <2>3. queue' = [queue EXCEPT ![r] = [queue[r] EXCEPT !.challenged = TRUE]]
    BY <1>2 DEF ChallengeResult
  <2>4. queue' \in [Requests -> ResultItems]
    BY <2>2, <2>3 DEF TypeOK
  <2> QED
    BY <1>2, <2>1, <2>4 DEF TypeOK, ChallengeResult, chainVars
<1> QED  BY <1>1, <1>2

LEMMA FinalizeType ==
  ASSUME TypeOK, NEW r \in Requests, FinalizeRandomness(r)
  PROVE  TypeOK'
<1>1. queue' \in [Requests -> ResultItems]
  BY DEF TypeOK, FinalizeRandomness, ResultItems
<1>2. queue[r].payloadHash \in Hashes \cup {NoHash}
  BY DEF TypeOK, ResultItems
<1> QED
  BY <1>1, <1>2
  DEF TypeOK, FinalizeRandomness, chainVars, treasuryVars, eventVars

LEMMA WatcherType == TypeOK /\ WatcherStep => TypeOK'
<1> SUFFICES ASSUME TypeOK, WatcherStep PROVE TypeOK'
  OBVIOUS
<1>1. ASSUME NEW amount \in Deposits, Receive(amount) PROVE TypeOK'
  BY <1>1, NumberAssumption DEF TypeOK, Receive, chainVars, queueVars
<1>2. ASSUME NEW a \in Accounts, RegisterWatcher(a) PROVE TypeOK'
  <2>1. watcherList' \in Seq(Accounts)
    BY <1>2 DEF TypeOK, RegisterWatcher
  <2> QED
    BY <1>2, <2>1 DEF TypeOK, RegisterWatcher, chainVars, queueVars, eventVars
<1>3. ASSUME NEW a \in Accounts, ClaimWatcherReward(a) PROVE TypeOK'
  BY <1>3 DEF TypeOK, ClaimWatcherReward, chainVars, queueVars
<1>4. CASE DistributeBaselineRewards
  <2>1. config.watcherBaselineReward \in Nat
    BY NumberAssumption DEF TypeOK, Settings
  <2>2. ASSUME NEW a \in Accounts
        PROVE  watcherAccrued[a] + Credits(a) * config.watcherBaselineReward
                 \in Nat
    <3>1. Credits(a) \in Nat
      BY CreditsType
    <3>2. Credits(a) * config.watcherBaselineReward \in Nat
      BY <2>1, <3>1
    <3> QED  BY <3>2 DEF TypeOK
  <2>3. watcherAccrued' \in [Accounts -> Nat]
    BY <1>4, <2>2 DEF DistributeBaselineRewards
  <2> QED
    BY <1>4, <2>3, NumberAssumption
    DEF TypeOK, DistributeBaselineRewards, chainVars, queueVars, eventVars
<1> QED
  BY <1>1, <1>2, <1>3, <1>4 DEF WatcherStep

(* Every variable of the contract keeps its type in every reachable state. *)
THEOREM TypeCorrect == Spec => []TypeOK
<1>1. TypeOK /\ [Next]_vars => TypeOK'
  <2> SUFFICES ASSUME TypeOK, [Next]_vars PROVE TypeOK'
    OBVIOUS
  <2>1. CASE NextBlock
    BY <2>1, NumberAssumption
    DEF TypeOK, NextBlock, queueVars, treasuryVars, eventVars
  <2>2. CASE OwnerStep
    <3>1. config' \in Settings
          /\ UNCHANGED <<chainVars, queueVars, treasuryVars, eventVars>>
      BY <2>2, SettingsType DEF TypeOK
    <3> QED
      BY <3>1 DEF TypeOK, chainVars, queueVars, treasuryVars, eventVars
  <2>3. CASE QueueStep
    BY <2>3, SubmitType, ChallengeType, FinalizeType DEF QueueStep
  <2>4. CASE WatcherStep
    BY <2>4, WatcherType
  <2>5. CASE UNCHANGED vars
    BY <2>5
    DEF vars, TypeOK, chainVars, queueVars, treasuryVars, eventVars
  <2> QED  BY <2>1, <2>2, <2>3, <2>4, <2>5 DEF Next
<1> QED  BY InitType, <1>1, PTL DEF Spec
-----------------------------------------------------------------------------
(* The queue. *)

(* Only the queue's own operations touch the queue; blocks never go back.  *)
LEMMA OtherSteps ==
  ASSUME TypeOK, NextBlock \/ OwnerStep \/ WatcherStep \/ UNCHANGED vars
  PROVE  /\ UNCHANGED <<queue, finalRandomnessByRequest, submission>>
         /\ block' \in Nat /\ block <= block'
<1>1. CASE NextBlock
  BY <1>1 DEF TypeOK, NextBlock, queueVars, eventVars
<1>2. CASE OwnerStep
  BY <1>2, SettingsType DEF TypeOK, chainVars, queueVars, eventVars
<1>3. CASE WatcherStep
  BY <1>3
  DEF TypeOK, WatcherStep, Receive, RegisterWatcher, ClaimWatcherReward,
      DistributeBaselineRewards, chainVars, queueVars, eventVars
<1>4. CASE UNCHANGED vars
  BY <1>4 DEF TypeOK, vars, chainVars, queueVars, eventVars
<1> QED  BY <1>1, <1>2, <1>3, <1>4

LEMMA OnlyOwnerConfigures ==
  ASSUME NextBlock \/ QueueStep \/ WatcherStep \/ UNCHANGED vars
  PROVE  config' = config
BY DEF NextBlock, QueueStep, SubmitOptimisticResult, ChallengeResult,
       FinalizeRandomness, WatcherStep, Receive, RegisterWatcher,
       ClaimWatcherReward, DistributeBaselineRewards, vars

(* The three queue operations, as seen by the variables the queue owns.    *)
Submitted(r, p, s, proof) ==
  /\ block' = block
  /\ finalRandomnessByRequest' = finalRandomnessByRequest
  /\ queue[r].challengeDeadlineBlock = 0
  /\ \A q \in Requests \ {r} :
       queue'[q] = queue[q] /\ submission'[q] = submission[q]
  /\ queue'[r].challengeDeadlineBlock = block + DynamicChallengeWindow
  /\ queue'[r].payloadHash = [parts |-> p, sig |-> s]
  /\ ~queue'[r].challenged /\ ~queue'[r].finalized
  /\ submission'[r].at = block
  /\ submission'[r].window = config.challengeWindowBlocks
  /\ submission'[r].zeroFactor
       = (WindowIsDynamic /\ config.maxExpansionFactor = 0)

LEMMA SubmitEffect ==
  ASSUME TypeOK, NEW r \in Requests, NEW p \in Payloads, NEW s \in Signatures,
         NEW proof \in Proofs \cup {NoProof}, NEW signals \in Signals,
         SubmitOptimisticResult(r, p, s, proof, signals)
  PROVE  Submitted(r, p, s, proof)
BY DEF TypeOK, SubmitOptimisticResult, Submitted, chainVars

LEMMA ChallengeEffect ==
  ASSUME TypeOK, NEW r \in Requests, NEW a \in Accounts, NEW h \in Hashes,
         ChallengeResult(r, a, h)
  PROVE  /\ block' = block /\ submission' = submission
         /\ finalRandomnessByRequest' = finalRandomnessByRequest
         /\ queue[r].challengeDeadlineBlock # 0
         /\ ~queue[r].challenged /\ ~queue[r].finalized
         /\ \/ queue' = queue
            \/ queue' = [queue EXCEPT ![r].challenged = TRUE]
BY DEF ChallengeResult, Challengeable, chainVars

LEMMA FinalizeEffect ==
  ASSUME TypeOK, NEW r \in Requests, FinalizeRandomness(r)
  PROVE  /\ block' = block /\ submission' = submission
         /\ queue[r].challengeDeadlineBlock # 0
         /\ queue[r].challengeDeadlineBlock <= block
         /\ ~queue[r].challenged /\ ~queue[r].finalized
         /\ queue' = [queue EXCEPT ![r].finalized = TRUE]
         /\ finalRandomnessByRequest'
              = [finalRandomnessByRequest EXCEPT ![r] = queue[r].payloadHash]
BY DEF TypeOK, ResultItems, FinalizeRandomness, Finalizable, chainVars,
       eventVars

(* What setting one flag of one item does to every item.                   *)
LEMMA FlagEffect ==
  ASSUME TypeOK, NEW r \in Requests
  PROVE  /\ queue' = [queue EXCEPT ![r].challenged = TRUE] =>
              /\ \A q \in Requests \ {r} : queue'[q] = queue[q]
              /\ queue'[r].challenged
              /\ queue'[r].finalized = queue[r].finalized
              /\ queue'[r].payloadHash = queue[r].payloadHash
              /\ queue'[r].challengeDeadlineBlock
                   = queue[r].challengeDeadlineBlock
         /\ queue' = [queue EXCEPT ![r].finalized = TRUE] =>
              /\ \A q \in Requests \ {r} : queue'[q] = queue[q]
              /\ queue'[r].finalized
              /\ queue'[r].challenged = queue[r].challenged
              /\ queue'[r].payloadHash = queue[r].payloadHash
              /\ queue'[r].challengeDeadlineBlock
                   = queue[r].challengeDeadlineBlock
BY DEF TypeOK, ResultItems

LEMMA QueueStepConsistent ==
  ASSUME TypeOK, QueueConsistent, QueueStep
  PROVE  QueueConsistent'
<1> SUFFICES ASSUME NEW q \in Requests PROVE ItemOK(q)'
  BY DEF QueueConsistent
<1>0. ItemOK(q) /\ block \in Nat /\ queue[q] \in ResultItems
  BY DEF QueueConsistent, TypeOK
<1>1. ASSUME NEW r \in Requests, NEW p \in Payloads, NEW s \in Signatures,
             NEW proof \in Proofs \cup {NoProof}, NEW signals \in Signals,
             SubmitOptimisticResult(r, p, s, proof, signals)
      PROVE  ItemOK(q)'
  <2>0. Submitted(r, p, s, proof)
    BY <1>1, SubmitEffect
  <2>1. CASE q = r
    <3>1. DynamicChallengeWindow \in Nat
      BY WindowType DEF TypeOK
    <3>2. finalRandomnessByRequest[q] = NoHash
      BY <1>0, <2>0, <2>1 DEF ItemOK, NoItem, Submitted
    <3>3. queue'[q].challengeDeadlineBlock # 0
      BY <2>0, <2>1, <3>1, NumberAssumption DEF TypeOK, Submitted
    <3>4. queue'[q].payloadHash \in Hashes
      BY <1>1, <2>0, <2>1 DEF Hashes, Submitted
    <3> QED
      BY <1>0, <2>0, <2>1, <3>1, <3>2, <3>3, <3>4 DEF ItemOK, Submitted
  <2>2. CASE q # r
    BY <1>0, <2>0, <2>2 DEF ItemOK, Submitted
  <2> QED  BY <2>1, <2>2
<1>2. ASSUME NEW r \in Requests, NEW a \in Accounts, NEW h \in Hashes,
             ChallengeResult(r, a, h)
      PROVE  ItemOK(q)'
  BY <1>0, <1>2, ChallengeEffect, FlagEffect DEF ItemOK
<1>3. ASSUME NEW r \in Requests, FinalizeRandomness(r)
      PROVE  ItemOK(q)'
  <2>1. finalRandomnessByRequest'[q]
          = IF q = r THEN queue[r].payloadHash ELSE finalRandomnessByRequest[q]
    BY <1>3, FinalizeEffect DEF TypeOK
  <2> QED  BY <1>0, <1>3, <2>1, FinalizeEffect, FlagEffect DEF ItemOK
<1> QED  BY <1>1, <1>2, <1>3 DEF QueueStep

LEMMA InitConsistent == Init => QueueConsistent
BY DEF Init, QueueConsistent, ItemOK, NoItem

(* A result is never both challenged and final, and the randomness a       *)
(* consumer can read is the queued hash of a result whose deadline passed. *)
THEOREM QueueStaysConsistent == Spec => []QueueConsistent
<1>1. TypeOK /\ QueueConsistent /\ [Next]_vars => QueueConsistent'
  <2> SUFFICES ASSUME TypeOK, QueueConsistent, [Next]_vars
               PROVE  QueueConsistent'
    OBVIOUS
  <2>1. CASE QueueStep
    BY <2>1, QueueStepConsistent
  <2>2. CASE NextBlock \/ OwnerStep \/ WatcherStep \/ UNCHANGED vars
    <3>1. /\ UNCHANGED <<queue, finalRandomnessByRequest, submission>>
          /\ block' \in Nat /\ block <= block'
      BY <2>2, OtherSteps
    <3> QED
      BY <3>1 DEF QueueConsistent, ItemOK, TypeOK, ResultItems, Submissions
  <2> QED  BY <2>1, <2>2 DEF Next
<1> QED  BY InitConsistent, <1>1, TypeCorrect, PTL DEF Spec

-----------------------------------------------------------------------------
(* The challenge window. *)

(* The window a queued result was submitted under lies before its deadline *)
(* unless a zero expansion factor applied.                                 *)
HasWindow(r) ==
  \/ submission[r].zeroFactor
  \/ /\ submission[r].window # 0
     /\ submission[r].at + submission[r].window
          <= queue[r].challengeDeadlineBlock

WindowInv ==
  /\ config.challengeWindowBlocks # 0
  /\ \A r \in Requests : queue[r].challengeDeadlineBlock # 0 => HasWindow(r)

LEMMA OwnerKeepsWindow ==
  ASSUME config \in Settings, config.challengeWindowBlocks # 0, OwnerStep
  PROVE  config'.challengeWindowBlocks # 0
BY DEF OwnerStep, SetAggregatePublicKey, SetChallengeWindow, Settings,
       SetDynamicWindowConfig, SetIncentiveConfig, SetBlsVerificationMode,
       SetZkVerifier, SetZkProofMode, RegisterPkHash, Configure

LEMMA Grows ==
  ASSUME NEW w \in Nat, NEW n \in Nat, n # 0
  PROVE  w * n \in Nat /\ w <= w * n
<1>1. n - 1 \in Nat
  OBVIOUS
<1>2. w * (n - 1) \in Nat
  BY <1>1
<1>3. w * n = w * (n - 1) + w
  BY <1>1
<1> QED  BY <1>2, <1>3

(* Only a zero expansion factor shortens the window.                       *)
LEMMA WindowNotShortened ==
  ASSUME config \in Settings, baseFee \in BaseFees,
         ~(WindowIsDynamic /\ config.maxExpansionFactor = 0)
  PROVE  config.challengeWindowBlocks <= DynamicChallengeWindow
<1> DEFINE w == config.challengeWindowBlocks
           t == config.baseFeeThreshold
           m == config.maxExpansionFactor
           ratio == baseFee \div t
           capped == IF ratio > m THEN m ELSE ratio
<1>1. w \in Nat /\ t \in Nat /\ m \in Nat /\ baseFee \in Nat
  BY NumberAssumption DEF Settings
<1>2. CASE ~WindowIsDynamic
  BY <1>1, <1>2 DEF DynamicChallengeWindow
<1>3. CASE WindowIsDynamic
  <2>1. m # 0 /\ t # 0 /\ baseFee > t
    BY <1>3 DEF WindowIsDynamic
  <2>2. ratio \in Nat /\ ratio # 0
    BY <1>1, <2>1
  <2>3. capped \in Nat /\ capped # 0
    BY <1>1, <2>1, <2>2
  <2>4. DynamicChallengeWindow = w * capped
    BY <1>3 DEF DynamicChallengeWindow
  <2> HIDE DEF w, capped
  <2>5. w <= w * capped
    BY <1>1, <2>3, Grows
  <2> QED  BY <2>4, <2>5 DEF w
<1> QED  BY <1>2, <1>3

LEMMA SubmitHasWindow ==
  ASSUME TypeOK, NEW r \in Requests, NEW p \in Payloads, NEW s \in Signatures,
         NEW proof, Submitted(r, p, s, proof),
         config.challengeWindowBlocks # 0
  PROVE  HasWindow(r)'
<1>0. config \in Settings /\ block \in Nat /\ baseFee \in BaseFees
  BY DEF TypeOK
<1>1. CASE WindowIsDynamic /\ config.maxExpansionFactor = 0
  BY <1>1 DEF Submitted, HasWindow
<1>2. CASE ~(WindowIsDynamic /\ config.maxExpansionFactor = 0)
  <2>1. config.challengeWindowBlocks <= DynamicChallengeWindow
    BY <1>0, <1>2, WindowNotShortened
  <2>2. config.challengeWindowBlocks \in Nat
    BY <1>0, NumberAssumption DEF Settings
  <2>3. DynamicChallengeWindow \in Nat
    BY <1>0, WindowType
  <2>4. block + config.challengeWindowBlocks <= block + DynamicChallengeWindow
    BY <1>0, <2>1, <2>2, <2>3
  <2> QED  BY <2>4 DEF Submitted, HasWindow
<1> QED  BY <1>1, <1>2

LEMMA WindowStep ==
  ASSUME TypeOK, WindowInv, [Next]_vars
  PROVE  WindowInv'
<1>0. config'.challengeWindowBlocks # 0
  <2>1. CASE OwnerStep
    BY <2>1, OwnerKeepsWindow DEF WindowInv, TypeOK
  <2>2. CASE ~OwnerStep
    BY <2>2, OnlyOwnerConfigures DEF Next, WindowInv
  <2> QED  BY <2>1, <2>2
<1> SUFFICES ASSUME NEW q \in Requests, queue'[q].challengeDeadlineBlock # 0
             PROVE  HasWindow(q)'
  BY <1>0 DEF WindowInv
<1>1. ASSUME submission'[q] = submission[q],
             queue'[q].challengeDeadlineBlock = queue[q].challengeDeadlineBlock
      PROVE  HasWindow(q)'
  BY <1>1 DEF WindowInv, HasWindow
<1>2. ASSUME NEW r \in Requests, NEW p \in Payloads, NEW s \in Signatures,
             NEW proof \in Proofs \cup {NoProof}, NEW signals \in Signals,
             SubmitOptimisticResult(r, p, s, proof, signals)
      PROVE  HasWindow(q)'
  <2>1. Submitted(r, p, s, proof)
    BY <1>2, SubmitEffect
  <2>2. CASE q # r
    BY <1>1, <2>1, <2>2 DEF Submitted
  <2>3. CASE q = r
    BY <2>1, <2>3, SubmitHasWindow DEF WindowInv
  <2> QED  BY <2>2, <2>3
<1>3. ASSUME NEW r \in Requests, NEW a \in Accounts, NEW h \in Hashes,
             ChallengeResult(r, a, h)
      PROVE  HasWindow(q)'
  <2>1. /\ submission' = submission
        /\ queue'[q].challengeDeadlineBlock = queue[q].challengeDeadlineBlock
    BY <1>3, ChallengeEffect, FlagEffect
  <2> QED  BY <1>1, <2>1
<1>4. ASSUME NEW r \in Requests, FinalizeRandomness(r)
      PROVE  HasWindow(q)'
  <2>1. /\ submission' = submission
        /\ queue'[q].challengeDeadlineBlock = queue[q].challengeDeadlineBlock
    BY <1>4, FinalizeEffect, FlagEffect
  <2> QED  BY <1>1, <2>1
<1>5. CASE QueueStep
  BY <1>2, <1>3, <1>4, <1>5 DEF QueueStep
<1>6. CASE NextBlock \/ OwnerStep \/ WatcherStep \/ UNCHANGED vars
  BY <1>1, <1>6, OtherSteps
<1> QED  BY <1>5, <1>6 DEF Next

(* In every reachable state and for every choice of the settings, a final  *)
(* result has been open to challenges for the window configured when it    *)
(* was submitted, unless a zero expansion factor applied to it.            *)
THEOREM ResultsWereChallengeable == Spec => []ChallengeableForAWindow
<1>1. Init => WindowInv
  BY DefaultsAssumption DEF Init, WindowInv, NoItem
<1>2. TypeOK /\ WindowInv /\ [Next]_vars => WindowInv'
  BY WindowStep
<1>3. TypeOK /\ QueueConsistent /\ WindowInv => ChallengeableForAWindow
  <2> SUFFICES ASSUME TypeOK, QueueConsistent, WindowInv,
                      NEW r \in Requests, queue[r].finalized,
                      ~submission[r].zeroFactor
               PROVE  /\ submission[r].window # 0
                      /\ submission[r].at + submission[r].window <= block
    BY DEF ChallengeableForAWindow
  <2>1. /\ queue[r].challengeDeadlineBlock # 0
        /\ queue[r].challengeDeadlineBlock <= block
    BY DEF QueueConsistent, ItemOK, NoItem
  <2>2. /\ submission[r].window # 0
        /\ submission[r].at + submission[r].window
             <= queue[r].challengeDeadlineBlock
    BY <2>1 DEF WindowInv, HasWindow
  <2>3. /\ submission[r].at \in Nat /\ submission[r].window \in Nat
        /\ block \in Nat /\ queue[r].challengeDeadlineBlock \in Nat
    BY DEF TypeOK, ResultItems, Submissions
  <2> QED  BY <2>1, <2>2, <2>3
<1> QED
  BY <1>1, <1>2, <1>3, TypeCorrect, QueueStaysConsistent, PTL DEF Spec

-----------------------------------------------------------------------------
(* Refinement. *)

LEMMA InitRefines == Init => Abstract!Init
BY DEF Init, Abstract!Init, Status, NoItem

LEMMA SubmitRefines ==
  ASSUME TypeOK, NEW r \in Requests, NEW p \in Payloads,
         NEW s \in Signatures, NEW proof \in Proofs \cup {NoProof}, NEW signals \in Signals,
         SubmitOptimisticResult(r, p, s, proof, signals)
  PROVE  Abstract!Submit(r, [parts |-> p, sig |-> s])
<1>1. Submitted(r, p, s, proof)
  BY SubmitEffect
<1>2. Status(r) = "missing"
  BY <1>1 DEF Submitted, Status
<1>3. Status(r)' = "pending"
  <2>1. DynamicChallengeWindow \in Nat
    BY WindowType DEF TypeOK
  <2>2. queue'[r].challengeDeadlineBlock # 0
    BY <1>1, <2>1, NumberAssumption DEF Submitted, TypeOK
  <2> QED  BY <1>1, <2>2 DEF Submitted, Status
<1>4. \A q \in Requests \ {r} : Status(q)' = Status(q)
  BY <1>1 DEF Submitted, Status
<1>5. \A q \in Requests \ {r} : queue'[q].payloadHash = queue[q].payloadHash
  BY <1>1 DEF Submitted
<1>6. queue'[r].payloadHash = [parts |-> p, sig |-> s]
  BY <1>1 DEF Submitted
<1>7. finalRandomnessByRequest' = finalRandomnessByRequest
  BY <1>1 DEF Submitted
<1> QED
  BY <1>2, <1>3, <1>4, <1>5, <1>6, <1>7 DEF Abstract!Submit

LEMMA ChallengeRefines ==
  ASSUME TypeOK, NEW r \in Requests, NEW a \in Accounts, NEW h \in Hashes,
         ChallengeResult(r, a, h)
  PROVE  Abstract!Reject(r) \/ UNCHANGED Abstract!vars
<1>1. finalRandomnessByRequest' = finalRandomnessByRequest
  BY ChallengeEffect
<1>2. Status(r) = "pending"
  BY ChallengeEffect DEF Status
<1>3. CASE queue' = queue
  BY <1>1, <1>3 DEF Abstract!vars, Status
<1>4. CASE queue' = [queue EXCEPT ![r].challenged = TRUE]
  <2>1. Status(r)' = "challenged"
    BY <1>4, ChallengeEffect, FlagEffect DEF Status
  <2>2. \A q \in Requests \ {r} : Status(q)' = Status(q)
    BY <1>4, FlagEffect DEF Status
  <2>3. \A q \in Requests : queue'[q].payloadHash = queue[q].payloadHash
    BY <1>4, FlagEffect
  <2> QED  BY <1>1, <1>2, <2>1, <2>2, <2>3 DEF Abstract!Reject
<1> QED  BY <1>3, <1>4, ChallengeEffect

LEMMA FinalizeRefines ==
  ASSUME TypeOK, NEW r \in Requests, FinalizeRandomness(r)
  PROVE  Abstract!Finalize(r)
<1>1. Status(r) = "pending"
  BY FinalizeEffect DEF Status
<1>2. queue' = [queue EXCEPT ![r].finalized = TRUE]
  BY FinalizeEffect
<1>3. Status(r)' = "finalized"
  BY <1>2, FinalizeEffect, FlagEffect DEF Status
<1>4. \A q \in Requests \ {r} : Status(q)' = Status(q)
  BY <1>2, FlagEffect DEF Status
<1>5. \A q \in Requests : queue'[q].payloadHash = queue[q].payloadHash
  BY <1>2, FlagEffect
<1>6. finalRandomnessByRequest'
        = [finalRandomnessByRequest EXCEPT ![r] = queue[r].payloadHash]
  BY FinalizeEffect
<1> QED  BY <1>1, <1>3, <1>4, <1>5, <1>6 DEF Abstract!Finalize

(* The contract implements the promise of OptimisticResult: each request   *)
(* is queued once, settled once and publishes exactly what was queued.     *)
THEOREM ReceiverRefines == Spec => ImplementsOptimisticResult
<1>1. TypeOK /\ [Next]_vars => [Abstract!Next]_(Abstract!vars)
  <2> SUFFICES ASSUME TypeOK, [Next]_vars
               PROVE  Abstract!Next \/ UNCHANGED Abstract!vars
    OBVIOUS
  <2>1. ASSUME NEW r \in Requests, NEW p \in Payloads, NEW s \in Signatures,
               NEW proof \in Proofs \cup {NoProof}, NEW signals \in Signals,
               SubmitOptimisticResult(r, p, s, proof, signals)
        PROVE  Abstract!Next
    <3>1. [parts |-> p, sig |-> s] \in Hashes
      BY DEF Hashes
    <3> QED  BY <2>1, <3>1, SubmitRefines DEF Abstract!Next
  <2>2. ASSUME NEW r \in Requests, NEW a \in Accounts, NEW h \in Hashes,
               ChallengeResult(r, a, h)
        PROVE  Abstract!Next \/ UNCHANGED Abstract!vars
    BY <2>2, ChallengeRefines DEF Abstract!Next, Abstract!Settle
  <2>3. ASSUME NEW r \in Requests, FinalizeRandomness(r)
        PROVE  Abstract!Next
    BY <2>3, FinalizeRefines DEF Abstract!Next, Abstract!Settle
  <2>4. CASE QueueStep
    BY <2>1, <2>2, <2>3, <2>4 DEF QueueStep
  <2>5. CASE NextBlock \/ OwnerStep \/ WatcherStep \/ UNCHANGED vars
    BY <2>5, OtherSteps DEF Abstract!vars, Status
  <2> QED  BY <2>4, <2>5 DEF Next
<1> QED
  BY <1>1, InitRefines, TypeCorrect, PTL
  DEF Spec, ImplementsOptimisticResult, Abstract!Spec

-----------------------------------------------------------------------------
(* The rewards of the watchers. *)

\* The variables the rewards depend on, and the steps that leave them alone.
rewardVars == <<lastAuditBlock, watcherAccrued, registeredWatcher, watcherList,
                claimed>>

LEMMA RewardFrame ==
  ASSUME \/ NextBlock \/ OwnerStep \/ QueueStep \/ UNCHANGED vars
         \/ \E amount \in Deposits : Receive(amount)
  PROVE  UNCHANGED rewardVars
<1> USE DEF rewardVars
<1>1. CASE NextBlock
  BY <1>1 DEF NextBlock, treasuryVars, eventVars
<1>2. CASE OwnerStep
  BY <1>2 DEF OwnerStep, SetAggregatePublicKey, SetChallengeWindow,
     SetDynamicWindowConfig, SetIncentiveConfig, SetBlsVerificationMode,
     SetZkVerifier, SetZkProofMode, RegisterPkHash, Configure, treasuryVars,
     eventVars
<1>3. CASE QueueStep
  BY <1>3 DEF QueueStep, SubmitOptimisticResult, ChallengeResult,
     FinalizeRandomness, treasuryVars, eventVars
<1>4. CASE UNCHANGED vars
  BY <1>4 DEF vars, treasuryVars, eventVars
<1>5. CASE \E amount \in Deposits : Receive(amount)
  BY <1>5 DEF Receive
<1> QED BY <1>1, <1>2, <1>3, <1>4, <1>5

(* Each watcher is on the list once, and nobody else is.                   *)
ListExact ==
  /\ \A i, j \in DOMAIN watcherList : watcherList[i] = watcherList[j] => i = j
  /\ \A a \in Accounts :
       registeredWatcher[a] <=> \E i \in DOMAIN watcherList : watcherList[i] = a

LEMMA CreditsExact ==
  ASSUME TypeOK, ListExact, NEW a \in Accounts
  PROVE  Credits(a) = IF registeredWatcher[a] THEN 1 ELSE 0
<1> DEFINE here == {i \in DOMAIN watcherList : watcherList[i] = a}
<1>1. CASE registeredWatcher[a]
  <2>1. PICK i \in DOMAIN watcherList : watcherList[i] = a
    BY <1>1 DEF ListExact
  <2>2. here = {i}
    BY <2>1 DEF ListExact
  <2> QED BY <1>1, <2>2, FS_Singleton DEF Credits
<1>2. CASE ~registeredWatcher[a]
  <2>1. here = {}
    BY <1>2 DEF ListExact
  <2> QED BY <1>2, <2>1, FS_EmptySet DEF Credits
<1> QED BY <1>1, <1>2

LEMMA ListStep ==
  ASSUME TypeOK, ListExact, [Next]_vars
  PROVE  ListExact'
<1>1. ASSUME NEW a \in Accounts, RegisterWatcher(a) PROVE ListExact'
  <2>1. /\ watcherList \in Seq(Accounts) /\ ~registeredWatcher[a]
        /\ watcherList' = Append(watcherList, a)
        /\ registeredWatcher' = [registeredWatcher EXCEPT ![a] = TRUE]
    BY <1>1 DEF TypeOK, RegisterWatcher
  <2> DEFINE n == Len(watcherList)
  <2>2. /\ n \in Nat /\ DOMAIN watcherList = 1..n
        /\ DOMAIN watcherList' = 1..(n + 1)
        /\ watcherList'[n + 1] = a
        /\ \A i \in 1..n : watcherList'[i] = watcherList[i]
    BY <2>1
  <2>3. \A i \in 1..n : watcherList[i] # a
    BY <2>1, <2>2 DEF ListExact
  <2> HIDE DEF n
  <2>4. ASSUME NEW i \in 1..(n + 1), NEW j \in 1..(n + 1),
               watcherList'[i] = watcherList'[j]
        PROVE  i = j
    <3>1. CASE i = n + 1 \/ j = n + 1
      BY <2>2, <2>3, <2>4, <3>1
    <3>2. CASE i \in 1..n /\ j \in 1..n
      BY <2>2, <2>4, <3>2 DEF ListExact
    <3> QED BY <2>2, <3>1, <3>2
  <2>5. ASSUME NEW b \in Accounts
        PROVE  registeredWatcher'[b] <=> \E i \in 1..(n + 1) : watcherList'[i] = b
    <3>1. CASE b = a
      <4>1. registeredWatcher'[b]
        BY <2>1, <3>1 DEF TypeOK
      <4> QED BY <2>2, <3>1, <4>1
    <3>2. CASE b # a
      <4>1. registeredWatcher'[b] = registeredWatcher[b]
        BY <2>1, <3>2 DEF TypeOK
      <4>2. registeredWatcher[b] <=> \E i \in 1..n : watcherList[i] = b
        BY <2>2 DEF ListExact
      <4>3. (\E i \in 1..n : watcherList[i] = b)
              <=> \E i \in 1..(n + 1) : watcherList'[i] = b
        BY <2>2, <3>2
      <4> QED BY <4>1, <4>2, <4>3
    <3> QED BY <3>1, <3>2
  <2> QED BY <2>2, <2>4, <2>5 DEF ListExact
<1>2. CASE UNCHANGED <<registeredWatcher, watcherList>>
  BY <1>2 DEF ListExact
<1>3. ASSUME NEW a \in Accounts, ClaimWatcherReward(a)
      PROVE  UNCHANGED <<registeredWatcher, watcherList>>
  BY <1>3 DEF ClaimWatcherReward
<1>4. DistributeBaselineRewards => UNCHANGED <<registeredWatcher, watcherList>>
  BY DEF DistributeBaselineRewards
<1> QED
  BY <1>1, <1>2, <1>3, <1>4, RewardFrame DEF Next, WatcherStep, rewardVars

(* What an audit and a claim do to the earnings.                           *)
LEMMA AuditEarns ==
  ASSUME TypeOK, ListExact, DistributeBaselineRewards, NEW a \in Accounts
  PROVE  /\ config.watcherBaselineReward \in Nat
         /\ Earned(a)' = Earned(a) + IF registeredWatcher[a]
                                       THEN config.watcherBaselineReward ELSE 0
<1>1. config.watcherBaselineReward \in Nat
  BY NumberAssumption DEF TypeOK, Settings
<1>2. watcherAccrued'[a]
        = watcherAccrued[a] + Credits(a) * config.watcherBaselineReward
  BY DEF DistributeBaselineRewards
<1>3. claimed'[a] = claimed[a]
  BY DEF DistributeBaselineRewards, eventVars
<1>4. Credits(a) * config.watcherBaselineReward
        = IF registeredWatcher[a] THEN config.watcherBaselineReward ELSE 0
  BY <1>1, CreditsExact
<1> QED BY <1>1, <1>2, <1>3, <1>4 DEF Earned, TypeOK

LEMMA OthersDoNotEarn ==
  ASSUME TypeOK, [Next]_vars, ~DistributeBaselineRewards, NEW a \in Accounts
  PROVE  Earned(a)' = Earned(a) /\ lastAuditBlock' = lastAuditBlock
<1>1. CASE UNCHANGED rewardVars
  BY <1>1 DEF rewardVars, Earned
<1>2. ASSUME NEW b \in Accounts, RegisterWatcher(b)
      PROVE  Earned(a)' = Earned(a) /\ lastAuditBlock' = lastAuditBlock
  BY <1>2 DEF RegisterWatcher, eventVars, Earned
<1>3. ASSUME NEW b \in Accounts, ClaimWatcherReward(b)
      PROVE  Earned(a)' = Earned(a) /\ lastAuditBlock' = lastAuditBlock
  BY <1>3 DEF ClaimWatcherReward, Earned, TypeOK
<1> QED BY <1>1, <1>2, <1>3, RewardFrame DEF Next, WatcherStep

LEMMA SeniorityStep ==
  ASSUME TypeOK, ListExact, SeniorityRespected, [Next]_vars
  PROVE  SeniorityRespected'
<1>0. \A a \in Accounts : Earned(a) \in Nat
  BY DEF TypeOK, Earned
<1>1. watcherList \in Seq(Accounts) /\ DOMAIN watcherList = 1..Len(watcherList)
      /\ Len(watcherList) \in Nat
  BY DEF TypeOK
<1>2. \A i \in DOMAIN watcherList : watcherList[i] \in Accounts
  BY <1>1
<1>3. CASE DistributeBaselineRewards
  <2>1. watcherList' = watcherList /\ registeredWatcher' = registeredWatcher
    BY <1>3 DEF DistributeBaselineRewards
  <2>2. \A i \in DOMAIN watcherList : registeredWatcher[watcherList[i]]
    BY <1>2 DEF ListExact
  <2>3. \A a \in Accounts :
          /\ config.watcherBaselineReward \in Nat
          /\ Earned(a)' = Earned(a) + IF registeredWatcher[a]
                                        THEN config.watcherBaselineReward ELSE 0
    BY <1>3, AuditEarns
  <2>4. ASSUME NEW i \in DOMAIN watcherList, NEW j \in DOMAIN watcherList, i < j
        PROVE  Earned(watcherList[i])' >= Earned(watcherList[j])'
    <3>1. Earned(watcherList[i]) >= Earned(watcherList[j])
      BY <2>4 DEF SeniorityRespected
    <3> DEFINE a == watcherList[i]
               b == watcherList[j]
    <3>2. a \in Accounts /\ b \in Accounts /\ registeredWatcher[a] /\ registeredWatcher[b]
      BY <1>2, <2>2
    <3>3. a' = a /\ b' = b
      BY <2>1
    <3> QED BY <1>0, <2>3, <3>1, <3>2, <3>3 DEF Earned
  <2>5. \A a \in Accounts : ~registeredWatcher[a] => Earned(a)' = 0
    BY <1>0, <2>3 DEF SeniorityRespected
  <2> QED BY <2>1, <2>4, <2>5 DEF SeniorityRespected, Earned
<1>4. CASE ~DistributeBaselineRewards
  <2>1. \A a \in Accounts : Earned(a)' = Earned(a)
    BY <1>4, OthersDoNotEarn
  <2>2. CASE UNCHANGED <<registeredWatcher, watcherList>>
    BY <1>2, <2>1, <2>2 DEF SeniorityRespected, Earned
  <2>3. ASSUME NEW b \in Accounts, RegisterWatcher(b)
        PROVE  SeniorityRespected'
    <3>1. /\ ~registeredWatcher[b]
          /\ watcherList' = Append(watcherList, b)
          /\ registeredWatcher' = [registeredWatcher EXCEPT ![b] = TRUE]
      BY <2>3 DEF RegisterWatcher
    <3> DEFINE n == Len(watcherList)
    <3>2. /\ n \in Nat /\ DOMAIN watcherList' = 1..(n + 1)
          /\ watcherList'[n + 1] = b
          /\ \A i \in 1..n : watcherList'[i] = watcherList[i]
      BY <1>1, <3>1
    <3>3. Earned(b) = 0
      BY <3>1 DEF SeniorityRespected
    <3> HIDE DEF n
    <3>4. ASSUME NEW i \in 1..(n + 1), NEW j \in 1..(n + 1), i < j
          PROVE  Earned(watcherList'[i]) >= Earned(watcherList'[j])
      <4>1. i \in 1..n /\ watcherList'[i] = watcherList[i]
            /\ watcherList[i] \in Accounts
        BY <1>1, <1>2, <3>2, <3>4 DEF n
      <4>2. CASE j = n + 1
        BY <1>0, <3>2, <3>3, <4>1, <4>2
      <4>3. CASE j \in 1..n
        BY <1>1, <3>2, <3>4, <4>1, <4>3 DEF SeniorityRespected, n
      <4> QED BY <3>2, <4>2, <4>3
    <3>5. \A i \in 1..(n + 1) : watcherList'[i] \in Accounts
      BY <1>1, <1>2, <3>2 DEF n
    <3>6. \A i, j \in DOMAIN watcherList' :
            i < j => watcherAccrued'[watcherList'[i]] + claimed'[watcherList'[i]]
                       >= watcherAccrued'[watcherList'[j]] + claimed'[watcherList'[j]]
      BY <2>1, <3>2, <3>4, <3>5 DEF Earned
    <3>7. \A a \in Accounts : ~registeredWatcher'[a] => Earned(a)' = 0
      BY <2>1, <3>1 DEF SeniorityRespected, TypeOK
    <3> QED BY <3>6, <3>7 DEF SeniorityRespected, Earned
  <2>4. ASSUME NEW a \in Accounts, ClaimWatcherReward(a)
        PROVE  UNCHANGED <<registeredWatcher, watcherList>>
    BY <2>4 DEF ClaimWatcherReward
  <2> QED
    BY <1>4, <2>2, <2>3, <2>4, RewardFrame DEF Next, WatcherStep, rewardVars
<1> QED BY <1>3, <1>4

LEMMA InitList == Init => ListExact /\ SeniorityRespected
BY DEF Init, ListExact, SeniorityRespected, Earned

LEMMA ListInvariant == Spec => []ListExact
BY InitList, ListStep, TypeCorrect, PTL DEF Spec

(* Whoever registered earlier has earned at least as much, whatever the    *)
(* owner does to the rewards and however claims and audits alternate.      *)
THEOREM SeniorWatchersEarnMore == Spec => []SeniorityRespected
BY InitList, SeniorityStep, ListInvariant, TypeCorrect, PTL DEF Spec

\* The most an audit pays and the least time between two audits.
Top   == Highest(BaselineRewards)
Epoch == Lowest(AuditEpochs \ {0})

LEMMA TopIsHighest == Top \in Nat /\ \A x \in BaselineRewards : x <= Top
<1>1. /\ Top \in BaselineRewards
      /\ \A x \in BaselineRewards : x <= Top
  BY WordAssumption DEF Top, Highest
<1> QED BY <1>1, NumberAssumption

LEMMA EpochIsLowest ==
  Epoch \in Nat \ {0} /\ \A x \in AuditEpochs \ {0} : Epoch <= x
<1> DEFINE E == AuditEpochs \ {0}
<1>1. E \in SUBSET Nat /\ E # {}
  BY NumberAssumption, DefaultsAssumption DEF Settings
<1>2. PICK e \in E : \A x \in E : e <= x
  <2> HIDE DEF E
  <2> QED BY <1>1, LeastNumber
<1>3. Epoch \in E /\ \A x \in E : Epoch <= x
  BY <1>2 DEF Epoch, Lowest
<1> QED BY <1>1, <1>3

\* Truncating division by a positive number.
LEMMA Quotients ==
  ASSUME NEW d \in Nat \ {0}, NEW m \in Nat, NEW n \in Nat
  PROVE  /\ m \div d \in Nat
         /\ m <= n => m \div d <= n \div d
         /\ m + d <= n => (m \div d) + 1 <= n \div d
<1> DEFINE q == m \div d
           p == n \div d
<1>1. /\ q \in Nat /\ d * q <= m
      /\ p \in Nat /\ n < d * p + d
  BY SMT
<1>2. d * p + d = d * (p + 1) /\ d * (q + 1) = d * q + d
  BY <1>1, SMT
<1> HIDE DEF q, p
<1>3. m <= n => d * q < d * (p + 1)
  BY <1>1, <1>2
<1>4. m + d <= n => d * (q + 1) < d * (p + 1)
  BY <1>1, <1>2
<1>5. m <= n => q <= p
  BY <1>1, <1>3
<1>6. m + d <= n => q + 1 <= p
  BY <1>1, <1>4
<1> QED BY <1>1, <1>5, <1>6 DEF q, p

\* The audits so far are at most those the epochs up to the last one allow.
AuditsBound == Top * ((lastAuditBlock - FirstBlock) \div Epoch)

EarningsInv ==
  /\ config.auditEpochBlocks # 0
  /\ \A a \in Accounts : Earned(a) <= AuditsBound

LEMMA OwnerKeepsEpoch ==
  ASSUME TypeOK, config.auditEpochBlocks # 0, [Next]_vars
  PROVE  config'.auditEpochBlocks # 0
<1>1. CASE OwnerStep
  BY <1>1 DEF TypeOK, OwnerStep, SetAggregatePublicKey, SetChallengeWindow,
     Settings, SetDynamicWindowConfig, SetIncentiveConfig,
     SetBlsVerificationMode, SetZkVerifier, SetZkProofMode, RegisterPkHash,
     Configure
<1>2. CASE ~OwnerStep
  BY <1>2, OnlyOwnerConfigures DEF Next
<1> QED BY <1>1, <1>2

LEMMA EarningsStep ==
  ASSUME TypeOK, ListExact, EarningsInv, [Next]_vars
  PROVE  EarningsInv'
<1>0. config'.auditEpochBlocks # 0
  BY OwnerKeepsEpoch DEF EarningsInv
<1> SUFFICES ASSUME NEW a \in Accounts PROVE (Earned(a) <= AuditsBound)'
  BY <1>0 DEF EarningsInv
<1>1. Earned(a) \in Nat /\ Earned(a) <= AuditsBound
  BY DEF TypeOK, Earned, EarningsInv
<1>2. CASE DistributeBaselineRewards
  <2> DEFINE m == lastAuditBlock - FirstBlock
             n == block - FirstBlock
             q == m \div Epoch
             p == n \div Epoch
  <2>1. /\ config.auditEpochBlocks \in AuditEpochs \ {0}
        /\ config.watcherBaselineReward \in BaselineRewards
    BY DEF TypeOK, Settings, EarningsInv
  <2>2. /\ Epoch \in Nat \ {0} /\ Epoch <= config.auditEpochBlocks
        /\ Top \in Nat /\ config.watcherBaselineReward <= Top
        /\ config.auditEpochBlocks \in Nat /\ config.watcherBaselineReward \in Nat
    BY <2>1, EpochIsLowest, TopIsHighest, NumberAssumption
  <2>3. m \in Nat /\ n \in Nat /\ m + Epoch <= n
    BY <1>2, <2>2, NumberAssumption DEF TypeOK, DistributeBaselineRewards
  <2>4. q \in Nat /\ p \in Nat /\ q + 1 <= p
    <3> HIDE DEF m, n
    <3> QED BY <2>2, <2>3, Quotients
  <2>5. Earned(a)' <= Earned(a) + Top
    BY <1>1, <1>2, <2>2, AuditEarns
  <2>6. AuditsBound = Top * q /\ AuditsBound' = Top * p
    BY <1>2 DEF AuditsBound, DistributeBaselineRewards
  <2>7. Earned(a)' \in Nat
    BY <1>1, <1>2, AuditEarns
  <2> HIDE DEF q, p
  <2>8. Top * q + Top <= Top * p
    <3>1. p - q - 1 \in Nat
      BY <2>4
    <3>2. Top * (p - q - 1) \in Nat /\ Top * q \in Nat
      BY <2>2, <2>4, <3>1
    <3>3. Top * p = Top * q + Top + Top * (p - q - 1)
      BY <2>2, <2>4
    <3> QED BY <2>2, <3>2, <3>3
  <2>9. Top * q \in Nat /\ Top * p \in Nat
    BY <2>2, <2>4
  <2> QED BY <1>1, <2>2, <2>5, <2>6, <2>7, <2>8, <2>9
<1>3. CASE ~DistributeBaselineRewards
  BY <1>1, <1>3, OthersDoNotEarn DEF AuditsBound
<1> QED BY <1>2, <1>3

(* What a watcher has earned is bounded by the epochs since the deployment *)
(* at the highest reward, however the owner changes rewards and epochs.    *)
THEOREM EarningsAreBounded == Spec => []EarningsBoundedByEpochs
<1>1. Init => EarningsInv
  <2> SUFFICES ASSUME Init PROVE EarningsInv
    OBVIOUS
  <2>1. /\ config.auditEpochBlocks # 0
        /\ \A a \in Accounts : Earned(a) = 0
    BY DefaultsAssumption DEF Init, Earned
  <2>2. (lastAuditBlock - FirstBlock) \div Epoch \in Nat
    BY EpochIsLowest, NumberAssumption, Quotients DEF Init
  <2>3. AuditsBound \in Nat
    BY <2>2, TopIsHighest DEF AuditsBound
  <2> QED BY <2>1, <2>3 DEF EarningsInv
<1>2. TypeOK /\ EarningsInv => EarningsBoundedByEpochs
  <2> SUFFICES ASSUME TypeOK, EarningsInv, NEW a \in Accounts
               PROVE  Earned(a) <= Top * ((block - FirstBlock) \div Epoch)
    BY DEF EarningsBoundedByEpochs, Top, Epoch
  <2> DEFINE m == lastAuditBlock - FirstBlock
             n == block - FirstBlock
             q == m \div Epoch
             p == n \div Epoch
  <2>1. m \in Nat /\ n \in Nat /\ m <= n
    BY NumberAssumption DEF TypeOK
  <2>2. q \in Nat /\ p \in Nat /\ q <= p
    <3> HIDE DEF m, n
    <3> QED BY <2>1, EpochIsLowest, Quotients
  <2>3. Earned(a) <= Top * q /\ Earned(a) \in Nat
    BY DEF EarningsInv, AuditsBound, TypeOK, Earned
  <2> HIDE DEF q, p
  <2>4. Top * q <= Top * p
    <3>1. Top * (p - q) \in Nat /\ Top * q \in Nat /\ Top * p \in Nat
      BY <2>2, TopIsHighest
    <3>2. Top * p = Top * q + Top * (p - q)
      BY <2>2, TopIsHighest
    <3> QED BY <3>1, <3>2
  <2>5. Top * q \in Nat /\ Top * p \in Nat
    BY <2>2, TopIsHighest
  <2>6. Earned(a) <= Top * p
    BY <2>3, <2>4, <2>5
  <2> QED BY <2>6 DEF p
<1> QED BY <1>1, <1>2, EarningsStep, ListInvariant, TypeCorrect, PTL DEF Spec

-----------------------------------------------------------------------------
(* The balance. *)

LEMMA SumsAreNumbers ==
  ASSUME TypeOK
  PROVE  SumFunction(claimed) \in Int /\ SumFunction(payout) \in Int
<1>1. claimed \in [Accounts -> Int] /\ payout \in [Requests -> Int]
  BY DEF TypeOK
<1> QED BY <1>1, SumType, WordAssumption

LEMMA ClaimAccounted ==
  ASSUME TypeOK, EtherAccounted, NEW a \in Accounts, ClaimWatcherReward(a)
  PROVE  EtherAccounted'
<1>1. claimed' = [claimed EXCEPT ![a] = claimed[a] + watcherAccrued[a]]
  BY DEF ClaimWatcherReward
<1>2. /\ claimed \in [Accounts -> Int] /\ claimed[a] \in Nat
      /\ watcherAccrued[a] \in Nat /\ balance \in Nat
  BY DEF TypeOK
<1>3. SumFunction(claimed')
        = SumFunction(claimed) - claimed[a] + (claimed[a] + watcherAccrued[a])
  <2>1. claimed[a] + watcherAccrued[a] \in Int
    BY <1>2
  <2> QED BY <1>1, <1>2, <2>1, SumExcept, WordAssumption
<1>4. SumFunction(claimed) \in Int /\ SumFunction(payout) \in Int
  BY SumsAreNumbers
<1>5. balance' = balance - watcherAccrued[a] /\ UNCHANGED <<queue, payout, deposited>>
  BY DEF ClaimWatcherReward, queueVars
<1> QED BY <1>2, <1>3, <1>4, <1>5 DEF EtherAccounted

LEMMA ChallengeAccounted ==
  ASSUME TypeOK, EtherAccounted, NEW r \in Requests, NEW a \in Accounts,
         NEW h \in Hashes, ChallengeResult(r, a, h)
  PROVE  EtherAccounted'
<1>1. UNCHANGED <<claimed, deposited>> /\ ~queue[r].challenged
  BY DEF ChallengeResult, Challengeable
<1>2. CASE UNCHANGED <<queue, balance, payout>>
  BY <1>1, <1>2 DEF EtherAccounted
<1>3. CASE queue' = [queue EXCEPT ![r].challenged = TRUE] /\ PayChallenger(r, a)
  <2> DEFINE owed == IF balance >= config.challengerReward
                       THEN config.challengerReward ELSE 0
  <2>1. /\ config.challengerReward \in ChallengerRewards
        /\ config.challengerReward \in Nat
        /\ payout \in [Requests -> Nat] /\ payout[r] \in Nat /\ balance \in Nat
    <3>1. config \in Settings /\ payout \in [Requests -> Nat] /\ balance \in Nat
      BY DEF TypeOK
    <3> QED BY <3>1, NumberAssumption DEF Settings
  <2>2. owed \in Nat /\ (owed > 0 => owed \in ChallengerRewards)
    BY <2>1
  <2>3. balance' = balance - owed /\ payout' = [payout EXCEPT ![r] = owed]
    BY <1>3 DEF PayChallenger
  <2>4. payout[r] = 0
    BY <1>1, <2>1 DEF EtherAccounted
  <2> HIDE DEF owed
  <2>5. SumFunction(payout') = SumFunction(payout) - payout[r] + owed
    <3>1. payout \in [Requests -> Int] /\ owed \in Int
      BY <2>1, <2>2
    <3> QED BY <2>3, <3>1, SumExcept, WordAssumption
  <2>6. SumFunction(claimed) \in Int /\ SumFunction(payout) \in Int
    BY SumsAreNumbers
  <2>7. balance' + SumFunction(claimed') + SumFunction(payout') = deposited'
    BY <1>1, <2>1, <2>2, <2>3, <2>4, <2>5, <2>6 DEF EtherAccounted
  <2>8. ASSUME NEW q \in Requests, payout'[q] > 0
        PROVE  queue'[q].challenged /\ payout'[q] \in ChallengerRewards
    BY <1>3, <2>1, <2>2, <2>3, <2>8, FlagEffect DEF EtherAccounted
  <2> QED BY <2>7, <2>8 DEF EtherAccounted
<1> QED BY <1>2, <1>3 DEF ChallengeResult

LEMMA EtherStep ==
  ASSUME TypeOK, QueueConsistent, EtherAccounted, [Next]_vars
  PROVE  EtherAccounted'
<1>1. CASE UNCHANGED <<queue, balance, payout, claimed, deposited>>
  BY <1>1 DEF EtherAccounted
<1>2. ASSUME NEW r \in Requests, NEW p \in Payloads, NEW s \in Signatures,
             NEW proof \in Proofs \cup {NoProof}, NEW signals \in Signals,
             SubmitOptimisticResult(r, p, s, proof, signals)
      PROVE  EtherAccounted'
  <2>1. UNCHANGED <<balance, payout, claimed, deposited>>
    BY <1>2 DEF SubmitOptimisticResult, treasuryVars
  <2>2. Submitted(r, p, s, proof)
    BY <1>2, SubmitEffect
  <2>3. ~queue[r].challenged
    BY <2>2 DEF Submitted, QueueConsistent, ItemOK, NoItem
  <2> QED BY <2>1, <2>2, <2>3 DEF EtherAccounted, Submitted
<1>3. ASSUME NEW r \in Requests, FinalizeRandomness(r) PROVE EtherAccounted'
  <2>1. UNCHANGED <<balance, payout, claimed, deposited>>
    BY <1>3 DEF FinalizeRandomness, treasuryVars, eventVars
  <2>2. \A q \in Requests : queue'[q].challenged = queue[q].challenged
    BY <1>3, FinalizeEffect, FlagEffect
  <2> QED BY <2>1, <2>2 DEF EtherAccounted
<1>4. ASSUME NEW amount \in Deposits, Receive(amount) PROVE EtherAccounted'
  <2>1. /\ balance' = balance + amount /\ deposited' = deposited + amount
        /\ UNCHANGED <<queue, payout, claimed>>
    BY <1>4 DEF Receive, queueVars
  <2>2. amount \in Int /\ balance \in Int
    BY NumberAssumption DEF TypeOK
  <2> QED BY <2>1, <2>2, SumsAreNumbers DEF EtherAccounted
<1>5. CASE NextBlock \/ OwnerStep \/ UNCHANGED vars
  <2>1. NextBlock => UNCHANGED <<queue, balance, payout, claimed, deposited>>
    BY DEF NextBlock, queueVars, treasuryVars, eventVars
  <2>2. UNCHANGED vars => UNCHANGED <<queue, balance, payout, claimed, deposited>>
    BY DEF vars, queueVars, treasuryVars, eventVars
  <2>3. OwnerStep => UNCHANGED <<queue, balance, payout, claimed, deposited>>
    BY SettingsType DEF TypeOK, queueVars, treasuryVars, eventVars
  <2> QED BY <1>1, <1>5, <2>1, <2>2, <2>3
<1>6. ASSUME NEW a \in Accounts, RegisterWatcher(a) PROVE EtherAccounted'
  BY <1>1, <1>6 DEF RegisterWatcher, queueVars, eventVars
<1>7. CASE DistributeBaselineRewards
  BY <1>1, <1>7 DEF DistributeBaselineRewards, queueVars, eventVars
<1>8. CASE QueueStep
  BY <1>2, <1>3, <1>8, ChallengeAccounted DEF QueueStep
<1>9. CASE WatcherStep
  BY <1>4, <1>6, <1>7, <1>9, ClaimAccounted DEF WatcherStep
<1> QED BY <1>5, <1>8, <1>9 DEF Next

(* Every wei the contract ever received is in its balance, was claimed by  *)
(* a watcher or was paid for a challenge that rejected a result, at most   *)
(* one reward for each.                                                    *)
THEOREM EtherIsAccounted == Spec => []EtherAccounted
<1>1. Init => EtherAccounted
  <2> SUFFICES ASSUME Init PROVE EtherAccounted
    OBVIOUS
  <2>1. /\ claimed = [a \in Accounts |-> 0] /\ payout = [r \in Requests |-> 0]
        /\ balance = 0 /\ deposited = 0
    BY DEF Init
  <2>2. SumFunction(claimed) = 0 /\ SumFunction(payout) = 0
    BY <2>1, SumOfZeros, WordAssumption
  <2> QED BY <2>1, <2>2 DEF EtherAccounted
<1> QED BY <1>1, EtherStep, QueueStaysConsistent, TypeCorrect, PTL DEF Spec
=============================================================================
