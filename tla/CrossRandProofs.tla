-------------------------- MODULE CrossRandProofs --------------------------
(***************************************************************************)
(* Theorems about the whole system, for every set of requests, payloads,   *)
(* committees and bridges and whatever proofs the verifiers accept.  What  *)
(* the receiver guarantees by itself carries over (CrossIsReceiver); what  *)
(* a bridge's mark has to do with the queue is proved here.                *)
(***************************************************************************)
EXTENDS CrossRand, RandomReceiverProofs

(* The state the relayer and the bridges keep, apart from the receiver's;  *)
(* only payloads that were made are in a bridge.                           *)
LinkOK ==
  /\ asked \subseteq Requests
  /\ run \in [Outputs -> {NoRun} \cup
                [request : asked, proof : Proofs \cup {NoProof}]]
  /\ message \in [Outputs \X Bridges -> MessageStates]
  /\ \A p \in Outputs, b \in Bridges :
       message[<<p, b>>] # "none" => run[p] # NoRun

LEMMA RunIsRecord ==
  ASSUME NEW r, NEW proof
  PROVE  /\ [request |-> r, proof |-> proof] # NoRun
         /\ [request |-> r, proof |-> proof].request = r
<1>1. "request" \in DOMAIN [request |-> r, proof |-> proof]
  OBVIOUS
<1>2. "request" \notin DOMAIN << >>
  OBVIOUS
<1> QED  BY <1>1, <1>2 DEF NoRun

(* What a payload that is in a bridge was made for.                        *)
LEMMA RunType ==
  ASSUME LinkOK, NEW p \in Outputs, run[p] # NoRun
  PROVE  /\ run[p].request \in Requests
         /\ run[p].proof \in Proofs \cup {NoProof}
BY DEF LinkOK

LEMMA RunKeepsLinks ==
  ASSUME LinkOK, NEW r \in Requests, NEW p \in Outputs, RunPipeline(r, p)
  PROVE  /\ LinkOK' /\ run[p] = NoRun
         /\ \A q \in Outputs \ {p} : run'[q] = run[q]
<1>1. PICK proof \in {NoProof, Transcript[p]} :
        run' = [run EXCEPT ![p] = [request |-> r, proof |-> proof]]
  BY DEF RunPipeline
<1>2. asked' = asked /\ message' = message /\ r \in asked /\ run[p] = NoRun
  BY DEF RunPipeline
<1>3. proof \in Proofs \cup {NoProof}
  BY <1>1, RunAssumption
<1>4. [request |-> r, proof |-> proof]
        \in [request : asked, proof : Proofs \cup {NoProof}]
  BY <1>2, <1>3
<1>5. run' \in [Outputs -> {NoRun} \cup
                  [request : asked', proof : Proofs \cup {NoProof}]]
  BY <1>1, <1>2, <1>4 DEF LinkOK
<1>6. /\ run'[p] = [request |-> r, proof |-> proof]
      /\ \A q \in Outputs \ {p} : run'[q] = run[q]
  BY <1>1 DEF LinkOK
<1>7. run'[p] # NoRun
  BY <1>6, RunIsRecord
<1>8. ASSUME NEW q \in Outputs, NEW b \in Bridges, message'[<<q, b>>] # "none"
      PROVE  run'[q] # NoRun
  BY <1>2, <1>6, <1>7, <1>8 DEF LinkOK
<1> QED  BY <1>2, <1>5, <1>6, <1>8 DEF LinkOK

LEMMA MessageKeepsLinks ==
  ASSUME LinkOK, NEW p \in Outputs, NEW b \in Bridges,
         RelayVDFPayload(p, b) \/ Approve(p, b) \/ Execute(p, b)
  PROVE  LinkOK' /\ run' = run /\ run[p] # NoRun
<1>1. asked' = asked /\ run' = run
  BY DEF RelayVDFPayload, Approve, Execute
<1>2. \E s \in MessageStates : message' = [message EXCEPT ![<<p, b>>] = s]
  BY DEF RelayVDFPayload, Approve, Execute, MessageStates
<1>3. run[p] # NoRun
  BY DEF RelayVDFPayload, Approve, Execute, LinkOK
<1>4. message' \in [Outputs \X Bridges -> MessageStates]
  BY <1>2 DEF LinkOK
<1>5. ASSUME NEW q \in Outputs, NEW c \in Bridges, message'[<<q, c>>] # "none"
      PROVE  run'[q] # NoRun
  BY <1>1, <1>2, <1>3, <1>5 DEF LinkOK
<1> QED  BY <1>1, <1>3, <1>4, <1>5 DEF LinkOK

LEMMA DestinationKeepsLinks ==
  ASSUME DestinationStep \/ UNCHANGED crossVars
  PROVE  UNCHANGED linkVars
BY DEF DestinationStep, Finalize, SubmitByHand, ChallengeByHand,
   RegisterCommittee, SetProofMode, WindowPasses, crossVars

LEMMA LinkStep == LinkOK /\ [CrossNext]_crossVars => LinkOK'
<1> SUFFICES ASSUME LinkOK, [CrossNext]_crossVars
             PROVE  LinkOK'
  OBVIOUS
<1>1. ASSUME NEW r \in Requests, RequestRandomness(r)
      PROVE  LinkOK'
  <2>1. asked' = asked \cup {r} /\ run' = run /\ message' = message
    BY <1>1 DEF RequestRandomness
  <2>2. run' \in [Outputs -> {NoRun} \cup
                    [request : asked', proof : Proofs \cup {NoProof}]]
    BY <2>1 DEF LinkOK
  <2> QED  BY <2>1, <2>2 DEF LinkOK
<1>2. ASSUME NEW r \in Requests, NEW p \in Outputs, RunPipeline(r, p)
      PROVE  LinkOK'
  BY <1>2, RunKeepsLinks
<1>3. ASSUME NEW p \in Outputs, NEW b \in Bridges,
             RelayVDFPayload(p, b) \/ Approve(p, b) \/ Execute(p, b)
      PROVE  LinkOK'
  BY <1>3, MessageKeepsLinks
<1>4. CASE DestinationStep \/ UNCHANGED crossVars
  BY <1>4, DestinationKeepsLinks DEF linkVars, LinkOK
<1> QED  BY <1>1, <1>2, <1>3, <1>4 DEF CrossNext, SourceStep, BridgeStep

LEMMA LinkInvariant == CrossSpec => []LinkOK
<1>1. CrossInit => LinkOK
  BY DEF CrossInit, LinkOK, MessageStates
<1> QED  BY <1>1, LinkStep, PTL DEF CrossSpec

-----------------------------------------------------------------------------
(* The composition takes the receiver's steps and no others.               *)

LEMMA RunSignals ==
  ASSUME LinkOK, NEW p \in Outputs, run[p] # NoRun
  PROVE  SignalsOf(run[p].request, p) \in Signals
<1>1. run[p].request \in Requests /\ p \in Payloads /\ Committee[p] \in PkHashes
  BY RunType, RunAssumption
<1> QED  BY <1>1 DEF SignalsOf, Signals

LEMMA ExecuteIsQueueStep ==
  ASSUME LinkOK, NEW p \in Outputs, NEW b \in Bridges, Execute(p, b)
  PROVE  /\ QueueStep
         /\ run[p].request \in Requests /\ p \in Payloads
         /\ Signature[p] \in Signatures
         /\ run[p].proof \in Proofs \cup {NoProof}
         /\ SignalsOf(run[p].request, p) \in Signals
<1>1. run[p] # NoRun
  BY DEF Execute, LinkOK
<1>2. run[p].request \in Requests
  BY <1>1, RunType
<1>3. run[p].proof \in Proofs \cup {NoProof}
  BY <1>1, RunType
<1>4. Signature[p] \in Signatures /\ p \in Payloads
  BY RunAssumption
<1>5. SignalsOf(run[p].request, p) \in Signals
  BY <1>1, RunSignals
<1>6. SubmitOptimisticResult(run[p].request, p, Signature[p], run[p].proof,
                             SignalsOf(run[p].request, p))
  BY DEF Execute, SubmitRun
<1>7. QueueStep
  BY <1>2, <1>3, <1>4, <1>5, <1>6 DEF QueueStep
<1> QED  BY <1>2, <1>3, <1>4, <1>5, <1>7

LEMMA DestinationIsReceiverStep ==
  ASSUME DestinationStep
  PROVE  NextBlock \/ OwnerStep \/ QueueStep
<1>1. ASSUME NEW r \in Requests, NEW p \in Payloads, SubmitByHand(r, p)
      PROVE  QueueStep
  <2>1. PICK s \in Signatures, proof \in KnownProofs \cup {NoProof},
             signals \in Signals :
               SubmitOptimisticResult(r, p, s, proof, signals)
    BY <1>1 DEF SubmitByHand
  <2>2. proof \in Proofs \cup {NoProof}
    BY DEF KnownProofs
  <2> QED  BY <2>1, <2>2 DEF QueueStep
<1>2. ASSUME NEW r \in Requests, NEW p \in Payloads, NEW a \in Accounts,
             ChallengeByHand(r, a, p)
      PROVE  QueueStep
  <2>1. PICK s \in Signatures : ChallengeResult(r, a, [parts |-> p, sig |-> s])
    BY <1>2 DEF ChallengeByHand
  <2>2. [parts |-> p, sig |-> s] \in Hashes
    BY DEF Hashes
  <2> QED  BY <2>1, <2>2 DEF QueueStep
<1>3. ASSUME NEW r \in Requests, Finalize(r)
      PROVE  QueueStep
  BY <1>3 DEF Finalize, QueueStep
<1>4. CASE RegisterCommittee \/ SetProofMode \/ WindowPasses
  BY <1>4 DEF RegisterCommittee, SetProofMode, WindowPasses, OwnerStep
<1> QED  BY <1>1, <1>2, <1>3, <1>4 DEF DestinationStep

LEMMA CrossStepIsReceiverStep ==
  ASSUME LinkOK, [CrossNext]_crossVars
  PROVE  [Next]_vars
<1>1. CASE DestinationStep
  BY <1>1, DestinationIsReceiverStep DEF Next
<1>2. ASSUME NEW p \in Outputs, NEW b \in Bridges, Execute(p, b)
      PROVE  Next
  BY <1>2, ExecuteIsQueueStep DEF Next
<1>3. CASE BridgeStep
  BY <1>2, <1>3 DEF BridgeStep, RelayVDFPayload, Approve
<1>4. CASE SourceStep \/ UNCHANGED crossVars
  BY <1>4 DEF SourceStep, RequestRandomness, RunPipeline, crossVars
<1> QED  BY <1>1, <1>3, <1>4 DEF CrossNext

(* The receiver in the system behaves as the receiver by itself, so what   *)
(* RandomReceiverProofs proves of Spec holds of the system.                *)
THEOREM CrossIsReceiver == CrossSpec => Spec
<1>1. CrossInit => Init
  BY DEF CrossInit
<1>2. LinkOK /\ [CrossNext]_crossVars => [Next]_vars
  BY CrossStepIsReceiverStep
<1> QED  BY <1>1, <1>2, LinkInvariant, PTL DEF CrossSpec, Spec

(* For every system: the composition keeps every type, and each payload's  *)
(* run is of a request that was asked for.                                 *)
THEOREM CrossTypeCorrect == CrossSpec => []CrossTypeOK
<1>1. LinkOK /\ TypeOK => CrossTypeOK
  BY DEF LinkOK, CrossTypeOK
<1> QED  BY <1>1, LinkInvariant, CrossIsReceiver, TypeCorrect, PTL

-----------------------------------------------------------------------------
(* What a bridge has marked executed is in the queue. *)

(* The call of one payload, as seen by the receiver.                       *)
Holds(r, p) ==
  /\ Queued(r)
  /\ queue[r].payloadHash = [parts |-> p, sig |-> Signature[p]]

(* No operation of the queue changes or removes a result that is there.    *)
LEMMA QueueKeepsResults ==
  ASSUME TypeOK, [Next]_vars, NEW q \in Requests, Queued(q)
  PROVE  /\ Queued(q)'
         /\ queue'[q].payloadHash = queue[q].payloadHash
<1>1. ASSUME NEW r \in Requests, NEW p \in Payloads, NEW s \in Signatures,
             NEW proof \in Proofs \cup {NoProof}, NEW signals \in Signals,
             SubmitOptimisticResult(r, p, s, proof, signals)
      PROVE  queue'[q] = queue[q]
  BY <1>1, SubmitEffect DEF Submitted, Queued
<1>2. ASSUME NEW r \in Requests,
             \/ FinalizeRandomness(r)
             \/ \E a \in Accounts, h \in Hashes : ChallengeResult(r, a, h)
      PROVE  /\ queue'[q].challengeDeadlineBlock
                  = queue[q].challengeDeadlineBlock
             /\ queue'[q].payloadHash = queue[q].payloadHash
  <2>1. \/ queue' = queue
        \/ queue' = [queue EXCEPT ![r].challenged = TRUE]
        \/ queue' = [queue EXCEPT ![r].finalized = TRUE]
    BY <1>2 DEF ChallengeResult, FinalizeRandomness
  <2> QED  BY <2>1, FlagEffect
<1>3. CASE QueueStep
  BY <1>1, <1>2, <1>3 DEF QueueStep, Queued
<1>4. CASE NextBlock \/ OwnerStep \/ WatcherStep \/ UNCHANGED vars
  BY <1>4, OtherSteps DEF Queued
<1> QED  BY <1>3, <1>4 DEF Next

LEMMA ExecuteHolds ==
  ASSUME TypeOK, LinkOK, NEW p \in Outputs, NEW b \in Bridges, Execute(p, b)
  PROVE  Holds(run[p].request, p)'
<1> DEFINE r == run[p].request
<1>1. /\ r \in Requests /\ p \in Payloads /\ Signature[p] \in Signatures
      /\ run[p].proof \in Proofs \cup {NoProof}
      /\ SignalsOf(r, p) \in Signals
  BY ExecuteIsQueueStep
<1>2. SubmitOptimisticResult(r, p, Signature[p], run[p].proof, SignalsOf(r, p))
  BY DEF Execute, SubmitRun
<1>3. Submitted(r, p, Signature[p], run[p].proof)
  BY <1>1, <1>2, SubmitEffect
<1>4. run'[p].request = r
  BY DEF Execute
<1>5. queue'[r].challengeDeadlineBlock # 0
  <2>1. DynamicChallengeWindow \in Nat /\ block \in Nat \ {0}
    BY WindowType, NumberAssumption DEF TypeOK
  <2> QED  BY <1>3, <2>1 DEF Submitted
<1> QED  BY <1>3, <1>4, <1>5 DEF Submitted, Holds, Queued

LEMMA ExecutedStep ==
  ASSUME TypeOK, LinkOK, ExecutedIsQueued, [CrossNext]_crossVars
  PROVE  ExecutedIsQueued'
<1> SUFFICES ASSUME NEW q \in Outputs, NEW c \in Bridges,
                    message'[<<q, c>>] = "executed"
             PROVE  Holds(run[q].request, q)'
  BY DEF ExecutedIsQueued, Holds, Queued
<1>1. [Next]_vars
  BY CrossStepIsReceiverStep
<1>2. ASSUME message[<<q, c>>] = "executed", run'[q] = run[q]
      PROVE  Holds(run[q].request, q)'
  <2>1. run[q] # NoRun
    BY <1>2 DEF LinkOK
  <2>2. run[q].request \in Requests
    BY <2>1, RunType
  <2>3. Holds(run[q].request, q)
    BY <1>2 DEF ExecutedIsQueued, Holds
  <2>4. /\ queue'[run[q].request].challengeDeadlineBlock # 0
        /\ queue'[run[q].request].payloadHash
             = queue[run[q].request].payloadHash
    BY <1>1, <2>2, <2>3, QueueKeepsResults DEF Holds, Queued
  <2> QED  BY <1>2, <2>3, <2>4 DEF Holds, Queued
<1>3. ASSUME NEW p \in Outputs, NEW b \in Bridges,
             RelayVDFPayload(p, b) \/ Approve(p, b)
      PROVE  message[<<q, c>>] = "executed" /\ run'[q] = run[q]
  BY <1>3 DEF RelayVDFPayload, Approve, LinkOK
<1>4. ASSUME NEW p \in Outputs, NEW b \in Bridges, Execute(p, b)
      PROVE  Holds(run[q].request, q)'
  <2>1. CASE q = p
    BY <1>4, <2>1, ExecuteHolds
  <2>2. CASE q # p
    <3>1. <<q, c>> # <<p, b>>
      BY <2>2
    <3>2. message'[<<q, c>>] = message[<<q, c>>] /\ run' = run
      BY <1>4, <3>1 DEF Execute, LinkOK
    <3> QED  BY <1>2, <3>2
  <2> QED  BY <2>1, <2>2
<1>5. ASSUME NEW r \in Requests, NEW p \in Outputs, RunPipeline(r, p)
      PROVE  message[<<q, c>>] = "executed" /\ run'[q] = run[q]
  <2>1. message' = message
    BY <1>5 DEF RunPipeline
  <2>2. run[p] = NoRun /\ \A o \in Outputs \ {p} : run'[o] = run[o]
    BY <1>5, RunKeepsLinks
  <2>3. run[q] # NoRun
    BY <2>1 DEF LinkOK
  <2> QED  BY <2>1, <2>2, <2>3
<1>6. ASSUME NEW r \in Requests, RequestRandomness(r)
      PROVE  message[<<q, c>>] = "executed" /\ run'[q] = run[q]
  BY <1>6 DEF RequestRandomness
<1>7. CASE DestinationStep \/ UNCHANGED crossVars
  <2>1. message' = message /\ run' = run
    BY <1>7, DestinationKeepsLinks DEF linkVars
  <2> QED  BY <1>2, <2>1
<1> QED
  BY <1>2, <1>3, <1>4, <1>5, <1>6, <1>7 DEF CrossNext, SourceStep, BridgeStep

(* For every system, verifier and sequence of settings: the request of an  *)
(* executed call holds its payload and signature, whoever else submits,    *)
(* challenges or finalizes; two payloads of one request are never both     *)
(* executed.                                                               *)
THEOREM ExecutedStaysQueued == CrossSpec => []ExecutedIsQueued
<1>1. CrossInit => ExecutedIsQueued
  BY DEF CrossInit, ExecutedIsQueued
<1>2. TypeOK /\ LinkOK /\ ExecutedIsQueued /\ [CrossNext]_crossVars
        => ExecutedIsQueued'
  BY ExecutedStep
<1> QED
  BY <1>1, <1>2, LinkInvariant, CrossIsReceiver, TypeCorrect, PTL DEF CrossSpec
=============================================================================
