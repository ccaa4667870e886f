----------------------------- MODULE CrossRand -----------------------------
(***************************************************************************)
(* The way of a request through the whole system: RandomRouter logs it,    *)
(* the relayer computes a value in a pipeline run and relays it through    *)
(* one bridge or several, a bridge delivers it to RandomReceiver, whose    *)
(* queue (EXTENDS RandomReceiver) settles it.                              *)
(*                                                                         *)
(* The parts that have modules of their own are reduced to what those      *)
(* show: a run yields a payload with signals that speak of it, and the     *)
(* bytes of a proof (RandomnessPipeline), a request can be run and relayed *)
(* again after a restart and relayed over several bridges (RelayerDaemon,  *)
(* BridgeFailover), a relay that is mined hands the payload to the bridge  *)
(* unchanged (RandomRouter).  Which proof bytes the contract takes is the  *)
(* verifier's matter (Accepts); nothing here says that it takes a run's.   *)
(*                                                                         *)
(* An operator Mutant_X is a plausible bug in the definition after it.  No *)
(* definition uses it.                                                     *)
(***************************************************************************)
EXTENDS RandomReceiver

CONSTANTS
  Outputs,          \* the payloads pipeline runs yield, among all there are
  Committee,        \* Outputs -> PkHashes: the committee of the run
  Signature,        \* Outputs -> Signatures: its aggregate signature
  Transcript,       \* Outputs -> Proofs: the bytes its prover makes
  Bridges,          \* the adapters the router has
  EntryPoints       \* the bridges the receiver has a function for

ASSUME RunAssumption ==
  /\ Outputs \subseteq Payloads
  /\ Committee \in [Outputs -> PkHashes]
  /\ Signature \in [Outputs -> Signatures]
  /\ Transcript \in [Outputs -> Proofs]
  /\ EntryPoints \subseteq Bridges

\* The signals the relayer sends along: they speak of the run's request,
\* payload and committee.
SignalsOf(r, p) ==
  [payloadHash |-> PayloadDigest(r, p), pkHash |-> Committee[p],
   requestId |-> r]

VARIABLES
  asked,            \* the requests RandomRouter has logged
  run,              \* Outputs -> the pipeline run that made it, or NoRun
  message           \* Outputs \X Bridges -> how far the bridge has it

linkVars  == <<asked, run, message>>
crossVars == <<vars, linkVars>>

NoRun == << >>
MessageStates == {"none", "relayed", "approved", "executed"}

CrossInit ==
  /\ Init
  /\ asked = {}
  /\ run = [p \in Outputs |-> NoRun]
  /\ message = [m \in Outputs \X Bridges |-> "none"]

-----------------------------------------------------------------------------
(* Source chain and relayer. *)

RequestRandomness(r) ==
  /\ r \notin asked
  /\ asked' = asked \cup {r}
  /\ UNCHANGED <<vars, run, message>>

Mutant_RunUnasked(r, p) ==
  /\ run[p] = NoRun
  /\ run' = [run EXCEPT ![p] = [request |-> r, proof |-> NoProof]]
  /\ UNCHANGED <<vars, asked, message>>

\* Every run generates its committee, so its payload is a new one; a proof
\* that fails is logged and the payload goes on without it.
RunPipeline(r, p) ==
  /\ r \in asked
  /\ run[p] = NoRun
  /\ \E proof \in {NoProof, Transcript[p]} :
       run' = [run EXCEPT ![p] = [request |-> r, proof |-> proof]]
  /\ UNCHANGED <<vars, asked, message>>

\* A transaction of the failover is mined: relayVDFPayload and the adapter
\* give the bridge the payload.
RelayVDFPayload(p, b) ==
  /\ run[p] # NoRun
  /\ message[<<p, b>>] = "none"
  /\ message' = [message EXCEPT ![<<p, b>>] = "relayed"]
  /\ UNCHANGED <<vars, asked, run>>

-----------------------------------------------------------------------------
(* Bridges and destination chain. *)

\* The bridge attests the message, at any time or never.
Approve(p, b) ==
  /\ message[<<p, b>>] = "relayed"
  /\ message' = [message EXCEPT ![<<p, b>>] = "approved"]
  /\ UNCHANGED <<vars, asked, run>>

SubmitRun(p) ==
  SubmitOptimisticResult(run[p].request, p, Signature[p], run[p].proof,
                         SignalsOf(run[p].request, p))

RunAccepted(p) ==
  /\ p \notin IncompletePayloads
  /\ ProofAccepted(run[p].request, p, run[p].proof,
                   SignalsOf(run[p].request, p))

Mutant_ConsumeRefused(p, b) ==
  /\ message[<<p, b>>] = "approved" /\ b \in EntryPoints
  /\ \/ SubmitRun(p)
     \/ ~RunAccepted(p) /\ UNCHANGED vars
  /\ message' = [message EXCEPT ![<<p, b>>] = "executed"]
  /\ UNCHANGED <<asked, run>>

Mutant_ConsumeDuplicate(p, b) ==
  /\ message[<<p, b>>] = "approved" /\ b \in EntryPoints
  /\ \/ SubmitRun(p)
     \/ /\ queue[run[p].request].challengeDeadlineBlock # 0
        /\ UNCHANGED vars
  /\ message' = [message EXCEPT ![<<p, b>>] = "executed"]
  /\ UNCHANGED <<asked, run>>

\* AxelarExecutable.execute: the gateway marks the call as executed and
\* _execute submits it.  When the submission reverts so does the mark, and
\* the call can be executed later.  No other bridge finds a function to call.
Execute(p, b) ==
  /\ message[<<p, b>>] = "approved" /\ b \in EntryPoints
  /\ SubmitRun(p)
  /\ message' = [message EXCEPT ![<<p, b>>] = "executed"]
  /\ UNCHANGED <<asked, run>>

Public == {p \in Outputs : \E b \in Bridges : message[<<p, b>>] # "none"}

\* What anybody can write: all but the outputs, and the transcripts, of the
\* runs that were not relayed yet.
KnownPayloads == Payloads \ (Outputs \ Public)
KnownProofs   == Proofs \ {Transcript[p] : p \in Outputs \ Public}

\* submitOptimisticResult is public, and _execute does not look at the source
\* of a message either: any payload, signature and proof bytes, with signals
\* of the caller's choice.
SubmitByHand(r, p) ==
  /\ p \in KnownPayloads
  /\ \E s \in Signatures, proof \in KnownProofs \cup {NoProof},
        signals \in Signals :
       SubmitOptimisticResult(r, p, s, proof, signals)
  /\ UNCHANGED linkVars

\* Likewise a challenge presents whatever payload and signature.
ChallengeByHand(r, a, p) ==
  /\ p \in KnownPayloads
  /\ \E s \in Signatures : ChallengeResult(r, a, [parts |-> p, sig |-> s])
  /\ UNCHANGED linkVars

\* The owner registers the committee of a run whose proof is at hand, as the
\* scripts do, or none.
RegisterCommittee ==
  /\ RegisterPkHash
  /\ config'.registeredPkHash \in
       {Committee[p] : p \in {q \in Outputs : run[q] # NoRun}} \cup {NoPkHash}
  /\ UNCHANGED linkVars

\* The owner turns the enforcement of proofs on or off.
SetProofMode == SetZkProofMode /\ UNCHANGED linkVars

Finalize(r) == FinalizeRandomness(r) /\ UNCHANGED linkVars

\* Blocks matter while a window runs; the others are not counted.
WindowPasses ==
  /\ \E r \in Requests : block < queue[r].challengeDeadlineBlock
  /\ NextBlock
  /\ UNCHANGED linkVars

SourceStep ==
  \E r \in Requests :
    RequestRandomness(r) \/ \E p \in Outputs : RunPipeline(r, p)

BridgeStep ==
  \E p \in Outputs, b \in Bridges :
    RelayVDFPayload(p, b) \/ Approve(p, b) \/ Execute(p, b)

DestinationStep ==
  \/ \E r \in Requests :
       \/ Finalize(r)
       \/ \E p \in Payloads :
            SubmitByHand(r, p) \/ \E a \in Accounts : ChallengeByHand(r, a, p)
  \/ RegisterCommittee
  \/ SetProofMode
  \/ WindowPasses

CrossNext == SourceStep \/ BridgeStep \/ DestinationStep

CrossSpec == CrossInit /\ [][CrossNext]_crossVars

\* Blocks keep coming, final results are fetched, and an approved call that
\* the contract accepts is executed.  Nothing is assumed of the relayer, the
\* approval and the people who submit, challenge and register.
CrossFairSpec ==
  /\ CrossSpec
  /\ WF_crossVars(WindowPasses)
  /\ \A r \in Requests : WF_crossVars(Finalize(r))
  /\ \A p \in Outputs, b \in EntryPoints : WF_crossVars(Execute(p, b))

-----------------------------------------------------------------------------
(* Properties. *)

CrossTypeOK ==
  /\ TypeOK
  /\ asked \subseteq Requests
  /\ run \in [Outputs -> {NoRun} \cup
                 [request : asked, proof : Proofs \cup {NoProof}]]
  /\ message \in [Outputs \X Bridges -> MessageStates]

Queued(r)  == queue[r].challengeDeadlineBlock # 0
Settled(r) == queue[r].challenged \/ queue[r].finalized

(* A call the gateway has marked executed has left its result in the       *)
(* queue: the request of its run holds this run's payload and signature,   *)
(* whoever else submitted, challenged or finalized and however often the   *)
(* call was refused before (RandomReceiver.sol:106-127).  In particular no *)
(* two payloads of one request are ever executed.                          *)
ExecutedIsQueued ==
  \A p \in Outputs, b \in Bridges :
    message[<<p, b>>] = "executed" =>
      /\ Queued(run[p].request)
      /\ queue[run[p].request].payloadHash
           = [parts |-> p, sig |-> Signature[p]]

\* The bridge has attested the run's payload and the contract, as configured,
\* accepts it with the run's own proof and signals.
Deliverable(p, b) ==
  /\ message[<<p, b>>] \in {"approved", "executed"} /\ b \in EntryPoints
  /\ RunAccepted(p)

(* A relayed value gets to the end: once a bridge the receiver listens to  *)
(* has attested a payload that the contract accepts from then on, its      *)
(* request is settled.  It need not be by this payload, and refusals in    *)
(* between, under other settings, do no harm (RandomReceiver.sol:106-127,  *)
(* 250-270).                                                               *)
DeliverableIsSettled ==
  \A p \in Outputs, b \in Bridges :
    []([]Deliverable(p, b)
         => <>(\E r \in asked : run[p].request = r /\ Settled(r)))

-----------------------------------------------------------------------------
(* What the documents say and the code does not do. *)

(* README.md:63, the receiver "verifies the Halo2 ZK proof, enqueues the   *)
(* result optimistically": a result queued with a proof is the one a run   *)
(* computed and proved for this request.                                   *)
QueuedIsProven ==
  \A r \in Requests :
    Queued(r) /\ submission[r].proof # NoProof =>
      \E p \in Outputs :
        /\ queue[r].payloadHash.parts = p
        /\ run[p] = [request |-> r, proof |-> submission[r].proof]
=============================================================================
