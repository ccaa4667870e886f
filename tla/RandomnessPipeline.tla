------------------------- MODULE RandomnessPipeline -------------------------
(***************************************************************************)
(* One run of the pipeline for one request, crypto_engine/src/lib.rs: the  *)
(* committee of dkg/mod.rs and its signature, the session seed, the delay  *)
(* function of WesolowskiVdf, and the proof of Halo2Circuit.               *)
(*                                                                         *)
(* SHA-256 is a function that the run discovers: a string that was not     *)
(* hashed before gets any digest.  A BLS key is its exponent, a signature  *)
(* the sum of the signers' exponents and the signed string.                *)
(*                                                                         *)
(* An operator Mutant_X is a plausible bug in the definition after it.  No *)
(* definition uses it.                                                     *)
(***************************************************************************)
EXTENDS WesolowskiVdf, Halo2Circuit

CONSTANTS
  Committees,     \* [n, t] a caller of run_pedersen_dkg may ask for
  Secrets,        \* exponents a private key may have
  CurveOrder,
  Digests,        \* digests of SHA-256, sequences of bytes
  DkgTag, SessionTag,   \* the strings that start a transcript
  Request,        \* the request and its seed, as logged
  UserSeed,
  Modulus,        \* VDF_MODULUS_HEX
  ElementBytes,   \* bytes of a serialized group element
  Ks              \* values HALO2_K may have

ASSUME PipelineAssumption ==
  /\ Digests \subseteq [1..(2 * HalfLength) -> 0..(Byte - 1)]
  /\ CurveOrder \in Nat \ {0} /\ Secrets \subseteq 1..(CurveOrder - 1)
  /\ \A c \in Committees : c.n \in Nat /\ c.t \in Nat
  /\ ElementBytes \in Nat /\ \A o \in Orders : o <= Byte ^ ElementBytes
  /\ Request \in 0..(Prime - 1)
  /\ {DkgTag, SessionTag, UserSeed, Modulus} \subseteq Seq(Nat)

\* The recurrence of ^ as far as it is used; the provers know nothing else
\* of it.
ASSUME PowerAssumption ==
  /\ Byte ^ 0 = 1
  /\ \A i \in 0..(MsgBytes + FieldBytes + RequestBytes + ElementBytes) :
       Byte ^ i \in Nat /\ Byte ^ (i + 1) = Byte * Byte ^ i

VARIABLES
  stage,          \* where run_randomness_pipeline_full is
  committee, k,   \* the arguments
  sha,            \* the part of SHA-256 this run has seen
  secrets,        \* the private keys, in the order of the nodes
  collective,     \* CollectiveRandomness
  sessionSeed,    \* seed_collective of the pipeline
  payload         \* RelayPayload

pipelineVars == <<stage, committee, k, sha, secrets, collective, sessionSeed,
                  payload>>
vars == <<vdfVars, pipelineVars>>

None == << >>

\* The hash function after these strings have been hashed.
Hashing(strings) ==
  {[s \in DOMAIN sha \cup strings |-> IF s \in DOMAIN sha THEN sha[s] ELSE new[s]] :
     new \in [strings \ DOMAIN sha -> Digests]}

Init ==
  /\ VdfInit
  /\ stage = "dkg"
  /\ committee \in Committees /\ k \in Ks
  /\ sha = << >>
  /\ secrets = None /\ collective = None /\ sessionSeed = None /\ payload = None

-----------------------------------------------------------------------------
(* run_pedersen_dkg. *)

ParamsAccepted == committee.t > 0 /\ committee.n > 0 /\ committee.t <= committee.n

RefuseParams ==
  /\ stage = "dkg" /\ ~ParamsAccepted
  /\ stage' = "error"
  /\ UNCHANGED <<vdfVars, committee, k, sha, secrets, collective, sessionSeed,
                 payload>>

\* The public key of an exponent, as one byte.
PublicKey(secret) == <<secret>>

Transcript(keys) ==
  FoldLeft(LAMBDA bytes, i : bytes \o <<i, Len(PublicKey(keys[i]))>> \o PublicKey(keys[i]),
           DkgTag \o <<committee.n, committee.t>>, [i \in DOMAIN keys |-> i])

SignedSubset(keys) == SubSeq(keys, 1, committee.t)

Mutant_KeysOfAll(keys) == FlattenSeq([i \in DOMAIN keys |-> PublicKey(keys[i])])

SubsetKeys(keys) ==
  FoldLeft(LAMBDA bytes, secret : bytes \o PublicKey(secret), << >>, SignedSubset(keys))

SumOfExponents(keys) ==
  FoldLeft(LAMBDA sum, secret : (sum + secret) % CurveOrder, 0, keys)

\* bls_signatures::aggregate of the partial signatures of one string.
Aggregate(keys, message) == <<SumOfExponents(keys)>> \o message

\* init_collective_seed_with_params keeps three fields of the DkgOutput.
CollectiveRandomness(seed, signature, publicKey) ==
  [seed |-> seed, signature |-> signature, publicKey |-> publicKey]

RunPedersenDkg ==
  /\ stage = "dkg" /\ ParamsAccepted
  /\ \E keys \in [1..committee.n -> Secrets] :
       \E h \in Hashing({Transcript(keys), SubsetKeys(keys)}) :
         LET seed == h[Transcript(keys)]
         IN  /\ secrets' = keys
             /\ sha' = h
             /\ collective' =
                  CollectiveRandomness(seed, Aggregate(SignedSubset(keys), seed),
                                       h[SubsetKeys(keys)])
  /\ stage' = "session"
  /\ UNCHANGED <<vdfVars, committee, k, sessionSeed, payload>>

-----------------------------------------------------------------------------
(* run_randomness_pipeline_full. *)

SessionBytes == SessionTag \o <<Request>> \o UserSeed \o collective.seed

DeriveSession ==
  /\ stage = "session"
  /\ sha' \in Hashing({SessionBytes})
  /\ sessionSeed' = sha'[SessionBytes]
  /\ stage' = "vdf"
  /\ UNCHANGED <<vdfVars, committee, k, secrets, collective, payload>>

EvaluateDelay ==
  /\ stage = "vdf" /\ VdfNext
  /\ stage' = IF step' = "proved" THEN "zk" ELSE "vdf"
  /\ UNCHANGED <<committee, k, sha, secrets, collective, sessionSeed, payload>>

Element(exponent) == BigEndian(exponent, ElementBytes)

\* What main.rs hands to the failover.
Payload(proof, signals) ==
  [requestId |-> Request, y |-> Element(y), pi |-> Element(pi),
   seed |-> sessionSeed, modulus |-> Modulus,
   signature |-> collective.signature, proof |-> proof, signals |-> signals]

Done(result) ==
  /\ payload' = result
  /\ stage' = "done"

\* The proving keys are made on first use; expect ends the process when the
\* circuit does not fit.
SetupPanics ==
  /\ stage = "zk" /\ ~RowsFit(k)
  /\ stage' = "panicked"
  /\ UNCHANGED <<vdfVars, committee, k, sha, secrets, collective, sessionSeed,
                 payload>>

\* The field elements as decimal strings, parsed back.
Signals(inputs) == [i \in 1..7 |-> FormatFieldElement(inputs[i])]

GenerateZkProof ==
  /\ stage = "zk" /\ RowsFit(k)
  /\ LET pk == collective.publicKey
         sig == collective.signature
     IN  \E h \in Hashing({CommitmentBytes(pk, sig, sessionSeed), KeyBytes(pk),
                PayloadBytes(Request, Element(y), Element(pi), sessionSeed, Modulus)}) :
           \E input \in {FromRaw(h, pk, sig, sessionSeed, Element(y), Element(pi),
                                 Modulus, Request)} :
             /\ sha' = h
             /\ Done(Payload(Proof(h, input), Signals(PublicInputs(input))))
  /\ UNCHANGED <<vdfVars, committee, k, secrets, collective, sessionSeed>>

\* The error is logged and the payload goes out without a proof.
ZkProofFails ==
  /\ stage = "zk" /\ RowsFit(k)
  /\ Done(Payload(None, [i \in 1..7 |-> 0]))
  /\ UNCHANGED <<vdfVars, committee, k, sha, secrets, collective, sessionSeed>>

Next ==
  \/ RefuseParams
  \/ RunPedersenDkg
  \/ DeriveSession
  \/ EvaluateDelay
  \/ SetupPanics
  \/ GenerateZkProof
  \/ ZkProofFails

Spec == Init /\ [][Next]_vars

\* The run is one call that nothing interrupts.
FairSpec == Spec /\ WF_vars(Next)

-----------------------------------------------------------------------------
(* Properties. *)

PipelineTypeOK ==
  /\ VdfTypeOK
  /\ stage \in {"dkg", "session", "vdf", "zk", "done", "error", "panicked"}
  /\ committee \in Committees /\ k \in Ks
  /\ \A bytes \in DOMAIN sha : bytes \in Seq(Nat) /\ sha[bytes] \in Digests
  /\ secrets # None => secrets \in [1..committee.n -> Secrets]
  /\ sessionSeed # None => sessionSeed \in Digests
  /\ (stage = "done") = (payload # None)

Proven == stage = "done" /\ payload.proof # None

\* bytes32((signals[i] << 128) | signals[i + 1]), positions from 1.
Recombined(signals, i) ==
  BigEndian((signals[i] * Half + signals[i + 1]), 2 * HalfLength)

(* What the destination contract recomputes from the relayed payload is    *)
(* what the proof speaks of: the digest of identifier, output, delay       *)
(* proof, seed and modulus, cut into two field elements and put together   *)
(* again, and the identifier (RandomReceiver.sol:256-265).                 *)
SignalsMatchPayload ==
  Proven =>
    LET bytes == BigEndian(payload.requestId, RequestBytes) \o payload.y
                   \o payload.pi \o payload.seed \o payload.modulus
    IN  /\ bytes \in DOMAIN sha
        /\ Recombined(payload.signals, 5) = sha[bytes]
        /\ payload.signals[7] = payload.requestId

(* The committee the proof names is the one that signed: the third and     *)
(* fourth signal are the hash of the digest of the keys of exactly t       *)
(* nodes, and the relayed signature is the sum of those nodes' signatures  *)
(* (dkg/mod.rs:100-121, circuit.rs:62-65).                                 *)
ProofNamesSigners ==
  Proven =>
    \E node \in [1..committee.t -> 1..committee.n] :
      LET signer == [i \in 1..committee.t |-> secrets[node[i]]]
          keys == FlattenSeq([i \in 1..committee.t |-> PublicKey(signer[i])])
      IN  /\ \A i, j \in 1..committee.t : i < j => node[i] < node[j]
          /\ keys \in DOMAIN sha
          /\ Recombined(payload.signals, 3) = sha[PadOrTruncate(sha[keys], PkBytes)]
          /\ payload.signature[1] = SumFunction(signer) % CurveOrder

(* An honest run's table satisfies every gate, and the rows bound to the   *)
(* instance column hold the public inputs in the order the prover lists    *)
(* them (circuit.rs:144-266 against prover.rs:60-68).                      *)
HonestProofIsComplete ==
  Proven => Satisfied(payload.proof.rows, payload.proof.instance)

(* A run ends if the hash yields an acceptable challenge at some counter:  *)
(* the wrapping counter reaches it (vdf/mod.rs:93-112).                    *)
RunEnds ==
  (\E c \in DOMAIN hash : Acceptable(hash[c]))
    ~> stage \in {"done", "error", "panicked"}
=============================================================================
