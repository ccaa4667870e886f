----------------------------- MODULE MCCrossRand -----------------------------
(* A small instance of the whole system for TLC. *)
EXTENDS CrossRand, TLC

H == INSTANCE Halo2Verifier

CONSTANTS r1, r2, p1, p2, p3, k1, k2, s1, v1, w1

MCCommittee == [p \in Outputs |-> IF p = p1 THEN k1 ELSE k2]
MCSignature == [p \in Outputs |-> s1]
MCPacking   == [p \in Payloads |-> p]

\* The pipeline's transcripts hold points of the Pasta curves, which do not
\* decode as points of BN254 (off-chain/halo2_prover/src/prover.rs:70-82).
\* PointsProof is what contracts/test/E2E_MultiBridge_ZK.test.ts submits.
MCTranscript ==
  [p \in Outputs |->
     [length |-> 4000, commit |-> "none", opening |-> "none", of |-> p]]
PointsProof ==
  [length |-> 256, commit |-> "G", opening |-> "G", of |-> "test"]
MCProofs == {PointsProof} \cup {MCTranscript[p] : p \in Outputs}

MCAccepts ==
  [v \in Verifiers |->
     {x \in Proofs \X Signals : H!VerifyProof(x[1], TRUE)}]

\* As deployed by contracts/scripts/deploy/02_deploy_receiver.ts.
MCDefaults ==
  [challengeWindowBlocks |-> 1, baseFeeThreshold |-> 1,
   maxExpansionFactor |-> 1, dynamicWindowEnabled |-> FALSE,
   enforceBlsSignature |-> FALSE, aggregatePublicKey |-> k1,
   enforceZkProof |-> TRUE, zkVerifier |-> v1,
   registeredPkHash |-> NoPkHash, challengerReward |-> 1,
   watcherBaselineReward |-> 1, auditEpochBlocks |-> 1]
=============================================================================
