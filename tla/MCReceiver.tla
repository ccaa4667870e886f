----------------------------- MODULE MCReceiver -----------------------------
(* Small instances of the destination contract for TLC. *)
EXTENDS ReceiverProperties, TLC

H == INSTANCE Halo2Verifier

CONSTANTS r1, r2, p1, p2, e1, s1, v1, k1, k2, w1, w2, w3,
          Oversized            \* request ids not below the field modulus

\* The bytes contracts/test/E2E_MultiBridge_ZK.test.ts builds, and bytes
\* that are too short.
PointsProof == [length |-> 256, commit |-> "G", opening |-> "G"]
ShortProof  == [length |-> 96, commit |-> "G", opening |-> "G"]
MCProofs    == {PointsProof, ShortProof}

MCAccepts ==
  [v \in Verifiers |->
     {x \in Proofs \X Signals :
        H!VerifyProof(x[1], x[2].requestId \notin Oversized)}]

\* Packing is injective except that an incomplete payload packs like p1.
MCPacking == (p1 :> p1) @@ (p2 :> p2) @@ (e1 :> p1)

MCDefaults ==
  [challengeWindowBlocks |-> 1, baseFeeThreshold |-> Highest(Thresholds),
   maxExpansionFactor |-> Highest(Factors), dynamicWindowEnabled |-> FALSE,
   enforceBlsSignature |-> FALSE, aggregatePublicKey |-> k1,
   enforceZkProof |-> FALSE, zkVerifier |-> NoVerifier,
   registeredPkHash |-> NoPkHash, challengerReward |-> 1,
   watcherBaselineReward |-> 1, auditEpochBlocks |-> Lowest(AuditEpochs \ {0})]
=============================================================================
