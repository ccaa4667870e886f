--------------------------- MODULE Halo2Verifier ---------------------------
(***************************************************************************)
(* The deployed proof verifier, contracts/src/Halo2Verifier.sol.  It reads *)
(* a proof as bytes with a point of BN254 at each end and compares the two *)
(* in one pairing; the signals enter only through their range.             *)
(*                                                                         *)
(* A proof is the record of its length and of what its first and its last  *)
(* 64 bytes decode to: a point, which is any other value, "infinity" for   *)
(* two zero words, or "none" for words that are no point of the curve.     *)
(***************************************************************************)
EXTENDS Naturals

MIN_PROOF_LENGTH == 64

\* The precompile fails on an argument that is no point.  The negation of
\* the opening turns infinity into one: p - 0 is not a field element.
PairingSucceeds(proof) ==
  proof.commit # "none" /\ proof.opening \notin {"none", "infinity"}

\* e(commit, G2) = e(opening, G2)
PairingHolds(proof) == proof.commit = proof.opening

VerifyProof(proof, signalsInRange) ==
  /\ proof.length >= MIN_PROOF_LENGTH
  /\ signalsInRange
  /\ proof.length >= 128
  /\ proof.commit # "infinity"
  /\ PairingSucceeds(proof)
  /\ PairingHolds(proof) \/ proof.length >= MIN_PROOF_LENGTH
=============================================================================
