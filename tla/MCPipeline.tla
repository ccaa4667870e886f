----------------------------- MODULE MCPipeline -----------------------------
(* A small instance of the pipeline for TLC: bytes of two bits, digests of *)
(* four bytes, a field of 17 elements.                                     *)
EXTENDS RandomnessPipeline

MCTwoPow == [i \in 0..7 |-> 2 ^ i]
MCSmoothPrimes == <<2, 3, 5>>

\* Halves of zero, of one, the largest, and a mixed one.
MCDigests == {<<0, 0, 0, 1>>, <<3, 3, 1, 2>>}

\* Accepted and refused by run_pedersen_dkg.
MCCommittees == {[n |-> 3, t |-> 2], [n |-> 1, t |-> 1], [n |-> 2, t |-> 3],
                 [n |-> 2, t |-> 0]}

MCDkgTag == <<100>>
MCSessionTag == <<101>>
MCUserSeed == <<3>>
MCModulus == <<2, 1>>
=============================================================================
