------------------------- MODULE ReceiverProperties -------------------------
(***************************************************************************)
(* What the destination contract must guarantee, and its refinement of     *)
(* OptimisticResult.                                                       *)
(***************************************************************************)
EXTENDS RandomReceiver, Functions

CONSTANT ValidPayloads   \* payloads whose y verifyVDF recomputes

ASSUME ValidPayloadsAssumption == ValidPayloads \subseteq Payloads

\* Addresses, request identifiers and amounts are machine words.
ASSUME WordAssumption ==
  /\ IsFiniteSet(Accounts) /\ IsFiniteSet(Requests)
  /\ \E top \in BaselineRewards : \A x \in BaselineRewards : x <= top

Status(r) ==
  IF queue[r].challengeDeadlineBlock = 0 THEN "missing"
  ELSE IF queue[r].challenged THEN "challenged"
  ELSE IF queue[r].finalized THEN "finalized" ELSE "pending"

Abstract == INSTANCE OptimisticResult
  WITH Results  <- Hashes,
       NoResult <- NoHash,
       status   <- [r \in Requests |-> Status(r)],
       result   <- [r \in Requests |-> queue[r].payloadHash],
       final    <- finalRandomnessByRequest

(* The queue, with its overlapping guards, its two flags and the separate  *)
(* finalRandomnessByRequest map, settles every request at most once and    *)
(* publishes exactly the hash that was queued.                             *)
ImplementsOptimisticResult == Abstract!Spec

(* The facts the queue maintains together: a result is never both          *)
(* challenged and final, the published randomness is the queued hash of a  *)
(* final result and nothing else, a result is final only at or after its   *)
(* deadline, and the deadline is never before the submission.              *)
ItemOK(r) ==
  LET item == queue[r]
  IN /\ item.challengeDeadlineBlock = 0 => item = NoItem
     /\ ~(item.challenged /\ item.finalized)
     /\ item.finalized => item.challengeDeadlineBlock <= block
     /\ finalRandomnessByRequest[r]
          = IF item.finalized THEN item.payloadHash ELSE NoHash
     /\ item.challengeDeadlineBlock # 0 =>
          /\ item.payloadHash \in Hashes
          /\ submission[r].at <= item.challengeDeadlineBlock
          /\ submission[r].at <= block

QueueConsistent == \A r \in Requests : ItemOK(r)

(* Between its submission and its finalization a result has been open to   *)
(* challenges for at least the window configured when it was submitted,    *)
(* however the owner changed the window, the base fee threshold and the    *)
(* expansion before and after and whatever the base fee was.  The one      *)
(* exception is an expansion factor of zero, which setDynamicWindowConfig  *)
(* stores unchecked and which makes the window of a result submitted under *)
(* a high base fee empty.                                                  *)
ChallengeableForAWindow ==
  \A r \in Requests :
    queue[r].finalized =>
      \/ submission[r].zeroFactor
      \/ /\ submission[r].window # 0
         /\ submission[r].at + submission[r].window <= block

(* Under blocks that keep coming and finalizers that act, a queued result  *)
(* does not stay pending for ever.                                         *)
QueuedIsSettled == Abstract!PendingIsSettled

-----------------------------------------------------------------------------
(* The watchers' rewards and the balance. *)

Earned(a) == watcherAccrued[a] + claimed[a]

Highest(S) == CHOOSE x \in S : \A y \in S : y <= x
Lowest(S)  == CHOOSE x \in S : \A y \in S : x <= y

(* A watcher is credited once per audit and audits are an epoch apart: its *)
(* earnings are bounded by the epochs since the deployment, in whatever    *)
(* order watchers register, audits run and the owner changes the rewards.  *)
EarningsBoundedByEpochs ==
  \A a \in Accounts :
    Earned(a) <= Highest(BaselineRewards)
                   * ((block - FirstBlock) \div Lowest(AuditEpochs \ {0}))

(* A watcher that registered earlier has earned at least as much as one    *)
(* that registered later, and an account that never registered nothing.    *)
SeniorityRespected ==
  /\ \A i, j \in DOMAIN watcherList :
       i < j => Earned(watcherList[i]) >= Earned(watcherList[j])
  /\ \A a \in Accounts : ~registeredWatcher[a] => Earned(a) = 0

(* Ether leaves the contract only as a reported challenge reward or a      *)
(* reported claim, and the challenge rewards are those of results that are *)
(* rejected, at most one each.                                             *)
EtherAccounted ==
  /\ balance + SumFunction(claimed) + SumFunction(payout) = deposited
  /\ \A r \in Requests :
       payout[r] > 0 => queue[r].challenged /\ payout[r] \in ChallengerRewards

-----------------------------------------------------------------------------
(* What the documents say and the code does not do. *)

(* Architecture.md:22, the payload is rejected "if an independent watcher  *)
(* detects an invalid ZK proof or VDF evaluation": what is rejected was    *)
(* invalid, and what a challenge leaves in the queue was valid.            *)
ChallengeJudgesPayload ==
  \A r \in Requests :
    /\ queue[r].challenged => queue[r].payloadHash.parts \notin ValidPayloads
    /\ r \in falseChallenges => queue[r].payloadHash.parts \in ValidPayloads
=============================================================================
