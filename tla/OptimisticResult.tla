------------------------- MODULE OptimisticResult -------------------------
(***************************************************************************)
(* What the destination contract promises for each randomness request: at  *)
(* most one result is ever queued, the queued result is settled at most    *)
(* once, either rejected by a challenge or made final, and a settled       *)
(* request never changes again.  RandomReceiver implements this.           *)
(***************************************************************************)
CONSTANTS Requests,   \* the request identifiers
          Results,    \* the payload hashes a result can have
          NoResult    \* bytes32(0): no final randomness

VARIABLES status,     \* Requests -> Statuses
          result,     \* the queued payload hash, NoResult while missing
          final       \* the randomness a consumer reads, NoResult until final

vars == <<status, result, final>>

Statuses == {"missing", "pending", "challenged", "finalized"}

Init ==
  /\ status = [r \in Requests |-> "missing"]
  /\ result = [r \in Requests |-> NoResult]
  /\ final  = [r \in Requests |-> NoResult]

Submit(r, h) ==
  /\ status[r] = "missing"
  /\ status' = [status EXCEPT ![r] = "pending"]
  /\ result' = [result EXCEPT ![r] = h]
  /\ UNCHANGED final

Reject(r) ==
  /\ status[r] = "pending"
  /\ status' = [status EXCEPT ![r] = "challenged"]
  /\ UNCHANGED <<result, final>>

Finalize(r) ==
  /\ status[r] = "pending"
  /\ status' = [status EXCEPT ![r] = "finalized"]
  /\ final'  = [final EXCEPT ![r] = result[r]]
  /\ UNCHANGED result

Settle(r) == Reject(r) \/ Finalize(r)

Next == \E r \in Requests : Settle(r) \/ \E h \in Results : Submit(r, h)

Spec == Init /\ [][Next]_vars

\* Every queued result is eventually challenged or made final.
PendingIsSettled ==
  \A r \in Requests : status[r] = "pending" ~> status[r] # "pending"
=============================================================================
