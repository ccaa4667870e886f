----------------------------- MODULE LogScanner -----------------------------
(***************************************************************************)
(* fetch_log_requests_in_range of network_module/src/rpc/mod.rs: the       *)
(* relayer asks for the LogRequest events of a block range in chunks that  *)
(* an RPC provider accepts, repeats a rate-limited query a bounded number  *)
(* of times and gives up on any other error.  Block numbers are u64.       *)
(*                                                                         *)
(* The events a query returns are those of its blocks; the model keeps     *)
(* whether the events of each block were appended never, once, or more     *)
(* often (2).                                                              *)
(*                                                                         *)
(* An operator Mutant_X is a plausible bug in the definition after it.  No *)
(* definition uses it.                                                     *)
(***************************************************************************)
EXTENDS Integers

CONSTANTS
  MaxU64,           \* u64::MAX
  MaxBlockRange,    \* RELAYER_MAX_BLOCK_RANGE
  MaxRetries        \* RELAYER_RPC_MAX_RETRIES

ASSUME ScannerAssumption ==
  /\ MaxU64 \in Nat
  /\ MaxBlockRange \in (0..MaxU64) \ {0}
  /\ MaxRetries \in Nat \ {0}

VARIABLES
  fromBlock, toBlock,   \* the arguments
  start,                \* first block not asked for yet
  attempt,              \* of the current query
  appended,             \* appended[b]: how often block b's events were appended
  result

vars == <<fromBlock, toBlock, start, attempt, appended, result>>

Blocks == 0..MaxU64

Least(m, n) == IF m <= n THEN m ELSE n

Mutant_PlusWraps(m, n) == (m + n) % (MaxU64 + 1)

Plus(m, n) == Least(m + n, MaxU64)    \* saturating_add

Init ==
  /\ fromBlock \in Blocks /\ toBlock \in Blocks
  /\ start = fromBlock
  /\ attempt = 1
  /\ appended = [b \in Blocks |-> 0]
  /\ result = IF fromBlock <= toBlock THEN "scanning" ELSE "ok"

\* The last block of the current chunk.
Last == Least(Plus(start, MaxBlockRange - 1), toBlock)

Append ==
  appended' = [b \in Blocks |->
                 IF b \in start..Last THEN Least(appended[b] + 1, 2)
                                     ELSE appended[b]]

Mutant_NextFromLast ==
  /\ start' = Plus(Last, 1)
  /\ result' = IF start' > toBlock THEN "ok" ELSE result

\* The loop leaves at u64::MAX, which start cannot pass.
NextChunk ==
  IF Last = MaxU64
    THEN result' = "ok" /\ UNCHANGED start
    ELSE /\ start' = Plus(Last, 1)
         /\ result' = IF start' > toBlock THEN "ok" ELSE result

Answered ==
  /\ result = "scanning"
  /\ Append
  /\ NextChunk
  /\ attempt' = 1
  /\ UNCHANGED <<fromBlock, toBlock>>

Mutant_RetryOnceMore ==
  /\ result = "scanning"
  /\ IF attempt <= MaxRetries THEN attempt' = attempt + 1 /\ UNCHANGED result
                              ELSE result' = "error" /\ UNCHANGED attempt
  /\ UNCHANGED <<fromBlock, toBlock, start, appended>>

RateLimited ==
  /\ result = "scanning"
  /\ IF attempt < MaxRetries THEN attempt' = attempt + 1 /\ UNCHANGED result
                             ELSE result' = "error" /\ UNCHANGED attempt
  /\ UNCHANGED <<fromBlock, toBlock, start, appended>>

QueryError ==
  /\ result = "scanning"
  /\ result' = "error"
  /\ UNCHANGED <<fromBlock, toBlock, start, attempt, appended>>

Next == Answered \/ RateLimited \/ QueryError

Spec == Init /\ [][Next]_vars

(* Each query is answered in the end, one way or another.                  *)
FairSpec == Spec /\ WF_vars(Next)

-----------------------------------------------------------------------------
(* Properties. *)

TypeOK ==
  /\ {fromBlock, toBlock, start} \subseteq Blocks
  /\ attempt \in 1..MaxRetries
  /\ appended \in [Blocks -> 0..2]
  /\ result \in {"scanning", "ok", "error"}

(* What the caller gets has the events of every block of the range exactly *)
(* once and of no other block, wherever the chunks are cut and whichever   *)
(* queries were repeated.                                                  *)
RangeScannedOnce ==
  result = "ok" =>
    \A b \in Blocks :
      appended[b] = IF b \in fromBlock..toBlock THEN 1 ELSE 0

(* The scan returns, at the end of the u64 range too.                      *)
ScanReturns == <>(result # "scanning")
=============================================================================
