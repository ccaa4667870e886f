-------------------------- MODULE LogScannerProofs --------------------------
(***************************************************************************)
(* The scan of a block range is exact for every u64 limit, chunk size and  *)
(* number of retries.                                                      *)
(***************************************************************************)
EXTENDS LogScanner, TLAPS

\* The blocks below start, and no others, have been appended.
Progress ==
  result = "scanning" =>
    /\ fromBlock <= start /\ start <= toBlock
    /\ \A b \in Blocks :
         appended[b] = IF b \in fromBlock..(start - 1) THEN 1 ELSE 0

IInv == TypeOK /\ Progress /\ RangeScannedOnce

LEMMA LeastFacts ==
  ASSUME NEW m \in Int, NEW n \in Int
  PROVE  /\ Least(m, n) \in {m, n}
         /\ Least(m, n) <= m /\ Least(m, n) <= n
  BY DEF Least

\* A chunk starts at start, is not empty, and stays in the range.
LEMMA ChunkInRange ==
  ASSUME IInv, result = "scanning"
  PROVE  Last \in start..toBlock /\ Last \in Blocks
<1>1. /\ start \in Nat /\ toBlock \in Nat /\ MaxU64 \in Nat
      /\ start <= toBlock /\ toBlock <= MaxU64
      /\ MaxBlockRange \in Nat /\ MaxBlockRange >= 1
  BY ScannerAssumption DEF IInv, TypeOK, Progress, Blocks
<1> QED BY <1>1 DEF Last, Plus, Least, Blocks

LEMMA InitProgress == Init => IInv
<1> SUFFICES ASSUME Init PROVE IInv
  OBVIOUS
<1>1. TypeOK
  BY ScannerAssumption DEF Init, TypeOK, Blocks
<1>2. Progress
  BY ScannerAssumption DEF Init, Progress, Blocks
<1>3. RangeScannedOnce
  BY ScannerAssumption DEF Init, RangeScannedOnce, Blocks
<1> QED BY <1>1, <1>2, <1>3 DEF IInv

LEMMA AnsweredProgress == IInv /\ Answered => IInv'
<1> SUFFICES ASSUME IInv, Answered PROVE IInv'
  OBVIOUS
<1>1. result = "scanning"
  BY DEF Answered
<1>2. Last \in start..toBlock /\ Last \in Blocks
  BY <1>1, ChunkInRange
<1>3. /\ fromBlock \in Nat /\ start \in Nat /\ toBlock \in Nat
      /\ MaxU64 \in Nat /\ toBlock <= MaxU64 /\ fromBlock <= start
      /\ start <= toBlock /\ Last \in Nat /\ Blocks \subseteq Nat
  BY <1>1, <1>2, ScannerAssumption DEF IInv, TypeOK, Progress, Blocks
<1>4. UNCHANGED <<fromBlock, toBlock>> /\ attempt' = 1
  BY DEF Answered
<1>5. \A b \in Blocks :
        appended'[b] = IF b \in fromBlock..Last THEN 1 ELSE 0
  <2> SUFFICES ASSUME NEW b \in Blocks
               PROVE  appended'[b] = IF b \in fromBlock..Last THEN 1 ELSE 0
    OBVIOUS
  <2>1. appended[b] = IF b \in fromBlock..(start - 1) THEN 1 ELSE 0
    BY <1>1 DEF IInv, Progress
  <2>2. appended'[b] = IF b \in start..Last THEN Least(appended[b] + 1, 2)
                                            ELSE appended[b]
    BY DEF Answered, Append
  <2>3. b \in start..Last => appended'[b] = 1
    BY <2>1, <2>2, <1>3 DEF Least
  <2> QED BY <2>1, <2>2, <2>3, <1>2, <1>3
<1>6. appended' \in [Blocks -> 0..2]
  <2>1. appended' = [b \in Blocks |->
                       IF b \in start..Last THEN Least(appended[b] + 1, 2)
                                           ELSE appended[b]]
    BY DEF Answered, Append
  <2>2. \A b \in Blocks : appended[b] \in 0..2
    BY DEF IInv, TypeOK
  <2>3. \A b \in Blocks : Least(appended[b] + 1, 2) \in 0..2
    BY <2>2 DEF Least
  <2> QED BY <2>1, <2>2, <2>3
<1>7. CASE Last = MaxU64
  <2>1. result' = "ok" /\ start' = start /\ Last = toBlock
    BY <1>2, <1>3, <1>7 DEF Answered, NextChunk
  <2> QED
    BY <1>1, <1>4, <1>5, <1>6, <2>1, ScannerAssumption
    DEF IInv, TypeOK, Progress, RangeScannedOnce
<1>8. CASE Last # MaxU64
  <2>1. /\ start' = Last + 1
        /\ result' = IF Last + 1 > toBlock THEN "ok" ELSE result
    <3>1. Last + 1 <= MaxU64
      BY <1>2, <1>3, <1>8 DEF Blocks
    <3>2. Plus(Last, 1) = Last + 1
      BY <3>1, <1>3 DEF Plus, Least
    <3> QED BY <1>8, <3>2 DEF Answered, NextChunk
  <2>2. start' \in Blocks
    BY <2>1, <1>2, <1>3, <1>8 DEF Blocks
  <2>3. TypeOK'
    BY <1>1, <1>4, <1>6, <2>1, <2>2, ScannerAssumption DEF IInv, TypeOK
  <2>4. Progress'
    <3> SUFFICES ASSUME result' = "scanning"
                 PROVE  /\ fromBlock' <= start' /\ start' <= toBlock'
                        /\ \A b \in Blocks : appended'[b] =
                             IF b \in fromBlock'..(start' - 1) THEN 1 ELSE 0
      BY DEF Progress
    <3>1. Last + 1 <= toBlock
      BY <2>1, <1>3
    <3>2. start' - 1 = Last
      BY <2>1, <1>3
    <3> QED BY <1>2, <1>3, <1>4, <1>5, <2>1, <3>1, <3>2
  <2>5. RangeScannedOnce'
    <3> SUFFICES ASSUME result' = "ok"
                 PROVE  \A b \in Blocks : appended'[b] =
                          IF b \in fromBlock'..toBlock' THEN 1 ELSE 0
      BY DEF RangeScannedOnce
    <3>1. Last = toBlock
      BY <2>1, <1>1, <1>2, <1>3
    <3> QED BY <3>1, <1>4, <1>5
  <2> QED BY <2>3, <2>4, <2>5 DEF IInv
<1> QED BY <1>7, <1>8

LEMMA OtherStepsProgress ==
  IInv /\ (RateLimited \/ QueryError \/ UNCHANGED vars) => IInv'
<1> SUFFICES ASSUME IInv, RateLimited \/ QueryError \/ UNCHANGED vars
             PROVE  IInv'
  OBVIOUS
<1>1. UNCHANGED <<fromBlock, toBlock, start, appended>>
  BY DEF RateLimited, QueryError, vars
<1>2. result' \in {result, "error"} /\ attempt' \in 1..MaxRetries
  BY ScannerAssumption DEF RateLimited, QueryError, vars, IInv, TypeOK
<1> QED BY <1>1, <1>2 DEF IInv, TypeOK, Progress, RangeScannedOnce

LEMMA ScanInvariant == Spec => []IInv
<1>1. IInv /\ [Next]_vars => IInv'
  BY AnsweredProgress, OtherStepsProgress DEF Next
<1> QED BY <1>1, InitProgress, PTL DEF Spec

(* The variables keep their types: block numbers stay in u64 and no query  *)
(* is repeated more often than RELAYER_RPC_MAX_RETRIES allows.             *)
THEOREM ScanTypeCorrect == Spec => []TypeOK
<1>1. IInv => TypeOK
  BY DEF IInv
<1> QED BY <1>1, ScanInvariant, PTL

(* A scan that succeeds has appended each block of its range exactly once, *)
(* for every range, chunk size and position in the u64 numbers.            *)
THEOREM ScanIsExact == Spec => []RangeScannedOnce
<1>1. IInv => RangeScannedOnce
  BY DEF IInv
<1> QED BY <1>1, ScanInvariant, PTL
=============================================================================
