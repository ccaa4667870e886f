---------------------------- MODULE AdaptiveVdf -----------------------------
(***************************************************************************)
(* The adaptive delay of crypto_engine/src/vdf/adaptive.rs: update raises  *)
(* the number of squarings t when a solve was too fast, leaves it when the *)
(* solve was too slow, and lowers it after a streak of healthy epochs.     *)
(* All numbers are u64 with saturating multiplication and truncating       *)
(* division.  update takes its configuration as an argument; a behaviour   *)
(* keeps to one, of which the base is chosen at its start.                 *)
(*                                                                         *)
(* An operator Mutant_X is a plausible bug in the definition after it.  No *)
(* definition uses it.                                                     *)
(***************************************************************************)
EXTENDS Integers

CONSTANTS
  MaxU64, MaxU32,
  TBases, TMax,             \* the bases there can be; the cap of t
  AlphaNum, AlphaDen,       \* a raise multiplies t by AlphaNum/AlphaDen
  DecayNum, DecayDen,       \* a decay by DecayNum/DecayDen
  DecayEpochThreshold,
  ExpectedSolveMs, TolerancePct,
  SolveTimes                \* the measurements of the explored instance

ASSUME ConfigAssumption ==
  /\ MaxU64 \in Nat /\ MaxU32 \in Nat \ {0}
  /\ TBases \subseteq 0..MaxU64
  /\ {TMax, AlphaNum, AlphaDen, DecayNum, DecayDen, ExpectedSolveMs,
      TolerancePct} \subseteq 0..MaxU64
  /\ DecayEpochThreshold \in 0..MaxU32
  /\ SolveTimes \subseteq 0..MaxU64
  /\ 100 + TolerancePct <= MaxU64

VARIABLES
  tBase,           \* t_base of the configuration, constant
  currentT, healthyEpochStreak,
  lastActualMs,    \* last_actual_ms, the last measurement
  epoch            \* parity of the updates: each is a step, whatever it changes

vars == <<tBase, currentT, healthyEpochStreak, lastActualMs, epoch>>

Least(m, n) == IF m <= n THEN m ELSE n
Most(m, n)  == IF m >= n THEN m ELSE n

Times(m, n) == Least(m * n, MaxU64)              \* saturating_mul

\* update refuses any other configuration.
ConfigAccepted == AlphaDen # 0 /\ DecayDen # 0 /\ tBase <= TMax

Lower == Times(ExpectedSolveMs, Most(100 - TolerancePct, 0)) \div 100
Upper == Times(ExpectedSolveMs, 100 + TolerancePct) \div 100

Init ==
  /\ tBase \in TBases
  /\ currentT = tBase
  /\ healthyEpochStreak = 0
  /\ lastActualMs = ExpectedSolveMs
  /\ epoch = 0

Mutant_RaisedUncapped == Most(Times(currentT, AlphaNum) \div AlphaDen, tBase)

Mutant_RaisedDividesFirst ==
  Most(Least(Times(currentT \div AlphaDen, AlphaNum), TMax), tBase)

Raised == Most(Least(Times(currentT, AlphaNum) \div AlphaDen, TMax), tBase)

Mutant_DecayedRoundsUp ==
  Most((Times(currentT, DecayNum) + DecayDen - 1) \div DecayDen, tBase)

Decayed == Most(Times(currentT, DecayNum) \div DecayDen, tBase)

TooFast ==
  /\ healthyEpochStreak' = 0
  /\ currentT' = Raised

Mutant_TooSlowDecays ==
  /\ healthyEpochStreak' = 0
  /\ currentT' = Decayed

TooSlow ==
  /\ healthyEpochStreak' = 0
  /\ UNCHANGED currentT

Healthy ==
  LET streak == Least(healthyEpochStreak + 1, MaxU32)
  IN IF streak >= DecayEpochThreshold
       THEN currentT' = Decayed /\ healthyEpochStreak' = 0
       ELSE healthyEpochStreak' = streak /\ UNCHANGED currentT

Update(actualMs) ==
  /\ ConfigAccepted
  /\ lastActualMs' = actualMs
  /\ epoch' = 1 - epoch
  /\ UNCHANGED tBase
  /\ \/ actualMs < Lower /\ TooFast
     \/ actualMs >= Lower /\ actualMs > Upper /\ TooSlow
     \/ actualMs \in Lower..Upper /\ Healthy

Next == \E ms \in SolveTimes : Update(ms)

Spec == Init /\ [][Next]_vars

(* Solves keep being measured, in whatever sequence of times; an update    *)
(* that finds t at its cap and repeats the measurement is one of them.     *)
FairSpec == Spec /\ WF_vars(Next)

-----------------------------------------------------------------------------
(* Properties. *)

(* t stays between t_base and t_max.                                       *)
DelayBounded ==
  /\ tBase \in TBases /\ currentT \in tBase..TMax
  /\ healthyEpochStreak \in 0..MaxU32

(* t falls only at the end of a streak of healthy epochs: a solve that was *)
(* too fast never makes the next one easier, and one that was too slow     *)
(* changes nothing.  A saturated product can lower t when t_max exceeds    *)
(* the largest u64 over alpha_den, so the claim is for smaller caps.       *)
FallsOnlyWhenHealthy ==
  [][currentT' < currentT =>
       /\ lastActualMs' \in Lower..Upper
       /\ healthyEpochStreak + 1 >= DecayEpochThreshold]_vars

\* The delays whose raise the truncating division takes away entirely: up
\* to 3 with the default 5/4.
Stalled == 0..((AlphaDen - 1) \div (AlphaNum - AlphaDen))

(* Solves that stay too fast drive t to its cap and hold it there          *)
(* (adaptive.rs:92), unless t_base is so small that its raises are         *)
(* truncated away: there t stays.                                          *)
RisesToCap ==
  <>[](lastActualMs < Lower) => <>[](currentT \in {TMax} \cup Stalled)

(* Solves that stay healthy bring t back to its base (adaptive.rs:114).    *)
ReturnsToBase ==
  <>[](lastActualMs \in Lower..Upper) => <>[](currentT = tBase)
=============================================================================
