------------------------- MODULE AdaptiveVdfProofs --------------------------
(***************************************************************************)
(* What the adaptive delay guarantees for every u64 width and every        *)
(* configuration that update accepts, with the condition each guarantee    *)
(* needs beyond that.                                                      *)
(***************************************************************************)
EXTENDS AdaptiveVdf, TLAPS

\* The base is within the cap, which update requires, and a decay does not
\* raise t, which it does not check.
DecayLowers ==
  /\ \A base \in TBases : base <= TMax
  /\ DecayNum <= DecayDen

\* In addition a raise does not lower t, and a saturated product, divided,
\* is still at the cap or above.
Sound ==
  /\ DecayLowers
  /\ AlphaNum >= AlphaDen
  /\ TMax <= MaxU64 \div AlphaDen

InBounds ==
  /\ tBase \in TBases /\ tBase \in Nat /\ tBase <= TMax
  /\ currentT \in tBase..TMax

LEMMA Constants ==
  /\ TBases \subseteq Nat /\ TMax \in Nat /\ MaxU64 \in Nat /\ MaxU32 \in Nat
  /\ AlphaNum \in Nat /\ AlphaDen \in Nat /\ DecayNum \in Nat
  /\ DecayDen \in Nat /\ DecayEpochThreshold \in Nat
BY ConfigAssumption

\* Truncating division by a positive number.
LEMMA DivBounds ==
  ASSUME NEW a \in Nat, NEW b \in Nat, b # 0
  PROVE  /\ a \div b \in Nat
         /\ b * (a \div b) <= a /\ a < b * (a \div b) + b
OBVIOUS

LEMMA DivAtLeast ==
  ASSUME NEW a \in Nat, NEW b \in Nat, b # 0, NEW q \in Nat, b * q <= a
  PROVE  q <= a \div b
<1> DEFINE d == a \div b
<1>1. d \in Nat /\ a < b * d + b
  BY DivBounds
<1>2. b * d + b = b * (d + 1)
  BY <1>1
<1>3. b * q < b * (d + 1)
  BY <1>1, <1>2
<1> HIDE DEF d
<1>4. q < d + 1
  BY <1>1, <1>3
<1> QED BY <1>1, <1>4 DEF d

LEMMA DivAtMost ==
  ASSUME NEW a \in Nat, NEW b \in Nat, b # 0, NEW q \in Nat, a <= b * q
  PROVE  a \div b <= q
<1> DEFINE d == a \div b
<1>1. d \in Nat /\ b * d <= a
  BY DivBounds
<1>2. b * d <= b * q
  BY <1>1
<1> HIDE DEF d
<1>3. d <= q
  BY <1>1, <1>2
<1> QED BY <1>3 DEF d

LEMMA ProductMonotone ==
  ASSUME NEW t \in Nat, NEW m \in Nat, NEW n \in Nat, m <= n
  PROVE  m * t <= t * n /\ t * m <= n * t
OBVIOUS

\* A raise, saturation included, stays within the bounds.
LEMMA RaiseInBounds ==
  ASSUME ConfigAccepted, InBounds
  PROVE  Raised \in tBase..TMax
<1> DEFINE product == Times(currentT, AlphaNum)
<1>1. product \in Nat
  <2>1. currentT * AlphaNum \in Nat
    BY Constants DEF InBounds
  <2> QED BY <2>1, Constants DEF Times, Least
<1> HIDE DEF product
<1>2. product \div AlphaDen \in Nat
  BY <1>1, Constants, DivBounds DEF ConfigAccepted
<1> QED
  BY <1>2, Constants DEF Raised, Least, Most, product, InBounds

\* In a sound configuration it does not lower t.
LEMMA RaiseDoesNotLower ==
  ASSUME Sound, ConfigAccepted, InBounds
  PROVE  currentT <= Raised
<1>1. /\ currentT \in Nat /\ tBase <= TMax /\ AlphaDen # 0
      /\ currentT <= TMax
  BY Constants DEF InBounds, ConfigAccepted
<1>2. AlphaDen * currentT <= currentT * AlphaNum
  BY <1>1, Constants, ProductMonotone DEF Sound
<1>3. AlphaDen * currentT <= MaxU64
  <2> DEFINE q == MaxU64 \div AlphaDen
  <2>1. q \in Nat /\ AlphaDen * q <= MaxU64
    BY <1>1, Constants, DivBounds
  <2>2. currentT <= q
    BY <1>1, <2>1, Constants DEF Sound
  <2> HIDE DEF q
  <2>3. AlphaDen * currentT <= AlphaDen * q
    BY <1>1, <2>1, <2>2, Constants
  <2>4. AlphaDen * currentT \in Nat /\ AlphaDen * q \in Nat
    BY <1>1, <2>1, Constants
  <2> QED BY <2>1, <2>3, <2>4, Constants
<1> DEFINE product == Times(currentT, AlphaNum)
<1>4. product \in Nat /\ AlphaDen * currentT <= product
  <2>1. currentT * AlphaNum \in Nat
    BY <1>1, Constants
  <2> QED BY <2>1, <1>2, <1>3, Constants DEF Times, Least
<1> HIDE DEF product
<1>5. currentT <= product \div AlphaDen /\ product \div AlphaDen \in Nat
  BY <1>1, <1>4, Constants, DivAtLeast, DivBounds
<1> QED
  BY <1>1, <1>5, Constants DEF Raised, Least, Most, product, InBounds

\* The multiplication and division of a decay.
LEMMA DecayDoesNotRaise ==
  ASSUME DecayLowers, ConfigAccepted, InBounds
  PROVE  Decayed <= currentT /\ Decayed \in tBase..TMax
<1>1. currentT \in Nat /\ DecayDen # 0 /\ tBase <= currentT
  BY Constants DEF InBounds, ConfigAccepted
<1> DEFINE product == Times(currentT, DecayNum)
<1>2. product \in Nat /\ product <= DecayDen * currentT
  <2>1. currentT * DecayNum \in Nat /\ DecayDen * currentT \in Nat
    BY <1>1, Constants
  <2>2. currentT * DecayNum <= DecayDen * currentT
    BY <1>1, Constants, ProductMonotone DEF DecayLowers
  <2> QED BY <2>1, <2>2, Constants DEF Times, Least
<1> HIDE DEF product
<1>3. product \div DecayDen <= currentT /\ product \div DecayDen \in Nat
  BY <1>1, <1>2, Constants, DivAtMost, DivBounds
<1> QED
  BY <1>1, <1>3, Constants DEF Decayed, Most, product, InBounds

LEMMA InitBounded == ASSUME DecayLowers, Init PROVE DelayBounded
BY Constants DEF DecayLowers, Init, DelayBounded

LEMMA BoundedIn ==
  ASSUME DecayLowers, DelayBounded
  PROVE  /\ InBounds /\ currentT \in Nat
         /\ healthyEpochStreak \in 0..MaxU32
BY Constants DEF DelayBounded, InBounds, DecayLowers

\* A healthy epoch lowers t only at the end of a streak.
LEMMA HealthyStep ==
  ASSUME DecayLowers, ConfigAccepted, DelayBounded, Healthy, tBase' = tBase
  PROVE  /\ DelayBounded'
         /\ currentT' < currentT
              => healthyEpochStreak + 1 >= DecayEpochThreshold
<1>1. InBounds /\ currentT \in Nat /\ healthyEpochStreak \in 0..MaxU32
  BY BoundedIn
<1>2. Least(healthyEpochStreak + 1, MaxU32) \in 0..MaxU32
  BY <1>1, Constants DEF Least
<1>3. Least(healthyEpochStreak + 1, MaxU32) <= healthyEpochStreak + 1
  BY <1>1, Constants DEF Least
<1>4. CASE Least(healthyEpochStreak + 1, MaxU32) >= DecayEpochThreshold
  <2>1. currentT' = Decayed /\ healthyEpochStreak' = 0
    BY <1>4 DEF Healthy
  <2>2. DelayBounded'
    BY <1>1, <2>1, Constants, DecayDoesNotRaise DEF DelayBounded
  <2>3. healthyEpochStreak + 1 >= DecayEpochThreshold
    BY <1>1, <1>2, <1>3, <1>4, Constants
  <2> QED BY <2>2, <2>3
<1>5. CASE ~(Least(healthyEpochStreak + 1, MaxU32) >= DecayEpochThreshold)
  BY <1>1, <1>2, <1>5, Constants DEF Healthy, DelayBounded
<1> QED BY <1>4, <1>5

\* One epoch keeps the bounds.
LEMMA UpdateKeepsBounds ==
  ASSUME DecayLowers, DelayBounded, NEW ms \in SolveTimes, Update(ms)
  PROVE  DelayBounded'
<1>1. InBounds /\ currentT \in Nat /\ healthyEpochStreak \in 0..MaxU32
  BY BoundedIn
<1>2. ConfigAccepted /\ tBase' = tBase
  BY DEF Update
<1>3. CASE TooFast
  BY <1>1, <1>2, <1>3, Constants, RaiseInBounds DEF TooFast, DelayBounded
<1>4. CASE TooSlow
  BY <1>1, <1>2, <1>4, Constants DEF TooSlow, DelayBounded
<1>5. CASE Healthy
  BY <1>2, <1>5, HealthyStep
<1> QED BY <1>3, <1>4, <1>5 DEF Update

\* In a sound configuration it lowers t only when it ends a healthy streak.
LEMMA UpdateFalls ==
  ASSUME Sound, DelayBounded, NEW ms \in SolveTimes, Update(ms),
         currentT' < currentT
  PROVE  /\ lastActualMs' \in Lower..Upper
         /\ healthyEpochStreak + 1 >= DecayEpochThreshold
<1>1. DecayLowers
  BY DEF Sound
<1>2. InBounds /\ currentT \in Nat /\ healthyEpochStreak \in 0..MaxU32
  BY <1>1, BoundedIn
<1>3. ConfigAccepted /\ tBase' = tBase /\ lastActualMs' = ms
  BY DEF Update
<1>4. ~TooFast
  <2>1. currentT <= Raised /\ Raised \in tBase..TMax
    BY <1>2, <1>3, RaiseDoesNotLower, RaiseInBounds
  <2> QED BY <1>2, <2>1, Constants DEF TooFast, InBounds
<1>5. ~TooSlow
  BY <1>2 DEF TooSlow
<1>6. ms \in Lower..Upper /\ Healthy
  BY <1>4, <1>5 DEF Update
<1> QED BY <1>1, <1>3, <1>6, HealthyStep

(* t stays between t_base and t_max in every accepted configuration whose  *)
(* decay does not raise; nothing is asked of alpha or of the cap.          *)
THEOREM DelayStaysBounded ==
  ASSUME DecayLowers
  PROVE  Spec => []DelayBounded
<1>1. Init => DelayBounded
  BY InitBounded
<1>2. DelayBounded /\ [Next]_vars => DelayBounded'
  <2>1. DelayBounded /\ Next => DelayBounded'
    BY UpdateKeepsBounds DEF Next
  <2>2. DelayBounded /\ UNCHANGED vars => DelayBounded'
    BY DEF vars, DelayBounded
  <2> QED BY <2>1, <2>2
<1> QED BY <1>1, <1>2, PTL DEF Spec

(* t falls only at the end of a healthy streak, saturation and truncation  *)
(* included, if in addition alpha is at least 1 and t_max at most the      *)
(* largest u64 over alpha_den (update checks neither).                     *)
THEOREM DelayFallsOnlyWhenHealthy ==
  ASSUME Sound
  PROVE  Spec => FallsOnlyWhenHealthy
<1>1. DelayBounded /\ [Next]_vars
        => [currentT' < currentT =>
              /\ lastActualMs' \in Lower..Upper
              /\ healthyEpochStreak + 1 >= DecayEpochThreshold]_vars
  <2> SUFFICES ASSUME DelayBounded, Next, currentT' < currentT
               PROVE  /\ lastActualMs' \in Lower..Upper
                      /\ healthyEpochStreak + 1 >= DecayEpochThreshold
    OBVIOUS
  <2> QED BY UpdateFalls DEF Next
<1>2. DecayLowers
  BY DEF Sound
<1> QED
  BY <1>1, <1>2, DelayStaysBounded, PTL DEF Spec, FallsOnlyWhenHealthy
=============================================================================
