------------------------------ MODULE FoldFacts ------------------------------
(***************************************************************************)
(* Facts about folds and about functions defined by recursion that the     *)
(* proofs of the receiver, of the relayer and of the pipeline share.  The  *)
(* induction is by a minimal counterexample.                               *)
(***************************************************************************)
EXTENDS Integers, FiniteSets, Functions, SequencesExt, FiniteSetTheorems, TLAPS

(* Induction on the subsets of a finite set: a collection of them to which *)
(* each belongs whose strict subsets do has them all.                      *)
LEMMA SubsetInduction ==
  ASSUME NEW S, IsFiniteSet(S), NEW C,
         \A s \in SUBSET S : (\A t \in SUBSET s : t # s => t \in C) => s \in C
  PROVE  SUBSET S \subseteq C
<1> SUFFICES ASSUME (SUBSET S) \ C # {} PROVE FALSE
  OBVIOUS
<1> DEFINE bad == (SUBSET S) \ C
<1>1. IsWellFoundedOn(StrictSubsetOrdering(S), SUBSET S)
  <2>1. FiniteSubsetsOf(S) = SUBSET S
    BY FS_FiniteSubsetsOfFinite
  <2>2. IsWellFoundedOn(StrictSubsetOrdering(S), FiniteSubsetsOf(S))
    BY FS_StrictSubsetOrderingWellFounded
  <2> QED BY <2>1, <2>2, Zenon
<1>2. PICK s \in bad : \A t \in bad : <<t, s>> \notin StrictSubsetOrdering(S)
  <2>1. bad \subseteq SUBSET S /\ bad # {}
    OBVIOUS
  <2> HIDE DEF bad
  <2> QED BY <1>1, <2>1, WFMin
<1>3. \A t \in SUBSET s : t # s => t \in C
  <2> SUFFICES ASSUME NEW t \in SUBSET s, t # s, t \notin C PROVE FALSE
    OBVIOUS
  <2>1. t \in bad /\ s \in SUBSET S
    OBVIOUS
  <2>2. <<t, s>> \in StrictSubsetOrdering(S)
    BY <2>1 DEF StrictSubsetOrdering
  <2> QED BY <1>2, <2>1, <2>2
<1> QED BY <1>3

-----------------------------------------------------------------------------
(* What a fold over the subsets of S does: the element picked from a       *)
(* subset is taken last.                                                   *)
FoldOf(g, s, base, pick, op) ==
  IF s = {} THEN base ELSE op[<<pick[s], g[s \ {pick[s]}]>>]

Folds(g, S, base, pick, op) ==
  \A s \in SUBSET S : g[s] = FoldOf(g, s, base, pick, op)

LEMMA FoldUnique ==
  ASSUME NEW S, IsFiniteSet(S), NEW base, NEW pick, NEW op,
         NEW A \in SUBSET S, NEW B \in SUBSET S, NEW g, NEW h,
         Folds(g, A, base, pick, op), Folds(h, B, base, pick, op),
         \A s \in SUBSET S : s # {} => pick[s] \in s
  PROVE  \A s \in SUBSET (A \cap B) : g[s] = h[s]
<1> DEFINE C == {s \in SUBSET S : s \subseteq A \cap B => g[s] = h[s]}
<1>1. ASSUME NEW s \in SUBSET S, \A t \in SUBSET s : t # s => t \in C
      PROVE  s \in C
  <2> SUFFICES ASSUME s \subseteq A \cap B PROVE g[s] = h[s]
    OBVIOUS
  <2>1. /\ g[s] = FoldOf(g, s, base, pick, op)
        /\ h[s] = FoldOf(h, s, base, pick, op)
    BY DEF Folds
  <2>2. CASE s = {}
    BY <2>1, <2>2 DEF FoldOf
  <2>3. CASE s # {}
    <3>1. s \ {pick[s]} \in C
      BY <1>1, <2>3
    <3>2. g[s \ {pick[s]}] = h[s \ {pick[s]}]
      BY <3>1
    <3> QED BY <2>1, <2>3, <3>2 DEF FoldOf
  <2> QED BY <2>2, <2>3
<1> HIDE DEF C
<1>2. SUBSET S \subseteq C
  BY <1>1, SubsetInduction
<1> QED BY <1>2 DEF C

(* A fold exists on every finite set.                                      *)
LEMMA FoldExists ==
  ASSUME NEW S, IsFiniteSet(S), NEW V, NEW base \in V, NEW pick,
         NEW op \in [S \X V -> V],
         \A s \in SUBSET S : s # {} => pick[s] \in s
  PROVE  \E g \in [SUBSET S -> V] : Folds(g, S, base, pick, op)
<1> DEFINE Best(s) == CHOOSE g \in [SUBSET s -> V] : Folds(g, s, base, pick, op)
           C == {s \in SUBSET S :
                   \E g \in [SUBSET s -> V] : Folds(g, s, base, pick, op)}
<1>1. ASSUME NEW s \in SUBSET S, \A t \in SUBSET s : t # s => t \in C
      PROVE  s \in C
  <2>1. ASSUME NEW t \in SUBSET s, t # s
        PROVE  /\ Best(t) \in [SUBSET t -> V]
               /\ Folds(Best(t), t, base, pick, op)
               /\ Best(t)[t] \in V
    <3>1. PICK g \in [SUBSET t -> V] : Folds(g, t, base, pick, op)
      BY <1>1, <2>1
    <3> DEFINE b == Best(t)
    <3>2. b \in [SUBSET t -> V] /\ Folds(b, t, base, pick, op)
      BY <3>1
    <3> HIDE DEF b
    <3>3. b[t] \in V
      BY <3>2
    <3> QED BY <3>2, <3>3 DEF b
  <2> DEFINE rest == s \ {pick[s]}
             top == IF s = {} THEN base ELSE op[<<pick[s], Best(rest)[rest]>>]
             h == [t \in SUBSET s |-> IF t = s THEN top ELSE Best(t)[t]]
  <2> HIDE DEF Best
  <2>2. top \in V
    <3>1. CASE s = {}
      BY <3>1
    <3>2. CASE s # {}
      <4>1. pick[s] \in s
        BY <3>2
      <4>2. rest \in SUBSET s /\ rest # s
        BY <4>1
      <4>3. Best(rest)[rest] \in V
        <5> HIDE DEF rest
        <5> QED BY <2>1, <4>2
      <4> QED BY <3>2, <4>1, <4>3
    <3> QED BY <3>1, <3>2
  <2>3. h \in [SUBSET s -> V]
    <3> HIDE DEF top
    <3> QED BY <2>1, <2>2
  <2>4. ASSUME NEW t \in SUBSET s
        PROVE  h[t] = FoldOf(h, t, base, pick, op)
    <3>1. CASE t = s
      <4>1. s # {} => h[rest] = Best(rest)[rest]
        BY DEF h
      <4> QED BY <3>1, <4>1 DEF FoldOf
    <3>2. CASE t # s /\ t = {}
      BY <2>1, <3>2 DEF FoldOf, Folds
    <3>3. CASE t # s /\ t # {}
      <4> DEFINE u == t \ {pick[t]}
      <4>1. u \in SUBSET t /\ u # s /\ u \in SUBSET s
        BY <3>3
      <4>2. Folds(Best(t), t, base, pick, op) /\ Folds(Best(u), u, base, pick, op)
        BY <2>1, <3>3, <4>1
      <4>3. u \in SUBSET (t \cap u)
        BY <4>1
      <4>4. Best(t)[u] = Best(u)[u]
        <5>1. t \in SUBSET S /\ u \in SUBSET S
          BY <4>1
        <5> HIDE DEF u
        <5>2. \A w \in SUBSET (t \cap u) : Best(t)[w] = Best(u)[w]
          BY <4>2, <5>1, FoldUnique
        <5> QED BY <4>3, <5>2
      <4>5. Best(t)[t] = op[<<pick[t], Best(t)[u]>>]
        BY <3>3, <4>2 DEF Folds, FoldOf
      <4>6. h[u] = Best(u)[u] /\ h[t] = Best(t)[t]
        BY <3>3, <4>1
      <4> QED BY <3>3, <4>4, <4>5, <4>6 DEF FoldOf
    <3> QED BY <3>1, <3>2, <3>3
  <2>5. Folds(h, s, base, pick, op)
    BY <2>4 DEF Folds
  <2> QED BY <2>3, <2>5
<1> HIDE DEF C
<1>2. S \in C
  BY <1>1, SubsetInduction
<1> QED BY <1>2 DEF C

(* The values of a fold stay where the operation keeps them.               *)
LEMMA FoldStays ==
  ASSUME NEW S, IsFiniteSet(S), NEW V, NEW base \in V, NEW pick,
         NEW op \in [S \X V -> V],
         \A s \in SUBSET S : s # {} => pick[s] \in s,
         NEW g, Folds(g, S, base, pick, op)
  PROVE  \A s \in SUBSET S : g[s] \in V
<1>1. PICK h \in [SUBSET S -> V] : Folds(h, S, base, pick, op)
  BY FoldExists
<1>2. \A s \in SUBSET (S \cap S) : g[s] = h[s]
  BY <1>1, FoldUnique
<1> QED BY <1>1, <1>2

-----------------------------------------------------------------------------
(* Folds of a sequence, which pick its last position. *)

LEMMA MaxInSet ==
  ASSUME NEW S, IsFiniteSet(S), S \subseteq Int, S # {}
  PROVE  Max(S) \in S /\ \A x \in S : x <= Max(S)
<1> DEFINE C == {s \in SUBSET S : s # {} => \E m \in s : \A x \in s : x <= m}
<1>1. ASSUME NEW s \in SUBSET S, \A t \in SUBSET s : t # s => t \in C
      PROVE  s \in C
  <2> SUFFICES ASSUME s # {} PROVE \E m \in s : \A x \in s : x <= m
    OBVIOUS
  <2>1. PICK z \in s : TRUE
    OBVIOUS
  <2>2. s \ {z} \in C
    BY <1>1, <2>1
  <2>3. CASE s \ {z} = {}
    BY <2>1, <2>3
  <2>4. CASE s \ {z} # {}
    <3>1. PICK m \in s \ {z} : \A x \in s \ {z} : x <= m
      BY <2>2, <2>4
    <3> QED BY <2>1, <3>1
  <2> QED BY <2>3, <2>4
<1> HIDE DEF C
<1>2. S \in C
  BY <1>1, SubsetInduction
<1>3. \E m \in S : \A x \in S : x <= m
  BY <1>2 DEF C
<1> QED BY <1>3 DEF Max

LeftFolds(g, S, base, op) ==
  \A s \in SUBSET S :
    /\ s # {} => Max(s) \in s
    /\ g[s] = IF s = {} THEN base ELSE op[<<Max(s), g[s \ {Max(s)}]>>]

(* A step that is closed on V can be folded over any finite set of         *)
(* positions.                                                              *)
LEMMA LeftFoldExists ==
  ASSUME NEW S, IsFiniteSet(S), S \subseteq Int, NEW V, NEW base \in V,
         NEW op \in [S \X V -> V]
  PROVE  \E g \in [SUBSET S -> V] : LeftFolds(g, S, base, op)
<1> DEFINE pick == [s \in SUBSET S |-> Max(s)]
<1>1. ASSUME NEW s \in SUBSET S, s # {}
      PROVE  Max(s) \in s
  BY <1>1, MaxInSet, FS_Subset
<1>2. \A s \in SUBSET S : pick[s] = Max(s) /\ (s # {} => pick[s] \in s)
  BY <1>1
<1> HIDE DEF pick
<1>3. PICK g \in [SUBSET S -> V] : Folds(g, S, base, pick, op)
  BY <1>2, FoldExists
<1>4. ASSUME NEW s \in SUBSET S
      PROVE  g[s] = IF s = {} THEN base ELSE op[<<Max(s), g[s \ {Max(s)}]>>]
  BY <1>2, <1>3 DEF Folds, FoldOf
<1> QED BY <1>1, <1>4 DEF LeftFolds

\* h takes the steps of op as long as it stays in V.
LeftFollows(h, S, V, base, op) ==
  \A s \in SUBSET S :
    /\ s = {} => h[s] = base
    /\ s # {} /\ h[s \ {Max(s)}] \in V => h[s] = op[<<Max(s), h[s \ {Max(s)}]>>]

LEMMA LeftFoldStays ==
  ASSUME NEW S, IsFiniteSet(S), S \subseteq Int, NEW V, NEW base \in V,
         NEW op \in [S \X V -> V], NEW h, LeftFollows(h, S, V, base, op)
  PROVE  \A s \in SUBSET S : h[s] \in V
<1> DEFINE C == {s \in SUBSET S : h[s] \in V}
<1>1. ASSUME NEW s \in SUBSET S, \A t \in SUBSET s : t # s => t \in C
      PROVE  s \in C
  <2>1. CASE s = {}
    BY <2>1 DEF LeftFollows
  <2>2. CASE s # {}
    <3>1. Max(s) \in s /\ s \ {Max(s)} \in C
      BY <1>1, <2>2, MaxInSet, FS_Subset
    <3> QED BY <2>2, <3>1 DEF LeftFollows
  <2> QED BY <2>1, <2>2
<1> HIDE DEF C
<1>2. SUBSET S \subseteq C
  BY <1>1, SubsetInduction
<1> QED BY <1>2 DEF C

(* A set that contains 0 and with every number below n its successor       *)
(* contains all the numbers to n.                                          *)
LEMMA IntervalInduction ==
  ASSUME NEW n \in Nat, NEW C, 0 \in C, \A i \in 0..(n - 1) : i \in C => i + 1 \in C
  PROVE  0..n \subseteq C
<1> DEFINE S == 0..n
           K == {s \in SUBSET S : \A i \in 0..n : s = 0..i => i \in C}
<1>1. ASSUME NEW s \in SUBSET S, \A t \in SUBSET s : t # s => t \in K
      PROVE  s \in K
  <2> SUFFICES ASSUME NEW i \in 0..n, s = 0..i PROVE i \in C
    OBVIOUS
  <2>1. CASE i = 0
    BY <2>1
  <2>2. CASE i # 0
    <3>1. i - 1 \in 0..(n - 1) /\ i - 1 \in 0..n /\ (i - 1) + 1 = i
      BY <2>2
    <3>2. 0..(i - 1) \in SUBSET s /\ 0..(i - 1) # s
      BY <2>2
    <3>3. 0..(i - 1) \in K
      BY <1>1, <3>2
    <3> QED BY <3>1, <3>3
  <2> QED BY <2>1, <2>2
<1>2. IsFiniteSet(S)
  BY FS_Interval
<1> HIDE DEF S, K
<1>3. SUBSET S \subseteq K
  BY <1>1, <1>2, SubsetInduction
<1>4. ASSUME NEW i \in 0..n PROVE i \in C
  <2>1. 0..i \in SUBSET S
    BY DEF S
  <2>2. 0..i \in K
    BY <1>3, <2>1
  <2> QED BY <2>2 DEF K
<1> QED BY <1>4

\* op makes of a position in D and a value in V one in V.
LeftClosed(D, V, base, op) == base \in V /\ op \in [D \X V -> V]

\* v goes through n steps of op, each from the value before.
LeftSteps(v, n, V, base, op) ==
  /\ v \in [0..n -> V] /\ v[0] = base
  /\ \A i \in 0..(n - 1) : v[i + 1] = op[<<i + 1, v[i]>>]

(* A fold over n positions ends with what n steps make of its base.        *)
LEMMA LeftPrefixes ==
  ASSUME NEW n \in Nat, NEW V, NEW base, NEW op, LeftClosed(1..n, V, base, op),
         NEW h, LeftFollows(h, 1..n, V, base, op)
  PROVE  \E v : LeftSteps(v, n, V, base, op) /\ h[1..n] = v[n]
<1> DEFINE v == [i \in 0..n |-> h[1..i]]
<1>1. \A s \in SUBSET (1..n) : h[s] \in V
  <2>1. IsFiniteSet(1..n)
    BY FS_Interval
  <2>2. 1..n \subseteq Int
    OBVIOUS
  <2>3. base \in V /\ op \in [(1..n) \X V -> V]
    BY DEF LeftClosed
  <2> QED BY <2>1, <2>2, <2>3, LeftFoldStays
<1>2. v \in [0..n -> V]
  BY <1>1
<1>3. v[0] = base /\ h[1..n] = v[n]
  <2>1. 1..0 = {} /\ 1..0 \in SUBSET (1..n)
    OBVIOUS
  <2>2. h[1..0] = base
    BY <2>1 DEF LeftFollows
  <2> QED BY <2>2
<1>4. ASSUME NEW i \in 0..(n - 1)
      PROVE  v[i + 1] = op[<<i + 1, v[i]>>]
  <2> DEFINE s == 1..(i + 1)
  <2>1. s \in SUBSET (1..n) /\ s # {} /\ s \ {i + 1} = 1..i
    OBVIOUS
  <2>2. IsFiniteSet(s)
    BY FS_Interval
  <2>3. s \subseteq Int
    OBVIOUS
  <2>4. Max(s) \in s /\ \A x \in s : x <= Max(s)
    <3> HIDE DEF s
    <3> QED BY <2>1, <2>2, <2>3, MaxInSet
  <2>5. Max(s) = i + 1
    BY <2>4
  <2>6. h[1..i] \in V
    <3>1. 1..i \in SUBSET (1..n)
      OBVIOUS
    <3> QED BY <1>1, <3>1
  <2> HIDE DEF s
  <2>7. h[s] = op[<<i + 1, h[1..i]>>]
    BY <2>1, <2>5, <2>6 DEF LeftFollows
  <2>8. v[i] = h[1..i] /\ v[i + 1] = h[1..(i + 1)]
    OBVIOUS
  <2> HIDE DEF v
  <2> QED BY <2>7, <2>8 DEF s
<1>5. LeftSteps(v, n, V, base, op)
  <2> HIDE DEF v
  <2> QED BY <1>2, <1>3, <1>4 DEF LeftSteps
<1> QED BY <1>3, <1>5

-----------------------------------------------------------------------------
(* Sequences that a fold picks out of another one. *)

Rises(pos) == \A i, j \in DOMAIN pos : i < j => pos[i] < pos[j]

\* out has the values val of the positions in keep, in their order.
Kept(out, n, keep, val) ==
  \E pos \in [1..Len(out) -> 1..n] :
    /\ Rises(pos)
    /\ \A i \in 1..Len(out) : pos[i] \in keep /\ out[i] = val[pos[i]]
    /\ \A k \in keep : \E i \in 1..Len(out) : pos[i] = k

KeepsOrDrops(op, n, V, keep, val) ==
  \A i \in 1..n, v \in V :
    op[<<i, v>>] = IF i \in keep THEN Append(v, val[i]) ELSE v

LEMMA KeptNothing ==
  ASSUME NEW n \in Nat, NEW val
  PROVE  Kept(<< >>, n, {}, val)
<1> DEFINE pos == [i \in 1..0 |-> 1]
<1>1. Len(<< >>) = 0 /\ 1..0 = {}
  OBVIOUS
<1>2. pos \in [1..Len(<< >>) -> 1..n]
  BY <1>1
<1>3. Rises(pos)
  BY <1>1 DEF Rises
<1> HIDE DEF pos
<1> QED BY <1>1, <1>2, <1>3 DEF Kept

LEMMA KeptLonger ==
  ASSUME NEW S, NEW v \in Seq(S), NEW n \in Nat, NEW keep, NEW val, Kept(v, n, keep, val)
  PROVE  Kept(v, n + 1, keep, val)
<1>1. 1..n \subseteq 1..(n + 1)
  OBVIOUS
<1>2. \A pos \in [1..Len(v) -> 1..n] : pos \in [1..Len(v) -> 1..(n + 1)]
  BY <1>1
<1> QED BY <1>2 DEF Kept

(* One step of such a fold.                                                *)
LEMMA KeptStep ==
  ASSUME NEW S, NEW v \in Seq(S), NEW n \in Nat, NEW keep, NEW val,
         Kept(v, n, keep \cap (1..n), val), val[n + 1] \in S
  PROVE  /\ n + 1 \in keep =>
              Kept(Append(v, val[n + 1]), n + 1, keep \cap (1..(n + 1)), val)
         /\ n + 1 \notin keep => Kept(v, n + 1, keep \cap (1..(n + 1)), val)
<1> DEFINE m == Len(v)
           Here == keep \cap (1..n)
           Next1 == keep \cap (1..(n + 1))
<1>0. m \in Nat
  OBVIOUS
<1>1. PICK pos \in [1..m -> 1..n] :
        /\ Rises(pos)
        /\ \A i \in 1..m : pos[i] \in Here /\ v[i] = val[pos[i]]
        /\ \A k \in Here : \E i \in 1..m : pos[i] = k
  BY DEF Kept
<1>2. ASSUME n + 1 \notin keep
      PROVE  Kept(v, n + 1, Next1, val)
  <2>1. Next1 = Here
    BY <1>2
  <2>2. pos \in [1..m -> 1..(n + 1)]
    BY <1>1
  <2> HIDE DEF Next1, Here
  <2> QED BY <1>1, <2>1, <2>2 DEF Kept
<1>3. ASSUME n + 1 \in keep
      PROVE  Kept(Append(v, val[n + 1]), n + 1, Next1, val)
  <2> DEFINE w == Append(v, val[n + 1])
             far == [i \in 1..(m + 1) |-> IF i \in 1..m THEN pos[i] ELSE n + 1]
  <2>1. Len(w) = m + 1 /\ w[m + 1] = val[n + 1] /\ \A i \in 1..m : w[i] = v[i]
    OBVIOUS
  <2>2. far \in [1..(m + 1) -> 1..(n + 1)]
    BY <1>1
  <2>3. /\ \A i \in 1..m : far[i] = pos[i] /\ pos[i] \in 1..n
        /\ far[m + 1] = n + 1
        /\ \A i \in 1..(m + 1) : i \in 1..m \/ i = m + 1
        /\ DOMAIN far = 1..(m + 1) /\ DOMAIN pos = 1..m
        /\ m + 1 \in 1..(m + 1)
    BY <1>0, <1>1
  <2> HIDE DEF w, far, m
  <2>4. Rises(far)
    <3> SUFFICES ASSUME NEW i \in 1..(m + 1), NEW j \in 1..(m + 1), i < j
                 PROVE  far[i] < far[j]
      BY <2>3 DEF Rises
    <3>1. i \in 1..m
      BY <1>0
    <3>2. CASE j = m + 1
      BY <2>3, <3>1, <3>2
    <3>3. CASE j # m + 1
      <4>1. j \in 1..m
        BY <2>3, <3>3
      <4>2. pos[i] < pos[j]
        BY <1>1, <2>3, <3>1, <4>1 DEF Rises
      <4> QED BY <2>3, <3>1, <4>1, <4>2
    <3> QED BY <3>2, <3>3
  <2>5. /\ \A k \in Here : k \in Next1
        /\ n + 1 \in Next1
        /\ \A k \in Next1 : k \in Here \/ k = n + 1
    BY <1>3
  <2> HIDE DEF Here, Next1
  <2>6. \A i \in 1..(m + 1) : far[i] \in Next1 /\ w[i] = val[far[i]]
    BY <1>1, <2>1, <2>3, <2>5
  <2>7. \A k \in Next1 : \E i \in 1..(m + 1) : far[i] = k
    <3> SUFFICES ASSUME NEW k \in Next1 PROVE \E i \in 1..(m + 1) : far[i] = k
      OBVIOUS
    <3>1. CASE k = n + 1
      BY <2>3, <3>1
    <3>2. CASE k \in Here
      <4>1. PICK i \in 1..m : pos[i] = k
        BY <1>1, <3>2
      <4>2. i \in 1..(m + 1)
        BY <1>0
      <4> QED BY <2>3, <4>1, <4>2
    <3> QED BY <2>5, <3>1, <3>2
  <2> DEFINE length == Len(w)
  <2>8. /\ far \in [1..length -> 1..(n + 1)]
        /\ \A i \in 1..length : far[i] \in Next1 /\ w[i] = val[far[i]]
        /\ \A k \in Next1 : \E i \in 1..length : far[i] = k
    <3>1. length = m + 1
      BY <2>1
    <3> HIDE DEF length
    <3> QED BY <2>2, <2>6, <2>7, <3>1
  <2>9. Kept(w, n + 1, Next1, val)
    BY <2>4, <2>8 DEF Kept
  <2> QED BY <2>9 DEF w
<1> QED BY <1>2, <1>3

(* A fold that keeps or drops each value leaves those kept.                *)
LEMMA KeptPrefixes ==
  ASSUME NEW S, NEW n \in Nat, NEW keep \in SUBSET (1..n), NEW val, NEW op, NEW v,
         \A i \in 1..n : val[i] \in S,
         LeftSteps(v, n, Seq(S), << >>, op),
         KeepsOrDrops(op, n, Seq(S), keep, val)
  PROVE  Kept(v[n], n, keep, val)
<1> DEFINE C == {i \in 0..n : Kept(v[i], i, keep \cap (1..i), val)}
<1>1. 0 \in C
  <2>1. v[0] = << >> /\ 0 \in Nat /\ keep \cap (1..0) = {}
    BY DEF LeftSteps
  <2> HIDE DEF LeftSteps
  <2>2. Kept(<< >>, 0, {}, val)
    BY KeptNothing
  <2> QED BY <2>1, <2>2
<1>2. ASSUME NEW i \in 0..(n - 1), i \in C PROVE i + 1 \in C
  <2>1. i + 1 \in 1..n /\ i \in 0..n /\ i + 1 \in 0..n /\ i \in Nat
    OBVIOUS
  <2>2. v[i] \in Seq(S) /\ v[i + 1] = op[<<i + 1, v[i]>>]
    BY <2>1 DEF LeftSteps
  <2>3. v[i + 1] = IF i + 1 \in keep THEN Append(v[i], val[i + 1]) ELSE v[i]
    BY <2>1, <2>2 DEF KeepsOrDrops
  <2>4. Kept(v[i], i, keep \cap (1..i), val) /\ val[i + 1] \in S
    BY <1>2, <2>1
  <2> DEFINE w == v[i]
             z == v[i + 1]
  <2>5. /\ w \in Seq(S) /\ i \in Nat /\ val[i + 1] \in S
        /\ Kept(w, i, keep \cap (1..i), val)
        /\ z = IF i + 1 \in keep THEN Append(w, val[i + 1]) ELSE w
    BY <2>1, <2>2, <2>3, <2>4
  <2> HIDE DEF w, z
  <2>6. /\ i + 1 \in keep => Kept(Append(w, val[i + 1]), i + 1, keep \cap (1..(i + 1)), val)
        /\ i + 1 \notin keep => Kept(w, i + 1, keep \cap (1..(i + 1)), val)
    BY <2>5, KeptStep
  <2>7. Kept(z, i + 1, keep \cap (1..(i + 1)), val)
    BY <2>5, <2>6
  <2> QED BY <2>1, <2>7 DEF z
<1> HIDE DEF C
<1>3. 0..n \subseteq C
  BY <1>1, <1>2, IntervalInduction
<1>4. n \in C
  BY <1>3
<1>5. keep \cap (1..n) = keep
  OBVIOUS
<1> QED BY <1>4, <1>5 DEF C

\* g[mid[k]] is kept unless it is nothing.
Passes(more, img, mid, g, nothing) ==
  /\ more = {k \in 1..Len(mid) : g[mid[k]] # nothing}
  /\ \A k \in 1..Len(mid) : img[k] = g[mid[k]]

(* What is picked from what was picked before.                             *)
LEMMA KeptTwice ==
  ASSUME NEW n \in Nat, NEW mid, NEW out, NEW keep \in SUBSET (1..n), NEW val,
         NEW more, NEW img, NEW g, NEW nothing, NEW both, NEW res,
         Len(mid) \in Nat, Len(out) \in Nat,
         Kept(mid, n, keep, val), Kept(out, Len(mid), more, img),
         Passes(more, img, mid, g, nothing),
         both = {i \in keep : g[val[i]] # nothing},
         \A i \in 1..n : res[i] = g[val[i]]
  PROVE  Kept(out, n, both, res)
<1> DEFINE m == Len(mid)
           l == Len(out)
<1>1. PICK p \in [1..m -> 1..n] :
        /\ Rises(p)
        /\ \A i \in 1..m : p[i] \in keep /\ mid[i] = val[p[i]]
        /\ \A k \in keep : \E i \in 1..m : p[i] = k
  BY DEF Kept
<1>2. PICK q \in [1..l -> 1..m] :
        /\ Rises(q)
        /\ \A i \in 1..l : q[i] \in more /\ out[i] = img[q[i]]
        /\ \A k \in more : \E i \in 1..l : q[i] = k
  BY DEF Kept
<1>3. /\ m \in Nat /\ l \in Nat
      /\ more = {k \in 1..m : g[mid[k]] # nothing}
      /\ \A k \in 1..m : img[k] = g[mid[k]]
  BY DEF Passes
<1> DEFINE pos == [i \in 1..l |-> p[q[i]]]
<1>4. /\ pos \in [1..l -> 1..n]
      /\ \A i \in 1..l : pos[i] = p[q[i]] /\ q[i] \in 1..m /\ p[q[i]] \in 1..n
  BY <1>1, <1>2
<1> HIDE DEF pos, m, l
<1>5. Rises(pos)
  <2>1. DOMAIN pos = 1..l /\ DOMAIN q = 1..l /\ DOMAIN p = 1..m
    BY <1>1, <1>2, <1>4
  <2> SUFFICES ASSUME NEW i \in 1..l, NEW j \in 1..l, i < j PROVE pos[i] < pos[j]
    BY <2>1 DEF Rises
  <2>2. q[i] < q[j]
    BY <1>2, <2>1 DEF Rises
  <2>3. p[q[i]] < p[q[j]]
    BY <1>1, <1>4, <2>1, <2>2 DEF Rises
  <2> QED BY <1>4, <2>3
<1>6. \A i \in 1..l : pos[i] \in both /\ out[i] = res[pos[i]]
  <2> SUFFICES ASSUME NEW i \in 1..l
               PROVE  pos[i] \in both /\ out[i] = res[pos[i]]
    OBVIOUS
  <2> DEFINE k == q[i]
  <2>1. k \in more /\ k \in 1..m /\ out[i] = img[k] /\ pos[i] = p[k]
    BY <1>2, <1>4
  <2>2. img[k] = g[mid[k]] /\ g[mid[k]] # nothing /\ mid[k] = val[p[k]] /\ p[k] \in keep
    BY <1>1, <1>3, <2>1
  <2>3. res[p[k]] = g[val[p[k]]]
    BY <1>4
  <2> QED BY <2>1, <2>2, <2>3
<1>7. \A k \in both : \E i \in 1..l : pos[i] = k
  <2> SUFFICES ASSUME NEW k \in keep, g[val[k]] # nothing
               PROVE  \E i \in 1..l : pos[i] = k
    OBVIOUS
  <2>1. PICK j \in 1..m : p[j] = k
    BY <1>1
  <2>2. j \in more
    BY <1>1, <1>3, <2>1
  <2>3. PICK i \in 1..l : q[i] = j
    BY <1>2, <2>2
  <2> QED BY <1>4, <2>1, <2>3
<1> QED BY <1>4, <1>5, <1>6, <1>7 DEF Kept, l

Meets(pos, m, n) == \A k \in 1..n : \E i \in 1..m : pos[i] = k

(* A rising sequence of positions that meets all of them is the identity.  *)
LEMMA RisesOnto ==
  ASSUME NEW m \in Nat, NEW n \in Nat, NEW pos \in [1..m -> 1..n], Rises(pos),
         Meets(pos, m, n)
  PROVE  m = n /\ \A i \in 1..n : pos[i] = i
<1> DEFINE C == {i \in 0..n : i <= m /\ \A j \in 1..i : pos[j] = j}
<1>1. 0 \in C
  OBVIOUS
<1>2. ASSUME NEW i \in 0..(n - 1), i \in C PROVE i + 1 \in C
  <2>1. i <= m /\ (\A j \in 1..i : pos[j] = j) /\ i + 1 \in 1..n
    BY <1>2
  <2>2. PICK k \in 1..m : pos[k] = i + 1
    BY <2>1 DEF Meets
  <2>3. k > i
    BY <2>1, <2>2
  <2>4. i + 1 \in 1..m /\ pos[i + 1] \in 1..n
    BY <2>2, <2>3
  <2>5. i + 1 < k => pos[i + 1] < pos[k]
    BY <2>4 DEF Rises
  <2>6. i \in 1..m => pos[i] < pos[i + 1]
    BY <2>4 DEF Rises
  <2>7. i # 0 => i \in 1..m /\ pos[i] = i
    BY <2>1
  <2>8. pos[i + 1] = i + 1
    BY <2>2, <2>3, <2>4, <2>5, <2>6, <2>7
  <2> QED BY <2>1, <2>4, <2>8
<1> HIDE DEF C
<1>3. 0..n \subseteq C
  BY <1>1, <1>2, IntervalInduction
<1>4. n <= m /\ \A i \in 1..n : pos[i] = i
  <2>1. n \in C
    BY <1>3
  <2> QED BY <2>1 DEF C
<1>5. ASSUME m > n PROVE FALSE
  <2>1. n + 1 \in 1..m /\ pos[n + 1] \in 1..n
    BY <1>5
  <2>2. n \in 1..m => pos[n] < pos[n + 1]
    BY <2>1 DEF Rises
  <2> QED BY <1>4, <2>1, <2>2
<1> QED BY <1>4, <1>5

(* A fold that keeps every value leaves them all.                          *)
LEMMA KeptAll ==
  ASSUME NEW S, NEW all \in Seq(S), NEW out \in Seq(S),
         Kept(out, Len(all), 1..Len(all), all)
  PROVE  out = all
<1> DEFINE m == Len(out)
           n == Len(all)
<1>1. m \in Nat /\ n \in Nat /\ out \in [1..m -> S] /\ all \in [1..n -> S]
  OBVIOUS
<1>2. PICK pos \in [1..m -> 1..n] :
        /\ Rises(pos)
        /\ \A i \in 1..m : pos[i] \in 1..n /\ out[i] = all[pos[i]]
        /\ \A k \in 1..n : \E i \in 1..m : pos[i] = k
  BY DEF Kept
<1> HIDE DEF m, n
<1>3. m = n /\ \A i \in 1..n : pos[i] = i
  <2>1. Meets(pos, m, n)
    BY <1>2 DEF Meets
  <2> QED BY <1>1, <1>2, <2>1, RisesOnto
<1> QED BY <1>1, <1>2, <1>3

-----------------------------------------------------------------------------
(* Sums. *)

\* The function SumFunctionOnSet chooses.
SumsOf(f, S) ==
  CHOOSE g : g = [s \in SUBSET S |->
                    IF s = {} THEN 0
                    ELSE LET x == CHOOSE x \in s : TRUE IN f[x] + g[s \ {x}]]

LEMMA SumDef ==
  ASSUME NEW f, NEW S
  PROVE  SumFunctionOnSet(f, S) = SumsOf(f, S)[S]
  BY DEF SumFunctionOnSet, FoldFunctionOnSet, MapThenFoldSet, SumsOf

First(s) == CHOOSE x \in s : TRUE

LEMMA SumsRecursive ==
  ASSUME NEW S, IsFiniteSet(S), NEW f, \A x \in S : f[x] \in Int
  PROVE  /\ SumsOf(f, S) \in [SUBSET S -> Int]
         /\ \A s \in SUBSET S :
              SumsOf(f, S)[s] = IF s = {} THEN 0
                                ELSE f[First(s)] + SumsOf(f, S)[s \ {First(s)}]
<1> DEFINE pick == [s \in SUBSET S |-> First(s)]
           op == [p \in S \X Int |-> f[p[1]] + p[2]]
           Step(g) == [s \in SUBSET S |->
                         IF s = {} THEN 0
                         ELSE LET x == CHOOSE x \in s : TRUE IN f[x] + g[s \ {x}]]
<1>1. \A s \in SUBSET S : s # {} => First(s) \in s /\ pick[s] = First(s)
  BY DEF First
<1>2. op \in [S \X Int -> Int] /\ \A x \in S, v \in Int : op[<<x, v>>] = f[x] + v
  OBVIOUS
<1>3. PICK g \in [SUBSET S -> Int] : Folds(g, S, 0, pick, op)
  <2>1. /\ \A s \in SUBSET S : s # {} => pick[s] \in s
        /\ op \in [S \X Int -> Int]
    BY <1>1, <1>2
  <2> HIDE DEF pick, op
  <2> QED BY <2>1, FoldExists, 0 \in Int
<1>4. ASSUME NEW s \in SUBSET S
      PROVE  g[s] = IF s = {} THEN 0 ELSE f[First(s)] + g[s \ {First(s)}]
  <2> HIDE DEF pick, op
  <2>1. CASE s = {}
    BY <1>3, <2>1 DEF Folds, FoldOf
  <2>2. CASE s # {}
    <3>1. First(s) \in S /\ s \ {First(s)} \in SUBSET S
      BY <1>1, <2>2
    <3>2. g[s \ {First(s)}] \in Int
      BY <1>3, <3>1
    <3>3. g[s] = op[<<First(s), g[s \ {First(s)}]>>]
      BY <1>1, <1>3, <2>2 DEF Folds, FoldOf
    <3> QED BY <1>2, <2>2, <3>1, <3>2, <3>3
  <2> QED BY <2>1, <2>2
<1>5. g = Step(g)
  BY <1>3, <1>4 DEF First
<1>6. SumsOf(f, S) = Step(SumsOf(f, S))
  <2> HIDE DEF Step
  <2>1. SumsOf(f, S) = CHOOSE h : h = Step(h)
    BY DEF SumsOf, Step
  <2> QED BY <1>5, <2>1
<1>7. \A s \in SUBSET S :
        SumsOf(f, S)[s] = IF s = {} THEN 0
                          ELSE f[First(s)] + SumsOf(f, S)[s \ {First(s)}]
  BY <1>6 DEF First
<1> DEFINE C == {s \in SUBSET S : SumsOf(f, S)[s] = g[s]}
<1>8. ASSUME NEW s \in SUBSET S, \A t \in SUBSET s : t # s => t \in C
      PROVE  s \in C
  <2>1. CASE s = {}
    BY <1>4, <1>7, <2>1
  <2>2. CASE s # {}
    <3>1. s \ {First(s)} \in SUBSET s /\ s \ {First(s)} # s
      BY <1>1, <2>2
    <3>2. s \ {First(s)} \in C
      BY <1>8, <3>1
    <3> QED BY <1>4, <1>7, <2>2, <3>2
  <2> QED BY <2>1, <2>2
<1>9. \A s \in SUBSET S : SumsOf(f, S)[s] = g[s]
  <2> HIDE DEF C
  <2>1. SUBSET S \subseteq C
    BY <1>8, SubsetInduction
  <2> QED BY <2>1 DEF C
<1>10. SumsOf(f, S) \in [SUBSET S -> Int]
  <2>1. SumsOf(f, S) = [s \in SUBSET S |-> SumsOf(f, S)[s]]
    BY <1>6
  <2>2. \A s \in SUBSET S : SumsOf(f, S)[s] \in Int
    BY <1>3, <1>9
  <2> QED BY <2>1, <2>2, Zenon
<1> QED BY <1>7, <1>10

\* The sums over the subsets of S, whichever superset they are taken in.
LEMMA SumOfSubset ==
  ASSUME NEW S, IsFiniteSet(S), NEW f, \A x \in S : f[x] \in Int, NEW T \in SUBSET S
  PROVE  SumFunctionOnSet(f, T) = SumsOf(f, S)[T]
<1> DEFINE C == {s \in SUBSET T : SumsOf(f, T)[s] = SumsOf(f, S)[s]}
<1>1. IsFiniteSet(T) /\ \A x \in T : f[x] \in Int
  BY FS_Subset
<1>2. ASSUME NEW s \in SUBSET T, \A t \in SUBSET s : t # s => t \in C
      PROVE  s \in C
  <2>1. /\ SumsOf(f, T)[s] = IF s = {} THEN 0
                             ELSE f[First(s)] + SumsOf(f, T)[s \ {First(s)}]
        /\ SumsOf(f, S)[s] = IF s = {} THEN 0
                             ELSE f[First(s)] + SumsOf(f, S)[s \ {First(s)}]
    BY <1>1, SumsRecursive
  <2>2. CASE s = {}
    BY <2>1, <2>2
  <2>3. CASE s # {}
    <3>1. s \ {First(s)} \in SUBSET s /\ s \ {First(s)} # s
      BY <2>3 DEF First
    <3>2. s \ {First(s)} \in C
      BY <1>2, <3>1
    <3> QED BY <2>1, <2>3, <3>2
  <2> QED BY <2>2, <2>3
<1> HIDE DEF C
<1>3. T \in C
  BY <1>1, <1>2, SubsetInduction
<1> QED BY <1>3, SumDef DEF C

LEMMA SumStep ==
  ASSUME NEW S, IsFiniteSet(S), NEW f, \A x \in S : f[x] \in Int
  PROVE  /\ SumFunctionOnSet(f, S) \in Int
         /\ S = {} => SumFunctionOnSet(f, S) = 0
         /\ S # {} => /\ First(S) \in S
                      /\ SumFunctionOnSet(f, S)
                           = f[First(S)] + SumFunctionOnSet(f, S \ {First(S)})
<1>1. /\ SumsOf(f, S)[S] \in Int
      /\ SumsOf(f, S)[S] = IF S = {} THEN 0
                           ELSE f[First(S)] + SumsOf(f, S)[S \ {First(S)}]
  <2>1. S \in SUBSET S
    OBVIOUS
  <2>2. SumsOf(f, S) \in [SUBSET S -> Int]
    BY SumsRecursive
  <2>3. SumsOf(f, S)[S] \in Int
    BY <2>1, <2>2
  <2> QED BY <2>1, <2>3, SumsRecursive
<1>2. /\ SumFunctionOnSet(f, S) = SumsOf(f, S)[S]
      /\ SumFunctionOnSet(f, S \ {First(S)}) = SumsOf(f, S)[S \ {First(S)}]
  BY SumOfSubset
<1>3. S # {} => First(S) \in S
  BY DEF First
<1> QED BY <1>1, <1>2, <1>3

(* The order of the summands does not matter: any of them can be split off.*)
LEMMA SumSplit ==
  ASSUME NEW S, IsFiniteSet(S), NEW f, \A x \in S : f[x] \in Int, NEW z \in S
  PROVE  SumFunctionOnSet(f, S) = f[z] + SumFunctionOnSet(f, S \ {z})
<1> DEFINE Sum(s) == SumFunctionOnSet(f, s)
           C == {s \in SUBSET S : \A x \in s : Sum(s) = f[x] + Sum(s \ {x})}
<1>1. ASSUME NEW s \in SUBSET S
      PROVE  /\ IsFiniteSet(s) /\ Sum(s) \in Int
             /\ s # {} => /\ First(s) \in s
                          /\ Sum(s) = f[First(s)] + Sum(s \ {First(s)})
  <2>1. IsFiniteSet(s) /\ \A x \in s : f[x] \in Int
    BY FS_Subset
  <2> QED BY <2>1, SumStep
<1> HIDE DEF Sum
<1>2. ASSUME NEW s \in SUBSET S, \A t \in SUBSET s : t # s => t \in C
      PROVE  s \in C
  <2> SUFFICES ASSUME NEW x \in s PROVE Sum(s) = f[x] + Sum(s \ {x})
    OBVIOUS
  <2> DEFINE y == First(s)
             u == (s \ {x}) \ {y}
  <2>1. y \in s /\ Sum(s) = f[y] + Sum(s \ {y})
    BY <1>1
  <2>2. CASE x = y
    BY <2>1, <2>2
  <2>3. CASE x # y
    <3>1. /\ s \ {x} \in C /\ s \ {y} \in C
          /\ y \in s \ {x} /\ x \in s \ {y}
      BY <1>2, <2>1, <2>3
    <3>2. u = (s \ {y}) \ {x} /\ u \in SUBSET S
      OBVIOUS
    <3> HIDE DEF y, u
    <3>3. Sum(s \ {x}) = f[y] + Sum(u)
      BY <3>1 DEF u
    <3>4. Sum(s \ {y}) = f[x] + Sum(u)
      BY <3>1, <3>2
    <3>5. f[x] \in Int /\ f[y] \in Int /\ Sum(u) \in Int
      BY <1>1, <2>1, <3>2
    <3> QED BY <2>1, <3>3, <3>4, <3>5
  <2> QED BY <2>2, <2>3
<1> HIDE DEF C
<1>3. S \in C
  BY <1>2, SubsetInduction
<1>4. Sum(S) = f[z] + Sum(S \ {z})
  BY <1>3 DEF C
<1> QED BY <1>4 DEF Sum

(* A sum depends on the summands alone.                                    *)
LEMMA SumSame ==
  ASSUME NEW S, IsFiniteSet(S), NEW f, NEW g,
         \A x \in S : f[x] \in Int /\ g[x] = f[x]
  PROVE  SumFunctionOnSet(g, S) = SumFunctionOnSet(f, S)
<1> DEFINE C == {s \in SUBSET S : SumFunctionOnSet(g, s) = SumFunctionOnSet(f, s)}
<1>1. ASSUME NEW s \in SUBSET S, \A t \in SUBSET s : t # s => t \in C
      PROVE  s \in C
  <2>1. IsFiniteSet(s) /\ \A x \in s : f[x] \in Int /\ g[x] \in Int /\ g[x] = f[x]
    BY FS_Subset
  <2>2. CASE s = {}
    BY <2>1, <2>2, SumStep
  <2>3. CASE s # {}
    <3>1. First(s) \in s /\ s \ {First(s)} \in C
      BY <1>1, <2>3 DEF First
    <3>2. /\ SumFunctionOnSet(f, s)
               = f[First(s)] + SumFunctionOnSet(f, s \ {First(s)})
          /\ SumFunctionOnSet(g, s)
               = g[First(s)] + SumFunctionOnSet(g, s \ {First(s)})
      BY <2>1, <2>3, SumStep
    <3> QED BY <2>1, <3>1, <3>2
  <2> QED BY <2>2, <2>3
<1> HIDE DEF C
<1>2. S \in C
  BY <1>1, SubsetInduction
<1> QED BY <1>2 DEF C

(* A sum of natural numbers is one.                                        *)
LEMMA SumNat ==
  ASSUME NEW S, IsFiniteSet(S), NEW f, \A x \in S : f[x] \in Nat
  PROVE  SumFunctionOnSet(f, S) \in Nat
<1> DEFINE C == {s \in SUBSET S : SumFunctionOnSet(f, s) \in Nat}
<1>1. ASSUME NEW s \in SUBSET S, \A t \in SUBSET s : t # s => t \in C
      PROVE  s \in C
  <2>1. IsFiniteSet(s) /\ \A x \in s : f[x] \in Int /\ f[x] \in Nat
    BY FS_Subset
  <2>2. CASE s = {}
    <3>1. SumFunctionOnSet(f, s) = 0
      BY <2>1, <2>2, SumStep
    <3> QED BY <3>1
  <2>3. CASE s # {}
    <3>1. First(s) \in s /\ s \ {First(s)} \in C
      BY <1>1, <2>3 DEF First
    <3>2. SumFunctionOnSet(f, s)
            = f[First(s)] + SumFunctionOnSet(f, s \ {First(s)})
      BY <2>1, <2>3, SumStep
    <3> QED BY <2>1, <3>1, <3>2
  <2> QED BY <2>2, <2>3
<1> HIDE DEF C
<1>2. S \in C
  BY <1>1, SubsetInduction
<1> QED BY <1>2 DEF C

(* What changing one value of a function does to its sum.                  *)
LEMMA SumExcept ==
  ASSUME NEW S, IsFiniteSet(S), NEW f \in [S -> Int], NEW z \in S, NEW v \in Int
  PROVE  SumFunction([f EXCEPT ![z] = v]) = SumFunction(f) - f[z] + v
<1> DEFINE g == [f EXCEPT ![z] = v]
           rest == S \ {z}
<1>1. g \in [S -> Int] /\ g[z] = v /\ \A x \in rest : g[x] = f[x]
  OBVIOUS
<1>2. IsFiniteSet(rest)
  BY FS_Subset
<1> HIDE DEF g, rest
<1>3. SumFunctionOnSet(g, S) = g[z] + SumFunctionOnSet(g, rest)
  BY <1>1, SumSplit DEF rest
<1>4. SumFunctionOnSet(f, S) = f[z] + SumFunctionOnSet(f, rest)
  BY SumSplit DEF rest
<1>5. SumFunctionOnSet(g, rest) = SumFunctionOnSet(f, rest)
  BY <1>1, <1>2, SumSame DEF rest
<1>6. SumFunctionOnSet(f, rest) \in Int
  BY <1>2, SumStep DEF rest
<1>7. SumFunctionOnSet(g, S) = SumFunctionOnSet(f, S) - f[z] + v
  BY <1>1, <1>3, <1>4, <1>5, <1>6
<1>8. DOMAIN f = S /\ DOMAIN g = S
  BY <1>1
<1>9. SumFunction(g) = SumFunction(f) - f[z] + v
  BY <1>7, <1>8, Zenon DEF SumFunction
<1> QED BY <1>9 DEF g

LEMMA SumType ==
  ASSUME NEW S, IsFiniteSet(S), NEW f \in [S -> Int]
  PROVE  SumFunction(f) \in Int
<1>1. DOMAIN f = S /\ \A x \in S : f[x] \in Int
  OBVIOUS
<1>2. SumFunctionOnSet(f, S) \in Int
  BY <1>1, SumStep
<1> QED BY <1>1, <1>2, Zenon DEF SumFunction

LEMMA SumOfZeros ==
  ASSUME NEW S, IsFiniteSet(S)
  PROVE  SumFunction([x \in S |-> 0]) = 0
<1> DEFINE f == [x \in S |-> 0]
           C == {s \in SUBSET S : SumFunctionOnSet(f, s) = 0}
<1>0. \A x \in S : f[x] = 0
  OBVIOUS
<1>1. ASSUME NEW s \in SUBSET S, \A t \in SUBSET s : t # s => t \in C
      PROVE  s \in C
  <2>1. IsFiniteSet(s) /\ \A x \in s : f[x] \in Int
    BY <1>0, FS_Subset
  <2> HIDE DEF f
  <2>2. CASE s = {}
    BY <2>1, <2>2, SumStep
  <2>3. CASE s # {}
    <3>1. /\ First(s) \in s
          /\ SumFunctionOnSet(f, s)
               = f[First(s)] + SumFunctionOnSet(f, s \ {First(s)})
      BY <2>1, <2>3, SumStep
    <3>2. s \ {First(s)} \in C
      BY <1>1, <3>1
    <3> QED BY <1>0, <3>1, <3>2
  <2> QED BY <2>2, <2>3
<1> HIDE DEF C
<1>2. S \in C
  BY <1>1, SubsetInduction
<1>3. SumFunctionOnSet(f, S) = 0 /\ DOMAIN f = S
  BY <1>2 DEF C
<1> HIDE DEF f
<1>4. SumFunction(f) = 0
  BY <1>3, Zenon DEF SumFunction
<1> QED BY <1>4 DEF f

-----------------------------------------------------------------------------
(* Functions defined by recursion: f has a base value where the recursion  *)
(* stops and elsewhere takes one step from its value further down.         *)

(* A nonempty set of numbers has a least one.                              *)
LEMMA LeastNumber ==
  ASSUME NEW B \in SUBSET Nat, B # {}
  PROVE  \E i \in B : \A j \in B : i <= j
<1> DEFINE R == OpToRel(<, Nat)
<1>1. IsWellFoundedOn(R, Nat)
  BY NatLessThanWellFounded
<1>2. \A i, j \in Nat : i < j => <<i, j>> \in R
  BY Zenon DEF OpToRel
<1>3. PICK i \in B : \A j \in B : <<j, i>> \notin R
  <2> HIDE DEF R
  <2> QED BY <1>1, WFMin
<1>4. ASSUME NEW j \in B PROVE i <= j
  <2>1. i \in Nat /\ j \in Nat /\ <<j, i>> \notin R
    BY <1>3
  <2> HIDE DEF R
  <2> QED BY <1>2, <2>1
<1> QED BY <1>4

(* A nonempty set has an element of least rank.                            *)
LEMMA LeastRank ==
  ASSUME NEW S, NEW rank \in [S -> Nat], NEW B \in SUBSET S, B # {}
  PROVE  \E s \in B : \A r \in B : rank[s] <= rank[r]
<1> DEFINE ranks == {rank[s] : s \in B}
<1>1. ranks \in SUBSET Nat /\ ranks # {}
  OBVIOUS
<1>2. PICK i \in ranks : \A j \in ranks : i <= j
  <2> HIDE DEF ranks
  <2> QED BY <1>1, LeastNumber
<1> QED BY <1>2

\* down leads to Stop from everywhere in S.
Descends(S, Stop, down) ==
  \E rank \in [S -> Nat] :
    \A s \in S \ Stop : down[s] \in S /\ rank[down[s]] < rank[s]

\* What is closed under a step up holds everywhere.
LEMMA DescentInduction ==
  ASSUME NEW S, NEW Stop, NEW down, Descends(S, Stop, down),
         NEW C, \A s \in S : (s \in Stop \/ down[s] \in C) => s \in C
  PROVE  S \subseteq C
<1>1. PICK rank \in [S -> Nat] :
        \A s \in S \ Stop : down[s] \in S /\ rank[down[s]] < rank[s]
  BY DEF Descends
<1> SUFFICES ASSUME S \ C # {} PROVE FALSE
  OBVIOUS
<1>2. PICK s \in S \ C : \A r \in S \ C : rank[s] <= rank[r]
  BY LeastRank
<1>3. s \notin Stop /\ down[s] \in S \ C
  BY <1>1, <1>2
<1>4. rank[down[s]] < rank[s] /\ rank[s] <= rank[down[s]]
  BY <1>1, <1>2, <1>3
<1>5. rank[down[s]] \in Nat /\ rank[s] \in Nat
  BY <1>3
<1> QED BY <1>4, <1>5

\* g obeys the recursion on T.
Obeys(g, T, Stop, down, base, op) ==
  \A s \in T :
    /\ s \in Stop => g[s] = base[s]
    /\ s \notin Stop => down[s] \in T /\ g[s] = op[<<s, g[down[s]]>>]

LEMMA RecursionUnique ==
  ASSUME NEW S, NEW Stop, NEW down, Descends(S, Stop, down), NEW base, NEW op,
         NEW A \in SUBSET S, NEW B \in SUBSET S, NEW g, NEW h,
         Obeys(g, A, Stop, down, base, op), Obeys(h, B, Stop, down, base, op)
  PROVE  \A s \in A \cap B : g[s] = h[s]
<1> DEFINE C == {s \in S : s \in A \cap B => g[s] = h[s]}
<1>1. ASSUME NEW s \in S, s \in Stop \/ down[s] \in C PROVE s \in C
  BY <1>1 DEF Obeys
<1> HIDE DEF C
<1>2. S \subseteq C
  BY <1>1, DescentInduction
<1> QED BY <1>2 DEF C

(* The recursion has a solution.                                           *)
LEMMA RecursionExists ==
  ASSUME NEW S, NEW Stop, NEW down, Descends(S, Stop, down),
         NEW V, NEW base, NEW op \in [S \X V -> V],
         \A s \in S \cap Stop : base[s] \in V
  PROVE  \E f \in [S -> V] : Obeys(f, S, Stop, down, base, op)
<1> DEFINE Part(g, T) == g \in [T -> V] /\ Obeys(g, T, Stop, down, base, op)
           C == {s \in S : \E T \in SUBSET S : s \in T /\ \E g : Part(g, T)}
<1>1. ASSUME NEW s \in S, s \in Stop \/ down[s] \in C PROVE s \in C
  <2>1. CASE s \in Stop
    <3> DEFINE g == [r \in {s} |-> base[r]]
    <3>1. Part(g, {s})
      BY <2>1 DEF Obeys
    <3> QED BY <3>1
  <2>2. CASE s \notin Stop
    <3>1. PICK T \in SUBSET S : down[s] \in T /\ \E g : Part(g, T)
      BY <1>1, <2>2
    <3>2. PICK g : Part(g, T)
      BY <3>1
    <3>3. CASE s \in T
      BY <3>2, <3>3
    <3>4. CASE s \notin T
      <4> DEFINE h == [r \in T \cup {s} |->
                         IF r = s THEN op[<<s, g[down[s]]>>] ELSE g[r]]
      <4>1. g[down[s]] \in V
        BY <3>1, <3>2
      <4>2. op[<<s, g[down[s]]>>] \in V
        BY <4>1
      <4>3. h \in [T \cup {s} -> V]
        BY <3>2, <4>2
      <4>4. \A r \in T : h[r] = g[r]
        BY <3>4
      <4>5. h[s] = op[<<s, h[down[s]]>>]
        BY <3>1, <4>4
      <4> HIDE DEF h
      <4>6. Obeys(h, T \cup {s}, Stop, down, base, op)
        <5> SUFFICES ASSUME NEW r \in T \cup {s}
                     PROVE  /\ r \in Stop => h[r] = base[r]
                            /\ r \notin Stop => /\ down[r] \in T \cup {s}
                                                /\ h[r] = op[<<r, h[down[r]]>>]
          BY DEF Obeys
        <5>1. CASE r = s
          BY <2>2, <3>1, <4>5, <5>1
        <5>2. CASE r \in T
          BY <3>2, <4>4, <5>2 DEF Obeys
        <5> QED BY <5>1, <5>2
      <4> QED BY <4>3, <4>6
    <3> QED BY <3>3, <3>4
  <2> QED BY <2>1, <2>2
<1> HIDE DEF C
<1>2. S \subseteq C
  BY <1>1, DescentInduction
<1> DEFINE Some(s) == CHOOSE g : \E T \in SUBSET S : s \in T /\ Part(g, T)
           f == [s \in S |-> Some(s)[s]]
<1>3. ASSUME NEW s \in S
      PROVE  \E T \in SUBSET S : s \in T /\ Part(Some(s), T)
  <2>1. \E g : \E T \in SUBSET S : s \in T /\ Part(g, T)
    BY <1>2 DEF C
  <2> HIDE DEF Part
  <2> QED BY <2>1, Zenon
<1> HIDE DEF Some
<1>4. f \in [S -> V]
  BY <1>3
<1>5. ASSUME NEW s \in S
      PROVE  /\ s \in Stop => f[s] = base[s]
             /\ s \notin Stop => down[s] \in S /\ f[s] = op[<<s, f[down[s]]>>]
  <2>1. PICK T \in SUBSET S : s \in T /\ Part(Some(s), T)
    BY <1>3
  <2>2. CASE s \in Stop
    BY <2>1, <2>2 DEF Obeys
  <2>3. CASE s \notin Stop
    <3>1. down[s] \in T /\ Some(s)[s] = op[<<s, Some(s)[down[s]]>>]
      BY <2>1, <2>3 DEF Obeys
    <3>2. PICK U \in SUBSET S : down[s] \in U /\ Part(Some(down[s]), U)
      BY <1>3, <3>1
    <3>3. Some(s)[down[s]] = Some(down[s])[down[s]]
      BY <2>1, <3>1, <3>2, RecursionUnique
    <3> QED BY <2>3, <3>1, <3>3
  <2> QED BY <2>2, <2>3
<1> QED BY <1>4, <1>5 DEF Obeys
=============================================================================
