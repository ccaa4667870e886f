---------------------- MODULE RandomnessPipelineProofs ----------------------
(***************************************************************************)
(* What a run of the pipeline guarantees whatever the hash, the committee  *)
(* and the sizes are: its delay proof verifies, its table satisfies the    *)
(* circuit, and the payload it relays is the one the proof speaks of.      *)
(***************************************************************************)
EXTENDS RandomnessPipeline, FoldFacts

-----------------------------------------------------------------------------
(* The delay function. *)

(* Division with remainder.                                                *)
LEMMA DivisionWithRemainder ==
  ASSUME NEW a \in Nat, NEW n \in Nat \ {0}
  PROVE  /\ a \div n \in Nat
         /\ a % n \in 0..(n - 1)
         /\ a = (a \div n) * n + (a % n)
  BY SMT

(* A remainder is known by any multiple that leaves it.                    *)
LEMMA RemainderOf ==
  ASSUME NEW a \in Nat, NEW n \in Nat \ {0}, NEW m \in Int,
         NEW r \in 0..(n - 1), a = r + m * n
  PROVE  a % n = r
<1> DEFINE q == a \div n
           s == a % n
           d == q - m
<1>1. q \in Nat /\ s \in 0..(n - 1) /\ a = q * n + s
  BY DivisionWithRemainder
<1> HIDE DEF q, s
<1>2. d \in Int
  BY <1>1
<1>3. q * n - m * n = d * n
  BY <1>1, SMT
<1> DEFINE p == d * n
           u == q * n
           v == m * n
<1>4. u \in Int /\ v \in Int /\ a = u + s /\ a = r + v /\ u - v = p /\ p \in Int
  BY <1>1, <1>2, <1>3
<1>5. (d >= 1 => p >= n) /\ (d <= -1 => p <= -n) /\ (d = 0 => p = 0)
  BY <1>2, SMT
<1> HIDE DEF p, u, v, d
<1>6. p = r - s
  BY <1>1, <1>4
<1>7. d = 0
  BY <1>1, <1>2, <1>5, <1>6
<1>8. r = s
  BY <1>1, <1>5, <1>6, <1>7
<1> QED BY <1>8 DEF s

(* Doubling a number that is x modulo n gives one that is the doubled x    *)
(* reduced once.                                                           *)
LEMMA Doubling ==
  ASSUME NEW n \in Nat \ {0}, NEW a \in 0..(n - 1), NEW m \in Nat
  PROVE  LET b == IF a + a < n THEN a + a ELSE a + a - n
         IN  /\ b \in 0..(n - 1)
             /\ \E j \in Nat : 2 * (a + m * n) = b + j * n
<1> DEFINE v == m * n
<1>1. v \in Nat /\ (2 * m) * n = 2 * v /\ (2 * m + 1) * n = 2 * v + n
  BY SMT
<1>2. 2 * (a + v) = (a + a) + 2 * v /\ 2 * (a + v) = (a + a - n) + (2 * v + n)
  BY <1>1
<1>3. 2 * m \in Nat /\ 2 * m + 1 \in Nat
  OBVIOUS
<1> HIDE DEF v
<1>4. CASE a + a < n
  <2>1. 2 * (a + v) = (a + a) + (2 * m) * n
    BY <1>1, <1>2
  <2> QED BY <1>3, <1>4, <2>1 DEF v
<1>5. CASE ~(a + a < n)
  <2>1. 2 * (a + v) = (a + a - n) + (2 * m + 1) * n
    BY <1>1, <1>2
  <2> QED BY <1>3, <1>5, <2>1 DEF v
<1> QED BY <1>4, <1>5

(* If 2^t is y modulo n and its quotient by l is p modulo n, then p, the   *)
(* challenge l and the remainder of 2^t give back y.                       *)
LEMMA VerifierEquation ==
  ASSUME NEW n \in Nat \ {0}, NEW l \in Nat \ {0}, NEW p \in 0..(n - 1),
         NEW w \in 0..(n - 1), NEW power \in Nat, NEW mult \in Nat, NEW m \in Nat,
         power = w + mult * n, power \div l = p + m * n
  PROVE  (l * p + (power % l)) % n = w
<1> DEFINE r == power % l
<1>1. r \in Nat /\ power = (power \div l) * l + r
  <2>1. /\ power % l \in 0..(l - 1)
        /\ power = (power \div l) * l + (power % l)
    BY DivisionWithRemainder
  <2> QED BY <2>1
<1>2. power = (p + m * n) * l + r
  BY <1>1
<1>3. (p + m * n) * l = l * p + (l * m) * n
  BY SMT
<1>4. l * p \in Nat /\ l * m \in Nat
  BY SMT
<1> HIDE DEF r
<1>5. l * p + r = w + (mult - l * m) * n
  <2> DEFINE lm == l * m
             lp == l * p
  <2>1. w + mult * n = lp + lm * n + r
    BY <1>2, <1>3
  <2>2. lm \in Nat /\ lp \in Nat
    BY <1>4
  <2> HIDE DEF lm, lp
  <2>3. (mult - lm) * n = mult * n - lm * n
    BY <2>2, SMT
  <2>4. mult * n \in Nat /\ lm * n \in Nat
    BY <2>2, SMT
  <2> DEFINE kn == mult * n
             lmn == lm * n
             rest == (mult - lm) * n
  <2>5. /\ w + kn = lp + lmn + r /\ rest = kn - lmn
        /\ kn \in Nat /\ lmn \in Nat /\ r \in Nat
    BY <2>1, <2>3, <2>4, <1>1
  <2> HIDE DEF kn, lmn, rest
  <2>6. lp + r = w + rest
    BY <2>2, <2>5
  <2> QED BY <2>6 DEF lm, lp, rest
<1>6. l * p + r \in Nat /\ mult - l * m \in Int
  BY <1>1, <1>4
<1>7. (l * p + r) % n = w
  BY <1>5, <1>6, RemainderOf
<1> QED BY <1>7 DEF r

-----------------------------------------------------------------------------
(* What the loop and the search keep: the running element is 2 to the      *)
(* number of squarings, the output 2^t, the proof the quotient, each       *)
(* modulo the unknown order.                                               *)
Exact ==
  /\ step = "squaring" => \E mult \in Nat : TwoPow[squarings] = x + mult * order
  /\ step \in {"searching", "proving", "proved"}
       => \E mult \in Nat : TwoPow[t] = y + mult * order
  /\ step = "proved"
       => \E m \in Nat : TwoPow[t] \div ell = pi + m * order

VdfInv == VdfTypeOK /\ Exact

LEMMA VdfInitInv == VdfInit => VdfInv
  BY OrderAssumption, SearchAssumption, DelayAssumption
     DEF VdfInit, VdfInv, VdfTypeOK, Exact

LEMMA VdfStepInv == VdfInv /\ [VdfNext]_vdfVars => VdfInv'
<1> SUFFICES ASSUME VdfInv, [VdfNext]_vdfVars PROVE VdfInv'
  OBVIOUS
<1> USE DEF VdfInv
<1>0. /\ order \in Nat \ {0} /\ t \in Nat /\ Counters \in Nat \ {0}
      /\ \A i \in 0..t : TwoPow[i] \in Nat
      /\ TwoPow[0] = 1
      /\ \A i \in 0..(t - 1) : TwoPow[i + 1] = 2 * TwoPow[i]
      /\ ell \in Nat
  BY OrderAssumption, SearchAssumption, DelayAssumption DEF VdfTypeOK
<1>1. CASE Evaluate
  <2>1. 1 % order \in 0..(order - 1) /\ 1 = (1 \div order) * order + (1 % order)
        /\ 1 \div order \in Nat
    BY <1>0, DivisionWithRemainder
  <2>2. VdfTypeOK'
    BY <1>0, <1>1, <2>1 DEF VdfTypeOK, Evaluate, Generator
  <2>3. step' = "squaring" => x' = 1 % order /\ squarings' = 0
    BY <1>1 DEF Evaluate, Generator
  <2>4. TwoPow[0] = (1 % order) + (1 \div order) * order
    BY <1>0, <2>1
  <2>5. Exact'
    BY <1>1, <2>1, <2>3, <2>4 DEF Exact, Evaluate
  <2> QED BY <2>2, <2>5
<1>2. CASE Square
  <2>1. PICK mult \in Nat : TwoPow[squarings] = x + mult * order
    BY <1>2 DEF Square, Exact
  <2>2. /\ Times(x, x) \in 0..(order - 1)
        /\ \E j \in Nat : 2 * (x + mult * order) = Times(x, x) + j * order
    BY <1>0, Doubling DEF Times, VdfTypeOK
  <2>3. TwoPow[squarings + 1] = 2 * TwoPow[squarings]
    BY <1>0, <1>2 DEF Square, VdfTypeOK
  <2>4. VdfTypeOK'
    BY <1>0, <1>2, <2>2 DEF VdfTypeOK, Square
  <2>5. Exact'
    BY <1>2, <2>1, <2>2, <2>3 DEF Exact, Square
  <2> QED BY <2>4, <2>5
<1>3. CASE Output
  <2>1. VdfTypeOK'
    BY <1>0, <1>3 DEF VdfTypeOK, Output
  <2>2. Exact'
    BY <1>3 DEF Exact, Output
  <2> QED BY <2>1, <2>2
<1>4. CASE RejectCandidate
  <2>1. NextCounter \in 0..(Counters - 1)
    BY <1>0, DivisionWithRemainder, counter + 1 \in Nat
       DEF NextCounter, VdfTypeOK
  <2>2. VdfTypeOK'
    BY <1>4, <2>1 DEF VdfTypeOK, RejectCandidate
  <2>3. Exact'
    BY <1>4 DEF Exact, RejectCandidate
  <2> QED BY <2>2, <2>3
<1>5. CASE AcceptCandidate
  <2>1. hash[counter] \in Candidates
    BY DEF VdfTypeOK
  <2>2. VdfTypeOK'
    BY <1>5, <2>1 DEF VdfTypeOK, AcceptCandidate
  <2>3. Exact'
    BY <1>5 DEF Exact, AcceptCandidate
  <2> QED BY <2>2, <2>3
<1>6. CASE GenerateProof
  <2>1. TwoPow[t] \in Nat /\ ell \in Nat \ {0}
    BY <1>0, <1>6, SearchAssumption DEF VdfTypeOK, GenerateProof
  <2>2. Quotient \in Nat
    BY <2>1, DivisionWithRemainder DEF Quotient
  <2>3. /\ Quotient % order \in 0..(order - 1)
        /\ Quotient \div order \in Nat
        /\ Quotient = (Quotient \div order) * order + (Quotient % order)
    BY <1>0, <2>2, DivisionWithRemainder
  <2>4. VdfTypeOK'
    BY <1>6, <2>3 DEF VdfTypeOK, GenerateProof
  <2>5. Quotient = (Quotient % order) + (Quotient \div order) * order
    BY <1>0, <2>2, <2>3
  <2>6. \E m \in Nat : Quotient = (Quotient % order) + m * order
    BY <2>3, <2>5
  <2>7. Exact'
    BY <1>6, <2>6 DEF Exact, GenerateProof, Quotient
  <2> QED BY <2>4, <2>7
<1>7. CASE UNCHANGED vdfVars
  BY <1>7 DEF vdfVars, VdfTypeOK, Exact
<1> QED BY <1>1, <1>2, <1>3, <1>4, <1>5, <1>6, <1>7 DEF VdfNext

LEMMA VdfInvVerifies == VdfInv => DelayProofVerifies
<1> SUFFICES ASSUME VdfInv, step = "proved"
             PROVE  (ell * pi + (TwoPow[t] % ell)) % order = y
  BY DEF DelayProofVerifies
<1>1. /\ order \in Nat \ {0} /\ ell \in Nat \ {0} /\ TwoPow[t] \in Nat
      /\ pi \in 0..(order - 1) /\ y \in 0..(order - 1)
  BY OrderAssumption, SearchAssumption, DelayAssumption DEF VdfInv, VdfTypeOK
<1>2. PICK mult \in Nat : TwoPow[t] = y + mult * order
  BY DEF VdfInv, Exact
<1>3. PICK m \in Nat : TwoPow[t] \div ell = pi + m * order
  BY DEF VdfInv, Exact
<1> QED BY <1>1, <1>2, <1>3, VerifierEquation

(* In every group, for every delay and whatever candidates the hash        *)
(* yields, a delay proof that is produced verifies.                        *)
THEOREM DelayProofsVerify == VdfSpec => []DelayProofVerifies
<1>1. VdfSpec => []VdfInv
  BY VdfInitInv, VdfStepInv, PTL DEF VdfSpec
<1> QED BY <1>1, VdfInvVerifies, PTL

-----------------------------------------------------------------------------
(* The run around it. *)

(* Every step of the pipeline is one of the delay function or leaves its   *)
(* variables alone.                                                        *)
LEMMA StepsOfDelay == [Next]_vars => [VdfNext]_vdfVars
<1> SUFFICES ASSUME [Next]_vars PROVE [VdfNext]_vdfVars
  OBVIOUS
<1>1. CASE RefuseParams
  BY <1>1 DEF RefuseParams
<1>2. CASE RunPedersenDkg
  BY <1>2 DEF RunPedersenDkg
<1>3. CASE DeriveSession
  BY <1>3 DEF DeriveSession
<1>4. CASE EvaluateDelay
  BY <1>4 DEF EvaluateDelay
<1>5. CASE SetupPanics
  BY <1>5 DEF SetupPanics
<1>6. CASE GenerateZkProof
  BY <1>6 DEF GenerateZkProof
<1>7. CASE ZkProofFails
  BY <1>7 DEF ZkProofFails
<1>8. CASE UNCHANGED vars
  BY <1>8 DEF vars
<1> QED BY <1>1, <1>2, <1>3, <1>4, <1>5, <1>6, <1>7, <1>8 DEF Next

(* The pipeline implements the delay function: it runs it once and changes *)
(* nothing of it before or after (lib.rs:88-101).                          *)
THEOREM PipelineImplementsDelay == Spec => VdfSpec
<1>1. Init => VdfInit
  BY DEF Init
<1> QED BY <1>1, StepsOfDelay, PTL DEF Spec, VdfSpec

(* The delay proof a run relays verifies.                                  *)
THEOREM PipelineDelayVerifies == Spec => []DelayProofVerifies
  BY PipelineImplementsDelay, DelayProofsVerify, PTL

-----------------------------------------------------------------------------
(* Numbers and their factors. *)

(* Divisors are factors.                                                   *)
LEMMA Factors ==
  ASSUME NEW n \in Nat, NEW d \in Nat \ {0}
  PROVE  n % d = 0 <=> \E e \in Nat : n = d * e
<1>1. ASSUME n % d = 0 PROVE \E e \in Nat : n = d * e
  <2> DEFINE e == n \div d
  <2>1. e \in Nat /\ n = e * d + 0
    BY <1>1, DivisionWithRemainder
  <2> HIDE DEF e
  <2>2. n = d * e
    BY <2>1, SMT
  <2> QED BY <2>1, <2>2
<1>2. ASSUME NEW e \in Nat, n = d * e PROVE n % d = 0
  <2>1. n = 0 + e * d /\ 0 \in 0..(d - 1)
    BY <1>2, SMT
  <2> QED BY <2>1, RemainderOf
<1> QED BY <1>1, <1>2

\* d divides n.
Factor(d, n) == \E e \in Nat : n = d * e

LEMMA FactorOfFactor ==
  ASSUME NEW a \in Nat, NEW b \in Nat, NEW c \in Nat, Factor(a, b), Factor(b, c)
  PROVE  Factor(a, c)
<1>1. PICK e \in Nat : b = a * e
  BY DEF Factor
<1>2. PICK f \in Nat : c = b * f
  BY DEF Factor
<1>3. e * f \in Nat /\ c = a * (e * f)
  BY <1>1, <1>2, SMT
<1> QED BY <1>3 DEF Factor

(* A factor of a positive number is positive and not above it, and so is   *)
(* the other one.                                                          *)
LEMMA FactorBounds ==
  ASSUME NEW d \in Nat, NEW e \in Nat, NEW n \in Nat \ {0}, n = d * e
  PROVE  d \in 1..n /\ e \in 1..n
<1>1. d # 0 /\ e # 0
  BY SMT
<1>2. d * (e - 1) \in Nat /\ (d - 1) * e \in Nat
  <2>1. e - 1 \in Nat /\ d - 1 \in Nat
    BY <1>1
  <2> QED BY <2>1, SMT
<1>3. d * e = d * (e - 1) + d /\ d * e = (d - 1) * e + e
  BY SMT
<1> DEFINE u == d * (e - 1)
           v == (d - 1) * e
<1> HIDE DEF u, v
<1>4. n = u + d /\ n = v + e /\ u \in Nat /\ v \in Nat
  BY <1>2, <1>3 DEF u, v
<1> QED BY <1>1, <1>4

\* The primes of the filter, in terms of factors.
LEMMA PrimeFactors ==
  ASSUME NEW p \in Nat, IsPrime(p)
  PROVE  /\ p > 1
         /\ \A d \in Nat : Factor(d, p) => d = 1 \/ d = p
<1>1. p > 1 /\ p \in Nat \ {0}
  BY DEF IsPrime
<1>2. ASSUME NEW d \in Nat, Factor(d, p), d # 1, d # p PROVE FALSE
  <2>1. PICK e \in Nat : p = d * e
    BY <1>2 DEF Factor
  <2>2. d \in 1..p
    BY <1>1, <2>1, FactorBounds
  <2>3. d \in 2..(p - 1)
    BY <1>1, <1>2, <2>2
  <2>4. p % d = 0
    BY <2>1, <2>2, Factors
  <2> QED BY <2>3, <2>4 DEF IsPrime
<1> QED BY <1>1, <1>2

(* Every number from 2 on has a prime factor.                              *)
LEMMA PrimeFactorExists ==
  ASSUME NEW m \in Nat, m > 1
  PROVE  \E q \in 2..m : IsPrime(q) /\ Factor(q, m)
<1> DEFINE B == {d \in 2..m : Factor(d, m)}
<1>1. m \in B
  <2>1. m = m * 1
    OBVIOUS
  <2> QED BY <2>1 DEF Factor
<1>2. PICK q \in B : \A r \in B : q <= r
  <2>1. B \in SUBSET Nat /\ B # {}
    BY <1>1
  <2> HIDE DEF B
  <2> QED BY <2>1, LeastNumber
<1>3. q \in Nat /\ q \in 2..m /\ Factor(q, m)
  OBVIOUS
<1>4. ASSUME NEW d \in 2..(q - 1), q % d = 0 PROVE FALSE
  <2>1. d \in Nat \ {0} /\ d \in 2..m /\ d < q
    BY <1>3
  <2>2. Factor(d, q)
    BY <1>3, <1>4, <2>1, Factors DEF Factor
  <2>3. Factor(d, m)
    BY <1>3, <2>1, <2>2, FactorOfFactor
  <2> QED BY <1>2, <1>3, <2>1, <2>3
<1> QED BY <1>3, <1>4 DEF IsPrime

(* A prime factor of a multiple of another prime divides what it is        *)
(* multiplied by: the least number that makes a multiple of q with m       *)
(* divides both primes.                                                    *)
LEMMA OtherFactor ==
  ASSUME NEW p \in Nat, NEW q \in Nat, IsPrime(p), IsPrime(q), p # q,
         NEW m \in Nat, Factor(q, p * m)
  PROVE  Factor(q, m)
<1> DEFINE B == {a \in Nat \ {0} : Factor(q, a * m)}
<1>1. p > 1 /\ q > 1
  BY PrimeFactors
<1>2. p \in B /\ q \in B
  <2>1. q * m = q * m /\ q * m \in Nat
    BY SMT
  <2> QED BY <1>1, <2>1 DEF Factor
<1>3. PICK a \in B : \A b \in B : a <= b
  <2>1. B \in SUBSET Nat /\ B # {}
    BY <1>2
  <2> HIDE DEF B
  <2> QED BY <2>1, LeastNumber
<1>4. a \in Nat \ {0} /\ Factor(q, a * m)
  OBVIOUS
<1>5. ASSUME NEW b \in B PROVE Factor(a, b)
  <2> DEFINE r == b % a
             c == b \div a
  <2>1. b \in Nat /\ Factor(q, b * m)
    OBVIOUS
  <2>2. c \in Nat /\ r \in 0..(a - 1) /\ b = c * a + r
    BY <1>4, <2>1, DivisionWithRemainder
  <2> HIDE DEF r, c
  <2>3. PICK e \in Nat : a * m = q * e
    BY <1>4 DEF Factor
  <2>4. PICK f \in Nat : b * m = q * f
    BY <2>1 DEF Factor
  <2>5. r * m = q * (f - c * e)
    <3>1. b * m = c * (a * m) + r * m
      BY <1>4, <2>2, SMT
    <3>2. c * (q * e) = q * (c * e)
      BY <2>2, SMT
    <3>3. q * (f - c * e) = q * f - q * (c * e)
      BY <2>2, SMT
    <3> DEFINE rm == r * m
               qce == q * (c * e)
               qf == q * f
    <3>4. rm \in Int /\ qce \in Int /\ qf \in Int
      BY <2>2, SMT
    <3>5. qf = qce + rm
      BY <2>3, <2>4, <3>1, <3>2
    <3>6. q * (f - c * e) = qf - qce
      BY <3>3
    <3> HIDE DEF rm, qce, qf
    <3>7. rm = qf - qce
      BY <3>4, <3>5
    <3> QED BY <3>6, <3>7 DEF rm
  <2>6. f - c * e \in Nat
    <3> DEFINE d == f - c * e
    <3>1. r * m \in Nat /\ d \in Int /\ r * m = q * d
      BY <2>2, <2>5, SMT
    <3> HIDE DEF d
    <3>2. d < 0 => q * d < 0
      BY <1>1, <3>1, SMT
    <3>3. d >= 0
      BY <3>1, <3>2
    <3> QED BY <3>1, <3>3 DEF d
  <2>7. Factor(q, r * m)
    BY <2>5, <2>6 DEF Factor
  <2>8. r = 0
    <3>1. r # 0 => r \in B
      BY <2>2, <2>7
    <3>2. a \notin 0..(a - 1) /\ (r \in B => a <= r)
      BY <1>3, <1>4
    <3> HIDE DEF B
    <3> QED BY <1>4, <2>2, <3>1, <3>2
  <2>9. b = a * c
    BY <1>4, <2>2, <2>8, SMT
  <2> QED BY <2>2, <2>9 DEF Factor
<1>6. a = 1
  <2>1. Factor(a, p) /\ Factor(a, q)
    BY <1>2, <1>5
  <2> HIDE DEF B
  <2> QED BY <1>4, <2>1, PrimeFactors
<1>7. a * m = m
  BY <1>6
<1> QED BY <1>4, <1>7

-----------------------------------------------------------------------------
(* The challenge. *)

(* The bits of a number are one more than those of its half.               *)
LEMMA BitLengthDef ==
  /\ BitLength \in [Nat -> Nat] /\ BitLength[0] = 0
  /\ \A n \in Nat \ {0} : BitLength[n] = 1 + BitLength[n \div 2]
<1> DEFINE down == [n \in Nat |-> n \div 2]
           base == [n \in Nat |-> 0]
           op   == [p \in Nat \X Nat |-> 1 + p[2]]
           Body(f) == [n \in Nat |-> IF n = 0 THEN 0 ELSE 1 + f[n \div 2]]
           F == CHOOSE f : f = Body(f)
<1>1. \A n \in Nat : n \div 2 \in Nat /\ (n # 0 => n \div 2 < n)
  BY SMT
<1>2. Descends(Nat, {0}, down)
  <2> DEFINE rank == [n \in Nat |-> n]
  <2>1. rank \in [Nat -> Nat]
    OBVIOUS
  <2>2. \A n \in Nat \ {0} : down[n] \in Nat /\ rank[down[n]] < rank[n]
    BY <1>1
  <2> HIDE DEF rank, down
  <2> QED BY <2>1, <2>2 DEF Descends
<1>3. op \in [Nat \X Nat -> Nat] /\ \A n \in Nat : base[n] \in Nat
  OBVIOUS
<1>4. \A n \in Nat : down[n] = n \div 2 /\ base[n] = 0
  OBVIOUS
<1>5. \A n \in Nat, v \in Nat : op[<<n, v>>] = 1 + v
  OBVIOUS
<1> HIDE DEF down, base, op
<1>6. PICK f \in [Nat -> Nat] : Obeys(f, Nat, {0}, down, base, op)
  BY <1>2, <1>3, RecursionExists
<1>7. f = Body(f)
  <2>1. ASSUME NEW n \in Nat PROVE f[n] = IF n = 0 THEN 0 ELSE 1 + f[n \div 2]
    <3>1. CASE n = 0
      BY <1>4, <1>6, <3>1 DEF Obeys
    <3>2. CASE n # 0
      <4>1. f[n] = op[<<n, f[down[n]]>>]
        BY <1>6, <3>2 DEF Obeys
      <4> QED BY <1>1, <1>4, <1>5, <3>2, <4>1
    <3> QED BY <3>1, <3>2
  <2> QED BY <2>1
<1>8. F = Body(F)
  <2> HIDE DEF Body
  <2> QED BY <1>7
<1>9. BitLength = F
  BY DEF BitLength
<1> HIDE DEF F
<1>10. ASSUME NEW n \in Nat
       PROVE  F[n] = IF n = 0 THEN 0 ELSE 1 + F[n \div 2]
  BY <1>8
<1> DEFINE C == {n \in Nat : F[n] \in Nat}
<1>11. ASSUME NEW n \in Nat, n \in {0} \/ down[n] \in C PROVE n \in C
  BY <1>4, <1>10, <1>11
<1> HIDE DEF C
<1>12. Nat \subseteq C
  BY <1>2, <1>11, DescentInduction
<1>13. F \in [Nat -> Nat]
  <2>1. \A n \in Nat : F[n] \in Nat
    BY <1>12 DEF C
  <2>2. F = [n \in Nat |-> F[n]]
    BY <1>8
  <2> QED BY <2>1, <2>2
<1> QED BY <1>9, <1>10, <1>13

\* TwoPow has the powers of two up to the highest bit of m.
Covers(m) ==
  /\ TwoPow[0] = 1
  /\ \A i \in 0..(BitLength[m] - 2) : TwoPow[i] \in Nat /\ TwoPow[i + 1] = 2 * TwoPow[i]

(* A number is the power of two of its highest bit when it has no odd      *)
(* factor but 1.                                                           *)
LEMMA PowersOfTwo ==
  ASSUME NEW m \in Nat \ {0}, Covers(m)
  PROVE  m = TwoPow[BitLength[m] - 1] <=> \A d \in 2..m : d % 2 = 1 => m % d # 0
<1> DEFINE Odd(n) == \E d \in 2..n : d % 2 = 1 /\ n % d = 0
           Holds(n) == n = TwoPow[BitLength[n] - 1] <=> ~Odd(n)
           S == Nat \ {0}
           down == [n \in S |-> n \div 2]
           C == {n \in S : Covers(n) => Holds(n)}
<1>1. Descends(S, {1}, down)
  <2> DEFINE rank == [n \in S |-> n]
  <2>1. rank \in [S -> Nat]
    OBVIOUS
  <2>2. \A n \in S \ {1} : n \div 2 \in S /\ n \div 2 < n
    BY SMT
  <2>3. \A n \in S \ {1} : down[n] \in S /\ rank[down[n]] < rank[n]
    BY <2>2
  <2> HIDE DEF rank, down, S
  <2> QED BY <2>1, <2>3 DEF Descends
<1>2. ASSUME NEW n \in S, n \in {1} \/ down[n] \in C PROVE n \in C
  <2> SUFFICES ASSUME Covers(n) PROVE Holds(n)
    OBVIOUS
  <2>1. CASE n = 1
    <3>1. BitLength[1] = 1
      <4>1. 1 \div 2 = 0
        BY SMT
      <4> QED BY <4>1, BitLengthDef
    <3>2. ~Odd(1)
      OBVIOUS
    <3> QED BY <2>1, <3>1, <3>2 DEF Covers
  <2>2. CASE n # 1
    <3> DEFINE h == n \div 2
    <3>1. h \in S /\ h \in C /\ (n = 2 * h \/ n = 2 * h + 1) /\ h < n
      <4>1. h \in S /\ (n = 2 * h \/ n = 2 * h + 1) /\ h < n
        BY <2>2, SMT
      <4> QED BY <1>2, <2>2, <4>1
    <3> DEFINE b == BitLength[h]
    <3>2. b \in Nat \ {0} /\ BitLength[n] = b + 1
      <4>1. h \in Nat \ {0} /\ h \div 2 \in Nat /\ n \in Nat \ {0}
        BY <3>1, SMT
      <4> HIDE DEF h
      <4>2. BitLength[h] = 1 + BitLength[h \div 2] /\ BitLength[h \div 2] \in Nat
        BY <4>1, BitLengthDef
      <4>3. BitLength[n] = 1 + BitLength[h]
        BY <4>1, BitLengthDef DEF h
      <4> QED BY <4>2, <4>3
    <3> HIDE DEF h, b
    <3>3. Covers(h)
      <4>1. 0..(b - 2) \subseteq 0..(BitLength[n] - 2)
        BY <3>2
      <4> QED BY <4>1 DEF Covers, b
    <3>4. h = TwoPow[b - 1] <=> ~Odd(h)
      BY <3>1, <3>3 DEF b
    <3>5. TwoPow[b] = 2 * TwoPow[b - 1] /\ TwoPow[b - 1] \in Nat
      <4>1. b - 1 \in 0..(BitLength[n] - 2) /\ (b - 1) + 1 = b
        BY <3>2
      <4> QED BY <4>1 DEF Covers
    <3>6. n = TwoPow[b] <=> n = 2 * h /\ h = TwoPow[b - 1]
      BY <3>1, <3>5
    <3>7. CASE n = 2 * h + 1
      <4>1. n % 2 = 1 /\ n % n = 0 /\ n \in 2..n
        <5>1. n \in Nat /\ n > 1
          BY <2>2
        <5>2. n = 1 + h * 2 /\ n = 0 + 1 * n /\ h \in Int
          BY <3>1, <3>7
        <5>3. 1 \in 0..(2 - 1) /\ 0 \in 0..(n - 1) /\ 2 \in Nat \ {0} /\ n \in Nat \ {0}
          BY <5>1
        <5>4. n % 2 = 1
          BY <5>1, <5>2, <5>3, RemainderOf
        <5>5. n % n = 0
          BY <5>1, <5>2, <5>3, RemainderOf
        <5> QED BY <5>1, <5>4, <5>5
      <4>2. n # 2 * h
        BY <3>1, <3>7
      <4> QED BY <3>2, <3>6, <4>1, <4>2
    <3>8. CASE n = 2 * h
      <4>1. ASSUME NEW d \in 2..h, d % 2 = 1, h % d = 0
            PROVE  d \in 2..n /\ n % d = 0
        <5>1. d \in Nat \ {0} /\ h \in Nat /\ n \in Nat
          BY <3>1
        <5>2. PICK e \in Nat : h = d * e
          BY <4>1, <5>1, Factors
        <5>3. 2 * e \in Nat /\ n = d * (2 * e)
          BY <3>8, <5>1, <5>2, SMT
        <5>4. \E f \in Nat : n = d * f
          BY <5>3
        <5>5. n % d = 0
          BY <5>1, <5>4, Factors
        <5> QED BY <3>1, <5>5
      <4>2. ASSUME NEW d \in 2..n, d % 2 = 1, n % d = 0
            PROVE  d \in 2..h /\ h % d = 0
        <5>1. d \in Nat \ {0} /\ h \in Nat \ {0} /\ n \in Nat
          BY <3>1
        <5>2. PICK e \in Nat : n = d * e
          BY <4>2, <5>1, Factors
        <5>3. PICK c \in Nat : d = 2 * c + 1
          BY <4>2, <5>1, SMT
        <5>4. e = 2 * (h - c * e) /\ h - c * e \in Int
          <6> DEFINE ce == c * e
          <6>1. ce \in Nat /\ d * e = 2 * ce + e
            BY <5>2, <5>3, SMT
          <6> HIDE DEF ce
          <6>2. 2 * h = 2 * ce + e
            BY <3>8, <5>2, <6>1
          <6>3. e = 2 * (h - ce) /\ h - ce \in Int
            BY <5>1, <6>1, <6>2
          <6> QED BY <6>3 DEF ce
        <5> DEFINE f == h - c * e
        <5> HIDE DEF f
        <5>5. e = 2 * f /\ f \in Nat
          BY <5>4 DEF f
        <5>6. h = d * f
          <6> DEFINE df == d * f
          <6>1. df \in Nat /\ d * e = 2 * df
            BY <5>1, <5>5, SMT
          <6> HIDE DEF df
          <6>2. 2 * h = 2 * df
            BY <3>8, <5>2, <6>1
          <6> QED BY <5>1, <6>1, <6>2 DEF df
        <5>7. d \in 1..h
          BY <5>1, <5>5, <5>6, FactorBounds
        <5> QED BY <5>1, <5>5, <5>6, <5>7, Factors
      <4>3. Odd(n) <=> Odd(h)
        BY <4>1, <4>2
      <4> QED BY <3>2, <3>4, <3>6, <3>8, <4>3
    <3> QED BY <3>1, <3>7, <3>8
  <2> QED BY <2>1, <2>2
<1> HIDE DEF C
<1>3. S \subseteq C
  <2> HIDE DEF S, down
  <2> QED BY <1>1, <1>2, DescentInduction
<1> QED BY <1>3 DEF C

(* A quotient by more than one is smaller.                                 *)
LEMMA SmallerQuotient ==
  ASSUME NEW n \in Nat \ {0}, NEW p \in Nat \ {0, 1}, n % p = 0
  PROVE  /\ n \div p \in Nat \ {0} /\ n \div p < n
         /\ n = p * (n \div p)
<1> DEFINE h == n \div p
<1>1. h \in Nat /\ n = h * p + 0
  BY DivisionWithRemainder
<1> HIDE DEF h
<1>2. n = p * h
  BY <1>1, SMT
<1>3. h \in 1..n
  BY <1>1, <1>2, FactorBounds
<1>4. h # n
  <2>1. p - 1 \in Nat \ {0} /\ p * h = h + (p - 1) * h
    BY <1>1, SMT
  <2> DEFINE v == (p - 1) * h
  <2>2. v \in Nat /\ v > 0
    BY <1>3, <2>1, SMT
  <2> HIDE DEF v
  <2>3. n = h + v
    BY <1>2, <2>1 DEF v
  <2> QED BY <1>1, <2>2, <2>3
<1>5. h \in Nat \ {0} /\ h < n
  BY <1>3, <1>4
<1> QED BY <1>2, <1>5 DEF h

(* Dividing a factor out ends.                                             *)
LEMMA StrippedDef ==
  ASSUME NEW p \in Nat \ {0, 1}
  PROVE  \A n \in Nat \ {0} :
           /\ Stripped(n, p) \in Nat \ {0}
           /\ Stripped(n, p) = IF n % p = 0 THEN Stripped(n \div p, p) ELSE n
<1> DEFINE S == Nat \ {0}
           Stop == {n \in S : n % p # 0}
           down == [n \in S |-> n \div p]
           base == [n \in S |-> n]
           op   == [z \in S \X S |-> z[2]]
           Body(f) == [m \in Nat \ {0} |-> IF m % p = 0 THEN f[m \div p] ELSE m]
           F == CHOOSE f : f = Body(f)
<1>1. ASSUME NEW n \in S, n \notin Stop
      PROVE  n % p = 0 /\ down[n] = n \div p /\ down[n] \in S /\ down[n] < n
  BY <1>1, SmallerQuotient
<1>2. \A n \in Stop : n % p # 0 /\ base[n] = n
  OBVIOUS
<1>3. Descends(S, Stop, down)
  <2> DEFINE rank == [n \in S |-> n]
  <2>1. rank \in [S -> Nat] /\ \A n \in S : rank[n] = n
    OBVIOUS
  <2> HIDE DEF rank, down, S, Stop
  <2>2. \A n \in S \ Stop : down[n] \in S /\ rank[down[n]] < rank[n]
    BY <1>1, <2>1
  <2> QED BY <2>1, <2>2 DEF Descends
<1>4. op \in [S \X S -> S] /\ \A n \in S : base[n] \in S
  OBVIOUS
<1>5. \A n \in S, v \in S : op[<<n, v>>] = v
  OBVIOUS
<1>6. PICK f \in [S -> S] : Obeys(f, S, Stop, down, base, op)
  <2> HIDE DEF S, Stop, down, base, op
  <2> QED BY <1>3, <1>4, RecursionExists
<1> HIDE DEF op, down, base
<1>7. f = Body(f)
  <2>1. ASSUME NEW n \in S PROVE f[n] = IF n % p = 0 THEN f[n \div p] ELSE n
    <3>1. CASE n \in Stop
      BY <1>2, <1>6, <3>1 DEF Obeys
    <3>2. CASE n \notin Stop
      <4>1. f[n] = op[<<n, f[down[n]]>>]
        BY <1>6, <3>2 DEF Obeys
      <4> QED BY <1>1, <1>5, <1>6, <3>2, <4>1
    <3> QED BY <3>1, <3>2
  <2> QED BY <1>6, <2>1
<1>8. F = Body(F)
  <2> HIDE DEF Body
  <2> QED BY <1>7
<1>9. \A n \in S : Stripped(n, p) = F[n]
  BY DEF Stripped
<1> HIDE DEF F
<1>10. ASSUME NEW n \in S PROVE F[n] = IF n % p = 0 THEN F[n \div p] ELSE n
  BY <1>8
<1> DEFINE C == {n \in S : F[n] \in S}
<1>11. ASSUME NEW n \in S, n \in Stop \/ down[n] \in C PROVE n \in C
  <2>1. CASE n \in Stop
    BY <1>10, <2>1
  <2>2. CASE n \notin Stop
    BY <1>1, <1>10, <1>11, <2>2
  <2> QED BY <2>1, <2>2
<1> HIDE DEF C
<1>12. S \subseteq C
  <2> HIDE DEF S, Stop
  <2> QED BY <1>3, <1>11, DescentInduction
<1>13. \A n \in S : F[n] \in S
  BY <1>12 DEF C
<1>14. ASSUME NEW n \in S
       PROVE  /\ Stripped(n, p) \in S
              /\ Stripped(n, p) = IF n % p = 0 THEN Stripped(n \div p, p) ELSE n
  <2>1. CASE n % p = 0
    <3>1. n \div p \in S
      BY <2>1, SmallerQuotient
    <3>2. F[n] = F[n \div p]
      BY <1>10, <2>1
    <3> QED BY <1>9, <1>13, <2>1, <3>1, <3>2
  <2>2. CASE n % p # 0
    BY <1>9, <1>10, <1>13, <2>2
  <2> QED BY <2>1, <2>2
<1> QED BY <1>14

\* w is what is left of n when factors p are divided out.
LeftOf(w, n, p) ==
  /\ w \in Nat \ {0} /\ Factor(w, n) /\ w % p # 0
  /\ \A q \in Nat : IsPrime(q) /\ q # p /\ Factor(q, n) => Factor(q, w)

(* What is left has the other prime factors.                               *)
LEMMA StrippedLeaves ==
  ASSUME NEW p \in Nat, IsPrime(p), NEW n \in Nat \ {0}
  PROVE  LeftOf(Stripped(n, p), n, p)
<1> DEFINE S == Nat \ {0}
           Stop == {m \in S : m % p # 0}
           down == [m \in S |-> m \div p]
           C == {m \in S : LeftOf(Stripped(m, p), m, p)}
<1>1. p \in Nat \ {0, 1}
  BY PrimeFactors
<1>2. Descends(S, Stop, down)
  <2> DEFINE rank == [m \in S |-> m]
  <2>1. rank \in [S -> Nat] /\ \A m \in S : rank[m] = m
    OBVIOUS
  <2>2. \A m \in S \ Stop : down[m] \in S /\ down[m] < m
    BY <1>1, SmallerQuotient
  <2> HIDE DEF rank, down, S, Stop
  <2>3. \A m \in S \ Stop : down[m] \in S /\ rank[down[m]] < rank[m]
    BY <2>1, <2>2
  <2> QED BY <2>1, <2>3 DEF Descends
<1>3. ASSUME NEW m \in S, m \in Stop \/ down[m] \in C PROVE m \in C
  <2> DEFINE w == Stripped(m, p)
  <2>1. w \in S /\ w = IF m % p = 0 THEN Stripped(m \div p, p) ELSE m
    BY <1>1, StrippedDef
  <2>2. CASE m % p # 0
    <3>1. m = m * 1
      OBVIOUS
    <3>2. Factor(m, m)
      BY <3>1 DEF Factor
    <3> QED BY <2>1, <2>2, <3>2 DEF LeftOf
  <2>3. CASE m % p = 0
    <3> DEFINE h == m \div p
    <3>1. h \in S /\ m = p * h
      BY <1>1, <2>3, SmallerQuotient
    <3>2. LeftOf(Stripped(h, p), h, p)
      BY <1>3, <2>3
    <3> HIDE DEF h
    <3>3. LeftOf(w, h, p)
      BY <2>1, <2>3, <3>2 DEF h
    <3> HIDE DEF w
    <3>4. Factor(w, m)
      <4>1. h * p = p * h
        BY <3>1, SMT
      <4>2. Factor(h, m)
        BY <1>1, <3>1, <4>1 DEF Factor
      <4> QED BY <2>1, <3>1, <3>3, <4>2, FactorOfFactor DEF LeftOf
    <3>5. ASSUME NEW q \in Nat, IsPrime(q), q # p, Factor(q, m)
          PROVE  Factor(q, w)
      <4>1. Factor(q, h)
        BY <3>1, <3>5, OtherFactor
      <4> QED BY <3>3, <3>5, <4>1 DEF LeftOf
    <3>6. LeftOf(w, m, p)
      BY <3>3, <3>4, <3>5 DEF LeftOf
    <3> QED BY <3>6 DEF w
  <2> QED BY <2>2, <2>3
<1> HIDE DEF C
<1>4. S \subseteq C
  <2> HIDE DEF S, Stop, down
  <2> QED BY <1>2, <1>3, DescentInduction
<1> QED BY <1>4 DEF C

\* v starts with m and divides one listed prime after the other out.
Strips(v, m) ==
  /\ v \in [0..Len(SmoothPrimes) -> Nat \ {0}] /\ v[0] = m
  /\ \A i \in 0..(Len(SmoothPrimes) - 1) :
       v[i + 1] = Stripped(v[i], SmoothPrimes[i + 1])

LEMMA SmoothNumbers ==
  /\ Len(SmoothPrimes) \in Nat
  /\ DOMAIN SmoothPrimes = 1..Len(SmoothPrimes)
  /\ \A i \in 1..Len(SmoothPrimes) :
       SmoothPrimes[i] \in Nat \ {0, 1} /\ IsPrime(SmoothPrimes[i])
BY PrimesAssumption DEF IsPrime

(* The loop over the listed primes.                                        *)
LEMMA SmoothLoop ==
  ASSUME NEW m \in Nat \ {0}
  PROVE  \E v : Strips(v, m)
                /\ v[Len(SmoothPrimes)] = FoldLeft(Stripped, m, SmoothPrimes)
<1> DEFINE primes == SmoothPrimes
           n == Len(primes)
           D == DOMAIN primes
           V == Nat \ {0}
           op == [z \in D \X V |-> Stripped(z[2], primes[z[1]])]
           Step(h) == [s \in SUBSET D |->
                         IF s = {} THEN m
                         ELSE LET i == Max(s) IN Stripped(h[s \ {i}], primes[i])]
           H == CHOOSE h : h = Step(h)
<1>1. /\ n \in Nat /\ D = 1..n
      /\ \A i \in 1..n : primes[i] \in Nat \ {0, 1}
  BY SmoothNumbers
<1>2. IsFiniteSet(D)
  BY <1>1, FS_Interval
<1>3. D \subseteq Int
  BY <1>1
<1>4. ASSUME NEW i \in D, NEW w \in V
      PROVE  Stripped(w, primes[i]) \in V
  BY <1>1, StrippedDef
<1>5. op \in [D \X V -> V] /\ \A i \in D, w \in V : op[<<i, w>>] = Stripped(w, primes[i])
  <2> HIDE DEF V, D, primes
  <2> QED BY <1>4
<1>6. FoldLeft(Stripped, m, SmoothPrimes) = H[D]
  BY DEF FoldLeft, MapThenFoldSet
<1>7. m \in V
  OBVIOUS
<1> HIDE DEF op, D, V, Step, primes
<1>8. PICK g \in [SUBSET D -> V] : LeftFolds(g, D, m, op)
  BY <1>2, <1>3, <1>5, <1>7, LeftFoldExists
<1>9. g = Step(g)
  <2>1. ASSUME NEW s \in SUBSET D
        PROVE  g[s] = IF s = {} THEN m ELSE Stripped(g[s \ {Max(s)}], primes[Max(s)])
    <3>1. CASE s = {}
      BY <1>8, <3>1 DEF LeftFolds
    <3>2. CASE s # {}
      <4>1. Max(s) \in D /\ s \ {Max(s)} \in SUBSET D
        BY <1>8, <3>2 DEF LeftFolds
      <4>2. g[s \ {Max(s)}] \in V
        BY <1>8, <4>1
      <4>3. g[s] = op[<<Max(s), g[s \ {Max(s)}]>>]
        BY <1>8, <3>2 DEF LeftFolds
      <4> QED BY <1>5, <3>2, <4>1, <4>2, <4>3
    <3> QED BY <3>1, <3>2
  <2> QED BY <1>8, <2>1, Zenon DEF Step
<1>10. H = Step(H)
  BY <1>9
<1> HIDE DEF H
<1>11. LeftFollows(H, D, V, m, op)
  <2> SUFFICES ASSUME NEW s \in SUBSET D
               PROVE  /\ s = {} => H[s] = m
                      /\ s # {} /\ H[s \ {Max(s)}] \in V
                           => H[s] = op[<<Max(s), H[s \ {Max(s)}]>>]
    BY DEF LeftFollows
  <2>1. H[s] = IF s = {} THEN m ELSE Stripped(H[s \ {Max(s)}], primes[Max(s)])
    BY <1>10, Zenon DEF Step
  <2>2. s # {} => Max(s) \in D
    BY <1>8 DEF LeftFolds
  <2> QED BY <1>5, <2>1, <2>2
<1>12. PICK v : LeftSteps(v, n, V, m, op) /\ H[1..n] = v[n]
  <2>1. LeftClosed(1..n, V, m, op) /\ LeftFollows(H, 1..n, V, m, op)
    BY <1>1, <1>5, <1>7, <1>11 DEF LeftClosed
  <2> QED BY <1>1, <2>1, LeftPrefixes
<1>13. ASSUME NEW i \in 0..(n - 1)
       PROVE  v[i + 1] = Stripped(v[i], primes[i + 1])
  <2>1. i + 1 \in D /\ i \in 0..n
    BY <1>1
  <2>2. v[i] \in V
    BY <1>12, <2>1 DEF LeftSteps
  <2>3. v[i + 1] = op[<<i + 1, v[i]>>]
    BY <1>12 DEF LeftSteps
  <2> QED BY <1>5, <2>1, <2>2, <2>3
<1>14. v \in [0..n -> V] /\ v[0] = m
  BY <1>12 DEF LeftSteps
<1>15. Strips(v, m)
  BY <1>13, <1>14 DEF Strips, V, primes
<1>16. v[Len(SmoothPrimes)] = FoldLeft(Stripped, m, SmoothPrimes)
  BY <1>1, <1>6, <1>12 DEF primes
<1> QED BY <1>15, <1>16

\* A prime factor of m that is not on the list.
Unlisted(q, m) == IsPrime(q) /\ Factor(q, m) /\ q \notin ToSet(SmoothPrimes)

(* What the loop leaves has all prime factors but the listed ones.         *)
LEMMA SmoothLeaves ==
  ASSUME NEW m \in Nat \ {0}, NEW v, Strips(v, m)
  PROVE  LET w == v[Len(SmoothPrimes)]
         IN  /\ w \in Nat \ {0} /\ Factor(w, m)
             /\ \A i \in DOMAIN SmoothPrimes : ~Factor(SmoothPrimes[i], w)
             /\ \A q \in Nat : Unlisted(q, m) => Factor(q, w)
<1> DEFINE n == Len(SmoothPrimes)
           Left(i, w) ==
             /\ w \in Nat \ {0} /\ Factor(w, m)
             /\ \A j \in 1..i : ~Factor(SmoothPrimes[j], w)
             /\ \A q \in Nat : Unlisted(q, m) => Factor(q, w)
           C == {i \in 0..n : Left(i, v[i])}
<1>1. n \in Nat /\ v[0] = m
  BY SmoothNumbers DEF Strips
<1>2. 0 \in C
  <2>1. m = m * 1
    OBVIOUS
  <2>2. Factor(m, m)
    BY <2>1 DEF Factor
  <2>3. Left(0, m)
    BY <2>2, SMT DEF Unlisted
  <2>4. 0 \in 0..n
    BY <1>1
  <2> HIDE DEF Left, n
  <2> QED BY <1>1, <2>3, <2>4
<1>3. ASSUME NEW i \in 0..(n - 1), i \in C PROVE i + 1 \in C
  <2> DEFINE a == v[i]
             w == v[i + 1]
             p == SmoothPrimes[i + 1]
  <2>1. i \in 0..n /\ i + 1 \in 1..n /\ i + 1 \in 0..n
    BY <1>1
  <2>2. p \in Nat \ {0, 1} /\ IsPrime(p) /\ p \in ToSet(SmoothPrimes)
    BY <2>1, SmoothNumbers DEF ToSet
  <2>3. Left(i, a)
    BY <1>3
  <2>4. w = Stripped(a, p)
    BY <1>3 DEF Strips
  <2> HIDE DEF a, w, p
  <2>5. LeftOf(w, a, p)
    BY <2>2, <2>3, <2>4, StrippedLeaves
  <2>6. w \in Nat \ {0} /\ Factor(w, m)
    BY <2>3, <2>5, FactorOfFactor DEF LeftOf
  <2>7. ~Factor(p, w)
    BY <2>2, <2>5, Factors DEF LeftOf, Factor
  <2>8. ASSUME NEW j \in 1..i, Factor(SmoothPrimes[j], w) PROVE FALSE
    <3>1. SmoothPrimes[j] \in Nat
      BY <2>1, SmoothNumbers
    <3>2. Factor(SmoothPrimes[j], a)
      BY <2>3, <2>5, <2>8, <3>1, FactorOfFactor DEF LeftOf
    <3> QED BY <2>3, <3>2
  <2>9. ASSUME NEW q \in Nat, Unlisted(q, m) PROVE Factor(q, w)
    BY <2>2, <2>3, <2>5, <2>9 DEF LeftOf, Unlisted
  <2>10. \A j \in 1..(i + 1) : j \in 1..i \/ j = i + 1
    OBVIOUS
  <2>11. Left(i + 1, w)
    BY <2>6, <2>7, <2>8, <2>9, <2>10 DEF p
  <2> QED BY <2>1, <2>11 DEF w
<1> HIDE DEF C
<1>4. 0..n \subseteq C
  BY <1>1, <1>2, <1>3, IntervalInduction
<1>5. Left(n, v[n])
  BY <1>1, <1>4 DEF C
<1> QED BY <1>5, SmoothNumbers

(* The filter refuses exactly the numbers one above a product of listed    *)
(* primes.                                                                 *)
LEMMA SmoothMinusOne ==
  ASSUME NEW n \in Nat, n > 2
  PROVE  IsSmoothMinusOne(n) <=>
           \A q \in 2..n : IsPrime(q) /\ (n - 1) % q = 0 => q \in ToSet(SmoothPrimes)
<1> DEFINE m == n - 1
<1>1. m \in Nat \ {0} /\ m > 1
  OBVIOUS
<1> HIDE DEF m
<1>2. PICK v : Strips(v, m)
               /\ v[Len(SmoothPrimes)] = FoldLeft(Stripped, m, SmoothPrimes)
  BY <1>1, SmoothLoop
<1> DEFINE w == v[Len(SmoothPrimes)]
<1>3. /\ w \in Nat \ {0} /\ Factor(w, m)
      /\ \A i \in DOMAIN SmoothPrimes : ~Factor(SmoothPrimes[i], w)
      /\ \A q \in Nat : Unlisted(q, m) => Factor(q, w)
  BY <1>1, <1>2, SmoothLeaves
<1>4. IsSmoothMinusOne(n) <=> w = 1
  BY <1>2 DEF IsSmoothMinusOne, m
<1> HIDE DEF w
<1>5. ASSUME NEW q \in 2..n PROVE m % q = 0 <=> Factor(q, m)
  <2>1. m \in Nat /\ q \in Nat \ {0}
    BY <1>1
  <2> QED BY <2>1, Factors DEF Factor
<1>6. ASSUME w = 1, NEW q \in 2..n, IsPrime(q), m % q = 0, q \notin ToSet(SmoothPrimes)
      PROVE  FALSE
  <2>1. Factor(q, 1)
    BY <1>3, <1>5, <1>6 DEF Unlisted
  <2>2. PICK e \in Nat : 1 = q * e
    BY <2>1 DEF Factor
  <2>3. q \in 1..1
    BY <2>2, FactorBounds
  <2> QED BY <1>6, <2>3
<1>7. ASSUME w # 1
      PROVE  \E q \in 2..n : IsPrime(q) /\ m % q = 0 /\ q \notin ToSet(SmoothPrimes)
  <2>1. w \in Nat /\ w > 1
    BY <1>3, <1>7
  <2>2. PICK q \in 2..w : IsPrime(q) /\ Factor(q, w)
    BY <2>1, PrimeFactorExists
  <2>3. w \in 1..m
    BY <1>1, <1>3, FactorBounds DEF Factor
  <2>4. q \in Nat /\ q \in 2..n
    BY <2>2, <2>3 DEF m
  <2>5. Factor(q, m)
    BY <1>1, <1>3, <2>2, <2>4, FactorOfFactor
  <2>6. q \notin ToSet(SmoothPrimes)
    BY <1>3, <2>2 DEF ToSet
  <2> QED BY <1>5, <2>2, <2>4, <2>5, <2>6
<1> QED BY <1>4, <1>6, <1>7 DEF m

\* What the challenge is meant to be.
Wanted(n) ==
  /\ n % 4 = 3
  /\ \A d \in 2..(n - 1) : ~(n % d = 0)
  /\ \E d \in 2..(n + 1) : d % 2 = 1 /\ (n + 1) % d = 0
  /\ \E q \in 2..n : (n - 1) % q = 0 /\ IsPrime(q) /\ q \notin ToSet(SmoothPrimes)

(* The test of the code accepts the wanted candidates.                     *)
LEMMA AcceptableIsWanted ==
  ASSUME NEW n \in Candidates
  PROVE  Acceptable(n) <=> Wanted(n)
<1>1. n \in Nat \ {0} /\ n + 1 \in Nat \ {0}
  BY SearchAssumption
<1>2. n % 4 = 3 => n > 2
  BY <1>1, SMT
<1>3. IsMersenneLike(n) <=> \A d \in 2..(n + 1) : d % 2 = 1 => (n + 1) % d # 0
  <2>1. Covers(n + 1)
    BY BitsAssumption DEF Covers
  <2> QED BY <1>1, <2>1, PowersOfTwo DEF IsMersenneLike
<1>4. n > 2 => (IsSmoothMinusOne(n) <=>
        \A q \in 2..n : IsPrime(q) /\ (n - 1) % q = 0 => q \in ToSet(SmoothPrimes))
  BY <1>1, SmoothMinusOne
<1>5. n > 2 => (IsPrime(n) <=> \A d \in 2..(n - 1) : ~(n % d = 0))
  <2>1. n > 2 => n > 1
    BY <1>1
  <2> QED BY <2>1, Zenon DEF IsPrime
<1> QED BY <1>2, <1>3, <1>4, <1>5 DEF Acceptable, AlgebraicFilterReject, Wanted

\* The search has passed over no acceptable candidate.
Searched ==
  /\ step \in {"start", "squaring"} => ell = 0
  /\ step = "searching" => ell = 0
  /\ ell = 0 => step \notin {"proving", "proved"}
  /\ step \in {"searching", "proving", "proved"} =>
       \A c \in 0..(counter - 1) : ~Acceptable(hash[c])
  /\ ell # 0 => ell = hash[counter] /\ Acceptable(ell)

LEMMA SearchedStep ==
  VdfTypeOK /\ Searched /\ [VdfNext]_vdfVars => Searched'
<1> SUFFICES ASSUME VdfTypeOK, Searched, [VdfNext]_vdfVars PROVE Searched'
  OBVIOUS
<1> USE DEF Searched
<1> DEFINE Fits(n) == Acceptable(n)
<1>1. CASE Evaluate
  BY <1>1 DEF Evaluate
<1>2. CASE Square
  BY <1>2 DEF Square
<1>3. CASE Output
  BY <1>3 DEF Output
<1>4. CASE RejectCandidate
  <2>1. /\ step = "searching" /\ ~Acceptable(hash[counter])
        /\ counter' = (counter + 1) % Counters /\ UNCHANGED <<step, hash, ell>>
    BY <1>4 DEF RejectCandidate, NextCounter
  <2>2. counter \in 0..(Counters - 1) /\ Counters \in Nat \ {0}
    BY SearchAssumption DEF VdfTypeOK
  <2>3. counter' = counter + 1 \/ counter' = 0
    <3>1. CASE counter + 1 < Counters
      <4>1. counter + 1 = (counter + 1) + 0 * Counters
        BY <2>2
      <4> QED BY <2>1, <2>2, <3>1, <4>1, RemainderOf
    <3>2. CASE counter + 1 = Counters
      <4>1. Counters = 0 + 1 * Counters /\ 0 \in 0..(Counters - 1)
        BY <2>2
      <4>2. Counters % Counters = 0
        BY <2>2, <4>1, RemainderOf
      <4> QED BY <2>1, <3>2, <4>2
    <3> QED BY <2>2, <3>1, <3>2
  <2>4. ASSUME NEW c \in 0..(counter' - 1) PROVE ~Acceptable(hash[c])
    <3>1. c \in 0..(counter - 1) \/ c = counter
      BY <2>2, <2>3
    <3> QED BY <2>1, <3>1
  <2> QED BY <2>1, <2>4
<1>5. CASE AcceptCandidate
  <2>1. ell' # 0
    <3>1. hash[counter] \in Candidates
      BY DEF VdfTypeOK
    <3> QED BY <1>5, <3>1, SearchAssumption DEF AcceptCandidate
  <2> QED BY <1>5, <2>1 DEF AcceptCandidate
<1>6. CASE GenerateProof
  BY <1>6 DEF GenerateProof
<1>7. CASE UNCHANGED vdfVars
  BY <1>7 DEF vdfVars
<1> QED BY <1>1, <1>2, <1>3, <1>4, <1>5, <1>6, <1>7 DEF VdfNext

LEMMA SearchedFits ==
  VdfTypeOK /\ Searched => ChallengeIsFirstFit
<1> SUFFICES ASSUME VdfTypeOK, Searched, ell # 0
             PROVE  /\ Wanted(ell) /\ ell = hash[counter]
                    /\ \A c \in 0..(counter - 1) : ~Wanted(hash[c])
  BY DEF ChallengeIsFirstFit, Wanted
<1>1. /\ step \in {"proving", "proved"} /\ ell \in Candidates
      /\ ell = hash[counter] /\ Acceptable(ell)
      /\ \A c \in 0..(counter - 1) : ~Acceptable(hash[c])
  BY DEF Searched, VdfTypeOK
<1>2. \A c \in 0..(counter - 1) : hash[c] \in Candidates
  BY SearchAssumption DEF VdfTypeOK
<1> QED BY <1>1, <1>2, AcceptableIsWanted

(* The challenge is the first candidate that is wanted, whatever the hash  *)
(* yields and wherever its counter wraps: what the code tests by the bit   *)
(* length and by dividing out the listed primes is that ell + 1 has an odd *)
(* factor and ell - 1 a prime factor that is not listed.                   *)
THEOREM ChallengesFitFirst == VdfSpec => []ChallengeIsFirstFit
<1>1. VdfInit => VdfInv /\ Searched
  BY VdfInitInv DEF VdfInit, Searched
<1>2. VdfInv /\ Searched /\ [VdfNext]_vdfVars => VdfInv' /\ Searched'
  BY VdfStepInv, SearchedStep DEF VdfInv
<1>3. VdfInv /\ Searched => ChallengeIsFirstFit
  BY SearchedFits DEF VdfInv
<1> QED BY <1>1, <1>2, <1>3, PTL DEF VdfSpec

(* The challenge of a pipeline run is the first wanted candidate.          *)
THEOREM PipelineChallengesFit == Spec => []ChallengeIsFirstFit
BY PipelineImplementsDelay, ChallengesFitFirst, PTL

-----------------------------------------------------------------------------
(* Numbers and strings of bytes. *)

(* A number below the modulus is its own remainder.                        *)
LEMMA SmallRemainder ==
  ASSUME NEW n \in Nat \ {0}, NEW a \in 0..(n - 1)
  PROVE  a % n = a
  BY SMT

(* A function on an initial interval is a sequence.                        *)
LEMMA IsSequence ==
  ASSUME NEW S, NEW n \in Nat, NEW f \in [1..n -> S]
  PROVE  f \in Seq(S) /\ Len(f) = n
  OBVIOUS

LEMMA IsFunction ==
  ASSUME NEW S, NEW f \in Seq(S)
  PROVE  f \in [1..Len(f) -> S] /\ Len(f) \in Nat
  OBVIOUS

LEMMA Prefix ==
  ASSUME NEW S, NEW s \in Seq(S), NEW m \in 0..Len(s)
  PROVE  SubSeq(s, 1, m) \in Seq(S) /\ Len(SubSeq(s, 1, m)) = m
  OBVIOUS

(* Where the elements of two sequences are once they are put together.     *)
LEMMA Positions ==
  ASSUME NEW S, NEW a \in Seq(S), NEW b \in Seq(S)
  PROVE  /\ a \o b \in Seq(S) /\ Len(a \o b) = Len(a) + Len(b)
         /\ DOMAIN (a \o b) = 1..(Len(a) + Len(b))
         /\ \A i \in 1..Len(a) : (a \o b)[i] = a[i]
         /\ \A i \in 1..Len(b) : (a \o b)[Len(a) + i] = b[i]
  OBVIOUS

(* One quotient and one remainder give back a number.                      *)
LEMMA QuotientOf ==
  ASSUME NEW a \in Nat, NEW n \in Nat \ {0}, NEW q \in Nat, NEW r \in 0..(n - 1),
         a = q * n + r
  PROVE  a \div n = q /\ a % n = r
<1> DEFINE p == a \div n
           s == a % n
           d == p - q
<1>1. p \in Nat /\ s \in 0..(n - 1) /\ a = p * n + s
  BY DivisionWithRemainder
<1> HIDE DEF p, s
<1>2. d \in Int
  BY <1>1
<1>3. p * n - q * n = d * n
  BY <1>1, SMT
<1> DEFINE e == d * n
           u == p * n
           v == q * n
<1>4. u \in Int /\ v \in Int /\ a = u + s /\ a = v + r /\ u - v = e /\ e \in Int
  BY <1>1, <1>2, <1>3
<1>5. (d >= 1 => e >= n) /\ (d <= -1 => e <= -n) /\ (d = 0 => e = 0)
  BY <1>2, SMT
<1> HIDE DEF e, u, v
<1>6. e = r - s
  BY <1>1, <1>4
<1>7. d = 0
  <2> HIDE DEF d
  <2> QED BY <1>1, <1>2, <1>5, <1>6
<1>8. p = q /\ r = s
  BY <1>1, <1>5, <1>6, <1>7
<1> QED BY <1>8 DEF p, s

(* P lists the powers of B to the n-th.                                    *)
Powers(P, B, n) ==
  /\ P \in [0..n -> Nat \ {0}] /\ P[0] = 1
  /\ \A i \in 0..(n - 1) : P[i + 1] = B * P[i]

\* v is what is read after each digit of d.
Reads(v, d, B, n) ==
  /\ v \in [0..n -> Nat] /\ v[0] = 0
  /\ \A i \in 0..(n - 1) : v[i + 1] = v[i] * B + d[i + 1]

LEMMA PowersOfByte ==
  ASSUME NEW n \in 0..(MsgBytes + FieldBytes + RequestBytes + ElementBytes)
  PROVE  Powers([i \in 0..n |-> Byte ^ i], Byte, n)
<1> DEFINE B == Byte
           P == [i \in 0..n |-> Byte ^ i]
           C == {i \in 0..n : P[i] # 0}
<1>1. Byte \in Nat \ {0}
  <2>1. Nibble \in Nat \ {0}
    BY CircuitAssumption
  <2> QED BY <2>1, SMT DEF Byte
<1> DEFINE last == MsgBytes + FieldBytes + RequestBytes + ElementBytes
<1>0. /\ last \in Nat /\ n \in 0..last
      /\ \A i \in 0..last : Byte ^ i \in Nat /\ Byte ^ (i + 1) = Byte * Byte ^ i
  <2>1. MsgBytes \in Nat /\ FieldBytes \in Nat /\ RequestBytes \in Nat
    BY CircuitAssumption
  <2>2. ElementBytes \in Nat
    BY PipelineAssumption
  <2>3. last \in Nat
    BY <2>1, <2>2
  <2> QED BY <2>3, PowerAssumption
<1> HIDE DEF last
<1>2. P \in [0..n -> Nat]
  <2>1. \A i \in 0..n : Byte ^ i \in Nat
    BY <1>0
  <2> QED BY <2>1
<1>3. P[0] = 1
  BY <1>0, PowerAssumption
<1>4. ASSUME NEW i \in 0..(n - 1)
      PROVE  P[i + 1] = Byte * P[i]
  <2>1. i \in 0..last /\ i \in 0..n /\ i + 1 \in 0..n
    BY <1>0
  <2>2. P[i] = Byte ^ i /\ P[i + 1] = Byte ^ (i + 1)
    BY <2>1
  <2>3. Byte ^ (i + 1) = Byte * Byte ^ i
    BY <1>0, <2>1
  <2> QED BY <2>2, <2>3
<1> HIDE DEF P
<1>5. 0 \in C
  BY <1>3
<1>6. \A i \in 0..(n - 1) : i \in C => i + 1 \in C
  <2> SUFFICES ASSUME NEW i \in 0..(n - 1), P[i] # 0 PROVE P[i + 1] # 0
    OBVIOUS
  <2> DEFINE p == P[i]
             q == P[i + 1]
  <2>1. p \in Nat \ {0} /\ q = Byte * p
    BY <1>2, <1>4
  <2> HIDE DEF p, q
  <2>2. q # 0
    BY <1>1, <2>1, SMT
  <2> QED BY <2>2 DEF q
<1> HIDE DEF C
<1>7. 0..n \subseteq C
  BY <1>5, <1>6, IntervalInduction
<1>8. P \in [0..n -> Nat \ {0}]
  BY <1>2, <1>7 DEF C
<1> QED BY <1>3, <1>4, <1>8 DEF Powers, P

(* The digits read after the i-th shift what was read by then and are a    *)
(* number with as many digits.                                             *)
ReadsOn(v, P, n) ==
  \A i \in 0..n : \A j \in 0..(n - i) :
    \E r \in 0..(P[j] - 1) : v[i + j] = v[i] * P[j] + r

LEMMA ReadOn ==
  ASSUME NEW B \in Nat \ {0}, NEW n \in Nat, NEW P, Powers(P, B, n),
         NEW d \in [1..n -> 0..(B - 1)], NEW v, Reads(v, d, B, n)
  PROVE  ReadsOn(v, P, n)
<1> SUFFICES ASSUME NEW i \in 0..n
             PROVE  \A j \in 0..(n - i) :
                      \E r \in 0..(P[j] - 1) : v[i + j] = v[i] * P[j] + r
  BY DEF ReadsOn
<1> DEFINE C == {at \in 0..(n - i) : \E r \in 0..(P[at] - 1) : v[i + at] = v[i] * P[at] + r}
<1>1. v[i] \in Nat /\ n - i \in Nat
  BY DEF Reads
<1>2. 0 \in C
  <2>1. P[0] = 1 /\ v[i + 0] = v[i] * 1 + 0
    BY <1>1, SMT DEF Powers
  <2> QED BY <1>1, <2>1
<1>3. \A at \in 0..((n - i) - 1) : at \in C => at + 1 \in C
  <2> SUFFICES ASSUME NEW at \in 0..((n - i) - 1), at \in C PROVE at + 1 \in C
    OBVIOUS
  <2>1. PICK r \in 0..(P[at] - 1) : v[i + at] = v[i] * P[at] + r
    OBVIOUS
  <2> HIDE DEF C
  <2> DEFINE a == v[i]
             p == P[at]
             whole == v[i + at]
             c == d[i + at + 1]
             q == P[at + 1]
             z == v[i + (at + 1)]
  <2>a. /\ at \in 0..(n - 1) /\ at \in 0..n /\ at + 1 \in 0..(n - i)
        /\ i + at \in 0..(n - 1) /\ i + at \in 0..n /\ i + at + 1 \in 1..n
        /\ i + (at + 1) = (i + at) + 1
    <3>1. i \in 0..n /\ at \in Int /\ 0 <= at /\ at <= (n - i) - 1
      OBVIOUS
    <3>2. /\ at \in 0..(n - 1) /\ at \in 0..n /\ at + 1 \in 0..(n - i)
      BY ONLY n \in Nat, <3>1
    <3>3. /\ i + at \in 0..(n - 1) /\ i + at \in 0..n /\ i + at + 1 \in 1..n
          /\ i + (at + 1) = (i + at) + 1
      BY ONLY n \in Nat, <3>1
    <3> QED BY <3>2, <3>3
  <2>b. a \in Nat /\ p \in Nat \ {0} /\ whole \in Nat
    BY <2>a DEF Powers, Reads
  <2>c. c \in 0..(B - 1) /\ whole = a * p + r /\ r \in 0..(p - 1)
    BY <2>a, <2>1
  <2>d. q = B * p
    BY <2>a DEF Powers
  <2>e. z = whole * B + c
    BY <2>a DEF Reads
  <2>2. /\ a \in Nat /\ p \in Nat \ {0} /\ whole \in Nat /\ c \in 0..(B - 1)
        /\ q = B * p /\ z = whole * B + c /\ whole = a * p + r
        /\ r \in 0..(p - 1) /\ at + 1 \in 0..(n - i)
    BY <2>a, <2>b, <2>c, <2>d, <2>e
  <2> SUFFICES \E s \in 0..(q - 1) : z = a * q + s
    BY <2>2 DEF C
  <2> HIDE DEF a, p, whole, c, q, z
  <2>3. (a * p + r) * B = a * (B * p) + r * B
    BY <2>2, SMT
  <2>4. r * B + c \in 0..(q - 1)
    <3> DEFINE m == p - 1 - r
    <3>1. m \in Nat
      BY <2>2
    <3>2. B * p = r * B + B + m * B
      BY <2>2, SMT
    <3> DEFINE rB == r * B
               mB == m * B
               Bp == B * p
    <3>3. rB \in Nat /\ mB \in Nat
      BY <2>2, <3>1, SMT
    <3>4. Bp = rB + B + mB /\ q = Bp
      BY <2>2, <3>2
    <3> HIDE DEF rB, mB, Bp, m
    <3>5. rB + c \in 0..(q - 1)
      BY <2>2, <3>3, <3>4
    <3> QED BY <3>5 DEF rB
  <2>5. z = a * q + (r * B + c)
    <3> DEFINE u == a * (B * p)
               w == r * B
    <3>1. z = (u + w) + c /\ a * q = u
      BY <2>2, <2>3
    <3>2. u \in Nat /\ w \in Nat
      BY <2>2, SMT
    <3> HIDE DEF u, w
    <3>3. z = u + (w + c)
      BY <2>2, <3>1, <3>2
    <3> QED BY <3>1, <3>3 DEF w
  <2> QED BY <2>4, <2>5
<1> HIDE DEF C
<1>4. 0..(n - i) \subseteq C
  BY <1>1, <1>2, <1>3, IntervalInduction
<1> QED BY <1>4 DEF C

(* A number that is read from n digits has them.                           *)
LEMMA DigitsOfRead ==
  ASSUME NEW B \in Nat \ {0}, NEW n \in Nat, NEW P, Powers(P, B, n),
         NEW d \in [1..n -> 0..(B - 1)], NEW v, Reads(v, d, B, n)
  PROVE  /\ v[n] \in 0..(P[n] - 1)
         /\ \A i \in 1..n : (v[n] \div P[n - i]) % B = d[i]
<1>0. ReadsOn(v, P, n)
  BY ReadOn
<1>1. v[n] \in 0..(P[n] - 1)
  <2>1. PICK r \in 0..(P[n] - 1) : v[0 + n] = v[0] * P[n] + r
    BY <1>0 DEF ReadsOn
  <2>2. v[0] = 0 /\ P[n] \in Nat
    BY DEF Reads, Powers
  <2>3. v[0] * P[n] = 0
    BY <2>2, SMT
  <2> QED BY <2>1, <2>3
<1>2. ASSUME NEW i \in 1..n
      PROVE  (v[n] \div P[n - i]) % B = d[i]
  <2>a. /\ i \in 0..n /\ n - i \in 0..n /\ n - i \in 0..(n - i) /\ n \in 0..n
        /\ i + (n - i) = n /\ i - 1 \in 0..(n - 1) /\ i - 1 \in 0..n
        /\ (i - 1) + 1 = i
    OBVIOUS
  <2>0. \A j \in 0..(n - i) : \E r \in 0..(P[j] - 1) : v[i + j] = v[i] * P[j] + r
    BY <2>a, <1>0 DEF ReadsOn
  <2>1. PICK r \in 0..(P[n - i] - 1) : v[i + (n - i)] = v[i] * P[n - i] + r
    BY <2>a, <2>0, Zenon
  <2>b. v[n] \in Nat /\ v[i] \in Nat /\ v[i - 1] \in Nat
    BY <2>a DEF Reads
  <2>c. P[n - i] \in Nat \ {0}
    BY <2>a DEF Powers
  <2>2. /\ v[n] \in Nat /\ v[i] \in Nat /\ P[n - i] \in Nat \ {0}
        /\ i + (n - i) = n /\ i - 1 \in 0..(n - 1) /\ (i - 1) + 1 = i
        /\ d[i] \in 0..(B - 1)
    BY <2>a, <2>b, <2>c
  <2>3. v[n] \div P[n - i] = v[i]
    <3> DEFINE a == v[n]
               p == P[n - i]
               q == v[i]
    <3>1. a \in Nat /\ p \in Nat \ {0} /\ q \in Nat /\ r \in 0..(p - 1) /\ a = q * p + r
      BY <2>1, <2>2
    <3> HIDE DEF a, p, q
    <3>2. a \div p = q
      BY <3>1, QuotientOf
    <3> QED BY <3>2 DEF a, p, q
  <2>4. v[i] = v[i - 1] * B + d[i] /\ v[i - 1] \in Nat
    BY <2>a, <2>b DEF Reads
  <2>5. v[i] % B = d[i]
    <3> DEFINE a == v[i]
               q == v[i - 1]
               c == d[i]
    <3>1. a \in Nat /\ q \in Nat /\ c \in 0..(B - 1) /\ a = q * B + c
      BY <2>2, <2>4
    <3> HIDE DEF a, q, c
    <3>2. a % B = c
      BY <3>1, QuotientOf
    <3> QED BY <3>2 DEF a, c
  <2> QED BY <2>3, <2>5
<1> QED BY <1>1, <1>2

(* What from_str_radix and the parsing of a hash do with bytes.            *)
LEMMA ReadsBytes ==
  ASSUME NEW n \in Nat, NEW d \in [1..n -> 0..(Byte - 1)]
  PROVE  \E v : Reads(v, d, Byte, n) /\ v[n] = FromBigEndian(d)
<1> DEFINE D == DOMAIN d
           V == Nat
           Add(value, byte) == value * Byte + byte
           op == [p \in D \X V |-> Add(p[2], d[p[1]])]
           Step(h) == [s \in SUBSET D |->
                         IF s = {} THEN 0
                         ELSE LET i == Max(s) IN Add(h[s \ {i}], d[i])]
           H == CHOOSE h : h = Step(h)
<1>1. D = 1..n
  OBVIOUS
<1>2. IsFiniteSet(D)
  BY <1>1, FS_Interval
<1>3. D \subseteq Int
  BY <1>1
<1>4. Byte \in Nat \ {0} /\ \A i \in 1..n : d[i] \in Nat
  <2>1. Nibble \in Nat \ {0}
    BY CircuitAssumption
  <2> QED BY <2>1, SMT DEF Byte
<1>5. ASSUME NEW i \in D, NEW v \in V
      PROVE  Add(v, d[i]) \in V
  <2> DEFINE b == Byte
             c == d[i]
  <2>1. b \in Nat /\ c \in Nat /\ v \in Nat
    BY <1>1, <1>4
  <2> HIDE DEF b, c
  <2>2. v * b \in Nat
    BY <2>1, SMT
  <2>3. v * b + c \in Nat
    BY <2>1, <2>2
  <2> QED BY <2>3 DEF b, c
<1>6. op \in [D \X V -> V] /\ \A i \in D, v \in V : op[<<i, v>>] = Add(v, d[i])
  <2> HIDE DEF Add
  <2> QED BY <1>5
<1>7. FromBigEndian(d) = H[D]
  BY DEF FromBigEndian, FoldLeft, MapThenFoldSet
<1> HIDE DEF op, D, V, Add, Step
<1>8. 0 \in V
  BY DEF V
<1>9. PICK g \in [SUBSET D -> V] : LeftFolds(g, D, 0, op)
  BY <1>2, <1>3, <1>6, <1>8, LeftFoldExists
<1>10. g = Step(g)
  BY <1>6, <1>9 DEF Step, LeftFolds
<1>11. H = Step(H)
  BY <1>10
<1> HIDE DEF H
<1>12. LeftFollows(H, D, V, 0, op)
  <2> SUFFICES ASSUME NEW s \in SUBSET D
               PROVE  /\ s = {} => H[s] = 0
                      /\ s # {} /\ H[s \ {Max(s)}] \in V
                           => H[s] = op[<<Max(s), H[s \ {Max(s)}]>>]
    BY DEF LeftFollows
  <2>1. H[s] = IF s = {} THEN 0 ELSE Add(H[s \ {Max(s)}], d[Max(s)])
    BY <1>11, Zenon DEF Step
  <2>2. s # {} => Max(s) \in D
    BY <1>9 DEF LeftFolds
  <2> QED BY <1>6, <2>1, <2>2
<1>13. PICK v : LeftSteps(v, n, V, 0, op) /\ H[1..n] = v[n]
  <2>1. LeftClosed(1..n, V, 0, op) /\ LeftFollows(H, 1..n, V, 0, op)
    BY <1>1, <1>6, <1>8, <1>12 DEF LeftClosed
  <2> QED BY <2>1, LeftPrefixes
<1>14. ASSUME NEW i \in 0..(n - 1)
       PROVE  v[i + 1] = v[i] * Byte + d[i + 1]
  <2>1. i + 1 \in D /\ i \in 0..n
    BY <1>1
  <2>2. v[i] \in V
    BY <1>13, <2>1 DEF LeftSteps
  <2>3. v[i + 1] = op[<<i + 1, v[i]>>]
    BY <1>13 DEF LeftSteps
  <2> QED BY <1>6, <2>1, <2>2, <2>3 DEF Add
<1>15. Reads(v, d, Byte, n)
  BY <1>13, <1>14 DEF Reads, V, LeftSteps
<1> QED BY <1>1, <1>7, <1>13, <1>15

\* v is the sum of the digits of f before each place.
Places(v, f, P, B, n) ==
  /\ v \in [0..n -> Nat] /\ v[0] = 0
  /\ \A i \in 0..(n - 1) : v[i + 1] = v[i] + ((f \div P[i]) % B) * P[i]

(* The digits of a number, each at its place, add up to it.                *)
LEMMA SumOfDigits ==
  ASSUME NEW B \in Nat \ {0}, NEW n \in Nat, NEW P, Powers(P, B, n),
         NEW f \in 0..(P[n] - 1), NEW v, Places(v, f, P, B, n)
  PROVE  v[n] = f
<1>0. /\ v \in [0..n -> Nat] /\ v[0] = 0
      /\ \A i \in 0..(n - 1) : v[i + 1] = v[i] + ((f \div P[i]) % B) * P[i]
  BY DEF Places
<1> DEFINE C == {i \in 0..n : v[i] = f % P[i]}
<1>1. P[n] \in Nat \ {0} /\ f \in Nat
  BY DEF Powers
<1>2. 0 \in C
  <2>1. f % 1 = 0
    BY <1>1, SMT
  <2> QED BY <1>0, <2>1 DEF Powers
<1>3. \A i \in 0..(n - 1) : i \in C => i + 1 \in C
  <2> SUFFICES ASSUME NEW i \in 0..(n - 1), i \in C PROVE i + 1 \in C
    OBVIOUS
  <2>1. i \in 0..n /\ i + 1 \in 0..n
    OBVIOUS
  <2> DEFINE p == P[i]
             q == f \div p
             r == f % p
             c == q % B
             e == q \div B
             z == P[i + 1]
             total == v[i + 1]
  <2>2. p \in Nat \ {0} /\ z \in Nat \ {0} /\ z = B * p
    BY <2>1 DEF Powers
  <2>3. v[i] = r /\ total = r + c * p
    <3>1. v[i] = r
      OBVIOUS
    <3>2. v[i + 1] = v[i] + ((f \div P[i]) % B) * P[i]
      BY <1>0
    <3>3. ((f \div P[i]) % B) * P[i] \in Int /\ v[i] \in Nat
      <4>1. P[i] \in Nat \ {0}
        BY <2>1 DEF Powers
      <4>2. f \div P[i] \in Nat
        BY <1>1, <4>1, DivisionWithRemainder
      <4>3. (f \div P[i]) % B \in Int
        BY <4>2, DivisionWithRemainder
      <4> QED BY <1>0, <2>1, <4>1, <4>3, SMT
    <3> HIDE DEF C
    <3> QED BY <3>1, <3>2, <3>3
  <2> SUFFICES total = f % z
    BY <2>1
  <2> HIDE DEF p, z, total, C
  <2>4. q \in Nat /\ r \in 0..(p - 1) /\ f = q * p + r
    BY <1>1, <2>2, DivisionWithRemainder
  <2> HIDE DEF q, r
  <2>5. e \in Nat /\ c \in 0..(B - 1) /\ q = e * B + c
    BY <2>4, DivisionWithRemainder
  <2> HIDE DEF e, c
  <2>6. (e * B + c) * p = e * (B * p) + c * p
    BY <2>2, <2>5, SMT
  <2>7. r + c * p \in 0..(z - 1)
    <3> DEFINE m == B - 1 - c
    <3>1. m \in Nat
      BY <2>5
    <3>2. B * p = c * p + p + m * p
      BY <2>2, <2>5, SMT
    <3> DEFINE cp == c * p
               mp == m * p
               Bp == B * p
    <3>3. cp \in Nat /\ mp \in Nat
      BY <2>2, <2>5, <3>1, SMT
    <3>4. Bp = cp + p + mp /\ z = Bp
      BY <2>2, <3>2
    <3> HIDE DEF cp, mp, Bp, m
    <3>5. r + cp \in 0..(z - 1)
      BY <2>2, <2>4, <3>3, <3>4
    <3> QED BY <3>5 DEF cp
  <2>8. f = e * z + (r + c * p)
    <3> DEFINE u == e * (B * p)
               w == c * p
    <3>1. f = (u + w) + r /\ e * z = u
      BY <2>2, <2>4, <2>5, <2>6
    <3>2. u \in Nat /\ w \in Nat
      BY <2>2, <2>5, SMT
    <3> HIDE DEF u, w
    <3>3. f = u + (r + w)
      BY <1>1, <2>2, <2>4, <3>1, <3>2
    <3> QED BY <3>1, <3>3 DEF w
  <2> DEFINE rest == r + c * p
  <2> HIDE DEF rest
  <2>9. rest \in 0..(z - 1) /\ f = e * z + rest
    BY <2>7, <2>8 DEF rest
  <2>10. f % z = rest
    BY <1>1, <2>2, <2>5, <2>9, QuotientOf
  <2> QED BY <2>3, <2>10 DEF rest
<1> HIDE DEF C
<1>4. 0..n \subseteq C
  BY <1>2, <1>3, IntervalInduction
<1>5. v[n] = f % P[n]
  BY <1>4 DEF C
<1>6. f % P[n] = f
  BY <1>1, SmallRemainder
<1> QED BY <1>5, <1>6

(* The sum over the little-endian bytes gives back the field element.      *)
LEMMA FieldElementSurvives ==
  ASSUME NEW f \in 0..(Prime - 1)
  PROVE  FormatFieldElement(f) = f
<1> DEFINE n == FieldBytes
           seq == [i \in 1..n |-> i - 1]
           D == DOMAIN seq
           V == Nat
           P == [i \in 0..n |-> Byte ^ i]
           Add(value, i) == value + ((f \div Byte ^ i) % Byte) * Byte ^ i
           op == [p \in D \X V |-> Add(p[2], seq[p[1]])]
           Step(h) == [s \in SUBSET D |->
                         IF s = {} THEN 0
                         ELSE LET i == Max(s) IN Add(h[s \ {i}], seq[i])]
           H == CHOOSE h : h = Step(h)
<1>0. n \in Nat /\ n \in 0..(MsgBytes + FieldBytes + RequestBytes + ElementBytes)
  <2>1. MsgBytes \in Nat /\ FieldBytes \in Nat /\ RequestBytes \in Nat
    BY CircuitAssumption
  <2>2. ElementBytes \in Nat
    BY PipelineAssumption
  <2> QED BY <2>1, <2>2
<1>1. D = 1..n /\ \A i \in 1..n : seq[i] = i - 1
  OBVIOUS
<1>2. IsFiniteSet(D)
  BY <1>0, <1>1, FS_Interval
<1>3. D \subseteq Int
  BY <1>1
<1>4. Byte \in Nat \ {0} /\ Powers(P, Byte, n)
  <2>1. Nibble \in Nat \ {0}
    BY CircuitAssumption
  <2>2. Byte \in Nat \ {0}
    BY <2>1, SMT DEF Byte
  <2> QED BY <1>0, <2>2, PowersOfByte
<1>a. f \in Nat /\ f \in 0..(P[n] - 1)
  <2>1. P[n] = Byte ^ FieldBytes
    BY <1>0
  <2> HIDE DEF P
  <2>2. P[n] \in Nat
    BY <1>0, <1>4 DEF Powers
  <2>3. Prime \in Nat /\ Prime <= Byte ^ FieldBytes
    BY CircuitAssumption
  <2> QED BY <2>1, <2>2, <2>3
<1> HIDE DEF seq
<1>5. ASSUME NEW i \in D, NEW v \in V
      PROVE  Add(v, seq[i]) \in V
  <2> DEFINE p == Byte ^ seq[i]
             q == f \div p
             c == q % Byte
  <2>1. seq[i] \in 0..n /\ p = P[seq[i]]
    BY <1>0, <1>1
  <2> HIDE DEF p, P
  <2>2. p \in Nat \ {0}
    BY <1>4, <2>1 DEF Powers
  <2>3. q \in Nat
    BY <1>a, <2>2, DivisionWithRemainder
  <2> HIDE DEF q
  <2>4. c \in Nat
    BY <1>4, <2>3, DivisionWithRemainder
  <2> HIDE DEF c
  <2>5. c * p \in Nat
    BY <2>2, <2>4, SMT
  <2>6. v + c * p \in Nat
    BY <2>5
  <2> QED BY <2>6 DEF c, q, p
<1>6. op \in [D \X V -> V] /\ \A i \in D, v \in V : op[<<i, v>>] = Add(v, seq[i])
  <2> HIDE DEF Add
  <2> QED BY <1>5
<1>7. FormatFieldElement(f) = H[D]
  BY DEF FormatFieldElement, FoldLeft, MapThenFoldSet, seq
<1> HIDE DEF op, D, V, Add, Step
<1>8. 0 \in V
  BY DEF V
<1>9. PICK g \in [SUBSET D -> V] : LeftFolds(g, D, 0, op)
  BY <1>2, <1>3, <1>6, <1>8, LeftFoldExists
<1>10. g = Step(g)
  BY <1>6, <1>9 DEF Step, LeftFolds
<1>11. H = Step(H)
  BY <1>10
<1> HIDE DEF H
<1>12. LeftFollows(H, D, V, 0, op)
  <2> SUFFICES ASSUME NEW s \in SUBSET D
               PROVE  /\ s = {} => H[s] = 0
                      /\ s # {} /\ H[s \ {Max(s)}] \in V
                           => H[s] = op[<<Max(s), H[s \ {Max(s)}]>>]
    BY DEF LeftFollows
  <2>1. H[s] = IF s = {} THEN 0 ELSE Add(H[s \ {Max(s)}], seq[Max(s)])
    BY <1>11, Zenon DEF Step
  <2>2. s # {} => Max(s) \in D
    BY <1>9 DEF LeftFolds
  <2> QED BY <1>6, <2>1, <2>2
<1>13. PICK v : LeftSteps(v, n, V, 0, op) /\ H[1..n] = v[n]
  <2>1. LeftClosed(1..n, V, 0, op) /\ LeftFollows(H, 1..n, V, 0, op)
    BY <1>1, <1>6, <1>8, <1>12 DEF LeftClosed
  <2> QED BY <1>0, <2>1, LeftPrefixes
<1>14. ASSUME NEW i \in 0..(n - 1)
       PROVE  v[i + 1] = v[i] + ((f \div P[i]) % Byte) * P[i]
  <2>1. i + 1 \in D /\ i \in 0..n /\ seq[i + 1] = i /\ P[i] = Byte ^ i
    BY <1>0, <1>1
  <2>2. v[i] \in V
    BY <1>13, <2>1 DEF LeftSteps
  <2>3. v[i + 1] = op[<<i + 1, v[i]>>]
    BY <1>13 DEF LeftSteps
  <2>4. v[i + 1] = Add(v[i], i)
    BY <1>6, <2>1, <2>2, <2>3
  <2> HIDE DEF P
  <2> QED BY <2>1, <2>4, Zenon DEF Add
<1> HIDE DEF P
<1>15. Places(v, f, P, Byte, n)
  BY <1>13, <1>14 DEF LeftSteps, V, Places
<1>16. v[n] = f
  BY <1>0, <1>4, <1>a, <1>15, SumOfDigits
<1> QED BY <1>1, <1>7, <1>13, <1>16

\* a and b are the halves of d.
Halves(d, a, b, h) == \A i \in 1..h : a[i] = d[i] /\ b[i] = d[h + i]

(* Reading one string after another shifts the first by the length of the  *)
(* second.                                                                 *)
LEMMA ReadTwo ==
  ASSUME NEW B \in Nat \ {0}, NEW h \in Nat, NEW n \in Nat, n = 2 * h,
         NEW P, Powers(P, B, n), NEW d \in [1..n -> 0..(B - 1)],
         NEW a, NEW b, Halves(d, a, b, h),
         NEW v, Reads(v, d, B, n), NEW u, Reads(u, a, B, h), NEW w, Reads(w, b, B, h)
  PROVE  v[n] = u[h] * P[h] + w[h]
<1> DEFINE C == {i \in 0..h : v[i] = u[i]}
           K == {j \in 0..h : v[h + j] = u[h] * P[j] + w[j]}
<1>1. 0 \in C
  BY DEF Reads
<1>2. ASSUME NEW i \in 0..(h - 1), i \in C PROVE i + 1 \in C
  <2>1. i \in 0..(n - 1) /\ i + 1 \in 1..h /\ i + 1 \in 0..h
    OBVIOUS
  <2>2. v[i + 1] = v[i] * B + d[i + 1] /\ u[i + 1] = u[i] * B + a[i + 1]
    BY <2>1 DEF Reads
  <2>3. v[i] = u[i] /\ a[i + 1] = d[i + 1]
    BY <1>2, <2>1 DEF Halves
  <2> QED BY <2>1, <2>2, <2>3
<1> HIDE DEF C
<1>3. 0..h \subseteq C
  BY <1>1, <1>2, IntervalInduction
<1>4. v[h] = u[h] /\ u[h] \in Nat
  BY <1>3 DEF C, Reads
<1>5. 0 \in K
  <2>1. P[0] = 1 /\ w[0] = 0 /\ v[h + 0] = v[h]
    BY DEF Powers, Reads
  <2>2. u[h] * 1 + 0 = u[h]
    BY <1>4, SMT
  <2> QED BY <1>4, <2>1, <2>2
<1>6. ASSUME NEW j \in 0..(h - 1), j \in K PROVE j + 1 \in K
  <2> DEFINE q == u[h]
             p == P[j]
             r == w[j]
             c == d[h + j + 1]
             whole == v[h + j]
  <2>1. /\ h + j \in 0..(n - 1) /\ j + 1 \in 1..h /\ j \in 0..h /\ j \in 0..n
        /\ j + 1 \in 0..h /\ h + (j + 1) = (h + j) + 1 /\ j \in 0..(n - 1)
        /\ h + j + 1 \in 1..n
    OBVIOUS
  <2>2. whole = q * p + r
    BY <1>6
  <2>3. v[h + (j + 1)] = whole * B + c
    BY <2>1 DEF Reads
  <2>4. w[j + 1] = r * B + c
    <3>1. b[j + 1] = d[h + (j + 1)]
      BY <2>1 DEF Halves
    <3> QED BY <2>1, <3>1 DEF Reads
  <2>5. P[j + 1] = B * p /\ p \in Nat
    BY <2>1 DEF Powers
  <2>6. r \in Nat /\ q \in Nat
    BY <1>4, <2>1 DEF Reads
  <2>c. c \in Nat
    BY <2>1
  <2> HIDE DEF q, p, r, c, whole
  <2>7. (q * p + r) * B = q * (B * p) + r * B
    BY <2>5, <2>6, SMT
  <2> DEFINE rB == r * B
             qBp == q * (B * p)
  <2>8. rB \in Nat /\ qBp \in Nat
    BY <2>5, <2>6, SMT
  <2>9. v[h + (j + 1)] = (qBp + rB) + c /\ w[j + 1] = rB + c /\ q * P[j + 1] = qBp
    BY <2>2, <2>3, <2>4, <2>5, <2>7
  <2> HIDE DEF rB, qBp
  <2>10. v[h + (j + 1)] = q * P[j + 1] + w[j + 1]
    <3>1. (qBp + rB) + c = qBp + (rB + c)
      BY <2>c, <2>8
    <3> QED BY <2>9, <3>1
  <2> QED BY <2>1, <2>10 DEF q
<1> HIDE DEF K
<1>7. 0..h \subseteq K
  BY <1>5, <1>6, IntervalInduction
<1>8. h \in K /\ h + h = n
  BY <1>7
<1> QED BY <1>8 DEF K

(* The halves of a digest fit into half the bits and give it back.         *)
LEMMA DigestParts ==
  ASSUME NEW d \in Digests
  PROVE  LET halves == Split256To128(d)
         IN  /\ halves.hi \in 0..(Half - 1) /\ halves.lo \in 0..(Half - 1)
             /\ BigEndian((halves.hi * Half + halves.lo), 2 * HalfLength) = d
<1> DEFINE B == Byte
           h == HalfLength
           n == 2 * h
           P == [i \in 0..n |-> Byte ^ i]
           Q == [i \in 0..h |-> Byte ^ i]
           a == SubSeq(d, 1, h)
           b == SubSeq(d, h + 1, n)
<1>1. h \in Nat /\ n \in Nat /\ d \in [1..n -> 0..(B - 1)]
  BY CircuitAssumption, PipelineAssumption
<1>2. B \in Nat \ {0} /\ Powers(P, B, n) /\ Powers(Q, B, h)
  <2>1. Nibble \in Nat \ {0}
    BY CircuitAssumption
  <2>2. B \in Nat \ {0}
    BY <2>1, SMT DEF Byte
  <2>3. MsgBytes = n /\ FieldBytes \in Nat /\ RequestBytes \in Nat
    BY CircuitAssumption
  <2>4. ElementBytes \in Nat
    BY PipelineAssumption
  <2>5. /\ n \in 0..(MsgBytes + FieldBytes + RequestBytes + ElementBytes)
        /\ h \in 0..(MsgBytes + FieldBytes + RequestBytes + ElementBytes)
    BY <1>1, <2>3, <2>4
  <2> QED BY <2>2, <2>5, PowersOfByte
<1>3. P[h] = Half /\ Q[h] = Half
  BY <1>1, CircuitAssumption
<1>4. \A i \in 1..n : P[n - i] = Byte ^ (n - i)
  BY <1>1
<1>5. a \in [1..h -> 0..(B - 1)] /\ b \in [1..h -> 0..(B - 1)]
  <2> DEFINE S == 0..(B - 1)
  <2>1. d \in [1..n -> S]
    BY <1>1
  <2> HIDE DEF S
  <2>2. d \in Seq(S) /\ Len(d) = n
    <3> HIDE DEF n
    <3> QED BY <1>1, <2>1, IsSequence
  <2>3. /\ a \in Seq(S) /\ Len(a) = h
        /\ b \in Seq(S) /\ Len(b) = h
    BY <1>1, <2>2
  <2>4. a \in [1..h -> S] /\ b \in [1..h -> S]
    <3> HIDE DEF a, b
    <3> QED BY <1>1, <2>3, IsFunction
  <2> QED BY <2>4 DEF S
<1>6. Halves(d, a, b, h)
  BY <1>1 DEF Halves
<1>7. Split256To128(d) = [hi |-> FromBigEndian(a), lo |-> FromBigEndian(b)]
  BY DEF Split256To128
<1>8. BigEndian((FromBigEndian(a) * Half + FromBigEndian(b)), n)
        = [i \in 1..n |-> ((FromBigEndian(a) * Half + FromBigEndian(b))
                             \div Byte ^ (n - i)) % Byte]
  BY DEF BigEndian
<1> HIDE DEF h, n, P, Q, a, b, B
<1>9. PICK v : Reads(v, d, B, n) /\ v[n] = FromBigEndian(d)
  BY <1>1, ReadsBytes DEF B
<1>10. PICK u : Reads(u, a, B, h) /\ u[h] = FromBigEndian(a)
  BY <1>1, <1>5, ReadsBytes DEF B
<1>11. PICK w : Reads(w, b, B, h) /\ w[h] = FromBigEndian(b)
  BY <1>1, <1>5, ReadsBytes DEF B
<1>12. u[h] \in 0..(Half - 1)
  <2>1. u[h] \in 0..(Q[h] - 1)
    BY <1>1, <1>2, <1>5, <1>10, DigitsOfRead
  <2> QED BY <1>3, <2>1
<1>13. w[h] \in 0..(Half - 1)
  <2>1. w[h] \in 0..(Q[h] - 1)
    BY <1>1, <1>2, <1>5, <1>11, DigitsOfRead
  <2> QED BY <1>3, <2>1
<1>14. v[n] = u[h] * Half + w[h]
  <2>1. n = 2 * h
    BY DEF n
  <2>2. /\ B \in Nat \ {0} /\ h \in Nat /\ n \in Nat /\ Powers(P, B, n)
        /\ d \in [1..n -> 0..(B - 1)]
    BY <1>1, <1>2
  <2>3. /\ Halves(d, a, b, h)
        /\ Reads(v, d, B, n) /\ Reads(u, a, B, h) /\ Reads(w, b, B, h)
    BY <1>6, <1>9, <1>10, <1>11
  <2>4. v[n] = u[h] * P[h] + w[h]
    BY <2>1, <2>2, <2>3, ReadTwo
  <2> QED BY <1>3, <2>4
<1>15. \A i \in 1..n : (v[n] \div P[n - i]) % B = d[i]
  BY <1>1, <1>2, <1>9, DigitsOfRead
<1>16. BigEndian((FromBigEndian(a) * Half + FromBigEndian(b)), n) = d
  <2>1. BigEndian((FromBigEndian(a) * Half + FromBigEndian(b)), n)
          = [i \in 1..n |-> (v[n] \div P[n - i]) % B]
    BY <1>4, <1>8, <1>10, <1>11, <1>14 DEF B
  <2>2. d = [i \in 1..n |-> d[i]]
    BY <1>1
  <2> QED BY <1>15, <2>1, <2>2
<1> QED BY <1>7, <1>10, <1>11, <1>12, <1>13, <1>16 DEF n, h

-----------------------------------------------------------------------------
(* The folds of the committee. *)

LEMMA RemainderOfSum ==
  ASSUME NEW a \in Nat, NEW b \in Nat, NEW n \in Nat \ {0}
  PROVE  ((a % n) + b) % n = (a + b) % n
<1> DEFINE q == a \div n
           r == a % n
           p == (r + b) \div n
           s == (r + b) % n
<1>1. q \in Nat /\ r \in 0..(n - 1) /\ a = q * n + r
  BY DivisionWithRemainder
<1> HIDE DEF q
<1>2. r + b \in Nat
  BY <1>1
<1>3. p \in Nat /\ s \in 0..(n - 1) /\ r + b = p * n + s
  BY <1>2, DivisionWithRemainder
<1> HIDE DEF r, p
<1>4. q * n + p * n = (q + p) * n /\ q * n \in Nat /\ p * n \in Nat
  BY <1>1, <1>3, SMT
<1> DEFINE qn == q * n
           pn == p * n
           qpn == (q + p) * n
<1>5. a = qn + r /\ r + b = pn + s /\ qn + pn = qpn /\ qn \in Nat /\ pn \in Nat
  BY <1>1, <1>3, <1>4
<1> HIDE DEF qn, pn, qpn, s
<1>6. a + b = qpn + s
  BY <1>1, <1>3, <1>5
<1>7. a + b \in Nat /\ q + p \in Nat
  BY <1>1, <1>3
<1>8. (a + b) % n = s
  BY <1>3, <1>6, <1>7, QuotientOf DEF qpn
<1> QED BY <1>8 DEF s, r

(* The aggregate is the sum of the exponents modulo the order.             *)
LEMMA AggregateIsSum ==
  ASSUME NEW n \in Nat, NEW keys \in [1..n -> Nat]
  PROVE  SumOfExponents(keys) = SumFunction(keys) % CurveOrder
<1> DEFINE D == DOMAIN keys
           V == 0..(CurveOrder - 1)
           Add(sum, secret) == (sum + secret) % CurveOrder
           op == [p \in D \X V |-> Add(p[2], keys[p[1]])]
           Step(h) == [s \in SUBSET D |->
                         IF s = {} THEN 0
                         ELSE LET i == Max(s) IN Add(h[s \ {i}], keys[i])]
           H == CHOOSE h : h = Step(h)
<1>1. D = 1..n
  OBVIOUS
<1>2. IsFiniteSet(D)
  BY <1>1, FS_Interval
<1>3. D \subseteq Int
  BY <1>1
<1>4. CurveOrder \in Nat \ {0}
  BY PipelineAssumption
<1>5. ASSUME NEW i \in D, NEW v \in V
      PROVE  Add(v, keys[i]) \in V
  <2>1. v + keys[i] \in Nat
    BY <1>1, <1>4
  <2> QED BY <1>4, <2>1, DivisionWithRemainder
<1>6. op \in [D \X V -> V] /\ \A i \in D, v \in V : op[<<i, v>>] = Add(v, keys[i])
  <2> HIDE DEF Add, V
  <2> QED BY <1>5
<1>7. SumOfExponents(keys) = H[D]
  BY DEF SumOfExponents, FoldLeft, MapThenFoldSet
<1>8. 0 \in V
  BY <1>4
<1> HIDE DEF op, D, V, Add, Step
<1>9. PICK g \in [SUBSET D -> V] : LeftFolds(g, D, 0, op)
  BY <1>2, <1>3, <1>6, <1>8, LeftFoldExists
<1>10. g = Step(g)
  BY <1>6, <1>9 DEF Step, LeftFolds
<1>11. H = Step(H)
  BY <1>10
<1> HIDE DEF H
<1>12. LeftFollows(H, D, V, 0, op)
  <2> SUFFICES ASSUME NEW s \in SUBSET D
               PROVE  /\ s = {} => H[s] = 0
                      /\ s # {} /\ H[s \ {Max(s)}] \in V
                           => H[s] = op[<<Max(s), H[s \ {Max(s)}]>>]
    BY DEF LeftFollows
  <2>1. H[s] = IF s = {} THEN 0 ELSE Add(H[s \ {Max(s)}], keys[Max(s)])
    BY <1>11, Zenon DEF Step
  <2>2. s # {} => Max(s) \in D
    BY <1>9 DEF LeftFolds
  <2> QED BY <1>6, <2>1, <2>2
<1>13. PICK v : LeftSteps(v, n, V, 0, op) /\ H[1..n] = v[n]
  <2>1. LeftClosed(1..n, V, 0, op) /\ LeftFollows(H, 1..n, V, 0, op)
    BY <1>1, <1>6, <1>8, <1>12 DEF LeftClosed
  <2> QED BY <2>1, LeftPrefixes
<1> DEFINE Sum(i) == SumFunctionOnSet(keys, 1..i)
           C == {i \in 0..n : Sum(i) \in Nat /\ v[i] = Sum(i) % CurveOrder}
<1>14. 0 \in C
  <2>1. Sum(0) = 0
    <3>1. IsFiniteSet(1..0)
      BY FS_Interval
    <3>2. 1..0 = {} /\ \A j \in 1..0 : keys[j] \in Int
      OBVIOUS
    <3> QED BY <3>1, <3>2, SumStep
  <2>2. 0 % CurveOrder = 0 /\ v[0] = 0
    BY <1>4, <1>13, SmallRemainder DEF LeftSteps
  <2> HIDE DEF Sum
  <2> QED BY <2>1, <2>2
<1>15. ASSUME NEW i \in 0..(n - 1), i \in C PROVE i + 1 \in C
  <2>1. i + 1 \in 1..n /\ i + 1 \in D /\ i \in 0..n /\ i + 1 \in 0..n /\ keys[i + 1] \in Nat
    BY <1>1
  <2>2. Sum(i) \in Nat /\ v[i] = Sum(i) % CurveOrder
    BY <1>15
  <2>3. Sum(i + 1) = keys[i + 1] + Sum(i)
    <3> DEFINE S == 1..(i + 1)
    <3>1. IsFiniteSet(S)
      BY FS_Interval
    <3>2. (\A j \in S : keys[j] \in Int) /\ i + 1 \in S /\ S \ {i + 1} = 1..i
      OBVIOUS
    <3> HIDE DEF S
    <3>3. SumFunctionOnSet(keys, S) = keys[i + 1] + SumFunctionOnSet(keys, S \ {i + 1})
      BY <3>1, <3>2, SumSplit
    <3> QED BY <3>2, <3>3 DEF S
  <2>4. v[i + 1] = Add(v[i], keys[i + 1])
    <3>1. v[i] \in V /\ v[i + 1] = op[<<i + 1, v[i]>>]
      BY <1>13, <2>1 DEF LeftSteps
    <3> QED BY <1>6, <2>1, <3>1
  <2> HIDE DEF Sum
  <2>5. v[i + 1] = (Sum(i) + keys[i + 1]) % CurveOrder
    BY <1>4, <2>1, <2>2, <2>4, RemainderOfSum DEF Add
  <2>6. Sum(i + 1) = Sum(i) + keys[i + 1]
    BY <2>1, <2>2, <2>3
  <2> QED BY <2>1, <2>2, <2>5, <2>6
<1> HIDE DEF C
<1>16. 0..n \subseteq C
  BY <1>14, <1>15, IntervalInduction
<1>17. v[n] = SumFunctionOnSet(keys, 1..n) % CurveOrder
  BY <1>16 DEF C
<1>18. SumFunction(keys) = SumFunctionOnSet(keys, 1..n)
  BY <1>1, Zenon DEF SumFunction, D
<1> QED BY <1>1, <1>7, <1>13, <1>17, <1>18

(* The keys of the signers are hashed in the order of the nodes, one byte  *)
(* each.                                                                   *)
LEMMA KeysInOrder ==
  ASSUME NEW n \in Nat, NEW m \in 0..n, NEW keys \in [1..n -> Nat], committee.t = m
  PROVE  SubsetKeys(keys) = [i \in 1..m |-> keys[i]]
<1> DEFINE seq == SubSeq(keys, 1, m)
           D == DOMAIN seq
           V == Seq(Nat)
           Add(bytes, secret) == bytes \o PublicKey(secret)
           op == [p \in D \X V |-> Add(p[2], seq[p[1]])]
           Step(h) == [s \in SUBSET D |->
                         IF s = {} THEN << >>
                         ELSE LET i == Max(s) IN Add(h[s \ {i}], seq[i])]
           H == CHOOSE h : h = Step(h)
<1>1. D = 1..m /\ \A i \in 1..m : seq[i] = keys[i] /\ seq[i] \in Nat
  <2>1. keys \in Seq(Nat) /\ Len(keys) = n
    BY IsSequence
  <2>2. seq \in Seq(Nat) /\ Len(seq) = m
    BY <2>1
  <2>3. \A i \in 1..m : seq[i] = keys[i]
    BY <2>1
  <2>4. D = 1..m
    <3> HIDE DEF seq
    <3> QED BY <2>2
  <2> HIDE DEF seq
  <2> QED BY <2>3, <2>4
<1>2. IsFiniteSet(D)
  BY <1>1, FS_Interval
<1>3. D \subseteq Int
  BY <1>1
<1>4. m \in Nat
  OBVIOUS
<1>7. SubsetKeys(keys) = H[D]
  BY DEF SubsetKeys, SignedSubset, FoldLeft, MapThenFoldSet
<1> HIDE DEF seq
<1>5. ASSUME NEW i \in D, NEW v \in V
      PROVE  Add(v, seq[i]) \in V
  <2>1. <<seq[i]>> \in Seq(Nat)
    BY <1>1
  <2> QED BY <2>1 DEF PublicKey
<1>6. \A i \in D, v \in V : op[<<i, v>>] = Add(v, seq[i])
  <2> HIDE DEF Add, V
  <2> QED BY <1>5
<1>a. op \in [D \X V -> V]
  <2> HIDE DEF Add, V
  <2> QED BY <1>5
<1>8. << >> \in V
  OBVIOUS
<1> HIDE DEF op, D, V, Add, Step
<1>9. PICK g \in [SUBSET D -> V] : LeftFolds(g, D, << >>, op)
  BY <1>2, <1>3, <1>a, <1>8, LeftFoldExists
<1>10. g = Step(g)
  <2>1. ASSUME NEW s \in SUBSET D
        PROVE  g[s] = IF s = {} THEN << >> ELSE Add(g[s \ {Max(s)}], seq[Max(s)])
    <3>1. CASE s = {}
      BY <1>9, <3>1 DEF LeftFolds
    <3>2. CASE s # {}
      <4>1. Max(s) \in s /\ g[s] = op[<<Max(s), g[s \ {Max(s)}]>>]
        BY <1>9, <3>2 DEF LeftFolds
      <4>2. Max(s) \in D /\ g[s \ {Max(s)}] \in V
        BY <4>1
      <4> QED BY <1>6, <3>2, <4>1, <4>2
    <3> QED BY <3>1, <3>2
  <2> QED BY <2>1 DEF Step
<1>11. H = Step(H)
  BY <1>10
<1> HIDE DEF H
<1>12. LeftFollows(H, D, V, << >>, op)
  <2> SUFFICES ASSUME NEW s \in SUBSET D
               PROVE  /\ s = {} => H[s] = << >>
                      /\ s # {} /\ H[s \ {Max(s)}] \in V
                           => H[s] = op[<<Max(s), H[s \ {Max(s)}]>>]
    BY DEF LeftFollows
  <2>1. H[s] = IF s = {} THEN << >> ELSE Add(H[s \ {Max(s)}], seq[Max(s)])
    BY <1>11, Zenon DEF Step
  <2>2. s # {} => Max(s) \in D
    BY <1>9 DEF LeftFolds
  <2> QED BY <1>6, <2>1, <2>2
<1>13. PICK v : LeftSteps(v, m, V, << >>, op) /\ H[1..m] = v[m]
  <2>1. LeftClosed(1..m, V, << >>, op) /\ LeftFollows(H, 1..m, V, << >>, op)
    BY <1>1, <1>a, <1>8, <1>12 DEF LeftClosed
  <2> QED BY <1>4, <2>1, LeftPrefixes
<1> DEFINE C == {i \in 0..m : Len(v[i]) = i /\ \A j \in 1..i : v[i][j] = keys[j]}
<1>14. 0 \in C
  BY <1>13 DEF LeftSteps
<1>15. ASSUME NEW i \in 0..(m - 1), i \in C PROVE i + 1 \in C
  <2>1. i + 1 \in 1..m /\ i + 1 \in D /\ i \in 0..m /\ i + 1 \in 0..m
    BY <1>1
  <2> DEFINE a == v[i]
             b == <<seq[i + 1]>>
  <2>2. a \in Seq(Nat) /\ Len(a) = i /\ \A j \in 1..i : a[j] = keys[j]
    BY <1>13, <1>15, <2>1 DEF LeftSteps, V
  <2>3. b \in Seq(Nat) /\ Len(b) = 1 /\ b[1] = keys[i + 1]
    BY <1>1, <2>1
  <2>4. v[i + 1] = a \o b
    <3>1. v[i] \in V /\ v[i + 1] = op[<<i + 1, v[i]>>]
      BY <1>13, <2>1 DEF LeftSteps
    <3> QED BY <1>6, <2>1, <3>1 DEF Add, PublicKey
  <2> HIDE DEF a, b
  <2>5. Len(a \o b) = i + 1 /\ \A j \in 1..(i + 1) : (a \o b)[j] = keys[j]
    <3>1. /\ Len(a \o b) = i + 1
          /\ \A j \in 1..i : (a \o b)[j] = a[j]
          /\ (a \o b)[i + 1] = b[1]
      <4>0. a \in Seq(Nat) /\ b \in Seq(Nat)
        BY <2>2, <2>3
      <4>1. /\ Len(a \o b) = Len(a) + Len(b)
            /\ \A j \in 1..Len(a) : (a \o b)[j] = a[j]
            /\ \A j \in 1..Len(b) : (a \o b)[Len(a) + j] = b[j]
        BY ONLY <4>0, SMT
      <4>2. 1 \in 1..Len(b)
        BY <2>3
      <4> QED BY <2>2, <2>3, <4>1, <4>2
    <3>2. \A j \in 1..(i + 1) : j \in 1..i \/ j = i + 1
      OBVIOUS
    <3> QED BY <2>2, <2>3, <3>1, <3>2
  <2> QED BY <2>1, <2>4, <2>5
<1> HIDE DEF C
<1>16. 0..m \subseteq C
  BY <1>4, <1>14, <1>15, IntervalInduction
<1>17. m \in C
  BY <1>16
<1> DEFINE r == v[m]
<1>18. r \in Seq(Nat) /\ Len(r) = m /\ \A j \in 1..m : r[j] = keys[j]
  BY <1>13, <1>17 DEF C, LeftSteps, V
<1> HIDE DEF r
<1>19. r = [i \in 1..m |-> keys[i]]
  <2>1. r \in [1..m -> Nat]
    BY <1>18, IsFunction
  <2> QED BY <1>18, <2>1
<1> QED BY <1>1, <1>7, <1>13, <1>19 DEF r

(* Keys of one byte each, put together, are the sequence of these bytes.   *)
LEMMA FlattenKeys ==
  ASSUME NEW m \in Nat \ {0}, NEW signer \in [1..m -> Nat]
  PROVE  FlattenSeq([i \in 1..m |-> PublicKey(signer[i])]) = signer
<1> DEFINE seqs == [i \in 1..m |-> PublicKey(signer[i])]
           Step(f) == [i \in 1..Len(seqs) |->
                         IF i = 1 THEN seqs[i] ELSE f[i - 1] \o seqs[i]]
           H == CHOOSE f : f = Step(f)
           F == [i \in 1..m |-> SubSeq(signer, 1, i)]
<1>1. seqs \in [1..m -> Seq(Nat)] /\ \A i \in 1..m : seqs[i] = <<signer[i]>>
  BY DEF PublicKey
<1>2. Len(seqs) = m
  <2> HIDE DEF seqs
  <2> QED BY <1>1
<1>3. FlattenSeq(seqs) = H[m]
  BY <1>2, Zenon DEF FlattenSeq
<1>4. signer \in Seq(Nat) /\ Len(signer) = m
  BY IsSequence
<1> HIDE DEF seqs
<1>5. \A i \in 1..m : F[i] = IF i = 1 THEN seqs[i] ELSE F[i - 1] \o seqs[i]
  <2> SUFFICES ASSUME NEW i \in 1..m
               PROVE  F[i] = IF i = 1 THEN seqs[i] ELSE F[i - 1] \o seqs[i]
    OBVIOUS
  <2>1. F[i] = SubSeq(signer, 1, i) /\ seqs[i] = <<signer[i]>>
    BY <1>1
  <2>2. CASE i = 1
    <3>1. SubSeq(signer, 1, 1) = <<signer[1]>>
      <4> DEFINE a == SubSeq(signer, 1, 1)
                 b == <<signer[1]>>
      <4>1. /\ a \in Seq(Nat) /\ Len(a) = 1 /\ a[1] = signer[1]
            /\ b \in Seq(Nat) /\ Len(b) = 1 /\ b[1] = signer[1]
        BY <1>4
      <4> HIDE DEF a, b
      <4>2. a \in [1..1 -> Nat] /\ b \in [1..1 -> Nat]
        BY <4>1, IsFunction
      <4>3. a = b
        BY <4>1, <4>2
      <4> QED BY <4>3 DEF a, b
    <3> QED BY <2>1, <2>2, <3>1
  <2>3. CASE i # 1
    <3>1. i - 1 \in 1..m /\ F[i - 1] = SubSeq(signer, 1, i - 1)
      BY <2>3
    <3>2. SubSeq(signer, 1, i) = SubSeq(signer, 1, i - 1) \o <<signer[i]>>
      BY <1>4, <2>3, <3>1
    <3> QED BY <2>1, <2>3, <3>1, <3>2
  <2> QED BY <2>2, <2>3
<1> HIDE DEF F
<1>6. [i \in 1..m |-> F[i]] = Step([i \in 1..m |-> F[i]])
  <2> DEFINE G == [i \in 1..m |-> F[i]]
  <2>1. \A i \in 1..m : i # 1 => i - 1 \in 1..m
    OBVIOUS
  <2>2. \A i \in 1..m : G[i] = IF i = 1 THEN seqs[i] ELSE G[i - 1] \o seqs[i]
    BY <1>5, <2>1
  <2>3. G = [i \in 1..m |-> G[i]]
    OBVIOUS
  <2> HIDE DEF G
  <2>4. G = Step(G)
    BY <1>2, <2>2, <2>3
  <2> QED BY <2>4 DEF G
<1>7. H = Step(H)
  <2> HIDE DEF Step
  <2> QED BY <1>6
<1> HIDE DEF H
<1>8. \A i \in 1..m : H[i] = IF i = 1 THEN seqs[i] ELSE H[i - 1] \o seqs[i]
  BY <1>2, <1>7, Zenon DEF Step
<1> DEFINE C == {i \in 0..m : i # 0 => H[i] = F[i]}
<1>9. 0 \in C
  OBVIOUS
<1>10. ASSUME NEW i \in 0..(m - 1), i \in C PROVE i + 1 \in C
  <2>1. i + 1 \in 1..m /\ (i + 1) - 1 = i /\ i + 1 \in 0..m
    OBVIOUS
  <2>2. /\ H[i + 1] = IF i + 1 = 1 THEN seqs[i + 1] ELSE H[i] \o seqs[i + 1]
        /\ F[i + 1] = IF i + 1 = 1 THEN seqs[i + 1] ELSE F[i] \o seqs[i + 1]
    BY <1>5, <1>8, <2>1
  <2>3. i # 0 => H[i] = F[i]
    BY <1>10
  <2> QED BY <2>1, <2>2, <2>3
<1> HIDE DEF C
<1>11. 0..m \subseteq C
  BY <1>9, <1>10, IntervalInduction
<1>12. H[m] = F[m]
  BY <1>11 DEF C
<1>13. F[m] = signer
  <2>1. F[m] = SubSeq(signer, 1, m)
    BY DEF F
  <2> QED BY <1>4, <2>1
<1> QED BY <1>3, <1>12, <1>13 DEF seqs

(* What the nodes hash is a string of numbers.                             *)
LEMMA TranscriptType ==
  ASSUME NEW n \in Nat, NEW keys \in [1..n -> Nat],
         committee.n \in Nat, committee.t \in Nat
  PROVE  Transcript(keys) \in Seq(Nat)
<1> DEFINE seq == [i \in DOMAIN keys |-> i]
           D == DOMAIN seq
           V == Seq(Nat)
           base == DkgTag \o <<committee.n, committee.t>>
           Add(bytes, i) == bytes \o <<i, Len(PublicKey(keys[i]))>> \o PublicKey(keys[i])
           op == [p \in D \X V |-> Add(p[2], seq[p[1]])]
           Step(h) == [s \in SUBSET D |->
                         IF s = {} THEN base
                         ELSE LET i == Max(s) IN Add(h[s \ {i}], seq[i])]
           H == CHOOSE h : h = Step(h)
<1>1. D = 1..n /\ \A i \in 1..n : seq[i] = i
  OBVIOUS
<1>2. IsFiniteSet(D)
  BY <1>1, FS_Interval
<1>3. D \subseteq Int
  BY <1>1
<1>7. Transcript(keys) = H[D]
  BY DEF Transcript, FoldLeft, MapThenFoldSet
<1> HIDE DEF seq
<1>5. ASSUME NEW i \in D, NEW v \in V
      PROVE  Add(v, seq[i]) \in V
  <2> DEFINE a == <<seq[i], Len(PublicKey(keys[seq[i]]))>>
             b == PublicKey(keys[seq[i]])
  <2>1. seq[i] \in Nat /\ keys[seq[i]] \in Nat
    BY <1>1
  <2>2. b \in Seq(Nat) /\ Len(b) = 1
    BY <2>1 DEF PublicKey
  <2> HIDE DEF b
  <2>3. a \in Seq(Nat)
    <3>1. a = <<seq[i], 1>>
      BY <2>2 DEF b
    <3> HIDE DEF a
    <3> QED BY <2>1, <3>1
  <2> HIDE DEF a
  <2>4. (v \o a) \o b \in Seq(Nat)
    BY <2>2, <2>3
  <2> QED BY <2>4 DEF a, b
<1>6. \A i \in D, v \in V : op[<<i, v>>] = Add(v, seq[i])
  <2> HIDE DEF Add, V
  <2> QED BY <1>5
<1>a. op \in [D \X V -> V]
  <2> HIDE DEF Add, V
  <2> QED BY <1>5
<1>8. base \in V
  <2>1. DkgTag \in Seq(Nat) /\ <<committee.n, committee.t>> \in Seq(Nat)
    BY PipelineAssumption
  <2> QED BY <2>1
<1> HIDE DEF op, D, V, Add, Step, base
<1>9. PICK g \in [SUBSET D -> V] : LeftFolds(g, D, base, op)
  BY <1>2, <1>3, <1>a, <1>8, LeftFoldExists
<1>10. g = Step(g)
  <2>1. ASSUME NEW s \in SUBSET D
        PROVE  g[s] = IF s = {} THEN base ELSE Add(g[s \ {Max(s)}], seq[Max(s)])
    <3>1. CASE s = {}
      BY <1>9, <3>1 DEF LeftFolds
    <3>2. CASE s # {}
      <4>1. Max(s) \in s /\ g[s] = op[<<Max(s), g[s \ {Max(s)}]>>]
        BY <1>9, <3>2 DEF LeftFolds
      <4>2. Max(s) \in D /\ g[s \ {Max(s)}] \in V
        BY <4>1
      <4> QED BY <1>6, <3>2, <4>1, <4>2
    <3> QED BY <3>1, <3>2
  <2> QED BY <2>1 DEF Step
<1>11. H = Step(H)
  BY <1>10
<1> HIDE DEF H
<1>12. LeftFollows(H, D, V, base, op)
  <2> SUFFICES ASSUME NEW s \in SUBSET D
               PROVE  /\ s = {} => H[s] = base
                      /\ s # {} /\ H[s \ {Max(s)}] \in V
                           => H[s] = op[<<Max(s), H[s \ {Max(s)}]>>]
    BY DEF LeftFollows
  <2>1. H[s] = IF s = {} THEN base ELSE Add(H[s \ {Max(s)}], seq[Max(s)])
    BY <1>11, Zenon DEF Step
  <2>2. s # {} => Max(s) \in D
    BY <1>9 DEF LeftFolds
  <2> QED BY <1>6, <2>1, <2>2
<1>13. H[D] \in V
  BY <1>2, <1>3, <1>a, <1>8, <1>12, LeftFoldStays
<1> QED BY <1>7, <1>13 DEF V

-----------------------------------------------------------------------------
(* Conversions. *)

(* A factor that is at least one does not make a product smaller.          *)
LEMMA ProductGrows ==
  ASSUME NEW a \in Nat, NEW b \in Nat \ {0}
  PROVE  a * b \in Nat /\ a <= a * b
<1>1. b - 1 \in Nat
  BY SMT
<1>2. a * (b - 1) \in Nat
  BY <1>1, SMT
<1>3. a * b = a + a * (b - 1)
  BY SMT
<1> QED BY <1>2, <1>3, SMT

(* Twice the factor 2^32 is the factor 2^64, and a half of a digest fits   *)
(* into the field: the conversion loses nothing (circuit.rs:86-95).        *)
LEMMA HalvesFit ==
  ASSUME NEW v \in 0..(Half - 1)
  PROVE  FpFromU128(v) = v
<1> DEFINE q == v \div Word
           r == v % Word
<1>1. Root \in Nat \ {0} /\ Prime \in Nat \ {0} /\ Half < Prime
  BY CircuitAssumption
<1>2. Word \in Nat \ {0}
  BY <1>1, ProductGrows DEF Word
<1>3. Half \in Nat
  BY <1>2, ProductGrows DEF Half
<1>4. v \in Nat /\ v < Prime
  BY <1>1, <1>3
<1>5. q \in Nat /\ r \in 0..(Word - 1) /\ v = q * Word + r
  BY <1>2, <1>4, DivisionWithRemainder
<1> HIDE DEF q, r
<1>6. (q * Root) * Root = q * Word
  BY <1>1, <1>5, SMT DEF Word
<1>7. q * Root \in Nat /\ q * Root <= (q * Root) * Root
  <2>1. q * Root \in Nat
    BY <1>1, <1>5, ProductGrows
  <2> QED BY <2>1, <1>1, ProductGrows
<1>8. q * Word \in Nat /\ q * Word <= v
  <2>1. q * Word \in Nat
    BY <1>2, <1>5, ProductGrows
  <2> QED BY <2>1, <1>2, <1>4, <1>5
<1>9. (q * Root) % Prime = q * Root
  <2>1. q * Root \in 0..(Prime - 1)
    BY <1>1, <1>4, <1>6, <1>7, <1>8
  <2> QED BY <2>1, <1>1, SmallRemainder
<1>10. (q * Word) % Prime = q * Word
  <2>1. q * Word \in 0..(Prime - 1)
    BY <1>1, <1>4, <1>8
  <2> QED BY <2>1, <1>1, SmallRemainder
<1>11. (r + q * Word) % Prime = v
  <2>1. r + q * Word = v
    BY <1>5, <1>8
  <2>2. v % Prime = v
    BY <1>1, <1>4, SmallRemainder
  <2> QED BY <2>1, <2>2
<1>12. FpFromU128(v) = (r + ((((q * Root) % Prime) * Root) % Prime)) % Prime
  BY DEF FpFromU128, q, r
<1> QED BY <1>6, <1>9, <1>10, <1>11, <1>12

(* The halves of a digest are halves, whatever the digest.                 *)
LEMMA HalvesOfDigest ==
  ASSUME NEW d \in Digests
  PROVE  /\ Split256To128(d).hi \in 0..(Half - 1)
         /\ Split256To128(d).lo \in 0..(Half - 1)
  BY DigestParts

(* The gate of a byte holds for every number.                              *)
LEMMA ByteGate ==
  ASSUME NEW b \in Nat
  PROVE  GateHolds(ByteRow(b))
<1>1. Nibble \in Nat \ {0} /\ Prime \in Nat \ {0}
  BY CircuitAssumption
<1>2. b = (b \div Nibble) * Nibble + (b % Nibble)
  BY <1>1, DivisionWithRemainder
<1> DEFINE q == b \div Nibble
           r == b % Nibble
           m == q * Nibble
<1>3. q \in Nat /\ r \in Nat /\ m \in Nat /\ b = m + r
  BY <1>1, <1>2, DivisionWithRemainder, ProductGrows
<1> HIDE DEF m
<1>4. (m + r - b) % Prime = 0
  <2>1. m + r - b = 0 /\ 0 \in 0..(Prime - 1)
    BY <1>1, <1>3
  <2> QED BY <1>1, <2>1, SmallRemainder
<1> HIDE DEF q, r
<1>5. GateHolds(Row("byte_range", b, q, r))
  BY <1>4 DEF GateHolds, Row, m
<1> QED BY <1>5 DEF ByteRow, q, r

(* The gate of a hash holds when the digest taken again is the expected    *)
(* one.                                                                    *)
LEMMA HashGate ==
  ASSUME NEW v \in 0..(Half - 1)
  PROVE  GateHolds(HashRow(v, v))
<1>1. Prime \in Nat \ {0} /\ Half < Prime
  BY CircuitAssumption
<1>2. FpFromU128(v) = v /\ v \in Int
  BY HalvesFit
<1>3. (v - v) % Prime = 0
  <2>1. v - v = 0 /\ 0 \in 0..(Prime - 1)
    BY <1>1, <1>2
  <2> QED BY <1>1, <2>1, SmallRemainder
<1> QED BY <1>2, <1>3 DEF GateHolds, HashRow, Row

(* Padding or cutting a string of numbers gives one of the wanted length.  *)
LEMMA Padded ==
  ASSUME NEW data \in Seq(Nat), NEW length \in Nat
  PROVE  PadOrTruncate(data, length) \in [1..length -> Nat]
  BY DEF PadOrTruncate

(* The table of an input made by from_raw satisfies the circuit, if the    *)
(* hash is a function to digests that knows the two hashed strings         *)
(* (circuit.rs:144-266, prover.rs:60-68).                                  *)
LEMMA HonestTable ==
  ASSUME NEW pk \in Seq(Nat), NEW sig \in Seq(Nat), NEW msg \in Seq(Nat),
         NEW out, NEW proof, NEW modulus, NEW request, NEW h,
         h[CommitmentBytes(pk, sig, msg)] \in Digests,
         h[KeyBytes(pk)] \in Digests
  PROVE  LET input == FromRaw(h, pk, sig, msg, out, proof, modulus, request)
         IN  Satisfied(Synthesize(h, input), PublicInputs(input))
<1> DEFINE input == FromRaw(h, pk, sig, msg, out, proof, modulus, request)
           bytes == input.pk \o input.sig \o input.msg
           c == Split256To128(h[bytes])
           p == Split256To128(h[input.pk])
           first == [i \in 1..PrivateBytes |-> ByteRow(bytes[i])]
           last == <<HashRow(c.hi, input.commitment.hi),
                     HashRow(c.lo, input.commitment.lo),
                     HashRow(p.hi, input.pkHash.hi),
                     HashRow(p.lo, input.pkHash.lo),
                     SignalRow(FpFromU128(input.payloadHash.hi)),
                     SignalRow(FpFromU128(input.payloadHash.lo)),
                     SignalRow(input.requestId % Prime)>>
           rows == Synthesize(h, input)
<1>1. PkBytes \in Nat /\ SigBytes \in Nat /\ MsgBytes \in Nat
  BY CircuitAssumption
<1>2. /\ input.pk \in [1..PkBytes -> Nat]
      /\ input.sig \in [1..SigBytes -> Nat]
      /\ input.msg \in [1..MsgBytes -> Nat]
  BY <1>1, Padded DEF FromRaw
<1>3. bytes \in [1..PrivateBytes -> Nat] /\ PrivateBytes \in Nat
  <2> DEFINE a == input.pk
             b == input.sig
             e == input.msg
  <2>1. a \in Seq(Nat) /\ Len(a) = PkBytes /\ b \in Seq(Nat) /\ Len(b) = SigBytes
        /\ e \in Seq(Nat) /\ Len(e) = MsgBytes
    BY <1>1, <1>2, IsSequence
  <2> HIDE DEF a, b, e
  <2> DEFINE ab == a \o b
             abe == ab \o e
  <2>2. ab \in Seq(Nat) /\ Len(ab) = PkBytes + SigBytes
    BY <2>1, Positions
  <2> HIDE DEF ab
  <2>3. abe \in Seq(Nat) /\ Len(abe) = Len(ab) + Len(e)
    BY <2>1, <2>2, Positions
  <2> HIDE DEF abe
  <2>4. Len(abe) = PrivateBytes
    BY <1>1, <2>1, <2>2, <2>3 DEF PrivateBytes
  <2>5. abe \in [1..PrivateBytes -> Nat] /\ PrivateBytes \in Nat
    BY <2>3, <2>4, IsFunction
  <2> QED BY <2>5 DEF abe, ab, a, b, e
<1>4. /\ c = input.commitment /\ p = input.pkHash
      /\ c = Split256To128(h[CommitmentBytes(pk, sig, msg)])
      /\ p = Split256To128(h[KeyBytes(pk)])
  BY DEF FromRaw, CommitmentBytes, KeyBytes
<1>5. /\ c.hi \in 0..(Half - 1) /\ c.lo \in 0..(Half - 1)
      /\ p.hi \in 0..(Half - 1) /\ p.lo \in 0..(Half - 1)
  BY <1>4, HalvesOfDigest
<1>6. rows = first \o last
  BY DEF Synthesize
<1> HIDE DEF input, bytes, c, p
<1>7. PICK S : /\ first \in Seq(S) /\ Len(first) = PrivateBytes
               /\ last \in Seq(S) /\ Len(last) = 7
  <2> DEFINE S == {first[i] : i \in 1..PrivateBytes} \cup {last[i] : i \in 1..7}
  <2>0. DOMAIN first = 1..PrivateBytes /\ first = [i \in DOMAIN first |-> first[i]]
    OBVIOUS
  <2>00. last = [i \in 1..7 |-> last[i]]
    OBVIOUS
  <2> HIDE DEF first, last
  <2>1. first \in [1..PrivateBytes -> S]
    BY <2>0
  <2>2. last \in [1..7 -> S]
    BY <2>00
  <2> HIDE DEF S
  <2>3. first \in Seq(S) /\ Len(first) = PrivateBytes
    BY <1>3, <2>1, IsSequence
  <2>4. last \in Seq(S) /\ Len(last) = 7
    BY <2>2, IsSequence
  <2> QED BY <2>3, <2>4
<1> HIDE DEF first, last, rows
<1>8. /\ DOMAIN rows = 1..(PrivateBytes + 7)
      /\ \A i \in 1..PrivateBytes : rows[i] = first[i]
      /\ \A i \in 1..7 : rows[PrivateBytes + i] = last[i]
  <2>0. first \in Seq(S) /\ last \in Seq(S)
    BY <1>7
  <2>1. DOMAIN (first \o last) = 1..(Len(first) + Len(last))
    BY ONLY <2>0, SMT
  <2>2. \A i \in 1..Len(first) : (first \o last)[i] = first[i]
    BY ONLY <2>0, SMT
  <2>3. \A i \in 1..Len(last) : (first \o last)[Len(first) + i] = last[i]
    BY ONLY <2>0, SMT
  <2> QED BY <1>6, <1>7, <2>1, <2>2, <2>3
<1>9. \A i \in 1..PrivateBytes : GateHolds(first[i])
  BY <1>3, ByteGate DEF first
<1>10. \A i \in 1..7 : GateHolds(last[i])
  <2>1. /\ GateHolds(last[1]) /\ GateHolds(last[2])
        /\ GateHolds(last[3]) /\ GateHolds(last[4])
    BY <1>4, <1>5, HashGate DEF last
  <2>2. \A v : GateHolds(SignalRow(v))
    BY DEF GateHolds, SignalRow, Row
  <2>3. GateHolds(last[5]) /\ GateHolds(last[6]) /\ GateHolds(last[7])
    BY <2>2 DEF last
  <2> QED BY <2>1, <2>3
<1>11. \A i \in DOMAIN rows : GateHolds(rows[i])
  <2> SUFFICES ASSUME NEW i \in 1..(PrivateBytes + 7) PROVE GateHolds(rows[i])
    BY <1>8
  <2>1. CASE i <= PrivateBytes
    BY <1>3, <1>8, <1>9, <2>1
  <2>2. CASE i > PrivateBytes
    <3>1. i - PrivateBytes \in 1..7 /\ i = PrivateBytes + (i - PrivateBytes)
      BY <1>3, <2>2
    <3> QED BY <1>8, <1>10, <3>1
  <2> QED BY <1>3, <2>1, <2>2
<1>12. \A i \in 1..7 : last[i].advice[1] = PublicInputs(input)[i]
  BY <1>4 DEF last, HashRow, SignalRow, Row, PublicInputs
<1>13. DOMAIN PublicInputs(input) = 1..7
  BY DEF PublicInputs
<1>14. Satisfied(rows, PublicInputs(input))
  BY <1>8, <1>11, <1>12, <1>13 DEF Satisfied, InstanceRows
<1> QED BY <1>14 DEF input, rows

(* A digest is cut into field elements that are read back and put together *)
(* to the digest (circuit.rs:76-95, prover.rs:86-108,                      *)
(* RandomReceiver.sol:256-258).                                            *)
LEMMA DigestSurvives ==
  ASSUME NEW d \in Digests, NEW signals, NEW i \in Nat,
         signals[i] = FormatFieldElement(FpFromU128(Split256To128(d).hi)),
         signals[i + 1] = FormatFieldElement(FpFromU128(Split256To128(d).lo))
  PROVE  Recombined(signals, i) = d
<1> DEFINE hi == Split256To128(d).hi
           lo == Split256To128(d).lo
<1>1. hi \in 0..(Half - 1) /\ lo \in 0..(Half - 1)
  BY HalvesOfDigest
<1>2. FpFromU128(hi) = hi /\ FpFromU128(lo) = lo
  BY <1>1, HalvesFit
<1>3. hi \in 0..(Prime - 1) /\ lo \in 0..(Prime - 1)
  <2>1. Half \in Nat /\ Prime \in Nat /\ Half < Prime
    <3>1. Root \in Nat
      BY CircuitAssumption
    <3>2. Word \in Nat
      BY <3>1, SMT DEF Word
    <3>3. Half \in Nat
      BY <3>2, SMT DEF Half
    <3> QED BY <3>3, CircuitAssumption
  <2> QED BY <1>1, <2>1
<1>4. signals[i] = hi /\ signals[i + 1] = lo
  BY <1>2, <1>3, FieldElementSurvives
<1>5. BigEndian((hi * Half + lo), 2 * HalfLength) = d
  BY DigestParts
<1> QED BY <1>4, <1>5 DEF Recombined

(* A digest is a string of bytes as long as a message.                     *)
LEMMA DigestIsMessage ==
  ASSUME NEW d \in Digests
  PROVE  d \in Seq(Nat) /\ PadOrTruncate(d, MsgBytes) = d
<1>1. HalfLength \in Nat /\ MsgBytes = 2 * HalfLength /\ MsgBytes \in Nat
  BY CircuitAssumption
<1>2. d \in [1..MsgBytes -> Nat]
  <2>1. d \in [1..MsgBytes -> 0..(Byte - 1)]
    BY <1>1, PipelineAssumption
  <2>2. 0..(Byte - 1) \subseteq Nat
    OBVIOUS
  <2> QED BY <2>1, <2>2
<1>3. d \in Seq(Nat) /\ Len(d) = MsgBytes
  BY <1>1, <1>2, IsSequence
<1>4. PadOrTruncate(d, MsgBytes) = [i \in 1..MsgBytes |-> d[i]]
  BY <1>1, <1>3 DEF PadOrTruncate
<1>5. d = [i \in 1..MsgBytes |-> d[i]]
  BY <1>2
<1> QED BY <1>3, <1>4, <1>5

-----------------------------------------------------------------------------
(* The invariant: the hash yields digests only, what a later stage reads   *)
(* has been made by then, and the key digest and the signature are those   *)
(* of the first t nodes.                                                   *)
Known(h) == \A bytes \in DOMAIN h : bytes \in Seq(Nat) /\ h[bytes] \in Digests

MadeSoFar ==
  /\ stage \in {"session", "vdf", "zk"} =>
       /\ collective.seed \in Digests /\ collective.publicKey \in Digests
       /\ collective.signature \in Seq(Nat)
  /\ stage \in {"vdf", "zk"} => sessionSeed \in Digests

Signed ==
  stage \in {"session", "vdf", "zk", "done"} =>
    /\ ParamsAccepted
    /\ secrets \in [1..committee.n -> Secrets]
    /\ SignedSubset(secrets) \in DOMAIN sha
    /\ collective.publicKey = sha[SignedSubset(secrets)]
    /\ collective.signature[1] = SumOfExponents(SignedSubset(secrets))

PipelineInv ==
  /\ VdfInv
  /\ PipelineTypeOK
  /\ MadeSoFar
  /\ Signed
  /\ SignalsMatchPayload
  /\ ProofNamesSigners
  /\ HonestProofIsComplete

Extends(h, g) == \A bytes \in DOMAIN g : bytes \in DOMAIN h /\ h[bytes] = g[bytes]

LEMMA HashingKnows ==
  ASSUME Known(sha), NEW strings, \A bytes \in strings : bytes \in Seq(Nat),
         NEW h \in Hashing(strings)
  PROVE  strings \subseteq DOMAIN h /\ Known(h) /\ Extends(h, sha)
<1>1. PICK new \in [strings \ DOMAIN sha -> Digests] :
        h = [s \in DOMAIN sha \cup strings |->
               IF s \in DOMAIN sha THEN sha[s] ELSE new[s]]
  BY DEF Hashing
<1>2. DOMAIN h = DOMAIN sha \cup strings
  BY <1>1
<1>3. \A s \in DOMAIN sha : h[s] = sha[s]
  BY <1>1
<1>4. \A s \in strings \ DOMAIN sha : h[s] \in Digests
  BY <1>1
<1> QED BY <1>2, <1>3, <1>4 DEF Known, Extends

LEMMA PipelineInitInv == Init => PipelineInv
<1> SUFFICES ASSUME Init PROVE PipelineInv
  OBVIOUS
<1>1. VdfInv
  BY VdfInitInv DEF Init
<1>2. PipelineTypeOK
  BY <1>1 DEF Init, PipelineTypeOK, VdfInv, None
<1>3. MadeSoFar /\ Signed
  BY DEF Init, MadeSoFar, Signed
<1>4. SignalsMatchPayload /\ ProofNamesSigners /\ HonestProofIsComplete
  BY DEF Init, SignalsMatchPayload, ProofNamesSigners, HonestProofIsComplete, Proven
<1> QED BY <1>1, <1>2, <1>3, <1>4 DEF PipelineInv

-----------------------------------------------------------------------------
(* The committee. *)

(* The signers are the first t nodes.                                      *)
LEMMA SignersType ==
  ASSUME committee \in Committees, ParamsAccepted,
         NEW keys \in [1..committee.n -> Secrets]
  PROVE  /\ committee.n \in Nat /\ committee.t \in 1..committee.n
         /\ keys \in [1..committee.n -> Nat]
         /\ SignedSubset(keys) \in [1..committee.t -> Nat]
         /\ SignedSubset(keys) = [i \in 1..committee.t |-> keys[i]]
         /\ SubsetKeys(keys) = SignedSubset(keys)
<1> DEFINE n == committee.n
           m == committee.t
           a == SignedSubset(keys)
<1>1. n \in Nat /\ m \in 1..n /\ m \in 0..n
  BY PipelineAssumption DEF ParamsAccepted
<1>2. keys \in [1..n -> Nat]
  <2>1. Secrets \subseteq Nat
    BY PipelineAssumption
  <2> QED BY <2>1
<1> HIDE DEF n
<1>3. keys \in Seq(Nat) /\ Len(keys) = n
  BY <1>1, <1>2, IsSequence
<1>4. a = SubSeq(keys, 1, m)
  BY DEF SignedSubset
<1> HIDE DEF m, a
<1>5. a \in Seq(Nat) /\ Len(a) = m /\ \A i \in 1..m : a[i] = keys[i]
  <2> DEFINE b == SubSeq(keys, 1, m)
  <2>1. b \in Seq(Nat) /\ Len(b) = m
    <3>1. m \in 0..Len(keys)
      BY <1>1, <1>3
    <3> QED BY <1>3, <3>1, Prefix
  <2>2. \A i \in 1..m : b[i] = keys[i]
    BY <1>1, <1>3
  <2> QED BY <1>4, <2>1, <2>2
<1>6. a \in [1..m -> Nat]
  BY <1>5, IsFunction
<1>7. a = [i \in 1..m |-> keys[i]]
  BY <1>5, <1>6
<1>8. SubsetKeys(keys) = [i \in 1..m |-> keys[i]]
  <2>1. committee.t = m
    BY DEF m
  <2> QED BY <1>1, <1>2, <2>1, KeysInOrder
<1> QED BY <1>1, <1>2, <1>6, <1>7, <1>8 DEF n, m, a

(* The signature of a committee is a string of numbers that starts with    *)
(* the sum of the signers' exponents.                                      *)
LEMMA SignatureType ==
  ASSUME NEW seed \in Digests, committee \in Committees, ParamsAccepted,
         NEW keys \in [1..committee.n -> Secrets]
  PROVE  /\ Aggregate(SignedSubset(keys), seed) \in Seq(Nat)
         /\ Aggregate(SignedSubset(keys), seed)[1] = SumOfExponents(SignedSubset(keys))
         /\ SumOfExponents(SignedSubset(keys))
              = SumFunction(SignedSubset(keys)) % CurveOrder
<1> DEFINE a == SignedSubset(keys)
           m == committee.t
           sum == SumOfExponents(a)
<1>1. m \in Nat /\ a \in [1..m -> Nat]
  BY SignersType
<1> HIDE DEF a, m
<1>2. sum = SumFunction(a) % CurveOrder
  BY <1>1, AggregateIsSum
<1>3. SumFunction(a) \in Nat
  <2>1. DOMAIN a = 1..m /\ \A i \in 1..m : a[i] \in Nat
    BY <1>1
  <2>2. IsFiniteSet(1..m)
    BY <1>1, FS_Interval
  <2>3. SumFunctionOnSet(a, 1..m) \in Nat
    BY <2>1, <2>2, SumNat
  <2> QED BY <2>1, <2>3, Zenon DEF SumFunction
<1>4. sum \in Nat
  <2> DEFINE f == SumFunction(a)
  <2>1. f \in Nat /\ CurveOrder \in Nat \ {0}
    BY <1>3, PipelineAssumption
  <2> HIDE DEF f
  <2>2. f % CurveOrder \in 0..(CurveOrder - 1)
    BY <2>1, DivisionWithRemainder
  <2>3. f % CurveOrder \in Nat
    BY <2>1, <2>2
  <2> QED BY <1>2, <2>3 DEF f
<1>5. seed \in Seq(Nat)
  BY DigestIsMessage
<1>6. Aggregate(a, seed) = <<sum>> \o seed
  BY DEF Aggregate
<1> HIDE DEF sum
<1>7. <<sum>> \o seed \in Seq(Nat) /\ (<<sum>> \o seed)[1] = sum
  BY <1>4, <1>5
<1> QED BY <1>2, <1>6, <1>7 DEF a, sum

-----------------------------------------------------------------------------
(* What is hashed is a string of numbers. *)

LEMMA BigEndianType ==
  ASSUME NEW number \in Nat,
         NEW n \in 0..(MsgBytes + FieldBytes + RequestBytes + ElementBytes)
  PROVE  BigEndian(number, n) \in Seq(Nat)
<1> DEFINE P == [i \in 0..n |-> Byte ^ i]
<1>1. Powers(P, Byte, n)
  BY PowersOfByte
<1>2. n \in Nat
  <2>1. MsgBytes \in Nat /\ FieldBytes \in Nat /\ RequestBytes \in Nat
    BY CircuitAssumption
  <2>2. ElementBytes \in Nat
    BY PipelineAssumption
  <2> QED BY <2>1, <2>2
<1>3. \A i \in 1..n : n - i \in 0..n /\ P[n - i] = Byte ^ (n - i)
  BY <1>2
<1> HIDE DEF P
<1>4. \A i \in 1..n : P[n - i] \in Nat \ {0}
  BY <1>1, <1>3 DEF Powers
<1>5. Byte \in Nat \ {0}
  <2>1. Nibble \in Nat \ {0}
    BY CircuitAssumption
  <2> QED BY <2>1, SMT DEF Byte
<1>6. ASSUME NEW i \in 1..n
      PROVE  (number \div Byte ^ (n - i)) % Byte \in Nat
  <2> DEFINE p == P[n - i]
             q == number \div p
  <2>1. p \in Nat \ {0} /\ Byte ^ (n - i) = p
    BY <1>3, <1>4
  <2> HIDE DEF p
  <2>2. q \in Nat
    BY <2>1, DivisionWithRemainder
  <2> HIDE DEF q
  <2>3. q % Byte \in Nat
    BY <1>5, <2>2, DivisionWithRemainder
  <2> QED BY <2>1, <2>3 DEF q
<1>7. BigEndian(number, n) \in [1..n -> Nat]
  BY <1>6 DEF BigEndian
<1> QED BY <1>2, <1>7, IsSequence

LEMMA SessionBytesType ==
  ASSUME collective.seed \in Digests
  PROVE  SessionBytes \in Seq(Nat)
<1>1. SessionTag \in Seq(Nat) /\ UserSeed \in Seq(Nat) /\ Request \in Nat
  BY PipelineAssumption
<1>2. <<Request>> \in Seq(Nat)
  BY <1>1
<1>3. collective.seed \in Seq(Nat)
  BY DigestIsMessage
<1> DEFINE a == SessionTag
           b == <<Request>>
           c == UserSeed
           d == collective.seed
<1>4. a \in Seq(Nat) /\ b \in Seq(Nat) /\ c \in Seq(Nat) /\ d \in Seq(Nat)
  BY <1>1, <1>2, <1>3
<1> HIDE DEF a, b, c, d
<1>5. ((a \o b) \o c) \o d \in Seq(Nat)
  BY <1>4
<1> QED BY <1>5 DEF SessionBytes, a, b, c, d

LEMMA CircuitBytesType ==
  ASSUME NEW pk \in Seq(Nat), NEW sig \in Seq(Nat), NEW msg \in Seq(Nat)
  PROVE  /\ CommitmentBytes(pk, sig, msg) \in Seq(Nat)
         /\ KeyBytes(pk) \in Seq(Nat)
<1> DEFINE a == PadOrTruncate(pk, PkBytes)
           b == PadOrTruncate(sig, SigBytes)
           c == PadOrTruncate(msg, MsgBytes)
<1>1. PkBytes \in Nat /\ SigBytes \in Nat /\ MsgBytes \in Nat
  BY CircuitAssumption
<1>2. a \in [1..PkBytes -> Nat] /\ b \in [1..SigBytes -> Nat] /\ c \in [1..MsgBytes -> Nat]
  BY <1>1, Padded
<1> HIDE DEF a, b, c
<1>3. a \in Seq(Nat) /\ b \in Seq(Nat) /\ c \in Seq(Nat)
  BY <1>1, <1>2, IsSequence
<1>4. (a \o b) \o c \in Seq(Nat)
  BY <1>3
<1> QED BY <1>3, <1>4 DEF CommitmentBytes, KeyBytes, a, b, c

LEMMA PayloadBytesType ==
  ASSUME VdfInv, NEW seed \in Digests
  PROVE  PayloadBytes(Request, Element(y), Element(pi), seed, Modulus) \in Seq(Nat)
<1> DEFINE a == BigEndian(Request, RequestBytes)
           b == Element(y)
           c == Element(pi)
           d == PadOrTruncate(seed, MsgBytes)
           e == Modulus
<1>1. /\ RequestBytes \in 0..(MsgBytes + FieldBytes + RequestBytes + ElementBytes)
      /\ ElementBytes \in 0..(MsgBytes + FieldBytes + RequestBytes + ElementBytes)
  <2>1. MsgBytes \in Nat /\ FieldBytes \in Nat /\ RequestBytes \in Nat
    BY CircuitAssumption
  <2>2. ElementBytes \in Nat
    BY PipelineAssumption
  <2> QED BY <2>1, <2>2
<1>2. y \in Nat /\ pi \in Nat /\ Request \in Nat
  BY OrderAssumption, PipelineAssumption DEF VdfInv, VdfTypeOK
<1>3. a \in Seq(Nat)
  BY <1>1, <1>2, BigEndianType
<1>4. b \in Seq(Nat) /\ c \in Seq(Nat)
  BY <1>1, <1>2, BigEndianType DEF Element
<1>5. d \in Seq(Nat) /\ e \in Seq(Nat)
  BY DigestIsMessage, PipelineAssumption
<1> HIDE DEF a, b, c, d, e
<1>6. (((a \o b) \o c) \o d) \o e \in Seq(Nat)
  BY <1>3, <1>4, <1>5
<1> QED BY <1>6 DEF PayloadBytes, a, b, c, d, e

-----------------------------------------------------------------------------
(* The end of a run. *)

LEMMA PayloadIsSome ==
  ASSUME NEW proof, NEW signals
  PROVE  Payload(proof, signals) # None
<1>1. "proof" \in DOMAIN Payload(proof, signals)
  BY DEF Payload
<1>2. DOMAIN None = {}
  BY DEF None
<1> QED BY <1>1, <1>2

(* The committee named by a payload that carries the signature and the     *)
(* key digest of the run.                                                  *)
LEMMA SignersAreNamed ==
  ASSUME PipelineInv, stage = "zk", NEW h, Known(h), Extends(h, sha),
         KeyBytes(collective.publicKey) \in DOMAIN h,
         NEW signals,
         signals[3] = FormatFieldElement(FpFromU128(
                        Split256To128(h[KeyBytes(collective.publicKey)]).hi)),
         signals[4] = FormatFieldElement(FpFromU128(
                        Split256To128(h[KeyBytes(collective.publicKey)]).lo))
  PROVE  \E node \in [1..committee.t -> 1..committee.n] :
           LET signer == [i \in 1..committee.t |-> secrets[node[i]]]
               keys == FlattenSeq([i \in 1..committee.t |-> PublicKey(signer[i])])
           IN  /\ \A i, j \in 1..committee.t : i < j => node[i] < node[j]
               /\ keys \in DOMAIN h
               /\ Recombined(signals, 3) = h[PadOrTruncate(h[keys], PkBytes)]
               /\ collective.signature[1] = SumFunction(signer) % CurveOrder
<1> DEFINE m == committee.t
           a == SignedSubset(secrets)
           node == [i \in 1..m |-> i]
           signer == [i \in 1..m |-> secrets[node[i]]]
           keys == FlattenSeq([i \in 1..m |-> PublicKey(signer[i])])
           pk == collective.publicKey
<1>1. /\ committee \in Committees /\ ParamsAccepted
      /\ secrets \in [1..committee.n -> Secrets]
      /\ a \in DOMAIN sha /\ pk = sha[a]
      /\ collective.signature[1] = SumOfExponents(a)
      /\ collective.seed \in Digests
  BY DEF PipelineInv, PipelineTypeOK, Signed, MadeSoFar
<1>2. /\ committee.n \in Nat /\ m \in 1..committee.n
      /\ a \in [1..m -> Nat] /\ a = [i \in 1..m |-> secrets[i]]
  BY <1>1, SignersType
<1>3. m \in Nat \ {0}
  BY <1>2
<1>4. node \in [1..m -> 1..committee.n]
  BY <1>2
<1>5. signer = a
  BY <1>2
<1>6. keys = a
  <2> HIDE DEF signer
  <2>1. signer \in [1..m -> Nat]
    BY <1>2, <1>5
  <2>2. keys = signer
    BY <1>3, <2>1, FlattenKeys
  <2> QED BY <1>5, <2>2
<1>7. \A i, j \in 1..m : i < j => node[i] < node[j]
  OBVIOUS
<1>8. keys \in DOMAIN h /\ h[keys] = pk
  BY <1>1, <1>2, <1>6 DEF Extends
<1>9. Recombined(signals, 3) = h[PadOrTruncate(h[keys], PkBytes)]
  <2> DEFINE d == h[KeyBytes(pk)]
  <2>1. d \in Digests
    BY DEF Known
  <2>2. 3 + 1 = 4 /\ 3 \in Nat
    OBVIOUS
  <2>3. Recombined(signals, 3) = d
    BY <2>1, <2>2, DigestSurvives
  <2> QED BY <1>8, <2>3 DEF KeyBytes
<1>10. collective.signature[1] = SumFunction(signer) % CurveOrder
  <2>1. SumOfExponents(a) = SumFunction(a) % CurveOrder
    BY <1>1, SignatureType
  <2> QED BY <1>1, <1>5, <2>1
<1> HIDE DEF keys
<1>11. /\ \A i, j \in 1..m : i < j => node[i] < node[j]
       /\ keys \in DOMAIN h
       /\ Recombined(signals, 3) = h[PadOrTruncate(h[keys], PkBytes)]
       /\ collective.signature[1] = SumFunction(signer) % CurveOrder
  BY <1>7, <1>8, <1>9, <1>10
<1> QED BY <1>4, <1>11, Zenon DEF keys, signer, m

(* A run that ends with a proof leaves a payload that the proof speaks of. *)
LEMMA GenerateZkProofInv ==
  PipelineInv /\ GenerateZkProof =>
    /\ Known(sha)' /\ Extends(sha', sha)
    /\ payload' # None
    /\ SignalsMatchPayload' /\ ProofNamesSigners' /\ HonestProofIsComplete'
<1> SUFFICES ASSUME PipelineInv, GenerateZkProof
             PROVE  /\ Known(sha)' /\ Extends(sha', sha)
                    /\ payload' # None
                    /\ SignalsMatchPayload' /\ ProofNamesSigners'
                    /\ HonestProofIsComplete'
  OBVIOUS
<1> DEFINE pk == collective.publicKey
           sig == collective.signature
           bytes == PayloadBytes(Request, Element(y), Element(pi), sessionSeed, Modulus)
           strings == {CommitmentBytes(pk, sig, sessionSeed), KeyBytes(pk), bytes}
           input(h) == FromRaw(h, pk, sig, sessionSeed, Element(y), Element(pi),
                               Modulus, Request)
<1>1. PICK h \in Hashing(strings) :
        /\ sha' = h
        /\ Done(Payload(Proof(h, input(h)), Signals(PublicInputs(input(h)))))
  BY DEF GenerateZkProof
<1>2. pk \in Digests /\ sig \in Seq(Nat) /\ sessionSeed \in Digests
  BY DEF GenerateZkProof, PipelineInv, MadeSoFar
<1>3. pk \in Seq(Nat) /\ sessionSeed \in Seq(Nat)
  BY <1>2, DigestIsMessage
<1>4. strings \subseteq DOMAIN h /\ Known(h) /\ Extends(h, sha)
  <2>1. Known(sha) /\ VdfInv
    BY DEF PipelineInv, PipelineTypeOK, Known
  <2>2. \A s \in strings : s \in Seq(Nat)
    <3>1. CommitmentBytes(pk, sig, sessionSeed) \in Seq(Nat) /\ KeyBytes(pk) \in Seq(Nat)
      BY <1>2, <1>3, CircuitBytesType
    <3>2. bytes \in Seq(Nat)
      BY <1>2, <2>1, PayloadBytesType
    <3> HIDE DEF bytes, pk, sig
    <3> QED BY <3>1, <3>2
  <2> HIDE DEF strings
  <2> QED BY <2>1, <2>2, HashingKnows
<1>5. /\ payload' = Payload(Proof(h, input(h)), Signals(PublicInputs(input(h))))
      /\ stage = "zk" /\ stage' = "done"
      /\ committee' = committee /\ secrets' = secrets
  BY <1>1 DEF GenerateZkProof, Done
<1>6. Known(sha)' /\ Extends(sha', sha)
  BY <1>1, <1>4 DEF Known
<1>7. payload' # None
  BY <1>5, PayloadIsSome
<1>8. /\ payload'.requestId = Request /\ payload'.y = Element(y)
      /\ payload'.pi = Element(pi) /\ payload'.seed = sessionSeed
      /\ payload'.modulus = Modulus /\ payload'.signature = sig
      /\ payload'.signals = Signals(PublicInputs(input(h)))
      /\ payload'.proof = Proof(h, input(h))
  BY <1>5 DEF Payload
<1>9. HonestProofIsComplete'
  <2>0. h[CommitmentBytes(pk, sig, sessionSeed)] \in Digests /\ h[KeyBytes(pk)] \in Digests
    BY <1>4 DEF Known
  <2>1. Satisfied(Synthesize(h, input(h)), PublicInputs(input(h)))
    BY <1>2, <1>3, <2>0, HonestTable
  <2>2. /\ payload'.proof.rows = Synthesize(h, input(h))
        /\ payload'.proof.instance = PublicInputs(input(h))
    BY <1>8 DEF Proof
  <2> QED BY <2>1, <2>2 DEF HonestProofIsComplete
<1>10. ProofNamesSigners'
  <2> DEFINE signals == Signals(PublicInputs(input(h)))
  <2>1. /\ signals[3] = FormatFieldElement(FpFromU128(Split256To128(h[KeyBytes(pk)]).hi))
        /\ signals[4] = FormatFieldElement(FpFromU128(Split256To128(h[KeyBytes(pk)]).lo))
    BY DEF Signals, PublicInputs, FromRaw
  <2>2. KeyBytes(pk) \in DOMAIN h
    BY <1>4
  <2> HIDE DEF signals, strings
  <2>3. \E node \in [1..committee.t -> 1..committee.n] :
           LET signer == [i \in 1..committee.t |-> secrets[node[i]]]
               keys == FlattenSeq([i \in 1..committee.t |-> PublicKey(signer[i])])
           IN  /\ \A i, j \in 1..committee.t : i < j => node[i] < node[j]
               /\ keys \in DOMAIN h
               /\ Recombined(signals, 3) = h[PadOrTruncate(h[keys], PkBytes)]
               /\ collective.signature[1] = SumFunction(signer) % CurveOrder
    BY <1>4, <1>5, <2>1, <2>2, SignersAreNamed
  <2>4. payload'.signals = signals
    BY <1>8 DEF signals
  <2> QED BY <1>1, <1>5, <1>8, <2>3, <2>4, Zenon DEF ProofNamesSigners
<1>11. SignalsMatchPayload'
  <2> DEFINE relayed == BigEndian(payload'.requestId, RequestBytes) \o payload'.y
                          \o payload'.pi \o payload'.seed \o payload'.modulus
  <2>2. relayed = bytes
    BY <1>2, <1>8, DigestIsMessage DEF PayloadBytes
  <2>3. bytes \in DOMAIN sha' /\ sha'[bytes] \in Digests
    BY <1>1, <1>4 DEF Known
  <2>4. /\ payload'.signals[5] =
             FormatFieldElement(FpFromU128(Split256To128(h[bytes]).hi))
        /\ payload'.signals[6] =
             FormatFieldElement(FpFromU128(Split256To128(h[bytes]).lo))
        /\ payload'.signals[7] = FormatFieldElement(Request % Prime)
    BY <1>8 DEF Signals, PublicInputs, FromRaw
  <2>5. Recombined(payload'.signals, 5) = sha'[bytes]
    <3>1. 5 + 1 = 6 /\ 5 \in Nat
      OBVIOUS
    <3> QED BY <1>1, <2>3, <2>4, <3>1, DigestSurvives
  <2>6. FormatFieldElement(Request % Prime) = Request
    <3>1. Prime \in Nat \ {0} /\ Request \in 0..(Prime - 1)
      BY CircuitAssumption, PipelineAssumption
    <3> QED BY <3>1, SmallRemainder, FieldElementSurvives
  <2> HIDE DEF bytes
  <2> QED BY <1>8, <2>2, <2>3, <2>4, <2>5, <2>6 DEF SignalsMatchPayload
<1> QED BY <1>6, <1>7, <1>9, <1>10, <1>11

LEMMA PipelineStepInv == PipelineInv /\ [Next]_vars => PipelineInv'
<1> SUFFICES ASSUME PipelineInv, [Next]_vars PROVE PipelineInv'
  OBVIOUS
<1>0. VdfInv'
  BY StepsOfDelay, VdfStepInv DEF PipelineInv
<1>a. VdfTypeOK' /\ Known(sha)
  BY <1>0 DEF VdfInv, PipelineInv, PipelineTypeOK, Known
<1>b. ASSUME ~Proven'
      PROVE  SignalsMatchPayload' /\ ProofNamesSigners' /\ HonestProofIsComplete'
  BY <1>b DEF SignalsMatchPayload, ProofNamesSigners, HonestProofIsComplete
<1>1. ASSUME RefuseParams PROVE PipelineInv'
  <2>1. ~Proven'
    BY <1>1 DEF RefuseParams, Proven
  <2>2. PipelineTypeOK' /\ MadeSoFar' /\ Signed'
    BY <1>1, <1>a DEF RefuseParams, PipelineInv, PipelineTypeOK, MadeSoFar, Signed
  <2> QED BY <1>0, <1>b, <2>1, <2>2 DEF PipelineInv
<1>2. ASSUME RunPedersenDkg PROVE PipelineInv'
  <2> DEFINE Made(keys, h) ==
               /\ secrets' = keys
               /\ sha' = h
               /\ collective' =
                    CollectiveRandomness(h[Transcript(keys)],
                      Aggregate(SignedSubset(keys), h[Transcript(keys)]),
                      h[SubsetKeys(keys)])
  <2>0. PICK keys \in [1..committee.n -> Secrets] :
          \E h \in Hashing({Transcript(keys), SubsetKeys(keys)}) : Made(keys, h)
    BY <1>2 DEF RunPedersenDkg
  <2>1. PICK h \in Hashing({Transcript(keys), SubsetKeys(keys)}) : Made(keys, h)
    BY <2>0
  <2>2. /\ stage = "dkg" /\ stage' = "session" /\ committee' = committee /\ k' = k
        /\ ParamsAccepted /\ ParamsAccepted' /\ committee \in Committees
        /\ payload' = payload /\ sessionSeed' = sessionSeed
    BY <1>2 DEF RunPedersenDkg, ParamsAccepted, PipelineInv, PipelineTypeOK
  <2>3. /\ committee.n \in Nat /\ committee.t \in Nat
        /\ keys \in [1..committee.n -> Nat]
        /\ SubsetKeys(keys) \in Seq(Nat) /\ SubsetKeys(keys) = SignedSubset(keys)
    <3>1. /\ committee.n \in Nat /\ committee.t \in 1..committee.n
          /\ keys \in [1..committee.n -> Nat]
          /\ SignedSubset(keys) \in [1..committee.t -> Nat]
          /\ SubsetKeys(keys) = SignedSubset(keys)
      BY <2>2, SignersType
    <3>2. SubsetKeys(keys) \in Seq(Nat)
      BY <3>1, IsSequence
    <3> QED BY <3>1, <3>2
  <2>4. Transcript(keys) \in Seq(Nat)
    BY <2>3, TranscriptType
  <2>5. /\ Transcript(keys) \in DOMAIN h /\ SubsetKeys(keys) \in DOMAIN h
        /\ Known(h)
    <3> DEFINE strings == {Transcript(keys), SubsetKeys(keys)}
    <3>1. \A bytes \in strings : bytes \in Seq(Nat)
      BY <2>3, <2>4
    <3>2. h \in Hashing(strings)
      OBVIOUS
    <3> HIDE DEF strings
    <3>3. strings \subseteq DOMAIN h /\ Known(h)
      BY <1>a, <3>1, <3>2, HashingKnows
    <3> QED BY <3>3 DEF strings
  <2> DEFINE seed == h[Transcript(keys)]
             sum == SumOfExponents(SignedSubset(keys))
  <2>6. seed \in Digests /\ h[SubsetKeys(keys)] \in Digests
    BY <2>5 DEF Known
  <2>7. /\ Aggregate(SignedSubset(keys), seed) \in Seq(Nat)
        /\ Aggregate(SignedSubset(keys), seed)[1] = sum
    BY <2>2, <2>6, SignatureType
  <2>8. /\ collective'.seed = seed
        /\ collective'.publicKey = h[SubsetKeys(keys)]
        /\ collective'.signature = Aggregate(SignedSubset(keys), seed)
    BY <2>1 DEF CollectiveRandomness
  <2>9. /\ SignedSubset(secrets)' = SignedSubset(keys)
        /\ SumOfExponents(SignedSubset(secrets))' = sum
    BY <2>1, <2>2 DEF SignedSubset
  <2>10. ~Proven'
    BY <2>2 DEF Proven
  <2>11. MadeSoFar'
    BY <2>2, <2>6, <2>7, <2>8 DEF MadeSoFar
  <2>12. Signed'
    BY <2>1, <2>2, <2>3, <2>5, <2>7, <2>8, <2>9 DEF Signed
  <2>13. PipelineTypeOK'
    BY <1>a, <2>1, <2>2, <2>5 DEF PipelineInv, PipelineTypeOK, Known
  <2> QED BY <1>0, <1>b, <2>10, <2>11, <2>12, <2>13 DEF PipelineInv
<1>3. ASSUME DeriveSession PROVE PipelineInv'
  <2>1. /\ stage = "session" /\ stage' = "vdf" /\ committee' = committee
        /\ k' = k /\ secrets' = secrets /\ collective' = collective
        /\ payload' = payload /\ sessionSeed' = sha'[SessionBytes]
    BY <1>3 DEF DeriveSession
  <2>2. SessionBytes \in DOMAIN sha' /\ Known(sha)' /\ Extends(sha', sha)
    <3>1. SessionBytes \in Seq(Nat)
      BY <2>1, SessionBytesType DEF PipelineInv, MadeSoFar
    <3> DEFINE strings == {SessionBytes}
    <3>2. sha' \in Hashing(strings) /\ \A bytes \in strings : bytes \in Seq(Nat)
      BY <1>3, <3>1 DEF DeriveSession
    <3> HIDE DEF strings
    <3>3. strings \subseteq DOMAIN sha' /\ Known(sha') /\ Extends(sha', sha)
      BY <1>a, <3>2, HashingKnows
    <3> QED BY <3>3 DEF strings, Known
  <2>3. sessionSeed' \in Digests
    BY <2>1, <2>2 DEF Known
  <2>4. MadeSoFar'
    BY <2>1, <2>3 DEF MadeSoFar, PipelineInv
  <2>5. /\ SignedSubset(secrets)' = SignedSubset(secrets)
        /\ SumOfExponents(SignedSubset(secrets))' = SumOfExponents(SignedSubset(secrets))
        /\ ParamsAccepted' = ParamsAccepted
    BY <2>1 DEF SignedSubset, ParamsAccepted
  <2>6. Signed'
    BY <2>1, <2>2, <2>5 DEF Signed, PipelineInv, Extends
  <2>7. PipelineTypeOK'
    BY <1>a, <2>1, <2>2, <2>3 DEF PipelineInv, PipelineTypeOK, Known
  <2>8. ~Proven'
    BY <2>1 DEF Proven
  <2> QED BY <1>0, <1>b, <2>4, <2>6, <2>7, <2>8 DEF PipelineInv
<1>c. ASSUME UNCHANGED <<committee, sha, secrets, collective>>,
             stage \in {"session", "vdf", "zk", "done"}
      PROVE  Signed'
  <2>1. /\ SignedSubset(secrets)' = SignedSubset(secrets)
        /\ SumOfExponents(SignedSubset(secrets))' = SumOfExponents(SignedSubset(secrets))
        /\ ParamsAccepted' = ParamsAccepted
    BY <1>c DEF SignedSubset, ParamsAccepted
  <2> QED BY <1>c, <2>1 DEF Signed, PipelineInv
<1>4. ASSUME EvaluateDelay PROVE PipelineInv'
  <2>1. /\ stage = "vdf" /\ stage' \in {"vdf", "zk"}
        /\ UNCHANGED <<committee, k, sha, secrets, collective, sessionSeed, payload>>
    BY <1>4 DEF EvaluateDelay
  <2>2. ~Proven'
    BY <2>1 DEF Proven
  <2>3. MadeSoFar' /\ Signed'
    BY <1>c, <2>1 DEF PipelineInv, MadeSoFar
  <2>4. PipelineTypeOK'
    BY <1>a, <2>1 DEF PipelineInv, PipelineTypeOK
  <2> QED BY <1>0, <1>b, <2>2, <2>3, <2>4 DEF PipelineInv
<1>5. ASSUME SetupPanics PROVE PipelineInv'
  <2>1. ~Proven'
    BY <1>5 DEF SetupPanics, Proven
  <2>2. PipelineTypeOK' /\ MadeSoFar' /\ Signed'
    BY <1>5, <1>a DEF SetupPanics, PipelineInv, PipelineTypeOK, MadeSoFar, Signed
  <2> QED BY <1>0, <1>b, <2>1, <2>2 DEF PipelineInv
<1>6. ASSUME GenerateZkProof PROVE PipelineInv'
  <2>1. /\ Known(sha)' /\ Extends(sha', sha) /\ payload' # None
        /\ SignalsMatchPayload' /\ ProofNamesSigners' /\ HonestProofIsComplete'
    BY <1>6, GenerateZkProofInv
  <2>2. /\ stage = "zk" /\ stage' = "done"
        /\ UNCHANGED <<committee, k, secrets, collective, sessionSeed>>
    BY <1>6 DEF GenerateZkProof, Done
  <2>3. /\ SignedSubset(secrets)' = SignedSubset(secrets)
        /\ SumOfExponents(SignedSubset(secrets))' = SumOfExponents(SignedSubset(secrets))
        /\ ParamsAccepted' = ParamsAccepted
    BY <2>2 DEF SignedSubset, ParamsAccepted
  <2>4. Signed'
    BY <2>1, <2>2, <2>3 DEF Signed, PipelineInv, Extends
  <2>5. MadeSoFar'
    BY <2>2 DEF MadeSoFar
  <2>6. PipelineTypeOK'
    BY <1>a, <2>1, <2>2 DEF PipelineInv, PipelineTypeOK, Known
  <2> QED BY <1>0, <2>1, <2>4, <2>5, <2>6 DEF PipelineInv
<1>7. ASSUME ZkProofFails PROVE PipelineInv'
  <2>1. /\ stage = "zk" /\ stage' = "done"
        /\ payload' = Payload(None, [i \in 1..7 |-> 0])
        /\ UNCHANGED <<committee, k, sha, secrets, collective, sessionSeed>>
    BY <1>7 DEF ZkProofFails, Done
  <2>2. payload' # None
    BY <2>1, PayloadIsSome
  <2>3. ~Proven'
    BY <2>1 DEF Proven, Payload, None
  <2>4. MadeSoFar' /\ Signed'
    BY <1>c, <2>1 DEF MadeSoFar
  <2>5. PipelineTypeOK'
    BY <1>a, <2>1, <2>2 DEF PipelineInv, PipelineTypeOK
  <2> QED BY <1>0, <1>b, <2>3, <2>4, <2>5 DEF PipelineInv
<1>8. ASSUME UNCHANGED vars PROVE PipelineInv'
  <2>1. UNCHANGED <<stage, committee, k, sha, secrets, collective, sessionSeed, payload>>
    BY <1>8 DEF vars, pipelineVars
  <2>2. PipelineTypeOK' /\ MadeSoFar' /\ Signed'
    BY <1>a, <2>1 DEF PipelineInv, PipelineTypeOK, MadeSoFar, Signed, ParamsAccepted,
                      SignedSubset
  <2>3. SignalsMatchPayload' /\ ProofNamesSigners' /\ HonestProofIsComplete'
    BY <2>1 DEF PipelineInv, SignalsMatchPayload, ProofNamesSigners,
                HonestProofIsComplete, Proven
  <2> QED BY <1>0, <2>2, <2>3 DEF PipelineInv
<1> QED BY <1>1, <1>2, <1>3, <1>4, <1>5, <1>6, <1>7, <1>8 DEF Next

LEMMA PipelineInvariant == Spec => []PipelineInv
  BY PipelineInitInv, PipelineStepInv, PTL DEF Spec

(* Whatever committee a caller asks for, every value of a run has its      *)
(* type: keys, digests, the group elements of the delay, and a payload     *)
(* exactly when the run has ended (lib.rs:87-160).                         *)
THEOREM PipelineTypeCorrect == Spec => []PipelineTypeOK
<1>1. PipelineInv => PipelineTypeOK
  BY DEF PipelineInv
<1> QED BY <1>1, PipelineInvariant, PTL

(* In every run that ends with a proof, whatever the digests, the keys and *)
(* the outputs of the delay function are, the relayed payload hashes to    *)
(* the signals the proof carries, and the proof is for this request        *)
(* (RandomReceiver.sol:256-265).                                           *)
THEOREM PayloadMatchesProof == Spec => []SignalsMatchPayload
<1>1. PipelineInv => SignalsMatchPayload
  BY DEF PipelineInv
<1> QED BY <1>1, PipelineInvariant, PTL

(* For every committee size and threshold, the proof names t nodes of the  *)
(* committee, each once, and the relayed signature is the sum of the       *)
(* signatures of these nodes (dkg/mod.rs:100-121, circuit.rs:62-65).       *)
THEOREM ProofsNameTheirSigners == Spec => []ProofNamesSigners
<1>1. PipelineInv => ProofNamesSigners
  BY DEF PipelineInv
<1> QED BY <1>1, PipelineInvariant, PTL

(* The table of an honest run satisfies every gate and every public input, *)
(* for every size of keys, signatures and digests (circuit.rs:144-266).    *)
THEOREM HonestProofsAreComplete == Spec => []HonestProofIsComplete
<1>1. PipelineInv => HonestProofIsComplete
  BY DEF PipelineInv
<1> QED BY <1>1, PipelineInvariant, PTL
=============================================================================
