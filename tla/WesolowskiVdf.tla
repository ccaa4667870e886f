--------------------------- MODULE WesolowskiVdf ---------------------------
(***************************************************************************)
(* The delay function of crypto_engine/src/vdf/mod.rs: evaluate squares    *)
(* the generator t times, generate_proof searches a prime challenge and    *)
(* raises the generator to 2^t divided by it.                              *)
(*                                                                         *)
(* The powers of the generator form a cyclic group, so an element is       *)
(* written as its exponent modulo the order of the generator, which nobody *)
(* knows and every property has to hold for.  The hash that yields the     *)
(* candidate primes is a function of the counter, unknown too.  The size   *)
(* of the discriminant is the constant 2048, so the check that refuses     *)
(* sizes below 256 never fires.                                            *)
(*                                                                         *)
(* An operator Mutant_X is a plausible bug in the definition after it.  No *)
(* definition uses it.                                                     *)
(***************************************************************************)
EXTENDS Integers, Sequences, SequencesExt

CONSTANTS
  Orders,        \* orders the generator may have
  Delays,        \* values of t
  TwoPow,        \* TwoPow[i] is 2 to the power i
  Counters,      \* the counter of the search wraps here
  Candidates,    \* numbers the hash of a counter may denote
  SmoothPrimes   \* SMOOTHNESS_BOUND_PRIMES

ASSUME OrderAssumption == Orders \subseteq Nat \ {0}

ASSUME SearchAssumption ==
  Counters \in Nat \ {0} /\ Candidates \subseteq Nat \ {0}

ASSUME DelayAssumption ==
  /\ Delays \subseteq Nat
  /\ \A d \in Delays :
       /\ TwoPow[0] = 1
       /\ \A i \in 0..d : TwoPow[i] \in Nat
       /\ \A i \in 0..(d - 1) : TwoPow[i + 1] = 2 * TwoPow[i]

VARIABLES
  step,          \* where evaluate_and_generate_proof is
  order, hash,   \* unknown to the program: the group and the hash
  t,             \* the delay
  x, squarings,  \* the running element and the count of the loop
  y, counter, ell, pi

vdfVars == <<step, order, hash, t, x, squarings, y, counter, ell, pi>>

-----------------------------------------------------------------------------
(* The filter of the candidates. *)

IsPrime(n) == n > 1 /\ \A d \in 2..(n - 1) : n % d # 0

BitLength[n \in Nat] == IF n = 0 THEN 0 ELSE 1 + BitLength[n \div 2]

ASSUME BitsAssumption ==
  /\ TwoPow[0] = 1
  /\ \A n \in Candidates : \A i \in 0..(BitLength[n + 1] - 2) :
       TwoPow[i] \in Nat /\ TwoPow[i + 1] = 2 * TwoPow[i]

IsMersenneLike(n) == n + 1 = TwoPow[BitLength[n + 1] - 1]

ASSUME PrimesAssumption ==
  SmoothPrimes \in Seq(Nat) /\ \A i \in DOMAIN SmoothPrimes : IsPrime(SmoothPrimes[i])

\* n with every factor p divided out.
Stripped(n, p) ==
  LET strip[m \in Nat \ {0}] == IF m % p = 0 THEN strip[m \div p] ELSE m
  IN  strip[n]

\* The division that reaches 1 answers: 1 itself, for n = 2, is not divided.
IsSmoothMinusOne(n) ==
  n > 2 /\ FoldLeft(Stripped, n - 1, SmoothPrimes) = 1

Mutant_RejectUnlessThree(n) == n % 4 # 3 \/ IsMersenneLike(n)

AlgebraicFilterReject(n) ==
  n % 4 # 3 \/ IsMersenneLike(n) \/ IsSmoothMinusOne(n)

\* probab_prime answers as if it were exact.
Acceptable(n) == IsPrime(n) /\ ~AlgebraicFilterReject(n)

-----------------------------------------------------------------------------
(* evaluate_and_generate_proof. *)

VdfInit ==
  /\ step = "start"
  /\ order \in Orders
  /\ hash \in [0..(Counters - 1) -> Candidates]
  /\ t \in Delays
  /\ x = 0 /\ squarings = 0 /\ y = 0 /\ counter = 0 /\ ell = 0 /\ pi = 0

\* The exponent of a product of two elements.
Times(a, b) == IF a + b < order THEN a + b ELSE a + b - order

Generator == 1 % order

Evaluate ==
  /\ step = "start"
  /\ step' = "squaring"
  /\ x' = Generator /\ squarings' = 0
  /\ UNCHANGED <<order, hash, t, y, counter, ell, pi>>

Square ==
  /\ step = "squaring" /\ squarings < t
  /\ x' = Times(x, x)
  /\ squarings' = squarings + 1
  /\ UNCHANGED <<step, order, hash, t, y, counter, ell, pi>>

Output ==
  /\ step = "squaring" /\ squarings = t
  /\ y' = x /\ counter' = 0
  /\ step' = "searching"
  /\ UNCHANGED <<order, hash, t, x, squarings, ell, pi>>

Mutant_CounterStays == counter

Mutant_CounterPastEnd == counter + 1

NextCounter == (counter + 1) % Counters

RejectCandidate ==
  /\ step = "searching" /\ ~Acceptable(hash[counter])
  /\ counter' = NextCounter
  /\ UNCHANGED <<step, order, hash, t, x, squarings, y, ell, pi>>

AcceptCandidate ==
  /\ step = "searching" /\ Acceptable(hash[counter])
  /\ ell' = hash[counter]
  /\ step' = "proving"
  /\ UNCHANGED <<order, hash, t, x, squarings, y, counter, pi>>

Mutant_QuotientOfDelay == t \div ell

Quotient == TwoPow[t] \div ell

\* proof_pi.pow(q) on the generator.
GenerateProof ==
  /\ step = "proving"
  /\ pi' = Quotient % order
  /\ step' = "proved"
  /\ UNCHANGED <<order, hash, t, x, squarings, y, counter, ell>>

VdfNext ==
  \/ Evaluate
  \/ Square
  \/ Output
  \/ RejectCandidate
  \/ AcceptCandidate
  \/ GenerateProof

VdfSpec == VdfInit /\ [][VdfNext]_vdfVars

-----------------------------------------------------------------------------
(* Properties. *)

VdfTypeOK ==
  /\ step \in {"start", "squaring", "searching", "proving", "proved"}
  /\ order \in Orders /\ t \in Delays
  /\ hash \in [0..(Counters - 1) -> Candidates]
  /\ x \in 0..(order - 1) /\ y \in 0..(order - 1) /\ pi \in 0..(order - 1)
  /\ squarings \in 0..t
  /\ counter \in 0..(Counters - 1)
  /\ ell \in Candidates \cup {0}
  /\ step \in {"proving", "proved"} => ell \in Candidates

(* The proof convinces a verifier that knows neither the order nor the     *)
(* squarings: pi^ell * x^(2^t mod ell) = y, whatever the group             *)
(* (vdf/mod.rs:129-153; the check of the test at vdf/mod.rs:182).          *)
DelayProofVerifies ==
  step = "proved" => (ell * pi + (TwoPow[t] % ell)) % order = y

(* The challenge is the first candidate that is a prime of the wanted      *)
(* kind: 3 modulo 4, not one below a power of two, and with a prime factor *)
(* of ell - 1 outside the listed ones (vdf/mod.rs:51-112).                 *)
ChallengeIsFirstFit ==
  LET Divides(q, n) == n % q = 0
      Wanted(n) ==
        /\ n % 4 = 3
        /\ \A d \in 2..(n - 1) : ~Divides(d, n)
        /\ \E d \in 2..(n + 1) : d % 2 = 1 /\ Divides(d, n + 1)
        /\ \E q \in 2..n : /\ Divides(q, n - 1) /\ IsPrime(q)
                           /\ q \notin ToSet(SmoothPrimes)
  IN  ell # 0 =>
        /\ Wanted(ell) /\ ell = hash[counter]
        /\ \A c \in 0..(counter - 1) : ~Wanted(hash[c])
=============================================================================
