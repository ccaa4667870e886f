---------------------------- MODULE Halo2Circuit ----------------------------
(***************************************************************************)
(* The statement proved about a payload: the inputs, the public signals    *)
(* and the circuit of halo2_prover/src/circuit.rs and prover.rs, as        *)
(* operators.  A string of bytes is a sequence of numbers below Byte; sha  *)
(* is SHA-256 as a function from such sequences to digests.                *)
(*                                                                         *)
(* An operator Mutant_X is a plausible bug in the definition after it.  No *)
(* definition uses it.                                                     *)
(***************************************************************************)
EXTENDS Integers, Sequences, SequencesExt

CONSTANTS
  Nibble,         \* 16
  HalfLength,     \* bytes of half a digest, 16
  Root,           \* 2^32, a fourth root of the values of a half
  Prime,          \* the field of the circuit
  PkBytes, SigBytes, MsgBytes,
  RequestBytes,   \* bytes of the request identifier in the digest, 32
  FieldBytes,     \* bytes of a field element
  ReservedRows    \* rows of the table the proof system keeps for itself

Byte == Nibble * Nibble
Word == Root * Root     \* 2^64
Half == Word * Word     \* 2^128

ASSUME CircuitAssumption ==
  /\ {Nibble, Root, Prime} \subseteq Nat \ {0}
  /\ Half < Prime
  /\ Half = Byte ^ HalfLength
  /\ Prime <= Byte ^ FieldBytes
  /\ {HalfLength, PkBytes, SigBytes, RequestBytes, FieldBytes} \subseteq Nat
  /\ MsgBytes = 2 * HalfLength

-----------------------------------------------------------------------------
(* Conversions. *)

PadOrTruncate(data, length) ==
  [i \in 1..length |-> IF i <= Len(data) THEN data[i] ELSE 0]

BigEndian(number, length) ==
  [i \in 1..length |-> (number \div Byte ^ (length - i)) % Byte]

FromBigEndian(bytes) ==
  FoldLeft(LAMBDA value, byte : value * Byte + byte, 0, bytes)

Split256To128(digest) ==
  [hi |-> FromBigEndian(SubSeq(digest, 1, HalfLength)),
   lo |-> FromBigEndian(SubSeq(digest, HalfLength + 1, 2 * HalfLength))]

Mutant_WordAsRoot(v) == ((v % Word) + (v \div Word) * Root) % Prime

\* Both copies, in the circuit and in the prover.
FpFromU128(v) ==
  ((v % Word) + (((((v \div Word) * Root) % Prime) * Root) % Prime)) % Prime

\* format_field_element sums the little-endian bytes; the decimal string is
\* parsed back by the caller.
FormatFieldElement(f) ==
  FoldLeft(LAMBDA value, i : value + ((f \div Byte ^ i) % Byte) * Byte ^ i,
           0, [i \in 1..FieldBytes |-> i - 1])

-----------------------------------------------------------------------------
(* BlsCommitmentInput::from_raw. *)

CommitmentBytes(pk, sig, msg) ==
  PadOrTruncate(pk, PkBytes) \o PadOrTruncate(sig, SigBytes)
    \o PadOrTruncate(msg, MsgBytes)

KeyBytes(pk) == PadOrTruncate(pk, PkBytes)

Mutant_DigestWithoutModulus(request, y, pi, msg, modulus) ==
  BigEndian(request, RequestBytes) \o y \o pi \o PadOrTruncate(msg, MsgBytes)

PayloadBytes(request, y, pi, msg, modulus) ==
  BigEndian(request, RequestBytes) \o y \o pi \o PadOrTruncate(msg, MsgBytes)
    \o modulus

FromRaw(sha, pk, sig, msg, y, pi, modulus, request) ==
  [pk |-> PadOrTruncate(pk, PkBytes), sig |-> PadOrTruncate(sig, SigBytes),
   msg |-> PadOrTruncate(msg, MsgBytes),
   commitment |-> Split256To128(sha[CommitmentBytes(pk, sig, msg)]),
   pkHash |-> Split256To128(sha[KeyBytes(pk)]),
   payloadHash |-> Split256To128(sha[PayloadBytes(request, y, pi, msg, modulus)]),
   requestId |-> request]

\* The instance column; a verifier reads it by position.
PublicInputs(input) ==
  <<FpFromU128(input.commitment.hi), FpFromU128(input.commitment.lo),
    FpFromU128(input.pkHash.hi), FpFromU128(input.pkHash.lo),
    FpFromU128(input.payloadHash.hi), FpFromU128(input.payloadHash.lo),
    input.requestId % Prime>>

-----------------------------------------------------------------------------
(* BlsCommitmentCircuit. *)

\* One row: three advice cells and the gate whose selector is on.
Row(gate, a, b, c) == [gate |-> gate, advice |-> <<a, b, c>>]

Mutant_NibblesSwapped(byte) == Row("byte_range", byte, byte % Nibble, byte \div Nibble)

ByteRow(byte) == Row("byte_range", byte, byte \div Nibble, byte % Nibble)

HashRow(computed, expected) ==
  Row("sha256", FpFromU128(computed), FpFromU128(expected), 0)

SignalRow(value) == Row("none", value, 0, 0)

PrivateBytes == PkBytes + SigBytes + MsgBytes
RowCount == PrivateBytes + 7

\* The private inputs byte by byte, the two hashes taken again next to the
\* expected ones, and the signals that have no gate.
Synthesize(sha, input) ==
  LET private == input.pk \o input.sig \o input.msg
      c == Split256To128(sha[private])
      p == Split256To128(sha[input.pk])
  IN  [i \in 1..PrivateBytes |-> ByteRow(private[i])]
      \o <<HashRow(c.hi, input.commitment.hi), HashRow(c.lo, input.commitment.lo),
           HashRow(p.hi, input.pkHash.hi), HashRow(p.lo, input.pkHash.lo),
           SignalRow(FpFromU128(input.payloadHash.hi)),
           SignalRow(FpFromU128(input.payloadHash.lo)),
           SignalRow(input.requestId % Prime)>>

\* constrain_instance: the rows whose first cell is a public input.
InstanceRows == [i \in 1..7 |-> PrivateBytes + i]

\* What prove commits to: the table and the instance column.
Proof(sha, input) ==
  [rows |-> Synthesize(sha, input), instance |-> PublicInputs(input)]

\* The polynomial of each gate is zero.
GateHolds(row) ==
  LET a == row.advice
  IN  CASE row.gate = "byte_range" -> (a[2] * Nibble + a[3] - a[1]) % Prime = 0
        [] row.gate = "sha256"     -> (a[1] - a[2]) % Prime = 0
        [] row.gate = "none"       -> TRUE

Satisfied(rows, instance) ==
  /\ \A i \in DOMAIN rows : GateHolds(rows[i])
  /\ \A i \in DOMAIN instance : rows[InstanceRows[i]].advice[1] = instance[i]

\* generate_keys: the circuit has to fit into the 2^k rows of the table.
RowsFit(k) == RowCount + ReservedRows <= 2 ^ k
=============================================================================
