------------------------------- MODULE Words -------------------------------
(***************************************************************************)
(* The machine words that typed RMA and atomics move (src/rma.rs): values  *)
(* of a signed or unsigned type T and the unsigned bit patterns T::Bits    *)
(* that travel and sit in memory.                                          *)
(***************************************************************************)
EXTENDS Integers, Sequences

CONSTANT SignBit    \* the weight of a word's top bit: 2^31 or 2^63 in the code

ASSUME SignBitAssumption == SignBit \in Nat \ {0}

Modulus == 2 * SignBit
Words == 0 .. Modulus - 1
Values(signed) == IF signed THEN (- SignBit) .. SignBit - 1 ELSE Words

(* AtomicValue::bits and Pod::encode: the two's-complement pattern.        *)
Bits(value) == value % Modulus

(* AtomicValue::from_bits and Pod::decode.                                 *)
FromBits(signed, bits) == IF signed /\ bits >= SignBit THEN bits - Modulus ELSE bits

----------------------------------------------------------------------------

(* The operations of ucx-sys that AtomicValue's methods forward to         *)
(* (external), on the words x of their operands.                           *)
Amos == {"add", "xor", "swap", "and", "or", "cswap"}

Bit(word, weight) == (word \div weight) % 2

BitByBit(combine, a, b) ==
  CHOOSE w \in Words : \A i \in 0 .. SignBit - 1 :
    2 ^ i <= SignBit => Bit(w, 2 ^ i) = combine[Bit(a, 2 ^ i), Bit(b, 2 ^ i)]

UcxAmo(amo, old, x) ==
  CASE amo = "add"   -> (old + x[1]) % Modulus
    [] amo = "swap"  -> x[1]
    [] amo = "cswap" -> IF old = x[1] THEN x[2] ELSE old
    [] amo = "xor"   -> BitByBit([a, b \in {0, 1} |-> (a + b) % 2], old, x[1])
    [] amo = "and"   -> BitByBit([a, b \in {0, 1} |-> a * b], old, x[1])
    [] amo = "or"    -> BitByBit([a, b \in {0, 1} |-> a + b - a * b], old, x[1])

(* Words have as many bits as their type, so what is computed bit by bit   *)
(* from words is a word.                                                   *)
ASSUME BitwiseAssumption ==
  \A amo \in {"xor", "and", "or"}, a, b \in Words : UcxAmo(amo, a, <<b>>) \in Words

=============================================================================
