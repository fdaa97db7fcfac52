------------------------------- MODULE Words -------------------------------
(***************************************************************************)
(* Integers of a number of bytes, as the processor keeps them in registers *)
(* and in memory.  A byte has Radix values, so that a model may have small *)
(* bytes: all widths keep their proportions, and everything wraps where it *)
(* does on the machine.                                                    *)
(***************************************************************************)
EXTENDS Integers

CONSTANT Radix   \* the number of values of a byte, 256

ASSUME RadixAssumption == Radix \in Nat /\ Radix >= 2 /\ Radix % 2 = 0

Byte == 0 .. Radix - 1

(* What n bytes keep of v, read as a signed or as an unsigned number.      *)
Wrap(v, n, signed) ==
  LET m == Radix ^ n
      r == v % m
  IN  IF signed /\ r >= m \div 2 THEN r - m ELSE r

(* What a register holds, read as a signed number.                         *)
Word == -(Radix ^ 8 \div 2) .. Radix ^ 8 \div 2 - 1
ToWord(v) == Wrap(v, 8, TRUE)

(* Division that truncates, as in C and as idiv does.                      *)
Abs(v) == IF v < 0 THEN -v ELSE v
Quotient(a, b) ==
  IF (a < 0) = (b < 0) THEN Abs(a) \div Abs(b) ELSE -(Abs(a) \div Abs(b))
Remainder(a, b) == a - b * Quotient(a, b)

(* Little endian access to n bytes of memory.                              *)
Load(mem, a, n, signed) ==
  LET From[i \in 0 .. n] == IF i = n THEN 0 ELSE mem[a + i] + Radix * From[i + 1]
  IN  Wrap(From[0], n, signed)

Store(mem, a, v, n) ==
  [b \in DOMAIN mem |->
     IF b \in a .. a + n - 1 THEN (v \div Radix ^ (b - a)) % Radix ELSE mem[b]]

Accessible(mem, a, n) == a .. a + n - 1 \subseteq DOMAIN mem
=============================================================================
