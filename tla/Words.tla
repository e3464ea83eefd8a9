------------------------------- MODULE Words -------------------------------
(***************************************************************************)
(* The unsigned machine word of the emulator (uint32_t) and the flag       *)
(* predicates of cpu/util.h, for a word of WordBits bits.  Everything that *)
(* the code says of bit 31 is said here of the top bit, so the definitions *)
(* are the code's when WordBits = 32 and can be model checked when it is   *)
(* small.                                                                  *)
(***************************************************************************)
EXTENDS Integers

CONSTANTS
  WordBits,  \* the width of a register
  Pow2,      \* Pow2[k] is 2 to the power k
  Value      \* Value[S] is the word whose one-bits are at the positions in S

ASSUME WordBitsAssumption == WordBits \in Nat \ {0}

ASSUME Pow2Assumption ==
  /\ Pow2 \in [0..WordBits -> Nat \ {0}]
  /\ Pow2[0] = 1
  /\ \A k \in 0..WordBits-1 : Pow2[k+1] = 2 * Pow2[k]

BitPositions == 0..WordBits-1
WORD == Pow2[WordBits]
SIGN == Pow2[WordBits-1]
Word == 0..WORD-1

BitAt(x, k) == (x \div Pow2[k]) % 2 = 1
BitsOf(x) == {k \in BitPositions : BitAt(x, k)}

ASSUME ValueAssumption ==
  /\ Value \in [SUBSET BitPositions -> Word]
  /\ \A x \in Word : Value[BitsOf(x)] = x

-----------------------------------------------------------------------------
(* Arithmetic on uint32_t wraps.                                           *)
(* A mutated Plus: the sum does not wrap.                                  *)
PlusUnbounded(a, b) == a + b
Plus(a, b) == (a + b) % WORD
Minus(a, b) == (a - b) % WORD
Times(a, b) == (a * b) % WORD

(* The operators &, |, ^ and ~.                                            *)
And(a, b) == Value[BitsOf(a) \cap BitsOf(b)]
Or(a, b) == Value[BitsOf(a) \cup BitsOf(b)]
Xor(a, b) == Value[(BitsOf(a) \ BitsOf(b)) \cup (BitsOf(b) \ BitsOf(a))]
Not(a) == WORD - 1 - a

(* x & 0xFFFFFFFE and x & 0xFFFFFFFC.                                      *)
Even(x) == x - (x % 2)
Aligned4(x) == x - (x % 4)

-----------------------------------------------------------------------------
(* cpu/util.h: the sign of a word, and the carry and the overflow of the   *)
(* result c of an addition or a subtraction of a and b.                    *)
neg(i) == i >= SIGN
pos(i) == ~neg(i)

add_carry(a, b, c) ==
  \/ neg(a) /\ neg(b)
  \/ neg(a) /\ pos(c)
  \/ neg(b) /\ pos(c)

add_overflow(a, b, c) ==
  \/ neg(a) /\ neg(b) /\ pos(c)
  \/ pos(a) /\ pos(b) /\ neg(c)

sub_carry(a, b, c) ==
  \/ neg(a) /\ pos(b)
  \/ neg(a) /\ pos(c)
  \/ pos(b) /\ pos(c)

(* A mutated sub_overflow: the test of add_overflow.                       *)
sub_overflowOfSum(a, b, c) ==
  \/ neg(a) /\ neg(b) /\ pos(c)
  \/ pos(a) /\ pos(b) /\ neg(c)

sub_overflow(a, b, c) ==
  \/ neg(a) /\ pos(b) /\ pos(c)
  \/ pos(a) /\ neg(b) /\ neg(c)

(* The number a word denotes when it is read as an int32_t.                *)
Signed(x) == IF neg(x) THEN x - WORD ELSE x

-----------------------------------------------------------------------------
(* Shifts by k, for k from 0 to the width.                                 *)
ShiftLeft(x, k) == (x * Pow2[k]) % WORD
ShiftRight(x, k) == x \div Pow2[k]
ShiftRightSigned(x, k) == (Signed(x) \div Pow2[k]) % WORD
RotateRight(x, k) == Plus(ShiftLeft(x, WordBits - k), ShiftRight(x, k))
=============================================================================
