----------------------------- MODULE AluProofs -----------------------------
(***************************************************************************)
(* The operators of Alu return words and flags, for a word of any width,   *)
(* and what its shifts and rotations compute, in terms of quotients and    *)
(* remainders by the powers of two.                                        *)
(***************************************************************************)
EXTENDS Alu, TLAPS, WellFoundedInduction

(* The word has twice as many values as there are without the sign bit.    *)
LEMMA WordSize ==
  /\ WORD \in Nat \ {0}
  /\ SIGN \in Nat \ {0}
  /\ WORD = 2 * SIGN
<1>1. WordBits - 1 \in 0..WordBits-1 /\ WordBits - 1 + 1 = WordBits
  BY WordBitsAssumption
<1>2. WORD \in Nat \ {0} /\ SIGN \in Nat \ {0}
  BY WordBitsAssumption, Pow2Assumption DEF WORD, SIGN
<1>. QED  BY <1>1, <1>2, Pow2Assumption DEF WORD, SIGN

(* What the handlers compute is a word and flags.                          *)
LEMMA OutcomesTyped ==
  ASSUME NEW p \in Psr, NEW x \in Word, NEW a, NEW b, NEW c \in BOOLEAN
  PROVE  /\ Logical(p, x) \in Outcome
         /\ Shifted(p, x, c) \in Outcome
         /\ Added(p, a, b, x) \in Outcome
         /\ Subtracted(p, a, b, x) \in Outcome
<1>1. /\ neg(x) \in BOOLEAN
      /\ add_carry(a, b, x) \in BOOLEAN /\ add_overflow(a, b, x) \in BOOLEAN
      /\ sub_carry(a, b, x) \in BOOLEAN /\ sub_overflow(a, b, x) \in BOOLEAN
  BY DEF neg, pos, add_carry, add_overflow, sub_carry, sub_overflow
<1>2. WithNZ(p, x) \in Psr
  BY <1>1 DEF WithNZ, Psr
<1>3. \A q \in Psr, d \in BOOLEAN, e \in BOOLEAN :
        [q EXCEPT !.c = d] \in Psr /\ [q EXCEPT !.c = d, !.v = e] \in Psr
  BY DEF Psr
<1>4. /\ WithNZC(p, x, c) \in Psr
      /\ AddFlags(p, a, b, x) \in Psr /\ SubFlags(p, a, b, x) \in Psr
  BY <1>1, <1>2, <1>3 DEF WithNZC, AddFlags, SubFlags
<1>. QED  BY <1>2, <1>4 DEF Logical, Shifted, Added, Subtracted, Outcome

(* A remainder of the word size is a word.                                 *)
LEMMA Wraps ==
  ASSUME NEW i \in Int
  PROVE  i % WORD \in Word
BY WordSize DEF Word

(* Shifts and rotations by up to the width return words.                   *)
LEMMA Halves ==
  ASSUME NEW x \in Word, NEW k \in 0..WordBits
  PROVE  /\ ShiftLeft(x, k) \in Word
         /\ ShiftRight(x, k) \in Word
         /\ ShiftRightSigned(x, k) \in Word
         /\ RotateRight(x, WordBits - k) \in Word
<1>1. WORD \in Nat \ {0} /\ x \in Nat /\ x < WORD
  BY WordSize DEF Word
<1>2. \A j \in 0..WordBits : Pow2[j] \in Nat \ {0}
  BY Pow2Assumption
<1>3. \A j \in 0..WordBits : x \div Pow2[j] \in 0..x
  BY <1>1, <1>2
<1>4. \A j \in 0..WordBits : ShiftLeft(x, j) \in Word
  BY <1>1, <1>2 DEF ShiftLeft, Word
<1>5. \A j \in 0..WordBits : ShiftRight(x, j) \in Word
  BY <1>1, <1>3 DEF ShiftRight, Word
<1>6. ShiftRightSigned(x, k) \in Word
  <2>1. Signed(x) \in Int
    BY <1>1 DEF Signed
  <2>2. Signed(x) \div Pow2[k] \in Int
    BY <2>1, <1>2
  <2>. QED  BY <2>2, Wraps DEF ShiftRightSigned
<1>7. RotateRight(x, WordBits - k) \in Word
  <2>1. WordBits - k \in 0..WordBits /\ WordBits - (WordBits - k) = k
    BY WordBitsAssumption
  <2>2. ShiftLeft(x, k) \in Nat /\ ShiftRight(x, WordBits - k) \in Nat
    BY <1>1, <1>4, <1>5, <2>1 DEF Word
  <2>3. ShiftLeft(x, k) + ShiftRight(x, WordBits - k) \in Int
    BY <2>2
  <2>4. (ShiftLeft(x, k) + ShiftRight(x, WordBits - k)) % WORD \in Word
    BY <2>3, Wraps
  <2>. QED  BY <2>1, <2>4 DEF RotateRight, Plus
<1>. QED  BY <1>4, <1>5, <1>6, <1>7

(* AND and EOR return words.                                               *)
LEMMA Bitwise2 ==
  ASSUME NEW a \in Word, NEW b \in Word
  PROVE  And(a, b) \in Word /\ Xor(a, b) \in Word
BY ValueAssumption DEF And, Xor, BitsOf

(* A bit of a word is a Boolean.                                           *)
LEMMA Bit ==
  ASSUME NEW x, NEW k
  PROVE  BitAt(x, k) \in BOOLEAN
BY DEF BitAt

(* Every outcome of an immediate shift, whatever carry the undefined case  *)
(* leaves, is a word and a status register.                                *)
LEMMA ShiftImmediateTyped ==
  ASSUME NEW op \in 0..2, NEW x \in Word, NEW k \in 0..WordBits-1, NEW p \in Psr,
         NEW o \in ShiftImmediate(op, x, k, p)
  PROVE  o \in Outcome
<1>1. k \in 0..WordBits
  BY WordBitsAssumption
<1> DEFINE value == CASE op = 0 -> ShiftLeft(x, k)
                      [] op = 1 -> ShiftRight(x, k)
                      [] op = 2 -> ShiftRightSigned(x, k)
<1>2. value \in Word
  BY <1>1, Halves
<1>3. PICK c \in BOOLEAN : o = Shifted(p, value, c)
  BY Bit DEF ShiftImmediate
<1>. QED  BY <1>2, <1>3, OutcomesTyped

(* Sums and differences with a carry wrap to words.                        *)
LEMMA SumsAreWords ==
  ASSUME NEW a \in Word, NEW b \in Word, NEW c \in 0..1
  PROVE  /\ Plus(a, b) \in Word /\ Minus(a, b) \in Word
         /\ (a + b + c) % WORD \in Word /\ (a - b - c) % WORD \in Word
<1>1. a \in Int /\ b \in Int /\ c \in Int
  BY WordSize DEF Word
<1>. QED  BY <1>1, Wraps DEF Plus, Minus

(* MOV, CMP, ADD and SUB of an immediate return an outcome.                *)
LEMMA ImmediateTyped ==
  ASSUME NEW op \in 0..3, NEW a \in Word, NEW x \in Word, NEW p \in Psr
  PROVE  Immediate(op, a, x, p) \in Outcome
<1>1. Plus(a, x) \in Word /\ Minus(a, x) \in Word
  BY SumsAreWords
<1>2. CASE op = 0
  <2>1. Immediate(op, a, x, p)
          = [value |-> x, psr |-> [p EXCEPT !.n = FALSE, !.z = (x = 0)]]
    BY <1>2 DEF Immediate
  <2>2. [p EXCEPT !.n = FALSE, !.z = (x = 0)] \in Psr
    BY DEF Psr
  <2>. QED  BY <2>1, <2>2 DEF Outcome
<1>3. CASE op = 1
  <2>1. Immediate(op, a, x, p) = [value |-> a, psr |-> SubFlags(p, a, x, Minus(a, x))]
    BY <1>3 DEF Immediate
  <2>2. SubFlags(p, a, x, Minus(a, x)) \in Psr
    BY <1>1, OutcomesTyped DEF Subtracted, Outcome
  <2>. QED  BY <2>1, <2>2 DEF Outcome
<1>4. CASE op = 2
  <2>1. Immediate(op, a, x, p) = Added(p, a, x, Plus(a, x))
    BY <1>4 DEF Immediate
  <2>. QED  BY <1>1, <2>1, OutcomesTyped
<1>5. CASE op = 3
  <2>1. Immediate(op, a, x, p)
          = [value |-> Minus(a, x),
             psr   |-> [SubFlags(p, a, x, Minus(a, x))
                          EXCEPT !.c = add_carry(a, x, Minus(a, x))]]
    BY <1>5 DEF Immediate
  <2>2. SubFlags(p, a, x, Minus(a, x)) \in Psr
    BY <1>1, OutcomesTyped DEF Subtracted, Outcome
  <2>3. add_carry(a, x, Minus(a, x)) \in BOOLEAN
    BY DEF add_carry, neg, pos
  <2>4. [SubFlags(p, a, x, Minus(a, x)) EXCEPT !.c = add_carry(a, x, Minus(a, x))] \in Psr
    BY <2>2, <2>3 DEF Psr
  <2>. QED  BY <1>1, <2>1, <2>4 DEF Outcome
<1>. QED  BY <1>2, <1>3, <1>4, <1>5

(* ADD and SUB of a register return an outcome, in place or not.           *)
LEMMA AddSubtractTyped ==
  ASSUME NEW op \in 0..1, NEW x \in Word, NEW y \in Word, NEW same \in BOOLEAN,
         NEW p \in Psr
  PROVE  AddSubtract(op, x, y, same, p) \in Outcome
BY SumsAreWords, OutcomesTyped DEF AddSubtract

(* The four shifts by a register return an outcome for any amount.         *)
LEMMA ShiftsTyped ==
  ASSUME NEW a \in Word, NEW k \in Nat, NEW p \in Psr
  PROVE  /\ Lsl(a, k, p) \in Outcome
         /\ Lsr(a, k, p) \in Outcome
         /\ Asr(a, k, p) \in Outcome
         /\ Ror(a, k, p) \in Outcome
<1>1. 0 \in Word /\ WORD - 1 \in Word
  BY WordSize DEF Word
<1>2. WordBits \in Nat \ {0}
  BY WordBitsAssumption
<1>3. neg(a) \in BOOLEAN
  BY DEF neg
<1>4. \A j \in 1..WordBits-1 :
        /\ ShiftLeft(a, j) \in Word /\ ShiftRight(a, j) \in Word
        /\ ShiftRightSigned(a, j) \in Word /\ RotateRight(a, j) \in Word
  <2>. SUFFICES ASSUME NEW j \in 1..WordBits-1
                PROVE  /\ ShiftLeft(a, j) \in Word /\ ShiftRight(a, j) \in Word
                       /\ ShiftRightSigned(a, j) \in Word
                       /\ RotateRight(a, j) \in Word
    OBVIOUS
  <2>1. /\ j \in 0..WordBits /\ WordBits - j \in 0..WordBits
        /\ WordBits - (WordBits - j) = j
    BY <1>2
  <2>2. RotateRight(a, WordBits - (WordBits - j)) \in Word
    BY <2>1, Halves
  <2>. QED  BY <2>1, <2>2, Halves
<1>5. k = 0 \/ k \in 1..WordBits-1 \/ k = WordBits \/ k > WordBits
  BY <1>2
<1>6. Logical(p, a) \in Outcome
  BY <1>3, OutcomesTyped
<1>7. \A x \in Word : \A c \in BOOLEAN : Shifted(p, x, c) \in Outcome
  BY OutcomesTyped
<1>8. Lsl(a, k, p) \in Outcome
  BY <1>1, <1>2, <1>4, <1>5, <1>6, <1>7, Bit DEF Lsl
<1>9. Lsr(a, k, p) \in Outcome
  BY <1>1, <1>2, <1>3, <1>4, <1>5, <1>6, <1>7, Bit DEF Lsr
<1>10. Asr(a, k, p) \in Outcome
  BY <1>1, <1>2, <1>3, <1>4, <1>5, <1>6, <1>7, Bit DEF Asr
<1>11. Ror(a, k, p) \in Outcome
  <2>1. k % WordBits = 0 \/ k % WordBits \in 1..WordBits-1
    BY <1>2
  <2>. QED  BY <1>3, <1>4, <1>6, <1>7, <2>1, <1>2, Bit DEF Ror
<1>. QED  BY <1>8, <1>9, <1>10, <1>11

(* The eight arms alu_operations can reach return an outcome.              *)
LEMMA AluTyped ==
  ASSUME NEW op \in 0..7, NEW a \in Word, NEW b \in Word, NEW p \in Psr
  PROVE  AluOutcome(op, a, b, p) \in Outcome
<1>1. b % 256 \in Nat
  BY WordSize DEF Word
<1>2. CASE op = 0 \/ op = 1
  <2>1. AluOutcome(0, a, b, p) = Logical(p, And(a, b))
    BY DEF AluOutcome
  <2>2. AluOutcome(1, a, b, p) = Logical(p, Xor(a, b))
    BY DEF AluOutcome
  <2>. QED  BY <1>2, <2>1, <2>2, Bitwise2, OutcomesTyped
<1>3. CASE op = 2 \/ op = 3 \/ op = 4 \/ op = 7
  BY <1>1, <1>3, ShiftsTyped DEF AluOutcome
<1>4. CASE op = 5
  <2>1. One(p.c) \in 0..1
    BY DEF One
  <2>2. Adc(a, b, p) \in Outcome
    BY <2>1, SumsAreWords, OutcomesTyped DEF Adc
  <2>. QED  BY <1>4, <2>2 DEF AluOutcome
<1>5. CASE op = 6
  <2>1. One(~p.c) \in 0..1
    BY DEF One
  <2>2. Sbc(a, b, p) \in Outcome
    BY <2>1, SumsAreWords, OutcomesTyped DEF Sbc
  <2>. QED  BY <1>5, <2>2 DEF AluOutcome
<1>. QED  BY <1>2, <1>3, <1>4, <1>5

-----------------------------------------------------------------------------
(* A set of numbers that is not empty has a least one.                     *)
LEMMA Least ==
  ASSUME NEW S \in SUBSET Nat, S # {}
  PROVE  \E n \in S : \A m \in S : n <= m
<1> DEFINE R == {ss \in Nat \X Nat : ss[1] < ss[2]}
<1>1. IsWellFoundedOn(R, Nat)
  BY NatLessThanWellFounded, Zenon DEF OpToRel
<1>. HIDE DEF R
<1>2. PICK n \in S : \A m \in S : ~(<<m, n>> \in R)
  BY <1>1, WFMin, Zenon
<1>3. \A m \in S : ~(m < n)
  BY <1>2 DEF R
<1>. QED  BY <1>3

(* Induction: a set with 0 that is closed under successor up to k.         *)
LEMMA Induct ==
  ASSUME NEW k \in Nat, NEW S, 0 \in S, \A n \in 0..k-1 : n \in S => n + 1 \in S
  PROVE  0..k \subseteq S
<1>. SUFFICES ASSUME (0..k) \ S # {} PROVE FALSE
  OBVIOUS
<1> DEFINE T == (0..k) \ S
<1>0. T \in SUBSET Nat /\ T # {}
  OBVIOUS
<1>1. PICK n \in T : \A m \in T : n <= m
  <2>. HIDE DEF T
  <2>. QED  BY <1>0, Least
<1>2. n # 0
  BY <1>1
<1>3. n - 1 \in 0..k-1 /\ n - 1 + 1 = n /\ ~(n <= n - 1)
  BY <1>1, <1>2
<1>4. n - 1 \in S
  BY <1>1, <1>3
<1>. QED  BY <1>1, <1>3, <1>4

-----------------------------------------------------------------------------
(* A quotient and a remainder are found by naming them.                    *)
LEMMA Division ==
  ASSUME NEW d \in Nat \ {0}, NEW q \in Int, NEW r \in 0..d-1
  PROVE  (d * q + r) \div d = q /\ (d * q + r) % d = r
OBVIOUS

(* Every number is a quotient and a remainder.                             *)
LEMMA Divided ==
  ASSUME NEW d \in Nat \ {0}, NEW x \in Int
  PROVE  /\ x \div d \in Int /\ x % d \in 0..d-1
         /\ x = d * (x \div d) + (x % d)
OBVIOUS

(* Division by 2p in two steps.                                            *)
LEMMA Halve ==
  ASSUME NEW x \in Int, NEW p \in Nat \ {0}
  PROVE  /\ x \div (2 * p) = (x \div p) \div 2
         /\ x % (2 * p) = p * ((x \div p) % 2) + (x % p)
<1> DEFINE q == x \div p
           r == x % p
           h == q \div 2
           b == q % 2
<1>1. q \in Int /\ r \in 0..p-1 /\ x = p * q + r
  BY Divided
<1>2. h \in Int /\ b \in 0..1 /\ q = 2 * h + b
  BY <1>1
<1>. HIDE DEF q, r, h, b
<1>3. p * q = 2 * p * h + p * b
  BY <1>2
<1>4. p * b + r \in 0..2*p-1
  <2>1. b = 0 \/ b = 1
    BY <1>2
  <2>. QED  BY <1>1, <2>1
<1>5. x = (2 * p) * h + (p * b + r)
  BY <1>1, <1>2, <1>3, <1>4
<1>6. 2 * p \in Nat \ {0}
  OBVIOUS
<1>7. x \div (2 * p) = h /\ x % (2 * p) = p * b + r
  BY <1>2, <1>4, <1>5, <1>6, Division
<1>. QED  BY <1>7 DEF q, r, h, b

(* Division brings a number nearer to 0, or to -1 when it is negative.     *)
LEMMA Shrinks ==
  ASSUME NEW s \in Int, NEW p \in Nat \ {0}
  PROVE  /\ s >= 0 => s \div p \in 0..s
         /\ s < 0 => s \div p \in s..-1
<1> DEFINE t == s \div p
           r == s % p
<1>1. t \in Int /\ r \in 0..p-1 /\ s = p * t + r
  BY Divided
<1>. HIDE DEF t, r
<1>2. CASE s >= 0
  <2>1. t >= 0
    <3>. SUFFICES ASSUME t <= -1 PROVE FALSE
      BY <1>1
    <3>1. p * t <= p * (-1)
      BY <1>1
    <3>. QED  BY <1>1, <1>2, <3>1
  <2>2. t <= p * t
    BY <1>1, <2>1
  <2>. QED  BY <1>1, <1>2, <2>1, <2>2 DEF t
<1>3. CASE s < 0
  <2>1. t <= -1
    <3>. SUFFICES ASSUME t >= 0 PROVE FALSE
      BY <1>1
    <3>1. p * t >= 0
      BY <1>1
    <3>. QED  BY <1>1, <1>3, <3>1
  <2>2. t >= s
    <3>. SUFFICES ASSUME t + 1 <= s PROVE FALSE
      BY <1>1
    <3>1. p * (t + 1) <= p * s /\ p * s <= s /\ p * (t + 1) = p * t + p
      BY <1>1, <1>3
    <3>2. p * t \in Int /\ p * s \in Int
      BY <1>1
    <3>. QED  BY <1>1, <1>3, <3>1, <3>2
  <2>. QED  BY <1>1, <1>3, <2>1, <2>2 DEF t
<1>. QED  BY <1>2, <1>3

-----------------------------------------------------------------------------
(* The powers of two are positive, each is twice the one before, and they  *)
(* multiply by adding their exponents.                                     *)
LEMMA Powers ==
  /\ \A k \in 0..WordBits : Pow2[k] \in Nat \ {0}
  /\ \A k \in 1..WordBits : Pow2[k] = 2 * Pow2[k-1]
  /\ \A k \in 0..WordBits : Pow2[k] * Pow2[WordBits-k] = WORD
<1>1. \A k \in 0..WordBits : Pow2[k] \in Nat \ {0}
  BY Pow2Assumption
<1>2. ASSUME NEW k \in 1..WordBits PROVE Pow2[k] = 2 * Pow2[k-1]
  <2>1. k - 1 \in 0..WordBits-1 /\ k - 1 + 1 = k
    BY WordBitsAssumption
  <2>. QED  BY <2>1, Pow2Assumption
<1> DEFINE S == {k \in 0..WordBits : Pow2[k] * Pow2[WordBits-k] = WORD}
<1>3. 0 \in S
  BY WordBitsAssumption, Pow2Assumption, WordSize DEF WORD
<1>4. ASSUME NEW n \in 0..WordBits-1, n \in S PROVE n + 1 \in S
  <2>1. /\ n + 1 \in 1..WordBits /\ n + 1 \in 0..WordBits /\ n + 1 - 1 = n /\ n \in 0..WordBits
        /\ WordBits - n \in 1..WordBits /\ WordBits - (n + 1) = WordBits - n - 1
        /\ WordBits - n - 1 \in 0..WordBits
    BY WordBitsAssumption
  <2> DEFINE a == Pow2[n]
             b == Pow2[WordBits-n-1]
  <2>2. Pow2[n+1] = 2 * a /\ Pow2[WordBits-n] = 2 * b /\ a \in Nat /\ b \in Nat
    BY <1>1, <1>2, <2>1
  <2>3. a * (2 * b) = WORD
    BY <1>4, <2>2
  <2>. HIDE DEF a, b
  <2>4. (2 * a) * b = WORD
    BY <2>2, <2>3
  <2>5. Pow2[n+1] * Pow2[WordBits-(n+1)] = WORD
    BY <2>1, <2>2, <2>4 DEF b
  <2>. QED  BY <2>1, <2>5
<1>. HIDE DEF S
<1>5. 0..WordBits \subseteq S
  BY <1>3, <1>4, Induct, WordBitsAssumption
<1>. QED  BY <1>1, <1>2, <1>5 DEF S

(* A left shift by j drops the j upper bits.                               *)
LEMMA LeftDrops ==
  ASSUME NEW x \in Word, NEW j \in 0..WordBits
  PROVE  ShiftLeft(x, j) = Pow2[j] * (x % Pow2[WordBits-j])
<1> DEFINE p == Pow2[j]
           p1 == Pow2[WordBits-j]
           q == x \div p1
           r == x % p1
<1>1. p \in Nat \ {0} /\ p1 \in Nat \ {0} /\ p * p1 = WORD
  <2>1. WordBits - j \in 0..WordBits
    BY WordBitsAssumption
  <2>. QED  BY <2>1, Powers
<1>2. x \in Nat
  BY WordSize DEF Word
<1>3. q \in Int /\ r \in 0..p1-1 /\ x = p1 * q + r
  <2>. HIDE DEF p1
  <2>. QED  BY <1>1, <1>2, Divided
<1>4. ShiftLeft(x, j) = (x * p) % WORD
  BY DEF ShiftLeft
<1>. HIDE DEF p, p1, q, r
<1>5. x * p = WORD * q + p * r
  <2>1. x * p = (p * p1) * q + p * r
    BY <1>1, <1>3
  <2>. QED  BY <1>1, <2>1
<1>6. p * r \in 0..WORD-1
  <2>1. p * r >= 0 /\ p * r <= p * (p1 - 1)
    BY <1>1, <1>3
  <2>2. p * (p1 - 1) = WORD - p
    BY <1>1
  <2>3. WORD \in Nat /\ p * r \in Int
    BY <1>1, <1>3, WordSize
  <2>. QED  BY <1>1, <2>1, <2>2, <2>3
<1>7. (WORD * q + p * r) % WORD = p * r
  BY <1>3, <1>6, WordSize, Division
<1>. QED  BY <1>4, <1>5, <1>7 DEF p, r, p1

(* The upper bit alone is beyond the sign bit, and nothing is beyond it.   *)
LEMMA TopBit ==
  ASSUME NEW x \in Word
  PROVE  /\ BitAt(x, WordBits - 1) = neg(x)
         /\ ShiftLeft(x, WordBits) = 0 /\ ShiftRight(x, WordBits) = 0
         /\ ShiftRightSigned(x, WordBits) = IF neg(x) THEN WORD - 1 ELSE 0
         /\ ShiftLeft(x, 0) = x /\ ShiftRight(x, 0) = x /\ ShiftRightSigned(x, 0) = x
<1>1. WORD \in Nat \ {0} /\ SIGN \in Nat \ {0} /\ WORD = 2 * SIGN /\ x \in Nat /\ x < WORD
  BY WordSize DEF Word
<1>2. Pow2[WordBits] = WORD /\ Pow2[WordBits-1] = SIGN /\ Pow2[0] = 1
  BY Pow2Assumption DEF WORD, SIGN
<1>3. BitAt(x, WordBits - 1) = neg(x)
  <2>1. x = SIGN * (IF neg(x) THEN 1 ELSE 0) + (IF neg(x) THEN x - SIGN ELSE x)
    BY <1>1 DEF neg
  <2>2. (IF neg(x) THEN x - SIGN ELSE x) \in 0..SIGN-1
    BY <1>1 DEF neg
  <2>3. (IF neg(x) THEN 1 ELSE 0) \in Int
    OBVIOUS
  <2>4. x \div SIGN = IF neg(x) THEN 1 ELSE 0
    BY <1>1, <2>1, <2>2, <2>3, Division
  <2>. QED  BY <1>2, <2>4 DEF BitAt, neg
<1>4. ShiftLeft(x, WordBits) = 0
  <2> DEFINE r == 0
  <2>1. x * WORD = WORD * x + r /\ r \in 0..WORD-1
    BY <1>1
  <2>. HIDE DEF r
  <2>2. (x * WORD) % WORD = r
    BY <1>1, <2>1, Division
  <2>. QED  BY <1>2, <2>2 DEF ShiftLeft, r
<1>5. ShiftRight(x, WordBits) = 0
  <2>1. (WORD * 0 + x) \div WORD = 0
    BY <1>1, Division
  <2>. QED  BY <1>1, <1>2, <2>1 DEF ShiftRight
<1>6. ShiftRightSigned(x, WordBits) = IF neg(x) THEN WORD - 1 ELSE 0
  <2>1. CASE neg(x)
    <3>1. (WORD * (-1) + x) \div WORD = -1 /\ x - WORD = WORD * (-1) + x
      BY <1>1, Division
    <3>2. (-1) % WORD = WORD - 1
      BY <1>1
    <3>. QED  BY <1>1, <1>2, <2>1, <3>1, <3>2 DEF ShiftRightSigned, Signed
  <2>2. CASE ~neg(x)
    BY <1>1, <1>2, <1>5, <2>2 DEF ShiftRightSigned, ShiftRight, Signed
  <2>. QED  BY <2>1, <2>2
<1>7. ShiftLeft(x, 0) = x /\ ShiftRight(x, 0) = x
  <2>1. x * 1 = x /\ x \div 1 = x /\ x % WORD = x
    BY <1>1
  <2>. QED  BY <1>2, <2>1 DEF ShiftLeft, ShiftRight
<1>8. ShiftRightSigned(x, 0) = x
  <2>1. Signed(x) \in Int /\ Signed(x) \div 1 = Signed(x)
    BY <1>1 DEF Signed
  <2>2. CASE neg(x)
    <3>1. (WORD * (-1) + x) % WORD = x /\ WORD * (-1) + x = x - WORD
      BY <1>1, Division
    <3>. QED  BY <1>2, <2>1, <2>2, <3>1 DEF ShiftRightSigned, Signed
  <2>3. CASE ~neg(x)
    BY <1>1, <1>2, <2>1, <2>3 DEF ShiftRightSigned, Signed
  <2>. QED  BY <2>2, <2>3
<1>. QED  BY <1>3, <1>4, <1>5, <1>6, <1>7, <1>8

(* The rotation puts the low i bits over the others.                       *)
LEMMA RotateParts ==
  ASSUME NEW x \in Word, NEW i \in 0..WordBits
  PROVE  RotateRight(x, i) = Pow2[WordBits-i] * (x % Pow2[i]) + (x \div Pow2[i])
<1> DEFINE p == Pow2[i]
           q == Pow2[WordBits-i]
           m == x % p
           h == x \div p
<1>1. WordBits - i \in 0..WordBits /\ WordBits - (WordBits - i) = i
  BY WordBitsAssumption
<1>2. p \in Nat \ {0} /\ q \in Nat \ {0} /\ p * q = WORD
  BY <1>1, Powers
<1>3. x \in Nat /\ x < WORD /\ WORD \in Nat \ {0}
  BY WordSize DEF Word
<1>4. ShiftLeft(x, WordBits - i) = q * m
  BY <1>1, LeftDrops
<1>5. RotateRight(x, i) = (q * m + h) % WORD
  BY <1>4 DEF RotateRight, Plus, ShiftRight
<1>. HIDE DEF p, q
<1>6. h \in Int /\ m \in 0..p-1 /\ x = p * h + m
  BY <1>2, <1>3, Divided
<1>7. h >= 0
  BY <1>2, <1>3, Shrinks
<1>. HIDE DEF m, h
<1>8. h <= q - 1
  <2>. SUFFICES ASSUME h >= q PROVE FALSE
    BY <1>2, <1>6
  <2>1. p * h >= p * q
    BY <1>2, <1>6
  <2>. QED  BY <1>2, <1>3, <1>6, <2>1
<1>9. q * m + h \in 0..WORD-1
  <2>1. q * m >= 0 /\ q * m <= q * (p - 1) /\ q * m \in Int
    BY <1>2, <1>6
  <2>2. q * (p - 1) = WORD - q
    BY <1>2
  <2>. QED  BY <1>2, <1>3, <1>6, <1>7, <1>8, <2>1, <2>2
<1>10. (q * m + h) % WORD = q * m + h
  BY <1>3, <1>9
<1>. QED  BY <1>5, <1>10 DEF p, q, m, h

(* A rotation by nothing and one all the way round change nothing.         *)
LEMMA RotateRound ==
  ASSUME NEW x \in Word
  PROVE  RotateRight(x, 0) = x /\ RotateRight(x, WordBits) = x
<1>1. WORD \in Nat \ {0} /\ x \in Nat /\ x < WORD
  BY WordSize DEF Word
<1>2. Pow2[WordBits] = WORD /\ Pow2[0] = 1
  BY Pow2Assumption DEF WORD
<1>3. WordBits - 0 = WordBits /\ WordBits - WordBits = 0 /\ 0 \in 0..WordBits
      /\ WordBits \in 0..WordBits
  BY WordBitsAssumption
<1>4. x % 1 = 0 /\ x \div 1 = x /\ x % WORD = x /\ x \div WORD = 0 /\ WORD * 0 = 0
  <2>1. x \div WORD = 0
    BY <1>1, TopBit, <1>2 DEF ShiftRight
  <2>. QED  BY <1>1, <2>1
<1>5. RotateRight(x, 0) = WORD * (x % 1) + (x \div 1)
  BY <1>2, <1>3, RotateParts
<1>6. RotateRight(x, WordBits) = 1 * (x % WORD) + (x \div WORD)
  BY <1>2, <1>3, RotateParts
<1>. QED  BY <1>1, <1>4, <1>5, <1>6
=============================================================================
