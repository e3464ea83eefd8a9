------------------------ MODULE DataProcessingProofs ------------------------
(***************************************************************************)
(* Proofs about DataProcessing for a word of any width.                    *)
(***************************************************************************)
EXTENDS DataProcessing, AluProofs

(* Sums and differences with a carry or a borrow c, as the handlers        *)
(* compute them.                                                           *)
WrappedSum(a, b, c) == (a + b + c) % WORD
WrappedDifference(a, b, c) == (a - b - c) % WORD

(* util.h: the flags of a + b + c, with a carry c in.                      *)
LEMMA AdditionFlags ==
  ASSUME NEW a \in Word, NEW b \in Word, NEW c \in 0..1, NEW r,
         r = WrappedSum(a, b, c)
  PROVE  /\ r \in Word
         /\ a + b + c = r + WORD * One(add_carry(a, b, r))
         /\ add_overflow(a, b, r) = Overflows(Signed(a) + Signed(b) + c)
<1>1. WORD \in Nat \ {0} /\ SIGN \in Nat \ {0} /\ WORD = 2 * SIGN
  BY WordSize
<1>2. /\ a \in Nat /\ a < WORD /\ b \in Nat /\ b < WORD
      /\ c \in Nat /\ (c = 0 \/ c = 1)
  BY <1>1 DEF Word
<1>3. r = IF a + b + c < WORD THEN a + b + c ELSE a + b + c - WORD
  BY <1>1, <1>2 DEF WrappedSum
<1>4. r \in Nat /\ r < WORD
  BY <1>1, <1>2, <1>3
<1>5. r \in Word
  BY <1>1, <1>4 DEF Word
<1>6. add_carry(a, b, r) <=> a + b + c >= WORD
  BY <1>1, <1>2, <1>3 DEF add_carry, neg, pos
<1>7. a + b + c = r + WORD * One(add_carry(a, b, r))
  <2>1. CASE a + b + c >= WORD
    BY <2>1, <1>1, <1>2, <1>3, <1>6 DEF One
  <2>2. CASE a + b + c < WORD
    BY <2>2, <1>1, <1>2, <1>3, <1>6 DEF One
  <2>. QED  BY <2>1, <2>2, <1>1, <1>2
<1>8. add_overflow(a, b, r) <=> Overflows(Signed(a) + Signed(b) + c)
  BY <1>1, <1>2, <1>3 DEF add_overflow, Overflows, Signed, neg, pos
<1>. QED  BY <1>5, <1>7, <1>8 DEF add_overflow, Overflows, neg, pos

(* util.h: the flags of a - b - c, with a borrow c in.                     *)
LEMMA SubtractionFlags ==
  ASSUME NEW a \in Word, NEW b \in Word, NEW c \in 0..1, NEW r,
         r = WrappedDifference(a, b, c)
  PROVE  /\ r \in Word
         /\ a - b - c = r - WORD * (1 - One(sub_carry(a, b, r)))
         /\ sub_overflow(a, b, r) = Overflows(Signed(a) - Signed(b) - c)
<1>1. WORD \in Nat \ {0} /\ SIGN \in Nat \ {0} /\ WORD = 2 * SIGN
  BY WordSize
<1>2. /\ a \in Nat /\ a < WORD /\ b \in Nat /\ b < WORD
      /\ c \in Nat /\ (c = 0 \/ c = 1)
  BY <1>1 DEF Word
<1>3. r = IF a - b - c >= 0 THEN a - b - c ELSE a - b - c + WORD
  BY <1>1, <1>2 DEF WrappedDifference
<1>4. r \in Nat /\ r < WORD
  BY <1>1, <1>2, <1>3
<1>5. r \in Word
  BY <1>1, <1>4 DEF Word
<1>6. sub_carry(a, b, r) <=> a - b - c >= 0
  BY <1>1, <1>2, <1>3 DEF sub_carry, neg, pos
<1>7. a - b - c = r - WORD * (1 - One(sub_carry(a, b, r)))
  <2>1. CASE a - b - c >= 0
    BY <2>1, <1>1, <1>2, <1>3, <1>6 DEF One
  <2>2. CASE a - b - c < 0
    BY <2>2, <1>1, <1>2, <1>3, <1>6 DEF One
  <2>. QED  BY <2>1, <2>2, <1>1, <1>2
<1>8. sub_overflow(a, b, r) <=> Overflows(Signed(a) - Signed(b) - c)
  BY <1>1, <1>2, <1>3 DEF sub_overflow, Overflows, Signed, neg, pos
<1>. QED  BY <1>5, <1>7, <1>8 DEF sub_overflow, Overflows, neg, pos

-----------------------------------------------------------------------------
(* Writing an outcome back keeps the types.                                *)
LEMMA SetTyped ==
  ASSUME TypeOK, NEW o \in Outcome, Set(o)
  PROVE  TypeOK'
BY DEF TypeOK, Set, Outcome

(* Every handler keeps words in the registers and flags in the psr, so     *)
(* does every instruction sequence.                                        *)
THEOREM TypeCorrect == Spec => []TypeOK
<1>1. Init => TypeOK
  BY DEF Init, TypeOK
<1>2. TypeOK /\ [Next]_vars => TypeOK'
  <2>. SUFFICES ASSUME TypeOK, [Next]_vars PROVE TypeOK'
    OBVIOUS
  <2>. USE DEF TypeOK
  <2>1. ASSUME NEW op \in 0..2, NEW k \in Offsets, MoveShiftedRegister(op, k)
        PROVE  TypeOK'
    <3>1. PICK o \in ShiftImmediate(op, rs, k, psr) : Set(o)
      BY <2>1 DEF MoveShiftedRegister
    <3>2. k \in 0..WordBits-1
      BY OffsetsAssumption
    <3>. QED  BY <3>1, <3>2, ShiftImmediateTyped, SetTyped
  <2>2. ASSUME NEW op \in 0..1, NEW x \in Word, AddSubtractRegister(op, x)
        PROVE  TypeOK'
    BY <2>2, AddSubtractTyped, SetTyped DEF AddSubtractRegister
  <2>3. ASSUME NEW op \in 0..1, NEW x \in Word, AddSubtractInPlace(op, x)
        PROVE  TypeOK'
    BY <2>3, AddSubtractTyped, SetTyped DEF AddSubtractInPlace
  <2>4. ASSUME NEW op \in 0..3, NEW x \in Word, MoveCompareAddSubtractImmediate(op, x)
        PROVE  TypeOK'
    BY <2>4, ImmediateTyped, SetTyped DEF MoveCompareAddSubtractImmediate
  <2>5. ASSUME NEW op \in 0..7, AluOperation(op)
        PROVE  TypeOK'
    BY <2>5, AluTyped, SetTyped DEF AluOperation
  <2>6. CASE CompareHigh
    <3>1. Minus(rd, rs) \in Word
      BY SumsAreWords
    <3> DEFINE o == Subtracted(psr, rd, rs, Minus(rd, rs))
    <3>2. o \in [value : Word, psr : Psr]
      BY <3>1, OutcomesTyped DEF Outcome
    <3>3. [o EXCEPT !.value = rd] \in [value : Word, psr : Psr]
      BY <3>2
    <3>4. Cmp(rd, rs, psr) \in Outcome
      BY <3>3 DEF Cmp, Compare, Outcome
    <3>. QED  BY <2>6, <3>4, SetTyped DEF CompareHigh
  <2>7. ASSUME NEW x \in Word, MoveToSource(x)
        PROVE  TypeOK'
    BY <2>7 DEF MoveToSource
  <2>8. CASE UNCHANGED vars
    BY <2>8 DEF vars
  <2>. QED  BY <2>1, <2>2, <2>3, <2>4, <2>5, <2>6, <2>7, <2>8 DEF Next
<1>. QED  BY <1>1, <1>2, PTL DEF Spec

-----------------------------------------------------------------------------
(* The flags after Added and Subtracted, read as the parts of an outcome.  *)
LEMMA AddedParts ==
  ASSUME NEW p \in Psr, NEW a, NEW b, NEW r
  PROVE  /\ Added(p, a, b, r).value = r
         /\ Added(p, a, b, r).psr.c = add_carry(a, b, r)
         /\ Added(p, a, b, r).psr.v = add_overflow(a, b, r)
         /\ Added(p, a, b, r).psr.z = (r = 0)
         /\ Added(p, a, b, r).psr.n = neg(r)
BY DEF Added, AddFlags, WithNZ, Psr

(* The parts of the outcome of a subtraction.                              *)
LEMMA SubtractedParts ==
  ASSUME NEW p \in Psr, NEW a, NEW b, NEW r
  PROVE  /\ Subtracted(p, a, b, r).value = r
         /\ Subtracted(p, a, b, r).psr.c = sub_carry(a, b, r)
         /\ Subtracted(p, a, b, r).psr.v = sub_overflow(a, b, r)
         /\ Subtracted(p, a, b, r).psr.z = (r = 0)
         /\ Subtracted(p, a, b, r).psr.n = neg(r)
BY DEF Subtracted, SubFlags, WithNZ, Psr

(* A handler that writes back an addition leaves an exact sum.             *)
LEMMA SumSet ==
  ASSUME TypeOK, NEW a \in Word, NEW b \in Word, NEW c \in 0..1,
         Set(Added(psr, a, b, WrappedSum(a, b, c)))
  PROVE  ExactSum(a, b, c)
<1> DEFINE r == WrappedSum(a, b, c)
<1>1. psr \in Psr
  BY DEF TypeOK
<1>2. rd' = r /\ psr'.c = add_carry(a, b, r) /\ psr'.v = add_overflow(a, b, r)
      /\ psr'.z = (r = 0) /\ psr'.n = neg(r)
  BY <1>1, AddedParts DEF Set
<1>3. /\ a + b + c = r + WORD * One(add_carry(a, b, r))
      /\ add_overflow(a, b, r) = Overflows(Signed(a) + Signed(b) + c)
  BY AdditionFlags
<1>. QED  BY <1>2, <1>3 DEF ExactSum

(* A handler that writes back a subtraction leaves an exact difference.    *)
LEMMA DifferenceSet ==
  ASSUME TypeOK, NEW a \in Word, NEW b \in Word, NEW c \in 0..1,
         Set(Subtracted(psr, a, b, WrappedDifference(a, b, 1 - c)))
  PROVE  ExactDifference(a, b, c, rd')
<1> DEFINE r == WrappedDifference(a, b, 1 - c)
<1>1. psr \in Psr
  BY DEF TypeOK
<1>2. rd' = r /\ psr'.c = sub_carry(a, b, r) /\ psr'.v = sub_overflow(a, b, r)
      /\ psr'.z = (r = 0) /\ psr'.n = neg(r)
  BY <1>1, SubtractedParts DEF Set
<1>3. 1 - c \in 0..1
  OBVIOUS
<1>4. /\ a - b - (1 - c) = r - WORD * (1 - One(sub_carry(a, b, r)))
      /\ sub_overflow(a, b, r) = Overflows(Signed(a) - Signed(b) - (1 - c))
  BY <1>3, SubtractionFlags
<1>. QED  BY <1>2, <1>4 DEF ExactDifference

(* The carry as a number is 0 or 1, and so is its complement.              *)
LEMMA OneOfCarry ==
  ASSUME NEW c \in BOOLEAN
  PROVE  One(c) \in 0..1 /\ One(~c) = 1 - One(c)
BY DEF One

(* Without a carry the sum and the difference are Plus and Minus.          *)
LEMMA PlainSums ==
  ASSUME NEW a \in Word, NEW b \in Word
  PROVE  /\ Plus(a, b) = WrappedSum(a, b, 0)
         /\ Minus(a, b) = WrappedDifference(a, b, 1 - 1)
<1>1. a \in Int /\ b \in Int
  BY WordSize DEF Word
<1>2. a + b = a + b + 0 /\ a - b = a - b - (1 - 1)
  BY <1>1
<1>. QED  BY <1>2 DEF Plus, Minus, WrappedSum, WrappedDifference

(* ADD of two registers other than the destination, ADD of an immediate    *)
(* and ADC leave the exact sum in the destination and the carry, and       *)
(* signed overflow in V, for words of every width.                         *)
THEOREM AdditionIsExact == Spec => AdditionExact
<1>1. TypeOK /\ [Next]_vars => [SumsAreExact]_vars
  <2>. SUFFICES ASSUME TypeOK PROVE SumsAreExact
    OBVIOUS
  <2>. USE DEF TypeOK
  <2>1. ASSUME NEW x \in Word, AddSubtractRegister(0, x)
        PROVE  ExactSum(rs, x, 0)
    <3>1. AddSubtract(0, rs, x, FALSE, psr) = Added(psr, rs, x, Plus(rs, x))
      BY DEF AddSubtract
    <3>2. Set(Added(psr, rs, x, Plus(rs, x)))
      BY <2>1, <3>1 DEF AddSubtractRegister
    <3>. QED  BY <3>2, PlainSums, SumSet
  <2>2. ASSUME NEW x \in Word, MoveCompareAddSubtractImmediate(2, x)
        PROVE  ExactSum(rd, x, 0)
    <3>1. Immediate(2, rd, x, psr) = Added(psr, rd, x, Plus(rd, x))
      BY DEF Immediate
    <3>. QED  BY <2>2, <3>1, PlainSums, SumSet DEF MoveCompareAddSubtractImmediate
  <2>3. ASSUME AluOperation(5)
        PROVE  ExactSum(rd, rs, One(psr.c))
    <3>1. AluOutcome(5, rd, rs, psr)
            = Added(psr, rd, rs, WrappedSum(rd, rs, One(psr.c)))
      BY DEF AluOutcome, Adc, WrappedSum
    <3>2. psr.c \in BOOLEAN
      BY DEF Psr
    <3>. QED  BY <2>3, <3>1, <3>2, OneOfCarry, SumSet DEF AluOperation
  <2>. QED  BY <2>1, <2>2, <2>3 DEF SumsAreExact
<1>. QED  BY <1>1, TypeCorrect, PTL DEF Spec, AdditionExact

(* SBC leaves the exact difference, with C the absence of a borrow.        *)
THEOREM SubtractionIsExact == Spec => SubtractionExact
<1>1. TypeOK /\ [Next]_vars
        => [AluOperation(6) => ExactDifference(rd, rs, One(psr.c), rd')]_vars
  <2>. SUFFICES ASSUME TypeOK, AluOperation(6)
                PROVE  ExactDifference(rd, rs, One(psr.c), rd')
    OBVIOUS
  <2>. USE DEF TypeOK
  <2>1. psr.c \in BOOLEAN
    BY DEF Psr
  <2>2. AluOutcome(6, rd, rs, psr)
          = Subtracted(psr, rd, rs, WrappedDifference(rd, rs, 1 - One(psr.c)))
    BY <2>1, OneOfCarry DEF AluOutcome, Sbc, WrappedDifference
  <2>. QED  BY <2>1, <2>2, OneOfCarry, DifferenceSet DEF AluOperation
<1>. QED  BY <1>1, TypeCorrect, PTL DEF Spec, SubtractionExact

-----------------------------------------------------------------------------
(* The flags of a comparison and the fourteen conditions.                  *)
LEMMA FlagsOrder ==
  ASSUME NEW a \in Word, NEW b \in Word, NEW q \in Psr,
         q.c = sub_carry(a, b, Minus(a, b)), q.v = sub_overflow(a, b, Minus(a, b)),
         q.z = (Minus(a, b) = 0), q.n = neg(Minus(a, b))
  PROVE  \A cc \in 0..13 : Condition(cc, q) = Ordered(cc, a, b)
<1>1. /\ WORD \in Nat \ {0} /\ SIGN \in Nat \ {0} /\ WORD = 2 * SIGN
      /\ a \in Nat /\ a < WORD /\ b \in Nat /\ b < WORD
  BY WordSize DEF Word
<1>2. Minus(a, b) = IF a >= b THEN a - b ELSE a - b + WORD
  BY <1>1 DEF Minus
<1> DEFINE r == Minus(a, b)
<1>3. /\ sub_carry(a, b, r) <=> (a >= b)
      /\ (r = 0) <=> (a = b)
      /\ sub_overflow(a, b, r) <=> Overflows(Signed(a) - Signed(b))
  BY <1>1, <1>2 DEF sub_carry, sub_overflow, Overflows, Signed, neg, pos
<1>4. /\ (neg(r) <=> sub_overflow(a, b, r)) <=> (Signed(a) >= Signed(b))
      /\ (a = b) <=> (Signed(a) = Signed(b))
      /\ Signed(a) \in Int /\ Signed(b) \in Int
  BY <1>1, <1>2 DEF sub_overflow, Signed, neg, pos
<1>5. /\ q.n \in BOOLEAN /\ q.z \in BOOLEAN /\ q.c \in BOOLEAN /\ q.v \in BOOLEAN
      /\ q.c <=> sub_carry(a, b, r)
      /\ q.z <=> (r = 0)
      /\ q.v <=> sub_overflow(a, b, r)
      /\ q.n <=> neg(r)
  BY DEF Psr
<1>6. /\ q.c <=> (a >= b)
      /\ q.z <=> (a = b)
      /\ q.v <=> Overflows(Signed(a) - Signed(b))
      /\ q.n <=> neg(Minus(a, b))
      /\ (q.n = q.v) <=> (Signed(a) >= Signed(b))
  BY <1>3, <1>4, <1>5
<1>7. /\ (a > b) <=> (a >= b /\ a # b)
      /\ (a <= b) <=> (~(a >= b) \/ a = b)
      /\ (a < b) <=> ~(a >= b)
      /\ (Signed(a) < Signed(b)) <=> ~(Signed(a) >= Signed(b))
      /\ (Signed(a) > Signed(b)) <=> (a # b /\ Signed(a) >= Signed(b))
      /\ (Signed(a) <= Signed(b)) <=> (a = b \/ ~(Signed(a) >= Signed(b)))
  BY <1>1, <1>4
<1>10. Condition(0, q) = Ordered(0, a, b)
  <2>1. Condition(0, q) = q.z /\ Ordered(0, a, b) = (a = b)
    BY DEF Condition, Ordered
  <2>2. q.z = (a = b)
    BY <1>5, <1>6, <1>7 DEF pos, Overflows, neg
  <2>. QED  BY <2>1, <2>2
<1>11. Condition(1, q) = Ordered(1, a, b)
  <2>1. Condition(1, q) = (~q.z) /\ Ordered(1, a, b) = (a # b)
    BY DEF Condition, Ordered
  <2>2. (~q.z) = (a # b)
    BY <1>5, <1>6, <1>7 DEF pos, Overflows, neg
  <2>. QED  BY <2>1, <2>2
<1>12. Condition(2, q) = Ordered(2, a, b)
  <2>1. Condition(2, q) = q.c /\ Ordered(2, a, b) = (a >= b)
    BY DEF Condition, Ordered
  <2>2. q.c = (a >= b)
    BY <1>5, <1>6, <1>7 DEF pos, Overflows, neg
  <2>. QED  BY <2>1, <2>2
<1>13. Condition(3, q) = Ordered(3, a, b)
  <2>1. Condition(3, q) = (~q.c) /\ Ordered(3, a, b) = (a < b)
    BY DEF Condition, Ordered
  <2>2. (~q.c) = (a < b)
    BY <1>5, <1>6, <1>7 DEF pos, Overflows, neg
  <2>. QED  BY <2>1, <2>2
<1>14. Condition(4, q) = Ordered(4, a, b)
  <2>1. Condition(4, q) = q.n /\ Ordered(4, a, b) = neg(Minus(a, b))
    BY DEF Condition, Ordered
  <2>2. q.n = neg(Minus(a, b))
    BY <1>5, <1>6, <1>7 DEF pos, Overflows, neg
  <2>. QED  BY <2>1, <2>2
<1>15. Condition(5, q) = Ordered(5, a, b)
  <2>1. Condition(5, q) = (~q.n) /\ Ordered(5, a, b) = pos(Minus(a, b))
    BY DEF Condition, Ordered
  <2>2. (~q.n) = pos(Minus(a, b))
    BY <1>5, <1>6, <1>7 DEF pos, Overflows, neg
  <2>. QED  BY <2>1, <2>2
<1>16. Condition(6, q) = Ordered(6, a, b)
  <2>1. Condition(6, q) = q.v /\ Ordered(6, a, b) = Overflows(Signed(a) - Signed(b))
    BY DEF Condition, Ordered
  <2>2. q.v = Overflows(Signed(a) - Signed(b))
    BY <1>5, <1>6, <1>7 DEF pos, Overflows, neg
  <2>. QED  BY <2>1, <2>2
<1>17. Condition(7, q) = Ordered(7, a, b)
  <2>1. Condition(7, q) = (~q.v) /\ Ordered(7, a, b) = (~Overflows(Signed(a) - Signed(b)))
    BY DEF Condition, Ordered
  <2>2. (~q.v) = (~Overflows(Signed(a) - Signed(b)))
    BY <1>5, <1>6, <1>7 DEF pos, Overflows, neg
  <2>. QED  BY <2>1, <2>2
<1>18. Condition(8, q) = Ordered(8, a, b)
  <2>1. Condition(8, q) = (q.c /\ ~q.z) /\ Ordered(8, a, b) = (a > b)
    BY DEF Condition, Ordered
  <2>2. (q.c /\ ~q.z) = (a > b)
    BY <1>5, <1>6, <1>7 DEF pos, Overflows, neg
  <2>. QED  BY <2>1, <2>2
<1>19. Condition(9, q) = Ordered(9, a, b)
  <2>1. Condition(9, q) = (~q.c \/ q.z) /\ Ordered(9, a, b) = (a <= b)
    BY DEF Condition, Ordered
  <2>2. (~q.c \/ q.z) = (a <= b)
    BY <1>5, <1>6, <1>7 DEF pos, Overflows, neg
  <2>. QED  BY <2>1, <2>2
<1>20. Condition(10, q) = Ordered(10, a, b)
  <2>1. Condition(10, q) = (q.n = q.v) /\ Ordered(10, a, b) = (Signed(a) >= Signed(b))
    BY DEF Condition, Ordered
  <2>2. (q.n = q.v) = (Signed(a) >= Signed(b))
    BY <1>5, <1>6, <1>7 DEF pos, Overflows, neg
  <2>. QED  BY <2>1, <2>2
<1>21. Condition(11, q) = Ordered(11, a, b)
  <2>1. Condition(11, q) = (q.n # q.v) /\ Ordered(11, a, b) = (Signed(a) < Signed(b))
    BY DEF Condition, Ordered
  <2>2. (q.n # q.v) = (Signed(a) < Signed(b))
    BY <1>5, <1>6, <1>7 DEF pos, Overflows, neg
  <2>. QED  BY <2>1, <2>2
<1>22. Condition(12, q) = Ordered(12, a, b)
  <2>1. Condition(12, q) = (~q.z /\ q.n = q.v) /\ Ordered(12, a, b) = (Signed(a) > Signed(b))
    BY DEF Condition, Ordered
  <2>2. (~q.z /\ q.n = q.v) = (Signed(a) > Signed(b))
    BY <1>5, <1>6, <1>7 DEF pos, Overflows, neg
  <2>. QED  BY <2>1, <2>2
<1>23. Condition(13, q) = Ordered(13, a, b)
  <2>1. Condition(13, q) = (q.z \/ q.n # q.v) /\ Ordered(13, a, b) = (Signed(a) <= Signed(b))
    BY DEF Condition, Ordered
  <2>2. (q.z \/ q.n # q.v) = (Signed(a) <= Signed(b))
    BY <1>5, <1>6, <1>7 DEF pos, Overflows, neg
  <2>. QED  BY <2>1, <2>2
<1>. QED
  <2>1. \A cc \in 0..13 : \/ cc = 0 \/ cc = 1 \/ cc = 2 \/ cc = 3 \/ cc = 4 \/ cc = 5 \/ cc = 6
                         \/ cc = 7 \/ cc = 8 \/ cc = 9 \/ cc = 10 \/ cc = 11 \/ cc = 12 \/ cc = 13
    OBVIOUS
  <2>. QED
    BY <2>1, <1>10, <1>11, <1>12, <1>13, <1>14, <1>15, <1>16,
       <1>17, <1>18, <1>19, <1>20, <1>21, <1>22, <1>23

(* After a CMP of a high register or of an immediate, each conditional     *)
(* branch is taken exactly when the operands are in the order its          *)
(* condition names.                                                        *)
THEOREM CompareIsOrder == Spec => CompareThenBranch
<1>1. TypeOK /\ [Next]_vars => [ComparesOrder]_vars
  <2>. SUFFICES ASSUME TypeOK PROVE ComparesOrder
    OBVIOUS
  <2>. USE DEF TypeOK
  <2>1. ASSUME NEW b \in Word, psr' = Subtracted(psr, rd, b, Minus(rd, b)).psr
        PROVE  BranchesOnOrder(rd, b)
    <3>1. Minus(rd, b) \in Word
      BY SumsAreWords
    <3>2. psr' \in Psr
      BY <2>1, <3>1, OutcomesTyped DEF Outcome
    <3>. QED  BY <2>1, <3>2, SubtractedParts, FlagsOrder DEF BranchesOnOrder
  <2>2. ASSUME CompareHigh PROVE BranchesOnOrder(rd, rs)
    <3>1. psr' = Cmp(rd, rs, psr).psr
      BY <2>2 DEF CompareHigh, Set
    <3>2. Cmp(rd, rs, psr).psr = Subtracted(psr, rd, rs, Minus(rd, rs)).psr
      BY DEF Cmp, Compare, Subtracted
    <3>. QED  BY <2>1, <3>1, <3>2
  <2>3. ASSUME NEW x \in Word, MoveCompareAddSubtractImmediate(1, x)
        PROVE  BranchesOnOrder(rd, x)
    <3>1. Immediate(1, rd, x, psr)
            = [value |-> rd, psr |-> SubFlags(psr, rd, x, Minus(rd, x))]
      BY DEF Immediate
    <3>2. psr' = SubFlags(psr, rd, x, Minus(rd, x))
      BY <2>3, <3>1 DEF MoveCompareAddSubtractImmediate, Set
    <3>. QED  BY <2>1, <3>2 DEF Subtracted
  <2>. QED  BY <2>2, <2>3 DEF ComparesOrder
<1>. QED  BY <1>1, TypeCorrect, PTL DEF Spec, CompareThenBranch

-----------------------------------------------------------------------------
(* What one bit of shifting makes of each value of a sequence that begins  *)
(* with x gives the next one: then the sequence is what Bits computes.     *)
LEMMA Iterated ==
  ASSUME NEW op, NEW x, NEW carry, NEW k \in Nat, NEW v, NEW out,
         v[0] = x,
         \A j \in 0..k-1 : OneBit(op, v[j]) = [value |-> v[j+1], out |-> out[j+1]]
  PROVE  Bits(op, x, k, carry) = [value |-> v[k], out |-> IF k = 0 THEN carry ELSE out[k]]
<1> DEFINE Unfolds(f) ==
             f = [j \in 0..k |-> IF j = 0 THEN [value |-> x, out |-> carry]
                                 ELSE OneBit(op, f[j-1].value)]
           g == [j \in 0..k |-> [value |-> v[j], out |-> IF j = 0 THEN carry ELSE out[j]]]
<1>1. Unfolds(g)
  <2>1. ASSUME NEW j \in 0..k, j # 0
        PROVE  g[j] = OneBit(op, g[j-1].value)
    <3>1. j - 1 \in 0..k-1 /\ j - 1 + 1 = j /\ j - 1 \in 0..k
      BY <2>1
    <3>2. g[j-1].value = v[j-1]
      BY <3>1
    <3>3. OneBit(op, v[j-1]) = [value |-> v[j], out |-> out[j]]
      BY <3>1
    <3>. QED  BY <2>1, <3>2, <3>3
  <2>2. g[0] = [value |-> x, out |-> carry]
    OBVIOUS
  <2>. HIDE DEF g
  <2>3. \A j \in 0..k : g[j] = IF j = 0 THEN [value |-> x, out |-> carry]
                               ELSE OneBit(op, g[j-1].value)
    BY <2>1, <2>2, Zenon
  <2>4. g = [j \in 0..k |-> g[j]]
    BY DEF g
  <2>. QED  BY <2>3, <2>4, Zenon
<1> DEFINE f == CHOOSE h : Unfolds(h)
<1>2. Unfolds(f)
  BY <1>1, Zenon
<1>3. Bits(op, x, k, carry) = f[k]
  BY DEF Bits
<1>4. /\ f[0] = [value |-> x, out |-> carry]
      /\ \A j \in 0..k-1 : f[j+1] = OneBit(op, f[j].value)
  <2>. HIDE DEF f
  <2>1. \A j \in 0..k : f[j] = IF j = 0 THEN [value |-> x, out |-> carry]
                               ELSE OneBit(op, f[j-1].value)
    BY <1>2, Zenon
  <2>2. ASSUME NEW j \in 0..k-1 PROVE f[j+1] = OneBit(op, f[j].value)
    <3>1. j + 1 \in 0..k /\ j + 1 # 0 /\ j + 1 - 1 = j
      OBVIOUS
    <3>2. \A i \in 0..k : i # 0 => f[i] = OneBit(op, f[i-1].value)
      BY <2>1, Zenon
    <3>. QED  BY <3>1, <3>2
  <2>. QED  BY <2>1, <2>2
<1>. HIDE DEF f
<1> DEFINE S == {j \in 0..k : f[j] = [value |-> v[j], out |-> IF j = 0 THEN carry ELSE out[j]]}
<1>5. 0 \in S
  BY <1>4
<1>6. ASSUME NEW n \in 0..k-1, n \in S PROVE n + 1 \in S
  <2>1. f[n].value = v[n]
    BY <1>6
  <2>2. f[n+1] = [value |-> v[n+1], out |-> out[n+1]]
    BY <1>4, <2>1
  <2>. QED  BY <2>2
<1>. HIDE DEF S
<1>7. 0..k \subseteq S
  BY <1>5, <1>6, Induct
<1>. QED  BY <1>3, <1>7 DEF S

(* LSL by one bit more.                                                    *)
LEMMA LeftStep ==
  ASSUME NEW x \in Word, NEW j \in 0..WordBits-1
  PROVE  OneBit(0, ShiftLeft(x, j))
           = [value |-> ShiftLeft(x, j + 1), out |-> BitAt(x, WordBits - (j + 1))]
<1> DEFINE p == Pow2[j]
           p2 == Pow2[WordBits-(j+1)]
           b == (x \div p2) % 2
           r == x % p2
           y == ShiftLeft(x, j)
           k == WordBits - (j + 1)
<1>1. /\ j \in 0..WordBits /\ j + 1 \in 0..WordBits /\ j + 1 \in 1..WordBits
      /\ WordBits - j \in 1..WordBits
      /\ WordBits - j - 1 = k /\ k \in 0..WordBits /\ j + 1 - 1 = j
  BY WordBitsAssumption
<1>2. /\ p \in Nat \ {0} /\ p2 \in Nat \ {0}
      /\ Pow2[j+1] = 2 * p /\ Pow2[WordBits-j] = 2 * p2
  BY <1>1, Powers
<1>3. (2 * p) * p2 = WORD /\ p * p2 = SIGN
  <2>1. (2 * p) * p2 = WORD
    BY <1>1, <1>2, Powers
  <2>. HIDE DEF p, p2
  <2>2. 2 * (p * p2) = 2 * SIGN /\ p * p2 \in Int
    BY <1>2, <2>1, WordSize
  <2>. QED  BY <2>1, <2>2, WordSize
<1>4. x \in Int
  BY WordSize DEF Word
<1>5. b \in 0..1 /\ r \in 0..p2-1 /\ x % (2 * p2) = p2 * b + r
  <2>. HIDE DEF p2
  <2>1. (x \div p2) % 2 \in 0..1 /\ x % p2 \in 0..p2-1
    BY <1>2, <1>4
  <2>. QED  BY <1>2, <1>4, <2>1, Halve
<1>6. y = p * (x % (2 * p2))
  BY <1>1, <1>2, LeftDrops
<1>7. ShiftLeft(x, j + 1) = (2 * p) * r
  BY <1>1, <1>2, LeftDrops
<1>8. BitAt(x, k) <=> b = 1
  BY DEF BitAt
<1>9. OneBit(0, y) = [value |-> (2 * y) % WORD, out |-> neg(y)]
  BY DEF OneBit
<1>. HIDE DEF p, p2, b, r, y, k
<1>10. y = SIGN * b + p * r /\ 2 * y = WORD * b + (2 * p) * r
  <2>1. y = (p * p2) * b + p * r
    BY <1>2, <1>5, <1>6
  <2>2. y = SIGN * b + p * r
    BY <1>3, <2>1
  <2>3. p * r \in Int /\ SIGN * b \in Int /\ (2 * p) * r = 2 * (p * r)
        /\ WORD * b = 2 * (SIGN * b)
    BY <1>2, <1>5, WordSize
  <2>. QED  BY <2>2, <2>3
<1>11. p * r \in 0..SIGN-1 /\ (2 * p) * r \in 0..WORD-1
  <2>1. p * r >= 0 /\ p * r <= p * (p2 - 1)
    BY <1>2, <1>5
  <2>2. p * (p2 - 1) = SIGN - p
    BY <1>2, <1>3
  <2>3. SIGN \in Nat /\ p * r \in Int /\ (2 * p) * r = 2 * (p * r)
    BY <1>2, <1>5, WordSize
  <2>. QED  BY <1>2, <2>1, <2>2, <2>3, WordSize
<1>12. (2 * y) % WORD = (2 * p) * r
  <2> DEFINE s == (2 * p) * r
  <2>1. 2 * y = WORD * b + s /\ s \in 0..WORD-1 /\ b \in Int
    BY <1>5, <1>10, <1>11
  <2>. HIDE DEF s
  <2>2. (WORD * b + s) % WORD = s
    BY <2>1, WordSize, Division
  <2>. QED  BY <2>1, <2>2 DEF s
<1>13. neg(y) <=> b = 1
  <2>1. b = 0 \/ b = 1
    BY <1>5
  <2>2. CASE b = 0
    BY <1>10, <1>11, <2>2, WordSize DEF neg
  <2>3. CASE b = 1
    BY <1>10, <1>11, <2>3, WordSize DEF neg
  <2>. QED  BY <2>1, <2>2, <2>3
<1>14. neg(y) = BitAt(x, k)
  BY <1>8, <1>13 DEF neg, BitAt
<1>. QED  BY <1>7, <1>9, <1>12, <1>14 DEF y, k

(* LSR by one bit more.                                                    *)
LEMMA RightStep ==
  ASSUME NEW x \in Word, NEW j \in 0..WordBits-1
  PROVE  OneBit(1, ShiftRight(x, j))
           = [value |-> ShiftRight(x, j + 1), out |-> BitAt(x, j)]
<1>1. j \in 0..WordBits /\ j + 1 \in 1..WordBits /\ j + 1 - 1 = j
  BY WordBitsAssumption
<1>2. Pow2[j] \in Nat \ {0} /\ Pow2[j+1] = 2 * Pow2[j]
  BY <1>1, Powers
<1>3. x \in Int
  BY WordSize DEF Word
<1>4. x \div Pow2[j+1] = (x \div Pow2[j]) \div 2
  BY <1>2, <1>3, Halve
<1>. QED  BY <1>4 DEF OneBit, ShiftRight, BitAt

(* ASR by one bit more.                                                    *)
LEMMA SignedStep ==
  ASSUME NEW x \in Word, NEW j \in 0..WordBits-1
  PROVE  OneBit(2, ShiftRightSigned(x, j))
           = [value |-> ShiftRightSigned(x, j + 1), out |-> BitAt(x, j)]
<1> DEFINE p == Pow2[j]
           p2 == Pow2[WordBits-j-1]
           s == Signed(x)
           t == s \div p
           y == ShiftRightSigned(x, j)
<1>1. /\ j \in 0..WordBits /\ j + 1 \in 1..WordBits /\ j + 1 - 1 = j
      /\ WordBits - j \in 1..WordBits /\ WordBits - j - 1 \in 0..WordBits
  BY WordBitsAssumption
<1>2. /\ p \in Nat \ {0} /\ p2 \in Nat \ {0}
      /\ Pow2[j+1] = 2 * p /\ p * (2 * p2) = WORD
  BY <1>1, Powers
<1>3. WORD \in Nat \ {0} /\ SIGN \in Nat \ {0} /\ WORD = 2 * SIGN /\ x \in Nat /\ x < WORD
  BY WordSize DEF Word
<1>4. /\ s \in Int /\ -SIGN <= s /\ s < SIGN
      /\ s = IF neg(x) THEN x - WORD ELSE x
  BY <1>3 DEF Signed, neg
<1>5. y = t % WORD /\ ShiftRightSigned(x, j + 1) = (s \div (2 * p)) % WORD
  BY <1>2 DEF ShiftRightSigned
<1>6. OneBit(2, y) = [value |-> (y \div 2) + (IF neg(y) THEN SIGN ELSE 0), out |-> y % 2 = 1]
  BY DEF OneBit
<1>7. BitAt(x, j) = ((x \div p) % 2 = 1)
  BY DEF BitAt
<1>. HIDE DEF p, p2, s, y
<1>8. t \in Int /\ -SIGN <= t /\ t < SIGN
  <2>1. s >= 0 => t \in 0..s
    BY <1>2, <1>4, Shrinks
  <2>2. s < 0 => t \in s..-1
    BY <1>2, <1>4, Shrinks
  <2>. HIDE DEF t
  <2>. QED  BY <1>3, <1>4, <2>1, <2>2
<1>9. s \div (2 * p) = t \div 2
  BY <1>2, <1>4, Halve
<1>10. (x \div p) % 2 = t % 2
  <2> DEFINE r == s % p
             b == IF neg(x) THEN 1 ELSE 0
             u == t + (2 * p2) * b
  <2>1. r \in 0..p-1 /\ s = p * t + r
    BY <1>2, <1>4, Divided
  <2>. HIDE DEF t, r
  <2>2. x = s + WORD * b /\ b \in 0..1
    BY <1>3, <1>4
  <2>3. WORD * b = p * ((2 * p2) * b)
    BY <1>2, <2>2
  <2>4. x = p * u + r /\ u \in Int
    <3>1. (2 * p2) * b \in Int
      BY <1>2, <2>2
    <3>. HIDE DEF b
    <3> DEFINE w == (2 * p2) * b
    <3>. HIDE DEF w
    <3>2. x = p * t + r + p * w /\ w \in Int
      BY <2>1, <2>2, <2>3, <3>1 DEF w
    <3>3. x = p * (t + w) + r /\ t + w \in Int
      BY <1>2, <1>8, <2>1, <3>2
    <3>. QED  BY <3>3 DEF w
  <2>. HIDE DEF u
  <2>5. x \div p = u
    BY <1>2, <2>1, <2>4, Division
  <2>6. u % 2 = t % 2
    <3>1. b = 0 \/ b = 1
      BY <2>2
    <3>2. b = 0 => u = t
      BY <1>2, <1>8 DEF u
    <3>3. b = 1 => u = t + 2 * p2
      BY <1>2, <1>8 DEF u
    <3>. HIDE DEF b
    <3>. QED  BY <1>2, <1>8, <3>1, <3>2, <3>3
  <2>. QED  BY <2>5, <2>6
<1>. HIDE DEF t
<1>11. y = IF t >= 0 THEN t ELSE t + WORD
  BY <1>3, <1>5, <1>8
<1>12. neg(y) <=> t < 0
  BY <1>3, <1>8, <1>11 DEF neg
<1>13. (y \div 2) + (IF neg(y) THEN SIGN ELSE 0) = (t \div 2) % WORD
  <2>1. CASE t >= 0
    BY <1>3, <1>8, <1>11, <1>12, <2>1
  <2>2. CASE t < 0
    <3>1. (t + 2 * SIGN) \div 2 = (t \div 2) + SIGN
      BY <1>3, <1>8
    <3>2. (t \div 2) % WORD = (t \div 2) + WORD
      BY <1>3, <1>8, <2>2
    <3>. QED  BY <1>3, <1>8, <1>11, <1>12, <2>2, <3>1, <3>2
  <2>. QED  BY <1>8, <2>1, <2>2
<1>14. y % 2 = t % 2
  BY <1>3, <1>8, <1>11
<1>. QED  BY <1>5, <1>6, <1>7, <1>9, <1>10, <1>13, <1>14 DEF y

(* ROR by one bit more.                                                    *)
LEMMA RotateStep ==
  ASSUME NEW x \in Word, NEW i \in 0..WordBits-1
  PROVE  OneBit(3, RotateRight(x, i))
           = [value |-> RotateRight(x, i + 1), out |-> BitAt(x, i)]
<1> DEFINE p == Pow2[i]
           q == Pow2[WordBits-(i+1)]
           m == x % p
           h == x \div p
           g == h \div 2
           b == h % 2
           y == RotateRight(x, i)
<1>1. /\ i \in 0..WordBits /\ i + 1 \in 1..WordBits /\ i + 1 \in 0..WordBits
      /\ i + 1 - 1 = i /\ WordBits - i \in 1..WordBits
      /\ WordBits - i - 1 = WordBits - (i + 1) /\ WordBits - (i + 1) \in 0..WordBits
  BY WordBitsAssumption
<1>2. /\ p \in Nat \ {0} /\ q \in Nat \ {0}
      /\ Pow2[i+1] = 2 * p /\ Pow2[WordBits-i] = 2 * q /\ p * (2 * q) = WORD
  BY <1>1, Powers
<1>3. WORD = 2 * SIGN /\ SIGN \in Nat /\ x \in Int
  BY WordSize DEF Word
<1>4. y = (2 * q) * m + h
  BY <1>1, <1>2, RotateParts
<1>5. RotateRight(x, i + 1) = q * (x % (2 * p)) + (x \div (2 * p))
  BY <1>1, <1>2, RotateParts
<1>6. OneBit(3, y) = [value |-> (y \div 2) + SIGN * (y % 2), out |-> y % 2 = 1]
  BY DEF OneBit
<1>7. BitAt(x, i) = (b = 1)
  BY DEF BitAt
<1>. HIDE DEF p, q, y
<1>8. x % (2 * p) = p * b + m /\ x \div (2 * p) = g
  BY <1>2, <1>3, Halve
<1>9. m \in Int /\ h \in Int
  BY <1>2, <1>3, Divided
<1>. HIDE DEF m, h
<1>10. g \in Int /\ b \in 0..1 /\ h = 2 * g + b
  BY <1>9
<1>. HIDE DEF g, b
<1>11. q * m \in Int /\ (2 * q) * m = 2 * (q * m)
  BY <1>2, <1>9
<1>12. y = 2 * (q * m + g) + b
  BY <1>4, <1>10, <1>11
<1>13. y \div 2 = q * m + g /\ y % 2 = b
  <2> DEFINE u == q * m + g
  <2>1. u \in Int /\ y = 2 * u + b
    BY <1>10, <1>11, <1>12
  <2>. HIDE DEF u
  <2>2. y \div 2 = u /\ y % 2 = b
    BY <1>10, <2>1
  <2>. QED  BY <2>2 DEF u
<1>14. q * (p * b + m) = SIGN * b + q * m
  <2>1. q * (p * b + m) = (q * p) * b + q * m
    BY <1>2, <1>9, <1>10
  <2>2. 2 * (q * p) = WORD /\ q * p \in Int
    BY <1>2
  <2>3. q * p = SIGN
    BY <1>3, <2>2
  <2>. QED  BY <2>1, <2>3
<1>15. (y \div 2) + SIGN * (y % 2) = RotateRight(x, i + 1)
  <2>1. SIGN * b \in Int
    BY <1>3, <1>10
  <2>. QED  BY <1>5, <1>8, <1>10, <1>11, <1>13, <1>14, <2>1
<1>. QED  BY <1>6, <1>7, <1>13, <1>15 DEF y

-----------------------------------------------------------------------------
(* What k shifts to the left by one bit leave.                             *)
LEMMA LeftIterated ==
  ASSUME NEW x \in Word, NEW k \in Nat, NEW carry
  PROVE  /\ k = 0 => Bits(0, x, k, carry) = [value |-> x, out |-> carry]
         /\ k \in 1..WordBits =>
              Bits(0, x, k, carry) = [value |-> ShiftLeft(x, k), out |-> BitAt(x, WordBits - k)]
         /\ k > WordBits =>
              Bits(0, x, k, carry) = [value |-> 0, out |-> FALSE]
<1> DEFINE V(j) == IF j <= WordBits THEN ShiftLeft(x, j) ELSE 0
           O(j) == IF j <= WordBits THEN BitAt(x, WordBits - j) ELSE FALSE
           v == [j \in 0..k |-> V(j)]
           out == [j \in 0..k |-> O(j)]
<1>1. V(0) = x
  BY TopBit, WordBitsAssumption
<1>2. ASSUME NEW j \in 0..k-1
      PROVE  OneBit(0, V(j)) = [value |-> V(j + 1), out |-> O(j + 1)]
  <2>1. CASE j \in 0..WordBits-1
    <3>1. j <= WordBits /\ j + 1 <= WordBits
      BY <2>1, WordBitsAssumption
    <3>. QED  BY <2>1, <3>1, LeftStep
  <2>2. CASE j >= WordBits
    <3>1. V(j) = 0
      BY <2>2, TopBit, WordBitsAssumption
    <3>2. OneBit(0, 0) = [value |-> 0, out |-> FALSE]
      <4>1. (2 * 0) % WORD = 0 /\ neg(0) = FALSE
        BY WordSize DEF neg
      <4>2. OneBit(0, 0) = [value |-> (2 * 0) % WORD, out |-> neg(0)]
        BY DEF OneBit
      <4>. QED  BY <4>1, <4>2, Zenon
    <3>3. ~(j + 1 <= WordBits)
      BY <2>2, WordBitsAssumption
    <3>. QED  BY <3>1, <3>2, <3>3
  <2>. QED  BY <2>1, <2>2, WordBitsAssumption
<1>. HIDE DEF V, O
<1>3. v[0] = x
  BY <1>1
<1>4. \A j \in 0..k-1 : OneBit(0, v[j]) = [value |-> v[j+1], out |-> out[j+1]]
  BY <1>2
<1>5. v[k] = V(k) /\ out[k] = O(k)
  OBVIOUS
<1>. HIDE DEF v, out
<1>6. Bits(0, x, k, carry) = [value |-> v[k], out |-> IF k = 0 THEN carry ELSE out[k]]
  BY <1>3, <1>4, Iterated
<1>7. ASSUME k = 0 PROVE Bits(0, x, k, carry) = [value |-> x, out |-> carry]
  BY <1>1, <1>5, <1>6, <1>7
<1>8. ASSUME k # 0
      PROVE  Bits(0, x, k, carry) = [value |-> V(k), out |-> O(k)]
  BY <1>5, <1>6, <1>8, Zenon
<1>9. ASSUME k \in 1..WordBits
      PROVE  V(k) = ShiftLeft(x, k) /\ O(k) = BitAt(x, WordBits - k)
  <2>1. k <= WordBits
    BY <1>9, WordBitsAssumption
  <2>. QED  BY <2>1, Zenon DEF V, O
<1>10. ASSUME k > WordBits
       PROVE  V(k) = 0 /\ O(k) = FALSE
  <2>1. ~(k <= WordBits)
    BY <1>10, WordBitsAssumption
  <2>. QED  BY <2>1, Zenon DEF V, O
<1>11. (k \in 1..WordBits \/ k > WordBits) => k # 0
  BY WordBitsAssumption
<1>. QED  BY <1>7, <1>8, <1>9, <1>10, <1>11, Zenon

(* What k shifts to the right by one bit leave.                            *)
LEMMA RightIterated ==
  ASSUME NEW x \in Word, NEW k \in Nat, NEW carry
  PROVE  /\ k = 0 => Bits(1, x, k, carry) = [value |-> x, out |-> carry]
         /\ k \in 1..WordBits =>
              Bits(1, x, k, carry) = [value |-> ShiftRight(x, k), out |-> BitAt(x, k - 1)]
         /\ k > WordBits =>
              Bits(1, x, k, carry) = [value |-> 0, out |-> FALSE]
<1> DEFINE V(j) == IF j <= WordBits THEN ShiftRight(x, j) ELSE 0
           O(j) == IF j <= WordBits THEN BitAt(x, j - 1) ELSE FALSE
           v == [j \in 0..k |-> V(j)]
           out == [j \in 0..k |-> O(j)]
<1>1. V(0) = x
  BY TopBit, WordBitsAssumption
<1>2. ASSUME NEW j \in 0..k-1
      PROVE  OneBit(1, V(j)) = [value |-> V(j + 1), out |-> O(j + 1)]
  <2>1. CASE j \in 0..WordBits-1
    <3>1. j <= WordBits /\ j + 1 <= WordBits /\ j + 1 - 1 = j
      BY <2>1, WordBitsAssumption
    <3>. QED  BY <2>1, <3>1, RightStep
  <2>2. CASE j >= WordBits
    <3>1. V(j) = 0
      BY <2>2, TopBit, WordBitsAssumption
    <3>2. OneBit(1, 0) = [value |-> 0, out |-> FALSE]
      <4>1. 0 \div 2 = 0 /\ (0 % 2 = 1) = FALSE
        OBVIOUS
      <4>2. OneBit(1, 0) = [value |-> 0 \div 2, out |-> 0 % 2 = 1]
        BY DEF OneBit
      <4>. QED  BY <4>1, <4>2, Zenon
    <3>3. ~(j + 1 <= WordBits)
      BY <2>2, WordBitsAssumption
    <3>. QED  BY <3>1, <3>2, <3>3
  <2>. QED  BY <2>1, <2>2, WordBitsAssumption
<1>. HIDE DEF V, O
<1>3. v[0] = x
  BY <1>1
<1>4. \A j \in 0..k-1 : OneBit(1, v[j]) = [value |-> v[j+1], out |-> out[j+1]]
  BY <1>2
<1>5. v[k] = V(k) /\ out[k] = O(k)
  OBVIOUS
<1>. HIDE DEF v, out
<1>6. Bits(1, x, k, carry) = [value |-> v[k], out |-> IF k = 0 THEN carry ELSE out[k]]
  BY <1>3, <1>4, Iterated
<1>7. ASSUME k = 0 PROVE Bits(1, x, k, carry) = [value |-> x, out |-> carry]
  BY <1>1, <1>5, <1>6, <1>7
<1>8. ASSUME k # 0
      PROVE  Bits(1, x, k, carry) = [value |-> V(k), out |-> O(k)]
  BY <1>5, <1>6, <1>8, Zenon
<1>9. ASSUME k \in 1..WordBits
      PROVE  V(k) = ShiftRight(x, k) /\ O(k) = BitAt(x, k - 1)
  <2>1. k <= WordBits
    BY <1>9, WordBitsAssumption
  <2>. QED  BY <2>1, Zenon DEF V, O
<1>10. ASSUME k > WordBits
       PROVE  V(k) = 0 /\ O(k) = FALSE
  <2>1. ~(k <= WordBits)
    BY <1>10, WordBitsAssumption
  <2>. QED  BY <2>1, Zenon DEF V, O
<1>11. (k \in 1..WordBits \/ k > WordBits) => k # 0
  BY WordBitsAssumption
<1>. QED  BY <1>7, <1>8, <1>9, <1>10, <1>11, Zenon

(* What k signed shifts to the right by one bit leave.                     *)
LEMMA SignedIterated ==
  ASSUME NEW x \in Word, NEW k \in Nat, NEW carry
  PROVE  /\ k = 0 => Bits(2, x, k, carry) = [value |-> x, out |-> carry]
         /\ k \in 1..WordBits =>
              Bits(2, x, k, carry) = [value |-> ShiftRightSigned(x, k), out |-> BitAt(x, k - 1)]
         /\ k > WordBits =>
              Bits(2, x, k, carry) = [value |-> IF neg(x) THEN WORD - 1 ELSE 0, out |-> neg(x)]
<1> DEFINE V(j) == IF j <= WordBits THEN ShiftRightSigned(x, j)
                   ELSE IF neg(x) THEN WORD - 1 ELSE 0
           O(j) == IF j <= WordBits THEN BitAt(x, j - 1) ELSE neg(x)
           v == [j \in 0..k |-> V(j)]
           out == [j \in 0..k |-> O(j)]
<1>1. V(0) = x
  BY TopBit, WordBitsAssumption
<1>2. ASSUME NEW j \in 0..k-1
      PROVE  OneBit(2, V(j)) = [value |-> V(j + 1), out |-> O(j + 1)]
  <2>1. CASE j \in 0..WordBits-1
    <3>1. j <= WordBits /\ j + 1 <= WordBits /\ j + 1 - 1 = j
      BY <2>1, WordBitsAssumption
    <3>. QED  BY <2>1, <3>1, SignedStep
  <2>2. CASE j >= WordBits
    <3> DEFINE e == IF neg(x) THEN WORD - 1 ELSE 0
    <3>1. V(j) = e
      BY <2>2, TopBit, WordBitsAssumption
    <3>2. /\ WORD = 2 * SIGN /\ SIGN \in Nat \ {0}
          /\ neg(e) = neg(x) /\ (e % 2 = 1) = neg(x)
          /\ (e \div 2) + (IF neg(e) THEN SIGN ELSE 0) = e
      <4>1. WORD = 2 * SIGN /\ SIGN \in Nat \ {0}
        BY WordSize
      <4>2. (2 * SIGN - 1) \div 2 = SIGN - 1 /\ (2 * SIGN - 1) % 2 = 1
        BY <4>1
      <4>3. CASE neg(x)
        BY <4>1, <4>2, <4>3 DEF neg
      <4>4. CASE ~neg(x)
        BY <4>1, <4>4 DEF neg
      <4>. QED  BY <4>1, <4>3, <4>4
    <3>3. OneBit(2, e) = [value |-> e, out |-> neg(x)]
      <4>1. OneBit(2, e) = [value |-> (e \div 2) + (IF neg(e) THEN SIGN ELSE 0),
                            out |-> e % 2 = 1]
        BY DEF OneBit
      <4>. HIDE DEF e
      <4>. QED  BY <3>2, <4>1
    <3>4. ~(j + 1 <= WordBits)
      BY <2>2, WordBitsAssumption
    <3>. QED  BY <3>1, <3>3, <3>4
  <2>. QED  BY <2>1, <2>2, WordBitsAssumption
<1>. HIDE DEF V, O
<1>3. v[0] = x
  BY <1>1
<1>4. \A j \in 0..k-1 : OneBit(2, v[j]) = [value |-> v[j+1], out |-> out[j+1]]
  BY <1>2
<1>5. v[k] = V(k) /\ out[k] = O(k)
  OBVIOUS
<1>. HIDE DEF v, out
<1>6. Bits(2, x, k, carry) = [value |-> v[k], out |-> IF k = 0 THEN carry ELSE out[k]]
  BY <1>3, <1>4, Iterated
<1>7. ASSUME k = 0 PROVE Bits(2, x, k, carry) = [value |-> x, out |-> carry]
  BY <1>1, <1>5, <1>6, <1>7
<1>8. ASSUME k # 0
      PROVE  Bits(2, x, k, carry) = [value |-> V(k), out |-> O(k)]
  BY <1>5, <1>6, <1>8, Zenon
<1>9. ASSUME k \in 1..WordBits
      PROVE  V(k) = ShiftRightSigned(x, k) /\ O(k) = BitAt(x, k - 1)
  <2>1. k <= WordBits
    BY <1>9, WordBitsAssumption
  <2>. QED  BY <2>1, Zenon DEF V, O
<1>10. ASSUME k > WordBits
       PROVE  V(k) = (IF neg(x) THEN WORD - 1 ELSE 0) /\ O(k) = neg(x)
  <2>1. ~(k <= WordBits)
    BY <1>10, WordBitsAssumption
  <2>. QED  BY <2>1, Zenon DEF V, O
<1>11. (k \in 1..WordBits \/ k > WordBits) => k # 0
  BY WordBitsAssumption
<1>. QED  BY <1>7, <1>8, <1>9, <1>10, <1>11, Zenon

(* What k rotations by one bit leave: full turns do not matter.            *)
LEMMA RotationIterated ==
  ASSUME NEW x \in Word, NEW k \in Nat, NEW carry
  PROVE  /\ k = 0 => Bits(3, x, k, carry) = [value |-> x, out |-> carry]
         /\ k # 0 /\ k % WordBits = 0 =>
              Bits(3, x, k, carry) = [value |-> x, out |-> neg(x)]
         /\ k # 0 /\ k % WordBits # 0 =>
              Bits(3, x, k, carry) = [value |-> RotateRight(x, k % WordBits),
                                      out   |-> BitAt(x, (k % WordBits) - 1)]
<1> DEFINE V(j) == RotateRight(x, j % WordBits)
           O(j) == BitAt(x, (IF j % WordBits = 0 THEN WordBits ELSE j % WordBits) - 1)
           v == [j \in 0..k |-> V(j)]
           out == [j \in 0..k |-> O(j)]
<1>0. WordBits \in Nat \ {0} /\ 0 % WordBits = 0
  BY WordBitsAssumption
<1>1. V(0) = x
  BY <1>0, RotateRound
<1>2. ASSUME NEW j \in 0..k-1
      PROVE  OneBit(3, V(j)) = [value |-> V(j + 1), out |-> O(j + 1)]
  <2> DEFINE i == j % WordBits
             q == j \div WordBits
  <2>1. i \in 0..WordBits-1 /\ q \in Int /\ j = WordBits * q + i
    BY <1>0, Divided
  <2>2. OneBit(3, V(j)) = [value |-> RotateRight(x, i + 1), out |-> BitAt(x, i)]
    BY <2>1, RotateStep
  <2>3. CASE i + 1 < WordBits
    <3>. HIDE DEF i, q
    <3>1. (WordBits * q + (i + 1)) % WordBits = i + 1
      <4> DEFINE i1 == i + 1
      <4>1. i1 \in 0..WordBits-1
        BY <1>0, <2>1, <2>3
      <4>. HIDE DEF i1
      <4>2. (WordBits * q + i1) % WordBits = i1
        BY <1>0, <2>1, <4>1, Division
      <4>. QED  BY <4>2 DEF i1
    <3>2. j + 1 = WordBits * q + (i + 1)
      BY <1>0, <2>1
    <3>3. (j + 1) % WordBits = i + 1 /\ i + 1 # 0 /\ i + 1 - 1 = i
      BY <2>1, <3>1, <3>2
    <3>4. (IF (j + 1) % WordBits = 0 THEN WordBits ELSE (j + 1) % WordBits) - 1 = i
      <4> DEFINE w == IF (j + 1) % WordBits = 0 THEN WordBits ELSE (j + 1) % WordBits
      <4>1. w = i + 1
        BY <3>3, Zenon
      <4>. HIDE DEF w
      <4>2. w - 1 = i
        BY <2>1, <3>3, <4>1
      <4>. QED  BY <4>2 DEF w
    <3>5. V(j + 1) = RotateRight(x, i + 1) /\ O(j + 1) = BitAt(x, i)
      BY <3>3, <3>4, Zenon
    <3>. QED  BY <2>2, <3>5, Zenon
  <2>4. CASE i + 1 = WordBits
    <3>. HIDE DEF i, q
    <3> DEFINE q1 == q + 1
               z == 0
    <3>1. j + 1 = WordBits * q1 + z /\ q1 \in Int /\ z \in 0..WordBits-1
      BY <1>0, <2>1, <2>4
    <3>. HIDE DEF q1, z
    <3>2. (WordBits * q1 + z) % WordBits = z
      BY <1>0, <3>1, Division
    <3>3. (j + 1) % WordBits = 0 /\ WordBits - 1 = i
      BY <1>0, <2>1, <2>4, <3>1, <3>2 DEF z
    <3>4. RotateRight(x, i + 1) = RotateRight(x, 0)
      BY <2>4, RotateRound
    <3>. QED  BY <2>2, <3>3, <3>4
  <2>. QED  BY <1>0, <2>1, <2>3, <2>4
<1>. HIDE DEF V, O
<1>3. v[0] = x
  BY <1>1
<1>4. \A j \in 0..k-1 : OneBit(3, v[j]) = [value |-> v[j+1], out |-> out[j+1]]
  BY <1>2
<1>5. v[k] = V(k) /\ out[k] = O(k)
  OBVIOUS
<1>. HIDE DEF v, out
<1>6. Bits(3, x, k, carry) = [value |-> v[k], out |-> IF k = 0 THEN carry ELSE out[k]]
  BY <1>3, <1>4, Iterated
<1>7. ASSUME k = 0 PROVE Bits(3, x, k, carry) = [value |-> x, out |-> carry]
  BY <1>1, <1>5, <1>6, <1>7
<1>8. ASSUME k # 0
      PROVE  Bits(3, x, k, carry) = [value |-> V(k), out |-> O(k)]
  BY <1>5, <1>6, <1>8, Zenon
<1>9. ASSUME k % WordBits = 0
      PROVE  V(k) = x /\ O(k) = neg(x)
  BY <1>9, RotateRound, TopBit, Zenon DEF V, O
<1>10. ASSUME k % WordBits # 0
       PROVE  V(k) = RotateRight(x, k % WordBits) /\ O(k) = BitAt(x, (k % WordBits) - 1)
  BY <1>10, Zenon DEF V, O
<1>. QED  BY <1>7, <1>8, <1>9, <1>10, Zenon

-----------------------------------------------------------------------------
(* The handlers.  The shifts by the low byte of a register leave what as   *)
(* many shifts by one bit leave, at the width of the word and beyond it.   *)
LEMMA ShiftsByRegister ==
  ASSUME NEW a \in Word, NEW k \in Nat, NEW p \in Psr
  PROVE  /\ Lsl(a, k, p) = Shifted(p, Bits(0, a, k, p.c).value, Bits(0, a, k, p.c).out)
         /\ Lsr(a, k, p) = Shifted(p, Bits(1, a, k, p.c).value, Bits(1, a, k, p.c).out)
         /\ Asr(a, k, p) = Shifted(p, Bits(2, a, k, p.c).value, Bits(2, a, k, p.c).out)
         /\ Ror(a, k, p) = Shifted(p, Bits(3, a, k, p.c).value, Bits(3, a, k, p.c).out)
<1>1. Logical(p, a) = Shifted(p, a, p.c)
  BY DEF Logical, Shifted, WithNZC, WithNZ, Psr
<1>2. WordBits \in Nat \ {0}
  BY WordBitsAssumption
<1>3. k = 0 \/ k \in 1..WordBits-1 \/ k = WordBits \/ k > WordBits
  BY <1>2
<1>8. /\ k = 0 => ~(k \in 1..WordBits-1) /\ k # WordBits /\ ~(k > WordBits)
      /\ k \in 1..WordBits-1 => k # 0 /\ k # WordBits /\ ~(k > WordBits)
      /\ k = WordBits => k # 0 /\ ~(k \in 1..WordBits-1) /\ ~(k > WordBits)
      /\ k > WordBits => k # 0 /\ ~(k \in 1..WordBits-1) /\ k # WordBits
  BY <1>2
<1>4. Lsl(a, k, p) = Shifted(p, Bits(0, a, k, p.c).value, Bits(0, a, k, p.c).out)
  <2>1. CASE k = 0
    <3>1. Lsl(a, k, p) = Logical(p, a)
      BY <1>8, <2>1, Zenon DEF Lsl
    <3>2. Bits(0, a, k, p.c) = [value |-> a, out |-> p.c]
      BY <2>1, LeftIterated, Zenon
    <3>. QED  BY <1>1, <3>1, <3>2
  <2>2. CASE k \in 1..WordBits-1
    <3>1. Lsl(a, k, p) = Shifted(p, ShiftLeft(a, k), BitAt(a, WordBits - k))
      BY <1>8, <2>2, Zenon DEF Lsl
    <3>2. k \in 1..WordBits
      BY <1>2, <2>2
    <3>3. Bits(0, a, k, p.c) = [value |-> ShiftLeft(a, k), out |-> BitAt(a, WordBits - k)]
      BY <3>2, LeftIterated, Zenon
    <3>. QED  BY <3>1, <3>3
  <2>3. CASE k = WordBits
    <3>1. Lsl(a, k, p) = Shifted(p, 0, BitAt(a, 0))
      BY <1>8, <2>3, Zenon DEF Lsl
    <3>2. k \in 1..WordBits /\ WordBits - k = 0
      BY <1>2, <2>3
    <3>3. Bits(0, a, k, p.c) = [value |-> ShiftLeft(a, k), out |-> BitAt(a, WordBits - k)]
      BY <3>2, LeftIterated, Zenon
    <3>. QED  BY <2>3, <3>1, <3>2, <3>3, TopBit
  <2>4. CASE k > WordBits
    <3>1. Lsl(a, k, p) = Shifted(p, 0, FALSE)
      BY <1>8, <2>4, Zenon DEF Lsl
    <3>2. Bits(0, a, k, p.c) = [value |-> 0, out |-> FALSE]
      BY <2>4, LeftIterated, Zenon
    <3>3. [value |-> 0, out |-> FALSE].value = 0 /\ [value |-> 0, out |-> FALSE].out = FALSE
      OBVIOUS
    <3>. QED  BY <3>1, <3>2, <3>3, Zenon
  <2>. QED  BY <1>3, <2>1, <2>2, <2>3, <2>4
<1>5. Lsr(a, k, p) = Shifted(p, Bits(1, a, k, p.c).value, Bits(1, a, k, p.c).out)
  <2>1. CASE k = 0
    <3>1. Lsr(a, k, p) = Logical(p, a)
      BY <1>8, <2>1, Zenon DEF Lsr
    <3>2. Bits(1, a, k, p.c) = [value |-> a, out |-> p.c]
      BY <2>1, RightIterated, Zenon
    <3>. QED  BY <1>1, <3>1, <3>2
  <2>2. CASE k \in 1..WordBits-1
    <3>1. Lsr(a, k, p) = Shifted(p, ShiftRight(a, k), BitAt(a, k - 1))
      BY <1>8, <2>2, Zenon DEF Lsr
    <3>2. k \in 1..WordBits
      BY <1>2, <2>2
    <3>3. Bits(1, a, k, p.c) = [value |-> ShiftRight(a, k), out |-> BitAt(a, k - 1)]
      BY <3>2, RightIterated, Zenon
    <3>. QED  BY <3>1, <3>3
  <2>3. CASE k = WordBits
    <3>1. Lsr(a, k, p) = Shifted(p, 0, neg(a))
      BY <1>8, <2>3, Zenon DEF Lsr
    <3>2. k \in 1..WordBits /\ WordBits - k = 0
      BY <1>2, <2>3
    <3>3. Bits(1, a, k, p.c) = [value |-> ShiftRight(a, k), out |-> BitAt(a, k - 1)]
      BY <3>2, RightIterated, Zenon
    <3>. QED  BY <2>3, <3>1, <3>2, <3>3, TopBit
  <2>4. CASE k > WordBits
    <3>1. Lsr(a, k, p) = Shifted(p, 0, FALSE)
      BY <1>8, <2>4, Zenon DEF Lsr
    <3>2. Bits(1, a, k, p.c) = [value |-> 0, out |-> FALSE]
      BY <2>4, RightIterated, Zenon
    <3>3. [value |-> 0, out |-> FALSE].value = 0 /\ [value |-> 0, out |-> FALSE].out = FALSE
      OBVIOUS
    <3>. QED  BY <3>1, <3>2, <3>3, Zenon
  <2>. QED  BY <1>3, <2>1, <2>2, <2>3, <2>4
<1>6. Asr(a, k, p) = Shifted(p, Bits(2, a, k, p.c).value, Bits(2, a, k, p.c).out)
  <2>1. CASE k = 0
    BY <1>1, <1>2, <2>1, SignedIterated, TopBit DEF Asr
  <2>2. CASE k \in 1..WordBits-1
    BY <1>2, <2>2, SignedIterated DEF Asr
  <2>3. CASE k = WordBits
    BY <1>2, <2>3, SignedIterated, TopBit DEF Asr
  <2>4. CASE k > WordBits
    BY <1>2, <2>4, SignedIterated DEF Asr
  <2>. QED  BY <1>3, <2>1, <2>2, <2>3, <2>4
<1>7. Ror(a, k, p) = Shifted(p, Bits(3, a, k, p.c).value, Bits(3, a, k, p.c).out)
  <2> DEFINE j == k % WordBits
  <2>1. j = 0 \/ j > 0
    BY <1>2
  <2>2. CASE k = 0
    <3>1. 0 % WordBits = 0
      BY <1>2
    <3>. QED  BY <1>1, <2>2, <3>1, RotationIterated, RotateRound DEF Ror
  <2>3. CASE k > 0 /\ j = 0
    BY <2>3, RotationIterated, RotateRound, TopBit DEF Ror
  <2>4. CASE k > 0 /\ j > 0
    BY <2>4, RotationIterated DEF Ror
  <2>. QED  BY <2>1, <2>2, <2>3, <2>4
<1>. QED  BY <1>4, <1>5, <1>6, <1>7

(* So do the shifts by an immediate of at least one.                       *)
LEMMA ShiftsByImmediate ==
  ASSUME NEW op \in 0..2, NEW x \in Word, NEW k \in 1..WordBits-1, NEW p \in Psr
  PROVE  ShiftImmediate(op, x, k, p)
           = {Shifted(p, Bits(op, x, k, p.c).value, Bits(op, x, k, p.c).out)}
<1>1. k # 0 /\ k <= WordBits /\ k \in Nat
  BY WordBitsAssumption
<1>2. op = 0 \/ op = 1 \/ op = 2
  OBVIOUS
<1>3. CASE op = 0
  <2>1. ShiftImmediate(0, x, k, p) = {Shifted(p, ShiftLeft(x, k), BitAt(x, WordBits - k))}
    BY <1>1 DEF ShiftImmediate
  <2>. QED  BY <1>1, <1>3, <2>1, LeftIterated
<1>4. CASE op = 1
  <2>1. ShiftImmediate(1, x, k, p) = {Shifted(p, ShiftRight(x, k), BitAt(x, k - 1))}
    BY <1>1 DEF ShiftImmediate
  <2>. QED  BY <1>1, <1>4, <2>1, RightIterated
<1>5. CASE op = 2
  <2>1. ShiftImmediate(2, x, k, p) = {Shifted(p, ShiftRightSigned(x, k), BitAt(x, k - 1))}
    BY <1>1 DEF ShiftImmediate
  <2>. QED  BY <1>1, <1>5, <2>1, SignedIterated
<1>. QED  BY <1>2, <1>3, <1>4, <1>5

(* A handler that writes back a shift leaves the register and the flags as *)
(* ShiftsAs says.                                                          *)
LEMMA ShiftSet ==
  ASSUME TypeOK, NEW op, NEW x, NEW k,
         Set(Shifted(psr, Bits(op, x, k, psr.c).value, Bits(op, x, k, psr.c).out))
  PROVE  ShiftsAs(op, x, k)
<1> DEFINE b == Bits(op, x, k, psr.c)
<1>. HIDE DEF b
<1>1. Set(Shifted(psr, b.value, b.out))
  BY DEF b
<1>2. Shifted(psr, b.value, b.out)
        = [value |-> b.value,
           psr |-> [psr EXCEPT !.c = b.out, !.n = neg(b.value), !.z = (b.value = 0)]]
  BY DEF Shifted, WithNZC, WithNZ, TypeOK, Psr
<1>3. rd' = b.value
      /\ psr' = [psr EXCEPT !.c = b.out, !.n = neg(b.value), !.z = (b.value = 0)]
  BY <1>1, <1>2 DEF Set
<1>. QED  BY <1>3 DEF ShiftsAs, b

(* Every shift by k leaves the value, the carry, N and Z that k shifts by  *)
(* one bit leave, for words of every width.                                *)
THEOREM ShiftsAreIterated == Spec => ShiftsIterate
<1>1. TypeOK /\ [Next]_vars => [
        /\ \A op \in 0..2, k \in Offsets \ {0} :
             MoveShiftedRegister(op, k) => ShiftsAs(op, rs, k)
        /\ \A op \in 0..2 : AluOperation(op + 2) => ShiftsAs(op, rd, rs % 256)
        /\ AluOperation(7) => ShiftsAs(3, rd, rs % 256)
        ]_vars
  <2>. SUFFICES ASSUME TypeOK
                PROVE  /\ \A op \in 0..2, k \in Offsets \ {0} :
                            MoveShiftedRegister(op, k) => ShiftsAs(op, rs, k)
                       /\ \A op \in 0..2 :
                            AluOperation(op + 2) => ShiftsAs(op, rd, rs % 256)
                       /\ AluOperation(7) => ShiftsAs(3, rd, rs % 256)
    OBVIOUS
  <2>0. rd \in Word /\ rs \in Word /\ psr \in Psr /\ rs % 256 \in Nat
    BY WordSize DEF TypeOK, Word
  <2>1. ASSUME NEW op \in 0..2, NEW k \in Offsets \ {0}, MoveShiftedRegister(op, k)
        PROVE  ShiftsAs(op, rs, k)
    <3>1. k \in 1..WordBits-1
      BY OffsetsAssumption, WordBitsAssumption
    <3>2. PICK o \in ShiftImmediate(op, rs, k, psr) : Set(o)
      BY <2>1 DEF MoveShiftedRegister
    <3>3. o = Shifted(psr, Bits(op, rs, k, psr.c).value, Bits(op, rs, k, psr.c).out)
      BY <2>0, <3>1, ShiftsByImmediate
    <3>. QED  BY <3>2, <3>3, ShiftSet
  <2> DEFINE S(op) == Shifted(psr, Bits(op, rd, rs % 256, psr.c).value,
                                   Bits(op, rd, rs % 256, psr.c).out)
  <2>2. ASSUME NEW op \in 0..2, AluOperation(op + 2)
        PROVE  ShiftsAs(op, rd, rs % 256)
    <3>1. /\ AluOutcome(2, rd, rs, psr) = Lsl(rd, rs % 256, psr)
          /\ AluOutcome(3, rd, rs, psr) = Lsr(rd, rs % 256, psr)
          /\ AluOutcome(4, rd, rs, psr) = Asr(rd, rs % 256, psr)
      BY DEF AluOutcome
    <3>2. AluOutcome(op + 2, rd, rs, psr) = S(op)
      <4>1. op = 0 \/ op = 1 \/ op = 2
        OBVIOUS
      <4>. QED  BY <2>0, <3>1, <4>1, ShiftsByRegister
    <3>3. Set(S(op))
      BY <2>2, <3>2 DEF AluOperation
    <3>. QED  BY <3>3, ShiftSet
  <2>3. ASSUME AluOperation(7)
        PROVE  ShiftsAs(3, rd, rs % 256)
    <3>1. AluOutcome(7, rd, rs, psr) = Ror(rd, rs % 256, psr)
      BY DEF AluOutcome
    <3>2. AluOutcome(7, rd, rs, psr) = S(3)
      BY <2>0, <3>1, ShiftsByRegister
    <3>3. Set(S(3))
      BY <2>3, <3>2 DEF AluOperation
    <3>. QED  BY <3>3, ShiftSet
  <2>. QED  BY <2>1, <2>2, <2>3
<1>. QED  BY <1>1, TypeCorrect, PTL DEF Spec, ShiftsIterate
=============================================================================
