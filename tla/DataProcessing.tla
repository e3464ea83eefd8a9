--------------------------- MODULE DataProcessing ---------------------------
(***************************************************************************)
(* The data-processing handlers of cpu/cpu.cpp at work on one destination  *)
(* register rd, one source register rs and the flags, in any order, so     *)
(* that every instruction meets every pair of operands and every flag the  *)
(* instructions before it may have left.                                   *)
(***************************************************************************)
EXTENDS Alu

CONSTANT Offsets  \* the immediate shift offsets used

ASSUME OffsetsAssumption == Offsets \subseteq 0..WordBits-1

VARIABLES rd, rs, psr

vars == <<rd, rs, psr>>

Init ==
  /\ rd \in Word
  /\ rs \in Word
  /\ psr \in {p \in Psr : p.t}

Set(outcome) == rd' = outcome.value /\ psr' = outcome.psr /\ UNCHANGED rs

(* LSL, LSR and ASR Rd, Rs, #k.                                            *)
MoveShiftedRegister(op, k) == \E o \in ShiftImmediate(op, rs, k, psr) : Set(o)

(* ADD and SUB Rd, Rs, operand; and the same with Rs = Rd.                 *)
AddSubtractRegister(op, operand) == Set(AddSubtract(op, rs, operand, FALSE, psr))
AddSubtractInPlace(op, operand) == Set(AddSubtract(op, rd, operand, TRUE, psr))

(* MOV, CMP, ADD and SUB Rd, #imm.                                         *)
MoveCompareAddSubtractImmediate(op, imm) == Set(Immediate(op, rd, imm, psr))

(* The arms of alu_operations that its three bit mask lets through.        *)
AluOperation(op) == Set(AluOutcome(op, rd, rs, psr))

(* CMP of a high register.                                                 *)
CompareHigh == Set(Cmp(rd, rs, psr))

(* MOV Rs, Hs: any word may come to be in the source register.             *)
MoveToSource(x) == rs' = x /\ UNCHANGED <<rd, psr>>

Next ==
  \/ \E op \in 0..2, k \in Offsets : MoveShiftedRegister(op, k)
  \/ \E op \in 0..1, x \in Word : AddSubtractRegister(op, x)
  \/ \E op \in 0..1, x \in Word : AddSubtractInPlace(op, x)
  \/ \E op \in 0..3, x \in Word : MoveCompareAddSubtractImmediate(op, x)
  \/ \E op \in 0..7 : AluOperation(op)
  \/ CompareHigh
  \/ \E x \in Word : MoveToSource(x)

Spec == Init /\ [][Next]_vars

-----------------------------------------------------------------------------
(* The registers hold words and the flags are Booleans.                    *)
TypeOK == rd \in Word /\ rs \in Word /\ psr \in Psr

(* V is set exactly when the true signed result s does not fit a word.     *)
Overflows(s) == s < -SIGN \/ s >= SIGN

(* a + b + carry is the result with C as one bit more of it, and V tells   *)
(* signed overflow.                                                        *)
ExactSum(a, b, carry) ==
  /\ a + b + carry = rd' + WORD * One(psr'.c)
  /\ psr'.v = Overflows(Signed(a) + Signed(b) + carry)
  /\ psr'.z = (rd' = 0)
  /\ psr'.n = neg(rd')

(* The result of a - b - (1 - carry) is r, C is the absence of a borrow.   *)
ExactDifference(a, b, carry, r) ==
  /\ a - b - (1 - carry) = r - WORD * (1 - One(psr'.c))
  /\ psr'.v = Overflows(Signed(a) - Signed(b) - (1 - carry))
  /\ psr'.z = (r = 0)
  /\ psr'.n = neg(r)

(* The additions are exact, so that the carry one leaves makes the next    *)
(* ADC the upper half of a longer sum: ADD Rd, Rs, Rn with Rd other than   *)
(* Rs, ADD Rd, #imm, and ADC with the carry of whatever came before.       *)
SumsAreExact ==
  /\ \A x \in Word : AddSubtractRegister(0, x) => ExactSum(rs, x, 0)
  /\ \A x \in Word : MoveCompareAddSubtractImmediate(2, x) => ExactSum(rd, x, 0)
  /\ AluOperation(5) => ExactSum(rd, rs, One(psr.c))

AdditionExact == [][SumsAreExact]_vars

(* SBC is exact for the carry of whatever came before it.                  *)
SubtractionExact ==
  [][AluOperation(6) => ExactDifference(rd, rs, One(psr.c), rd')]_vars

(* The order a condition of conditional_branch stands for, of the operands *)
(* of the comparison before it.                                            *)
Ordered(cc, a, b) ==
  CASE cc = 0  -> a = b
    [] cc = 1  -> a # b
    [] cc = 2  -> a >= b
    [] cc = 3  -> a < b
    [] cc = 4  -> neg(Minus(a, b))
    [] cc = 5  -> pos(Minus(a, b))
    [] cc = 6  -> Overflows(Signed(a) - Signed(b))
    [] cc = 7  -> ~Overflows(Signed(a) - Signed(b))
    [] cc = 8  -> a > b
    [] cc = 9  -> a <= b
    [] cc = 10 -> Signed(a) >= Signed(b)
    [] cc = 11 -> Signed(a) < Signed(b)
    [] cc = 12 -> Signed(a) > Signed(b)
    [] cc = 13 -> Signed(a) <= Signed(b)

BranchesOnOrder(a, b) == \A cc \in 0..13 : Condition(cc, psr') = Ordered(cc, a, b)

(* After a CMP every conditional branch is taken exactly when its name     *)
(* says: the flags of sub_carry and sub_overflow and the fourteen tests of *)
(* conditional_branch agree with the order of the operands, unsigned and   *)
(* signed.                                                                 *)
ComparesOrder ==
  /\ CompareHigh => BranchesOnOrder(rd, rs)
  /\ \A x \in Word : MoveCompareAddSubtractImmediate(1, x) => BranchesOnOrder(rd, x)

CompareThenBranch == [][ComparesOrder]_vars

(* C, the "carry or borrow flag" (cpu/cpu.h), tells after a SUB what it    *)
(* tells after a CMP and what SBC takes it for: that there was no borrow.  *)
(* The code computes it with add_carry.                                    *)
SubtractThenBorrow == [][
  /\ \A x \in Word : AddSubtractRegister(1, x) => psr'.c = (rs >= x)
  /\ \A x \in Word : MoveCompareAddSubtractImmediate(3, x) => psr'.c = (rd >= x)
  ]_vars

(* One bit of shifting: LSL, LSR, ASR, and ROR as 3.                       *)
OneBit(op, x) ==
  CASE op = 0 -> [value |-> (2 * x) % WORD, out |-> neg(x)]
    [] op = 1 -> [value |-> x \div 2, out |-> x % 2 = 1]
    [] op = 2 -> [value |-> (x \div 2) + (IF neg(x) THEN SIGN ELSE 0), out |-> x % 2 = 1]
    [] op = 3 -> [value |-> (x \div 2) + SIGN * (x % 2), out |-> x % 2 = 1]

(* k of them, the last bit out of carry when there are none.               *)
Bits(op, x, k, carry) ==
  LET after[j \in 0..k] == IF j = 0 THEN [value |-> x, out |-> carry]
                                    ELSE OneBit(op, after[j-1].value)
  IN  after[k]

ShiftsAs(op, x, k) ==
  LET bits == Bits(op, x, k, psr.c)
  IN  /\ rd' = bits.value
      /\ psr' = [psr EXCEPT !.c = bits.out, !.n = neg(bits.value),
                            !.z = (bits.value = 0)]

(* A shift by k, of an immediate or of a register of any size, is k shifts *)
(* by one bit, C the last bit out: the special cases of the handlers at    *)
(* the width of the word and beyond it leave no seam.  The immediate shift *)
(* by zero is left out, its carry being undefined.                         *)
ShiftsIterate == [][
  /\ \A op \in 0..2, k \in Offsets \ {0} :
       MoveShiftedRegister(op, k) => ShiftsAs(op, rs, k)
  /\ \A op \in 0..2 : AluOperation(op + 2) => ShiftsAs(op, rd, rs % 256)
  /\ AluOperation(7) => ShiftsAs(3, rd, rs % 256)
  ]_vars
=============================================================================
