-------------------------------- MODULE Alu --------------------------------
(***************************************************************************)
(* What the data-processing handlers of cpu/cpu.cpp compute: from the      *)
(* operands and the program status register, the value written back and    *)
(* the new status register.  psr.t is carried along and never touched.     *)
(***************************************************************************)
EXTENDS Words

Psr == [n : BOOLEAN, z : BOOLEAN, c : BOOLEAN, v : BOOLEAN, t : BOOLEAN]

Outcome == [value : Word, psr : Psr]

(* Ways the handlers set the flags: N and Z from a result, C and V from    *)
(* the operands and the result of an addition or of a subtraction.         *)
WithNZ(p, x) == [p EXCEPT !.n = neg(x), !.z = (x = 0)]
WithNZC(p, x, c) == [WithNZ(p, x) EXCEPT !.c = c]

AddFlags(p, a, b, r) ==
  [WithNZ(p, r) EXCEPT !.c = add_carry(a, b, r), !.v = add_overflow(a, b, r)]

SubFlags(p, a, b, r) ==
  [WithNZ(p, r) EXCEPT !.c = sub_carry(a, b, r), !.v = sub_overflow(a, b, r)]

Logical(p, x) == [value |-> x, psr |-> WithNZ(p, x)]
Shifted(p, x, c) == [value |-> x, psr |-> WithNZC(p, x, c)]
Added(p, a, b, r) == [value |-> r, psr |-> AddFlags(p, a, b, r)]
Subtracted(p, a, b, r) == [value |-> r, psr |-> SubFlags(p, a, b, r)]

-----------------------------------------------------------------------------
(* LSL, LSR and ASR by a five bit immediate.  The carry is the last bit    *)
(* shifted out; with k = 0 the code shifts a 32 bit value by 32 (LSL) or   *)
(* by -1 (LSR, ASR), which is undefined, so the carry may be anything.     *)
ShiftImmediate(op, x, k, p) ==
  LET value   == CASE op = 0 -> ShiftLeft(x, k)
                   [] op = 1 -> ShiftRight(x, k)
                   [] op = 2 -> ShiftRightSigned(x, k)
      out     == IF op = 0 THEN WordBits - k ELSE k - 1
      carries == IF k = 0 THEN BOOLEAN ELSE {BitAt(x, out)}
  IN  {Shifted(p, value, c) : c \in carries}

(* MOV, CMP, ADD and SUB with an eight bit immediate.  SUB takes its carry *)
(* from add_carry, CMP from sub_carry.                                     *)
Immediate(op, a, imm, p) ==
  CASE op = 0 -> [value |-> imm, psr |-> [p EXCEPT !.n = FALSE, !.z = (imm = 0)]]
    [] op = 1 -> [value |-> a, psr |-> SubFlags(p, a, imm, Minus(a, imm))]
    [] op = 2 -> Added(p, a, imm, Plus(a, imm))
    [] op = 3 -> LET r == Minus(a, imm)
                 IN  [value |-> r,
                      psr   |-> [SubFlags(p, a, imm, r)
                                   EXCEPT !.c = add_carry(a, imm, r)]]

(* ADD and SUB of a register and a register or three bit immediate.  The   *)
(* flags are computed from the source register as it is after the result   *)
(* is written, which is the result itself when Rd and Rs are the same.     *)
AddSubtract(op, s, operand, same, p) ==
  LET r     == IF op = 0 THEN Plus(s, operand) ELSE Minus(s, operand)
      after == IF same THEN r ELSE s
  IN  Added(p, after, operand, r)

-----------------------------------------------------------------------------
(* Shifts of a by the low byte k of a register.                            *)
Lsl(a, k, p) ==
  CASE k = 0 -> Logical(p, a)
    [] k \in 1..WordBits-1 -> Shifted(p, ShiftLeft(a, k), BitAt(a, WordBits - k))
    [] k = WordBits -> Shifted(p, 0, BitAt(a, 0))
    [] k > WordBits -> Shifted(p, 0, FALSE)

(* A mutated Lsr: a shift by the width is taken for a longer one.          *)
LsrNoWidth(a, k, p) ==
  CASE k = 0 -> Logical(p, a)
    [] k \in 1..WordBits-1 -> Shifted(p, ShiftRight(a, k), BitAt(a, k - 1))
    [] k >= WordBits -> Shifted(p, 0, FALSE)

Lsr(a, k, p) ==
  CASE k = 0 -> Logical(p, a)
    [] k \in 1..WordBits-1 -> Shifted(p, ShiftRight(a, k), BitAt(a, k - 1))
    [] k = WordBits -> Shifted(p, 0, neg(a))
    [] k > WordBits -> Shifted(p, 0, FALSE)

Asr(a, k, p) ==
  CASE k = 0 -> Logical(p, a)
    [] k \in 1..WordBits-1 -> Shifted(p, ShiftRightSigned(a, k), BitAt(a, k - 1))
    [] k >= WordBits -> Shifted(p, IF neg(a) THEN WORD - 1 ELSE 0, neg(a))

Ror(a, k, p) ==
  LET j == k % WordBits
  IN  CASE k = 0 -> Logical(p, a)
        [] k > 0 /\ j = 0 -> Shifted(p, a, neg(a))
        [] k > 0 /\ j > 0 -> Shifted(p, RotateRight(a, j), BitAt(a, j - 1))

(* The carry as a number: (uint32_t) psr_register.c.                       *)
One(c) == IF c THEN 1 ELSE 0

(* A mutated Adc: the carry is left out.                                   *)
AdcNoCarry(a, b, p) == Added(p, a, b, (a + b) % WORD)
Adc(a, b, p) == Added(p, a, b, (a + b + One(p.c)) % WORD)
(* A mutated Sbc: C is taken for a borrow.                                 *)
SbcBorrow(a, b, p) == Subtracted(p, a, b, (a - b - One(p.c)) % WORD)
Sbc(a, b, p) == Subtracted(p, a, b, (a - b - One(~p.c)) % WORD)
Neg(b, p) == Subtracted(p, 0, b, Minus(0, b))

(* A comparison sets the flags and leaves the destination register alone.  *)
Compare(a, outcome) == [outcome EXCEPT !.value = a]

Cmp(a, b, p) == Compare(a, Subtracted(p, a, b, Minus(a, b)))
Cmn(a, b, p) == Compare(a, Added(p, a, b, Plus(a, b)))

(* The sixteen arms of the switch in alu_operations, with a the value of   *)
(* Rd and b that of Rs.                                                    *)
AluOutcome(op, a, b, p) ==
  CASE op = 0  -> Logical(p, And(a, b))
    [] op = 1  -> Logical(p, Xor(a, b))
    [] op = 2  -> Lsl(a, b % 256, p)
    [] op = 3  -> Lsr(a, b % 256, p)
    [] op = 4  -> Asr(a, b % 256, p)
    [] op = 5  -> Adc(a, b, p)
    [] op = 6  -> Sbc(a, b, p)
    [] op = 7  -> Ror(a, b % 256, p)
    [] op = 8  -> Ror(a, b % 256, p)
    [] op = 9  -> Compare(a, Logical(p, And(a, b)))
    [] op = 10 -> Neg(b, p)
    [] op = 11 -> Cmn(a, b, p)
    [] op = 12 -> Logical(p, Or(a, b))
    [] op = 13 -> Logical(p, Times(b, a))
    [] op = 14 -> Logical(p, And(a, Not(b)))
    [] op = 15 -> Logical(p, Not(b))

-----------------------------------------------------------------------------
(* The fourteen conditions of conditional_branch.                          *)
Condition(cc, p) ==
  CASE cc = 0  -> p.z
    [] cc = 1  -> ~p.z
    [] cc = 2  -> p.c
    [] cc = 3  -> ~p.c
    [] cc = 4  -> p.n
    [] cc = 5  -> ~p.n
    [] cc = 6  -> p.v
    [] cc = 7  -> ~p.v
    [] cc = 8  -> p.c /\ ~p.z
    [] cc = 9  -> ~p.c \/ p.z
    [] cc = 10 -> p.n = p.v
    [] cc = 11 -> p.n # p.v
    [] cc = 12 -> ~p.z /\ p.n = p.v
    [] cc = 13 -> p.z \/ p.n # p.v
=============================================================================
