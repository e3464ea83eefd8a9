--------------------------- MODULE HandlerProofs ---------------------------
(***************************************************************************)
(* What the handlers of execute_op have in common, whatever the            *)
(* instruction: HandlersKept.  A handler leaves the machine typed and is   *)
(* quiet (the PC, next_pc and the prefetch buffer stay), lands (all three  *)
(* move to one target, an even one) or throws.                             *)
(***************************************************************************)
EXTENDS CpuProperties, MemoryProofs

(* The part of the state the handlers work on has its types.               *)
Machine ==
  /\ registers \in Registers
  /\ psr \in Psr
  /\ next_pc \in Word
  /\ cpu_prefetch \in Prefetches
  /\ IsMemory(memory)

IsEven(x) == x % 2 = 0

(* The three ways a handler may end.                                       *)
Quiet ==
  /\ UNCHANGED <<next_pc, cpu_prefetch>>
  /\ registers'[PC] = registers[PC]
  /\ Return

Refilled(target) ==
  /\ next_pc' = target
  /\ cpu_prefetch' = Prefetched(memory, target)
  /\ UNCHANGED memory

Landed ==
  \E target \in Word :
    /\ Refilled(target)
    /\ registers'[PC] = Plus(target, 2)
    /\ IsEven(registers[PC]) => IsEven(registers'[PC])
    /\ Return

Threw ==
  /\ UNCHANGED <<next_pc, cpu_prefetch, memory>> \/ \E target \in Word : Refilled(target)
  /\ IsEven(registers'[PC])
  /\ Throw

Kept == Machine' /\ (Quiet \/ Landed \/ Threw)

-----------------------------------------------------------------------------
(* The fields of an instruction.                                           *)
LEMMA Fields ==
  ASSUME NEW i \in Nat
  PROVE  /\ Reg0(i) \in 0..7 /\ Reg3(i) \in 0..7 /\ Reg6(i) \in 0..7
         /\ Reg8(i) \in 0..7 /\ RegX(i) \in 0..15
         /\ Imm5(i) \in 0..31 /\ Imm8(i) \in 0..255
         /\ Op11(i) \in 0..3 /\ Op10(i) \in 0..3 /\ Op9(i) \in 0..1
         /\ HiOp(i) \in 0..15 /\ AluOp(i) \in 0..7
         /\ ShiftOffset(i) \in 0..WordBits-1
<1>1. \A k \in Nat \ {0} : i \div k \in Nat
  OBVIOUS
<1>2. Imm5(i) \in 0..31
  BY <1>1 DEF Imm5
<1>3. ShiftOffset(i) \in 0..WordBits-1
  BY <1>2, WordBitsAssumption DEF ShiftOffset
<1>. QED
  BY <1>1, <1>2, <1>3 DEF Reg0, Reg3, Reg6, Reg8, RegX, Imm8, Op11, Op10, Op9, HiOp, AluOp

(* An immediate is a word.                                                 *)
LEMMA ImmediatesAreWords ==
  ASSUME NEW x \in 0..255
  PROVE  x \in Word
<1>1. x \in Byte
  BY DEF Byte, BYTE
<1>. QED  BY <1>1, Widths

(* The offset of a branch is an even integer.                              *)
LEMMA BranchOffsets ==
  ASSUME NEW i \in Nat
  PROVE  /\ Offset8(i) \in Int /\ IsEven(Offset8(i))
         /\ Offset11(i) \in Int /\ IsEven(Offset11(i))
<1>1. Imm8(i) \in Int /\ i % 1024 \in Int
  BY DEF Imm8
<1>2. \A j \in Int : 2 * j \in Int /\ (2 * j) % 2 = 0
  OBVIOUS
<1>3. Offset8(i) \in Int /\ IsEven(Offset8(i))
  BY <1>1, <1>2 DEF Offset8, IsEven
<1>4. Offset11(i) \in Int /\ IsEven(Offset11(i))
  BY <1>1, <1>2 DEF Offset11, IsEven
<1>. QED  BY <1>3, <1>4

-----------------------------------------------------------------------------
(* Address arithmetic stays in the word, and on even addresses when it     *)
(* starts on one.                                                          *)
LEMMA Sums ==
  ASSUME NEW x \in Int, NEW y \in Int
  PROVE  Plus(x, y) \in Word /\ Minus(x, y) \in Word
BY Wraps DEF Plus, Minus

(* A sum of even numbers that wraps at the even WORD is even.              *)
LEMMA EvenSums ==
  ASSUME NEW x \in Int, NEW y \in Int, IsEven(x), IsEven(y)
  PROVE  IsEven(Plus(x, y))
<1> DEFINE s == x + y
           q == s \div WORD
           r == s % WORD
<1>1. s \in Int /\ s % 2 = 0
  BY DEF IsEven
<1>2. q \in Int /\ r \in Int /\ s = WORD * q + r
  <2>1. \A t \in Int, w \in Nat \ {0} :
          t \div w \in Int /\ t % w \in Int /\ t = w * (t \div w) + (t % w)
    OBVIOUS
  <2>. QED  BY <1>1, <2>1, WordSize
<1>3. WORD * q = 2 * (SIGN * q) /\ SIGN * q \in Int
  BY <1>2, WordSize
<1>4. r % 2 = 0
  <2> HIDE DEF s, q, r
  <2>1. r = s - 2 * (SIGN * q)
    BY <1>1, <1>2, <1>3
  <2> DEFINE k == SIGN * q
  <2>2. r = s - 2 * k /\ k \in Int
    BY <1>3, <2>1
  <2> HIDE DEF k
  <2>. QED  BY <1>1, <2>2
<1>. QED  BY <1>4 DEF Plus, IsEven

(* Clearing bit 0, or the two lowest bits, leaves an even word.            *)
LEMMA Masked ==
  ASSUME NEW x \in Word
  PROVE  /\ Even(x) \in Word /\ IsEven(Even(x)) /\ Even(x) + 1 \in Word
         /\ Aligned4(x) \in Word /\ IsEven(Aligned4(x))
         /\ x \in Int
BY WordSize DEF Even, Aligned4, Word, IsEven

(* prefetch() fills the buffer with half-words.                            *)
LEMMA PrefetchedTyped ==
  ASSUME NEW m, IsMemory(m), NEW a
  PROVE  Prefetched(m, a) \in Prefetches
BY ReadsTyped DEF Prefetched, Prefetches

-----------------------------------------------------------------------------
(* What a handler is built from, each kept.                                *)
LEMMA TypesOfState ==
  ASSUME TypeOK
  PROVE  /\ Machine
         /\ instr \in Nat
         /\ \A r \in 0..15 : registers[r] \in Word
         /\ PC \in 0..15 /\ SP \in 0..15 /\ LR \in 0..15
         /\ registers[PC] \in Word /\ registers[SP] \in Word
BY Sizes DEF TypeOK, Machine, Registers, Half, PC, SP, LR

(* A handler that changes nothing is quiet.                                *)
LEMMA KeepKept ==
  ASSUME TypeOK, Keep
  PROVE  Kept
<1>1. Machine' /\ Quiet
  BY DEF TypeOK, Keep, Machine, Quiet
<1>. QED  BY <1>1 DEF Kept

(* A handler that rewrites registers other than the PC is quiet.           *)
LEMMA SetRegistersKept ==
  ASSUME TypeOK, NEW regs \in Registers, regs[PC] = registers[PC],
         SetRegisters(regs)
  PROVE  Kept
<1>1. Machine' /\ Quiet
  BY DEF TypeOK, SetRegisters, Machine, Quiet
<1>. QED  BY <1>1 DEF Kept

(* A handler that sets one register other than the PC is quiet.            *)
LEMMA SetRegisterKept ==
  ASSUME TypeOK, NEW r \in 0..15, r # PC, NEW value \in Word, SetRegister(r, value)
  PROVE  Kept
<1> DEFINE regs == [registers EXCEPT ![r] = value]
<1>1. regs \in Registers /\ regs[PC] = registers[PC]
  BY TypesOfState DEF Registers, Machine
<1>2. SetRegisters(regs)
  BY DEF SetRegister
<1>. QED
  <2> HIDE DEF regs
  <2>. QED  BY <1>1, <1>2, SetRegistersKept

(* A handler that writes an outcome back to a register other than the PC   *)
(* is quiet.                                                               *)
LEMMA WriteBackKept ==
  ASSUME TypeOK, NEW rd \in 0..15, NEW o \in Outcome,
         rd # PC \/ o.value = registers[PC], WriteBack(rd, o)
  PROVE  Kept
<1> DEFINE regs == [registers EXCEPT ![rd] = o.value]
<1>1. o.value \in Word /\ o.psr \in Psr
  BY DEF Outcome
<1>2. regs \in Registers
  BY <1>1, TypesOfState DEF Registers, Machine
<1>3. regs[PC] = registers[PC]
  BY TypesOfState DEF Registers, Machine
<1>4. registers' = regs /\ psr' = o.psr /\ Return
      /\ UNCHANGED <<next_pc, cpu_prefetch, memory>>
  BY DEF WriteBack
<1>5. Machine' /\ Quiet
  <2> HIDE DEF regs
  <2>. QED  BY <1>1, <1>2, <1>3, <1>4 DEF TypeOK, Machine, Quiet
<1>. QED  BY <1>5 DEF Kept

(* A handler that stores, and may move a base register, is quiet.          *)
LEMMA SetMemoryKept ==
  ASSUME TypeOK, NEW m, IsMemory(m), NEW regs \in Registers,
         regs[PC] = registers[PC], SetMemory(m, regs)
  PROVE  Kept
<1>1. IsMemory(memory')
  BY DEF SetMemory
<1>2. Machine' /\ Quiet
  BY <1>1 DEF TypeOK, SetMemory, Machine, Quiet, IsMemory
<1>. QED  BY <1>2 DEF Kept

(* A jump to an even address lands.                                        *)
LEMMA LandLands ==
  ASSUME TypeOK, NEW regs \in Registers, NEW target \in Word, Land(regs, target)
  PROVE  /\ registers' \in Registers /\ registers'[PC] = Plus(target, 2)
         /\ next_pc' \in Word /\ cpu_prefetch' \in Prefetches /\ IsMemory(memory')
         /\ Refilled(target)
         /\ IsEven(target) => IsEven(registers'[PC])
<1>1. Plus(target, 2) \in Word /\ (IsEven(target) => IsEven(Plus(target, 2)))
  <2>1. target \in Int /\ 2 \in Int /\ IsEven(2)
    BY Masked DEF IsEven
  <2>. QED  BY <2>1, Sums, EvenSums
<1>2. registers' \in Registers /\ registers'[PC] = Plus(target, 2)
  BY <1>1, TypesOfState DEF Land, Registers
<1>3. IsMemory(memory) /\ memory' = memory
  BY DEF Land, TypeOK
<1>4. IsMemory(memory')
  BY <1>3
<1>5. Prefetched(memory, target) \in Prefetches
  BY <1>3, PrefetchedTyped
<1>. QED  BY <1>1, <1>2, <1>4, <1>5 DEF Land, Refilled

(* A jump lands, and keeps an even PC even when its target is even.        *)
LEMMA JumpKept ==
  ASSUME TypeOK, NEW regs \in Registers, NEW target \in Word,
         IsEven(registers[PC]) => IsEven(target), Jump(regs, target)
  PROVE  Kept
<1>1. Land(regs, target) /\ psr' = psr /\ Return
  BY DEF Jump
<1>2. Machine'
  BY <1>1, LandLands DEF Machine, TypeOK
<1>3. Landed
  BY <1>1, LandLands DEF Landed
<1>. QED  BY <1>2, <1>3 DEF Kept

-----------------------------------------------------------------------------
(* Data processing writes back an outcome to a low register.               *)
LEMMA LowRegisters ==
  \A r \in 0..7 : r \in 0..15 /\ r # PC /\ r # SP
BY DEF PC, SP

(* The four data-processing handlers are quiet: their destination is a     *)
(* low register.                                                           *)
LEMMA DataProcessingKept ==
  ASSUME TypeOK,
         MoveShiftedRegister \/ AddSubtractHandler
           \/ MoveCompareAddSubtractImmediate \/ AluOperations
  PROVE  Kept
<1>1. psr \in Psr
  BY DEF TypeOK
<1>2. ASSUME MoveShiftedRegister PROVE Kept
  <2>1. CASE Op11(instr) = 3
    BY <1>2, <2>1, KeepKept DEF MoveShiftedRegister
  <2>2. CASE Op11(instr) # 3
    <3>1. PICK o \in ShiftImmediate(Op11(instr), registers[Reg3(instr)],
                                    ShiftOffset(instr), psr) :
                 WriteBack(Reg0(instr), o)
      BY <1>2, <2>2 DEF MoveShiftedRegister
    <3>2. Op11(instr) \in 0..2
      BY <2>2, TypesOfState, Fields
    <3>3. registers[Reg3(instr)] \in Word /\ ShiftOffset(instr) \in 0..WordBits-1
      BY TypesOfState, Fields, LowRegisters
    <3>4. o \in Outcome
      BY <1>1, <3>1, <3>2, <3>3, ShiftImmediateTyped
    <3>. QED  BY <3>1, <3>4, TypesOfState, Fields, LowRegisters, WriteBackKept
  <2>. QED  BY <2>1, <2>2
<1>3. ASSUME AddSubtractHandler PROVE Kept
  <2> DEFINE operand == IF Flag(instr, 10) THEN Reg6(instr) ELSE registers[Reg6(instr)]
             o == AddSubtract(Op9(instr), registers[Reg3(instr)], operand,
                              Reg0(instr) = Reg3(instr), psr)
  <2>1. Reg6(instr) \in Word /\ registers[Reg6(instr)] \in Word
    <3>1. Reg6(instr) \in 0..7 /\ Reg6(instr) \in 0..255
      BY TypesOfState, Fields
    <3>. QED  BY <3>1, ImmediatesAreWords, LowRegisters, TypesOfState
  <2>2. operand \in Word
    BY <2>1
  <2>3. registers[Reg3(instr)] \in Word /\ Op9(instr) \in 0..1
    BY TypesOfState, Fields, LowRegisters
  <2>4. o \in Outcome
    <3> HIDE DEF operand
    <3>. QED  BY <1>1, <2>2, <2>3, AddSubtractTyped
  <2>5. WriteBack(Reg0(instr), o)
    BY <1>3 DEF AddSubtractHandler
  <2>. QED
    <3> HIDE DEF o
    <3>. QED  BY <2>4, <2>5, TypesOfState, Fields, LowRegisters, WriteBackKept
<1>4. ASSUME MoveCompareAddSubtractImmediate PROVE Kept
  <2> DEFINE o == Immediate(Op11(instr), registers[Reg8(instr)], Imm8(instr), psr)
  <2>1. Imm8(instr) \in Word /\ registers[Reg8(instr)] \in Word /\ Op11(instr) \in 0..3
    <3>1. Reg8(instr) \in 0..7 /\ Imm8(instr) \in 0..255 /\ Op11(instr) \in 0..3
      BY TypesOfState, Fields
    <3>. QED  BY <3>1, TypesOfState, LowRegisters, ImmediatesAreWords
  <2>2. o \in Outcome
    BY <1>1, <2>1, ImmediateTyped
  <2>3. WriteBack(Reg8(instr), o)
    BY <1>4 DEF MoveCompareAddSubtractImmediate
  <2>. QED
    <3> HIDE DEF o
    <3>. QED  BY <2>2, <2>3, TypesOfState, Fields, LowRegisters, WriteBackKept
<1>5. ASSUME AluOperations PROVE Kept
  <2> DEFINE o == AluOutcome(AluOp(instr), registers[Reg0(instr)],
                             registers[Reg3(instr)], psr)
  <2>1. /\ registers[Reg0(instr)] \in Word /\ registers[Reg3(instr)] \in Word
        /\ AluOp(instr) \in 0..7
    BY TypesOfState, Fields, LowRegisters
  <2>2. o \in Outcome
    BY <1>1, <2>1, AluTyped
  <2>3. WriteBack(Reg0(instr), o)
    BY <1>5 DEF AluOperations
  <2>. QED
    <3> HIDE DEF o
    <3>. QED  BY <2>2, <2>3, TypesOfState, Fields, LowRegisters, WriteBackKept
<1>. QED  BY <1>2, <1>3, <1>4, <1>5

(* A result for the PC is jumped to with bit 0 clear.                      *)
LEMMA WriteHighKept ==
  ASSUME TypeOK, NEW rd \in 0..15, NEW value \in Word, WriteHigh(rd, value)
  PROVE  Kept
<1>1. CASE rd = PC
  <2>1. Jump(registers, Even(value))
    BY <1>1 DEF WriteHigh
  <2>2. registers \in Registers
    BY DEF TypeOK
  <2>. QED  BY <2>1, <2>2, Masked, JumpKept
<1>2. CASE rd # PC
  BY <1>2, SetRegisterKept DEF WriteHigh
<1>. QED  BY <1>1, <1>2

(* What the BLX arm makes of the registers.                                *)
LEMMA LinkedTyped ==
  ASSUME NEW regs \in Registers, NEW base \in 0..15
  PROVE  /\ Linked(regs, base) \in Registers
         /\ Linked(regs, base)[PC] \in Word
         /\ ~IsThumb(Linked(regs, base)) => IsEven(Linked(regs, base)[PC])
<1>1. Linked(regs, base) \in Registers
  BY DEF Linked, Registers, LR, PC
<1> DEFINE x == Linked(regs, base)[PC]
<1>2. x \in Word
  BY <1>1 DEF Registers, PC
<1>3. x \in Int
  BY <1>2, Masked
<1>4. x % 2 # 1 => x % 2 = 0
  <2> HIDE DEF x
  <2>. QED  BY <1>3
<1>. QED  BY <1>1, <1>2, <1>4 DEF IsThumb, IsEven

(* BLX lands on an even address or throws.                                 *)
LEMMA BranchLinkExchangeKept ==
  ASSUME TypeOK, NEW base \in 0..15, BranchLinkExchange(base)
  PROVE  Kept
<1> DEFINE regs == Linked(registers, base)
<1>1. registers \in Registers /\ psr \in Psr
  BY DEF TypeOK
<1>2. /\ regs \in Registers /\ regs[PC] \in Word
      /\ ~IsThumb(regs) => IsEven(regs[PC])
  BY <1>1, LinkedTyped
<1>3. CASE IsThumb(regs)
  <2>1. /\ Land(regs, Even(regs[PC])) /\ Return
        /\ psr' = [psr EXCEPT !.t = TRUE]
    BY <1>3 DEF BranchLinkExchange
  <2>2. psr' \in Psr
    BY <1>1, <2>1 DEF Psr
  <2> HIDE DEF regs
  <2>3. Even(regs[PC]) \in Word /\ IsEven(Even(regs[PC]))
    BY <1>2, Masked
  <2>4. Machine' /\ Landed
    BY <1>2, <2>1, <2>2, <2>3, LandLands DEF Machine, Landed
  <2>. QED  BY <2>4 DEF Kept
<1>4. CASE ~IsThumb(regs)
  <2>1. /\ registers' = regs /\ Throw
        /\ UNCHANGED <<psr, next_pc, cpu_prefetch, memory>>
    BY <1>4 DEF BranchLinkExchange
  <2> HIDE DEF regs
  <2>2. Machine' /\ Threw
    BY <1>2, <1>4, <2>1 DEF TypeOK, Machine, Threw, IsMemory
  <2>. QED  BY <2>2 DEF Kept
<1>. QED  BY <1>3, <1>4

(* BX, with the BLX arm it falls into, lands on an even address or throws. *)
LEMMA BranchExchangeKept ==
  ASSUME TypeOK, NEW base \in 0..15, BranchExchange(base)
  PROVE  Kept
<1> DEFINE moved  == [registers EXCEPT ![PC] = registers[base]]
           target == Even(moved[PC])
           ahead  == [moved EXCEPT ![PC] = Plus(target, 2)]
           regs   == Linked(ahead, base)
<1>1. registers \in Registers /\ psr \in Psr
  BY DEF TypeOK
<1>2. moved \in Registers /\ moved[PC] \in Word
  BY <1>1, TypesOfState DEF Registers
<1>3. moved[PC] \in Int /\ (moved[PC] % 2 # 1 => IsEven(moved[PC]))
  <2> DEFINE x == moved[PC]
  <2>1. x \in Int
    BY <1>2, Masked
  <2>2. x % 2 # 1 => x % 2 = 0
    <3> HIDE DEF x
    <3>. QED  BY <2>1
  <2>. QED  BY <2>1, <2>2 DEF IsEven
<1>4. target \in Word /\ IsEven(target) /\ target \in Int
  <2> HIDE DEF moved
  <2>. QED  BY <1>2, Masked
<1>5. ahead \in Registers
  <2> HIDE DEF moved, target
  <2>1. target \in Int /\ 2 \in Int
    BY <1>4
  <2>2. Plus(target, 2) \in Word
    BY <2>1, Sums
  <2>. QED  BY <1>2, <2>2 DEF Registers
<1>6. /\ regs \in Registers /\ regs[PC] \in Word
      /\ ~IsThumb(regs) => IsEven(regs[PC])
  <2> HIDE DEF ahead
  <2>. QED  BY <1>5, LinkedTyped
<1>7. CASE ~IsThumb(moved)
  <2>1. /\ registers' = moved /\ Throw
        /\ UNCHANGED <<psr, next_pc, cpu_prefetch, memory>>
    BY <1>7 DEF BranchExchange
  <2> HIDE DEF moved
  <2>2. Machine' /\ Threw
    BY <1>2, <1>3, <1>7, <2>1 DEF TypeOK, Machine, Threw, IsMemory, IsThumb
  <2>. QED  BY <2>2 DEF Kept
<1>8. CASE IsThumb(moved) /\ IsThumb(regs)
  <2>1. /\ Land(regs, Even(regs[PC])) /\ Return
        /\ psr' = [psr EXCEPT !.t = TRUE]
    BY <1>8 DEF BranchExchange
  <2>2. psr' \in Psr
    BY <1>1, <2>1 DEF Psr
  <2> HIDE DEF regs
  <2>3. Even(regs[PC]) \in Word /\ IsEven(Even(regs[PC]))
    BY <1>6, Masked
  <2>4. Machine' /\ Landed
    BY <1>6, <2>1, <2>2, <2>3, LandLands DEF Machine, Landed
  <2>. QED  BY <2>4 DEF Kept
<1>9. CASE IsThumb(moved) /\ ~IsThumb(regs)
  <2>1. /\ registers' = regs
        /\ next_pc' = target
        /\ cpu_prefetch' = Prefetched(memory, target)
        /\ UNCHANGED memory
        /\ Throw
        /\ psr' = [psr EXCEPT !.t = TRUE]
    BY <1>9 DEF BranchExchange
  <2>2. psr' \in Psr
    BY <1>1, <2>1 DEF Psr
  <2>3. IsMemory(memory) /\ IsMemory(memory')
    BY <2>1 DEF TypeOK
  <2> HIDE DEF regs, target
  <2>4. Machine' /\ Threw
    BY <1>4, <1>6, <1>9, <2>1, <2>2, <2>3, PrefetchedTyped
       DEF Machine, Threw, Refilled
  <2>. QED  BY <2>4 DEF Kept
<1>. QED  BY <1>7, <1>8, <1>9

(* Every arm of hi_register_operations_branch_exchange is quiet, lands or  *)
(* throws.                                                                 *)
LEMMA HiRegisterKept ==
  ASSUME TypeOK, HiRegisterOperationsBranchExchange
  PROVE  Kept
<1> DEFINE op == HiOp(instr)
           rd == Reg0(instr) + (IF Flag(instr, 7) THEN 8 ELSE 0)
           rs == RegX(instr)
<1>1. rd \in 0..15 /\ rs \in 0..15
  BY TypesOfState, Fields
<1>2. registers[rd] \in Word /\ registers[rs] \in Word
  BY <1>1, TypesOfState
<1>3. registers[rd] \in Int /\ registers[rs] \in Int
  BY <1>2, Masked
<1>4. ASSUME Keep PROVE Kept
  BY <1>4, KeepKept
<1>5. ASSUME WriteHigh(rd, Plus(registers[rd], registers[rs])) PROVE Kept
  <2> HIDE DEF rd, rs
  <2>. QED  BY <1>1, <1>3, <1>5, Sums, WriteHighKept
<1>6. ASSUME WriteBack(rd, Cmp(registers[rd], registers[rs], psr)) PROVE Kept
  <2> HIDE DEF rd, rs
  <2> DEFINE o == Cmp(registers[rd], registers[rs], psr)
             s == Subtracted(psr, registers[rd], registers[rs],
                             Minus(registers[rd], registers[rs]))
  <2>1. s \in Outcome
    BY <1>3, Sums, OutcomesTyped DEF TypeOK
  <2>2. o \in Outcome /\ o.value = registers[rd]
    <3>1. o = [s EXCEPT !.value = registers[rd]]
      BY DEF Cmp, Compare
    <3> HIDE DEF o, s
    <3>. QED  BY <1>2, <2>1, <3>1 DEF Outcome
  <2>3. rd # PC \/ o.value = registers[PC]
    BY <2>2
  <2>4. WriteBack(rd, o)
    BY <1>6
  <2> HIDE DEF o
  <2>. QED  BY <1>1, <2>2, <2>3, <2>4, WriteBackKept
<1>7. ASSUME WriteHigh(rd, registers[rs]) PROVE Kept
  <2> HIDE DEF rd, rs
  <2>. QED  BY <1>1, <1>2, <1>7, WriteHighKept
<1>8. ASSUME BranchExchange(rs) PROVE Kept
  BY <1>1, <1>8, BranchExchangeKept
<1>9. ASSUME BranchLinkExchange(rs) PROVE Kept
  BY <1>1, <1>9, BranchLinkExchangeKept
<1>. QED
  BY <1>4, <1>5, <1>6, <1>7, <1>8, <1>9, Zenon DEF HiRegisterOperationsBranchExchange

-----------------------------------------------------------------------------
(* Loads put a word into a low register or SP, stores leave the registers. *)
LEMMA LoadStoreKept ==
  ASSUME TypeOK,
         PcRelativeLoad \/ LoadStoreWithRegisterOffset
           \/ LoadStoreSignExtendedByteHalfword \/ LoadStoreWithImmediateOffset
           \/ LoadStoreHalfwordImmediateOffset \/ SpRelativeLoadStore
           \/ LoadAddress \/ AddOffsetToStackPointer
  PROVE  Kept
<1> DEFINE low == {Reg0(instr), Reg3(instr), Reg6(instr), Reg8(instr)}
<1>1. registers \in Registers /\ IsMemory(memory)
  BY DEF TypeOK
<1>2. \A r \in low : r \in 0..15 /\ r # PC /\ registers[r] \in Word /\ registers[r] \in Int
                     /\ registers[r] \in Nat
  <2>1. \A r \in low : r \in 0..7
    BY TypesOfState, Fields
  <2>2. \A x \in Word : x \in Int /\ x \in Nat
    BY WordSize DEF Word
  <2> HIDE DEF low
  <2>. QED  BY <2>1, <2>2, LowRegisters, TypesOfState
<1>3. RegisterOffset \in Int
  <2>1. RegisterOffset \in Word
    BY <1>2, Sums DEF RegisterOffset
  <2>. QED  BY <2>1, Masked
<1>4. \A A : /\ Read32(memory, A) \in Word
             /\ Read16(memory, A) \in Word
             /\ Read8(memory, A) \in Word
             /\ SignExtend8(Read8(memory, A)) \in Word
             /\ SignExtend16(Read16(memory, A)) \in Word
  BY <1>1, ReadsTyped, Widths, SignExtended
<1>5. ASSUME NEW r \in low, NEW value \in Word, SetRegister(r, value) PROVE Kept
  BY <1>2, <1>5, SetRegisterKept
<1>6. ASSUME NEW A \in Int, NEW v \in Nat,
             \/ SetMemory(Write32(memory, A, v), registers)
             \/ SetMemory(Write16(memory, A, v), registers)
             \/ SetMemory(Write8(memory, A, v), registers)
      PROVE  Kept
  BY <1>1, <1>6, WritesTyped, SetMemoryKept
<1>7. Reg0(instr) \in low /\ Reg3(instr) \in low /\ Reg8(instr) \in low
  OBVIOUS
<1> HIDE DEF low
<1>8. ASSUME PcRelativeLoad PROVE Kept
  BY <1>4, <1>5, <1>7, <1>8 DEF PcRelativeLoad
<1>9. ASSUME LoadStoreWithRegisterOffset PROVE Kept
  BY <1>2, <1>3, <1>4, <1>5, <1>6, <1>7, <1>9 DEF LoadStoreWithRegisterOffset
<1>10. ASSUME LoadStoreSignExtendedByteHalfword PROVE Kept
  BY <1>2, <1>3, <1>4, <1>5, <1>6, <1>7, <1>10 DEF LoadStoreSignExtendedByteHalfword
<1>11. ASSUME LoadStoreWithImmediateOffset PROVE Kept
  BY <1>2, <1>3, <1>4, <1>5, <1>6, <1>7, <1>11 DEF LoadStoreWithImmediateOffset
<1>12. ASSUME LoadStoreHalfwordImmediateOffset PROVE Kept
  BY <1>2, <1>3, <1>4, <1>5, <1>6, <1>7, <1>12 DEF LoadStoreHalfwordImmediateOffset
<1>13. ASSUME SpRelativeLoadStore PROVE Kept
  <2> DEFINE A == Plus(registers[Reg3(instr)], 4 * Imm5(instr))
  <2>1. 4 * Imm5(instr) \in Int
    <3>1. Imm5(instr) \in 0..31
      BY TypesOfState, Fields
    <3>. QED  BY <3>1
  <2>2. A \in Word
    BY <1>2, <1>7, <2>1, Sums
  <2>3. A \in Int
    BY <2>2, Masked
  <2>4. \/ SetMemory(Write32(memory, A, registers[Reg0(instr)]), registers)
        \/ SetRegister(Reg0(instr), Read32(memory, A))
    BY <1>13 DEF SpRelativeLoadStore
  <2> HIDE DEF A
  <2>. QED  BY <1>2, <1>4, <1>5, <1>6, <1>7, <2>3, <2>4
<1>14. ASSUME LoadAddress PROVE Kept
  <2> DEFINE base == IF Flag(instr, 11) THEN Aligned4(registers[PC]) ELSE registers[SP]
  <2>1. base \in Word
    BY TypesOfState, Masked
  <2>2. base \in Int /\ 4 * Imm8(instr) \in Int
    <3>1. Imm8(instr) \in 0..255
      BY TypesOfState, Fields
    <3> HIDE DEF base
    <3>. QED  BY <2>1, <3>1, Masked
  <2>3. Plus(base, 4 * Imm8(instr)) \in Word
    <3> HIDE DEF base
    <3>. QED  BY <2>2, Sums
  <2>4. SetRegister(Reg8(instr), Plus(base, 4 * Imm8(instr)))
    BY <1>14 DEF LoadAddress
  <2> HIDE DEF base
  <2>. QED  BY <1>5, <1>7, <2>3, <2>4
<1>15. ASSUME AddOffsetToStackPointer PROVE Kept
  <2> DEFINE offset == 4 * (instr % 128)
             value  == IF Flag(instr, 7) THEN Plus(registers[SP], offset)
                                         ELSE Minus(registers[SP], offset)
  <2>1. offset \in Int /\ registers[SP] \in Int
    BY TypesOfState, Masked
  <2>2. value \in Word
    <3> HIDE DEF offset
    <3>. QED  BY <2>1, Sums
  <2>3. SetRegister(SP, value)
    BY <1>15 DEF AddOffsetToStackPointer
  <2>4. SP \in 0..15 /\ SP # PC
    BY DEF SP, PC
  <2> HIDE DEF value
  <2>. QED  BY <2>2, <2>3, <2>4, SetRegisterKept
<1>. QED  BY <1>8, <1>9, <1>10, <1>11, <1>12, <1>13, <1>14, <1>15

-----------------------------------------------------------------------------
(* Block transfers.  A load of a list that has not the PC leaves it alone. *)
LEMMA WithLoadedTyped ==
  ASSUME TypeOK, NEW A, NEW list \in SUBSET (0..15)
  PROVE  /\ WithLoaded(A, list) \in Registers
         /\ PC \notin list => WithLoaded(A, list)[PC] = registers[PC]
<1>1. \A r \in 0..15 : WithLoaded(A, list)[r]
                         = IF r \in list THEN Read32(memory, Slot(A, list, r))
                                         ELSE registers[r]
  BY DEF WithLoaded, ReadBlock
<1>2. \A B : Read32(memory, B) \in Word
  BY ReadsTyped DEF TypeOK
<1>3. \A r \in 0..15 : WithLoaded(A, list)[r] \in Word
  BY <1>1, <1>2, TypesOfState
<1>4. WithLoaded(A, list) = [r \in 0..15 |-> WithLoaded(A, list)[r]]
  BY DEF WithLoaded
<1>. QED  BY <1>1, <1>3, <1>4, TypesOfState DEF Registers

(* A base register moved up or down by a list of registers is a word.      *)
LEMMA StackMoves ==
  ASSUME TypeOK, NEW list \in SUBSET (0..15), NEW r \in 0..15
  PROVE  /\ Plus(registers[r], 4 * Cardinality(list)) \in Word
         /\ Minus(registers[r], 4 * Cardinality(list)) \in Word
         /\ Plus(Aligned4(registers[r]), 4 * Cardinality(list)) \in Word
<1>1. Cardinality(list) \in Nat
  BY ListSize
<1>2. 4 * Cardinality(list) \in Int
  BY <1>1
<1>3. registers[r] \in Int /\ Aligned4(registers[r]) \in Int
  BY TypesOfState, Masked
<1>. QED  BY <1>2, <1>3, Sums

(* A store of a list moves its base register.                              *)
LEMMA StoreBlockKept ==
  ASSUME TypeOK, NEW A \in Int, NEW list \in SUBSET (0..15), NEW base \in 0..15,
         base # PC, NEW value \in Word,
         SetMemory(WriteBlock(memory, A, list, registers),
                   [registers EXCEPT ![base] = value])
  PROVE  Kept
<1>1. IsMemory(WriteBlock(memory, A, list, registers))
  BY WriteBlockTyped DEF TypeOK, Registers
<1> DEFINE regs == [registers EXCEPT ![base] = value]
<1>2. regs \in Registers /\ regs[PC] = registers[PC]
  BY TypesOfState DEF Registers, Machine
<1> HIDE DEF regs
<1>3. SetMemory(WriteBlock(memory, A, list, registers), regs)
  BY DEF regs
<1>. QED  BY <1>1, <1>2, <1>3, SetMemoryKept

(* A pop of the PC jumps with bit 0 clear.                                 *)
LEMMA PopKept ==
  ASSUME TypeOK, NEW list \in SUBSET (0..15), Pop(list)
  PROVE  Kept
<1> DEFINE A      == Aligned4(registers[SP])
           sp     == Plus(registers[SP], 4 * Cardinality(list))
           all    == WithLoaded(A, list)
           loaded == [all EXCEPT ![SP] = sp]
<1>1. sp \in Word
  BY StackMoves, TypesOfState
<1>2. all \in Registers /\ (PC \notin list => all[PC] = registers[PC])
  BY WithLoadedTyped
<1>3. loaded \in Registers /\ loaded[PC] = all[PC] /\ loaded[PC] \in Word
  <2> HIDE DEF sp, all
  <2>. QED  BY <1>1, <1>2 DEF Registers, SP, PC
<1>4. IF PC \in list THEN Jump(loaded, Even(loaded[PC])) ELSE SetRegisters(loaded)
  BY DEF Pop
<1> HIDE DEF loaded, all
<1>5. CASE PC \in list
  BY <1>3, <1>4, <1>5, Masked, JumpKept
<1>6. CASE PC \notin list
  BY <1>2, <1>3, <1>4, <1>6, SetRegistersKept
<1>. QED  BY <1>5, <1>6

(* PUSH, POP, STMIA and LDMIA are quiet, but for a POP of the PC, which    *)
(* lands.                                                                  *)
LEMMA BlockTransferKept ==
  ASSUME TypeOK, PushPopRegisters \/ MultipleLoadStore
  PROVE  Kept
<1>1. Rlist(instr) \in SUBSET (0..15) /\ PC \notin Rlist(instr)
  BY DEF Rlist, PC
<1>2. ASSUME NEW list \in SUBSET (0..15), Push(list) PROVE Kept
  <2> DEFINE sp == Minus(registers[SP], 4 * Cardinality(list))
  <2>1. sp \in Word
    BY StackMoves, TypesOfState
  <2>2. SetMemory(WriteBlock(memory, Aligned4(sp), list, registers),
                  [registers EXCEPT ![SP] = sp])
    BY <1>2 DEF Push
  <2>3. SP \in 0..15 /\ SP # PC
    BY DEF SP, PC
  <2> HIDE DEF sp
  <2>4. Aligned4(sp) \in Int
    BY <2>1, Masked
  <2>. QED  BY <2>1, <2>2, <2>3, <2>4, StoreBlockKept
<1>3. ASSUME PushPopRegisters PROVE Kept
  <2> DEFINE extra(r) == IF Flag(instr, 8) THEN {r} ELSE {}
  <2>1. /\ Rlist(instr) \cup extra(PC) \in SUBSET (0..15)
        /\ Rlist(instr) \cup extra(LR) \in SUBSET (0..15)
    BY <1>1, TypesOfState
  <2>2. Pop(Rlist(instr) \cup extra(PC)) \/ Push(Rlist(instr) \cup extra(LR))
    BY <1>3 DEF PushPopRegisters
  <2> HIDE DEF extra
  <2>. QED  BY <1>2, <2>1, <2>2, PopKept
<1>4. ASSUME MultipleLoadStore PROVE Kept
  <2> DEFINE list == Rlist(instr)
             base == Reg8(instr)
             A    == Aligned4(registers[base])
             size == 4 * Cardinality(list)
             all  == WithLoaded(A, list)
             next == IF base \in list THEN all
                     ELSE [all EXCEPT ![base] = Plus(A, size)]
  <2>1. base \in 0..15 /\ base # PC /\ A \in Int
    <3>1. base \in 0..15 /\ base # PC
      BY TypesOfState, Fields, LowRegisters
    <3> HIDE DEF base
    <3>. QED  BY <3>1, TypesOfState, Masked
  <2>2. Plus(registers[base], size) \in Word /\ Plus(A, size) \in Word
    <3> HIDE DEF base
    <3>. QED  BY <1>1, <2>1, StackMoves
  <2>3. all \in Registers /\ all[PC] = registers[PC]
    BY <1>1, WithLoadedTyped
  <2>4. next \in Registers /\ next[PC] = registers[PC]
    <3> HIDE DEF base, all, A, size
    <3>. QED  BY <2>1, <2>2, <2>3, TypesOfState DEF Registers
  <2>5. \/ SetMemory(WriteBlock(memory, A, list, registers),
                     [registers EXCEPT ![base] = Plus(registers[base], size)])
        \/ SetRegisters(next)
    BY <1>4, Zenon DEF MultipleLoadStore
  <2> HIDE DEF base, A, size, next, list
  <2>6. list \in SUBSET (0..15)
    BY <1>1 DEF list
  <2>. QED  BY <2>1, <2>2, <2>4, <2>5, <2>6, StoreBlockKept, SetRegistersKept
<1>. QED  BY <1>3, <1>4

-----------------------------------------------------------------------------
(* A branch moves an even PC by an even offset.                            *)
LEMMA BranchKept ==
  ASSUME TypeOK, ConditionalBranch \/ UnconditionalBranch \/ LongBranchWithLink
  PROVE  Kept
<1>1. registers \in Registers /\ registers[PC] \in Int
  BY TypesOfState, Masked DEF Machine
<1>2. ASSUME NEW offset \in Int, IsEven(offset),
             Jump(registers, Plus(registers[PC], offset))
      PROVE  Kept
  <2>1. Plus(registers[PC], offset) \in Word
    BY <1>1, Sums
  <2>2. IsEven(registers[PC]) => IsEven(Plus(registers[PC], offset))
    BY <1>1, <1>2, EvenSums
  <2>. QED  BY <1>1, <1>2, <2>1, <2>2, JumpKept
<1>3. ASSUME ConditionalBranch PROVE Kept
  <2>1. Offset8(instr) \in Int /\ IsEven(Offset8(instr))
    BY TypesOfState, BranchOffsets
  <2>. QED  BY <1>2, <1>3, <2>1, KeepKept DEF ConditionalBranch
<1>4. ASSUME UnconditionalBranch PROVE Kept
  <2>1. Offset11(instr) \in Int /\ IsEven(Offset11(instr))
    BY TypesOfState, BranchOffsets
  <2>. QED  BY <1>2, <1>4, <2>1 DEF UnconditionalBranch
<1>5. ASSUME LongBranchWithLink PROVE Kept
  <2> DEFINE offset == 4096 * ((instr % 2048) - 2048)
             far    == Plus(registers[PC], offset)
             link   == Even(Minus(registers[PC], 2)) + 1
             regs   == [registers EXCEPT ![LR] = link]
  <2>1. offset \in Int
    BY TypesOfState
  <2>2. far \in Word
    <3> HIDE DEF offset
    <3>. QED  BY <1>1, <2>1, Sums
  <2>3. link \in Word
    <3>1. Minus(registers[PC], 2) \in Word
      BY <1>1, Sums
    <3>. QED  BY <3>1, Masked
  <2>4. regs \in Registers
    <3> HIDE DEF link
    <3>. QED  BY <1>1, <2>3 DEF Registers
  <2>5. Jump(regs, Even(far))
    BY <1>5 DEF LongBranchWithLink
  <2> HIDE DEF regs, far
  <2>. QED  BY <2>2, <2>4, <2>5, Masked, JumpKept
<1>. QED  BY <1>3, <1>4, <1>5

-----------------------------------------------------------------------------
(* Every arm of execute_op.                                                *)
LEMMA HandlersKept ==
  ASSUME TypeOK, ExecuteOp
  PROVE  Kept
<1>1. Keep => Kept
  BY KeepKept
<1>2. PushPopRegisters \/ MultipleLoadStore => Kept
  BY BlockTransferKept
<1>3. HiRegisterOperationsBranchExchange => Kept
  BY HiRegisterKept
<1>4. MoveShiftedRegister \/ AddSubtractHandler
        \/ MoveCompareAddSubtractImmediate \/ AluOperations => Kept
  BY DataProcessingKept
<1>5. PcRelativeLoad \/ LoadStoreWithRegisterOffset
        \/ LoadStoreSignExtendedByteHalfword \/ LoadStoreWithImmediateOffset
        \/ LoadStoreHalfwordImmediateOffset \/ SpRelativeLoadStore
        \/ LoadAddress \/ AddOffsetToStackPointer => Kept
  BY LoadStoreKept
<1>6. ConditionalBranch \/ UnconditionalBranch \/ LongBranchWithLink => Kept
  BY BranchKept
<1>. QED  BY <1>1, <1>2, <1>3, <1>4, <1>5, <1>6, Zenon DEF ExecuteOp

(* A handler takes the loop to its test or leaves it.                      *)
LEMMA ExecuteTyped ==
  ASSUME TypeOK, ExecuteOp
  PROVE  TypeOK'
<1>1. Machine' /\ (Return \/ Throw)
  BY HandlersKept DEF Kept, Quiet, Landed, Threw
<1>2. CASE Return
  BY <1>1, <1>2 DEF TypeOK, Machine, Return
<1>3. CASE Throw
  BY <1>1, <1>3 DEF TypeOK, Machine, Throw, history
<1>. QED  BY <1>1, <1>2, <1>3

-----------------------------------------------------------------------------
(* The decoder.                                                            *)

(* The powers of two within a half-word.                                   *)
LEMMA SmallPowers ==
  /\ Pow2[0] = 1 /\ Pow2[1] = 2 /\ Pow2[2] = 4 /\ Pow2[3] = 8
  /\ Pow2[4] = 16 /\ Pow2[5] = 32 /\ Pow2[6] = 64 /\ Pow2[7] = 128
  /\ Pow2[8] = 256 /\ Pow2[9] = 512 /\ Pow2[10] = 1024 /\ Pow2[11] = 2048
  /\ Pow2[12] = 4096 /\ Pow2[13] = 8192 /\ Pow2[14] = 16384 /\ Pow2[15] = 32768
<1>1. \A k \in 0..14 : Pow2[k+1] = 2 * Pow2[k]
  <2>1. 0..14 \subseteq 0..WordBits-1
    BY WidthAssumption, WordBitsAssumption
  <2>. QED  BY <2>1, Pow2Assumption
<1>2. Pow2[0] = 1
  BY Pow2Assumption
<1>. QED  BY <1>1, <1>2

(* The bits of a half-word the masks of the arms look at, as quotients.    *)
LEMMA HighBits ==
  ASSUME NEW i
  PROVE  /\ 15 \in BitsOf16(i) <=> (i \div 32768) % 2 = 1
         /\ 14 \in BitsOf16(i) <=> (i \div 16384) % 2 = 1
         /\ 13 \in BitsOf16(i) <=> (i \div 8192) % 2 = 1
         /\ 12 \in BitsOf16(i) <=> (i \div 4096) % 2 = 1
         /\ 11 \in BitsOf16(i) <=> (i \div 2048) % 2 = 1
         /\ 10 \in BitsOf16(i) <=> (i \div 1024) % 2 = 1
         /\ 9 \in BitsOf16(i) <=> (i \div 512) % 2 = 1
         /\ 8 \in BitsOf16(i) <=> (i \div 256) % 2 = 1
         /\ 7 \in BitsOf16(i) <=> (i \div 128) % 2 = 1
BY SmallPowers DEF BitsOf16, BitPositions16, BitAt

(* A half-word is decoded by the first arm that matches it.                *)
LEMMA FirstArm ==
  ASSUME NEW i, NEW k \in 1..26, Matches(BitsOf16(i), k),
         \A j \in 1..k-1 : ~Matches(BitsOf16(i), j)
  PROVE  Handler(i) = Arms[k].handler
<1> DEFINE hits == {j \in DOMAIN Arms : Matches(BitsOf16(i), j)}
<1>1. DOMAIN Arms = 1..26
  BY DEF Arms
<1>2. k \in hits /\ \A j \in hits : k <= j
  BY <1>1
<1>3. \A h \in hits : (\A j \in hits : h <= j) => h = k
  BY <1>1, <1>2
<1>4. First(hits) = k
  BY <1>2, <1>3 DEF First
<1>. QED  BY <1>2, <1>4 DEF Handler

(* MOV, CMP, ADD and SUB with an immediate: 001.                           *)
LEMMA DecodesImmediate ==
  ASSUME NEW i, 15 \notin BitsOf16(i), 14 \notin BitsOf16(i), 13 \in BitsOf16(i)
  PROVE  Handler(i) = "move_compare_add_subtract_immediate"
<1>1. \A j \in 1..23 :
        /\ {13, 14, 15} \subseteq Arms[j].mask
        /\ 15 \in Arms[j].value \/ 14 \in Arms[j].value \/ 13 \notin Arms[j].value
  BY HighBits DEF Arms, Arm
<1>2. Arms[24].mask = {13, 14, 15} /\ Arms[24].value = {13}
  BY SmallPowers DEF Arms, Arm, BitsOf16, BitPositions16, BitAt
<1>3. Arms[24].handler = "move_compare_add_subtract_immediate"
  BY DEF Arms, Arm
<1>4. Matches(BitsOf16(i), 24)
  BY <1>2 DEF Matches
<1>5. \A j \in 1..23 : ~Matches(BitsOf16(i), j)
  BY <1>1 DEF Matches
<1>6. Handler(i) = Arms[24].handler
  BY <1>4, <1>5, FirstArm
<1>. QED  BY <1>3, <1>6

(* ADD and SUB of registers: 00011.                                        *)
LEMMA DecodesAddSubtract ==
  ASSUME NEW i, 15 \notin BitsOf16(i), 14 \notin BitsOf16(i), 13 \notin BitsOf16(i),
         12 \in BitsOf16(i), 11 \in BitsOf16(i)
  PROVE  Handler(i) = "add_subtract"
<1>1. \A j \in 1..13 :
        /\ {14, 15} \subseteq Arms[j].mask
        /\ 15 \in Arms[j].value \/ 14 \in Arms[j].value
  BY HighBits DEF Arms, Arm
<1>2. Arms[14].mask = 11..15 /\ Arms[14].value = {11, 12}
  BY SmallPowers DEF Arms, Arm, BitsOf16, BitPositions16, BitAt
<1>3. Arms[14].handler = "add_subtract"
  BY DEF Arms, Arm
<1>4. Matches(BitsOf16(i), 14)
  BY <1>2 DEF Matches
<1>5. \A j \in 1..13 : ~Matches(BitsOf16(i), j)
  BY <1>1 DEF Matches
<1>6. Handler(i) = Arms[14].handler
  BY <1>4, <1>5, FirstArm
<1>. QED  BY <1>3, <1>6

(* The operations on high registers but for NOP: 010001.                   *)
LEMMA DecodesHigh ==
  ASSUME NEW i, 15 \notin BitsOf16(i), 14 \in BitsOf16(i), 13 \notin BitsOf16(i),
         12 \notin BitsOf16(i), 11 \notin BitsOf16(i), 10 \in BitsOf16(i),
         8 \in BitsOf16(i) \/ 7 \notin BitsOf16(i)
  PROVE  Handler(i) = "hi_register_operations_branch_exchange"
<1>1. /\ {7, 8} \subseteq Arms[1].mask /\ 7 \in Arms[1].value /\ 8 \notin Arms[1].value
      /\ \A j \in 2..8 \cup {11} : 15 \in Arms[j].mask /\ 15 \in Arms[j].value
      /\ \A j \in {9, 10} : 12 \in Arms[j].mask /\ 12 \in Arms[j].value
      /\ 10 \in Arms[12].mask /\ 10 \notin Arms[12].value
  <2>1. {7, 8} \subseteq Arms[1].mask /\ 7 \in Arms[1].value /\ 8 \notin Arms[1].value
    BY HighBits DEF Arms, Arm
  <2>2. \A j \in 2..8 \cup {11} : 15 \in Arms[j].mask /\ 15 \in Arms[j].value
    BY HighBits DEF Arms, Arm
  <2>3. \A j \in {9, 10} : 12 \in Arms[j].mask /\ 12 \in Arms[j].value
    BY HighBits DEF Arms, Arm
  <2>4. 10 \in Arms[12].mask /\ 10 \notin Arms[12].value
    BY HighBits DEF Arms, Arm
  <2>. QED  BY <2>1, <2>2, <2>3, <2>4
<1>2. Arms[13].mask = 10..15 /\ Arms[13].value = {10, 14}
  BY SmallPowers DEF Arms, Arm, BitsOf16, BitPositions16, BitAt
<1>3. Arms[13].handler = "hi_register_operations_branch_exchange"
  BY DEF Arms, Arm
<1>4. \A j \in 1..12 : j = 1 \/ j \in 2..8 \cup {11} \/ j \in {9, 10} \/ j = 12
  OBVIOUS
<1>5. \A j \in 1..12 : ~Matches(BitsOf16(i), j)
  BY <1>1, <1>4 DEF Matches
<1>6. Matches(BitsOf16(i), 13)
  BY <1>2 DEF Matches
<1>7. Handler(i) = Arms[13].handler
  BY <1>5, <1>6, FirstArm
<1>. QED  BY <1>3, <1>7

(* The conditional branches but for SVC and breakpoints: 1101.             *)
LEMMA DecodesConditional ==
  ASSUME NEW i, 15 \in BitsOf16(i), 14 \in BitsOf16(i), 13 \notin BitsOf16(i),
         12 \in BitsOf16(i), 11 \notin BitsOf16(i)
  PROVE  Handler(i) = "conditional_branch"
<1>1. /\ \A j \in 5..7 : 11 \in Arms[j].mask /\ 11 \in Arms[j].value
      /\ \A j \in (1..4) \cup (8..21) :
           /\ 12..15 \subseteq Arms[j].mask
           /\ \/ 15 \notin Arms[j].value \/ 14 \notin Arms[j].value
              \/ 13 \in Arms[j].value \/ 12 \notin Arms[j].value
  BY HighBits DEF Arms, Arm
<1>2. Arms[22].mask = 12..15 /\ Arms[22].value = {12, 14, 15}
  BY SmallPowers DEF Arms, Arm, BitsOf16, BitPositions16, BitAt
<1>3. Arms[22].handler = "conditional_branch"
  BY DEF Arms, Arm
<1>4. \A j \in 1..21 : j \in 5..7 \/ j \in (1..4) \cup (8..21)
  OBVIOUS
<1>5. \A j \in 1..21 : ~Matches(BitsOf16(i), j)
  BY <1>1, <1>4 DEF Matches
<1>6. Matches(BitsOf16(i), 22)
  BY <1>2 DEF Matches
<1>7. Handler(i) = Arms[22].handler
  BY <1>5, <1>6, FirstArm
<1>. QED  BY <1>3, <1>7

-----------------------------------------------------------------------------
(* An instruction that goes straight on.                                   *)
Leaves(regs, p) ==
  /\ registers' = regs /\ psr' = p
  /\ UNCHANGED <<next_pc, memory>>
  /\ Return

(* The data-processing handlers end so.                                    *)
LEMMA WriteBackLeaves ==
  ASSUME NEW r, NEW x, NEW p, WriteBack(r, [value |-> x, psr |-> p])
  PROVE  Leaves([registers EXCEPT ![r] = x], p)
BY DEF WriteBack, Leaves

(* MOV of an immediate that is not 0.                                      *)
LEMMA MovLeaves ==
  ASSUME NEW r, NEW imm \in Nat \ {0}, ExecuteOp,
         Handler(instr) = "move_compare_add_subtract_immediate",
         Op11(instr) = 0, Reg8(instr) = r, Imm8(instr) = imm
  PROVE  Leaves([registers EXCEPT ![r] = imm], [psr EXCEPT !.n = FALSE, !.z = FALSE])
<1>1. WriteBack(r, Immediate(0, registers[r], imm, psr))
  BY DEF ExecuteOp, Unimplemented, MoveCompareAddSubtractImmediate
<1>2. (imm = 0) = FALSE
  OBVIOUS
<1>3. Immediate(0, registers[r], imm, psr)
        = [value |-> imm, psr |-> [psr EXCEPT !.n = FALSE, !.z = (imm = 0)]]
  BY DEF Immediate
<1>4. Immediate(0, registers[r], imm, psr)
        = [value |-> imm, psr |-> [psr EXCEPT !.n = FALSE, !.z = FALSE]]
  BY <1>2, <1>3, Zenon
<1>. QED  BY <1>1, <1>4, WriteBackLeaves

(* ADD of an immediate.                                                    *)
LEMMA AddLeaves ==
  ASSUME NEW r, NEW imm, TypeOK, ExecuteOp,
         Handler(instr) = "move_compare_add_subtract_immediate",
         Op11(instr) = 2, Reg8(instr) = r, Imm8(instr) = imm
  PROVE  \E p \in Psr : /\ p.t = psr.t
                        /\ Leaves([registers EXCEPT ![r] = Plus(registers[r], imm)], p)
<1> DEFINE x == registers[r]
           s == Plus(x, imm)
           p == AddFlags(psr, x, imm, s)
<1>1. WriteBack(r, Immediate(2, x, imm, psr))
  BY DEF ExecuteOp, Unimplemented, MoveCompareAddSubtractImmediate
<1>2. Immediate(2, x, imm, psr) = [value |-> s, psr |-> p]
  BY DEF Immediate, Added
<1>3. Leaves([registers EXCEPT ![r] = s], p)
  BY <1>1, <1>2, WriteBackLeaves
<1>4. p \in Psr /\ p.t = psr.t
  <2>1. psr \in Psr
    BY DEF TypeOK
  <2>. HIDE DEF x, s
  <2>2. neg(s) \in BOOLEAN /\ (s = 0) \in BOOLEAN
        /\ add_carry(x, imm, s) \in BOOLEAN /\ add_overflow(x, imm, s) \in BOOLEAN
    BY DEF neg, pos, add_carry, add_overflow
  <2>3. WithNZ(psr, s) \in Psr /\ WithNZ(psr, s).t = psr.t
    BY <2>1, <2>2 DEF Psr, WithNZ
  <2>. QED  BY <2>2, <2>3 DEF Psr, AddFlags
<1>. QED  BY <1>3, <1>4

(* ADD and SUB with the destination for first operand.                     *)
LEMMA SumLeaves ==
  ASSUME NEW op \in 0..1, NEW a, NEW b, ExecuteOp, Handler(instr) = "add_subtract",
         ~Flag(instr, 10), Op9(instr) = op,
         Reg0(instr) = a, Reg3(instr) = a, Reg6(instr) = b
  PROVE  LET s == IF op = 0 THEN Plus(registers[a], registers[b])
                  ELSE Minus(registers[a], registers[b])
         IN  Leaves([registers EXCEPT ![a] = s], AddFlags(psr, s, registers[b], s))
<1> DEFINE x == IF Flag(instr, 10) THEN Reg6(instr) ELSE registers[Reg6(instr)]
           o == AddSubtract(Op9(instr), registers[Reg3(instr)], x,
                            Reg0(instr) = Reg3(instr), psr)
           s == IF op = 0 THEN Plus(registers[a], registers[b])
                ELSE Minus(registers[a], registers[b])
<1>1. WriteBack(Reg0(instr), o)
  BY DEF ExecuteOp, Unimplemented, AddSubtractHandler
<1>2. x = registers[b]
  OBVIOUS
<1>. HIDE DEF x
<1>3. o = [value |-> s, psr |-> AddFlags(psr, s, registers[b], s)]
  BY <1>2 DEF AddSubtract, Added
<1>. HIDE DEF o, s
<1>4. Leaves([registers EXCEPT ![a] = s], AddFlags(psr, s, registers[b], s))
  BY <1>1, <1>3, WriteBackLeaves
<1>. QED  BY <1>4 DEF s

(* MOV of a high register into a low one.                                  *)
LEMMA MovHighLeaves ==
  ASSUME NEW r \in 0..7, NEW s, ExecuteOp,
         Handler(instr) = "hi_register_operations_branch_exchange",
         HiOp(instr) = 9, ~Flag(instr, 7), Reg0(instr) = r, RegX(instr) = s
  PROVE  Leaves([registers EXCEPT ![r] = registers[s]], psr)
<1>1. HiRegisterOperationsBranchExchange
  BY DEF ExecuteOp, Unimplemented
<1>2. WriteHigh(r, registers[s])
  BY <1>1 DEF HiRegisterOperationsBranchExchange
<1>. QED  BY <1>2 DEF WriteHigh, PC, SetRegister, SetRegisters, Leaves

(* BEQ to the instruction after the next.                                  *)
LEMMA BeqLeaves ==
  ASSUME TypeOK, ExecuteOp, Handler(instr) = "conditional_branch",
         Cond(instr) = 0, Offset8(instr) = 0
  PROVE  /\ ~psr.z => Leaves(registers, psr)
         /\ psr.z => /\ registers' = [registers EXCEPT ![PC] = Plus(registers[PC], 2)]
                     /\ next_pc' = registers[PC]
                     /\ UNCHANGED <<psr, memory>> /\ Return
<1>1. ConditionalBranch
  BY DEF ExecuteOp, Unimplemented
<1> DEFINE c == Condition(Cond(instr), psr)
<1>2. c <=> psr.z
  BY DEF Condition
<1>3. (c => Jump(registers, Plus(registers[PC], Offset8(instr)))) /\ (~c => Keep)
  BY <1>1, Zenon DEF ConditionalBranch
<1>. HIDE DEF c
<1>4. Plus(registers[PC], Offset8(instr)) = registers[PC]
  BY TypesOfState, WordSize DEF Plus, Word
<1>5. psr.z => Jump(registers, registers[PC])
  BY <1>2, <1>3, <1>4, Zenon
<1>6. ~psr.z => Keep
  BY <1>2, <1>3, Zenon
<1>. QED  BY <1>5, <1>6 DEF Jump, Land, Keep, Leaves

(* BX to an odd address in a register that is not LR or the PC.            *)
LEMMA BxLeaves ==
  ASSUME NEW s \in 0..12, TypeOK, ExecuteOp,
         Handler(instr) = "hi_register_operations_branch_exchange",
         HiOp(instr) = 12, RegX(instr) = s, registers[s] % 2 = 1
  PROVE  /\ \A r \in 0..13 : registers'[r] = registers[r]
         /\ next_pc' = registers[s] - 1
         /\ psr' = [psr EXCEPT !.t = TRUE] /\ memory' = memory /\ Return
<1>1. HiRegisterOperationsBranchExchange
  BY DEF ExecuteOp, Unimplemented
<1>3. BranchExchange(s)
  BY <1>1 DEF HiRegisterOperationsBranchExchange
<1> DEFINE moved  == [registers EXCEPT ![PC] = registers[s]]
           target == Even(moved[PC])
           regs   == Linked([moved EXCEPT ![PC] = Plus(target, 2)], s)
<1>4. registers \in [0..15 -> Word] /\ PC = 15 /\ LR = 14
  BY DEF TypeOK, Registers, PC, LR
<1>5. moved[PC] = registers[s] /\ IsThumb(moved)
  BY <1>4 DEF IsThumb
<1>6. regs[PC] = registers[s] /\ IsThumb(regs)
  BY <1>4 DEF Linked, IsThumb
<1>7. Land(regs, Even(regs[PC])) /\ Return /\ psr' = [psr EXCEPT !.t = TRUE]
  BY <1>3, <1>5, <1>6 DEF BranchExchange
<1>8. \A r \in 0..13 : regs[r] = registers[r] /\ regs \in [0..15 -> Word] /\ r # PC
  <2>1. target \in Int /\ 2 \in Int
    BY <1>4, <1>5, Masked
  <2>2. Plus(target, 2) \in Word
    BY <2>1, Sums
  <2>. QED  BY <1>4, <2>2 DEF Linked
<1>9. Even(registers[s]) = registers[s] - 1
  BY DEF Even
<1>. HIDE DEF regs
<1>. QED  BY <1>6, <1>7, <1>8, <1>9 DEF Land
=============================================================================
