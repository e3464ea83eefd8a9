----------------------------- MODULE StackProofs -----------------------------
(***************************************************************************)
(* PUSH and POP implement a stack of words, for every program that keeps   *)
(* to it and every use the host makes of the processor.  The argument has  *)
(* three parts: a PUSH pushes (PushPushes) and a POP pops (PopPops), both  *)
(* by what BlockReads says of memory, and no other handler moves the stack *)
(* pointer or stores without being named for it (OthersStill).             *)
(***************************************************************************)
EXTENDS StackUse, CpuProofs, Sequences

(* The words of a stack, from an aligned address up to Bottom.             *)
LEMMA WordsCount ==
  ASSUME NEW m, NEW A \in Int, A % 4 = 0, A <= Bottom
  PROVE  /\ (Bottom - A) \div 4 \in Nat /\ A + 4 * ((Bottom - A) \div 4) = Bottom
         /\ Len(WordsFrom(m, A)) = (Bottom - A) \div 4
         /\ \A i \in 1..((Bottom - A) \div 4) :
              WordsFrom(m, A)[i] = Read32(m, A + 4 * (i - 1))
<1> DEFINE n == (Bottom - A) \div 4
<1>1. Bottom \in Int /\ Bottom % 4 = 0
  BY StackAssumption, SramCells
<1>2. n \in Nat /\ A + 4 * n = Bottom
  BY <1>1
<1> HIDE DEF n
<1>3. WordsFrom(m, A) = [i \in 1..n |-> Read32(m, A + 4 * (i - 1))]
  BY DEF WordsFrom, n
<1> DEFINE s == [i \in 1..n |-> Read32(m, A + 4 * (i - 1))]
<1>4. Len(s) = n /\ \A i \in 1..n : s[i] = Read32(m, A + 4 * (i - 1))
  BY <1>2
<1>. QED  BY <1>2, <1>3, <1>4 DEF n

(* The top of the stack, and where a PUSH and a POP of n words move it.    *)
LEMMA Tops ==
  ASSUME NEW sp \in Word, NEW n \in Nat
  PROVE  LET A == Aligned4(sp)
         IN  /\ A \in Nat /\ A % 4 = 0
             /\ A + 4 * n <= Bottom => Aligned4(Plus(sp, 4 * n)) = A + 4 * n
             /\ SRAM_BEGIN <= A - 4 * n => Aligned4(Minus(sp, 4 * n)) = A - 4 * n
<1> DEFINE A == Aligned4(sp)
<1>1. sp \in Nat /\ sp < WORD /\ WORD \in Nat
  BY WordSize DEF Word
<1>2. A \in Nat /\ A % 4 = 0 /\ A <= sp /\ sp <= A + 3
  BY <1>1 DEF Aligned4
<1> HIDE DEF A
<1>3. ASSUME A + 4 * n <= Bottom PROVE Aligned4(Plus(sp, 4 * n)) = A + 4 * n
  <2>0. Bottom \in SRAM_BEGIN..SRAM_END+1
    BY StackAssumption
  <2>1. Bottom + 3 < WORD /\ Bottom \in Int
    BY <1>1, <2>0, SramCells
  <2>2. sp + 4 * n \in 0..WORD-1
    BY <1>1, <1>2, <1>3, <2>1
  <2>3. (sp + 4 * n) % WORD = sp + 4 * n
    BY <1>1, <2>2
  <2>4. (sp + 4 * n) - ((sp + 4 * n) % 4) = (sp - (sp % 4)) + 4 * n
    BY <1>1
  <2>. QED  BY <2>3, <2>4 DEF Plus, Aligned4, A
<1>4. ASSUME SRAM_BEGIN <= A - 4 * n PROVE Aligned4(Minus(sp, 4 * n)) = A - 4 * n
  <2>2. sp - 4 * n \in 0..WORD-1
    BY <1>1, <1>2, <1>4, SramCells
  <2>3. (sp - 4 * n) % WORD = sp - 4 * n
    BY <1>1, <2>2
  <2>4. (sp - 4 * n) - ((sp - 4 * n) % 4) = (sp - (sp % 4)) - 4 * n
    BY <1>1
  <2>. QED  BY <2>3, <2>4 DEF Minus, Aligned4, A
<1>. QED  BY <1>2, <1>3, <1>4 DEF A

(* The registers of a list.                                                *)
LEMMA NamedRegisters ==
  ASSUME NEW i
  PROVE  /\ Named(i) \in SUBSET Saved /\ Named(i) \in SUBSET (0..15)
         /\ SP \notin Saved /\ SP \in 0..15 /\ PC \in 0..15
         /\ Cardinality(Named(i)) \in Nat
         /\ Named(i) = Rlist(i) \cup (IF Flag(i, 8) THEN {IF IsPop(i) THEN PC ELSE LR} ELSE {})
         /\ ~IsPop(i) => PC \notin Named(i)
<1>1. Named(i) \in SUBSET Saved
  BY DEF Named, Rlist, Saved
<1>2. Saved \subseteq 0..15 /\ SP \notin Saved /\ SP \in 0..15 /\ PC \in 0..15
  BY DEF Saved, LR, PC, SP
<1>3. ~IsPop(i) => PC \notin Named(i)
  BY DEF Named, Rlist, PC, LR
<1>. QED  BY <1>1, <1>2, <1>3, ListSize DEF Named

(* The stack counts its registers as the processor does.                   *)
LEMMA SameCount ==
  ASSUME NEW S
  PROVE  Stack!Cardinality(S) = Cardinality(S)
BY DEF Stack!Cardinality, Cardinality

(* PUSH puts the registers of its list on the stack.                       *)
LEMMA PushPushes ==
  ASSUME TypeOK, Top <= Bottom, NEW list \in SUBSET Saved, PC \notin list,
         SRAM_BEGIN <= Top - 4 * Cardinality(list), Push(list)
  PROVE  Stack!Push(list) /\ Top' <= Bottom
<1> DEFINE n == Cardinality(list)
           A == Top - 4 * n
           rank(r) == Cardinality({q \in list : q < r})
           k == (Bottom - Top) \div 4
           l == (Bottom - A) \div 4
<1>1. /\ list \in SUBSET (0..15) /\ SP \notin Saved /\ PC \in 0..15 /\ SP \in 0..15
      /\ n \in Nat /\ SRAM_BEGIN <= A
  BY ListSize DEF Saved, LR, PC, SP
<1>2. registers \in [0..15 -> Word] /\ registers[SP] \in Word
  BY <1>1 DEF TypeOK, Registers
<1>3. Top \in Nat /\ Top % 4 = 0 /\ Aligned4(Minus(registers[SP], 4 * n)) = A
  BY <1>1, <1>2, Tops DEF Top
<1>4. /\ memory' = WriteBlock(memory, A, list, registers)
      /\ registers' = [registers EXCEPT ![SP] = Minus(registers[SP], 4 * n)]
      /\ next_pc' = next_pc
  BY <1>3 DEF Push, SetMemory
<1>5. Top' = A
  BY <1>1, <1>2, <1>3, <1>4 DEF Top
<1> HIDE DEF n
<1>6. A \in Nat /\ A % 4 = 0 /\ A <= Bottom /\ A + 4 * n = Top
  <2>1. Bottom \in Int
    BY StackAssumption, SramCells
  <2>2. A \in Nat /\ A <= Top /\ A + 4 * n = Top
    BY <1>1, <1>3, SramCells
  <2>3. A % 4 = 0
    BY <1>1, <1>3
  <2>. QED  BY <1>3, <2>1, <2>2, <2>3
<1>7. /\ k \in Nat /\ Top + 4 * k = Bottom
      /\ Len(WordsFrom(memory, Top)) = k
      /\ \A i \in 1..k : WordsFrom(memory, Top)[i] = Read32(memory, Top + 4 * (i - 1))
  <2>1. Top \in Int /\ Top % 4 = 0 /\ Top <= Bottom
    BY <1>3
  <2>. QED  BY <2>1, WordsCount
<1>8. /\ l \in Nat /\ A + 4 * l = Bottom
      /\ Len(WordsFrom(memory', A)) = l
      /\ \A i \in 1..l : WordsFrom(memory', A)[i] = Read32(memory', A + 4 * (i - 1))
  <2>1. A \in Int /\ A % 4 = 0 /\ A <= Bottom
    BY <1>6
  <2> HIDE DEF A
  <2>. QED  BY <2>1, WordsCount
<1> HIDE DEF k, l, A
<1>9. l = k + n
  BY <1>1, <1>3, <1>6, <1>7, <1>8
<1>10. /\ \A r \in list : Read32(memory', A + 4 * rank(r)) = registers[r]
       /\ \A B \in Nat : Top <= B /\ B <= SRAM_END => Read32(memory', B) = Read32(memory, B)
  <2>1. A + 4 * Cardinality(list) <= SRAM_END + 1 /\ SRAM_BEGIN <= A
    <3>1. Bottom <= SRAM_END + 1
      BY StackAssumption, SramCells
    <3>2. A + 4 * n <= SRAM_END + 1
      BY <1>3, <1>6, <3>1, SramCells, StackAssumption
    <3>. QED  BY <1>1, <3>2 DEF n
  <2>2. A \in Nat /\ A + 4 * Cardinality(list) = Top
    BY <1>6 DEF n
  <2>3. (WORD - 1) \div HALF < HALF
    BY StackAssumption
  <2>4. /\ \A r \in list : Read32(WriteBlock(memory, A, list, registers), A + 4 * rank(r)) = registers[r]
        /\ \A B \in Nat : A + 4 * Cardinality(list) <= B /\ B <= SRAM_END =>
              Read32(WriteBlock(memory, A, list, registers), B) = Read32(memory, B)
    <3>1. /\ list \in SUBSET (0..15) /\ registers \in [0..15 -> Word] /\ A \in Nat
          /\ SRAM_BEGIN <= A /\ A + 4 * Cardinality(list) <= SRAM_END + 1
      BY <1>1, <1>2, <2>1, <2>2
    <3>. HIDE DEF A
    <3>2. \A r \in list : Read32(WriteBlock(memory, A, list, registers), A + 4 * rank(r)) = registers[r]
      BY ONLY <3>1, <2>3, BlockReads
    <3>3. \A B \in Nat : A + 4 * Cardinality(list) <= B /\ B <= SRAM_END =>
            Read32(WriteBlock(memory, A, list, registers), B) = Read32(memory, B)
      BY ONLY <3>1, <2>3, BlockReads
    <3>. QED  BY <3>2, <3>3
  <2>. QED  BY <1>4, <2>2, <2>4
<1>11. \A r \in list : WordsFrom(memory', A)[rank(r) + 1] = registers[r]
  <2>. SUFFICES ASSUME NEW r \in list PROVE WordsFrom(memory', A)[rank(r) + 1] = registers[r]
    OBVIOUS
  <2>1. rank(r) \in 0..n-1
    BY <1>1, Ranks DEF n
  <2> HIDE DEF rank
  <2>2. rank(r) + 1 \in 1..l /\ (rank(r) + 1) - 1 = rank(r)
    BY <1>1, <1>7, <1>9, <2>1
  <2>. QED  BY <1>8, <1>10, <2>2
<1>12. \A i \in 1..k : WordsFrom(memory', A)[n + i] = WordsFrom(memory, Top)[i]
  <2>. SUFFICES ASSUME NEW i \in 1..k
                PROVE  WordsFrom(memory', A)[n + i] = WordsFrom(memory, Top)[i]
    OBVIOUS
  <2> DEFINE B == Top + 4 * (i - 1)
  <2>1. B \in Nat /\ Top <= B /\ B <= SRAM_END
    <3>1. Bottom \in Int /\ Bottom <= SRAM_END + 1 /\ SRAM_END \in Int
      BY StackAssumption, SramCells
    <3>. QED  BY <1>3, <1>7, <3>1
  <2>2. n + i \in 1..l /\ A + 4 * ((n + i) - 1) = B
    BY <1>1, <1>3, <1>6, <1>7, <1>9
  <2>3. WordsFrom(memory', A)[n + i] = Read32(memory', B)
    BY <1>8, <2>2
  <2>4. WordsFrom(memory, Top)[i] = Read32(memory, B)
    BY <1>7
  <2> HIDE DEF B
  <2>. QED  BY <1>10, <2>1, <2>3, <2>4
<1>13. [i \in 1..k |-> WordsFrom(memory', A)[n + i]] = WordsFrom(memory, Top)
  <2>1. WordsFrom(memory, Top) = [i \in 1..k |-> WordsFrom(memory, Top)[i]]
    BY DEF WordsFrom, k
  <2>. QED  BY <1>12, <2>1
<1>14. [r \in Saved |-> IF r = PC THEN next_pc' ELSE registers'[r]]
       = [r \in Saved |-> IF r = PC THEN next_pc ELSE registers[r]]
  BY <1>1, <1>2, <1>4 DEF Saved, LR, PC
<1>15. \A r \in list : [q \in Saved |-> IF q = PC THEN next_pc ELSE registers[q]][r] = registers[r]
  BY <1>1
<1>16. WordsFrom(memory, Top)' = WordsFrom(memory', A)
  BY <1>5
<1>17. \A r \in list : WordsFrom(memory', A)[Cardinality({q \in list : q < r}) + 1]
                        = [q \in Saved |-> IF q = PC THEN next_pc ELSE registers[q]][r]
  BY <1>11, <1>15
<1> DEFINE s == WordsFrom(memory, Top)
           t == WordsFrom(memory', A)
<1>18. Len(t) = Len(s) + Cardinality(list)
  BY <1>7, <1>8, <1>9 DEF n
<1>19. [i \in 1..(Len(t) - Cardinality(list)) |-> t[Cardinality(list) + i]] = s
  <2>1. Len(t) - n = k
    BY <1>1, <1>7, <1>8, <1>9
  <2>. QED  BY <2>1, <1>13 DEF n
<1> HIDE DEF s, t
<1>20. Stack!Push(list)
  BY <1>14, <1>16, <1>17, <1>18, <1>19, SameCount
  DEF Stack!Push, Stack!Place, Stack!Below, s, t
<1>. QED  BY <1>5, <1>6, <1>20

(* POP takes the registers of its list off the stack.                      *)
LEMMA PopPops ==
  ASSUME TypeOK, NEW list \in SUBSET Saved,
         Top + 4 * Cardinality(list) <= Bottom, Pop(list)
  PROVE  Stack!Pop(list) /\ Top' <= Bottom
<1> DEFINE n == Cardinality(list)
           A == Top + 4 * n
           rank(r) == Cardinality({q \in list : q < r})
           k == (Bottom - Top) \div 4
           l == (Bottom - A) \div 4
           loaded == [WithLoaded(Top, list) EXCEPT ![SP] = Plus(registers[SP], 4 * n)]
           s == WordsFrom(memory, Top)
<1>1. /\ list \in SUBSET (0..15) /\ SP \notin Saved /\ PC \in 0..15 /\ SP \in 0..15
      /\ Saved \subseteq 0..15
      /\ n \in Nat /\ A <= Bottom
  BY ListSize DEF Saved, LR, PC, SP
<1>2. registers \in [0..15 -> Word] /\ registers[SP] \in Word
  BY <1>1 DEF TypeOK, Registers
<1>3. Top \in Nat /\ Top % 4 = 0 /\ Aligned4(Plus(registers[SP], 4 * n)) = A
  BY <1>1, <1>2, Tops DEF Top
<1>4. /\ memory' = memory
      /\ registers'[SP] = Plus(registers[SP], 4 * n)
      /\ \A r \in Saved \ {PC} : registers'[r] = WithLoaded(Top, list)[r]
      /\ PC \in list => next_pc' = Even(WithLoaded(Top, list)[PC])
  <2>1. loaded \in [0..15 -> Word]
    BY <1>1, <1>2, WithLoadedTyped, StackMoves DEF Registers
  <2>2. /\ loaded[SP] = Plus(registers[SP], 4 * n)
        /\ \A r \in Saved : loaded[r] = WithLoaded(Top, list)[r]
    BY <1>1 DEF WithLoaded
  <2>3. IF PC \in list THEN Jump(loaded, Even(loaded[PC])) ELSE SetRegisters(loaded)
    BY DEF Pop, Top
  <2> HIDE DEF loaded
  <2>4. CASE PC \in list
    <3>1. /\ registers' = [loaded EXCEPT ![PC] = Plus(Even(loaded[PC]), 2)]
          /\ next_pc' = Even(loaded[PC]) /\ memory' = memory
      BY <2>3, <2>4 DEF Jump, Land
    <3>2. SP # PC /\ PC \in Saved
      BY DEF SP, PC, Saved
    <3>. QED  BY <1>1, <2>1, <2>2, <3>1, <3>2
  <2>5. CASE PC \notin list
    <3>1. registers' = loaded /\ memory' = memory
      BY <2>3, <2>5 DEF SetRegisters
    <3>. QED  BY <2>2, <2>5, <3>1
  <2>. QED  BY <2>4, <2>5
<1> HIDE DEF loaded
<1>5. Top' = A
  BY <1>3, <1>4 DEF Top
<1> HIDE DEF n
<1>6. A \in Int /\ A % 4 = 0 /\ A <= Bottom /\ Top <= Bottom
      /\ Bottom \in Int /\ Bottom % 4 = 0
  <2>1. Bottom \in Int /\ Bottom % 4 = 0
    BY StackAssumption, SramCells
  <2>. QED  BY <1>1, <1>3, <2>1
<1>7. /\ k \in Nat /\ Top + 4 * k = Bottom
      /\ Len(s) = k
      /\ \A i \in 1..k : s[i] = Read32(memory, Top + 4 * (i - 1))
  <2>1. Top \in Int
    BY <1>3
  <2>. QED  BY <1>3, <1>6, <2>1, WordsCount
<1>8. l \in Nat /\ A + 4 * l = Bottom
  <2> HIDE DEF A
  <2>. QED  BY <1>6
<1>9. /\ k = l + n
      /\ WordsFrom(memory', A) = [i \in 1..l |-> Read32(memory, A + 4 * (i - 1))]
  <2>1. k = l + n
    BY <1>1, <1>3, <1>6, <1>7, <1>8
  <2>. QED  BY <2>1, <1>4 DEF WordsFrom
<1> HIDE DEF k, l
<1>10. ASSUME NEW r \in list
       PROVE  rank(r) + 1 \in 1..k /\ WithLoaded(Top, list)[r] = s[rank(r) + 1]
  <2>1. rank(r) \in 0..n-1
    BY <1>1, Ranks DEF n
  <2>2. Slot(Top, list, r) = (Top + 4 * rank(r)) % WORD
    BY DEF Slot, Plus
  <2>3. WithLoaded(Top, list)[r] = Read32(memory, Slot(Top, list, r))
    BY <1>1 DEF WithLoaded, ReadBlock
  <2> HIDE DEF rank
  <2>4. Top + 4 * rank(r) \in 0..WORD-1
    <3>1. Bottom < WORD
      BY StackAssumption, SramCells, WordSize
    <3>. QED  BY <1>1, <1>3, <1>6, <2>1, <3>1, WordSize
  <2>5. (Top + 4 * rank(r)) % WORD = Top + 4 * rank(r)
    BY <2>4, WordSize
  <2>6. rank(r) + 1 \in 1..k /\ (rank(r) + 1) - 1 = rank(r)
    BY <1>1, <1>7, <1>8, <1>9, <2>1
  <2>. QED  BY <1>7, <2>2, <2>3, <2>5, <2>6 
<1>11. ASSUME NEW i \in 1..l
       PROVE  s[n + i] = Read32(memory, A + 4 * (i - 1))
  <2>1. n + i \in 1..k /\ Top + 4 * ((n + i) - 1) = A + 4 * (i - 1)
    BY <1>1, <1>3, <1>8, <1>9
  <2>. QED  BY <1>7, <2>1
<1>12. WordsFrom(memory, Top)' = [i \in 1..l |-> s[n + i]]
  <2>1. WordsFrom(memory, Top)' = WordsFrom(memory', A)
    BY <1>5
  <2> HIDE DEF A, s
  <2>. QED  BY <1>9, <1>11, <2>1
<1>13. l = Len(s) - Cardinality(list) /\ Cardinality(list) <= Len(s)
  BY <1>1, <1>7, <1>8, <1>9 DEF n
<1> DEFINE file  == [r \in Saved |-> IF r = PC THEN next_pc ELSE registers[r]]
           filed == [r \in Saved |-> IF r = PC THEN next_pc' ELSE registers'[r]]
<1>14. ASSUME NEW r \in list
       PROVE  filed[r] = Stack!Loaded(r, s[rank(r) + 1])
  <2>1. r # PC => filed[r] = WithLoaded(Top, list)[r]
    BY <1>4
  <2>2. r = PC => filed[r] = Even(WithLoaded(Top, list)[PC])
    BY <1>4
  <2>. QED  BY <1>10, <2>1, <2>2 DEF Stack!Loaded
<1>15. \A r \in Saved \ (list \cup {PC}) : filed[r] = file[r]
  <2>. SUFFICES ASSUME NEW r \in Saved, r \notin list, r # PC PROVE registers'[r] = registers[r]
    OBVIOUS
  <2>1. registers'[r] = WithLoaded(Top, list)[r] /\ r \in 0..15
    BY <1>1, <1>4
  <2>. QED  BY <2>1 DEF WithLoaded
<1>16. DOMAIN file = Saved /\ [r \in Saved |-> IF r = PC THEN next_pc ELSE registers[r]]' = filed
  OBVIOUS
<1> HIDE DEF file, filed, s
<1>17. Stack!Pop(list)
  BY <1>12, <1>13, <1>14, <1>15, <1>16, SameCount
  DEF Stack!Pop, Stack!Place, Stack!Below, s, n, file
<1>. QED  BY <1>5, <1>6, <1>17

-----------------------------------------------------------------------------
(* What a handler does that has nothing to do with the stack.              *)
SpStays == registers'[SP] = registers[SP]
Still == SpStays /\ memory' = memory

(* The ways a handler ends, without the stack pointer among what it writes.*)
LEMMA EndsStill ==
  ASSUME TypeOK
  PROVE  /\ Keep => Still
         /\ \A r, v : r # SP /\ SetRegister(r, v) => Still
         /\ \A rd, o : (rd # SP \/ o.value = registers[SP]) /\ WriteBack(rd, o) => Still
         /\ \A regs \in Registers : \A t :
              regs[SP] = registers[SP] /\ Land(regs, t) => Still
<1>1. registers \in [0..15 -> Word] /\ SP \in 0..15 /\ PC \in 0..15 /\ SP # PC
  BY DEF TypeOK, Registers, SP, PC
<1>2. Keep => Still
  BY DEF Keep, Still, SpStays
<1>3. \A r, v : r # SP /\ SetRegister(r, v) => Still
  BY <1>1 DEF SetRegister, SetRegisters, Still, SpStays
<1>4. \A rd, o : (rd # SP \/ o.value = registers[SP]) /\ WriteBack(rd, o) => Still
  BY <1>1 DEF WriteBack, Still, SpStays
<1>5. \A regs \in Registers : \A t :
        regs[SP] = registers[SP] /\ Land(regs, t) => Still
  BY <1>1 DEF Land, Still, SpStays, Registers
<1>. QED  BY <1>2, <1>3, <1>4, <1>5

(* The data processing handlers write a low register.                      *)
LEMMA DataProcessingStill ==
  ASSUME TypeOK,
         MoveShiftedRegister \/ AddSubtractHandler
           \/ MoveCompareAddSubtractImmediate \/ AluOperations
  PROVE  Still
<1>1. /\ Reg0(instr) # SP /\ Reg8(instr) # SP
  BY TypesOfState, Fields, LowRegisters
<1>2. \A rd, o : rd # SP /\ WriteBack(rd, o) => Still
  BY EndsStill
<1>3. Keep => Still
  BY EndsStill
<1>4. MoveShiftedRegister => Still
  BY <1>1, <1>2, <1>3 DEF MoveShiftedRegister
<1>5. AddSubtractHandler => Still
  BY <1>1, <1>2 DEF AddSubtractHandler
<1>6. MoveCompareAddSubtractImmediate => Still
  BY <1>1, <1>2 DEF MoveCompareAddSubtractImmediate
<1>7. AluOperations => Still
  BY <1>1, <1>2 DEF AluOperations
<1>. QED  BY <1>4, <1>5, <1>6, <1>7

(* The BX and BLX arms write LR and PC.                                    *)
LEMMA LinkedStill ==
  ASSUME NEW regs \in Registers, NEW base
  PROVE  Linked(regs, base)[SP] = regs[SP]
BY DEF Linked, Registers, SP, PC, LR

(* They leave SP alone, whichever way they end.                            *)
LEMMA BranchExchangeStill ==
  ASSUME TypeOK, NEW base \in 0..15,
         BranchExchange(base) \/ BranchLinkExchange(base)
  PROVE  Still
<1>1. /\ registers \in Registers /\ \A r \in 0..15 : registers[r] \in Word
      /\ PC \in 0..15 /\ SP \in 0..15 /\ SP # PC
  BY TypesOfState DEF TypeOK, SP, PC
<1>2. \A regs \in Registers : \A t : regs[SP] = registers[SP] /\ Land(regs, t) => Still
  BY EndsStill
<1>3. CASE BranchLinkExchange(base)
  <2> DEFINE regs == Linked(registers, base)
  <2>1. regs \in Registers /\ regs[SP] = registers[SP]
    BY <1>1, LinkedTyped, LinkedStill
  <2>2. \/ Land(regs, Even(regs[PC]))
        \/ registers' = regs /\ memory' = memory
    BY <1>3 DEF BranchLinkExchange
  <2> HIDE DEF regs
  <2>. QED  BY <1>2, <2>1, <2>2 DEF Still, SpStays
<1>4. CASE BranchExchange(base)
  <2> DEFINE moved  == [registers EXCEPT ![PC] = registers[base]]
             target == Even(moved[PC])
             gone   == [moved EXCEPT ![PC] = Plus(target, 2)]
             regs   == Linked(gone, base)
  <2>1. moved \in Registers /\ moved[SP] = registers[SP]
    BY <1>1 DEF Registers
  <2>2. Plus(target, 2) \in Word
    <3>1. moved[PC] \in Word
      BY <1>1, <2>1 DEF Registers
    <3>2. Even(moved[PC]) \in Int
      BY <3>1, Masked
    <3>. QED  BY <3>2, Sums
  <2>3. gone \in Registers /\ gone[SP] = registers[SP]
    <3> HIDE DEF moved, target
    <3>. QED  BY <1>1, <2>1, <2>2 DEF Registers
  <2>4. regs \in Registers /\ regs[SP] = registers[SP]
    <3> HIDE DEF gone
    <3>. QED  BY <2>3, LinkedTyped, LinkedStill
  <2>5. \/ Land(regs, Even(regs[PC]))
        \/ registers' = regs /\ memory' = memory
        \/ registers' = moved /\ memory' = memory
    BY <1>4 DEF BranchExchange
  <2> HIDE DEF regs, moved
  <2>. QED  BY <1>2, <2>1, <2>4, <2>5 DEF Still, SpStays
<1>. QED  BY <1>3, <1>4

(* The operations on the high registers, but for an ADD or a MOV to SP.    *)
LEMMA HighStill ==
  ASSUME TypeOK, HiRegisterOperationsBranchExchange,
         Handler(instr) = "hi_register_operations_branch_exchange", ~MovesSp(instr)
  PROVE  Still
<1> DEFINE op == HiOp(instr)
           rd == Reg0(instr) + (IF Flag(instr, 7) THEN 8 ELSE 0)
           rs == RegX(instr)
<1>1. /\ registers \in Registers /\ \A r \in 0..15 : registers[r] \in Word
      /\ Reg0(instr) \in 0..7 /\ rs \in 0..15
  BY TypesOfState, Fields DEF TypeOK
<1>2. op \in {1, 2, 3, 9, 10, 11} => rd # SP
  BY <1>1 DEF MovesSp, SP
<1>3. ASSUME NEW v, WriteHigh(rd, v), rd # SP PROVE Still
  <2>1. CASE rd = PC
    <3>1. Land(registers, Even(v))
      BY <1>3, <2>1 DEF WriteHigh, Jump
    <3>. QED  BY <1>1, <3>1, EndsStill
  <2>2. CASE rd # PC
    <3>1. SetRegister(rd, v)
      BY <1>3, <2>2 DEF WriteHigh
    <3> HIDE DEF rd
    <3>. QED  BY <1>3, <3>1, EndsStill
  <2>. QED  BY <2>1, <2>2
<1>4. ASSUME WriteBack(rd, Cmp(registers[rd], registers[rs], psr)) PROVE Still
  <2> HIDE DEF rd, rs
  <2>1. rd = SP => Cmp(registers[rd], registers[rs], psr).value = registers[SP]
    BY DEF Cmp, Compare, Subtracted
  <2>. QED  BY <1>4, <2>1, EndsStill
<1>5. BranchExchange(rs) \/ BranchLinkExchange(rs) => Still
  BY <1>1, BranchExchangeStill
<1>6. Keep => Still
  BY EndsStill
<1>7. \/ Keep
      \/ op \in {1, 2, 3} /\ WriteHigh(rd, Plus(registers[rd], registers[rs]))
      \/ WriteBack(rd, Cmp(registers[rd], registers[rs], psr))
      \/ op \in {9, 10, 11} /\ WriteHigh(rd, registers[rs])
      \/ BranchExchange(rs) \/ BranchLinkExchange(rs)
  BY DEF HiRegisterOperationsBranchExchange
<1> HIDE DEF op, rd, rs
<1>. QED  BY <1>2, <1>3, <1>4, <1>5, <1>6, <1>7

(* The loads write a low register and the stores no register.              *)
LEMMA LoadStoreStill ==
  ASSUME TypeOK
  PROVE  /\ LoadStoreWithRegisterOffset => SpStays
         /\ LoadStoreSignExtendedByteHalfword => SpStays
         /\ LoadStoreWithImmediateOffset => SpStays
         /\ LoadStoreHalfwordImmediateOffset => SpStays
         /\ SpRelativeLoadStore => SpStays
         /\ PcRelativeLoad => Still
         /\ LoadAddress => Still
<1>1. Reg0(instr) # SP /\ Reg8(instr) # SP
  BY TypesOfState, Fields, LowRegisters
<1>2. \A r, v : r # SP /\ SetRegister(r, v) => Still
  BY EndsStill
<1>3. \A m : SetMemory(m, registers) => SpStays
  BY DEF SetMemory, SpStays
<1>4. Still => SpStays
  BY DEF Still
<1>5. LoadStoreWithRegisterOffset => SpStays
  BY <1>1, <1>2, <1>3, <1>4 DEF LoadStoreWithRegisterOffset
<1>6. LoadStoreSignExtendedByteHalfword => SpStays
  BY <1>1, <1>2, <1>3, <1>4 DEF LoadStoreSignExtendedByteHalfword
<1>7. LoadStoreWithImmediateOffset => SpStays
  BY <1>1, <1>2, <1>3, <1>4 DEF LoadStoreWithImmediateOffset
<1>8. LoadStoreHalfwordImmediateOffset => SpStays
  BY <1>3 DEF LoadStoreHalfwordImmediateOffset
<1>9. SpRelativeLoadStore => SpStays
  BY <1>1, <1>2, <1>3, <1>4 DEF SpRelativeLoadStore
<1>10. PcRelativeLoad => Still
  BY <1>1, <1>2 DEF PcRelativeLoad
<1>11. LoadAddress => Still
  BY <1>1, <1>2 DEF LoadAddress
<1>. QED  BY <1>5, <1>6, <1>7, <1>8, <1>9, <1>10, <1>11

(* LDMIA and STMIA name low registers only.                                *)
LEMMA MultipleStill ==
  ASSUME TypeOK, MultipleLoadStore
  PROVE  SpStays
<1> DEFINE list == Rlist(instr)
           base == Reg8(instr)
           A    == Aligned4(registers[base])
           loaded == WithLoaded(A, list)
           size == 4 * Cardinality(list)
<1>1. /\ registers \in [0..15 -> Word] /\ SP \in 0..15
      /\ base # SP /\ SP \notin list
  BY TypesOfState, Fields, LowRegisters DEF TypeOK, Registers, Rlist, SP
<1>2. loaded[SP] = registers[SP] /\ loaded = [r \in 0..15 |-> loaded[r]]
  BY <1>1 DEF WithLoaded
<1>3. \/ registers' = [registers EXCEPT ![base] = Plus(@, size)]
      \/ registers' = loaded
      \/ registers' = [loaded EXCEPT ![base] = Plus(A, size)]
  BY DEF MultipleLoadStore, SetMemory, SetRegisters
<1> HIDE DEF list, base, loaded, A, size
<1>. QED  BY <1>1, <1>2, <1>3 DEF SpStays

(* The branches write LR and PC.                                           *)
LEMMA BranchStill ==
  ASSUME TypeOK, ConditionalBranch \/ UnconditionalBranch \/ LongBranchWithLink
  PROVE  Still
<1>1. /\ registers \in Registers /\ registers[PC] \in Word /\ LR # SP
  BY TypesOfState DEF TypeOK, SP, LR
<1>2. \A regs \in Registers : \A t : regs[SP] = registers[SP] /\ Land(regs, t) => Still
  BY EndsStill
<1>3. Keep => Still
  BY EndsStill
<1>4. \A t : Jump(registers, t) => Still
  BY <1>1, <1>2 DEF Jump
<1>5. ConditionalBranch => Still
  BY <1>3, <1>4 DEF ConditionalBranch
<1>6. UnconditionalBranch => Still
  BY <1>4 DEF UnconditionalBranch
<1>7. LongBranchWithLink => Still
  <2> DEFINE link == Even(Minus(registers[PC], 2)) + 1
             regs == [registers EXCEPT ![LR] = link]
             t    == Even(Plus(registers[PC], 4096 * ((instr % 2048) - 2048)))
  <2>1. link \in Word
    <3>1. Minus(registers[PC], 2) \in Word
      <4>1. registers[PC] \in Int /\ 2 \in Int
        BY <1>1, Masked
      <4>. QED  BY <4>1, Sums
    <3>. QED  BY <3>1, Masked
  <2>2. LongBranchWithLink => Land(regs, t)
    BY DEF LongBranchWithLink, Jump
  <2> HIDE DEF link, t
  <2>3. regs \in Registers /\ regs[SP] = registers[SP]
    BY <1>1, <2>1 DEF Registers, SP, LR
  <2> HIDE DEF regs
  <2>. QED  BY <1>2, <2>2, <2>3
<1>. QED  BY <1>5, <1>6, <1>7

(* Only PUSH, POP and what MovesSp names move the stack pointer, and only  *)
(* PUSH and what MayStore names store.                                     *)
LEMMA OthersStill ==
  ASSUME TypeOK, ExecuteOp, ~MovesSp(instr), Handler(instr) # "push_pop_registers"
  PROVE  SpStays /\ (MayStore(instr) \/ memory' = memory)
<1> DEFINE h == Handler(instr)
           stores == {"load_store_with_register_offset",
                  "load_store_sign_extended_byte_halfword",
                  "load_store_with_immediate_offset",
                  "load_store_halfword_immediate_offset",
                  "sp_relative_load_store", "multiple_load_store"}
<1>1. Keep => Still
  BY EndsStill
<1>2. MoveShiftedRegister \/ AddSubtractHandler
           \/ MoveCompareAddSubtractImmediate \/ AluOperations => Still
  BY DataProcessingStill
<1>3. h = "hi_register_operations_branch_exchange" /\ HiRegisterOperationsBranchExchange => Still
  BY HighStill
<1>4. ConditionalBranch \/ UnconditionalBranch \/ LongBranchWithLink => Still
  BY BranchStill
<1>5. PcRelativeLoad \/ LoadAddress => Still
  BY LoadStoreStill
<1>6. LoadStoreWithRegisterOffset \/ LoadStoreSignExtendedByteHalfword
        \/ LoadStoreWithImmediateOffset \/ LoadStoreHalfwordImmediateOffset
        \/ SpRelativeLoadStore \/ MultipleLoadStore => SpStays
  BY LoadStoreStill, MultipleStill
<1>7. h # "add_offset_to_stack_pointer" /\ h # "push_pop_registers"
  BY DEF MovesSp
<1>8. MayStore(instr) <=> h \in stores
  BY DEF MayStore
<1> HIDE DEF h
<1>9. Still \/ (SpStays /\ h \in stores)
  BY <1>1, <1>2, <1>3, <1>4, <1>5, <1>6, <1>7, Zenon DEF ExecuteOp, h
<1>. QED  BY <1>8, <1>9 DEF Still

-----------------------------------------------------------------------------
(* The instruction that executes is a push, a pop, or leaves the stack as  *)
(* it is.                                                                  *)
LEMMA ExecuteUsesStack ==
  ASSUME TypeOK, Top <= Bottom, ExecuteOp, KeepsToStack
  PROVE  Stack!Next /\ Top' <= Bottom
<1>0. PICK list : list = Named(instr)
  OBVIOUS
<1>1. phase = "execute"
  BY DEF ExecuteOp
<1>2. /\ list \in SUBSET Saved /\ Cardinality(list) \in Nat
      /\ ~IsPop(instr) => PC \notin list
  BY <1>0, NamedRegisters
<1>3. CASE Handler(instr) = "push_pop_registers"
  <2>1. PushPopRegisters
    BY <1>3 DEF ExecuteOp, Unimplemented
  <2>2. CASE IsPop(instr)
    <3>1. Pop(list)
      BY <1>0, <2>1, <2>2 DEF PushPopRegisters, Named
    <3>2. Top + 4 * Cardinality(list) <= Bottom
      BY <1>0, <1>1, <1>3, <2>2 DEF KeepsToStack
    <3>3. Stack!Pop(list) /\ Top' <= Bottom
      BY <1>2, <3>1, <3>2, PopPops
    <3>. QED  BY <1>2, <3>3 DEF Stack!Next
  <2>3. CASE ~IsPop(instr)
    <3>1. Push(list)
      BY <1>0, <2>1, <2>3 DEF PushPopRegisters, Named
    <3>2. SRAM_BEGIN <= Top - 4 * Cardinality(list)
      BY <1>0, <1>1, <1>3, <2>3 DEF KeepsToStack
    <3>3. Stack!Push(list) /\ Top' <= Bottom
      BY <1>2, <2>3, <3>1, <3>2, PushPushes
    <3>. QED  BY <1>2, <3>3 DEF Stack!Next
  <2>. QED  BY <2>2, <2>3
<1>4. CASE Handler(instr) # "push_pop_registers"
  <2>1. ~MovesSp(instr)
    BY <1>1 DEF KeepsToStack
  <2>2. SpStays /\ (MayStore(instr) \/ memory' = memory)
    BY <1>4, <2>1, OthersStill
  <2>3. Top' = Top
    BY <2>2 DEF Top, SpStays
  <2>4. WordsFrom(memory', Top) = WordsFrom(memory, Top)
    BY <1>1, <2>2 DEF KeepsToStack
  <2>5. WordsFrom(memory, Top)' = WordsFrom(memory, Top)
    BY <2>3, <2>4
  <2>. QED  BY <2>3, <2>5 DEF Stack!Next, Stack!Work
<1>. QED  BY <1>3, <1>4

(* No other step moves the stack pointer, and the host keeps to the stack. *)
LEMMA OthersUseStack ==
  ASSUME TypeOK, Top <= Bottom, Host \/ Fetch \/ LoopTest, KeepsToStack
  PROVE  Stack!Next /\ Top' <= Bottom
<1>1. /\ registers'[SP] = registers[SP]
      /\ memory' = memory \/ phase = "idle"
  <2>1. registers \in [0..15 -> Word] /\ SP \in 0..15 /\ SP # PC
    BY DEF TypeOK, Registers, SP, PC
  <2>2. CASE Reset
    BY <2>1, <2>2 DEF Reset, Booted
  <2>3. CASE \E p \in Pokes : Poke(p[1], p[2])
    BY <2>3 DEF Poke, HostCall
  <2>4. CASE \E n \in RunArgs : RunN(n) \/ VerboseRun(n)
    BY <2>4 DEF RunN, VerboseRun, CountedRun
  <2>5. CASE Run
    BY <2>5 DEF Run
  <2>6. CASE Fetch
    BY <2>1, <2>6 DEF Fetch
  <2>7. CASE LoopTest
    BY <2>7 DEF LoopTest
  <2>. QED  BY <2>2, <2>3, <2>4, <2>5, <2>6, <2>7 DEF Host
<1>2. Top' = Top
  BY <1>1 DEF Top
<1>3. WordsFrom(memory', Top) = WordsFrom(memory, Top)
  BY <1>1 DEF KeepsToStack
<1>4. WordsFrom(memory, Top)' = WordsFrom(memory, Top)
  BY <1>2, <1>3
<1>. QED  BY <1>2, <1>4 DEF Stack!Next, Stack!Work

(* PUSH and POP implement the stack, for every program that keeps to it,   *)
(* every list of registers and any room there is.                          *)
THEOREM StackRefined == StackSpec => StackImplemented
<1>1. Init /\ Top = Bottom => TypeOK /\ Top <= Bottom /\ Stack!Init
  <2> SUFFICES ASSUME Init, Top = Bottom
               PROVE  TypeOK /\ Top <= Bottom /\ Stack!Init
    OBVIOUS
  <2>1. TypeOK
    BY InitTyped
  <2>2. Bottom \in Int
    BY StackAssumption, SramCells
  <2>3. (Bottom - Top) \div 4 = 0
    BY <2>2
  <2>4. WordsFrom(memory, Top) = << >>
    BY <2>3 DEF WordsFrom
  <2>. QED  BY <2>1, <2>2, <2>4 DEF Stack!Init
<1>2. TypeOK /\ Top <= Bottom /\ [Next /\ KeepsToStack]_vars
        => TypeOK' /\ (Top <= Bottom)' /\ [Stack!Next]_Stack!vars
  <2> SUFFICES ASSUME TypeOK, Top <= Bottom, [Next /\ KeepsToStack]_vars
               PROVE  TypeOK' /\ (Top <= Bottom)' /\ [Stack!Next]_Stack!vars
    OBVIOUS
  <2>1. TypeOK'
    BY NextTyped
  <2>2. CASE Next /\ KeepsToStack
    <3>1. Stack!Next /\ Top' <= Bottom
      BY <2>2, ExecuteUsesStack, OthersUseStack DEF Next, Step
    <3>. QED  BY <2>1, <3>1
  <2>3. CASE UNCHANGED vars
    BY <2>1, <2>3 DEF vars, Top, Stack!vars
  <2>. QED  BY <2>2, <2>3
<1>. QED
  BY <1>1, <1>2, PTL DEF StackSpec, StackImplemented, Stack!Spec
=============================================================================
