---------------------------- MODULE MemoryProofs ----------------------------
(***************************************************************************)
(* Memory keeps bytes: what is read from it has its type, a write leaves a *)
(* memory, and a block written into SRAM is read back as it was written.   *)
(***************************************************************************)
EXTENDS Memory, AluProofs, FiniteSetTheorems

(* How many values the narrow types have.                                  *)
LEMMA Sizes ==
  /\ BYTE \in Nat \ {0} /\ HALF \in Nat \ {0}
  /\ BYTE < HALF /\ HALF <= WORD
  /\ \A x, y \in Byte : x + BYTE * y \in Half
<1>1. BYTE \in Nat \ {0} /\ HALF \in Nat \ {0} /\ BYTE < HALF
  BY DEF BYTE, HALF
<1>2. HALF <= WORD
  BY <1>1, WordSize, WidthAssumption
<1>3. \A x, y \in Byte : x + BYTE * y < HALF
  BY DEF Byte, BYTE, HALF
<1>4. \A x, y \in Byte : x + BYTE * y \in Nat
  BY DEF Byte, BYTE
<1>5. \A x, y \in Byte : x + BYTE * y \in Half
  BY <1>1, <1>3, <1>4 DEF Half
<1>. QED  BY <1>1, <1>2, <1>5

(* Bytes and half-words are words.                                         *)
LEMMA Widths == Byte \subseteq Half /\ Half \subseteq Word
BY Sizes, WordSize DEF Byte, Half, Word

(* Zero is a value of every type.                                          *)
LEMMA Zero == 0 \in Byte /\ 0 \in Half /\ 0 \in Word
BY Sizes, WordSize DEF Byte, Half, Word

(* Where a region begins is an integer.                                    *)
LEMMA Regions == CODE_BEGIN \in Int /\ SRAM_BEGIN \in Int
BY WordSize DEF CODE_BEGIN, SRAM_BEGIN

(* A cell holds a byte, written or not.                                    *)
LEMMA BytesTyped ==
  ASSUME NEW m, IsMemory(m), NEW c
  PROVE  ByteIn(m, c) \in Byte
BY BlankAssumption DEF IsMemory, ByteIn

(* Four bytes with any weights make a word.                                *)
LEMMA WordOfBytes ==
  ASSUME NEW x \in Byte, NEW y \in Byte, NEW u \in Byte, NEW w \in Byte,
         NEW k \in Nat, NEW l \in Nat
  PROVE  (x + BYTE * y + k * u + l * w) % WORD \in Word
<1>1. /\ x \in Nat /\ y \in Nat /\ u \in Nat /\ w \in Nat
      /\ BYTE \in Nat
  BY Sizes DEF Byte
<1>2. BYTE * y \in Nat /\ k * u \in Nat /\ l * w \in Nat
  BY <1>1
<1>3. x + BYTE * y + k * u + l * w \in Int
  BY <1>1, <1>2
<1>. QED  BY <1>3, Wraps

(* The reads of mmu.cpp return what their type says.                       *)
LEMMA ReadsTyped ==
  ASSUME NEW m, IsMemory(m), NEW A
  PROVE  Read8(m, A) \in Byte /\ Read16(m, A) \in Half /\ Read32(m, A) \in Word
<1>1. \A i \in 0..3 : ByteIn(m, Cell(A, i)) \in Byte
  BY BytesTyped
<1>2. HALF % WORD \in Nat /\ (BYTE * HALF) % WORD \in Nat
  BY Sizes, WordSize
<1>3. Read32(m, A) \in Word
  BY <1>1, <1>2, Zero, WordOfBytes DEF Read32
<1>4. Read16(m, A) \in Half
  BY <1>1, Sizes, Zero DEF Read16
<1>5. Read8(m, A) \in Byte
  BY <1>1, Zero DEF Read8
<1>. QED  BY <1>3, <1>4, <1>5

(* A sign extended byte or half-word is a word.                            *)
LEMMA SignExtended ==
  /\ \A b \in Byte : SignExtend8(b) \in Word
  /\ \A h \in Half : SignExtend16(h) \in Word
BY Sizes, WordSize DEF SignExtend8, SignExtend16, Byte, Half, Word

(* The bytes a word is stored as.                                          *)
LEMMA ByteOfWord ==
  ASSUME NEW v \in Nat, NEW i \in 0..3
  PROVE  ByteOf(v, i) \in Byte
<1>1. <<1, BYTE, HALF, BYTE * HALF>>[i + 1] \in Nat \ {0}
  <2>1. BYTE * HALF \in Nat \ {0}
    BY Sizes
  <2>2. i = 0 \/ i = 1 \/ i = 2 \/ i = 3
    OBVIOUS
  <2>. QED  BY <2>1, <2>2, Sizes
<1> DEFINE d == <<1, BYTE, HALF, BYTE * HALF>>[i + 1]
<1> HIDE DEF d
<1>2. d \in Nat \ {0}
  BY <1>1 DEF d
<1>3. (v \div d) % BYTE \in Byte
  BY <1>2, Sizes DEF Byte
<1>. QED  BY <1>3 DEF ByteOf, d

(* The i-th cell of an access is i after the first.                        *)
LEMMA CellDistance ==
  ASSUME NEW A \in Int, NEW i \in 0..3
  PROVE  Cell(A, i)[2] - Cell(A, 0)[2] = i
BY Regions DEF Cell

(* A write leaves a memory.                                                *)
LEMMA WriteTyped ==
  ASSUME NEW m, IsMemory(m), NEW A \in Int, NEW size \in 1..4, NEW v \in Nat
  PROVE  IsMemory(Write(m, A, size, v))
<1> DEFINE written == {Cell(A, i) : i \in 0..size-1}
           n == [c \in DOMAIN m \cup written |->
                   IF c \in written THEN ByteOf(v, c[2] - Cell(A, 0)[2]) ELSE m[c]]
<1>1. \A c \in written : ByteOf(v, c[2] - Cell(A, 0)[2]) \in Byte
  <2>. SUFFICES ASSUME NEW i \in 0..size-1
                PROVE  ByteOf(v, Cell(A, i)[2] - Cell(A, 0)[2]) \in Byte
    OBVIOUS
  <2>1. i \in 0..3
    OBVIOUS
  <2>2. Cell(A, i)[2] - Cell(A, 0)[2] = i
    BY <2>1, CellDistance
  <2>. QED  BY <2>1, <2>2, ByteOfWord
<1>2. IsMemory(n)
  BY <1>1 DEF IsMemory
<1>. QED  BY <1>2 DEF Write

(* The three writes of mmu.cpp leave a memory.                             *)
LEMMA WritesTyped ==
  ASSUME NEW m, IsMemory(m), NEW A \in Int, NEW v \in Nat
  PROVE  /\ IsMemory(Write8(m, A, v))
         /\ IsMemory(Write16(m, A, v))
         /\ IsMemory(Write32(m, A, v))
BY WriteTyped DEF Write8, Write16, Write32

-----------------------------------------------------------------------------
(* Lists of registers are finite.                                          *)
LEMMA ListSize ==
  ASSUME NEW list \in SUBSET (0..15)
  PROVE  Cardinality(list) \in Nat
<1>1. IsFiniteSet(0..15)
  <2>1. \A a, b \in Int : IsFiniteSet(a..b)
    BY FS_Interval, Zenon
  <2>2. 0 \in Int /\ 15 \in Int
    OBVIOUS
  <2>. QED  BY <2>1, <2>2, Zenon
<1>2. IsFiniteSet(list)
  BY <1>1, FS_Subset, Zenon
<1>. QED  BY <1>2, FS_CardinalityType, Zenon

(* The address of a register in a block transfer is a word.                *)
LEMMA SlotTyped ==
  ASSUME NEW A \in Int, NEW list \in SUBSET (0..15), NEW r
  PROVE  Slot(A, list, r) \in Word
<1>1. Cardinality({q \in list : q < r}) \in Nat
  BY ListSize
<1>2. A + 4 * Cardinality({q \in list : q < r}) \in Int
  BY <1>1
<1>. QED  BY <1>2, Wraps DEF Slot, Plus

(* A block write leaves a memory.                                          *)
LEMMA WriteBlockTyped ==
  ASSUME NEW m, IsMemory(m), NEW A \in Int, NEW list \in SUBSET (0..15),
         NEW regs \in [0..15 -> Word]
  PROVE  IsMemory(WriteBlock(m, A, list, regs))
<1> DEFINE stored    == {r \in list : Mapped(Slot(A, list, r))}
           CellsOf(r) == {Cell(Slot(A, list, r), i) : i \in 0..3}
           written   == UNION {CellsOf(r) : r \in stored}
           RegOf(c)  == CHOOSE r \in stored : c \in CellsOf(r)
           byte(c)   == ByteOf(regs[RegOf(c)],
                               c[2] - Cell(Slot(A, list, RegOf(c)), 0)[2])
<1>1. ASSUME NEW c \in written PROVE byte(c) \in Byte
  <2>1. \E r \in stored : c \in CellsOf(r)
    BY <1>1
  <2>2. RegOf(c) \in stored /\ c \in CellsOf(RegOf(c))
    BY <2>1
  <2> DEFINE r == RegOf(c)
  <2> HIDE DEF r
  <2>3. r \in 0..15 /\ c \in CellsOf(r)
    BY <2>2 DEF r
  <2>4. PICK i \in 0..3 : c = Cell(Slot(A, list, r), i)
    BY <2>3
  <2>5. Slot(A, list, r) \in Int
    BY SlotTyped, WordSize DEF Word
  <2>6. c[2] - Cell(Slot(A, list, r), 0)[2] = i
    BY <2>4, <2>5, CellDistance
  <2>7. regs[r] \in Nat
    BY <2>3, WordSize DEF Word
  <2>. QED  BY <2>6, <2>7, ByteOfWord DEF r
<1>2. IsMemory([c \in DOMAIN m \cup written |-> IF c \in written THEN byte(c) ELSE m[c]])
  <2> HIDE DEF written, byte
  <2>. QED  BY <1>1 DEF IsMemory
<1>. QED  BY <1>2 DEF WriteBlock

(* The registers below a register of a list: as many as there are words    *)
(* below its word.                                                         *)
LEMMA Ranks ==
  ASSUME NEW list \in SUBSET (0..15)
  PROVE  /\ \A r \in list : Cardinality({q \in list : q < r}) \in 0..Cardinality(list)-1
         /\ \A r, q \in list : r < q =>
              Cardinality({x \in list : x < r}) < Cardinality({x \in list : x < q})
<1> DEFINE below(r) == {q \in list : q < r}
<1>1. ASSUME NEW S \in SUBSET (0..15), NEW r \in list, r \in S, below(r) \subseteq S
      PROVE  Cardinality(below(r)) + 1 <= Cardinality(S)
  <2>1. IsFiniteSet(S) /\ IsFiniteSet(below(r))
    <3>1. IsFiniteSet(0..15)
      <4>1. \A a, b \in Int : IsFiniteSet(a..b)
        BY FS_Interval, Zenon
      <4>2. 0 \in Int /\ 15 \in Int
        OBVIOUS
      <4>. QED  BY <4>1, <4>2, Zenon
    <3>2. below(r) \in SUBSET (0..15)
      OBVIOUS
    <3>. QED  BY <3>1, <3>2, FS_Subset, Zenon
  <2>2. r \notin below(r)
    OBVIOUS
  <2>3. Cardinality(below(r) \cup {r}) = Cardinality(below(r)) + 1
    BY <2>1, <2>2, FS_AddElement, Zenon
  <2>4. below(r) \cup {r} \in SUBSET S
    BY <1>1
  <2>5. Cardinality(below(r) \cup {r}) <= Cardinality(S)
    BY <2>1, <2>4, FS_Subset, Zenon
  <2>. QED  BY <2>3, <2>5
<1>2. \A r : Cardinality(below(r)) \in Nat
  BY ListSize
<1>3. Cardinality(list) \in Nat
  BY ListSize
<1>4. ASSUME NEW r \in list
      PROVE  Cardinality(below(r)) + 1 <= Cardinality(list)
  BY <1>1
<1>5. ASSUME NEW r \in list, NEW q \in list, r < q
      PROVE  Cardinality(below(r)) + 1 <= Cardinality(below(q))
  <2>1. \A x \in list : x < r => x < q
    <3>1. \A x \in list : x \in Int
      OBVIOUS
    <3>. QED  BY <1>5, <3>1
  <2>2. r \in below(q) /\ below(r) \subseteq below(q) /\ below(q) \in SUBSET (0..15)
    BY <1>5, <2>1
  <2>. QED  BY <2>2, <1>1
<1> HIDE DEF below
<1>6. \A r \in list : Cardinality(below(r)) \in 0..Cardinality(list)-1
  BY <1>2, <1>3, <1>4
<1>7. \A r, q \in list : r < q => Cardinality(below(r)) < Cardinality(below(q))
  BY <1>2, <1>5
<1>. QED  BY <1>6, <1>7 DEF below

(* The bytes a word is stored as are the word again when they are read.    *)
LEMMA BytesOfWord ==
  ASSUME NEW v \in Word, (WORD - 1) \div HALF < HALF
  PROVE  ( ByteOf(v, 0) + BYTE * ByteOf(v, 1) + (HALF % WORD) * ByteOf(v, 2)
           + ((BYTE * HALF) % WORD) * ByteOf(v, 3) ) % WORD = v
<1>1. /\ v \in Nat /\ v < WORD /\ v \div HALF < HALF
  BY WordSize DEF Word, HALF
<1>2. /\ ByteOf(v, 0) = v % BYTE
      /\ ByteOf(v, 1) = (v \div BYTE) % BYTE
      /\ ByteOf(v, 2) = (v \div HALF) % BYTE
      /\ ByteOf(v, 3) = (v \div (BYTE * HALF)) % BYTE
  BY <1>1 DEF ByteOf
<1>3. v = (v % BYTE) + BYTE * ((v \div BYTE) % BYTE)
            + HALF * ((v \div HALF) % BYTE)
            + (BYTE * HALF) * ((v \div (BYTE * HALF)) % BYTE)
  BY <1>1 DEF BYTE, HALF
<1>4. (HALF % WORD) * ByteOf(v, 2) = HALF * ByteOf(v, 2)
  <2>1. CASE HALF < WORD
    BY <2>1, Sizes, WordSize
  <2>2. CASE HALF = WORD
    <3>1. v \div HALF = 0
      BY <1>1, <2>2 DEF HALF
    <3>2. ByteOf(v, 2) = 0
      BY <1>2, <3>1, Sizes
    <3>3. HALF % WORD \in Int /\ HALF \in Int
      BY Sizes, WordSize
    <3>. QED  BY <3>2, <3>3
  <2>. QED  BY <2>1, <2>2, Sizes, WordSize
<1>5. ((BYTE * HALF) % WORD) * ByteOf(v, 3) = (BYTE * HALF) * ByteOf(v, 3)
  <2>0. BYTE * HALF \in Nat
    BY Sizes
  <2>1. CASE BYTE * HALF < WORD
    <3>1. (BYTE * HALF) % WORD = BYTE * HALF
      BY <2>0, <2>1, WordSize
    <3>. QED  BY <3>1
  <2>2. CASE WORD <= BYTE * HALF
    <3>1. v \div (BYTE * HALF) = 0
      BY <1>1, <2>2, WordSize DEF HALF, BYTE
    <3>2. ByteOf(v, 3) = 0
      BY <1>2, <3>1, Sizes
    <3>3. (BYTE * HALF) % WORD \in Int
      BY <2>0, WordSize
    <3>. QED  BY <2>0, <3>2, <3>3
  <2>. QED  BY <2>0, <2>1, <2>2, WordSize
<1>6. v = ByteOf(v, 0) + BYTE * ByteOf(v, 1) + (HALF % WORD) * ByteOf(v, 2)
           + ((BYTE * HALF) % WORD) * ByteOf(v, 3)
  BY <1>2, <1>3, <1>4, <1>5
<1>7. v % WORD = v
  BY <1>1, WordSize
<1>. QED  BY <1>6, <1>7

(* A read gets the word whose bytes are there.                             *)
LEMMA ReadsBytes ==
  ASSUME NEW m, NEW A, Mapped(A), (WORD - 1) \div HALF < HALF,
         NEW v \in Word, \A i \in 0..3 : ByteIn(m, Cell(A, i)) = ByteOf(v, i)
  PROVE  Read32(m, A) = v
<1>1. /\ ByteIn(m, Cell(A, 0)) = ByteOf(v, 0) /\ ByteIn(m, Cell(A, 1)) = ByteOf(v, 1)
      /\ ByteIn(m, Cell(A, 2)) = ByteOf(v, 2) /\ ByteIn(m, Cell(A, 3)) = ByteOf(v, 3)
  OBVIOUS
<1>. QED  BY <1>1, BytesOfWord DEF Read32

(* A read depends on the bytes that are there and on nothing else.         *)
LEMMA ReadsSame ==
  ASSUME NEW m, NEW n, NEW A, \A i \in 0..3 : ByteIn(m, Cell(A, i)) = ByteIn(n, Cell(A, i))
  PROVE  Read32(m, A) = Read32(n, A)
<1>1. /\ ByteIn(m, Cell(A, 0)) = ByteIn(n, Cell(A, 0))
      /\ ByteIn(m, Cell(A, 1)) = ByteIn(n, Cell(A, 1))
      /\ ByteIn(m, Cell(A, 2)) = ByteIn(n, Cell(A, 2))
      /\ ByteIn(m, Cell(A, 3)) = ByteIn(n, Cell(A, 3))
  OBVIOUS
<1>. QED  BY <1>1 DEF Read32

(* The addresses of SRAM are mapped, each to a cell of its own region.     *)
LEMMA SramCells ==
  /\ SRAM_BEGIN \in Nat /\ SRAM_END \in Int /\ SRAM_END + 4 < WORD
  /\ \A A \in SRAM_BEGIN..SRAM_END :
       /\ Mapped(A)
       /\ \A i : Cell(A, i) = <<"sram_region", A - SRAM_BEGIN + i>>
<1>1. /\ SRAM_BEGIN \in Nat /\ SRAM_END \in Int /\ SRAM_END + 4 < WORD
      /\ CODE_END \in Int /\ CODE_END < SRAM_BEGIN
  BY WordSize, WidthAssumption DEF SRAM_BEGIN, SRAM_END, CODE_END, HALF
<1>. QED  BY <1>1 DEF Mapped, InSram, InCode, Cell

(* A block written into SRAM reads back as the registers, each at the place *)
(* its rank gives it, and leaves the words from the end of the block on.   *)
LEMMA BlockReads ==
  ASSUME NEW m, NEW list \in SUBSET (0..15), NEW regs \in [0..15 -> Word],
         NEW A \in Nat, SRAM_BEGIN <= A, A + 4 * Cardinality(list) <= SRAM_END + 1,
         (WORD - 1) \div HALF < HALF
  PROVE  /\ \A r \in list :
              Read32(WriteBlock(m, A, list, regs),
                     A + 4 * Cardinality({q \in list : q < r})) = regs[r]
         /\ \A B \in Nat : A + 4 * Cardinality(list) <= B /\ B <= SRAM_END =>
              Read32(WriteBlock(m, A, list, regs), B) = Read32(m, B)
<1> DEFINE rank(r)   == Cardinality({q \in list : q < r})
           At(r)     == A + 4 * rank(r)
           stored    == {r \in list : Mapped(Slot(A, list, r))}
           CellsOf(r) == {Cell(Slot(A, list, r), i) : i \in 0..3}
           written   == UNION {CellsOf(r) : r \in stored}
           RegOf(c)  == CHOOSE r \in stored : c \in CellsOf(r)
           byte(c)   == ByteOf(regs[RegOf(c)],
                               c[2] - Cell(Slot(A, list, RegOf(c)), 0)[2])
           n         == [c \in DOMAIN m \cup written |->
                           IF c \in written THEN byte(c) ELSE m[c]]
           at(k)     == <<"sram_region", A - SRAM_BEGIN + k>>
<1>1. WriteBlock(m, A, list, regs) = n
  BY DEF WriteBlock
<1>2. Cardinality(list) \in Nat
  BY ListSize
<1>3. \A r \in list : rank(r) \in 0..Cardinality(list)-1
  BY Ranks
<1>4. \A r, q \in list : r < q => rank(r) < rank(q)
  BY Ranks
<1> HIDE DEF rank
<1>5. ASSUME NEW r \in list
      PROVE  /\ At(r) \in SRAM_BEGIN..SRAM_END /\ Slot(A, list, r) = At(r)
             /\ \A i \in 0..3 : Cell(At(r), i) = at(4 * rank(r) + i)
             /\ Mapped(At(r))
  <2>1. /\ rank(r) \in Nat /\ rank(r) + 1 <= Cardinality(list)
    BY <1>2, <1>3
  <2>2. At(r) \in SRAM_BEGIN..SRAM_END /\ At(r) \in 0..WORD-1
    BY <2>1, <1>2, SramCells, WordSize
  <2>3. Slot(A, list, r) = At(r) % WORD
    BY DEF Slot, Plus, rank
  <2>4. At(r) % WORD = At(r)
    BY <2>2, WordSize
  <2>5. \A i \in 0..3 : (A + 4 * rank(r)) - SRAM_BEGIN + i = A - SRAM_BEGIN + (4 * rank(r) + i)
    BY <2>1, SramCells
  <2>6. Mapped(At(r)) /\ \A i : Cell(At(r), i) = <<"sram_region", At(r) - SRAM_BEGIN + i>>
    BY <2>2, SramCells
  <2>7. ASSUME NEW i \in 0..3 PROVE Cell(At(r), i) = at(4 * rank(r) + i)
    <3>1. Cell(At(r), i) = <<"sram_region", (A + 4 * rank(r)) - SRAM_BEGIN + i>>
      BY <2>6
    <3>. QED  BY <3>1, <2>5
  <2>. QED  BY <2>2, <2>3, <2>4, <2>6, <2>7
<1>6. stored = list
  BY <1>5
<1>7. \A r \in list : CellsOf(r) = {at(4 * rank(r) + i) : i \in 0..3}
  BY <1>5
<1>8. ASSUME NEW r \in list, NEW q \in list, NEW i \in 0..3, NEW j \in 0..3,
             at(4 * rank(r) + i) = at(4 * rank(q) + j)
      PROVE  r = q /\ i = j
  <2>1. rank(r) \in Int /\ rank(q) \in Int /\ r \in Int /\ q \in Int
    BY <1>2, <1>3
  <2>2. A - SRAM_BEGIN + (4 * rank(r) + i) = A - SRAM_BEGIN + (4 * rank(q) + j)
    BY <1>8
  <2>3. rank(r) = rank(q) /\ i = j
    BY <2>1, <2>2, SramCells
  <2>. QED  BY <2>1, <2>3, <1>4
<1>9. ASSUME NEW r \in list, NEW i \in 0..3
      PROVE  ByteIn(n, Cell(At(r), i)) = ByteOf(regs[r], i)
  <2> DEFINE c == at(4 * rank(r) + i)
  <2>1. c \in CellsOf(r) /\ c \in written
    <3>1. c \in CellsOf(r)
      BY <1>7
    <3> HIDE DEF CellsOf, c
    <3>. QED  BY <3>1, <1>6
  <2>2. RegOf(c) \in list /\ c \in CellsOf(RegOf(c))
    BY <2>1, <1>6
  <2>3. RegOf(c) = r
    <3> DEFINE q == RegOf(c)
    <3>0. q \in list /\ c \in CellsOf(q)
      BY <2>2
    <3> HIDE DEF q
    <3>1. PICK j \in 0..3 : c = at(4 * rank(q) + j)
      BY <3>0, <1>7
    <3>2. q = r
      BY <3>0, <3>1, <1>8
    <3>. QED  BY <3>2 DEF q
  <2>4. Cell(Slot(A, list, r), 0) = at(4 * rank(r) + 0) /\ rank(r) \in Int
    BY <1>2, <1>3, <1>5
  <2>5. c[2] - Cell(Slot(A, list, r), 0)[2] = i
    BY <2>4, SramCells
  <2>6. byte(c) = ByteOf(regs[r], i)
    BY <2>3, <2>5
  <2>7. ByteIn(n, c) = byte(c)
    BY <2>1 DEF ByteIn
  <2>8. Cell(At(r), i) = c
    BY <1>5
  <2>. QED  BY <2>6, <2>7, <2>8
<1>10. ASSUME NEW B \in Nat, A + 4 * Cardinality(list) <= B, B <= SRAM_END, NEW i \in 0..3
       PROVE  ByteIn(n, Cell(B, i)) = ByteIn(m, Cell(B, i))
  <2>1. B \in SRAM_BEGIN..SRAM_END
    BY <1>2, <1>10, SramCells
  <2>2. Cell(B, i) = <<"sram_region", B - SRAM_BEGIN + i>>
    BY <2>1, SramCells
  <2>3. ASSUME NEW r \in list, NEW j \in 0..3 PROVE Cell(B, i) # at(4 * rank(r) + j)
    <3>1. rank(r) \in Int /\ rank(r) + 1 <= Cardinality(list)
      BY <1>2, <1>3
    <3>2. A - SRAM_BEGIN + (4 * rank(r) + j) # B - SRAM_BEGIN + i
      BY <3>1, <1>2, <1>10, SramCells
    <3>. QED  BY <2>2, <3>2
  <2>4. Cell(B, i) \notin written
    BY <2>3, <1>6, <1>7
  <2>. QED  BY <2>4 DEF ByteIn
<1> HIDE DEF n
<1>11. ASSUME NEW r \in list PROVE Read32(n, At(r)) = regs[r]
  <2>1. Mapped(At(r)) /\ regs[r] \in Word
    BY <1>5
  <2>2. \A i \in 0..3 : ByteIn(n, Cell(At(r), i)) = ByteOf(regs[r], i)
    BY <1>9
  <2> HIDE DEF At
  <2>. QED  BY <2>1, <2>2, ReadsBytes
<1>12. \A B \in Nat : A + 4 * Cardinality(list) <= B /\ B <= SRAM_END =>
         Read32(n, B) = Read32(m, B)
  BY <1>10, ReadsSame
<1>. QED  BY <1>1, <1>11, <1>12 DEF rank
=============================================================================
