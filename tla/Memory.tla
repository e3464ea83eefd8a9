------------------------------ MODULE Memory ------------------------------
(***************************************************************************)
(* cpu/mmu.cpp: the little endian reads and writes of the code and SRAM    *)
(* regions.  A memory is a function from the cells that were written to    *)
(* their bytes; a cell is a region and an offset into it, so an access     *)
(* that runs over the end of one region does not reach the other, as the   *)
(* two regions are separate arrays in the code.  The code does not know    *)
(* how large the arrays are and neither does this module.                  *)
(***************************************************************************)
EXTENDS Words, FiniteSets

CONSTANT Blank  \* what a byte of a region holds before it is written

(* The values of uint8_t and uint16_t.                                     *)
BYTE == 256
HALF == 256 * 256
Byte == 0..BYTE-1
Half == 0..HALF-1

ASSUME BlankAssumption == Blank \in Byte

(* The regions split the address space as in cpu/mmu.h, an eighth each;    *)
(* half-words and bytes fit in a word.                                     *)
ASSUME WidthAssumption == WordBits >= 16 /\ WORD >= HALF

CODE_BEGIN == 0
CODE_END == (WORD \div 8) - 1
SRAM_BEGIN == WORD \div 8
SRAM_END == (WORD \div 4) - 1

InCode(A) == A <= CODE_END /\ A >= CODE_BEGIN

(* A mutated InSram: the last address is not in the region.                *)
InSramOpen(A) == A < SRAM_END /\ A >= SRAM_BEGIN
InSram(A) == A <= SRAM_END /\ A >= SRAM_BEGIN
Mapped(A) == InCode(A) \/ InSram(A)

Cell(A, i) ==
  IF InCode(A) THEN <<"code_region", A - CODE_BEGIN + i>>
               ELSE <<"sram_region", A - SRAM_BEGIN + i>>

ByteIn(m, c) == IF c \in DOMAIN m THEN m[c] ELSE Blank

IsMemory(m) ==
  /\ m = [c \in DOMAIN m |-> m[c]]
  /\ \A c \in DOMAIN m : m[c] \in Byte

-----------------------------------------------------------------------------
(* Reads.  An address outside both regions reads as zero.                  *)
Read8(m, A) == IF Mapped(A) THEN ByteIn(m, Cell(A, 0)) ELSE 0

Read16(m, A) ==
  IF Mapped(A) THEN ByteIn(m, Cell(A, 0)) + BYTE * ByteIn(m, Cell(A, 1)) ELSE 0

Read32(m, A) ==
  IF Mapped(A)
  THEN ( ByteIn(m, Cell(A, 0)) + BYTE * ByteIn(m, Cell(A, 1))
         + (HALF % WORD) * ByteIn(m, Cell(A, 2))
         + ((BYTE * HALF) % WORD) * ByteIn(m, Cell(A, 3)) ) % WORD
  ELSE 0

(* (int8_t) and (int16_t) widened to a register.                           *)
SignExtend8(b) == IF 2 * b < BYTE THEN b ELSE WORD - BYTE + b
SignExtend16(h) == IF 2 * h < HALF THEN h ELSE WORD - HALF + h

-----------------------------------------------------------------------------
(* Writes.  A write outside both regions is dropped.                       *)
(* A mutated ByteOf: the higher digits are not cut off.                    *)
ByteOfWhole(v, i) == v \div <<1, BYTE, HALF, BYTE * HALF>>[i + 1]
ByteOf(v, i) == (v \div <<1, BYTE, HALF, BYTE * HALF>>[i + 1]) % BYTE

Write(m, A, size, v) ==
  LET first   == Cell(A, 0)
      written == {Cell(A, i) : i \in 0..size-1}
  IN  IF Mapped(A)
      THEN [c \in DOMAIN m \cup written |->
              IF c \in written THEN ByteOf(v, c[2] - first[2]) ELSE m[c]]
      ELSE m

Write8(m, A, v) == Write(m, A, 1, v)
Write16(m, A, v) == Write(m, A, 2, v)
Write32(m, A, v) == Write(m, A, 4, v)

-----------------------------------------------------------------------------
(* Runs of words at ascending addresses from A on, one for each register   *)
(* of a list, the lowest register first (push_reg, pop_reg, thumb_stm_reg, *)
(* thumb_ldm_reg).                                                         *)
Slot(A, list, r) == Plus(A, 4 * Cardinality({q \in list : q < r}))

ReadBlock(m, A, list) == [r \in list |-> Read32(m, Slot(A, list, r))]

WriteBlock(m, A, list, regs) ==
  LET stored   == {r \in list : Mapped(Slot(A, list, r))}
      CellsOf(r) == {Cell(Slot(A, list, r), i) : i \in 0..3}
      written  == UNION {CellsOf(r) : r \in stored}
      RegOf(c) == CHOOSE r \in stored : c \in CellsOf(r)
  IN  [c \in DOMAIN m \cup written |->
         IF c \in written
         THEN ByteOf(regs[RegOf(c)], c[2] - Cell(Slot(A, list, RegOf(c)), 0)[2])
         ELSE m[c]]
=============================================================================
