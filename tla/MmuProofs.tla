----------------------------- MODULE MmuProofs -----------------------------
(***************************************************************************)
(* The registry keeps its peripherals apart, whatever they claim and in    *)
(* whatever order they come, and so implements the address map.  The       *)
(* accessors of every width implement the store of bytes.                  *)
(***************************************************************************)
EXTENDS Mmu, MemoryProofs

(* The peripherals have addresses that are integers.                       *)
LEMMA PeripheralsTyped ==
  \A p \in Peripherals : p.start \in Int /\ p.end \in Int
BY MmuAssumption, WordSize DEF Word

(* What the host passes to the accessors has its type.                     *)
LEMMA CallsTyped ==
  /\ \A r \in Reads : r[1] \in {1, 2, 4} /\ r[2] \in Word
  /\ \A w \in Writes : w[1] \in {1, 2, 4} /\ w[2] \in Word /\ w[3] \in Word
BY MmuAssumption

(* A value read is a number.                                               *)
LEMMA ValueTyped ==
  ASSUME NEW m, IsMemory(m), NEW size, NEW A
  PROVE  ValueAt(m, size, A) \in Nat
<1>1. Read8(m, A) \in Byte /\ Read16(m, A) \in Half /\ Read32(m, A) \in Word
  BY ReadsTyped
<1>2. Byte \subseteq Nat /\ Half \subseteq Nat /\ Word \subseteq Nat
  BY Sizes, WordSize DEF Byte, Half, Word
<1>. QED  BY <1>1, <1>2 DEF ValueAt

(* The initial state has its types.                                        *)
LEMMA InitTyped == Init => TypeOK
<1> SUFFICES ASSUME Init PROVE TypeOK
  OBVIOUS
<1>1. IsMemory(memory)
  BY DEF Init, IsMemory
<1>2. 0 \in Word /\ 0 \in 0..MaxCalls
  BY Zero, MmuAssumption
<1>3. <<>> \in Seq(Peripherals)
  OBVIOUS
<1>. QED  BY <1>1, <1>2, <1>3 DEF Init, TypeOK

(* The variables keep their types.                                         *)
LEMMA NextTyped == TypeOK /\ [Next]_vars => TypeOK'
<1> SUFFICES ASSUME TypeOK, [Next]_vars PROVE TypeOK'
  OBVIOUS
<1>1. ASSUME NEW p \in Peripherals, register_peripheral(p) PROVE TypeOK'
  <2>1. peripherals' \in Seq(Peripherals)
    BY <1>1 DEF register_peripheral, TypeOK
  <2>2. outcome'.registered \in BOOLEAN
    BY <1>1 DEF register_peripheral
  <2>. QED  BY <1>1, <2>1, <2>2, MmuAssumption DEF register_peripheral, Call, TypeOK
<1>2. ASSUME NEW r \in Reads, Read(r[1], r[2]) PROVE TypeOK'
  <2>1. ValueAt(memory, r[1], r[2]) \in Nat
    BY ValueTyped DEF TypeOK
  <2>. QED  BY <1>2, <2>1, CallsTyped, MmuAssumption DEF Read, Call, TypeOK
<1>3. ASSUME NEW w \in Writes, WriteTo(w[1], w[2], w[3]) PROVE TypeOK'
  <2>1. w[1] \in 1..4 /\ w[2] \in Int /\ w[3] \in Nat
    BY CallsTyped, WordSize DEF Word
  <2>2. IsMemory(memory')
    BY <1>3, <2>1, WriteTyped DEF WriteTo, TypeOK
  <2>. QED  BY <1>3, <2>1, <2>2, CallsTyped, MmuAssumption DEF WriteTo, Call, TypeOK
<1>4. CASE UNCHANGED vars
  BY <1>4 DEF vars, TypeOK
<1>. QED  BY <1>1, <1>2, <1>3, <1>4 DEF Next

(* Every member and every result keeps its type, for all peripherals and   *)
(* all calls.                                                              *)
THEOREM TypeCorrect == Spec => []TypeOK
BY InitTyped, NextTyped, PTL DEF Spec

-----------------------------------------------------------------------------
(* in_conflict finds a start of one inside the other, which ranges that    *)
(* meet always have.                                                       *)
LEMMA NoConflictIsApart ==
  ASSUME NEW r \in Peripherals, NEW p \in Peripherals, ~in_conflict(r, p)
  PROVE  Claim(r) \cap Claim(p) = {}
BY PeripheralsTyped DEF in_conflict, Claim

(* A registration keeps the peripherals apart.                             *)
LEMMA RegistrationKeepsApart ==
  ASSUME TypeOK, RangesDisjoint, NEW p \in Peripherals, register_peripheral(p)
  PROVE  RangesDisjoint'
<1>1. CASE \E k \in DOMAIN peripherals : in_conflict(peripherals[k], p)
  BY <1>1 DEF register_peripheral, RangesDisjoint
<1>2. CASE ~\E k \in DOMAIN peripherals : in_conflict(peripherals[k], p)
  <2>1. peripherals' = Append(peripherals, p)
    BY <1>2 DEF register_peripheral
  <2> DEFINE n == Len(peripherals)
  <2>2. /\ n \in Nat /\ DOMAIN peripherals = 1..n /\ DOMAIN peripherals' = 1..n+1
        /\ peripherals'[n + 1] = p
        /\ \A k \in 1..n : peripherals'[k] = peripherals[k] /\ peripherals[k] \in Peripherals
    BY <2>1 DEF TypeOK
  <2>3. \A k \in 1..n : Claim(peripherals[k]) \cap Claim(p) = {}
    BY <1>2, <2>2, NoConflictIsApart
  <2> SUFFICES ASSUME NEW j \in 1..n+1, NEW k \in 1..n+1, j # k
               PROVE  Claim(peripherals'[j]) \cap Claim(peripherals'[k]) = {}
    BY <2>2 DEF RangesDisjoint, Claim
  <2>4. CASE j \in 1..n /\ k \in 1..n
    BY <2>2, <2>4 DEF RangesDisjoint
  <2>5. CASE j = n + 1 \/ k = n + 1
    BY <2>2, <2>3, <2>5
  <2>. QED  BY <2>2, <2>4, <2>5
<1>. QED  BY <1>1, <1>2

(* Registered peripherals share no address: for every set of peripherals,  *)
(* those that end before they start among them, and every order.           *)
THEOREM RegistryDisjoint == Spec => []RangesDisjoint
<1>1. Init => RangesDisjoint
  BY DEF Init, RangesDisjoint
<1>2. TypeOK /\ RangesDisjoint /\ [Next]_vars => RangesDisjoint'
  <2> SUFFICES ASSUME TypeOK, RangesDisjoint, [Next]_vars PROVE RangesDisjoint'
    OBVIOUS
  <2>1. CASE \E p \in Peripherals : register_peripheral(p)
    BY <2>1, RegistrationKeepsApart
  <2>2. CASE UNCHANGED peripherals
    BY <2>2 DEF RangesDisjoint
  <2>. QED  BY <2>1, <2>2 DEF Next, Read, WriteTo, vars
<1>. QED  BY <1>1, <1>2, TypeCorrect, PTL DEF Spec

-----------------------------------------------------------------------------
(* The addresses and the starts of the registered peripherals.             *)
Owned == UNION {Claim(peripherals[k]) : k \in DOMAIN peripherals}
Starts == {peripherals[k].start : k \in DOMAIN peripherals}

(* The address map would refuse what conflicts with a registered one, and  *)
(* nothing else.                                                           *)
LEMMA ConflictIsNotFree ==
  ASSUME TypeOK, NEW p \in Peripherals
  PROVE  (\E k \in DOMAIN peripherals : in_conflict(peripherals[k], p))
           <=> ~Map!Free(p)
<1>1. \A k \in DOMAIN peripherals : peripherals[k] \in Peripherals
  BY DEF TypeOK
<1>2. ASSUME NEW k \in DOMAIN peripherals, in_conflict(peripherals[k], p)
      PROVE  ~Map!Free(p)
  <2> DEFINE r == peripherals[k]
  <2>1. r.start \in Int /\ r.end \in Int /\ p.start \in Int /\ p.end \in Int
    BY <1>1, PeripheralsTyped
  <2>2. Claim(r) \subseteq Owned /\ r.start \in Starts
    BY DEF Owned, Starts
  <2>3. p.start \in Claim(r) \/ r.start \in Claim(p)
    BY <1>2, <2>1 DEF in_conflict, Claim
  <2>. QED  BY <2>2, <2>3 DEF Map!Free, Map!Claim, Claim, Owned, Starts
<1>3. ASSUME \A k \in DOMAIN peripherals : ~in_conflict(peripherals[k], p)
      PROVE  Map!Free(p)
  <2>1. ASSUME NEW k \in DOMAIN peripherals
        PROVE  /\ (Claim(p) \cup {p.start}) \cap Claim(peripherals[k]) = {}
               /\ peripherals[k].start \notin Claim(p)
    BY <1>1, <1>3, PeripheralsTyped DEF in_conflict, Claim
  <2>2. (Claim(p) \cup {p.start}) \cap Owned = {} /\ Claim(p) \cap Starts = {}
    BY <2>1 DEF Owned, Starts
  <2>. QED  BY <2>2 DEF Map!Free, Map!Claim, Claim, Owned, Starts
<1>. QED  BY <1>2, <1>3

(* A registration is a grant or a refusal of the address map.              *)
LEMMA RegistrationMaps ==
  ASSUME TypeOK, NEW p \in Peripherals, register_peripheral(p)
  PROVE  Map!Next
<1>1. CASE \E k \in DOMAIN peripherals : in_conflict(peripherals[k], p)
  <2>1. /\ outcome' = [peripheral |-> p, registered |-> FALSE]
        /\ peripherals' = peripherals
    BY <1>1 DEF register_peripheral
  <2>2. ~Map!Free(p)
    BY <1>1, ConflictIsNotFree
  <2>. QED  BY <2>1, <2>2 DEF Map!Next, Map!Refuse
<1>2. CASE ~\E k \in DOMAIN peripherals : in_conflict(peripherals[k], p)
  <2>1. /\ outcome' = [peripheral |-> p, registered |-> TRUE]
        /\ peripherals' = Append(peripherals, p)
    BY <1>2 DEF register_peripheral
  <2>2. Map!Free(p)
    BY <1>2, ConflictIsNotFree
  <2> DEFINE n == Len(peripherals)
  <2>3. /\ n \in Nat /\ DOMAIN peripherals = 1..n /\ DOMAIN peripherals' = 1..n+1
        /\ peripherals'[n + 1] = p
        /\ \A k \in 1..n : peripherals'[k] = peripherals[k]
    BY <2>1 DEF TypeOK
  <2>4. Owned' = Owned \cup Claim(p)
    BY <2>3 DEF Owned, Claim
  <2>5. Starts' = Starts \cup {p.start}
    BY <2>3 DEF Starts
  <2>. QED  BY <2>1, <2>2, <2>4, <2>5 DEF Map!Next, Map!Grant, Map!Claim, Claim, Owned, Starts
<1>. QED  BY <1>1, <1>2

(* The registry implements the address map, for every set of peripherals.  *)
THEOREM ImplementsMap == Spec => MapImplemented
<1>1. Init => Map!Init
  BY DEF Init, Map!Init
<1>2. TypeOK /\ [Next]_vars => [Map!Next]_Map!vars
  <2> SUFFICES ASSUME TypeOK, [Next]_vars PROVE Map!Next \/ UNCHANGED Map!vars
    OBVIOUS
  <2>1. CASE \E p \in Peripherals : register_peripheral(p)
    BY <2>1, RegistrationMaps
  <2>2. CASE UNCHANGED <<peripherals, outcome>>
    BY <2>2 DEF Map!vars
  <2>. QED  BY <2>1, <2>2 DEF Next, Read, WriteTo, vars
<1>. QED  BY <1>1, <1>2, TypeCorrect, PTL DEF Spec, Map!Spec, MapImplemented

-----------------------------------------------------------------------------
(* The two ways of cutting a value into bytes are the same.                *)
LEMMA SameDigit ==
  ASSUME NEW v, NEW k
  PROVE  Store!Digit(v, k) = ByteOf(v, k)
BY DEF Store!Digit, ByteOf, BYTE, HALF

(* Addresses of one region are addresses of its array.                     *)
LEMMA RegionCells ==
  ASSUME NEW a \in Int, NEW b \in Int
  PROVE  /\ Store!Beside(a, b) <=> (InCode(a) /\ InCode(b)) \/ (InSram(a) /\ InSram(b))
         /\ ~(InCode(a) /\ InSram(a))
         /\ Store!InRegions(a) <=> Mapped(a)
<1>1. /\ CODE_BEGIN \in Int /\ CODE_END \in Int /\ SRAM_BEGIN \in Int /\ SRAM_END \in Int
      /\ CODE_END < SRAM_BEGIN
  BY WordSize DEF CODE_BEGIN, CODE_END, SRAM_BEGIN, SRAM_END
<1>2. /\ a \in CODE_BEGIN..CODE_END <=> InCode(a)
      /\ b \in CODE_BEGIN..CODE_END <=> InCode(b)
      /\ a \in SRAM_BEGIN..SRAM_END <=> InSram(a)
      /\ b \in SRAM_BEGIN..SRAM_END <=> InSram(b)
  BY <1>1 DEF InCode, InSram
<1>3. ~(InCode(a) /\ InSram(a))
  BY <1>1 DEF InCode, InSram
<1>. QED  BY <1>2, <1>3 DEF Store!Beside, Store!InRegions, Mapped

(* A byte read after a write is the one written if it lies in the write    *)
(* and in its region, and otherwise the one that was there.                *)
LEMMA ReadAfterWrite ==
  ASSUME NEW m, IsMemory(m), NEW A \in Int, NEW size \in 1..4, NEW v \in Nat,
         NEW a \in Int
  PROVE  Read8(Write(m, A, size, v), a)
           = IF a \in A..A+size-1 /\ Store!Beside(a, A) THEN Store!Digit(v, a - A)
                                                       ELSE Read8(m, a)
<1> DEFINE written == {Cell(A, i) : i \in 0..size-1}
           after == Write(m, A, size, v)
<1>1. /\ Store!Beside(a, A) <=> (InCode(a) /\ InCode(A)) \/ (InSram(a) /\ InSram(A))
      /\ ~(InCode(a) /\ InSram(a))
      /\ ~(InCode(A) /\ InSram(A))
  BY RegionCells
<1>2. CASE ~Mapped(A)
  BY <1>1, <1>2 DEF Write, Mapped
<1>3. CASE ~Mapped(a)
  BY <1>1, <1>3 DEF Read8, Mapped
<1>4. CASE Mapped(A) /\ Mapped(a)
  <2> DEFINE hit == a \in A..A+size-1 /\ Store!Beside(a, A)
  <2>1. ASSUME hit PROVE Cell(a, 0) = Cell(A, a - A) /\ a - A \in 0..size-1
    BY <1>1, <2>1, Regions DEF Cell
  <2>2. ASSUME NEW i \in 0..size-1, Cell(a, 0) = Cell(A, i) PROVE hit
    BY <1>1, <1>4, <2>2, Regions DEF Cell, Mapped
  <2>3. Cell(a, 0) \in written <=> hit
    BY <2>1, <2>2
  <2>4. after = [c \in DOMAIN m \cup written |->
                   IF c \in written THEN ByteOf(v, c[2] - Cell(A, 0)[2]) ELSE m[c]]
    BY <1>4 DEF Write
  <2>5. Read8(after, a) = ByteIn(after, Cell(a, 0)) /\ Read8(m, a) = ByteIn(m, Cell(a, 0))
    BY <1>4 DEF Read8
  <2>6. CASE hit
    <3>1. Cell(a, 0)[2] - Cell(A, 0)[2] = a - A
      BY <2>1, <2>6, CellDistance
    <3>. QED  BY <2>3, <2>4, <2>5, <2>6, <3>1, SameDigit DEF ByteIn
  <2>7. CASE ~hit
    <3> HIDE DEF written, after, hit
    <3>1. ByteIn(after, Cell(a, 0)) = ByteIn(m, Cell(a, 0))
      BY <2>3, <2>4, <2>7 DEF ByteIn
    <3>. QED  BY <2>5, <2>7, <3>1 DEF hit, after
  <2>. QED  BY <2>6, <2>7
<1>. QED  BY <1>2, <1>3, <1>4

(* A write of any width is a write of the store.                           *)
LEMMA WriteMaps ==
  ASSUME TypeOK, NEW w \in Writes, WriteTo(w[1], w[2], w[3])
  PROVE  Store!Put
<1> DEFINE A == w[2]
           size == w[1]
           v == w[3]
<1>1. size \in 1..4 /\ A \in Int /\ v \in Nat /\ IsMemory(memory)
  BY CallsTyped, WordSize DEF Word, TypeOK
<1>2. /\ access' = [op |-> "write", size |-> size, address |-> A, value |-> v]
      /\ memory' = Write(memory, A, size, v)
  BY DEF WriteTo
<1> HIDE DEF A, size, v
<1>3. \A a \in Observed :
        Read8(memory', a) = IF a \in A..A+size-1 /\ Store!Beside(a, A)
                            THEN Store!Digit(v, a - A) ELSE Read8(memory, a)
  BY <1>1, <1>2, ReadAfterWrite, ObservedAssumption
<1>4. [a \in Observed |-> Read8(memory', a)] = Store!Stored(A, size, v)
  BY <1>3 DEF Store!Stored
<1>. QED  BY <1>2, <1>4 DEF Store!Put

(* Inside a region the bytes an access reads are those at its addresses.   *)
LEMMA BytesRead ==
  ASSUME NEW m, NEW A \in Int, NEW size \in 1..4, Store!Beside(A, A + size - 1),
         NEW i \in 0..size-1
  PROVE  Mapped(A) /\ Read8(m, A + i) = ByteIn(m, Cell(A, i))
<1>1. (InCode(A) /\ InCode(A + size - 1)) \/ (InSram(A) /\ InSram(A + size - 1))
  BY RegionCells
<1>2. CODE_END \in Int /\ SRAM_END \in Int
  BY WordSize DEF CODE_END, SRAM_END
<1>3. (InCode(A) /\ InCode(A + i)) \/ (InSram(A) /\ InSram(A + i))
  BY <1>1, <1>2, Regions DEF InCode, InSram
<1>4. ~(InCode(A) /\ InSram(A)) /\ ~(InCode(A + i) /\ InSram(A + i))
  BY RegionCells
<1>5. Cell(A + i, 0) = Cell(A, i)
  BY <1>3, <1>4, Regions DEF Cell
<1>. QED  BY <1>3, <1>5 DEF Read8, Mapped

(* What a read of any width returns is what the store holds.               *)
LEMMA ValueIsFound ==
  ASSUME TypeOK, NEW A \in Int, NEW size \in {1, 2, 4},
         Store!Beside(A, A + size - 1), A..A+size-1 \subseteq Observed
  PROVE  Store!Found(A, size, ValueAt(memory, size, A))
<1> DEFINE bytes == [a \in Observed |-> Read8(memory, a)]
<1>0. size \in 1..4 /\ 0 \in 0..size-1
  OBVIOUS
<1>1. Mapped(A) /\ \A i \in 0..size-1 : bytes[A + i] = ByteIn(memory, Cell(A, i))
  <2>1. \A i \in 0..size-1 : Mapped(A) /\ Read8(memory, A + i) = ByteIn(memory, Cell(A, i))
    BY <1>0, BytesRead
  <2>2. \A i \in 0..size-1 : A + i \in Observed
    OBVIOUS
  <2>. QED  BY <1>0, <2>1, <2>2
<1>2. bytes[A] = Read8(memory, A)
  <2>1. A \in A..A+size-1
    OBVIOUS
  <2>. QED  BY <2>1
<1>3. bytes[A] = ByteIn(memory, Cell(A, 0))
  BY <1>1, <1>2 DEF Read8
<1>4. CASE size = 1
  BY <1>2, <1>4 DEF Store!Found, ValueAt
<1>5. CASE size = 2
  <2>1. bytes[A + 1] = ByteIn(memory, Cell(A, 1))
    BY <1>1, <1>5
  <2> HIDE DEF bytes
  <2>2. Read16(memory, A) = bytes[A] + 256 * bytes[A + 1]
    BY <1>1, <1>3, <2>1 DEF Read16, BYTE
  <2>. QED  BY <1>5, <2>2 DEF Store!Found, ValueAt, bytes
<1>6. CASE size = 4
  <2>1. /\ bytes[A + 1] = ByteIn(memory, Cell(A, 1))
        /\ bytes[A + 2] = ByteIn(memory, Cell(A, 2))
        /\ bytes[A + 3] = ByteIn(memory, Cell(A, 3))
    BY <1>1, <1>6
  <2> HIDE DEF bytes
  <2>2. Read32(memory, A)
          = ( bytes[A] + 256 * bytes[A + 1]
              + ((256 * 256) % WORD) * bytes[A + 2]
              + ((256 * (256 * 256)) % WORD) * bytes[A + 3] ) % WORD
    BY <1>1, <1>3, <2>1 DEF Read32, BYTE, HALF
  <2>. QED  BY <1>6, <2>2 DEF Store!Found, ValueAt, bytes
<1>. QED  BY <1>4, <1>5, <1>6

(* A read of any width is a read of the store.                             *)
LEMMA ReadMaps ==
  ASSUME TypeOK, NEW r \in Reads, Read(r[1], r[2])
  PROVE  Store!Get
<1> DEFINE A == r[2]
           size == r[1]
<1>1. size \in {1, 2, 4} /\ A \in Int
  BY CallsTyped, WordSize DEF Word
<1>2. /\ access' = [op |-> "read", size |-> size, address |-> A,
                    value |-> ValueAt(memory, size, A)]
      /\ memory' = memory
  BY DEF Read
<1> HIDE DEF A, size
<1>3. ~Store!InRegions(A) => ValueAt(memory, size, A) = 0
  BY <1>1, RegionCells DEF ValueAt, Read8, Read16, Read32
<1>4. (Store!Beside(A, A + size - 1) /\ A..A+size-1 \subseteq Observed)
        => Store!Found(A, size, ValueAt(memory, size, A))
  BY <1>1, ValueIsFound
<1>. QED  BY <1>2, <1>3, <1>4 DEF Store!Get

(* The accessors of every width implement one store of bytes, whatever the *)
(* addresses, the sizes and the values.                                    *)
THEOREM ImplementsStore == Spec => StoreImplemented
<1>1. Init => Store!Init
  BY DEF Init, Store!Init, Read8, ByteIn
<1>2. TypeOK /\ [Next]_vars => [Store!Next]_Store!vars
  <2> SUFFICES ASSUME TypeOK, [Next]_vars PROVE Store!Next \/ UNCHANGED Store!vars
    OBVIOUS
  <2>1. ASSUME NEW r \in Reads, Read(r[1], r[2]) PROVE Store!Next
    BY <2>1, ReadMaps DEF Store!Next
  <2>2. ASSUME NEW w \in Writes, WriteTo(w[1], w[2], w[3]) PROVE Store!Next
    BY <2>2, WriteMaps DEF Store!Next
  <2>3. CASE UNCHANGED <<memory, access>>
    BY <2>3 DEF Store!vars
  <2>. QED  BY <2>1, <2>2, <2>3 DEF Next, register_peripheral, vars
<1>. QED  BY <1>1, <1>2, TypeCorrect, PTL DEF Spec, Store!Spec, StoreImplemented
=============================================================================
