-------------------------------- MODULE Mmu --------------------------------
(***************************************************************************)
(* Class mmu of cpu/mmu.cpp: the two regions with their accessors, and the *)
(* registry of peripherals with class peripheral of                        *)
(* pheripherals/peripheral.h.  The accessors never look at the registry.   *)
(***************************************************************************)
EXTENDS Memory, Sequences

CONSTANTS
  Peripherals,  \* the peripherals the host may register
  Reads,        \* the <<size, address>> pairs it may read
  Writes,       \* the <<size, address, value>> triples it may write
  MaxCalls      \* bound on its calls

ASSUME MmuAssumption ==
  /\ \A p \in Peripherals : p = [start |-> p.start, end |-> p.end]
                            /\ p.start \in Word /\ p.end \in Word
  /\ Reads \subseteq {1, 2, 4} \X Word
  /\ Writes \subseteq {1, 2, 4} \X Word \X Word
  /\ MaxCalls \in Nat

VARIABLES
  memory, peripherals,  \* the members of class mmu
  access, outcome,      \* history: the last access, the last registration
  calls

vars == <<memory, peripherals, access, outcome, calls>>

(* A mutated in_conflict: p is only looked for inside r.                   *)
in_conflictInside(r, p) == p.start >= r.start /\ p.start <= r.end

(* A mutated in_conflict: the last address of r is free.                   *)
in_conflictOpen(r, p) ==
  \/ p.start >= r.start /\ p.start < r.end
  \/ r.start >= p.start /\ r.start <= p.end

(* Whether p may not be registered beside r.                               *)
in_conflict(r, p) ==
  \/ p.start >= r.start /\ p.start <= r.end
  \/ r.start >= p.start /\ r.start <= p.end

Init ==
  /\ memory = [c \in {} |-> Blank]
  /\ peripherals = <<>>
  /\ access = [op |-> "none", size |-> 1, address |-> 0, value |-> 0]
  /\ outcome = [peripheral |-> [start |-> 0, end |-> 0], registered |-> FALSE]
  /\ calls = 0

Call == calls < MaxCalls /\ calls' = calls + 1

(* register_peripheral throws if any of those registered is in conflict    *)
(* with p.                                                                 *)
register_peripheral(p) ==
  LET conflict == \E k \in DOMAIN peripherals : in_conflict(peripherals[k], p)
  IN  /\ Call
      /\ outcome' = [peripheral |-> p, registered |-> ~conflict]
      /\ peripherals' = IF conflict THEN peripherals ELSE Append(peripherals, p)
      /\ UNCHANGED <<memory, access>>

(* read8, read16 (and read16s, which is the same) and read32.              *)
ValueAt(m, size, A) ==
  IF size = 1 THEN Read8(m, A) ELSE IF size = 2 THEN Read16(m, A) ELSE Read32(m, A)

Read(size, A) ==
  /\ Call
  /\ access' = [op |-> "read", size |-> size, address |-> A,
                value |-> ValueAt(memory, size, A)]
  /\ UNCHANGED <<memory, peripherals, outcome>>

(* write8, write16 and write32.                                            *)
WriteTo(size, A, v) ==
  /\ Call
  /\ access' = [op |-> "write", size |-> size, address |-> A, value |-> v]
  /\ memory' = Write(memory, A, size, v)
  /\ UNCHANGED <<peripherals, outcome>>

Next ==
  \/ \E p \in Peripherals : register_peripheral(p)
  \/ \E r \in Reads : Read(r[1], r[2])
  \/ \E w \in Writes : WriteTo(w[1], w[2], w[3])

Spec == Init /\ [][Next]_vars

-----------------------------------------------------------------------------
(* The members of the class and the last calls have their types.           *)
TypeOK ==
  /\ IsMemory(memory)
  /\ peripherals \in Seq(Peripherals)
  /\ access.op \in {"none", "read", "write"} /\ access.size \in {1, 2, 4}
  /\ access.address \in Word /\ access.value \in Nat
  /\ outcome.registered \in BOOLEAN
  /\ calls \in 0..MaxCalls

(* Peripherals that were registered share no address, in whatever order    *)
(* they came, although each is only compared at its start.                 *)
Claim(p) == p.start..p.end

RangesDisjoint ==
  \A j, k \in DOMAIN peripherals :
    j # k => Claim(peripherals[j]) \cap Claim(peripherals[k]) = {}

(* The registry grants a peripheral its addresses exactly when all of them *)
(* are free.                                                               *)
Map == INSTANCE AddressMap WITH
  owned <- UNION {Claim(peripherals[k]) : k \in DOMAIN peripherals},
  starts <- {peripherals[k].start : k \in DOMAIN peripherals}

MapImplemented == Map!Spec

(* Reads and writes of all widths agree on one byte for each address, to   *)
(* the last byte of each region.                                           *)
CONSTANT Observed  \* the addresses looked at

ASSUME ObservedAssumption == Observed \subseteq Int

Store == INSTANCE ByteStore WITH
  Addresses <- Observed,
  Regions <- {CODE_BEGIN..CODE_END, SRAM_BEGIN..SRAM_END},
  Modulus <- WORD,
  Empty <- [a \in Observed |-> IF Mapped(a) THEN Blank ELSE 0],
  bytes <- [a \in Observed |-> Read8(memory, a)]

StoreImplemented == Store!Spec
=============================================================================
