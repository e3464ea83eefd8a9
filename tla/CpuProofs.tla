----------------------------- MODULE CpuProofs -----------------------------
(***************************************************************************)
(* Theorems about the processor, for every width of the word, every image, *)
(* every register file and flags it may be constructed with and any use    *)
(* the host makes of it.                                                   *)
(***************************************************************************)
EXTENDS HandlerProofs, Tests

(* The entry address, and the registers reset() leaves.                    *)
LEMMA BootedTyped ==
  ASSUME NEW m, IsMemory(m), NEW regs \in Registers
  PROVE  /\ Entry(m) \in Word
         /\ Booted(regs, m) \in Registers
         /\ Booted(regs, m)[PC] = Plus(Entry(m), 2)
<1>1. Entry(m) \in Word
  BY ReadsTyped DEF Entry
<1>2. Entry(m) \in Int /\ 2 \in Int
  BY <1>1, Masked
<1>3. Plus(Entry(m), 2) \in Word
  BY <1>2, Sums
<1>4. PC \in 0..15
  BY DEF PC
<1>. QED  BY <1>1, <1>3, <1>4 DEF Booted, Registers

(* The constructor leaves typed, synchronised state whatever the           *)
(* uninitialised members hold.                                             *)
LEMMA InitTyped == Init => TypeOK /\ Synced
<1>. SUFFICES ASSUME Init PROVE TypeOK /\ Synced
  OBVIOUS
<1>1. IsMemory(memory)
  BY CpuAssumption DEF Init
<1>2. PICK regs \in RegisterGarbage : registers = Booted(regs, memory)
  BY DEF Init
<1>3. PICK p \in PsrGarbage : psr = [p EXCEPT !.t = TRUE]
  BY DEF Init
<1>4. regs \in Registers /\ p \in Psr
  BY CpuAssumption
<1>5. psr \in Psr
  BY <1>3, <1>4 DEF Psr
<1>6. registers \in Registers /\ next_pc \in Word /\ registers[PC] = Plus(next_pc, 2)
  BY <1>1, <1>2, <1>4, BootedTyped DEF Init
<1>7. cpu_prefetch \in Prefetches /\ holdState \in BOOLEAN
  BY CpuAssumption DEF Init
<1>8. 0 \in Half /\ 0 \in 0..SizeT-1 /\ 0 \in 0..MaxCalls /\ 0 \in Nat
  BY CpuAssumption, Zero
<1>. QED  BY <1>1, <1>5, <1>6, <1>7, <1>8 DEF Init, TypeOK, Synced

-----------------------------------------------------------------------------
(* The steps outside the handlers.                                         *)
LEMMA HostTyped ==
  ASSUME TypeOK, Host
  PROVE  TypeOK'
<1>1. ASSUME NEW call, HostCall(call) PROVE calls' \in 0..MaxCalls
  BY <1>1, CpuAssumption DEF HostCall, TypeOK
<1>2. ASSUME Reset PROVE TypeOK'
  <2>1. calls' \in 0..MaxCalls
    BY <1>1, <1>2 DEF Reset
  <2>2. registers' \in Registers /\ next_pc' \in Word
    BY <1>2, BootedTyped DEF Reset, TypeOK
  <2>3. psr' \in Psr
    BY <1>2 DEF Reset, TypeOK, Psr
  <2>4. IsMemory(memory')
    BY <1>2 DEF Reset, TypeOK
  <2>. QED  BY <1>2, <2>1, <2>2, <2>3, <2>4 DEF Reset, TypeOK, history
<1>3. ASSUME NEW p \in Pokes, Poke(p[1], p[2]) PROVE TypeOK'
  <2>1. calls' \in 0..MaxCalls
    BY <1>1, <1>3 DEF Poke
  <2>2. p[1] \in Word /\ p[2] \in Half
    BY CpuAssumption
  <2>3. p[1] \in Int /\ p[2] \in Nat
    BY <2>2, Masked, Sizes DEF Half
  <2>4. IsMemory(memory')
    BY <1>3, <2>3, WritesTyped DEF Poke, TypeOK
  <2>. QED  BY <1>3, <2>1, <2>4 DEF Poke, TypeOK, history
<1>4. ASSUME NEW n \in RunArgs, NEW loop \in CountedLoops, CountedRun(loop, n)
      PROVE  TypeOK'
  <2>1. calls' \in 0..MaxCalls
    BY <1>1, <1>4 DEF CountedRun
  <2>2. cpu_prefetch' \in Prefetches
    BY <1>4, PrefetchedTyped DEF CountedRun, TypeOK
  <2>3. n \in 0..SizeT-1
    BY CpuAssumption
  <2>4. IsMemory(memory')
    BY <1>4 DEF CountedRun, TypeOK
  <2>. QED  BY <1>4, <2>1, <2>2, <2>3, <2>4 DEF CountedRun, TypeOK
<1>5. ASSUME Run PROVE TypeOK'
  <2>1. calls' \in 0..MaxCalls
    BY <1>1, <1>5 DEF Run
  <2>2. IsMemory(memory')
    BY <1>5 DEF Run, TypeOK
  <2>. QED  BY <1>5, <2>1, <2>2 DEF Run, TypeOK, history
<1>6. "run_n" \in CountedLoops /\ "verbose_run" \in CountedLoops
  BY DEF CountedLoops
<1>. QED  BY <1>2, <1>3, <1>4, <1>5, <1>6 DEF Host, RunN, VerboseRun

(* A fetch keeps the types and leaves the PC one half-word ahead of        *)
(* next_pc.                                                                *)
LEMMA FetchTyped ==
  ASSUME TypeOK, Fetch
  PROVE  TypeOK' /\ Synced'
<1>1. registers[PC] \in Word /\ PC \in 0..15 /\ registers \in Registers
  BY TypesOfState DEF Machine
<1>2. Plus(registers[PC], 2) \in Word
  <2>1. registers[PC] \in Int /\ 2 \in Int
    BY <1>1, Masked
  <2>. QED  BY <2>1, Sums
<1>3. /\ registers' \in Registers /\ next_pc' \in Word
      /\ next_pc' = registers[PC] /\ registers'[PC] = Plus(registers[PC], 2)
  BY <1>1, <1>2 DEF Fetch, Registers
<1>4. cpu_prefetch[0] \in Half /\ cpu_prefetch[1] \in Half
  BY DEF TypeOK, Prefetches
<1>5. IsMemory(memory) /\ memory' = memory
  BY DEF TypeOK, Fetch
<1>6. cpu_prefetch' \in Prefetches
  BY <1>4, <1>5, ReadsTyped DEF Fetch, Prefetches
<1>7. IsMemory(memory')
  BY <1>5
<1>8. TypeOK'
  BY <1>3, <1>4, <1>6, <1>7 DEF Fetch, TypeOK, history
<1>. QED  BY <1>3, <1>8 DEF Synced

(* The loop test keeps the types; n_instr wraps within size_t.             *)
LEMMA LoopTestTyped ==
  ASSUME TypeOK, LoopTest
  PROVE  TypeOK'
<1>1. (n_instr - 1) % SizeT \in 0..SizeT-1
  BY CpuAssumption DEF TypeOK
<1>2. IsMemory(memory')
  BY DEF LoopTest, TypeOK
<1>. QED  BY <1>1, <1>2 DEF LoopTest, TypeOK, history

(* Every step keeps the types.                                             *)
LEMMA NextTyped ==
  ASSUME TypeOK, [Next]_vars
  PROVE  TypeOK'
<1>1. CASE Host
  BY <1>1, HostTyped
<1>2. CASE Fetch
  BY <1>2, FetchTyped
<1>3. CASE ExecuteOp
  BY <1>3, ExecuteTyped
<1>4. CASE LoopTest
  BY <1>4, LoopTestTyped
<1>5. CASE UNCHANGED vars
  BY <1>5 DEF vars, TypeOK, history, IsMemory
<1>. QED  BY <1>1, <1>2, <1>3, <1>4, <1>5 DEF Next, Step

(* Every member of class cpu keeps its type, the memory keeps bytes, and   *)
(* the count of the loop stays in its range.                               *)
THEOREM TypeCorrect == Spec => []TypeOK
<1>1. Init => TypeOK
  BY InitTyped
<1>2. TypeOK /\ [Next]_vars => TypeOK'
  BY NextTyped
<1>. QED  BY <1>1, <1>2, PTL DEF Spec

-----------------------------------------------------------------------------
(* The pipeline.                                                           *)
LEMMA SyncStep ==
  ASSUME TypeOK, PipelineSync, [Next]_vars
  PROVE  PipelineSync'
<1>1. ASSUME Host PROVE PipelineSync'
  <2>1. CASE Reset
    <3>1. Synced'
      BY <2>1, BootedTyped DEF Reset, Synced, TypeOK
    <3>. QED  BY <3>1 DEF PipelineSync
  <2>2. ASSUME NEW p \in Pokes, Poke(p[1], p[2]) PROVE PipelineSync'
    BY <2>2 DEF Poke, HostCall, PipelineSync, Synced
  <2>3. ASSUME NEW n, NEW loop, CountedRun(loop, n) PROVE PipelineSync'
    BY <2>3 DEF CountedRun, HostCall, PipelineSync, Synced
  <2>4. CASE Run
    BY <2>4 DEF Run, HostCall, PipelineSync, Synced
  <2>. QED  BY <1>1, <2>1, <2>2, <2>3, <2>4 DEF Host, RunN, VerboseRun
<1>2. ASSUME Fetch PROVE PipelineSync'
  BY <1>2, FetchTyped DEF PipelineSync
<1>3. ASSUME ExecuteOp PROVE PipelineSync'
  <2>1. Synced
    BY <1>3 DEF ExecuteOp, PipelineSync
  <2>2. Quiet => Synced'
    BY <2>1 DEF Quiet, Synced
  <2>3. Landed => Synced'
    BY DEF Landed, Refilled, Synced
  <2>4. Threw => thrown' /\ phase' = "idle"
    BY DEF Threw, Throw
  <2>. QED  BY <1>3, <2>2, <2>3, <2>4, HandlersKept DEF Kept, PipelineSync
<1>4. ASSUME LoopTest PROVE PipelineSync'
  BY <1>4 DEF LoopTest, PipelineSync, Synced
<1>5. CASE UNCHANGED vars
  BY <1>5 DEF vars, PipelineSync, Synced
<1>. QED  BY <1>1, <1>2, <1>3, <1>4, <1>5 DEF Next, Step

(* registers[15] is one half-word ahead of next_pc whatever instructions   *)
(* run and whatever the host calls, but for what an exception leaves until *)
(* the first fetch of the next run or a reset.                             *)
THEOREM PipelineInSync == Spec => []PipelineSync
<1>1. Init => PipelineSync
  BY InitTyped DEF PipelineSync
<1>2. TypeOK /\ PipelineSync /\ [Next]_vars => PipelineSync'
  BY SyncStep
<1>. QED  BY <1>1, <1>2, TypeCorrect, PTL DEF Spec

(* A fetch shifts the buffer by the half-word that next_pc moves by.       *)
LEMMA FetchCoherent ==
  ASSUME TypeOK, Fetch, Synced, Coherent
  PROVE  Coherent'
<1>1. next_pc \in Word /\ registers[PC] \in Word
  BY TypesOfState DEF TypeOK
<1>2. next_pc + 2 * 1 = next_pc + 2 /\ registers[PC] + 2 * 0 = registers[PC]
      /\ registers[PC] + 2 * 1 = registers[PC] + 2
  <2>1. \A x \in Int : x + 2 * 1 = x + 2 /\ x + 2 * 0 = x
    OBVIOUS
  <2>. QED  BY <1>1, <2>1, Masked
<1>3. registers[PC] % WORD = registers[PC]
  BY <1>1, WordSize DEF Word
<1>4. Plus(next_pc, 2 * 1) = registers[PC] /\ Plus(registers[PC], 2 * 0) = registers[PC]
      /\ Plus(registers[PC], 2 * 1) = Plus(registers[PC], 2)
  BY <1>2, <1>3 DEF Synced, Plus
<1>5. cpu_prefetch[1] = Read16(memory, registers[PC])
  BY <1>4 DEF Coherent, Prefetched
<1>6. cpu_prefetch' = [i \in 0..1 |-> IF i = 0 THEN Read16(memory, registers[PC])
                                  ELSE Read16(memory, Plus(registers[PC], 2))]
  BY <1>5 DEF Fetch
<1>7. Prefetched(memory, registers[PC])
        = [i \in 0..1 |-> IF i = 0 THEN Read16(memory, registers[PC])
                                  ELSE Read16(memory, Plus(registers[PC], 2))]
  <2>1. \A i \in 0..1 : Read16(memory, Plus(registers[PC], 2 * i))
          = IF i = 0 THEN Read16(memory, registers[PC])
                     ELSE Read16(memory, Plus(registers[PC], 2))
    <3>1. \A i \in 0..1 : i = 0 \/ i = 1
      OBVIOUS
    <3>. QED  BY <1>4, <3>1
  <2>. QED  BY <2>1 DEF Prefetched
<1>8. next_pc' = registers[PC] /\ memory' = memory
  BY DEF Fetch
<1>. QED  BY <1>6, <1>7, <1>8 DEF Coherent

(* One step of a run keeps a coherent prefetch buffer coherent.            *)
LEMMA KeptStep ==
  ASSUME TypeOK, [Next]_vars, phase # "idle", Synced, Coherent,
         SameWindow(memory, memory', next_pc')
  PROVE  Coherent'
<1>1. CASE Host
  BY <1>1 DEF Host, Reset, Poke, RunN, VerboseRun, CountedRun, Run, HostCall
<1>2. CASE Fetch
  BY <1>2, FetchCoherent
<1>3. CASE ExecuteOp
  <2>1. Kept
    BY <1>3, HandlersKept
  <2>2. ASSUME UNCHANGED <<next_pc, cpu_prefetch>> PROVE Coherent'
    BY <2>2 DEF Coherent, SameWindow
  <2>3. ASSUME NEW target, Refilled(target) PROVE Coherent'
    BY <2>3 DEF Refilled, Coherent
  <2>. QED  BY <2>1, <2>2, <2>3 DEF Kept, Quiet, Landed, Threw
<1>4. CASE LoopTest
  BY <1>4 DEF LoopTest, Coherent
<1>5. CASE UNCHANGED vars
  BY <1>5 DEF vars, Coherent
<1>. QED  BY <1>1, <1>2, <1>3, <1>4, <1>5 DEF Next, Step

(* No fetch, no handler and no exception puts into the prefetch buffer     *)
(* anything but the half-words memory has at next_pc, so that only a store *)
(* into the two half-words already fetched makes the program run something *)
(* else than what memory holds.                                            *)
THEOREM PrefetchIsKept == Spec => PrefetchKept
<1>1. TypeOK /\ [Next]_vars
        => (phase # "idle" /\ Synced /\ Coherent /\ SameWindow(memory, memory', next_pc')
              => Coherent')
  BY KeptStep
<1>2. Spec => [][phase # "idle" /\ Synced /\ Coherent
                   /\ SameWindow(memory, memory', next_pc') => Coherent']_vars
  BY <1>1, TypeCorrect, PTL DEF Spec
<1>. QED  BY <1>2 DEF PrefetchKept

(* A remainder is found by naming the quotient.                            *)
LEMMA Remainder ==
  ASSUME NEW d \in Nat \ {0}, NEW q \in Int, NEW r \in 0..d-1
  PROVE  (d * q + r) % d = r
OBVIOUS

(* Two back from two ahead of a word is the word, round the end of memory. *)
LEMMA TwoAndBack ==
  ASSUME NEW x \in Word
  PROVE  Minus(Plus(x, 2), 2) = x
<1>1. WORD \in Nat /\ WORD > 2 /\ x \in Nat /\ x < WORD
  <2>1. BYTE > 2
    BY DEF BYTE
  <2>. QED  BY <2>1, Sizes, WordSize DEF Word
<1>2. CASE x + 2 < WORD
  <2>1. Plus(x, 2) = x + 2
    BY <1>1, <1>2 DEF Plus
  <2>. QED  BY <1>1, <2>1 DEF Minus
<1>3. CASE x + 2 >= WORD
  <2>1. Plus(x, 2) = x + 2 - WORD
    <3>1. x + 2 = WORD * 1 + (x + 2 - WORD) /\ x + 2 - WORD \in 0..WORD-1
      BY <1>1, <1>3
    <3>. QED  BY <1>1, <3>1, Remainder DEF Plus
  <2>2. x - WORD = WORD * (-1) + x /\ x \in 0..WORD-1
    BY <1>1
  <2>3. x + 2 - WORD - 2 = x - WORD
    BY <1>1
  <2>. QED  BY <1>1, <2>1, <2>2, <2>3, Remainder DEF Minus
<1>. QED  BY <1>1, <1>2, <1>3

(* ExecutesMemory with what it rests on: the buffer is what memory holds,  *)
(* between the runs as well.                                               *)
BufferHeld == ~thrown /\ ~stale => Coherent

HeldInv == BufferHeld /\ ExecutesMemory

(* One step of a run or of the host keeps the buffer and the instruction   *)
(* taken from it to what memory holds.                                     *)
LEMMA HeldStep ==
  ASSUME TypeOK, PipelineSync, HeldInv, [Next]_vars
  PROVE  HeldInv'
<1>. SUFFICES ASSUME ~thrown', ~stale'
              PROVE  Coherent' /\ (phase' = "execute"
                                    => instr' = Read16(memory', Minus(next_pc', 2)))
  BY DEF HeldInv, BufferHeld, ExecutesMemory
<1>1. CASE Host
  <2>1. CASE Reset
    BY <2>1 DEF Reset
  <2>2. ASSUME NEW p \in Pokes, Poke(p[1], p[2]) PROVE Coherent'
    <3>1. Coherent /\ SameWindow(memory, memory', next_pc)
      BY <2>2 DEF Poke, HeldInv, BufferHeld
    <3>. QED  BY <2>2, <3>1 DEF Poke, Coherent, SameWindow
  <2>3. ASSUME NEW n, NEW loop, CountedRun(loop, n) PROVE Coherent'
    BY <2>3 DEF CountedRun, Coherent
  <2>4. ASSUME Run PROVE Coherent'
    BY <2>4 DEF Run, history, Coherent, HeldInv, BufferHeld
  <2>5. phase' # "execute"
    BY <1>1 DEF Host, Reset, Poke, RunN, VerboseRun, CountedRun, Run, HostCall
  <2>. QED  BY <1>1, <2>1, <2>2, <2>3, <2>4, <2>5 DEF Host, RunN, VerboseRun
<1>2. CASE Fetch
  <2>1. Synced /\ Coherent
    BY <1>2 DEF Fetch, history, PipelineSync, HeldInv, BufferHeld
  <2>2. next_pc \in Word
    BY DEF TypeOK
  <2>3. Plus(next_pc, 2 * 0) = next_pc
    <3>1. next_pc \in Int /\ next_pc + 2 * 0 = next_pc /\ next_pc % WORD = next_pc
      BY <2>2, WordSize DEF Word
    <3>. QED  BY <3>1 DEF Plus
  <2>4. instr' = Read16(memory, next_pc)
    BY <1>2, <2>1, <2>3 DEF Fetch, Coherent, Prefetched
  <2>5. next_pc' = Plus(next_pc, 2) /\ memory' = memory
    BY <1>2, <2>1 DEF Fetch, Synced
  <2>. QED  BY <1>2, <2>1, <2>2, <2>4, <2>5, TwoAndBack, FetchCoherent
<1>3. CASE ExecuteOp
  <2>1. phase = "execute" /\ Kept
    BY <1>3, HandlersKept DEF ExecuteOp
  <2>2. Return
    BY <2>1 DEF Kept, Quiet, Landed, Threw, Throw
  <2>3. Synced /\ Coherent
    BY <2>1, <2>2 DEF Return, PipelineSync, HeldInv, BufferHeld
  <2>4. SameWindow(memory, memory', next_pc')
    BY <2>2 DEF Return
  <2>. QED  BY <2>1, <2>2, <2>3, <2>4, KeptStep DEF Return
<1>4. CASE LoopTest
  BY <1>4 DEF LoopTest, history, Coherent, HeldInv, BufferHeld
<1>5. CASE UNCHANGED vars
  BY <1>5 DEF vars, Coherent, HeldInv, BufferHeld, ExecutesMemory
<1>. QED  BY <1>1, <1>2, <1>3, <1>4, <1>5 DEF Next, Step

(* A run executes what memory holds at the position the pipeline is in,    *)
(* whatever program it runs and whatever the host did before, as long as   *)
(* the buffer was filled for where the program is.                         *)
THEOREM MemoryIsExecuted == Spec => []ExecutesMemory
<1>1. Init => HeldInv
  BY DEF Init, HeldInv, BufferHeld, ExecutesMemory
<1>2. TypeOK /\ PipelineSync /\ HeldInv /\ [Next]_vars => HeldInv'
  BY HeldStep
<1>3. HeldInv => ExecutesMemory
  BY DEF HeldInv
<1>. QED  BY <1>1, <1>2, <1>3, TypeCorrect, PipelineInSync, PTL DEF Spec

-----------------------------------------------------------------------------
(* Even addresses.                                                         *)
LEMMA EvenStep ==
  ASSUME TypeOK, [Next]_vars, phase # "idle", IsEven(registers[PC])
  PROVE  IsEven(registers'[PC])
<1>1. CASE Host
  BY <1>1 DEF Host, Reset, Poke, RunN, VerboseRun, CountedRun, Run, HostCall
<1>2. CASE Fetch
  <2>1. registers[PC] \in Int /\ 2 \in Int /\ IsEven(2)
    BY TypesOfState, Masked DEF IsEven
  <2>2. registers'[PC] = Plus(registers[PC], 2)
    BY <1>2, TypesOfState DEF Fetch, Machine, Registers
  <2>. QED  BY <2>1, <2>2, EvenSums
<1>3. CASE ExecuteOp
  BY <1>3, HandlersKept DEF Kept, Quiet, Landed, Threw
<1>4. CASE LoopTest
  BY <1>4 DEF LoopTest
<1>5. CASE UNCHANGED vars
  BY <1>5 DEF vars
<1>. QED  BY <1>1, <1>2, <1>3, <1>4, <1>5 DEF Next, Step

(* A program that is on an even address stays on even addresses, through   *)
(* every branch, BX, pop of the PC and write to it.                        *)
THEOREM PcIsEven == Spec => PcStaysEven
<1>1. TypeOK /\ [Next]_vars => (phase # "idle" /\ registers[PC] % 2 = 0
                                  => registers'[PC] % 2 = 0)
  BY EvenStep DEF IsEven
<1>2. Spec => [][phase # "idle" /\ registers[PC] % 2 = 0
                   => registers'[PC] % 2 = 0]_vars
  BY <1>1, TypeCorrect, PTL DEF Spec
<1>. QED  BY <1>2 DEF PcStaysEven

-----------------------------------------------------------------------------
(* The count of a counted run.  First, one decrement of a size_t.          *)
LEMMA Decrement ==
  ASSUME NEW n \in 0..SizeT-1
  PROVE  (n - 1) % SizeT = IF n = 0 THEN SizeT - 1 ELSE n - 1
<1>1. SizeT \in Nat \ {0}
  BY CpuAssumption
<1>2. CASE n = 0
  <2>1. -1 = SizeT * (-1) + (SizeT - 1) /\ SizeT - 1 \in 0..SizeT-1
    BY <1>1
  <2>2. (-1) % SizeT = SizeT - 1
    BY <1>1, <2>1
  <2>. QED  BY <1>2, <2>2
<1>3. CASE n # 0
  BY <1>1, <1>3
<1>. QED  BY <1>2, <1>3

(* One step keeps the count of the turns made and left.                    *)
LEMMA CountStep ==
  ASSUME TypeOK, RunCount, [Next]_vars
  PROVE  RunCount'
<1>1. SizeT \in Nat \ {0} /\ n_instr \in 0..SizeT-1 /\ asked \in 0..SizeT-1
      /\ done \in Nat
  BY CpuAssumption DEF TypeOK
<1>2. CASE Reset \/ \E p \in Pokes : Poke(p[1], p[2])
  BY <1>2 DEF Reset, Poke, HostCall, RunCount, history, Turns
<1>3. CASE Run
  BY <1>3 DEF Run, RunCount, CountedLoops
<1>4. ASSUME NEW n \in RunArgs, NEW loop, CountedRun(loop, n) PROVE RunCount'
  <2>1. n \in Nat
    BY CpuAssumption
  <2>. QED  BY <1>1, <1>4, <2>1 DEF CountedRun, RunCount, Turns
<1>5. CASE Fetch
  BY <1>5 DEF Fetch, RunCount, history, Turns
<1>6. CASE ExecuteOp
  <2>1. phase = "execute" /\ (Return \/ Throw)
    BY <1>6, HandlersKept DEF ExecuteOp, Kept, Quiet, Landed, Threw
  <2>2. CASE Return
    BY <1>1, <2>1, <2>2 DEF Return, RunCount, Turns
  <2>3. CASE Throw
    BY <2>3 DEF Throw, RunCount, CountedLoops
  <2>. QED  BY <2>1, <2>2, <2>3
<1>7. CASE LoopTest
  <2>. SUFFICES ASSUME caller \in CountedLoops PROVE RunCount'
    BY <1>7 DEF LoopTest, RunCount
  <2>1. caller # "run"
    BY DEF CountedLoops
  <2>2. Turns(n_instr) + done - 1 = Turns(asked) /\ (holdState => done = 1)
    BY <1>7 DEF LoopTest, RunCount
  <2>3. CASE holdState
    BY <1>7, <2>2, <2>3 DEF LoopTest, RunCount, history, Turns
  <2>4. CASE ~holdState
    <3>1. n_instr' = IF n_instr = 0 THEN SizeT - 1 ELSE n_instr - 1
      BY <1>1, <1>7, <2>1, <2>4, Decrement DEF LoopTest
    <3>2. phase' = IF n_instr' = 0 THEN "idle" ELSE "fetch"
      BY <1>7, <2>1, <2>4 DEF LoopTest
    <3>3. n_instr' = Turns(n_instr) - 1
      BY <1>1, <3>1 DEF Turns
    <3>4. UNCHANGED <<holdState, caller, asked, done>>
      BY <1>7 DEF LoopTest, history
    <3>5. n_instr' = 0 => done = Turns(asked)
      BY <1>1, <2>2, <3>3 DEF Turns
    <3>6. n_instr' # 0 => n_instr' + done = Turns(asked)
      BY <1>1, <2>2, <3>3 DEF Turns
    <3>. QED  BY <2>4, <3>2, <3>4, <3>5, <3>6 DEF RunCount, Turns
  <2>. QED  BY <2>3, <2>4
<1>8. CASE UNCHANGED vars
  BY <1>8 DEF vars, RunCount, history, Turns
<1>. QED
  BY <1>2, <1>3, <1>4, <1>5, <1>6, <1>7, <1>8 DEF Next, Step, Host, RunN, VerboseRun

(* run(n) and verbose_run(n) execute n instructions, all of size_t when n  *)
(* is 0 and one when holdState is set, unless an exception ends them.      *)
THEOREM RunsCount == Spec => []RunCount
<1>1. Init => RunCount
  BY DEF Init, RunCount, CountedLoops
<1>2. TypeOK /\ RunCount /\ [Next]_vars => RunCount'
  BY CountStep
<1>. QED  BY <1>1, <1>2, TypeCorrect, PTL DEF Spec
(* A run that is on has a step left.                                       *)
LEMMA LeftPositive ==
  ASSUME TypeOK, phase # "idle"
  PROVE  StepsLeft \in Nat \ {0}
<1>1. SizeT \in Nat \ {0} /\ n_instr \in 0..SizeT-1
  BY CpuAssumption DEF TypeOK
<1>2. Turns(n_instr) \in Nat \ {0}
  BY <1>1 DEF Turns
<1>3. phase \in {"fetch", "execute", "test"}
  BY DEF TypeOK
<1>. QED  BY <1>2, <1>3 DEF StepsLeft

(* A step of a counted run.                                                *)
LEMMA ProgressStep ==
  ASSUME TypeOK, [Next]_vars, ~UNCHANGED vars, phase # "idle", caller \in CountedLoops
  PROVE  phase' = "idle" \/ (caller' = caller /\ StepsLeft' \in 0..StepsLeft-1)
<1> DEFINE t == Turns(n_instr)
<1>1. SizeT \in Nat \ {0} /\ n_instr \in 0..SizeT-1 /\ caller # "run"
  BY CpuAssumption DEF TypeOK, CountedLoops
<1>2. t \in Nat \ {0}
  BY <1>1 DEF Turns
<1>3. /\ phase = "fetch" => StepsLeft = 3 * t
      /\ phase = "execute" => StepsLeft = 3 * t - 1
      /\ phase = "test" => StepsLeft = 3 * t - 2
  BY <1>2 DEF StepsLeft
<1>4. /\ phase' = "fetch" => StepsLeft' = 3 * t'
      /\ phase' = "execute" => StepsLeft' = 3 * t' - 1
      /\ phase' = "test" => StepsLeft' = 3 * t' - 2
  <2>1. t' \in Nat
    <3>1. n_instr' \in 0..SizeT-1
      BY NextTyped DEF TypeOK
    <3>. QED  BY <1>1, <3>1 DEF Turns
  <2>. QED  BY <2>1 DEF StepsLeft
<1>5. n_instr' = n_instr => t' = t
  BY DEF Turns
<1> HIDE DEF t
<1>6. CASE Fetch
  BY <1>2, <1>3, <1>4, <1>5, <1>6 DEF Fetch
<1>7. CASE ExecuteOp
  <2>1. phase = "execute" /\ (Return \/ Throw)
    BY <1>7, HandlersKept DEF ExecuteOp, Kept, Quiet, Landed, Threw
  <2>. QED  BY <1>2, <1>3, <1>4, <1>5, <2>1 DEF Return, Throw
<1>8. CASE LoopTest
  <2>. SUFFICES ASSUME phase' # "idle"
                PROVE  caller' = caller /\ StepsLeft' \in 0..StepsLeft-1
    OBVIOUS
  <2>1. /\ phase = "test" /\ ~holdState /\ n_instr' # 0 /\ phase' = "fetch"
        /\ n_instr' = (n_instr - 1) % SizeT /\ caller' = caller
    BY <1>1, <1>8 DEF LoopTest
  <2>2. n_instr' = IF n_instr = 0 THEN SizeT - 1 ELSE n_instr - 1
    BY <1>1, <2>1, Decrement
  <2>3. t' = t - 1
    BY <1>1, <2>1, <2>2 DEF t, Turns
  <2>4. t' # 0
    BY <1>1, <2>1, <2>2 DEF t, Turns
  <2>. QED  BY <1>2, <1>3, <1>4, <2>1, <2>3, <2>4
<1>. QED  BY <1>6, <1>7, <1>8 DEF Next, Step, Host, HostCall, Reset, Poke, RunN, VerboseRun, CountedRun, Run

(* Every step of run(n) and verbose_run(n) ends it or takes it nearer to   *)
(* its end, for every n and every size of size_t: the measure that makes   *)
(* the liveness property RunReturns a matter of fairness alone.            *)
THEOREM RunsProgress == Spec => RunProgress
<1>1. TypeOK /\ [Next]_vars
        => [phase # "idle" /\ caller \in CountedLoops
              => phase' = "idle" \/ (caller' = caller /\ StepsLeft' \in 0..StepsLeft-1)]_vars
  BY ProgressStep
<1>. QED  BY <1>1, TypeCorrect, PTL DEF Spec, RunProgress

-----------------------------------------------------------------------------
(* The pipelined processor implements the processor without a pipeline of  *)
(* ProgramOrder, for every width of the word, every program and any use    *)
(* the host makes of it.                                                   *)

(* ProgramOrder is instantiated with the words, the memory and the decoder *)
(* of the processor, so its operators are the processor's.                 *)
LEMMA SameWords ==
  /\ \A a, b : Order!Plus(a, b) = Plus(a, b)
  /\ \A a : Order!Even(a) = Even(a) /\ Order!Aligned4(a) = Aligned4(a)
  /\ \A a, k : Order!BitAt(a, k) = BitAt(a, k)
<1>1. Order!WORD = WORD
  BY DEF Order!WORD, WORD
<1>. QED
  BY <1>1 DEF Order!Plus, Plus, Order!Even, Even, Order!Aligned4, Aligned4,
              Order!BitAt, BitAt

(* The fields of an instruction.                                           *)
LEMMA SameFields ==
  ASSUME NEW i
  PROVE  /\ Order!Reg0(i) = Reg0(i) /\ Order!RegX(i) = RegX(i)
         /\ Order!HiOp(i) = HiOp(i) /\ Order!Cond(i) = Cond(i)
         /\ Order!Rlist(i) = Rlist(i)
         /\ \A k : Order!Flag(i, k) = Flag(i, k)
         /\ Order!IsPop(i) = IsPop(i)
         /\ Order!Offset8(i) = Offset8(i) /\ Order!Offset11(i) = Offset11(i)
<1>1. \A k : Order!Flag(i, k) = Flag(i, k)
  BY SameWords DEF Order!Flag, Flag
<1>2. Order!Imm8(i) = Imm8(i)
  BY DEF Order!Imm8, Imm8
<1>3. Order!Offset8(i) = Offset8(i)
  BY <1>2 DEF Order!Offset8, Offset8
<1>4. Order!Offset11(i) = Offset11(i)
  BY <1>1 DEF Order!Offset11, Offset11
<1>5. Order!Rlist(i) = Rlist(i)
  BY SameWords DEF Order!Rlist, Rlist
<1>6. Order!IsPop(i) = IsPop(i)
  BY <1>1 DEF Order!IsPop, IsPop
<1>7. /\ Order!Reg0(i) = Reg0(i) /\ Order!RegX(i) = RegX(i)
      /\ Order!HiOp(i) = HiOp(i) /\ Order!Cond(i) = Cond(i)
  BY DEF Order!Reg0, Reg0, Order!RegX, RegX, Order!HiOp, HiOp, Order!Cond, Cond
<1>. QED  BY <1>1, <1>3, <1>4, <1>5, <1>6, <1>7

(* The handler of an instruction.                                          *)
LEMMA SameHandler ==
  ASSUME NEW i
  PROVE  Order!Handler(i) = Handler(i)
<1>1. \A x : Order!BitsOf16(x) = BitsOf16(x)
  BY SameWords DEF Order!BitsOf16, BitsOf16, Order!BitPositions16, BitPositions16
<1>2. \A m, v, h : Order!Arm(m, v, h) = Arm(m, v, h)
  BY <1>1 DEF Order!Arm, Arm
<1>3. Order!Arms = Arms
  BY <1>2 DEF Order!Arms, Arms
<1>4. \A b, k : Order!Matches(b, k) = Matches(b, k)
  BY <1>3 DEF Order!Matches, Matches
<1>5. \A hits : Order!First(hits) = First(hits)
  BY DEF Order!First, First
<1>. QED  BY <1>1, <1>3, <1>4, <1>5 DEF Order!Handler, Handler

(* The conditions of a branch.                                             *)
LEMMA SameCondition ==
  ASSUME NEW cc, NEW p
  PROVE  Order!Condition(cc, p) = Condition(cc, p)
BY Zenon DEF Order!Condition, Condition

(* What memory holds.                                                      *)
LEMMA SameMemory ==
  ASSUME NEW m, NEW A
  PROVE  /\ Order!Read16(m, A) = Read16(m, A)
         /\ Order!Read32(m, A) = Read32(m, A)
         /\ \A list, r : Order!Slot(A, list, r) = Slot(A, list, r)
<1>1. Order!WORD = WORD /\ Order!BYTE = BYTE /\ Order!HALF = HALF
  BY DEF Order!WORD, WORD, Order!BYTE, BYTE, Order!HALF, HALF
<1>2. /\ Order!CODE_BEGIN = CODE_BEGIN /\ Order!CODE_END = CODE_END
      /\ Order!SRAM_BEGIN = SRAM_BEGIN /\ Order!SRAM_END = SRAM_END
  BY <1>1 DEF Order!CODE_BEGIN, CODE_BEGIN, Order!CODE_END, CODE_END,
              Order!SRAM_BEGIN, SRAM_BEGIN, Order!SRAM_END, SRAM_END
<1>3. Order!InCode(A) = InCode(A) /\ Order!InSram(A) = InSram(A)
  BY <1>2 DEF Order!InCode, InCode, Order!InSram, InSram
<1>4. Order!Mapped(A) = Mapped(A) /\ \A i : Order!Cell(A, i) = Cell(A, i)
  BY <1>2, <1>3 DEF Order!Mapped, Mapped, Order!Cell, Cell
<1>5. \A c : Order!ByteIn(m, c) = ByteIn(m, c)
  BY DEF Order!ByteIn, ByteIn
<1>6. Order!Read16(m, A) = Read16(m, A)
  BY <1>1, <1>4, <1>5 DEF Order!Read16, Read16
<1>7. Order!Read32(m, A) = Read32(m, A)
  BY <1>1, <1>4, <1>5 DEF Order!Read32, Read32
<1>8. \A list, r : Order!Slot(A, list, r) = Slot(A, list, r)
  <2>1. \A S : Order!Cardinality(S) = Cardinality(S)
    BY DEF Order!Cardinality, Cardinality
  <2>. QED  BY <2>1, SameWords DEF Order!Slot, Slot
<1>. QED  BY <1>6, <1>7, <1>8

-----------------------------------------------------------------------------
(* The words around next_pc when R15 is one half-word ahead of it.         *)
LEMMA Places ==
  ASSUME NEW x \in Word
  PROVE  Plus(Minus(x, 2), 2) = x /\ Plus(Minus(x, 2), 4) = Plus(x, 2)
<1>1. WORD \in Nat /\ WORD > 4 /\ x \in Nat /\ x < WORD
  <2>1. BYTE > 4
    BY DEF BYTE
  <2>. QED  BY <2>1, Sizes, WordSize DEF Word
<1>2. CASE x >= 2
  <2>1. Minus(x, 2) = x - 2
    BY <1>1, <1>2 DEF Minus
  <2>. QED  BY <1>1, <2>1 DEF Plus
<1>3. CASE x < 2
  <2>1. x - 2 = WORD * (-1) + (x - 2 + WORD) /\ x - 2 + WORD \in 0..WORD-1
    BY <1>1, <1>3
  <2>2. Minus(x, 2) = x - 2 + WORD
    BY <1>1, <2>1, Remainder DEF Minus
  <2>3. /\ x - 2 + WORD + 2 = WORD * 1 + x /\ x \in 0..WORD-1
        /\ x - 2 + WORD + 4 = WORD * 1 + (x + 2) /\ x + 2 \in 0..WORD-1
    BY <1>1, <1>3
  <2>4. (x - 2 + WORD + 2) % WORD = x /\ (x - 2 + WORD + 4) % WORD = x + 2
    BY <1>1, <2>3, Remainder
  <2>5. Plus(x, 2) = x + 2
    BY <1>1, <1>3 DEF Plus
  <2>. QED  BY <2>2, <2>4, <2>5 DEF Plus
<1>. QED  BY <1>1, <1>2, <1>3

(* While an instruction is executed it is at the place before next_pc,     *)
(* reads R15 as two half-words past its own place, and the other registers *)
(* as they are.                                                            *)
LEMMA Here ==
  ASSUME TypeOK, Synced, phase = "execute"
  PROVE  /\ Order!Following = next_pc
         /\ Order!Ahead = registers[PC]
         /\ \A r \in 0..15 : Order!Operand(r) = registers[r]
<1>1. next_pc \in Word
  BY DEF TypeOK
<1>2. Order!Following = next_pc /\ Order!Ahead = registers[PC]
  BY <1>1, Places, SameWords DEF Order!Following, Order!Ahead, Synced
<1>3. \A r \in 0..15 : r # 15 => [q \in 0..14 |-> registers[q]][r] = registers[r]
  OBVIOUS
<1>. QED  BY <1>2, <1>3 DEF Order!Operand, PC

-----------------------------------------------------------------------------
(* A handler that is no transfer of control goes on at next_pc.            *)
Straight == Return /\ next_pc' = next_pc

(* What such a handler is built from.                                      *)
LEMMA StraightForms ==
  /\ Keep => Straight
  /\ \A regs : SetRegisters(regs) => Straight
  /\ \A r, v : SetRegister(r, v) => Straight
  /\ \A r, o : WriteBack(r, o) => Straight
  /\ \A m, regs : SetMemory(m, regs) => Straight
BY DEF Keep, SetRegisters, SetRegister, WriteBack, SetMemory, Straight

(* The handlers that hold no transfer.                                     *)
LEMMA StraightHandlers ==
  /\ MoveShiftedRegister => Straight
  /\ AddSubtractHandler => Straight
  /\ MoveCompareAddSubtractImmediate => Straight
  /\ AluOperations => Straight
  /\ PcRelativeLoad => Straight
  /\ LoadStoreWithRegisterOffset => Straight
  /\ LoadStoreSignExtendedByteHalfword => Straight
  /\ LoadStoreWithImmediateOffset => Straight
  /\ LoadStoreHalfwordImmediateOffset => Straight
  /\ SpRelativeLoadStore => Straight
  /\ LoadAddress => Straight
  /\ AddOffsetToStackPointer => Straight
  /\ MultipleLoadStore => Straight
<1> HIDE DEF Straight
<1>1. MoveShiftedRegister => Straight
  BY StraightForms DEF MoveShiftedRegister
<1>2. AddSubtractHandler => Straight
  BY StraightForms DEF AddSubtractHandler
<1>3. MoveCompareAddSubtractImmediate => Straight
  BY StraightForms DEF MoveCompareAddSubtractImmediate
<1>4. AluOperations => Straight
  BY StraightForms DEF AluOperations
<1>5. PcRelativeLoad => Straight
  BY StraightForms DEF PcRelativeLoad
<1>6. LoadStoreWithRegisterOffset => Straight
  BY StraightForms, Zenon DEF LoadStoreWithRegisterOffset
<1>7. LoadStoreSignExtendedByteHalfword => Straight
  BY StraightForms, Zenon DEF LoadStoreSignExtendedByteHalfword
<1>8. LoadStoreWithImmediateOffset => Straight
  BY StraightForms, Zenon DEF LoadStoreWithImmediateOffset
<1>9. LoadStoreHalfwordImmediateOffset => Straight
  BY StraightForms, Zenon DEF LoadStoreHalfwordImmediateOffset
<1>10. SpRelativeLoadStore => Straight
  BY StraightForms, Zenon DEF SpRelativeLoadStore
<1>11. LoadAddress => Straight
  BY StraightForms, Zenon DEF LoadAddress
<1>12. AddOffsetToStackPointer => Straight
  BY StraightForms, Zenon DEF AddOffsetToStackPointer
<1>13. MultipleLoadStore => Straight
  BY StraightForms, Zenon DEF MultipleLoadStore
<1>. QED
  BY <1>1, <1>2, <1>3, <1>4, <1>5, <1>6, <1>7, <1>8, <1>9, <1>10, <1>11, <1>12, <1>13

(* How a handler must end to be a step of ProgramOrder.                    *)
InOrder ==
  \/ /\ Return /\ ~Order!Throws(instr) /\ Order!Target(instr, next_pc')
     /\ Handler(instr) = "long_branch_with_link"
          => registers'[14] = Even(Order!Following) + 1
  \/ Throw /\ Order!Throws(instr)

(* A handler of the straight kind is in order.                             *)
LEMMA StraightInOrder ==
  ASSUME TypeOK, Synced, phase = "execute", Straight,
         Handler(instr) \notin Order!Branching
  PROVE  InOrder
<1>1. Order!Target(instr, next_pc')
  BY Here, SameHandler DEF Order!Target, Straight
<1>. QED  BY <1>1, SameHandler DEF InOrder, Order!Throws, Order!Branching, Straight

-----------------------------------------------------------------------------
(* A jump goes to its target.                                              *)
LEMMA JumpGoes ==
  ASSUME NEW regs, NEW target, Jump(regs, target)
  PROVE  Return /\ next_pc' = target /\ registers' = [regs EXCEPT ![PC] = Plus(target, 2)]
BY DEF Jump, Land

(* B and the conditional branches.                                         *)
LEMMA BranchInOrder ==
  ASSUME TypeOK, Synced, phase = "execute",
         \/ Handler(instr) = "conditional_branch" /\ ConditionalBranch
         \/ Handler(instr) = "unconditional_branch" /\ UnconditionalBranch
  PROVE  InOrder
<1>1. ASSUME Handler(instr) = "conditional_branch", ConditionalBranch PROVE InOrder
  <2>1. Return /\ next_pc' = IF Condition(Cond(instr), psr)
                             THEN Plus(Order!Ahead, Offset8(instr)) ELSE Order!Following
    BY <1>1, JumpGoes, Here, StraightForms DEF ConditionalBranch, Straight
  <2>. QED  BY <1>1, <2>1, SameHandler, SameFields, SameCondition, SameWords
    DEF InOrder, Order!Target, Order!Throws
<1>2. ASSUME Handler(instr) = "unconditional_branch", UnconditionalBranch PROVE InOrder
  <2>1. Return /\ next_pc' = Plus(Order!Ahead, Offset11(instr))
    BY <1>2, JumpGoes, Here DEF UnconditionalBranch
  <2>. QED  BY <1>2, <2>1, SameHandler, SameFields, SameCondition, SameWords
    DEF InOrder, Order!Target, Order!Throws
<1>. QED  BY <1>1, <1>2

(* BL, with the link it leaves.                                            *)
LEMMA LongBranchInOrder ==
  ASSUME TypeOK, Synced, phase = "execute",
         Handler(instr) = "long_branch_with_link", LongBranchWithLink
  PROVE  InOrder
<1> DEFINE far == Plus(registers[PC], 4096 * ((instr % 2048) - 2048))
           link == Even(Minus(registers[PC], 2)) + 1
           regs == [registers EXCEPT ![LR] = link]
<1>1. Jump(regs, Even(far))
  BY DEF LongBranchWithLink
<1>2. Return /\ next_pc' = Even(far) /\ registers' = [regs EXCEPT ![PC] = Plus(Even(far), 2)]
  <2> HIDE DEF regs, far
  <2>. QED  BY <1>1, JumpGoes
<1>3. registers'[14] = link
  <2> HIDE DEF link, far
  <2>. QED  BY <1>2, TypesOfState DEF Machine, Registers, LR, PC
<1>4. Minus(registers[PC], 2) = Order!Following
  BY Here, TwoAndBack DEF TypeOK, Synced
<1>5. Order!Ahead = registers[PC]
  BY Here
<1>. QED  BY <1>2, <1>3, <1>4, <1>5, SameHandler, SameWords
  DEF InOrder, Order!Target, Order!Throws

(* POP {..., PC} goes where the word above the low registers says.         *)
LEMMA PopInOrder ==
  ASSUME TypeOK, Synced, phase = "execute",
         Handler(instr) = "push_pop_registers", PushPopRegisters
  PROVE  InOrder
<1>1. PC \notin Rlist(instr)
  BY DEF Rlist, PC
<1>2. SUFFICES Return /\ next_pc' = IF IsPop(instr) /\ Flag(instr, 8)
                                    THEN Order!Popped(instr) ELSE Order!Following
  BY SameHandler, SameFields DEF InOrder, Order!Target, Order!Throws
<1>3. CASE ~IsPop(instr)
  <2>1. \A list : Push(list) => Straight
    BY StraightForms, Zenon DEF Push
  <2>2. Straight
    BY <1>3, <2>1, Zenon DEF PushPopRegisters
  <2>. QED  BY <1>3, <2>2, Here DEF Straight
<1>4. CASE IsPop(instr) /\ ~Flag(instr, 8)
  <2>1. Pop(Rlist(instr) \cup {})
    BY <1>4 DEF PushPopRegisters
  <2>2. PC \notin Rlist(instr) \cup {}
    BY <1>1
  <2>3. Straight
    BY <2>1, <2>2, StraightForms, Zenon DEF Pop
  <2>. QED  BY <1>4, <2>3, Here DEF Straight
<1>5. CASE IsPop(instr) /\ Flag(instr, 8)
  <2> DEFINE list == Rlist(instr) \cup {PC}
             A == Aligned4(registers[SP])
             sp == Plus(registers[SP], 4 * Cardinality(list))
             loaded == [WithLoaded(A, list) EXCEPT ![SP] = sp]
  <2>1. Pop(list)
    BY <1>5 DEF PushPopRegisters
  <2>2. PC \in list
    OBVIOUS
  <2>3. Jump(loaded, Even(loaded[PC]))
    <3> HIDE DEF list
    <3>. QED  BY <2>1, <2>2 DEF Pop
  <2>4. loaded[PC] = Read32(memory, Slot(A, list, PC))
    <3> HIDE DEF sp, A
    <3>1. WithLoaded(A, list)[PC] = Read32(memory, Slot(A, list, PC))
      <4> HIDE DEF list
      <4>. QED  BY <2>2, TypesOfState DEF WithLoaded, ReadBlock
    <3>2. SP # PC /\ PC \in 0..15
      BY DEF SP, PC
    <3> HIDE DEF list
    <3>. QED  BY <3>1, <3>2 DEF WithLoaded
  <2>5. Return /\ next_pc' = Even(loaded[PC])
    <3> HIDE DEF loaded
    <3>. QED  BY <2>3, JumpGoes
  <2>6. Order!Popped(instr) = Even(Read32(memory, Slot(A, list, PC)))
    <3>1. [r \in 0..14 |-> registers[r]][13] = registers[SP] /\ PC = 15
      BY DEF SP, PC
    <3>2. \A s, r, B : Order!Slot(B, s, r) = Slot(B, s, r)
      BY SameMemory
    <3>3. \A B : Order!Read32(memory, B) = Read32(memory, B)
      BY SameMemory
    <3> HIDE DEF list
    <3>4. list = Order!Rlist(instr) \cup {15}
      BY <3>1, SameFields DEF list
    <3>. QED  BY <3>1, <3>2, <3>3, <3>4, SameWords DEF Order!Popped
  <2> HIDE DEF loaded, A, list
  <2>. QED  BY <1>5, <2>4, <2>5, <2>6
<1>. QED  BY <1>3, <1>4, <1>5

(* What the BLX arm finds as its address, and what it does with it.        *)
LEMMA LinkedAddress ==
  ASSUME NEW regs \in Registers, NEW base \in 0..15
  PROVE  Linked(regs, base)[PC] = IF base = LR THEN regs[PC] ELSE regs[base]
<1>1. PC \in 0..15 /\ LR \in 0..15 /\ PC # LR
  BY DEF PC, LR
<1>. QED  BY <1>1 DEF Linked, Registers

(* BX and BLX go to the address they exchange to, or throw as it is even.  *)
LEMMA BranchLinkExchangeGoes ==
  ASSUME TypeOK, Synced, phase = "execute", NEW base \in 0..15, base = RegX(instr),
         HiOp(instr) \in {14, 15}, BranchLinkExchange(base)
  PROVE  \/ /\ Return /\ Order!ExchangeAddress(instr) % 2 = 1
            /\ next_pc' = Even(Order!ExchangeAddress(instr))
         \/ Throw /\ Order!ExchangeAddress(instr) % 2 = 0
<1> DEFINE regs == Linked(registers, base)
<1>1. registers \in Registers
  BY DEF TypeOK
<1>2. regs[PC] = Order!ExchangeAddress(instr)
  BY <1>1, LinkedAddress, Here, SameFields
  DEF Order!ExchangeAddress, Order!IsBranchLinkExchange, LR
<1>3. ~IsThumb(regs) => regs[PC] % 2 = 0
  BY <1>1, LinkedTyped DEF IsEven
<1>4. \/ Land(regs, Even(regs[PC])) /\ Return /\ regs[PC] % 2 = 1
      \/ Throw /\ ~IsThumb(regs)
  <2>1. IF IsThumb(regs) THEN Land(regs, Even(regs[PC])) /\ Return ELSE Throw
    BY DEF BranchLinkExchange
  <2> HIDE DEF regs
  <2>. QED  BY <2>1 DEF IsThumb
<1> HIDE DEF regs
<1>. QED  BY <1>2, <1>3, <1>4 DEF Land

(* BX through LR or the PC finds, when it runs on into the BLX arm, the    *)
(* even address it has just put there.                                     *)
LEMMA BranchExchangeGoes ==
  ASSUME TypeOK, Synced, phase = "execute", NEW base \in 0..15, base = RegX(instr),
         HiOp(instr) \in {12, 13}, BranchExchange(base)
  PROVE  \/ /\ Return /\ Order!ExchangeAddress(instr) % 2 = 1 /\ base \notin {14, 15}
            /\ next_pc' = Even(Order!ExchangeAddress(instr))
         \/ Throw /\ (Order!ExchangeAddress(instr) % 2 = 0 \/ base \in {14, 15})
<1> DEFINE moved  == [registers EXCEPT ![PC] = registers[base]]
           target == Even(moved[PC])
           ahead  == [moved EXCEPT ![PC] = Plus(target, 2)]
           regs   == Linked(ahead, base)
<1>1. registers \in Registers /\ PC \in 0..15 /\ registers[base] \in Word
  BY TypesOfState DEF Machine
<1>2. moved \in Registers /\ moved[PC] = registers[base]
  BY <1>1 DEF Registers
<1>3. Order!ExchangeAddress(instr) = registers[base]
  BY Here, SameFields
  DEF Order!ExchangeAddress, Order!IsBranchLinkExchange
<1>4. /\ target = Even(registers[base]) /\ Plus(target, 2) \in Word
      /\ Plus(target, 2) % 2 = 0
  <2>1. target = Even(registers[base])
    BY <1>2
  <2>2. target \in Word /\ target \in Int /\ IsEven(target) /\ 2 \in Int /\ IsEven(2)
    <3> HIDE DEF target
    <3>1. target \in Word /\ IsEven(target)
      BY <1>1, <2>1, Masked
    <3>. QED  BY <3>1, Masked DEF IsEven
  <2>3. Plus(target, 2) \in Word
    <3> HIDE DEF target
    <3>. QED  BY <2>2, Sums
  <2>4. IsEven(Plus(target, 2))
    <3> HIDE DEF target
    <3>. QED  BY <2>2, EvenSums
  <2>. QED  BY <2>1, <2>3, <2>4 DEF IsEven
<1>5. ahead \in Registers /\ ahead[PC] = Plus(target, 2)
      /\ (base # PC => ahead[base] = registers[base])
  <2> HIDE DEF target
  <2>. QED  BY <1>1, <1>2, <1>4 DEF Registers
<1>6. regs[PC] = IF base \in {14, 15} THEN Plus(target, 2) ELSE registers[base]
  <2> HIDE DEF target, ahead
  <2>1. regs[PC] = IF base = LR THEN ahead[PC] ELSE ahead[base]
    BY <1>5, LinkedAddress
  <2>. QED  BY <1>5, <2>1 DEF LR, PC
<1>7. IF IsThumb(moved)
      THEN IF IsThumb(regs) THEN Land(regs, Even(regs[PC])) /\ Return ELSE Throw
      ELSE Throw
  BY DEF BranchExchange
<1>8. registers[base] % 2 = 1 \/ registers[base] % 2 = 0
  <2>1. registers[base] \in Int
    BY <1>1, Masked
  <2>2. \A x \in Int : x % 2 = 1 \/ x % 2 = 0
    OBVIOUS
  <2>. QED  BY <2>1, <2>2
<1> HIDE DEF moved, target, ahead, regs
<1>9. CASE base \in {14, 15}
  <2>1. ~IsThumb(regs)
    BY <1>4, <1>6, <1>9 DEF IsThumb
  <2>. QED  BY <1>7, <1>9, <2>1
<1>10. CASE base \notin {14, 15}
  <2>1. regs[PC] = registers[base] /\ moved[PC] = registers[base]
    BY <1>2, <1>6, <1>10
  <2>2. IF registers[base] % 2 = 1
        THEN Land(regs, Even(registers[base])) /\ Return ELSE Throw
    BY <1>7, <2>1 DEF IsThumb
  <2>3. Land(regs, Even(registers[base])) => next_pc' = Even(registers[base])
    BY DEF Land
  <2>. QED  BY <1>3, <1>8, <1>10, <2>2, <2>3
<1>. QED  BY <1>9, <1>10

(* The operations on high registers.                                       *)
LEMMA HighInOrder ==
  ASSUME TypeOK, Synced, phase = "execute",
         Handler(instr) = "hi_register_operations_branch_exchange",
         HiRegisterOperationsBranchExchange
  PROVE  InOrder
<1> DEFINE rd == Reg0(instr) + (IF Flag(instr, 7) THEN 8 ELSE 0)
           rs == RegX(instr)
<1>1. rd \in 0..15 /\ rs \in 0..15
  BY TypesOfState, Fields
<1>2. /\ Order!HighRd(instr) = rd /\ Order!RegX(instr) = rs
      /\ Order!HiOp(instr) = HiOp(instr) /\ Order!Handler(instr) = Handler(instr)
  BY SameFields, SameHandler DEF Order!HighRd
<1>3. Order!Operand(rd) = registers[rd] /\ Order!Operand(rs) = registers[rs]
  <2> HIDE DEF rd, rs
  <2>. QED  BY <1>1, Here
<1> HIDE DEF rd, rs
<1>4. ASSUME NEW value, WriteHigh(rd, value)
      PROVE  Return /\ next_pc' = IF rd = 15 THEN Even(value) ELSE Order!Following
  <2>1. CASE rd = PC
    BY <1>4, <2>1, JumpGoes DEF WriteHigh, PC
  <2>2. CASE rd # PC
    BY <1>4, <2>2, StraightForms, Here DEF WriteHigh, Straight, PC
  <2>. QED  BY <2>1, <2>2
<1>5. SUFFICES \/ /\ Return /\ Order!HighTarget(instr, next_pc')
                  /\ ~Order!Throws(instr)
               \/ Throw /\ Order!Throws(instr)
  BY <1>2 DEF InOrder, Order!Target
<1>6. HiOp(instr) \in 0..15
  BY TypesOfState, Fields
<1>7. CASE HiOp(instr) \in {1, 2, 3}
  <2>1. WriteHigh(rd, Plus(registers[rd], registers[rs]))
    BY <1>7 DEF HiRegisterOperationsBranchExchange, rd, rs
  <2>. QED
    BY <1>2, <1>3, <1>4, <1>7, <2>1, SameWords
    DEF Order!HighTarget, Order!Throws, Order!IsBranchExchange
<1>8. CASE HiOp(instr) \in {9, 10, 11}
  <2>1. WriteHigh(rd, registers[rs])
    BY <1>8 DEF HiRegisterOperationsBranchExchange, rd, rs
  <2>. QED
    BY <1>2, <1>3, <1>4, <1>8, <2>1, SameWords
    DEF Order!HighTarget, Order!Throws, Order!IsBranchExchange
<1>9. CASE HiOp(instr) \in {0, 4, 5, 6, 7, 8}
  <2>1. Straight
    BY <1>9, StraightForms DEF HiRegisterOperationsBranchExchange
  <2>. QED
    BY <1>2, <1>9, <2>1, Here
    DEF Straight, Order!HighTarget, Order!Throws, Order!IsBranchExchange
<1>10. CASE HiOp(instr) \in {12, 13}
  <2>1. BranchExchange(rs)
    BY <1>10 DEF HiRegisterOperationsBranchExchange, rs
  <2>2. \/ /\ Return /\ Order!ExchangeAddress(instr) % 2 = 1 /\ rs \notin {14, 15}
           /\ next_pc' = Even(Order!ExchangeAddress(instr))
        \/ Throw /\ (Order!ExchangeAddress(instr) % 2 = 0 \/ rs \in {14, 15})
    BY <1>1, <1>10, <2>1, BranchExchangeGoes DEF rs
  <2>. QED
    BY <1>2, <1>10, <2>2, SameWords
    DEF Order!HighTarget, Order!Throws, Order!IsBranchExchange
<1>11. CASE HiOp(instr) \in {14, 15}
  <2>1. BranchLinkExchange(rs)
    BY <1>11 DEF HiRegisterOperationsBranchExchange, rs
  <2>2. \/ /\ Return /\ Order!ExchangeAddress(instr) % 2 = 1
           /\ next_pc' = Even(Order!ExchangeAddress(instr))
        \/ Throw /\ Order!ExchangeAddress(instr) % 2 = 0
    BY <1>1, <1>11, <2>1, BranchLinkExchangeGoes DEF rs
  <2>. QED
    BY <1>2, <1>11, <2>2, SameWords
    DEF Order!HighTarget, Order!Throws, Order!IsBranchExchange
<1>. QED  BY <1>6, <1>7, <1>8, <1>9, <1>10, <1>11

(* Every arm of execute_op.                                                *)
LEMMA HandlersInOrder ==
  ASSUME TypeOK, Synced, ExecuteOp
  PROVE  InOrder
<1>1. phase = "execute"
  BY DEF ExecuteOp
<1> DEFINE h == Handler(instr)
<1>2. ASSUME Straight, h \notin Order!Branching PROVE InOrder
  BY <1>1, <1>2, StraightInOrder
<1>3. h = "hi_register_operations_branch_exchange"
        /\ HiRegisterOperationsBranchExchange => InOrder
  BY <1>1, HighInOrder
<1>4. h = "push_pop_registers" /\ PushPopRegisters => InOrder
  BY <1>1, PopInOrder
<1>5. /\ h = "conditional_branch" /\ ConditionalBranch => InOrder
      /\ h = "unconditional_branch" /\ UnconditionalBranch => InOrder
  BY <1>1, BranchInOrder
<1>6. h = "long_branch_with_link" /\ LongBranchWithLink => InOrder
  BY <1>1, LongBranchInOrder
<1>7. \/ Straight /\ h \notin Order!Branching
      \/ /\ h = "hi_register_operations_branch_exchange"
         /\ HiRegisterOperationsBranchExchange
      \/ h = "push_pop_registers" /\ PushPopRegisters
      \/ h = "conditional_branch" /\ ConditionalBranch
      \/ h = "unconditional_branch" /\ UnconditionalBranch
      \/ h = "long_branch_with_link" /\ LongBranchWithLink
  <2> HIDE DEF Straight
  <2>. QED
    BY StraightForms, StraightHandlers DEF ExecuteOp, Unimplemented, Order!Branching
<1>. QED  BY <1>2, <1>3, <1>4, <1>5, <1>6, <1>7

-----------------------------------------------------------------------------
(* The window of two half-words, as the two modules write it.              *)
LEMMA SameUpcoming ==
  ASSUME NEW m, NEW n, NEW a \in Word
  PROVE  SameWindow(m, n, a) <=> Order!Upcoming(m, a) = Order!Upcoming(n, a)
<1>1. Plus(a, 2 * 0) = a /\ Plus(a, 2 * 1) = Plus(a, 2)
  BY WordSize DEF Plus, Word
<1>2. SameWindow(m, n, a)
        <=> Read16(m, a) = Read16(n, a) /\ Read16(m, Plus(a, 2)) = Read16(n, Plus(a, 2))
  <2>1. \A x : /\ Prefetched(x, a)[0] = Read16(x, a)
               /\ Prefetched(x, a)[1] = Read16(x, Plus(a, 2))
    BY <1>1 DEF Prefetched
  <2>2. ASSUME SameWindow(m, n, a)
        PROVE  /\ Read16(m, a) = Read16(n, a)
               /\ Read16(m, Plus(a, 2)) = Read16(n, Plus(a, 2))
    BY <2>1, <2>2 DEF SameWindow
  <2>3. ASSUME Read16(m, a) = Read16(n, a), Read16(m, Plus(a, 2)) = Read16(n, Plus(a, 2))
        PROVE  SameWindow(m, n, a)
    <3>1. \A i \in 0..1 : i = 0 \/ i = 1
      OBVIOUS
    <3>2. \A i \in 0..1 : Read16(m, Plus(a, 2 * i)) = Read16(n, Plus(a, 2 * i))
      BY <1>1, <2>3, <3>1
    <3>. QED  BY <3>2 DEF SameWindow, Prefetched
  <2>. QED  BY <2>2, <2>3
<1>. QED  BY <1>2, SameWords, SameMemory DEF Order!Upcoming

(* The constructor's state is an initial state of ProgramOrder.            *)
LEMMA InitMaps == Init => Order!Init
<1>1. Read32(memory, 4) = Order!Read32(memory, 4)
  BY SameMemory
<1>2. Entry(memory) = Read32(memory, 4)
  BY DEF Entry, PC_INIT_ADDRESS
<1>. QED  BY <1>1, <1>2 DEF Init, Order!Init

(* The calls of the host.                                                  *)
LEMMA HostMaps ==
  ASSUME TypeOK, Host
  PROVE  Order!Next
<1>1. ASSUME Reset PROVE Order!Reset
  <2>1. phase = "idle" /\ phase' = "idle" /\ memory' = memory /\ stale' = TRUE
    BY <1>1 DEF Reset, HostCall
  <2>2. next_pc' = Order!Read32(memory, 4)
    BY <1>1, SameMemory DEF Reset, Entry, PC_INIT_ADDRESS
  <2>3. \A r \in 0..14 : registers'[r] = registers[r]
    <3>1. registers' = [registers EXCEPT ![15] = Plus(Entry(memory), 2)]
      BY <1>1 DEF Reset, Booted, PC
    <3> DEFINE x == Plus(Entry(memory), 2)
    <3> HIDE DEF x
    <3>2. registers' = [registers EXCEPT ![15] = x]
      BY <3>1 DEF x
    <3>. QED  BY <3>2 DEF TypeOK, Registers
  <2>4. [r \in 0..14 |-> registers'[r]] = [r \in 0..14 |-> registers[r]]
    BY <2>3
  <2>. QED  BY <2>1, <2>2, <2>4 DEF Order!Reset
<1>2. ASSUME NEW p \in Pokes, Poke(p[1], p[2]) PROVE Order!Store
  <2>1. /\ phase = "idle" /\ phase' = "idle" /\ thrown' = thrown
        /\ UNCHANGED <<registers, psr, next_pc>>
        /\ stale' = (stale \/ ~SameWindow(memory, memory', next_pc))
    BY <1>2 DEF Poke, HostCall
  <2>2. SameWindow(memory, memory', next_pc)
          <=> Order!Upcoming(memory', next_pc) = Order!Upcoming(memory, next_pc)
    BY SameUpcoming DEF TypeOK
  <2>. QED  BY <2>1, <2>2 DEF Order!Store, TypeOK
<1>3. ASSUME NEW n, NEW loop, CountedRun(loop, n) PROVE Order!Begin
  BY <1>3 DEF CountedRun, HostCall, Order!Begin, Order!data, TypeOK
<1>4. ASSUME Run PROVE Order!Begin
  BY <1>4 DEF Run, HostCall, history, Order!Begin, Order!data, TypeOK
<1>. QED  BY <1>1, <1>2, <1>3, <1>4 DEF Host, RunN, VerboseRun, Order!Next

(* A fetch does not show, when the promise is on.                          *)
LEMMA FetchMaps ==
  ASSUME TypeOK, PipelineSync, Fetch
  PROVE  Order!Next \/ UNCHANGED Order!vars
<1>1. /\ phase = "fetch" /\ phase' = "execute" /\ next_pc' = registers[PC]
      /\ UNCHANGED <<psr, memory, thrown, stale>>
  BY DEF Fetch, history
<1>2. ASSUME thrown \/ stale PROVE Order!Wander
  BY <1>1, <1>2 DEF Order!Wander, TypeOK
<1>3. ASSUME ~thrown, ~stale PROVE UNCHANGED Order!vars
  <2>1. next_pc' = Plus(next_pc, 2)
    BY <1>1, <1>3 DEF PipelineSync, Synced
  <2>2. Minus(next_pc', 2) = next_pc
    BY <2>1, TwoAndBack DEF TypeOK
  <2>3. \A r \in 0..14 : registers'[r] = registers[r]
    <3>1. registers' = [registers EXCEPT ![15] = Plus(registers[PC], 2)]
      BY DEF Fetch, PC
    <3> DEFINE x == Plus(registers[PC], 2)
    <3> HIDE DEF x
    <3>2. registers' = [registers EXCEPT ![15] = x]
      BY <3>1 DEF x
    <3>. QED  BY <3>2 DEF TypeOK, Registers
  <2>4. [r \in 0..14 |-> registers'[r]] = [r \in 0..14 |-> registers[r]]
    BY <2>3
  <2>. QED  BY <1>1, <2>2, <2>4 DEF Order!vars
<1>. QED  BY <1>2, <1>3 DEF Order!Next

(* The loop test ends a run or does not show.                              *)
LEMMA LoopTestMaps ==
  ASSUME TypeOK, LoopTest
  PROVE  Order!Next \/ UNCHANGED Order!vars
<1>1. /\ phase = "test" /\ phase' \in {"idle", "fetch"}
      /\ UNCHANGED <<registers, psr, next_pc, memory, thrown, stale>>
  BY DEF LoopTest, history
<1>2. CASE phase' = "idle"
  BY <1>1, <1>2 DEF Order!End, Order!data, Order!Next
<1>3. CASE phase' = "fetch"
  BY <1>1, <1>3 DEF Order!vars
<1>. QED  BY <1>1, <1>2, <1>3

(* A handler is an instruction of ProgramOrder, or its exception.          *)
LEMMA ExecuteMaps ==
  ASSUME TypeOK, TypeOK', PipelineSync, ExecutesMemory, ExecuteOp
  PROVE  Order!Next
<1>1. phase = "execute" /\ Synced
  BY DEF ExecuteOp, PipelineSync
<1>2. Return \/ Throw
  BY HandlersKept DEF Kept, Quiet, Landed, Threw
<1>3. ASSUME thrown \/ stale PROVE Order!Wander
  BY <1>1, <1>2, <1>3 DEF Order!Wander, Return, Throw, history, TypeOK
<1>4. ASSUME ~thrown, ~stale PROVE Order!Next
  <2>1. instr = Order!Read16(memory, Minus(next_pc, 2))
    BY <1>1, <1>4, SameMemory DEF ExecutesMemory
  <2>2. ASSUME Throw, Order!Throws(instr) PROVE Order!Throw
    BY <1>1, <1>4, <2>1, <2>2 DEF Throw, Order!Throw, TypeOK
  <2>3. ASSUME Return, ~Order!Throws(instr), Order!Target(instr, next_pc'),
               Handler(instr) = "long_branch_with_link"
                 => registers'[14] = Even(Order!Following) + 1
        PROVE  Order!Execute
    <3>1. /\ phase' = "test" /\ thrown' = FALSE
          /\ stale' = ~SameWindow(memory, memory', next_pc')
      BY <1>4, <2>3 DEF Return, TypeOK
    <3>2. SameWindow(memory, memory', next_pc')
            <=> Order!Upcoming(memory', next_pc') = Order!Upcoming(memory, next_pc')
      BY SameUpcoming DEF TypeOK
    <3>3. Order!Handler(instr) = "long_branch_with_link"
            => [r \in 0..14 |-> registers'[r]][14] = Order!Even(Order!Following) + 1
      BY <2>3, SameHandler, SameWords
    <3>. QED  BY <1>1, <1>4, <2>1, <2>3, <3>1, <3>2, <3>3 DEF Order!Execute
  <2>4. InOrder
    BY <1>1, HandlersInOrder
  <2>. QED  BY <2>2, <2>3, <2>4 DEF InOrder, Order!Next
<1>. QED  BY <1>3, <1>4 DEF Order!Next

(* The pipelined processor, with its jumps, exceptions, host calls and     *)
(* stores into its own program, implements the processor without a         *)
(* pipeline.                                                               *)
THEOREM ImplementsProgramOrder == Spec => RunsInProgramOrder
<1>1. Init => Order!Init
  BY InitMaps
<1>2. TypeOK /\ TypeOK' /\ PipelineSync /\ ExecutesMemory /\ [Next]_vars
        => [Order!Next]_Order!vars
  <2> SUFFICES ASSUME TypeOK, TypeOK', PipelineSync, ExecutesMemory, [Next]_vars
               PROVE  Order!Next \/ UNCHANGED Order!vars
    OBVIOUS
  <2>1. CASE Host
    BY <2>1, HostMaps
  <2>2. CASE Fetch
    BY <2>2, FetchMaps
  <2>3. CASE ExecuteOp
    BY <2>3, ExecuteMaps
  <2>4. CASE LoopTest
    BY <2>4, LoopTestMaps
  <2>5. CASE UNCHANGED vars
    BY <2>5 DEF vars, Order!vars
  <2>. QED  BY <2>1, <2>2, <2>3, <2>4, <2>5 DEF Next, Step
<1>. QED
  BY <1>1, <1>2, TypeCorrect, PipelineInSync, MemoryIsExecuted, PTL
  DEF Spec, Order!Spec, RunsInProgramOrder

-----------------------------------------------------------------------------
(* The tests.                                                              *)

(* The instructions of the tests.                                          *)
LEMMA TestsDecoded ==
  /\ \A i \in {\h200C, \h2101, \h210D, \h3201} :
       Handler(i) = "move_compare_add_subtract_immediate"
  /\ \A i \in {\h1840, \h1A40} : Handler(i) = "add_subtract"
  /\ \A i \in {\h467A, \h4710} :
       Handler(i) = "hi_register_operations_branch_exchange"
  /\ Handler(\hD000) = "conditional_branch"
<1>1. ASSUME NEW i \in {\h200C, \h2101, \h210D, \h3201}
      PROVE  Handler(i) = "move_compare_add_subtract_immediate"
  <2>1. 15 \notin BitsOf16(i) /\ 14 \notin BitsOf16(i) /\ 13 \in BitsOf16(i)
    BY HighBits
  <2>. QED  BY <2>1, DecodesImmediate
<1>2. ASSUME NEW i \in {\h1840, \h1A40} PROVE Handler(i) = "add_subtract"
  <2>1. /\ 15 \notin BitsOf16(i) /\ 14 \notin BitsOf16(i) /\ 13 \notin BitsOf16(i)
        /\ 12 \in BitsOf16(i) /\ 11 \in BitsOf16(i)
    BY HighBits
  <2>. QED  BY <2>1, DecodesAddSubtract
<1>3. ASSUME NEW i \in {\h467A, \h4710}
      PROVE  Handler(i) = "hi_register_operations_branch_exchange"
  <2>1. /\ 15 \notin BitsOf16(i) /\ 14 \in BitsOf16(i) /\ 13 \notin BitsOf16(i)
        /\ 12 \notin BitsOf16(i) /\ 11 \notin BitsOf16(i) /\ 10 \in BitsOf16(i)
        /\ 8 \in BitsOf16(i) \/ 7 \notin BitsOf16(i)
    BY HighBits
  <2>. QED  BY <2>1, DecodesHigh
<1>4. Handler(\hD000) = "conditional_branch"
  <2>1. /\ 15 \in BitsOf16(\hD000) /\ 14 \in BitsOf16(\hD000)
        /\ 13 \notin BitsOf16(\hD000) /\ 12 \in BitsOf16(\hD000)
        /\ 11 \notin BitsOf16(\hD000)
    BY HighBits
  <2>. QED  BY <2>1, DecodesConditional
<1>. QED  BY <1>1, <1>2, <1>3, <1>4

(* The sign bit is bit 15 or a higher one.                                 *)
LEMMA SignSize == WORD = 2 * SIGN /\ SIGN \in Nat /\ SIGN >= 32768
<1>1. WORD >= 65536
  BY Sizes DEF HALF
<1>. QED  BY <1>1, WordSize

(* The numbers and the addresses of the tests.                             *)
Small == 0..255

(* A small number is its own remainder by the word size.                   *)
LEMMA SmallWords ==
  ASSUME NEW x \in Small
  PROVE  x % WORD = x
BY SignSize DEF Small

(* 12 - 13.                                                                *)
LEMMA BelowZero == Minus(12, 13) = WORD - 1 /\ neg(WORD - 1) /\ WORD - 1 # 0
<1>1. WORD \in Nat \ {0} /\ WORD - 1 \in 0..WORD-1 /\ 12 - 13 = WORD * (-1) + (WORD - 1)
  BY SignSize
<1>2. Minus(12, 13) = WORD - 1
  BY <1>1, Remainder DEF Minus
<1>. QED  BY <1>2, SignSize DEF neg

(* The fields of the instructions of the tests.                            *)
LEMMA TestFields ==
  /\ \A i \in {\h200C, \h2101, \h210D} : Op11(i) = 0
  /\ Reg8(\h200C) = 0 /\ Imm8(\h200C) = 12
  /\ Reg8(\h2101) = 1 /\ Imm8(\h2101) = 1
  /\ Reg8(\h210D) = 1 /\ Imm8(\h210D) = 13
  /\ Reg8(\h3201) = 2 /\ Op11(\h3201) = 2 /\ Imm8(\h3201) = 1
  /\ \A i \in {\h1840, \h1A40} :
       Reg0(i) = 0 /\ Reg3(i) = 0 /\ Reg6(i) = 1 /\ ~Flag(i, 10)
  /\ Op9(\h1840) = 0 /\ Op9(\h1A40) = 1
  /\ HiOp(\h467A) = 9 /\ Reg0(\h467A) = 2 /\ RegX(\h467A) = 15
  /\ ~Flag(\h467A, 7)
  /\ Cond(\hD000) = 0 /\ Offset8(\hD000) = 0
  /\ HiOp(\h4710) = 12 /\ RegX(\h4710) = 2
BY SmallPowers DEF Reg8, Op11, Imm8, Reg0, Reg3, Reg6, Op9, Flag, BitAt, HiOp, RegX,
                   Cond, Offset8

(* MOV R0, #12. *)
LEMMA MovTwelve ==
  ASSUME ExecuteOp, instr = \h200C
  PROVE  Leaves([registers EXCEPT ![0] = 12], [psr EXCEPT !.n = FALSE, !.z = FALSE])
<1>1. /\ Handler(instr) = "move_compare_add_subtract_immediate"
      /\ Op11(instr) = 0 /\ Reg8(instr) = 0 /\ Imm8(instr) = 12
  BY TestsDecoded, TestFields
<1>. QED  BY <1>1, MovLeaves

(* MOV R1, #1. *)
LEMMA MovOne ==
  ASSUME ExecuteOp, instr = \h2101
  PROVE  Leaves([registers EXCEPT ![1] = 1], [psr EXCEPT !.n = FALSE, !.z = FALSE])
<1>1. /\ Handler(instr) = "move_compare_add_subtract_immediate"
      /\ Op11(instr) = 0 /\ Reg8(instr) = 1 /\ Imm8(instr) = 1
  BY TestsDecoded, TestFields
<1>. QED  BY <1>1, MovLeaves

(* MOV R1, #13. *)
LEMMA MovThirteen ==
  ASSUME ExecuteOp, instr = \h210D
  PROVE  Leaves([registers EXCEPT ![1] = 13], [psr EXCEPT !.n = FALSE, !.z = FALSE])
<1>1. /\ Handler(instr) = "move_compare_add_subtract_immediate"
      /\ Op11(instr) = 0 /\ Reg8(instr) = 1 /\ Imm8(instr) = 13
  BY TestsDecoded, TestFields
<1>. QED  BY <1>1, MovLeaves

(* One is added to R2, and the flags change but for t.                     *)
LeavesOneMore ==
  \E p \in Psr : /\ p.t = psr.t
                 /\ Leaves([registers EXCEPT ![2] = Plus(registers[2], 1)], p)

(* ADD R2, #1.                                                             *)
LEMMA AddOne ==
  ASSUME TypeOK, ExecuteOp, instr = \h3201
  PROVE  LeavesOneMore
<1>1. /\ Handler(instr) = "move_compare_add_subtract_immediate"
      /\ Op11(instr) = 2 /\ Reg8(instr) = 2 /\ Imm8(instr) = 1
  BY TestsDecoded, TestFields
<1>. QED  BY <1>1, AddLeaves DEF LeavesOneMore

(* MOV R2, R15.                                                            *)
LEMMA MovPc ==
  ASSUME ExecuteOp, instr = \h467A
  PROVE  Leaves([registers EXCEPT ![2] = registers[PC]], psr)
<1>1. /\ Handler(instr) = "hi_register_operations_branch_exchange"
      /\ HiOp(instr) = 9 /\ ~Flag(instr, 7) /\ Reg0(instr) = 2 /\ RegX(instr) = PC
  BY TestsDecoded, TestFields DEF PC
<1>. QED  BY <1>1, MovHighLeaves

(* ADD R0, R0, R1. *)
LEMMA AddRegisters ==
  ASSUME ExecuteOp, instr = \h1840,
         NEW s, s = Plus(registers[0], registers[1])
  PROVE  Leaves([registers EXCEPT ![0] = s], AddFlags(psr, s, registers[1], s))
<1>1. /\ Handler(instr) = "add_subtract" /\ Op9(instr) = 0
      /\ Reg0(instr) = 0 /\ Reg3(instr) = 0 /\ Reg6(instr) = 1 /\ ~Flag(instr, 10)
  BY TestsDecoded, TestFields
<1>. QED  BY <1>1, SumLeaves

(* SUB R0, R0, R1. *)
LEMMA SubRegisters ==
  ASSUME ExecuteOp, instr = \h1A40,
         NEW s, s = Minus(registers[0], registers[1])
  PROVE  Leaves([registers EXCEPT ![0] = s], AddFlags(psr, s, registers[1], s))
<1>1. /\ Handler(instr) = "add_subtract" /\ Op9(instr) = 1
      /\ Reg0(instr) = 0 /\ Reg3(instr) = 0 /\ Reg6(instr) = 1 /\ ~Flag(instr, 10)
  BY TestsDecoded, TestFields
<1>. QED  BY <1>1, SumLeaves

(* BEQ to the instruction after the next.                                  *)
LEMMA BeqOver ==
  ASSUME TypeOK, ExecuteOp, instr = \hD000
  PROVE  /\ ~psr.z => Leaves(registers, psr)
         /\ psr.z => /\ registers' = [registers EXCEPT ![PC] = Plus(registers[PC], 2)]
                     /\ next_pc' = registers[PC]
                     /\ UNCHANGED <<psr, memory>> /\ Return
<1>1. /\ Handler(instr) = "conditional_branch"
      /\ Cond(instr) = 0 /\ Offset8(instr) = 0
  BY TestsDecoded, TestFields
<1>. QED  BY <1>1, BeqLeaves

(* BX R2 to an odd address.                                                *)
LEMMA BxBack ==
  ASSUME TypeOK, ExecuteOp, instr = \h4710, registers[2] % 2 = 1
  PROVE  /\ \A r \in 0..13 : registers'[r] = registers[r]
         /\ next_pc' = registers[2] - 1
         /\ psr' = [psr EXCEPT !.t = TRUE] /\ memory' = memory /\ Return
<1>1. /\ Handler(instr) = "hi_register_operations_branch_exchange"
      /\ HiOp(instr) = 12 /\ RegX(instr) = 2
  BY TestsDecoded, TestFields
<1>. QED  BY <1>1, BxLeaves

(* The place of the instruction that is executed or is next, and what the  *)
(* tests look at.                                                          *)
Position == IF phase = "execute" THEN Minus(next_pc, 2) ELSE next_pc

Seen == <<registers[0], registers[1], registers[2], psr, memory, Position, done>>

(* Before the test's one call, and while and after it.                     *)
Ready(program) ==
  /\ Written(memory, program)
  /\ calls = 0 /\ phase = "idle" /\ caller = "none"
  /\ ~thrown /\ psr.t = TRUE
  /\ next_pc = Start

Going(program) ==
  /\ Written(memory, program)
  /\ ~thrown /\ ~stale /\ psr.t = TRUE

StepInv == TypeOK /\ PipelineSync /\ HeldInv /\ RunCount

(* A new processor on a memory that holds a program is ready to run it.    *)
LEMMA InitReady ==
  ASSUME NEW program, Init, Written(memory, program)
  PROVE  Ready(program)
<1>1. PICK p \in PsrGarbage : psr = [p EXCEPT !.t = TRUE]
  BY DEF Init
<1>2. p \in Psr
  BY <1>1, CpuAssumption
<1>3. psr.t = TRUE
  BY <1>1, <1>2 DEF Psr
<1>. QED  BY <1>3 DEF Init, Ready, Written

(* The call that starts the run.                                           *)
LEMMA TestStarts ==
  ASSUME NEW program, NEW n, Ready(program), [Next]_vars, ~Ready(program)'
  PROVE  /\ calls' # 0
         /\ Tested(n)' => Going(program)' /\ Position' = Start /\ done' = 0
<1>1. CASE UNCHANGED vars
  BY <1>1 DEF vars, Ready
<1>2. CASE Host
  <2>1. calls' # 0
    BY <1>2 DEF Host, Reset, Poke, RunN, VerboseRun, CountedRun, Run, HostCall, Ready
  <2>2. CASE Reset \/ \E p \in Pokes : Poke(p[1], p[2])
    BY <2>1, <2>2 DEF Reset, Poke, Ready, Tested, CountedLoops
  <2>3. CASE Run
    BY <2>1, <2>3 DEF Run, Tested, CountedLoops
  <2>4. ASSUME NEW k, NEW loop, CountedRun(loop, k)
        PROVE  Going(program)' /\ Position' = Start /\ done' = 0
    BY <2>4 DEF CountedRun, Going, Position, Ready
  <2>. QED  BY <1>2, <2>1, <2>2, <2>3, <2>4 DEF Host, RunN, VerboseRun
<1>3. CASE Step
  BY <1>3 DEF Step, Fetch, ExecuteOp, LoopTest, Ready
<1>. QED  BY <1>1, <1>2, <1>3 DEF Next

(* A step of the run that executes no instruction.                         *)
LEMMA TestWaits ==
  ASSUME NEW program, NEW n, StepInv, Tested(n), Going(program), [Next]_vars,
         Tested(n)', ~ExecuteOp
  PROVE  Going(program)' /\ UNCHANGED Seen
<1>1. CASE UNCHANGED vars
  BY <1>1 DEF vars, Going, Seen, Position
<1>2. CASE Host
  <2>1. calls' # 1
    BY <1>2 DEF Host, Reset, Poke, RunN, VerboseRun, CountedRun, Run, HostCall, Tested,
                StepInv, TypeOK
  <2>. QED  BY <2>1 DEF Tested
<1>3. CASE Fetch
  <2>1. Synced /\ next_pc \in Word /\ registers \in [0..15 -> Word]
    BY <1>3 DEF Fetch, Going, StepInv, PipelineSync, TypeOK, Registers
  <2>2. Minus(Plus(next_pc, 2), 2) = next_pc
    BY <2>1, TwoAndBack
  <2>3. Position' = next_pc /\ Position = next_pc
    BY <1>3, <2>1, <2>2 DEF Fetch, Position, Synced
  <2>4. registers'[0] = registers[0] /\ registers'[1] = registers[1]
        /\ registers'[2] = registers[2]
    BY <1>3, <2>1 DEF Fetch, PC
  <2>. QED  BY <1>3, <2>3, <2>4 DEF Fetch, history, Going, Seen
<1>4. CASE LoopTest
  BY <1>4 DEF LoopTest, history, Going, Seen, Position
<1>. QED  BY <1>1, <1>2, <1>3, <1>4 DEF Next, Step

(* A step that executes an instruction: it is the one in memory at its     *)
(* place, there is one still to execute, and R15 is 4 ahead.               *)
LEMMA TestExecutes ==
  ASSUME NEW program, NEW n \in Nat \ {0}, StepInv, Tested(n), Going(program), ExecuteOp
  PROVE  /\ phase = "execute" /\ done \in 0..n-1
         /\ instr = Read16(memory, Position)
         /\ registers[PC] = Plus(Position, 4)
         /\ next_pc = Plus(Position, 2)
<1>1. phase = "execute" /\ Synced /\ next_pc \in Word
  BY DEF ExecuteOp, StepInv, PipelineSync, TypeOK
<1>2. Plus(Position, 2) = next_pc /\ Plus(Position, 4) = registers[PC]
  BY <1>1, Places DEF Position, Synced
<1>3. instr = Read16(memory, Position)
  BY <1>1 DEF StepInv, HeldInv, ExecutesMemory, Going, Position
<1>4. done \in 0..n-1
  <2>1. Turns(n_instr) + done = Turns(n)
    BY <1>1 DEF StepInv, RunCount, Tested
  <2>2. Turns(n) = n /\ Turns(n_instr) \in Nat \ {0} /\ done \in Nat
    BY CpuAssumption DEF Turns, StepInv, TypeOK
  <2>. QED  BY <2>1, <2>2
<1>. QED  BY <1>1, <1>2, <1>3, <1>4

(* An instruction that goes straight on, or jumps, in a test.              *)
LEMMA TestReturns ==
  ASSUME NEW program, NEW n, Tested(n), Going(program), Return,
         memory' = memory, psr'.t = TRUE, StepInv
  PROVE  Going(program)' /\ Position' = next_pc' /\ done' = done + 1
BY DEF Return, Going, Position, Tested, SameWindow, Written

(* The flags of an addition, one by one.                                   *)
LEMMA AddFlagsFields ==
  ASSUME NEW p \in Psr, NEW a, NEW b, NEW r
  PROVE  /\ AddFlags(p, a, b, r) \in Psr
         /\ AddFlags(p, a, b, r).n = neg(r) /\ AddFlags(p, a, b, r).z = (r = 0)
         /\ AddFlags(p, a, b, r).c = add_carry(a, b, r)
         /\ AddFlags(p, a, b, r).v = add_overflow(a, b, r)
         /\ AddFlags(p, a, b, r).t = p.t
<1>1. /\ neg(r) \in BOOLEAN
      /\ add_carry(a, b, r) \in BOOLEAN /\ add_overflow(a, b, r) \in BOOLEAN
  BY DEF neg, pos, add_carry, add_overflow
<1>. QED  BY <1>1 DEF Psr, AddFlags, WithNZ

(* The flags of a sum of small words.                                      *)
LEMMA SmallFlags ==
  ASSUME NEW p \in Psr, p.t = TRUE, NEW a \in Small, NEW b \in Small, NEW r \in Small,
         NEW z \in BOOLEAN, z = (r = 0)
  PROVE  AddFlags(p, a, b, r) = Flags(FALSE, z, FALSE, FALSE)
<1> DEFINE q == AddFlags(p, a, b, r)
<1>1. neg(r) = FALSE /\ add_carry(a, b, r) = FALSE /\ add_overflow(a, b, r) = FALSE
  BY SignSize DEF neg, pos, add_carry, add_overflow, Small
<1>2. /\ q \in Psr /\ q.n = neg(r) /\ q.z = (r = 0)
      /\ q.c = add_carry(a, b, r) /\ q.v = add_overflow(a, b, r) /\ q.t = p.t
  BY AddFlagsFields
<1>3. q \in Psr /\ q.n = FALSE /\ q.z = z /\ q.c = FALSE /\ q.v = FALSE /\ q.t = TRUE
  BY <1>1, <1>2, Zenon
<1>. HIDE DEF q
<1>4. q = Flags(FALSE, z, FALSE, FALSE)
  BY <1>3 DEF Psr, Flags
<1>. QED  BY <1>4, Zenon DEF q

(* The flags of WORD - 1, which are taken from the result itself.          *)
LEMMA NegativeFlags ==
  ASSUME NEW p \in Psr, p.t = TRUE, NEW b \in Small
  PROVE  AddFlags(p, WORD - 1, b, WORD - 1) = Flags(TRUE, FALSE, FALSE, FALSE)
<1> DEFINE r == WORD - 1
           q == AddFlags(p, r, b, r)
<1>1. /\ neg(r) = TRUE /\ (r = 0) = FALSE
      /\ add_carry(r, b, r) = FALSE /\ add_overflow(r, b, r) = FALSE
  BY SignSize DEF neg, pos, add_carry, add_overflow, Small
<1>. HIDE DEF r
<1>2. /\ q \in Psr /\ q.n = neg(r) /\ q.z = (r = 0)
      /\ q.c = add_carry(r, b, r) /\ q.v = add_overflow(r, b, r) /\ q.t = p.t
  BY AddFlagsFields
<1>3. q \in Psr /\ q.n = TRUE /\ q.z = FALSE /\ q.c = FALSE /\ q.v = FALSE /\ q.t = TRUE
  BY <1>1, <1>2, Zenon
<1>. HIDE DEF q
<1>4. q = Flags(TRUE, FALSE, FALSE, FALSE)
  BY <1>3 DEF Psr, Flags
<1>. QED  BY <1>4, Zenon DEF q, r

(* The first call is not made again, and what is in a test was in it.      *)
LEMMA TestLasts ==
  ASSUME NEW n, StepInv, calls # 0, [Next]_vars
  PROVE  calls' # 0 /\ (Tested(n)' => Tested(n))
<1>1. calls \in Nat
  BY CpuAssumption DEF StepInv, TypeOK
<1>2. CASE UNCHANGED vars
  BY <1>2 DEF vars, Tested
<1>3. CASE Host
  <2>1. calls' = calls + 1
    BY <1>3 DEF Host, Reset, Poke, RunN, VerboseRun, CountedRun, Run, HostCall
  <2>. QED  BY <1>1, <2>1 DEF Tested
<1>4. CASE Fetch \/ LoopTest
  BY <1>4 DEF Fetch, LoopTest, history, Tested
<1>5. CASE ExecuteOp
  <2>1. Return \/ Throw
    BY <1>5, HandlersKept DEF StepInv, Kept, Quiet, Landed, Threw
  <2>2. CASE Return
    BY <2>2 DEF Return, Tested
  <2>3. CASE Throw
    BY <2>3 DEF Throw, Tested, CountedLoops
  <2>. QED  BY <2>1, <2>2, <2>3
<1>. QED  BY <1>2, <1>3, <1>4, <1>5 DEF Next, Step

-----------------------------------------------------------------------------
(* A small sum does not wrap.                                              *)
LEMMA SmallPlus ==
  ASSUME NEW x \in Small, NEW y \in Small, x + y \in Small
  PROVE  Plus(x, y) = x + y
BY SmallWords DEF Plus

(* An instruction of a test that goes straight on.                         *)
LEMMA TestGoesOn ==
  ASSUME NEW program, NEW n \in Nat \ {0}, StepInv, Tested(n), Going(program), ExecuteOp,
         Position \in 0..127, NEW regs, NEW p, Leaves(regs, p), p.t = TRUE
  PROVE  /\ Going(program)' /\ done' = done + 1 /\ Position' = Position + 2
         /\ registers' = regs /\ psr' = p
<1>1. next_pc = Plus(Position, 2)
  BY TestExecutes
<1>2. Position \in Small /\ 2 \in Small /\ Position + 2 \in Small
  BY DEF Small
<1>3. next_pc = Position + 2
  BY <1>1, <1>2, SmallPlus
<1>. QED  BY <1>3, TestReturns DEF Leaves

(* The half-words of a program of three.                                   *)
LEMMA ThreeWritten ==
  ASSUME NEW a, NEW b, NEW c, NEW m, Written(m, <<a, b, c>>), NEW k \in 0..2
  PROVE  Read16(m, Start + 2 * k) = IF k = 0 THEN a ELSE IF k = 1 THEN b ELSE c
<1>1. k + 1 \in 1..Len(<<a, b, c>>) /\ k + 1 - 1 = k
  OBVIOUS
<1>2. Read16(m, Start + 2 * (k + 1 - 1)) = <<a, b, c>>[k + 1]
  BY <1>1 DEF Written
<1>. QED  BY <1>1, <1>2

-----------------------------------------------------------------------------
(* MOV R0, #12; MOV R1, #1; ADD R0, R1: the machine when k instructions    *)
(* have been executed, and the invariant of the test.                      *)
AddAt(k) ==
  /\ Position = Start + 2 * k
  /\ k >= 1 => registers[0] = IF k = 3 THEN 13 ELSE 12
  /\ k >= 2 => registers[1] = 1
  /\ k = 3 => psr = Flags(FALSE, FALSE, FALSE, FALSE)

AddInv ==
  /\ calls = 0 => Ready(MovAdd)
  /\ Tested(3) => Going(MovAdd) /\ AddAt(done)

(* One instruction of MovAdd.                                              *)
LEMMA AddExecutes ==
  ASSUME StepInv, Tested(3), Going(MovAdd), AddAt(done), ExecuteOp
  PROVE  Going(MovAdd)' /\ AddAt(done)'
<1>1. done \in 0..2 /\ instr = Read16(memory, Position)
  BY TestExecutes
<1>2. TypeOK /\ registers \in [0..15 -> Word] /\ psr \in Psr /\ psr.t = TRUE
  BY DEF StepInv, TypeOK, Registers, Going
<1>3. instr = IF done = 0 THEN \h200C ELSE IF done = 1 THEN \h2101 ELSE \h1840
  BY <1>1, ThreeWritten DEF Going, MovAdd, AddAt
<1>4. ASSUME NEW regs, NEW p, Leaves(regs, p), p.t = TRUE
      PROVE  /\ Going(MovAdd)' /\ done' = done + 1 /\ Position' = Start + 2 * (done + 1)
             /\ registers' = regs /\ psr' = p
  <2>1. Position = Start + 2 * done /\ Position \in 0..127
    BY <1>1 DEF AddAt, Start
  <2>2. /\ Going(MovAdd)' /\ done' = done + 1 /\ Position' = Position + 2
        /\ registers' = regs /\ psr' = p
    BY <1>4, <2>1, TestGoesOn, 3 \in Nat \ {0}
  <2>. QED  BY <1>1, <2>1, <2>2 DEF Start
<1>5. [psr EXCEPT !.n = FALSE, !.z = FALSE].t = TRUE
  BY <1>2 DEF Psr
<1>6. CASE done = 0
  <2>1. Leaves([registers EXCEPT ![0] = 12], [psr EXCEPT !.n = FALSE, !.z = FALSE])
    BY <1>3, <1>6, MovTwelve
  <2>2. /\ Going(MovAdd)' /\ done' = done + 1 /\ Position' = Start + 2 * (done + 1)
        /\ registers' = [registers EXCEPT ![0] = 12]
    BY <1>4, <1>5, <2>1
  <2>. QED  BY <1>2, <1>6, <2>2 DEF AddAt
<1>7. CASE done = 1
  <2>1. Leaves([registers EXCEPT ![1] = 1], [psr EXCEPT !.n = FALSE, !.z = FALSE])
    BY <1>3, <1>7, MovOne
  <2>2. /\ Going(MovAdd)' /\ done' = done + 1 /\ Position' = Start + 2 * (done + 1)
        /\ registers' = [registers EXCEPT ![1] = 1]
    BY <1>4, <1>5, <2>1
  <2>. QED  BY <1>2, <1>7, <2>2 DEF AddAt
<1>8. CASE done = 2
  <2>1. registers[0] = 12 /\ registers[1] = 1
    BY <1>8 DEF AddAt
  <2>2. 13 = Plus(registers[0], registers[1])
    <3>1. Plus(12, 1) = 12 + 1
      BY SmallWords DEF Plus, Small
    <3>. QED  BY <2>1, <3>1
  <2>3. Leaves([registers EXCEPT ![0] = 13], AddFlags(psr, 13, registers[1], 13))
    BY <1>3, <1>8, <2>2, AddRegisters
  <2>4. AddFlags(psr, 13, registers[1], 13) = Flags(FALSE, FALSE, FALSE, FALSE)
    <3>1. 13 \in Small /\ 1 \in Small /\ (13 = 0) = FALSE
      BY DEF Small
    <3>2. AddFlags(psr, 13, 1, 13) = Flags(FALSE, FALSE, FALSE, FALSE)
      BY <1>2, <3>1, SmallFlags
    <3>. QED  BY <2>1, <3>2
  <2>5. Flags(FALSE, FALSE, FALSE, FALSE).t = TRUE
    BY DEF Flags
  <2>6. /\ Going(MovAdd)' /\ done' = done + 1 /\ Position' = Start + 2 * (done + 1)
        /\ registers' = [registers EXCEPT ![0] = 13]
        /\ psr' = Flags(FALSE, FALSE, FALSE, FALSE)
    BY <1>4, <2>3, <2>4, <2>5
  <2>. QED  BY <1>2, <1>8, <2>1, <2>6 DEF AddAt
<1>. QED  BY <1>1, <1>6, <1>7, <1>8

(* One step of the run of MovAdd, or before it.                            *)
LEMMA AddStep ==
  ASSUME StepInv, AddInv, [Next]_vars
  PROVE  AddInv'
<1>1. CASE calls = 0
  <2>1. Ready(MovAdd)
    BY <1>1 DEF AddInv
  <2>2. CASE Ready(MovAdd)'
    BY <2>2 DEF Ready, AddInv, Tested
  <2>3. CASE ~Ready(MovAdd)'
    <3>1. calls' # 0 /\ (Tested(3)' => Going(MovAdd)' /\ Position' = Start /\ done' = 0)
      BY <2>1, <2>3, TestStarts
    <3>2. Tested(3)' => AddAt(done)'
      BY <3>1 DEF AddAt, Start
    <3>. QED  BY <3>1, <3>2 DEF AddInv
  <2>. QED  BY <2>2, <2>3
<1>2. CASE calls # 0
  <2>1. calls' # 0 /\ (Tested(3)' => Tested(3))
    BY <1>2, TestLasts
  <2>. SUFFICES ASSUME Tested(3)' PROVE Going(MovAdd)' /\ AddAt(done)'
    BY <2>1 DEF AddInv
  <2>2. Tested(3) /\ Going(MovAdd) /\ AddAt(done)
    BY <2>1 DEF AddInv
  <2>3. CASE ~ExecuteOp
    <3>1. Going(MovAdd)' /\ UNCHANGED Seen
      BY <2>2, <2>3, TestWaits
    <3>. QED  BY <2>2, <3>1 DEF Seen, AddAt
  <2>. QED  BY <2>2, <2>3, AddExecutes
<1>. QED  BY <1>1, <1>2

(* MOV R0, #12; MOV R1, #13; SUB R0, R1.                                   *)
SubAt(k) ==
  /\ Position = Start + 2 * k
  /\ k >= 1 => registers[0] = IF k = 3 THEN WORD - 1 ELSE 12
  /\ k >= 2 => registers[1] = 13
  /\ k = 3 => psr = Flags(TRUE, FALSE, FALSE, FALSE)

SubInv ==
  /\ calls = 0 => Ready(MovSub)
  /\ Tested(3) => Going(MovSub) /\ SubAt(done)

(* One instruction of MovSub.                                              *)
LEMMA SubExecutes ==
  ASSUME StepInv, Tested(3), Going(MovSub), SubAt(done), ExecuteOp
  PROVE  Going(MovSub)' /\ SubAt(done)'
<1>1. done \in 0..2 /\ instr = Read16(memory, Position)
  BY TestExecutes
<1>2. TypeOK /\ registers \in [0..15 -> Word] /\ psr \in Psr /\ psr.t = TRUE
  BY DEF StepInv, TypeOK, Registers, Going
<1>3. instr = IF done = 0 THEN \h200C ELSE IF done = 1 THEN \h210D ELSE \h1A40
  BY <1>1, ThreeWritten DEF Going, MovSub, SubAt
<1>4. ASSUME NEW regs, NEW p, Leaves(regs, p), p.t = TRUE
      PROVE  /\ Going(MovSub)' /\ done' = done + 1 /\ Position' = Start + 2 * (done + 1)
             /\ registers' = regs /\ psr' = p
  <2>1. Position = Start + 2 * done /\ Position \in 0..127
    BY <1>1 DEF SubAt, Start
  <2>2. /\ Going(MovSub)' /\ done' = done + 1 /\ Position' = Position + 2
        /\ registers' = regs /\ psr' = p
    BY <1>4, <2>1, TestGoesOn, 3 \in Nat \ {0}
  <2>. QED  BY <1>1, <2>1, <2>2 DEF Start
<1>5. [psr EXCEPT !.n = FALSE, !.z = FALSE].t = TRUE
  BY <1>2 DEF Psr
<1>6. CASE done = 0
  <2>1. Leaves([registers EXCEPT ![0] = 12], [psr EXCEPT !.n = FALSE, !.z = FALSE])
    BY <1>3, <1>6, MovTwelve
  <2>2. /\ Going(MovSub)' /\ done' = done + 1 /\ Position' = Start + 2 * (done + 1)
        /\ registers' = [registers EXCEPT ![0] = 12]
    BY <1>4, <1>5, <2>1
  <2>. QED  BY <1>2, <1>6, <2>2 DEF SubAt
<1>7. CASE done = 1
  <2>1. Leaves([registers EXCEPT ![1] = 13], [psr EXCEPT !.n = FALSE, !.z = FALSE])
    BY <1>3, <1>7, MovThirteen
  <2>2. /\ Going(MovSub)' /\ done' = done + 1 /\ Position' = Start + 2 * (done + 1)
        /\ registers' = [registers EXCEPT ![1] = 13]
    BY <1>4, <1>5, <2>1
  <2>. QED  BY <1>2, <1>7, <2>2 DEF SubAt
<1>8. CASE done = 2
  <2>1. registers[0] = 12 /\ registers[1] = 13
    BY <1>8 DEF SubAt
  <2>2. WORD - 1 = Minus(registers[0], registers[1])
    BY <2>1, BelowZero
  <2>3. Leaves([registers EXCEPT ![0] = WORD - 1],
               AddFlags(psr, WORD - 1, registers[1], WORD - 1))
    BY <1>3, <1>8, <2>2, SubRegisters
  <2>4. AddFlags(psr, WORD - 1, registers[1], WORD - 1)
          = Flags(TRUE, FALSE, FALSE, FALSE)
    <3>1. 13 \in Small
      BY DEF Small
    <3>2. AddFlags(psr, WORD - 1, 13, WORD - 1) = Flags(TRUE, FALSE, FALSE, FALSE)
      BY <1>2, <3>1, NegativeFlags
    <3>. QED  BY <2>1, <3>2
  <2>5. Flags(TRUE, FALSE, FALSE, FALSE).t = TRUE
    BY DEF Flags
  <2>6. /\ Going(MovSub)' /\ done' = done + 1 /\ Position' = Start + 2 * (done + 1)
        /\ registers' = [registers EXCEPT ![0] = WORD - 1]
        /\ psr' = Flags(TRUE, FALSE, FALSE, FALSE)
    BY <1>4, <2>3, <2>4, <2>5
  <2>. QED  BY <1>2, <1>8, <2>1, <2>6 DEF SubAt
<1>. QED  BY <1>1, <1>6, <1>7, <1>8

(* One step of the run of MovSub, or before it.                            *)
LEMMA SubStep ==
  ASSUME StepInv, SubInv, [Next]_vars
  PROVE  SubInv'
<1>1. CASE calls = 0
  <2>1. Ready(MovSub)
    BY <1>1 DEF SubInv
  <2>2. CASE Ready(MovSub)'
    BY <2>2 DEF Ready, SubInv, Tested
  <2>3. CASE ~Ready(MovSub)'
    <3>1. calls' # 0 /\ (Tested(3)' => Going(MovSub)' /\ Position' = Start /\ done' = 0)
      BY <2>1, <2>3, TestStarts
    <3>2. Tested(3)' => SubAt(done)'
      BY <3>1 DEF SubAt, Start
    <3>. QED  BY <3>1, <3>2 DEF SubInv
  <2>. QED  BY <2>2, <2>3
<1>2. CASE calls # 0
  <2>1. calls' # 0 /\ (Tested(3)' => Tested(3))
    BY <1>2, TestLasts
  <2>. SUFFICES ASSUME Tested(3)' PROVE Going(MovSub)' /\ SubAt(done)'
    BY <2>1 DEF SubInv
  <2>2. Tested(3) /\ Going(MovSub) /\ SubAt(done)
    BY <2>1 DEF SubInv
  <2>3. CASE ~ExecuteOp
    <3>1. Going(MovSub)' /\ UNCHANGED Seen
      BY <2>2, <2>3, TestWaits
    <3>. QED  BY <2>2, <3>1 DEF Seen, SubAt
  <2>. QED  BY <2>2, <2>3, SubExecutes
<1>. QED  BY <1>1, <1>2

(* The loop of MovLoop: turn q of 12, and the s instructions of it done.   *)
TurnAt(k, q, s) ==
  /\ k = 4 + 3 * q + s
  /\ registers[1] = 1 /\ registers[2] = Start + 9
  /\ registers[0] = IF s = 0 THEN 12 - q ELSE 11 - q
  /\ Position = IF s = 2 /\ q = 11 THEN Start + 14 ELSE Start + 8 + 2 * s
  /\ s # 0 => psr = Flags(FALSE, q = 11, FALSE, FALSE)

(* The four instructions before it.                                        *)
LeadingIn(k) ==
  /\ k \in 0..3
  /\ Position = Start + 2 * k
  /\ k >= 1 => registers[0] = 12
  /\ k >= 2 => registers[1] = 1
  /\ k = 3 => registers[2] = Start + 8

LoopAt(k) == LeadingIn(k) \/ \E q \in 0..11, s \in 0..2 : TurnAt(k, q, s)

LoopInv ==
  /\ calls = 0 => Ready(MovLoop)
  /\ Tested(39) => Going(MovLoop) /\ LoopAt(done)

(* The half-words of MovLoop.                                              *)
LEMMA LoopWritten ==
  ASSUME NEW m, Written(m, MovLoop), NEW k \in 0..6
  PROVE  Read16(m, Start + 2 * k) = MovLoop[k + 1]
<1>1. k + 1 \in 1..Len(MovLoop) /\ k + 1 - 1 = k
  BY DEF MovLoop
<1>2. Read16(m, Start + 2 * (k + 1 - 1)) = MovLoop[k + 1]
  BY <1>1 DEF Written
<1>. QED  BY <1>1, <1>2

(* An instruction before the loop.                                         *)
LEMMA LeadingInExecutes ==
  ASSUME StepInv, Tested(39), Going(MovLoop), LeadingIn(done), ExecuteOp
  PROVE  Going(MovLoop)' /\ LoopAt(done)'
<1>1. /\ instr = Read16(memory, Position) /\ registers[PC] = Plus(Position, 4)
  BY TestExecutes
<1>2. TypeOK /\ registers \in [0..15 -> Word] /\ psr \in Psr /\ psr.t = TRUE
  BY DEF StepInv, TypeOK, Registers, Going
<1>3. instr = MovLoop[done + 1] /\ done \in 0..3
  BY <1>1, LoopWritten DEF Going, LeadingIn
<1>4. ASSUME NEW regs, NEW p, Leaves(regs, p), p.t = TRUE
      PROVE  /\ Going(MovLoop)' /\ done' = done + 1 /\ Position' = Start + 2 * (done + 1)
             /\ registers' = regs /\ psr' = p
  <2>1. Position = Start + 2 * done /\ Position \in 0..127
    BY DEF LeadingIn, Start
  <2>2. /\ Going(MovLoop)' /\ done' = done + 1 /\ Position' = Position + 2
        /\ registers' = regs /\ psr' = p
    BY <1>4, <2>1, TestGoesOn, 39 \in Nat \ {0}
  <2>. QED  BY <1>3, <2>1, <2>2 DEF Start
<1>5. [psr EXCEPT !.n = FALSE, !.z = FALSE].t = TRUE
  BY <1>2 DEF Psr
<1>6. CASE done = 0
  <2>1. instr = \h200C
    BY <1>3, <1>6 DEF MovLoop
  <2>2. Leaves([registers EXCEPT ![0] = 12], [psr EXCEPT !.n = FALSE, !.z = FALSE])
    BY <2>1, MovTwelve
  <2>3. /\ Going(MovLoop)' /\ done' = done + 1 /\ Position' = Start + 2 * (done + 1)
        /\ registers' = [registers EXCEPT ![0] = 12]
    BY <1>4, <1>5, <2>2
  <2>4. LeadingIn(done)'
    BY <1>2, <1>6, <2>3 DEF LeadingIn
  <2>. QED  BY <2>3, <2>4 DEF LoopAt
<1>7. CASE done = 1
  <2>1. instr = \h2101
    BY <1>3, <1>7 DEF MovLoop
  <2>2. Leaves([registers EXCEPT ![1] = 1], [psr EXCEPT !.n = FALSE, !.z = FALSE])
    BY <2>1, MovOne
  <2>3. /\ Going(MovLoop)' /\ done' = done + 1 /\ Position' = Start + 2 * (done + 1)
        /\ registers' = [registers EXCEPT ![1] = 1]
    BY <1>4, <1>5, <2>2
  <2>4. LeadingIn(done)'
    BY <1>2, <1>7, <2>3 DEF LeadingIn
  <2>. QED  BY <2>3, <2>4 DEF LoopAt
<1>8. CASE done = 2
  <2>1. instr = \h467A
    BY <1>3, <1>8 DEF MovLoop
  <2>2. Leaves([registers EXCEPT ![2] = registers[PC]], psr)
    BY <2>1, MovPc
  <2>3. registers[PC] = Start + 8
    <3>1. Position = 92 /\ 96 \in Small
      BY <1>8 DEF LeadingIn, Start, Small
    <3>. QED  BY <1>1, <3>1, SmallWords DEF Plus, Start
  <2>4. /\ Going(MovLoop)' /\ done' = done + 1 /\ Position' = Start + 2 * (done + 1)
        /\ registers' = [registers EXCEPT ![2] = Start + 8]
    BY <1>2, <1>4, <2>2, <2>3
  <2>5. LeadingIn(done)'
    BY <1>2, <1>8, <2>4 DEF LeadingIn
  <2>. QED  BY <2>4, <2>5 DEF LoopAt
<1>9. CASE done = 3
  <2>1. instr = \h3201
    BY <1>3, <1>9 DEF MovLoop
  <2>2. PICK p \in Psr : /\ p.t = psr.t
                         /\ Leaves([registers EXCEPT ![2] = Plus(registers[2], 1)], p)
    <3>1. TypeOK
      BY <1>2
    <3>2. LeavesOneMore
      BY <2>1, <3>1, AddOne
    <3>. QED  BY <3>2, Zenon DEF LeavesOneMore
  <2>3. Plus(registers[2], 1) = Start + 9
    <3>1. registers[2] = 96 /\ 97 \in Small
      BY <1>9 DEF LeadingIn, Start, Small
    <3>. QED  BY <3>1, SmallWords DEF Plus, Start
  <2>4. /\ Going(MovLoop)' /\ done' = done + 1 /\ Position' = Start + 2 * (done + 1)
        /\ registers' = [registers EXCEPT ![2] = Start + 9]
    BY <1>2, <1>4, <2>2, <2>3
  <2>5. TurnAt(done, 0, 0)'
    BY <1>2, <1>9, <2>4 DEF LeadingIn, TurnAt, Start
  <2>6. 0 \in 0..11 /\ 0 \in 0..2
    OBVIOUS
  <2>. QED  BY <2>4, <2>5, <2>6 DEF LoopAt
<1>. QED  BY <1>3, <1>6, <1>7, <1>8, <1>9

(* An instruction of the loop.                                             *)
LEMMA TurnExecutes ==
  ASSUME StepInv, Tested(39), Going(MovLoop), ExecuteOp,
         NEW q \in 0..11, NEW s \in 0..2, TurnAt(done, q, s)
  PROVE  Going(MovLoop)' /\ LoopAt(done)'
<1>1. /\ instr = Read16(memory, Position) /\ registers[PC] = Plus(Position, 4)
      /\ done \in 0..38
  BY TestExecutes
<1>2. TypeOK /\ registers \in [0..15 -> Word] /\ psr \in Psr /\ psr.t = TRUE
  BY DEF StepInv, TypeOK, Registers, Going
<1>3. ~(s = 2 /\ q = 11) /\ Position = Start + 2 * (4 + s) /\ 4 + s \in 0..6
      /\ Position \in 0..127 /\ done = 4 + 3 * q + s /\ done + 1 = 4 + 3 * q + s + 1
  BY <1>1 DEF TurnAt, Start
<1>4. instr = MovLoop[4 + s + 1]
  BY <1>1, <1>3, LoopWritten DEF Going
<1>5. ASSUME NEW regs, NEW p, Leaves(regs, p), p.t = TRUE
      PROVE  /\ Going(MovLoop)' /\ done' = done + 1 /\ Position' = Position + 2
             /\ registers' = regs /\ psr' = p
  BY <1>3, <1>5, TestGoesOn, 39 \in Nat \ {0}
<1>6. CASE s = 0
  <2> DEFINE r == 11 - q
             z == q = 11
             flags == Flags(FALSE, z, FALSE, FALSE)
  <2>1. instr = \h1A40
    BY <1>4, <1>6 DEF MovLoop
  <2>2. r = Minus(registers[0], registers[1])
    <3>1. registers[0] = 12 - q /\ registers[1] = 1 /\ 12 - q - 1 = r /\ r \in Small
      BY <1>6 DEF TurnAt, Small
    <3>2. r % WORD = r
      BY <3>1, SmallWords
    <3>. QED  BY <3>1, <3>2 DEF Minus
  <2>3. Leaves([registers EXCEPT ![0] = r], AddFlags(psr, r, registers[1], r))
    BY <2>1, <2>2, SubRegisters
  <2>4. AddFlags(psr, r, registers[1], r) = flags
    <3>1. registers[1] = 1 /\ r \in Small /\ 1 \in Small /\ z = (r = 0) /\ z \in BOOLEAN
      BY DEF TurnAt, Small
    <3>. HIDE DEF r, z
    <3>2. AddFlags(psr, r, 1, r) = flags
      BY <1>2, <3>1, SmallFlags
    <3>. QED  BY <3>1, <3>2
  <2>5. flags.t = TRUE
    BY DEF Flags
  <2>6. /\ Going(MovLoop)' /\ done' = done + 1 /\ Position' = Position + 2
        /\ registers' = [registers EXCEPT ![0] = r] /\ psr' = flags
    BY <1>5, <2>3, <2>4, <2>5
  <2>7. TurnAt(done, q, 1)'
    BY <1>2, <1>3, <1>6, <2>6 DEF TurnAt, Start
  <2>. QED  BY <2>6, <2>7 DEF LoopAt
<1>7. CASE s = 1
  <2>1. instr = \hD000
    BY <1>4, <1>7 DEF MovLoop
  <2>2. psr = Flags(FALSE, q = 11, FALSE, FALSE)
    BY <1>7 DEF TurnAt
  <2>6. /\ ~psr.z => Leaves(registers, psr)
        /\ psr.z => /\ registers' = [registers EXCEPT ![PC] = Plus(registers[PC], 2)]
                    /\ next_pc' = registers[PC]
                    /\ UNCHANGED <<psr, memory>> /\ Return
    <3>1. TypeOK
      BY <1>2
    <3>. QED  BY <2>1, <3>1, BeqOver
  <2>3. psr.z = (q = 11)
    BY <2>2 DEF Flags
  <2>4. CASE q = 11
    <3>1. /\ registers' = [registers EXCEPT ![PC] = Plus(registers[PC], 2)]
          /\ next_pc' = registers[PC]
          /\ UNCHANGED <<psr, memory>> /\ Return
      <4>1. psr.z
        BY <2>3, <2>4, Zenon
      <4>. QED  BY <2>6, <4>1, Zenon
    <3>2. Going(MovLoop)' /\ Position' = registers[PC] /\ done' = done + 1
      BY <1>2, <3>1, TestReturns
    <3>3. registers[PC] = Start + 14
      <4>1. Position = 98 /\ 102 \in Small
        BY <1>3, <1>7 DEF Start, Small
      <4>. QED  BY <1>1, <4>1, SmallWords DEF Plus, Start
    <3>4. registers'[0] = registers[0] /\ registers'[1] = registers[1]
          /\ registers'[2] = registers[2] /\ psr' = psr
      BY <1>2, <3>1 DEF PC
    <3>5. TurnAt(done, q, 2)'
      BY <1>3, <1>7, <2>4, <3>2, <3>3, <3>4 DEF TurnAt
    <3>. QED  BY <3>2, <3>5 DEF LoopAt
  <2>5. CASE q # 11
    <3>1. Leaves(registers, psr)
      <4>1. ~psr.z
        BY <2>3, <2>5, Zenon
      <4>. QED  BY <2>6, <4>1, Zenon
    <3>2. /\ Going(MovLoop)' /\ done' = done + 1 /\ Position' = Position + 2
          /\ registers' = registers /\ psr' = psr
      BY <1>2, <1>5, <3>1
    <3>3. TurnAt(done, q, 2)'
      BY <1>3, <1>7, <2>5, <3>2 DEF TurnAt, Start
    <3>. QED  BY <3>2, <3>3 DEF LoopAt
  <2>. QED  BY <2>4, <2>5
<1>8. CASE s = 2
  <2>1. instr = \h4710
    BY <1>4, <1>8 DEF MovLoop
  <2>2. registers[2] = Start + 9 /\ registers[2] % 2 = 1 /\ registers[2] - 1 = Start + 8
    BY DEF TurnAt, Start
  <2>3. /\ \A r \in 0..13 : registers'[r] = registers[r]
        /\ next_pc' = registers[2] - 1
        /\ psr' = [psr EXCEPT !.t = TRUE] /\ memory' = memory /\ Return
    BY <1>2, <2>1, <2>2, BxBack
  <2>4. psr'.t = TRUE
    BY <1>2, <2>3 DEF Psr
  <2>5. Going(MovLoop)' /\ Position' = Start + 8 /\ done' = done + 1
    BY <2>2, <2>3, <2>4, TestReturns
  <2>6. registers'[0] = registers[0] /\ registers'[1] = registers[1]
        /\ registers'[2] = registers[2]
    BY <2>3
  <2>7. q + 1 \in 0..11 /\ 0 \in 0..2 /\ TurnAt(done, q + 1, 0)'
    BY <1>3, <1>8, <2>5, <2>6 DEF TurnAt, Start
  <2>. QED  BY <2>5, <2>7 DEF LoopAt
<1>. QED  BY <1>6, <1>7, <1>8

(* One instruction of MovLoop.                                             *)
LEMMA LoopExecutes ==
  ASSUME StepInv, Tested(39), Going(MovLoop), LoopAt(done), ExecuteOp
  PROVE  Going(MovLoop)' /\ LoopAt(done)'
BY LeadingInExecutes, TurnExecutes DEF LoopAt

(* One step of the run of MovLoop, or before it.                           *)
LEMMA LoopStep ==
  ASSUME StepInv, LoopInv, [Next]_vars
  PROVE  LoopInv'
<1>1. CASE calls = 0
  <2>1. Ready(MovLoop)
    BY <1>1 DEF LoopInv
  <2>2. CASE Ready(MovLoop)'
    BY <2>2 DEF Ready, LoopInv, Tested
  <2>3. CASE ~Ready(MovLoop)'
    <3>1. calls' # 0 /\ (Tested(39)' => Going(MovLoop)' /\ Position' = Start /\ done' = 0)
      BY <2>1, <2>3, TestStarts
    <3>2. Tested(39)' => LoopAt(done)'
      BY <3>1 DEF LoopAt, LeadingIn, Start
    <3>. QED  BY <3>1, <3>2 DEF LoopInv
  <2>. QED  BY <2>2, <2>3
<1>2. CASE calls # 0
  <2>1. calls' # 0 /\ (Tested(39)' => Tested(39))
    BY <1>2, TestLasts
  <2>. SUFFICES ASSUME Tested(39)' PROVE Going(MovLoop)' /\ LoopAt(done)'
    BY <2>1 DEF LoopInv
  <2>2. Tested(39) /\ Going(MovLoop) /\ LoopAt(done)
    BY <2>1 DEF LoopInv
  <2>3. CASE ~ExecuteOp
    <3>1. Going(MovLoop)' /\ UNCHANGED Seen
      BY <2>2, <2>3, TestWaits
    <3>2. /\ registers'[0] = registers[0] /\ registers'[1] = registers[1]
          /\ registers'[2] = registers[2]
          /\ psr' = psr /\ Position' = Position /\ done' = done
      BY <3>1 DEF Seen
    <3>3. LeadingIn(done) => LeadingIn(done)'
      BY <3>2 DEF LeadingIn
    <3>4. ASSUME NEW q \in 0..11, NEW s \in 0..2, TurnAt(done, q, s)
          PROVE  TurnAt(done, q, s)'
      BY <3>2, <3>4 DEF TurnAt
    <3>. QED  BY <2>2, <3>1, <3>3, <3>4 DEF LoopAt
  <2>. QED  BY <2>2, <2>3, LoopExecutes
<1>. QED  BY <1>1, <1>2

-----------------------------------------------------------------------------
(* The tests find what they expect, whatever the constructor leaves in the *)
(* registers, the flags and the buffer and whatever is in the rest of the  *)
(* memory: every behaviour that starts with a program of the tests, is not *)
(* held and runs it ends with its results.                                 *)
THEOREM TestsArePassed == Spec => TestsPass
<1>1. Init => HeldInv
  BY DEF Init, HeldInv, BufferHeld, ExecutesMemory
<1>2. TypeOK /\ PipelineSync /\ HeldInv /\ [Next]_vars => HeldInv'
  BY HeldStep
<1>3. Spec => [](TypeOK /\ PipelineSync /\ HeldInv /\ RunCount)
  BY <1>1, <1>2, TypeCorrect, PipelineInSync, RunsCount, PTL DEF Spec
<1>4. Spec => []StepInv
  BY <1>3, PTL DEF StepInv
<1>5. /\ Init /\ Written(memory, MovAdd) => AddInv
      /\ Init /\ Written(memory, MovSub) => SubInv
      /\ Init /\ Written(memory, MovLoop) => LoopInv
  <2>1. ASSUME NEW program, Init, Written(memory, program)
        PROVE  Ready(program) /\ \A n : ~Tested(n)
    <3>1. calls = 0
      BY <2>1 DEF Init
    <3>. QED  BY <2>1, <3>1, InitReady DEF Tested
  <2>. QED  BY <2>1 DEF AddInv, SubInv, LoopInv
<1>6. StepInv => /\ AddInv => AddPasses
                 /\ SubInv => SubPasses
                 /\ LoopInv => LoopPasses
  <2>. SUFFICES ASSUME StepInv
                PROVE  /\ AddInv => AddPasses
                       /\ SubInv => SubPasses
                       /\ LoopInv => LoopPasses
    OBVIOUS
  <2>1. \A n \in {3, 39} : Ended(n) => Tested(n) /\ done = n /\ Position = next_pc
    BY DEF StepInv, RunCount, Ended, Tested, Turns, Position
  <2>2. AddInv => AddPasses
    BY <2>1 DEF AddInv, AddAt, AddPasses
  <2>3. SubInv => SubPasses
    BY <2>1 DEF SubInv, SubAt, SubPasses
  <2>4. ASSUME LoopInv, Ended(39)
        PROVE  /\ registers[0] = 0 /\ registers[1] = 1 /\ next_pc = Start + 14
               /\ psr = Flags(FALSE, TRUE, FALSE, FALSE)
    <3>1. LoopAt(39) /\ Position = next_pc
      BY <2>1, <2>4 DEF LoopInv
    <3>2. PICK q \in 0..11, s \in 0..2 : TurnAt(39, q, s)
      BY <3>1 DEF LoopAt, LeadingIn
    <3>3. q = 11 /\ s = 2
      BY <3>2 DEF TurnAt
    <3>4. (q = 11) = TRUE
      BY <3>3
    <3>5. psr = Flags(FALSE, q = 11, FALSE, FALSE)
      BY <3>2, <3>3 DEF TurnAt
    <3>6. psr = Flags(FALSE, TRUE, FALSE, FALSE)
      BY <3>4, <3>5
    <3>7. registers[0] = 0 /\ registers[1] = 1 /\ Position = Start + 14
      BY <3>2, <3>3 DEF TurnAt
    <3>. QED  BY <3>1, <3>6, <3>7
  <2>. QED  BY <2>2, <2>3, <2>4 DEF LoopPasses
<1>7. /\ StepInv /\ AddInv /\ [Next]_vars => AddInv'
      /\ StepInv /\ SubInv /\ [Next]_vars => SubInv'
      /\ StepInv /\ LoopInv /\ [Next]_vars => LoopInv'
  BY AddStep, SubStep, LoopStep
<1>8. Spec => /\ Written(memory, MovAdd) => []AddPasses
              /\ Written(memory, MovSub) => []SubPasses
              /\ Written(memory, MovLoop) => []LoopPasses
  BY <1>4, <1>5, <1>6, <1>7, PTL DEF Spec
<1>. QED  BY <1>8 DEF TestsPass
=============================================================================
