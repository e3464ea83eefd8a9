--------------------------- MODULE CpuProperties ---------------------------
(***************************************************************************)
(* What the processor of cpu/cpu.cpp must get right.                       *)
(***************************************************************************)
EXTENDS Cpu

(* Each variable has its type, and a run() on the stack has its local      *)
(* variables in range.                                                     *)
TypeOK ==
  /\ registers \in Registers
  /\ psr \in Psr
  /\ next_pc \in Word
  /\ cpu_prefetch \in Prefetches
  /\ holdState \in BOOLEAN
  /\ IsMemory(memory)
  /\ phase \in {"idle", "fetch", "execute", "test"}
  /\ caller \in {"none", "run"} \cup CountedLoops
  /\ instr \in Half
  /\ n_instr \in 0..SizeT-1
  /\ thrown \in BOOLEAN
  /\ asked \in 0..SizeT-1
  /\ done \in Nat
  /\ stale \in BOOLEAN
  /\ calls \in 0..MaxCalls

-----------------------------------------------------------------------------
(* The pipeline.  next_pc, registers[15] and cpu_prefetch describe one     *)
(* position in the program three times over, and each of the handlers that *)
(* transfer control has to move all three.                                 *)
Synced == registers[PC] = Plus(next_pc, 2)

Coherent == cpu_prefetch = Prefetched(memory, next_pc)

(* registers[15] is one half-word ahead of next_pc at every step; only an  *)
(* exception leaves it elsewhere, and the first fetch of the next run, or  *)
(* a reset, brings the two together again.                                 *)
PipelineSync == ~Synced => thrown /\ phase \in {"idle", "fetch"}

(* A prefetch buffer that holds what memory holds goes on doing so: no     *)
(* fetch and no handler loses it, not even one that throws, except a store *)
(* into the two half-words that are in the buffer.                         *)
PrefetchKept == [][
  phase # "idle" /\ Synced /\ Coherent /\ SameWindow(memory, memory', next_pc')
    => Coherent'
  ]_vars

(* What a run executes is what memory holds one half-word before next_pc:  *)
(* through every jump, in run(n) and verbose_run(n) whatever resets and    *)
(* writes of the host came before, in run() when it goes on from where a   *)
(* counted run stopped.  It ends with a store into the prefetch buffer,    *)
(* with an exception, which parts next_pc and the PC, and for run() with a *)
(* reset, which does not fill the buffer.                                  *)
ExecutesMemory ==
  phase = "execute" /\ ~thrown /\ ~stale
    => instr = Read16(memory, Minus(next_pc, 2))

(* The refinement.  An instruction that is fetched and not yet executed is *)
(* at the half-word before next_pc, otherwise the next one is at next_pc.  *)
Order == INSTANCE ProgramOrder WITH
  pc <- IF phase = "execute" THEN Minus(next_pc, 2) ELSE next_pc,
  file <- [r \in 0..14 |-> registers[r]],
  running <- phase # "idle",
  lost <- thrown \/ stale

(* The pipelined loop with its jumps, from the call of a run on, executes  *)
(* a program in the order of a processor that has no pipeline: each        *)
(* instruction is the one in memory at the place the last one names, an    *)
(* instruction that reads R15 gets its own address plus 4, BL links to the *)
(* instruction after it, and only BX and BLX throw.                        *)
RunsInProgramOrder == Order!Spec

(* From an even PC the program stays on even addresses: every transfer of  *)
(* control drops bit 0 or adds an even offset.                             *)
PcStaysEven == [][
  phase # "idle" /\ registers[PC] % 2 = 0 => registers'[PC] % 2 = 0
  ]_vars

-----------------------------------------------------------------------------
(* The counted loops.                                                      *)

(* The turns a counter of n stands for: --n_instr is tested after it is    *)
(* decremented, so that 0 goes round the whole range of size_t.            *)
Turns(n) == IF n = 0 THEN SizeT ELSE n

(* While run(n) or verbose_run(n) is on, the turns it has left and the     *)
(* instructions it has executed add up to the turns it was called for; and *)
(* when it comes back without an exception it has executed them all, or    *)
(* one when holdState is set.                                              *)
RunCount ==
  caller \in CountedLoops =>
    /\ phase \in {"fetch", "execute"} =>
         Turns(n_instr) + done = Turns(asked) /\ (holdState => done = 0)
    /\ phase = "test" =>
         Turns(n_instr) + done - 1 = Turns(asked) /\ (holdState => done = 1)
    /\ phase = "idle" => done = IF holdState THEN 1 ELSE Turns(asked)

(* The steps a counted run has left, at most: three for each turn.         *)
StepsLeft == 3 * Turns(n_instr) - [fetch |-> 0, execute |-> 1, test |-> 2][phase]

(* Each step of a counted run ends it or brings it nearer to its end, by   *)
(* way of the whole range of size_t when n is 0; so no program, no jump    *)
(* and no store of its own keeps it from coming back.                      *)
RunProgress == [][
  phase # "idle" /\ caller \in CountedLoops
    => phase' = "idle" \/ (caller' = caller /\ StepsLeft' \in 0..StepsLeft-1)
  ]_vars

(* A counted run comes back to its caller.                                 *)
RunReturns == (phase # "idle" /\ caller \in CountedLoops) ~> (phase = "idle")

-----------------------------------------------------------------------------
(* Claims of the documentation that the code does not keep.                *)
IsBx(i) ==
  /\ Handler(i) = "hi_register_operations_branch_exchange"
  /\ HiOp(i) \in {12, 13}

(* BX to an odd address goes to it and does not throw: "we are in thumb    *)
(* state because the address had a 1 bit set" (cpu/cpu.cpp).               *)
BxReturns == [][
  phase = "execute" /\ IsBx(instr) /\ registers[RegX(instr)] % 2 = 1
    => phase' = "test" /\ next_pc' = registers[RegX(instr)] - 1
  ]_vars

(* run(n) runs "the processor for N instructions" (cpu/cpu.h).             *)
RunsN ==
  phase = "idle" /\ caller \in CountedLoops /\ ~holdState => done = asked

(* PUSH and POP are told apart by the "L - Load/Store bit", bit 11 of the  *)
(* instruction (cpu/cpu.h).                                                *)
IsPush(i) == Handler(i) = "push_pop_registers" /\ ~Flag(i, 11)

LoadStoreBit == [][
  phase = "execute" /\ IsPush(instr)
    => \A r \in 0..7 : registers'[r] = registers[r]
  ]_vars

(* B, the format "| 1 1 1 0 0 | Offset11 |" (cpu/cpu.h), moves the program *)
(* to its label, or is refused with the exception that execute_op has for  *)
(* an instruction "unknown or unimplemented" (cpu/cpu.cpp).                *)
BranchTaken == [][
  phase = "execute" /\ instr \div 2048 = 28
    => next_pc' = Plus(registers[PC], Offset11(instr)) \/ phase' = "idle"
  ]_vars
=============================================================================
