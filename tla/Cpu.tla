-------------------------------- MODULE Cpu --------------------------------
(***************************************************************************)
(* The emulated processor of cpu/cpu.cpp together with the host program    *)
(* that drives it through the public functions of class cpu.               *)
(*                                                                         *)
(* The host is idle or inside run(), run(n) or verbose_run(n).  Each turn  *)
(* of their loop is three steps: Fetch takes the oldest prefetched         *)
(* half-word, ExecuteOp runs the handler it decodes to, LoopTest evaluates *)
(* the loop condition.  A handler that throws returns to the host at once. *)
(***************************************************************************)
EXTENDS Alu, Memory, Decoder

CONSTANTS
  SizeT,       \* the number of values of size_t, the type of n_instr
  MaxCalls,    \* bound on the calls the host makes
  HostCalls,   \* the public functions the host uses
  RunArgs,     \* the arguments it passes to run(n) and verbose_run(n)
  Pokes,       \* the <<address, half-word>> pairs it writes through get_mmu()
  Images,      \* the memories the cpu may be constructed on
  (* Members that no constructor initializes: what they may hold.          *)
  RegisterGarbage, PsrGarbage, PrefetchGarbage, HoldGarbage

PC == 15
LR == 14
SP == 13
PC_INIT_ADDRESS == 4

Registers == [0..15 -> Word]
Prefetches == [0..1 -> Half]
CountedLoops == {"run_n", "verbose_run"}

ASSUME CpuAssumption ==
  /\ SizeT \in Nat \ {0}
  /\ MaxCalls \in Nat
  /\ HostCalls \subseteq {"reset", "run", "poke"} \cup CountedLoops
  /\ RunArgs \subseteq 0..SizeT-1
  /\ Pokes \subseteq Word \X Half
  /\ \A m \in Images : IsMemory(m)
  /\ RegisterGarbage \subseteq Registers
  /\ PsrGarbage \subseteq Psr
  /\ PrefetchGarbage \subseteq Prefetches
  /\ HoldGarbage \subseteq BOOLEAN

VARIABLES
  (* members of class cpu, and the memory its mmu holds *)
  registers, psr, next_pc, cpu_prefetch, holdState, memory,
  (* where the loop is: which function runs it, its local variables *)
  phase, caller, instr, n_instr,
  (* history: an exception left the loop since the last reset; the argument *)
  (* of the last counted run and the instructions it has executed; whether  *)
  (* the buffer was never filled for where the program is now, or a store   *)
  (* has hit the two half-words it holds; host calls                        *)
  thrown, asked, done, stale, calls

vars == <<registers, psr, next_pc, cpu_prefetch, holdState, memory,
          phase, caller, instr, n_instr, thrown, asked, done, stale, calls>>

history == <<asked, done, stale>>

(* prefetch(): the two half-words at an address.                           *)
(* A mutated Prefetched: the buffer starts one half-word late.             *)
PrefetchedSkewed(m, a) == [i \in 0..1 |-> Read16(m, Plus(a, 2 * i + 2))]
Prefetched(m, a) == [i \in 0..1 |-> Read16(m, Plus(a, 2 * i))]

(* The two half-words at an address are the same in two memories.          *)
SameWindow(m, n, a) == Prefetched(m, a) = Prefetched(n, a)

(* The state reset() leaves: the PC one half-word past the entry address.  *)
Entry(m) == Read32(m, PC_INIT_ADDRESS)
Booted(regs, m) == [regs EXCEPT ![PC] = Plus(Entry(m), 2)]

Init ==
  /\ memory \in Images
  /\ next_pc = Entry(memory)
  /\ registers \in {Booted(regs, memory) : regs \in RegisterGarbage}
  /\ psr \in {[p EXCEPT !.t = TRUE] : p \in PsrGarbage}
  /\ cpu_prefetch \in PrefetchGarbage
  /\ holdState \in HoldGarbage
  /\ phase = "idle" /\ caller = "none" /\ instr = 0 /\ n_instr = 0
  /\ thrown = FALSE /\ asked = 0 /\ done = 0
  /\ stale = TRUE /\ calls = 0

-----------------------------------------------------------------------------
(* Calls of the host.                                                      *)
HostCall(call) ==
  /\ phase = "idle"
  /\ call \in HostCalls
  /\ calls < MaxCalls
  /\ calls' = calls + 1

Reset ==
  /\ HostCall("reset")
  /\ psr' = [psr EXCEPT !.t = TRUE]
  /\ next_pc' = Entry(memory)
  /\ registers' = Booted(registers, memory)
  /\ thrown' = FALSE
  /\ stale' = TRUE
  /\ UNCHANGED <<cpu_prefetch, holdState, memory, phase, caller, instr,
                 n_instr, asked, done>>

(* get_mmu()->write16(address, value).                                     *)
Poke(address, value) ==
  /\ HostCall("poke")
  /\ memory' = Write16(memory, address, value)
  /\ stale' = (stale \/ ~SameWindow(memory, memory', next_pc))
  /\ UNCHANGED <<registers, psr, next_pc, cpu_prefetch, holdState, phase,
                 caller, instr, n_instr, thrown, asked, done>>

(* run(n) and verbose_run(n) refill the prefetch buffer from next_pc.      *)
(* A mutated CountedRun: it does not refill the buffer.                    *)
CountedRunUnprimed(loop, n) ==
  /\ HostCall(loop)
  /\ phase' = "fetch"
  /\ caller' = loop
  /\ n_instr' = n
  /\ asked' = n
  /\ done' = 0
  /\ stale' = FALSE
  /\ UNCHANGED <<cpu_prefetch, registers, psr, next_pc, holdState, memory, instr, thrown>>

CountedRun(loop, n) ==
  /\ HostCall(loop)
  /\ cpu_prefetch' = Prefetched(memory, next_pc)
  /\ phase' = "fetch"
  /\ caller' = loop
  /\ n_instr' = n
  /\ asked' = n
  /\ done' = 0
  /\ stale' = FALSE
  /\ UNCHANGED <<registers, psr, next_pc, holdState, memory, instr, thrown>>

RunN(n) == CountedRun("run_n", n)
VerboseRun(n) == CountedRun("verbose_run", n)

(* run() starts the loop on the prefetch buffer as it is.                  *)
Run ==
  /\ HostCall("run")
  /\ phase' = "fetch"
  /\ caller' = "run"
  /\ UNCHANGED <<registers, psr, next_pc, cpu_prefetch, holdState, memory,
                 instr, n_instr, thrown, history>>

-----------------------------------------------------------------------------
(* The head of the loop, with prefetch_next().                             *)
(* A mutated Fetch: the second half-word is not read again.                *)
FetchStale ==
  /\ phase = "fetch"
  /\ phase' = "execute"
  /\ instr' = cpu_prefetch[0]
  /\ cpu_prefetch' = [cpu_prefetch EXCEPT ![0] = cpu_prefetch[1]]
  /\ next_pc' = registers[PC]
  /\ registers' = [registers EXCEPT ![PC] = Plus(registers[PC], 2)]
  /\ UNCHANGED <<psr, holdState, memory, caller, n_instr, thrown, history, calls>>

Fetch ==
  /\ phase = "fetch"
  /\ phase' = "execute"
  /\ instr' = cpu_prefetch[0]
  /\ next_pc' = registers[PC]
  /\ registers' = [registers EXCEPT ![PC] = Plus(registers[PC], 2)]
  /\ cpu_prefetch' = [i \in 0..1 |->
                        IF i = 0 THEN cpu_prefetch[1]
                                 ELSE Read16(memory, Plus(registers[PC], 2))]
  /\ UNCHANGED <<psr, holdState, memory, caller, n_instr, thrown, history, calls>>

(* The loop condition: !holdState for run(), !holdState && --n_instr for   *)
(* the others, which decrements only when the first part holds.            *)
(* A mutated LoopTest: n_instr-- for --n_instr.                            *)
LoopTestPostDecrement ==
  /\ phase = "test"
  /\ n_instr' = IF holdState \/ caller = "run" THEN n_instr
                ELSE (n_instr - 1) % SizeT
  /\ phase' = IF holdState \/ (caller # "run" /\ n_instr = 0)
              THEN "idle" ELSE "fetch"
  /\ UNCHANGED <<registers, psr, next_pc, cpu_prefetch, holdState, memory,
                 caller, instr, thrown, history, calls>>

(* A mutated LoopTest: a held processor goes on waiting.                   *)
LoopTestSpins ==
  /\ phase = "test"
  /\ IF holdState THEN UNCHANGED <<n_instr, phase>>
     ELSE /\ n_instr' = IF caller = "run" THEN n_instr ELSE (n_instr - 1) % SizeT
          /\ phase' = IF caller # "run" /\ n_instr' = 0 THEN "idle" ELSE "fetch"
  /\ UNCHANGED <<registers, psr, next_pc, cpu_prefetch, holdState, memory,
                 caller, instr, thrown, history, calls>>

LoopTest ==
  /\ phase = "test"
  /\ n_instr' = IF holdState \/ caller = "run" THEN n_instr
                ELSE (n_instr - 1) % SizeT
  /\ phase' = IF holdState \/ (caller # "run" /\ n_instr' = 0)
              THEN "idle" ELSE "fetch"
  /\ UNCHANGED <<registers, psr, next_pc, cpu_prefetch, holdState, memory,
                 caller, instr, thrown, history, calls>>

-----------------------------------------------------------------------------
(* How a handler ends: it returns to the loop, or it throws and unwinds    *)
(* the function that runs it.                                              *)
Return ==
  /\ phase' = "test"
  /\ done' = IF caller \in CountedLoops THEN done + 1 ELSE done
  /\ stale' = (stale \/ ~SameWindow(memory, memory', next_pc'))
  /\ UNCHANGED <<holdState, caller, instr, n_instr, thrown, asked, calls>>

Throw ==
  /\ phase' = "idle"
  /\ caller' = "none"
  /\ thrown' = TRUE
  /\ UNCHANGED <<holdState, instr, n_instr, history, calls>>

(* What a handler that returns changes.                                    *)
Keep ==
  /\ UNCHANGED <<registers, psr, next_pc, cpu_prefetch, memory>>
  /\ Return

SetRegisters(regs) ==
  /\ registers' = regs
  /\ UNCHANGED <<psr, next_pc, cpu_prefetch, memory>>
  /\ Return

SetRegister(r, value) == SetRegisters([registers EXCEPT ![r] = value])

WriteBack(rd, outcome) ==
  /\ registers' = [registers EXCEPT ![rd] = outcome.value]
  /\ psr' = outcome.psr
  /\ UNCHANGED <<next_pc, cpu_prefetch, memory>>
  /\ Return

SetMemory(m, regs) ==
  /\ memory' = m
  /\ registers' = regs
  /\ UNCHANGED <<psr, next_pc, cpu_prefetch>>
  /\ Return

(* The sequence every control transfer ends with: next_pc takes the target,*)
(* the PC runs one half-word ahead of it, and prefetch() refills the       *)
(* buffer.                                                                 *)
(* A mutated Land: the PC is not moved past the target.                    *)
LandNoAdvance(regs, target) ==
  /\ registers' = [regs EXCEPT ![PC] = target]
  /\ next_pc' = target
  /\ cpu_prefetch' = Prefetched(memory, target)
  /\ UNCHANGED memory

Land(regs, target) ==
  /\ registers' = [regs EXCEPT ![PC] = Plus(target, 2)]
  /\ next_pc' = target
  /\ cpu_prefetch' = Prefetched(memory, target)
  /\ UNCHANGED memory

Jump(regs, target) ==
  /\ Land(regs, target)
  /\ UNCHANGED psr
  /\ Return

-----------------------------------------------------------------------------
(* Data processing.                                                        *)
MoveShiftedRegister ==
  IF Op11(instr) = 3 THEN Keep
  ELSE \E outcome \in ShiftImmediate(Op11(instr), registers[Reg3(instr)],
                                     ShiftOffset(instr), psr) :
         WriteBack(Reg0(instr), outcome)

AddSubtractHandler ==
  LET operand == IF Flag(instr, 10) THEN Reg6(instr) ELSE registers[Reg6(instr)]
  IN  WriteBack(Reg0(instr),
                AddSubtract(Op9(instr), registers[Reg3(instr)], operand,
                            Reg0(instr) = Reg3(instr), psr))

MoveCompareAddSubtractImmediate ==
  WriteBack(Reg8(instr),
            Immediate(Op11(instr), registers[Reg8(instr)], Imm8(instr), psr))

AluOperations ==
  WriteBack(Reg0(instr),
            AluOutcome(AluOp(instr), registers[Reg0(instr)],
                       registers[Reg3(instr)], psr))

(* Operations on the high registers.  A result for the PC has its low bit  *)
(* cleared and is jumped to.                                               *)
(* A mutated WriteHigh: bit 0 of a target is kept.                         *)
WriteHighUnmasked(rd, value) ==
  IF rd = PC THEN Jump(registers, value) ELSE SetRegister(rd, value)

WriteHigh(rd, value) ==
  IF rd = PC THEN Jump(registers, Even(value)) ELSE SetRegister(rd, value)

(* The BLX arm on the register file regs: LR takes the PC, the PC takes    *)
(* the base register as it is after that, and an even address throws.      *)
Linked(regs, base) ==
  LET linked == [regs EXCEPT ![LR] = regs[PC]]
  IN  [linked EXCEPT ![PC] = linked[base]]

IsThumb(regs) == regs[PC] % 2 = 1

BranchLinkExchange(base) ==
  LET regs == Linked(registers, base)
  IN  IF IsThumb(regs)
      THEN /\ Land(regs, Even(regs[PC]))
           /\ psr' = [psr EXCEPT !.t = TRUE]
           /\ Return
      ELSE /\ registers' = regs
           /\ UNCHANGED <<psr, next_pc, cpu_prefetch, memory>>
           /\ Throw

(* The BX arm.  It does not end in a break: after it has jumped, the BLX   *)
(* arm runs as well, on the registers the jump left.                       *)
BranchExchange(base) ==
  LET moved  == [registers EXCEPT ![PC] = registers[base]]
      target == Even(moved[PC])
      regs   == Linked([moved EXCEPT ![PC] = Plus(target, 2)], base)
  IN  IF IsThumb(moved)
      THEN /\ IF IsThumb(regs)
              THEN Land(regs, Even(regs[PC])) /\ Return
              ELSE /\ registers' = regs
                   /\ next_pc' = target
                   /\ cpu_prefetch' = Prefetched(memory, target)
                   /\ UNCHANGED memory
                   /\ Throw
           /\ psr' = [psr EXCEPT !.t = TRUE]
      ELSE /\ registers' = moved
           /\ UNCHANGED <<psr, next_pc, cpu_prefetch, memory>>
           /\ Throw

HiRegisterOperationsBranchExchange ==
  LET op == HiOp(instr)
      rd == Reg0(instr) + (IF Flag(instr, 7) THEN 8 ELSE 0)
      rs == RegX(instr)
  IN  \/ op \in {0, 4, 8} /\ Keep
      \/ op \in {1, 2, 3} /\ WriteHigh(rd, Plus(registers[rd], registers[rs]))
      \/ op \in {5, 6, 7} /\ WriteBack(rd, Cmp(registers[rd], registers[rs], psr))
      \/ op \in {9, 10, 11} /\ WriteHigh(rd, registers[rs])
      \/ op \in {12, 13} /\ BranchExchange(rs)
      \/ op \in {14, 15} /\ BranchLinkExchange(rs)

-----------------------------------------------------------------------------
(* Loads and stores.                                                       *)
PcRelativeLoad ==
  SetRegister(Reg8(instr),
              Read32(memory, Plus(Aligned4(registers[PC]), 4 * Imm8(instr))))

RegisterOffset == Plus(registers[Reg3(instr)], registers[Reg6(instr)])

LoadStoreWithRegisterOffset ==
  LET op == Op10(instr)
      rd == Reg0(instr)
      A  == RegisterOffset
  IN  \/ op = 0 /\ SetMemory(Write32(memory, A, registers[rd]), registers)
      \/ op = 1 /\ SetMemory(Write8(memory, A, registers[rd]), registers)
      \/ op = 2 /\ SetRegister(rd, Read32(memory, A))
      \/ op = 3 /\ SetRegister(rd, Read8(memory, A))

LoadStoreSignExtendedByteHalfword ==
  LET op == Op10(instr)
      rd == Reg0(instr)
      A  == RegisterOffset
  IN  \/ op = 0 /\ SetMemory(Write16(memory, A, registers[rd]), registers)
      \/ op = 1 /\ SetRegister(rd, Read16(memory, A))
      \/ op = 2 /\ SetRegister(rd, SignExtend8(Read8(memory, A)))
      \/ op = 3 /\ SetRegister(rd, SignExtend16(Read16(memory, A)))

(* Only LDRB takes the immediate as its offset; the other three take the   *)
(* register whose number is in the low bits of the immediate.              *)
LoadStoreWithImmediateOffset ==
  LET op == Op11(instr)
      rd == Reg0(instr)
      A  == RegisterOffset
  IN  \/ op = 0 /\ SetMemory(Write32(memory, A, registers[rd]), registers)
      \/ op = 1 /\ SetMemory(Write8(memory, A, registers[rd]), registers)
      \/ op = 2 /\ SetRegister(rd, Read32(memory, A))
      \/ op = 3 /\ SetRegister(rd, Read8(memory, Plus(registers[Reg3(instr)],
                                                      Imm5(instr))))

LoadStoreHalfwordImmediateOffset ==
  LET value == registers[Reg0(instr)]
  IN  IF Flag(instr, 11)
      THEN SetMemory(Write16(memory, RegisterOffset, value), registers)
      ELSE SetMemory(Write8(memory, RegisterOffset, value), registers)

SpRelativeLoadStore ==
  LET A == Plus(registers[Reg3(instr)], 4 * Imm5(instr))
  IN  IF Flag(instr, 11)
      THEN SetMemory(Write32(memory, A, registers[Reg0(instr)]), registers)
      ELSE SetRegister(Reg0(instr), Read32(memory, A))

LoadAddress ==
  LET base == IF Flag(instr, 11) THEN Aligned4(registers[PC]) ELSE registers[SP]
  IN  SetRegister(Reg8(instr), Plus(base, 4 * Imm8(instr)))

AddOffsetToStackPointer ==
  LET offset == 4 * (instr % 128)
  IN  SetRegister(SP, IF Flag(instr, 7) THEN Plus(registers[SP], offset)
                                        ELSE Minus(registers[SP], offset))

-----------------------------------------------------------------------------
(* Block transfers.                                                        *)
(* A mutated Push: the stack pointer makes no room for LR.                 *)
PushNoLR(list) ==
  LET sp == Minus(registers[SP], 4 * Cardinality(list \ {LR}))
  IN  SetMemory(WriteBlock(memory, Aligned4(sp), list, registers),
                [registers EXCEPT ![SP] = sp])

Push(list) ==
  LET sp == Minus(registers[SP], 4 * Cardinality(list))
  IN  SetMemory(WriteBlock(memory, Aligned4(sp), list, registers),
                [registers EXCEPT ![SP] = sp])

(* What a load of a list of registers leaves in the register file.         *)
WithLoaded(A, list) ==
  [r \in 0..15 |-> IF r \in list THEN ReadBlock(memory, A, list)[r]
                                 ELSE registers[r]]

Pop(list) ==
  LET A      == Aligned4(registers[SP])
      sp     == Plus(registers[SP], 4 * Cardinality(list))
      loaded == [WithLoaded(A, list) EXCEPT ![SP] = sp]
  IN  IF PC \in list THEN Jump(loaded, Even(loaded[PC])) ELSE SetRegisters(loaded)

PushPopRegisters ==
  LET extra(r) == IF Flag(instr, 8) THEN {r} ELSE {}
  IN  IF IsPop(instr) THEN Pop(Rlist(instr) \cup extra(PC))
                      ELSE Push(Rlist(instr) \cup extra(LR))

(* STMIA writes the base register back always, LDMIA unless it is loaded.  *)
MultipleLoadStore ==
  LET list == Rlist(instr)
      base == Reg8(instr)
      A    == Aligned4(registers[base])
      size == 4 * Cardinality(list)
  IN  IF Flag(instr, 11)
      THEN SetMemory(WriteBlock(memory, A, list, registers),
                     [registers EXCEPT ![base] = Plus(@, size)])
      ELSE SetRegisters(IF base \in list THEN WithLoaded(A, list)
                        ELSE [WithLoaded(A, list) EXCEPT ![base] = Plus(A, size)])

-----------------------------------------------------------------------------
(* Branches.                                                               *)
(* A mutated ConditionalBranch: the offset is added to next_pc.            *)
ConditionalBranchFromNext ==
  IF Condition(Cond(instr), psr)
  THEN Jump(registers, Plus(next_pc, Offset8(instr)))
  ELSE Keep

ConditionalBranch ==
  IF Condition(Cond(instr), psr)
  THEN Jump(registers, Plus(registers[PC], Offset8(instr)))
  ELSE Keep

UnconditionalBranch ==
  Jump(registers, Plus(registers[PC], Offset11(instr)))

(* BL is a 32 bit instruction but gets 16 bits of it, so the half that     *)
(* should follow is zero, and the test for a forward branch always fails.  *)
LongBranchWithLink ==
  LET far == Plus(registers[PC], 4096 * ((instr % 2048) - 2048))
      link == Even(Minus(registers[PC], 2)) + 1
  IN  Jump([registers EXCEPT ![LR] = link], Even(far))

-----------------------------------------------------------------------------
(* execute_op.                                                             *)
ExecuteOp ==
  /\ phase = "execute"
  /\ LET h == Handler(instr)
     IN  \/ h = "nop" /\ Keep
         \/ h \in Unimplemented /\ Keep
         \/ h = "add_offset_to_stack_pointer" /\ AddOffsetToStackPointer
         \/ h = "load_store_with_register_offset" /\ LoadStoreWithRegisterOffset
         \/ /\ h = "load_store_sign_extended_byte_halfword"
            /\ LoadStoreSignExtendedByteHalfword
         \/ h = "push_pop_registers" /\ PushPopRegisters
         \/ h = "alu_operations" /\ AluOperations
         \/ /\ h = "hi_register_operations_branch_exchange"
            /\ HiRegisterOperationsBranchExchange
         \/ h = "add_subtract" /\ AddSubtractHandler
         \/ h = "pc_relative_load" /\ PcRelativeLoad
         \/ h = "unconditional_branch" /\ UnconditionalBranch
         \/ /\ h = "load_store_halfword_immediate_offset"
            /\ LoadStoreHalfwordImmediateOffset
         \/ h = "sp_relative_load_store" /\ SpRelativeLoadStore
         \/ h = "load_address" /\ LoadAddress
         \/ h = "multiple_load_store" /\ MultipleLoadStore
         \/ h = "conditional_branch" /\ ConditionalBranch
         \/ h = "long_branch_with_link" /\ LongBranchWithLink
         \/ /\ h = "move_compare_add_subtract_immediate"
            /\ MoveCompareAddSubtractImmediate
         \/ h = "move_shifted_register" /\ MoveShiftedRegister
         \/ h = "load_store_with_immediate_offset" /\ LoadStoreWithImmediateOffset

(* The host's choices, and the steps of a run once it is called.           *)
Host ==
  \/ Reset
  \/ \E p \in Pokes : Poke(p[1], p[2])
  \/ \E n \in RunArgs : RunN(n) \/ VerboseRun(n)
  \/ Run

Step == Fetch \/ ExecuteOp \/ LoopTest

Next == Host \/ Step

Spec == Init /\ [][Next]_vars

(* A run is sequential code: nothing can keep its next step from happening.*)
FairSpec == Spec /\ WF_vars(Step)
=============================================================================
