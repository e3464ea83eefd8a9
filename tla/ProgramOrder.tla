---------------------------- MODULE ProgramOrder ----------------------------
(***************************************************************************)
(* What the pipeline of cpu/cpu.cpp promises: a processor that has none.   *)
(* It executes the half-word memory holds at pc, an instruction reads R15  *)
(* as pc + 4, and each instruction says where pc goes next.  What becomes  *)
(* of the other registers, the flags and memory is left open: this is the  *)
(* order of a program and not its arithmetic.                              *)
(*                                                                         *)
(* The promise ends, and lost is set, with an exception, with a store into *)
(* the two half-words that come next, and with a reset, which leaves the   *)
(* buffer unfilled.  The call of run(n) or verbose_run(n) renews it.       *)
(***************************************************************************)
EXTENDS Alu, Memory, Decoder

VARIABLES
  pc,         \* the address of the next instruction
  file,       \* R0 to R14
  psr,
  memory,
  running,    \* a run is on
  lost        \* nothing is promised

vars == <<pc, file, psr, memory, running, lost>>
data == <<file, psr, memory>>

Following == Plus(pc, 2)
Ahead == Plus(pc, 4)
Operand(r) == IF r = 15 THEN Ahead ELSE file[r]

(* The two half-words at an address.                                       *)
Upcoming(m, a) == <<Read16(m, a), Read16(m, Plus(a, 2))>>

-----------------------------------------------------------------------------
(* Where an instruction goes.  ADD and MOV of the high registers with the  *)
(* PC as destination, and BX and BLX, go to an even address.               *)
HighRd(i) == Reg0(i) + (IF Flag(i, 7) THEN 8 ELSE 0)
IsBranchExchange(i) == HiOp(i) \in {12, 13}
IsBranchLinkExchange(i) == HiOp(i) \in {14, 15}

(* BLX LR reads LR after it has put R15 there.                             *)
ExchangeAddress(i) ==
  IF IsBranchLinkExchange(i) /\ RegX(i) = 14 THEN Ahead ELSE Operand(RegX(i))

HighTarget(i, target) ==
  LET to(value) == IF HighRd(i) = 15 THEN Even(value) ELSE Following
  IN  \/ /\ HiOp(i) \in {1, 2, 3}
         /\ target = to(Plus(Operand(HighRd(i)), Operand(RegX(i))))
      \/ HiOp(i) \in {9, 10, 11} /\ target = to(Operand(RegX(i)))
      \/ HiOp(i) \in 12..15 /\ target = Even(ExchangeAddress(i))
      \/ HiOp(i) \in {0, 4, 5, 6, 7, 8} /\ target = Following

(* A POP that has the PC in its list finds it above the low registers.     *)
Popped(i) ==
  Even(Read32(memory, Slot(Aligned4(file[13]), Rlist(i) \cup {15}, 15)))

Branching == {"hi_register_operations_branch_exchange", "push_pop_registers",
              "conditional_branch", "unconditional_branch", "long_branch_with_link"}

Target(i, target) ==
  LET h == Handler(i)
  IN  \/ h = "unconditional_branch" /\ target = Plus(Ahead, Offset11(i))
      \/ /\ h = "conditional_branch"
         /\ target = IF Condition(Cond(i), psr) THEN Plus(Ahead, Offset8(i))
                                                ELSE Following
      \/ /\ h = "long_branch_with_link"
         /\ target = Even(Plus(Ahead, 4096 * ((i % 2048) - 2048)))
      \/ h = "hi_register_operations_branch_exchange" /\ HighTarget(i, target)
      \/ /\ h = "push_pop_registers"
         /\ target = IF IsPop(i) /\ Flag(i, 8) THEN Popped(i) ELSE Following
      \/ h \notin Branching /\ target = Following

(* BX and BLX to an even address throw; so does BX through LR or the PC    *)
(* whatever they hold, as it runs on into BLX.                             *)
Throws(i) ==
  /\ Handler(i) = "hi_register_operations_branch_exchange"
  /\ \/ HiOp(i) \in 12..15 /\ ExchangeAddress(i) % 2 = 0
     \/ IsBranchExchange(i) /\ RegX(i) \in {14, 15}

-----------------------------------------------------------------------------
Init ==
  /\ pc = Read32(memory, 4)
  /\ running = FALSE
  /\ lost = TRUE

(* An instruction.  BL leaves the address of the one after it in LR, with  *)
(* the Thumb bit.                                                          *)
Execute ==
  LET i == Read16(memory, pc)
  IN  /\ running /\ ~lost
      /\ ~Throws(i)
      /\ Target(i, pc')
      /\ Handler(i) = "long_branch_with_link" => file'[14] = Even(Following) + 1
      /\ lost' = (Upcoming(memory', pc') # Upcoming(memory, pc'))
      /\ running' = TRUE

Throw ==
  /\ running /\ ~lost
  /\ Throws(Read16(memory, pc))
  /\ lost' = TRUE /\ running' = FALSE

(* The host starts a run, a counted one with the promise renewed.          *)
Begin ==
  /\ ~running /\ running' = TRUE
  /\ lost' \in {lost, FALSE}
  /\ UNCHANGED <<pc, data>>

End ==
  /\ running /\ running' = FALSE
  /\ UNCHANGED <<pc, data, lost>>

(* Between runs the host resets the processor or writes memory.            *)
Reset ==
  /\ ~running /\ running' = FALSE
  /\ pc' = Read32(memory, 4)
  /\ lost' = TRUE
  /\ UNCHANGED <<file, memory>>

Store ==
  /\ ~running /\ running' = FALSE
  /\ lost' = (lost \/ Upcoming(memory', pc) # Upcoming(memory, pc))
  /\ UNCHANGED <<pc, file, psr>>

(* Once it is lost, a run does anything.                                   *)
Wander == running /\ lost /\ lost' = TRUE

Next ==
  \/ Execute \/ Throw \/ Begin \/ End
  \/ Reset \/ Store \/ Wander

Spec == Init /\ [][Next]_vars
=============================================================================
