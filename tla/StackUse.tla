------------------------------ MODULE StackUse ------------------------------
(***************************************************************************)
(* The processor with a program that keeps to its stack: it moves the      *)
(* stack pointer with PUSH and POP only, within the room there is for the  *)
(* stack, and stores nothing into the words on it in any other way.  What  *)
(* it gets for that from PUSH and POP is the stack of module WordStack.    *)
(***************************************************************************)
EXTENDS CpuProperties

CONSTANT Bottom  \* the address the stack grows down from

(* A register is at most four bytes wide, as a uint32_t is.                *)
ASSUME StackAssumption ==
  /\ (WORD - 1) \div HALF < HALF
  /\ Bottom \in SRAM_BEGIN..SRAM_END+1 /\ Bottom % 4 = 0

(* The address of the word on the top, and the words from there on.        *)
Top == Aligned4(registers[SP])

WordsFrom(m, A) == [i \in 1..((Bottom - A) \div 4) |-> Read32(m, A + 4 * (i - 1))]

(* The registers that PUSH and POP can name.                               *)
Saved == (0..7) \cup {LR, PC}

Stack == INSTANCE WordStack
         WITH Lists <- SUBSET Saved,
              Pc    <- PC,
              Even  <- Even,
              stack <- WordsFrom(memory, Top),
              file  <- [r \in Saved |-> IF r = PC THEN next_pc ELSE registers[r]]

-----------------------------------------------------------------------------
(* The instructions other than PUSH and POP that write the stack pointer,  *)
(* and those that may store.                                               *)
MovesSp(i) ==
  \/ Handler(i) = "add_offset_to_stack_pointer"
  \/ /\ Handler(i) = "hi_register_operations_branch_exchange"
     /\ HiOp(i) \in {1, 2, 3, 9, 10, 11}
     /\ Reg0(i) + 8 = SP /\ Flag(i, 7)

MayStore(i) ==
  Handler(i) \in {"load_store_with_register_offset",
                  "load_store_sign_extended_byte_halfword",
                  "load_store_with_immediate_offset",
                  "load_store_halfword_immediate_offset",
                  "sp_relative_load_store", "multiple_load_store"}

(* The registers a PUSH or a POP names.                                    *)
Named(i) ==
  Rlist(i) \cup (IF Flag(i, 8) THEN {IF IsPop(i) THEN PC ELSE LR} ELSE {})

(* A PUSH has room above the beginning of SRAM, a POP finds the words it   *)
(* asks for, nothing else moves the stack pointer, and no other store, of  *)
(* the program or of the host, changes a word on the stack.                *)
KeepsToStack ==
  LET size == 4 * Cardinality(Named(instr))
      call == phase = "execute" /\ Handler(instr) = "push_pop_registers"
  IN  /\ call /\ IsPop(instr) => Top + size <= Bottom
      /\ call /\ ~IsPop(instr) => SRAM_BEGIN <= Top - size
      /\ phase = "execute" => ~MovesSp(instr)
      /\ phase = "idle" \/ (phase = "execute" /\ MayStore(instr))
           => WordsFrom(memory', Top) = WordsFrom(memory, Top)

StackSpec == Init /\ Top = Bottom /\ [][Next /\ KeepsToStack]_vars

(* PUSH and POP implement the stack: a POP gets the words the last PUSHes  *)
(* stored and not yet popped put there, in their order, a POP of the PC    *)
(* jumps where the word says, and no other instruction touches them.       *)
StackImplemented == Stack!Spec
=============================================================================
