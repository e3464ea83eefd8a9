------------------------------ MODULE Decoder ------------------------------
(***************************************************************************)
(* cpu::execute_op: which handler a 16 bit instruction goes to, and the    *)
(* bit fields the handlers cut out of it.                                  *)
(***************************************************************************)
EXTENDS Words

BitPositions16 == 0..15
BitsOf16(i) == {k \in BitPositions16 : BitAt(i, k)}

(* The tests of execute_op in the order it makes them: an instruction      *)
(* matches when its bits under the mask are those of the value.            *)
Arm(mask, value, handler) ==
  [mask |-> BitsOf16(mask), value |-> BitsOf16(value), handler |-> handler]

Arms == <<
  Arm(\b1111111111111111, \b0100011011000000, "nop"),
  Arm(\b1111111111101111, \b1011011001100010, "cpsi_d_e"),
  Arm(\b1111111111101111, \b1011111100100000, "wait_for_interupt_event"),
  Arm(\b1111111111111111, \b1011111101000000, "send_event"),
  Arm(\b1111111100000000, \b1101111100000000, "supervisor_call"),
  Arm(\b1111111100000000, \b1101111000000000, "breakpoint"),
  Arm(\b1111111100000000, \b1101111100000000, "software_interrupt"),
  Arm(\b1111111100000000, \b1011000000000000, "add_offset_to_stack_pointer"),
  Arm(\b1111001000000000, \b0101000000000000, "load_store_with_register_offset"),
  Arm(\b1111001000000000, \b0101001000000000, "load_store_sign_extended_byte_halfword"),
  Arm(\b1111011000000000, \b1011010000000000, "push_pop_registers"),
  Arm(\b1111110000000000, \b0100000000000000, "alu_operations"),
  Arm(\b1111110000000000, \b0100010000000000, "hi_register_operations_branch_exchange"),
  Arm(\b1111100000000000, \b0001100000000000, "add_subtract"),
  Arm(\b1111100000000000, \b0100100000000000, "pc_relative_load"),
  Arm(\b1111100000000000, \b0111000000000000, "unconditional_branch"),
  Arm(\b1111100000000000, \b0111000000000000, "unconditional_branch"),
  Arm(\b1111000000000000, \b1000000000000000, "load_store_halfword_immediate_offset"),
  Arm(\b1111000000000000, \b1001000000000000, "sp_relative_load_store"),
  Arm(\b1111000000000000, \b1010000000000000, "load_address"),
  Arm(\b1111000000000000, \b1100000000000000, "multiple_load_store"),
  Arm(\b1111000000000000, \b1101000000000000, "conditional_branch"),
  Arm(\b1111000000000000, \b1111000000000000, "long_branch_with_link"),
  Arm(\b1110000000000000, \b0010000000000000, "move_compare_add_subtract_immediate"),
  Arm(\b1110000000000000, \b0000000000000000, "move_shifted_register"),
  Arm(\b1110000000000000, \b0110000000000000, "load_store_with_immediate_offset")
  >>

Matches(bits, k) == bits \cap Arms[k].mask = Arms[k].value

(* The handler of the first arm that matches.                              *)
First(hits) == CHOOSE k \in hits : \A j \in hits : k <= j

Handler(i) ==
  LET bits == BitsOf16(i)
      hits == {k \in DOMAIN Arms : Matches(bits, k)}
  IN  IF hits = {} THEN "unknown" ELSE Arms[First(hits)].handler

(* The handlers that do nothing: each builds a std::runtime_error and does *)
(* not throw it, as does execute_op for an instruction it does not know.   *)
Unimplemented ==
  {"cpsi_d_e", "wait_for_interupt_event", "send_event", "supervisor_call",
   "breakpoint", "software_interrupt", "unknown"}

-----------------------------------------------------------------------------
(* Fields, named by their place: the register in bits 0-2, 3-5, 6-8 and    *)
(* 8-10, the four bit register of BX, the immediates, a flag bit, and the  *)
(* set of low registers in an Rlist.                                       *)
Reg0(i) == i % 8
Reg3(i) == (i \div 8) % 8
Reg6(i) == (i \div 64) % 8
Reg8(i) == (i \div 256) % 8
RegX(i) == (i \div 8) % 16
Imm5(i) == (i \div 64) % 32
Imm8(i) == i % 256
ShiftOffset(i) == Imm5(i) % WordBits  \* all of Imm5 when WordBits = 32
Flag(i, k) == BitAt(i, k)
Rlist(i) == {r \in 0..7 : BitAt(i, r)}

(* Two and one bit operation codes.                                        *)
Op11(i) == (i \div 2048) % 4
Op10(i) == (i \div 1024) % 4
Op9(i) == (i \div 512) % 2
HiOp(i) == (i \div 64) % 16
Cond(i) == (i \div 256) % 16

(* The op code of alu_operations: four bits are documented, but            *)
(* OPERATION_4_MASK keeps three.                                           *)
AluOp(i) == (i \div 64) % 8

(* Whether push_pop_registers pops is read from bit 2 of the instruction,  *)
(* which is also R2's bit in the list.                                     *)
IsPop(i) == Flag(i, 2)

(* Signed branch offsets in bytes.                                         *)
Offset8(i) == 2 * (IF Imm8(i) < 128 THEN Imm8(i) ELSE Imm8(i) - 256)
Offset11(i) == 2 * (i % 1024) - (IF Flag(i, 10) THEN 2048 ELSE 0)
=============================================================================
