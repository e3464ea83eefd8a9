------------------------------ MODULE MCStack ------------------------------
(***************************************************************************)
(* Programs of pushes and pops, with work and stores between them.         *)
(***************************************************************************)
EXTENDS StackUse, MCCpu

(* POP {R2}, POP {R0, R2}, POP {R2, PC}.                                   *)
Pops == {\hB404, \hB405, \hB504}

(* PUSH {R0, R1}, PUSH {R1}, PUSH {R3, LR}, ADD R0, #1, LSR R1, R0, #1, and *)
(* two that keep to the stack or do not, as the registers are:             *)
(* STR R1, [R4, R5] and ADD SP, #4.                                        *)
StackInstructions ==
  Pops \cup {\hB403, \hB402, \hB508, \h3001, \h0841, \h5161, \hB081}

(* Three of them and a POP.                                                *)
StackImages ==
  {Image(Append(p, pop)) : p \in [1..3 -> StackInstructions], pop \in Pops}

MCBottom == Sram + 64

(* The saved registers hold addresses of fillers, the stack pointer may be *)
(* misaligned, and R4 + R5 is a place under the stack or the first word on *)
(* it.                                                                     *)
StackFiles ==
  {File(0 :> Start + 400 @@ 1 :> Start + 801 @@ 3 :> 16384 @@ 4 :> MCBottom @@ 5 :> away,
        sp, Start + 303) : sp \in {MCBottom, MCBottom + 2}, away \in {WORD - 4, 4}}
=============================================================================
