------------------------------- MODULE MCCpu -------------------------------
(***************************************************************************)
(* Images, registers and calls to check the processor with, for 16 bit     *)
(* registers: the two regions are then 8 KiB each, code from 0 and SRAM    *)
(* from 8192, and half of the address space is unmapped.                   *)
(***************************************************************************)
EXTENDS Tests, MCWords, SequencesExt

Sram == 8192

(* The cells of a list of half-words at offset o of the code region.       *)
Placed(o, halves) ==
  [c \in {<<"code_region", o + k>> : k \in 0..2*Len(halves)-1} |->
     ByteOf(halves[((c[2] - o) \div 2) + 1], (c[2] - o) % 2)]

(* A program, with the address of its first instruction as entry word.     *)
Image(program) ==
  LET vector == Placed(PC_INIT_ADDRESS, <<Start, 0>>)
      text   == Placed(Start, program)
  IN  [c \in DOMAIN vector \cup DOMAIN text |->
         IF c \in DOMAIN text THEN text[c] ELSE vector[c]]

Clear == [n |-> FALSE, z |-> FALSE, c |-> FALSE, v |-> FALSE, t |-> FALSE]
AllSet == [n |-> TRUE, z |-> TRUE, c |-> TRUE, v |-> TRUE, t |-> TRUE]
SomePsrs == {Clear, AllSet}
OnePsr == {Clear}

(* 0xBFBF is an instruction that no arm of execute_op knows.               *)
Filler == 49087
GarbagePrefetch == {[i \in 0..1 |-> Filler]}

File(low, sp, lr) ==
  [r \in 0..15 |-> CASE r \in DOMAIN low -> low[r]
                     [] r = SP -> sp
                     [] r = LR -> lr
                     [] OTHER -> 0]

-----------------------------------------------------------------------------
(* Control flow: every pair of instructions from this list, then fillers.  *)
(* R0 holds an even code address and R1 the odd form of one, R2 the        *)
(* encoding of MOV PC, R0, R3 the start of the program and R4 a small      *)
(* offset, so that STRH R2, [R3, R4] and its like store into the window    *)
(* that is being fetched.                                                  *)
Instructions == {
  \h0000,  \* LSL R0, R0, #0
  \h0848,  \* LSR R0, R1, #1
  \h1048,  \* ASR R0, R1, #1
  \h1848,  \* ADD R0, R1, R1
  \h2801,  \* CMP R0, #1
  \h3002,  \* ADD R0, #2
  \h4008,  \* AND R0, R1
  \h46C0,  \* NOP
  \h4400,  \* unsupported: H1 = H2 = 0
  \h4471,  \* ADD R1, LR
  \h4487,  \* ADD PC, R0
  \h44F7,  \* ADD PC, LR
  \h4508,  \* CMP, H1 = H2 = 0
  \h4581,  \* CMP R9, R0
  \h467A,  \* MOV R2, PC
  \h4687,  \* MOV PC, R0
  \h46F7,  \* MOV PC, LR
  \h4700,  \* BX R0, even
  \h4708,  \* BX R1, odd
  \h4770,  \* BX LR
  \h4778,  \* BX PC
  \h4788,  \* BLX R1
  \h47F0,  \* BLX LR
  \h4A01,  \* LDR R2, [PC, #4]
  \h511A,  \* STR R2, [R3, R4]
  \h551A,  \* STRB R2, [R3, R4]
  \h591A,  \* LDR R2, [R3, R4]
  \h5D1A,  \* LDRB R2, [R3, R4]
  \h531A,  \* STRH R2, [R3, R4]
  \h571A,  \* LDRH R2, [R3, R4]
  \h5B1A,  \* LDSB R2, [R3, R4]
  \h5F1A,  \* LDSH R2, [R3, R4]
  \h611A,  \* STR R2, [R3, #imm]
  \h691A,  \* LDR R2, [R3, #imm]
  \h791A,  \* LDRB R2, [R3, #4]
  \h7000,  \* B +0 as execute_op decodes it
  \h77FD,  \* B -6
  \h811A,  \* store byte R2, [R3, R4]
  \h891A,  \* STRH R2, [R3, R4]
  \h905A,  \* LDR R2, [R3, #4]
  \h985A,  \* STR R2, [R3, #4]
  \hA201,  \* ADD R2, SP, #4
  \hAA01,  \* ADD R2, PC, #4
  \hB001,  \* ADD SP, #-4
  \hB081,  \* ADD SP, #4
  \hB501,  \* PUSH {R0, LR}
  \hB502,  \* PUSH {R1, LR}
  \hB404,  \* POP {R2}
  \hB504,  \* POP {R2, PC}
  \hC304,  \* LDMIA R3!, {R2}
  \hC308,  \* LDMIA R3!, {R3}
  \hCB07,  \* STMIA R3!, {R0, R1, R2}
  \hD0FD,  \* BEQ -6
  \hD100,  \* BNE +0
  \hDF00,  \* SVC
  \hF001   \* BL
  }

Pairs == {Image(<<i, j, Filler>>) : i \in Instructions, j \in Instructions}

FlowFile == File(0 :> Start + 2 @@ 1 :> Start + 5 @@ 2 :> \h4687 @@ 3 :> Start @@ 4 :> 2,
                 Sram + 32, Start + 3)
FlowFiles == {FlowFile}
FlowPokes == {<<Start + 2, \h4687>>}

-----------------------------------------------------------------------------
(* The programs of the tests; after each a branch to itself, so that run() *)
(* has something to go on with.                                            *)
TestImages == {Image(Append(p, \h77FE)) : p \in {MovAdd, MovSub, MovLoop}}

(* What the constructor may find: anything in the low registers, the flags *)
(* and the buffer, of which a few.                                         *)
TestFiles == {File(0 :> 41, Sram, 0), File(1 :> 16384, 0, 65535)}
TestPrefetches == {[i \in 0..1 |-> Filler], [i \in 0..1 |-> 0]}

-----------------------------------------------------------------------------
(* One instruction for each claim of the documentation: BX LR, PUSH {R2}   *)
(* and B -6.                                                               *)
Probes == {Image(<<i>>) : i \in {\h4770, \hB404, \hE7FD}}
=============================================================================
