------------------------------- MODULE Tests -------------------------------
(***************************************************************************)
(* The tests of tests/test-cpu.cpp: three programs, what the host does     *)
(* with them and what it expects.  A test clears and writes the memory of  *)
(* a new cpu, resets it and calls run(n) once.                             *)
(***************************************************************************)
EXTENDS CpuProperties, Sequences

Start == 88  \* CODE_INIT_ADDRESS

(* MOV R0, #12; MOV R1, #1; ADD R0, R1.                                    *)
MovAdd == <<\h200C, \h2101, \h1840>>

(* MOV R0, #12; MOV R1, #13; SUB R0, R1.                                   *)
MovSub == <<\h200C, \h210D, \h1A40>>

(* MOV R0, #12; MOV R1, #1; MOV R2, R15; ADD R2, #1; then, until R0 is 0:  *)
(* SUB R0, R1; BEQ out; BX R2.                                             *)
MovLoop == <<\h200C, \h2101, \h467A, \h3201, \h1A40, \hD000, \h4710>>

(* The program is at the entry address, and anything elsewhere.            *)
Written(m, program) ==
  /\ Entry(m) = Start
  /\ \A i \in 1..Len(program) : Read16(m, Start + 2 * (i - 1)) = program[i]

(* The host's first call is run(n), of a processor that is not held; and   *)
(* it has come back.                                                       *)
Tested(n) ==
  /\ calls = 1 /\ caller \in CountedLoops
  /\ asked = n /\ ~holdState

Ended(n) == Tested(n) /\ phase = "idle"

Flags(n, z, c, v) == [n |-> n, z |-> z, c |-> c, v |-> v, t |-> TRUE]

(* What the tests expect: the registers and the flags, and of the loop     *)
(* that it is left in exactly the instructions it is given.                *)
AddPasses ==
  Ended(3) => /\ registers[0] = 13 /\ registers[1] = 1
              /\ psr = Flags(FALSE, FALSE, FALSE, FALSE)

SubPasses ==
  Ended(3) => /\ registers[0] = WORD - 1 /\ registers[1] = 13
              /\ psr = Flags(TRUE, FALSE, FALSE, FALSE)

LoopPasses ==
  Ended(39) => /\ registers[0] = 0 /\ registers[1] = 1
               /\ psr = Flags(FALSE, TRUE, FALSE, FALSE)
               /\ next_pc = Start + 14

(* The tests find what they expect, whatever the constructor left in the   *)
(* registers, the flags and the buffer, whatever is in the rest of the     *)
(* memory and whichever of the counted loops runs them.  What it left in   *)
(* holdState must be false (Tested), or the loop ends after one turn.      *)
TestsPass ==
  /\ Written(memory, MovAdd)  => []AddPasses
  /\ Written(memory, MovSub)  => []SubPasses
  /\ Written(memory, MovLoop) => []LoopPasses
=============================================================================
