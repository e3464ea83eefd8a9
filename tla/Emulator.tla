------------------------------ MODULE Emulator ------------------------------
(***************************************************************************)
(* main.cpp: the program around class cpu.  It reads a command line, loads *)
(* the code region from a file, fills the SRAM region, creates the cpu on  *)
(* the two and runs it for the number of instructions it was given.        *)
(*                                                                         *)
(* main is the host of module Cpu: it uses the constructor, which resets,  *)
(* and one counted run.  The members of cpu hold garbage from the start,   *)
(* as does the memory they come to lie in.                                 *)
(***************************************************************************)
EXTENDS CpuProperties, Sequences

CONSTANTS
  CommandLines,  \* the argv[1] .. argv[argc - 1] main may be called with
  Texts,         \* the arguments in them
  Strtoul,       \* what std::strtoul makes of an argument
  Files          \* the content of the files that open, by their names

ULONG_MAX == SizeT - 1

ASSUME EmulatorAssumption ==
  /\ CommandLines \subseteq Seq(Texts)
  /\ Strtoul \in [Texts -> 0..ULONG_MAX]
  /\ Files \in [DOMAIN Files -> Seq(Byte)]
  /\ Images = {[c \in {} |-> Blank]}
  /\ RunArgs = 0..SizeT-1
  /\ HostCalls = {"reset"} \cup CountedLoops
  /\ MaxCalls >= 2

VARIABLES
  argv, verbose, code_size, sram_size, index,  \* of main, where index is its i
  code_good, sram_good,                    \* code_file.good(), sram_file.good()
  stage,    \* where main is
  overrun,  \* history: whether main has written past the end of an array
  exit      \* how main has ended

main == <<argv, verbose, code_size, sram_size, index, code_good, sram_good>>

emulator == <<vars, main, stage, overrun, exit>>

MainInit ==
  /\ Init
  /\ argv \in CommandLines
  /\ verbose = FALSE
  /\ code_size = 0 /\ sram_size = 0 /\ index = 0
  /\ code_good = FALSE /\ sram_good = FALSE
  /\ stage = "arguments" /\ overrun = FALSE /\ exit = "none"

-----------------------------------------------------------------------------
argc == Len(argv) + 1

Arg(k) == argv[k + IF verbose THEN 1 ELSE 0]

End(how) == stage' = "end" /\ exit' = how

Usage ==
  /\ stage = "arguments"
  /\ argc # 6 /\ argc # 7
  /\ End("usage")
  /\ UNCHANGED <<vars, main, overrun>>

ReadOptions ==
  /\ stage = "arguments"
  /\ argc = 6 \/ argc = 7
  /\ argv' = argv
  /\ verbose' = (argc = 7 /\ argv[1] = "-v")
  /\ code_size' = Strtoul[Arg(1)']
  /\ sram_size' = Strtoul[Arg(3)']
  /\ stage' = "sizes"
  /\ UNCHANGED <<vars, index, code_good, sram_good, overrun, exit>>

Wrong(size) == size = 0 \/ size = ULONG_MAX

RefuseSizes ==
  /\ stage = "sizes"
  /\ Wrong(code_size) \/ Wrong(sram_size)
  /\ End("refused")
  /\ UNCHANGED <<vars, main, overrun>>

OpenCode ==
  /\ stage = "sizes"
  /\ ~Wrong(code_size) /\ ~Wrong(sram_size)
  /\ IF Arg(2) \in DOMAIN Files THEN stage' = "code" /\ UNCHANGED exit
                                ELSE End("refused")
  /\ code_good' = (Arg(2) \in DOMAIN Files)
  /\ UNCHANGED <<vars, argv, verbose, code_size, sram_size, index, sram_good, overrun>>

(* (uint8_t) of what get() returns k bytes into a stream; EOF is -1.       *)
(* A mutated Got: without the cast.                                        *)
GotUncast(content, k) == IF k < Len(content) THEN content[k + 1] ELSE -1
Got(content, k) == IF k < Len(content) THEN content[k + 1] ELSE (-1) % BYTE

Put(m, region, k, b) ==
  [c \in DOMAIN m \cup {<<region, k>>} |-> IF c = <<region, k>> THEN b ELSE m[c]]

(* A mutated LoadingCode: the loop goes on to the end of the file.         *)
LoadingCodeToEof == stage = "code" /\ code_good
LoadingCode == stage = "code" /\ code_good /\ index < code_size

LoadCode ==
  /\ LoadingCode
  /\ memory' = Put(memory, "code_region", index, Got(Files[Arg(2)], index))
  /\ overrun' = (overrun \/ index >= code_size)
  /\ code_good' = (index < Len(Files[Arg(2)]))
  /\ index' = index + 1
  /\ UNCHANGED <<registers, psr, next_pc, cpu_prefetch, holdState, phase, caller,
                 instr, n_instr, thrown, history, calls, argv, verbose, code_size,
                 sram_size, sram_good, stage, exit>>

(* The code file is closed and the SRAM file opened; nothing asks whether  *)
(* it did open.                                                            *)
OpenSram ==
  /\ stage = "code" /\ ~LoadingCode
  /\ sram_good' = (Arg(4) \in DOMAIN Files)
  /\ index' = 0
  /\ stage' = "sram"
  /\ UNCHANGED <<vars, argv, verbose, code_size, sram_size, code_good, overrun, exit>>

(* A mutated FillingSram: one byte more.                                   *)
FillingSramInclusive == stage = "sram" /\ sram_good /\ index <= code_size
FillingSram == stage = "sram" /\ sram_good /\ index < code_size

(* The bytes come from code_file, which is closed.                         *)
(* A mutated FillSram: the index stays where it is.                        *)
FillSramSpins ==
  /\ FillingSram
  /\ memory' = Put(memory, "sram_region", index, Got(<<>>, index))
  /\ overrun' = (overrun \/ index >= sram_size)
  /\ code_good' = FALSE
  /\ UNCHANGED <<registers, psr, next_pc, cpu_prefetch, holdState, phase, caller,
                 instr, n_instr, thrown, history, calls, argv, verbose, code_size,
                 sram_size, index, sram_good, stage, exit>>

FillSram ==
  /\ FillingSram
  /\ memory' = Put(memory, "sram_region", index, Got(<<>>, index))
  /\ overrun' = (overrun \/ index >= sram_size)
  /\ code_good' = FALSE
  /\ index' = index + 1
  /\ UNCHANGED <<registers, psr, next_pc, cpu_prefetch, holdState, phase, caller,
                 instr, n_instr, thrown, history, calls, argv, verbose, code_size,
                 sram_size, sram_good, stage, exit>>

(* The constructor resets the cpu it makes.                                *)
CreateCpu ==
  /\ stage = "sram" /\ ~FillingSram
  /\ Reset
  /\ stage' = "call"
  /\ UNCHANGED <<main, overrun, exit>>

(* A mutated CallRun: -v is not counted.                                   *)
CallRunUnshifted ==
  /\ stage = "call"
  /\ IF verbose THEN VerboseRun(Strtoul[argv[5]]) ELSE RunN(Strtoul[argv[5]])
  /\ stage' = "run"
  /\ UNCHANGED <<main, overrun, exit>>

CallRun ==
  /\ stage = "call"
  /\ IF verbose THEN VerboseRun(Strtoul[Arg(5)]) ELSE RunN(Strtoul[Arg(5)])
  /\ stage' = "run"
  /\ UNCHANGED <<main, overrun, exit>>

Turn ==
  /\ stage = "run"
  /\ Step
  /\ UNCHANGED <<main, stage, overrun, exit>>

(* The cpu is printed after the run; no one catches its exceptions.        *)
PrintCpu ==
  /\ stage = "run" /\ phase = "idle"
  /\ End(IF thrown THEN "terminated" ELSE "printed")
  /\ UNCHANGED <<vars, main, overrun>>

(* new throws: before the code file is opened, before the SRAM file is, or *)
(* for the cpu.                                                            *)
OutOfMemory ==
  /\ \/ stage = "sizes" /\ ~Wrong(code_size) /\ ~Wrong(sram_size)
     \/ stage = "code" /\ ~LoadingCode
     \/ stage = "sram" /\ ~FillingSram
  /\ End("terminated")
  /\ UNCHANGED <<vars, main, overrun>>

(* Once main has written past an array the process may end at any time.    *)
Crash ==
  /\ overrun /\ stage # "end"
  /\ End("terminated")
  /\ UNCHANGED <<vars, main, overrun>>

MainNext ==
  \/ Usage \/ ReadOptions \/ RefuseSizes
  \/ OpenCode \/ LoadCode
  \/ OpenSram \/ FillSram
  \/ CreateCpu \/ CallRun \/ Turn \/ PrintCpu
  \/ OutOfMemory \/ Crash

MainSpec == MainInit /\ [][MainNext]_emulator

(* main and the loop it calls are one thread of sequential code.           *)
FairMainSpec == MainSpec /\ WF_emulator(MainNext)

-----------------------------------------------------------------------------
(* Each variable of main and of the cpu has its type.                      *)
MainTypeOK ==
  /\ TypeOK
  /\ argv \in CommandLines /\ verbose \in BOOLEAN
  /\ code_size \in 0..ULONG_MAX /\ sram_size \in 0..ULONG_MAX
  /\ index \in 0..ULONG_MAX
  /\ code_good \in BOOLEAN /\ sram_good \in BOOLEAN
  /\ stage \in {"arguments", "sizes", "code", "sram", "call", "run", "end"}
  /\ overrun \in BOOLEAN
  /\ exit \in {"none", "usage", "refused", "terminated", "printed"}

(* The arguments as the usage text names them, whether -v comes first or   *)
(* not: CODE_SIZE CODE_FILE SRAM_SIZE SRAM_FILE NUM_INSTR.                 *)
Given == IF argc = 7 /\ argv[1] = "-v" THEN Tail(argv) ELSE argv
CODE_SIZE == Strtoul[Given[1]]
CODE_FILE == Files[Given[2]]
SRAM_SIZE == Strtoul[Given[3]]
SRAM_FILE == Given[4]
NUM_INSTR == Strtoul[Given[5]]

Region(name) ==
  [k \in {c[2] : c \in {d \in DOMAIN memory : d[1] = name}} |-> memory[<<name, k>>]]

(* The part of the file that has room.                                     *)
FromFile == 0..(IF Len(CODE_FILE) < CODE_SIZE THEN Len(CODE_FILE) ELSE CODE_SIZE)-1

(* The cpu is created on a code region that holds the file from its start, *)
(* cut at CODE_SIZE; a shorter file is followed by a single byte 255, which *)
(* the end of the file reads as, and the rest is as it was allocated.      *)
CodeLoaded ==
  stage = "call" =>
    Region("code_region") =
      [k \in FromFile \cup (IF Len(CODE_FILE) < CODE_SIZE THEN {Len(CODE_FILE)} ELSE {})
         |-> IF k \in FromFile THEN CODE_FILE[k + 1] ELSE 255]

(* No array is overrun by a command line whose SRAM is as large as its     *)
(* code: the two loops of main stop in time, the second for the size of    *)
(* the first.                                                              *)
ArraysKept == overrun => CODE_SIZE > SRAM_SIZE

(* As long as the program has not written over its own code, what is       *)
(* executed is what the file holds at the address in the program.          *)
CodeUnwritten ==
  \A k \in FromFile : <<"code_region", k>> \in DOMAIN memory
                      /\ memory[<<"code_region", k>>] = CODE_FILE[k + 1]

ExecutesFile ==
  phase = "execute" /\ ~thrown /\ ~stale =>
    LET a == Minus(next_pc, 2)
    IN  (CodeUnwritten /\ InCode(a) /\ {a, a + 1} \subseteq FromFile)
          => instr = CODE_FILE[a + 1] + 256 * CODE_FILE[a + 2]

(* When the cpu is printed it has executed the number of instructions that *)
(* were asked for on the command line, the whole range of size_t for 0, or *)
(* one when holdState came up set.                                         *)
ExecutesNumInstr ==
  exit = "printed" => done = IF holdState THEN 1 ELSE Turns(NUM_INSTR)

(* How far main is, and the rounds its loop has left: bytes to load or     *)
(* fill, or steps of the run.                                              *)
Place == [arguments |-> 1, sizes |-> 2, code |-> 3, sram |-> 4, call |-> 5,
          run |-> 6, end |-> 7][stage]

RoundsLeft ==
  IF stage \in {"code", "sram"} THEN code_size - index
  ELSE IF stage = "run" /\ phase # "idle" THEN StepsLeft ELSE 0

(* Each step takes main further, or leaves its loop with fewer rounds, by  *)
(* the size of the code in both loops over the files and by the number of  *)
(* instructions in the run: no command line and no file keeps main in one  *)
(* of them.                                                                *)
MainProgress == [][
  Place' > Place \/ (stage' = stage /\ RoundsLeft' \in 0..RoundsLeft-1)
  ]_emulator

(* The program ends, whatever it is called with.                           *)
MainEnds == <>(stage = "end")

-----------------------------------------------------------------------------
(* What the documentation says of main and the code does not do.           *)

(* The cpu is created on the SRAM of SRAM_FILE, "the file that contains    *)
(* the initial SRAM memory" (README.md), which main says it copies.        *)
SramLoaded ==
  stage = "call" /\ SRAM_FILE \in DOMAIN Files =>
    \A k \in 0..SRAM_SIZE-1 : k < Len(Files[SRAM_FILE]) =>
      ByteIn(memory, <<"sram_region", k>>) = Files[SRAM_FILE][k + 1]
=============================================================================
