--------------------------- MODULE EmulatorProofs ---------------------------
(***************************************************************************)
(* What main of main.cpp does with any command line, any files and any     *)
(* sizes: the regions it makes, the instructions it executes and how many  *)
(* of them.                                                                *)
(***************************************************************************)
EXTENDS Emulator, CpuProofs

(* Before the cpu is called, and while main is neither at its start nor at *)
(* its end.                                                                *)
Before == stage \in {"arguments", "sizes", "code", "sram"}
Underway == stage \in {"sizes", "code", "sram", "call", "run"}

(* The options are read as the usage text orders them.                     *)
Options == Underway =>
  /\ argc \in {6, 7}
  /\ verbose <=> argc = 7 /\ argv[1] = "-v"
  /\ code_size = Strtoul[Arg(1)] /\ sram_size = Strtoul[Arg(3)]

(* The code file did open.                                                 *)
Opened == stage \in {"code", "sram", "call", "run"} => Arg(2) \in DOMAIN Files

(* The loops stay below the size of the code.                              *)
Bounded ==
  /\ stage \in {"arguments", "sizes"} => index = 0
  /\ stage \in {"code", "sram"} => index <= code_size

(* The cpu does not run before it is called.                               *)
Waiting ==
  /\ Before => phase = "idle" /\ caller = "none" /\ stale = TRUE /\ thrown = FALSE
  /\ stage = "call" => phase = "idle" /\ caller = "none" /\ thrown = FALSE

MainInv == MainTypeOK /\ Options /\ Opened /\ Bounded /\ Waiting

-----------------------------------------------------------------------------
(* A region with one more byte is a memory.                                *)
LEMMA PutTyped ==
  ASSUME NEW m, IsMemory(m), NEW region, NEW k, NEW b \in Byte
  PROVE  IsMemory(Put(m, region, k, b))
BY DEF IsMemory, Put

(* What a stream returns is a byte; past its end it is 255.                *)
LEMMA GotByte ==
  ASSUME NEW content \in Seq(Byte), NEW k \in Nat
  PROVE  /\ Got(content, k) \in Byte
         /\ Got(content, k) = IF k < Len(content) THEN content[k + 1] ELSE 255
<1>1. BYTE \in Nat \ {0} /\ 255 \in 0..BYTE-1 /\ BYTE * (-1) + 255 = -1
  BY DEF BYTE
<1>2. (BYTE * (-1) + 255) % BYTE = 255
  BY <1>1, Remainder
<1>3. (-1) % BYTE = 255
  BY <1>1, <1>2
<1>4. k < Len(content) => content[k + 1] \in Byte
  OBVIOUS
<1>. QED  BY <1>1, <1>3, <1>4 DEF Got, Byte

(* The numbers of the command line.                                        *)
LEMMA Numbers ==
  /\ ULONG_MAX \in Nat /\ 0 \in 0..ULONG_MAX
  /\ \A t \in Texts : Strtoul[t] \in 0..ULONG_MAX
BY CpuAssumption, EmulatorAssumption DEF ULONG_MAX

(* argc counts the name of the program as well.                            *)
LEMMA Argc ==
  ASSUME argv \in CommandLines
  PROVE  /\ argv \in Seq(Texts)
         /\ Len(argv) \in Nat /\ argc \in Nat /\ Len(argv) = argc - 1
<1>1. argv \in Seq(Texts)
  BY EmulatorAssumption
<1>2. Len(argv) \in Nat
  BY <1>1
<1>. QED  BY <1>1, <1>2 DEF argc

(* The arguments main looks at are those the usage text names.             *)
LEMMA ArgsGiven ==
  ASSUME argv \in CommandLines, argc \in {6, 7},
         verbose <=> argc = 7 /\ argv[1] = "-v", NEW k \in 1..5
  PROVE  Arg(k) = Given[k] /\ Arg(k) \in Texts
<1>1. argv \in Seq(Texts) /\ Len(argv) = argc - 1
  BY Argc
<1>2. CASE verbose
  <2>1. Len(argv) = 6 /\ Given = Tail(argv)
    BY <1>1, <1>2 DEF Given
  <2>2. Arg(k) = argv[k + 1] /\ k + 1 \in 1..Len(argv)
    BY <1>2, <2>1 DEF Arg
  <2>. QED  BY <1>1, <2>1, <2>2
<1>3. CASE ~verbose
  <2>1. Given = argv
    BY <1>3 DEF Given
  <2>2. Arg(k) = argv[k] /\ k \in 1..Len(argv)
    BY <1>1, <1>3 DEF Arg
  <2>. QED  BY <1>1, <2>1, <2>2
<1>. QED  BY <1>2, <1>3

(* The same, of the options that were read.                                *)
LEMMA ArgsKnown ==
  ASSUME MainInv, Underway
  PROVE  \A k \in 1..5 : Arg(k) = Given[k] /\ Arg(k) \in Texts
<1>1. argv \in CommandLines
  BY DEF MainInv, MainTypeOK
<1>2. argc \in {6, 7} /\ (verbose <=> argc = 7 /\ argv[1] = "-v")
  BY Zenon DEF MainInv, Options
<1>. QED  BY <1>1, <1>2, ArgsGiven

(* The steps of main that call the cpu are steps of module Cpu.            *)
LEMMA CallsAreNext ==
  ASSUME MainInv, CreateCpu \/ CallRun \/ Turn
  PROVE  Next
<1>1. CASE CreateCpu
  BY <1>1 DEF CreateCpu, Next, Host
<1>2. CASE CallRun
  <2>1. Arg(5) \in Texts
    BY <1>2, ArgsKnown DEF CallRun, Underway
  <2>2. Strtoul[Arg(5)] \in RunArgs
    BY <2>1, Numbers, EmulatorAssumption DEF ULONG_MAX
  <2>. QED  BY <1>2, <2>2 DEF CallRun, Next, Host
<1>3. CASE Turn
  BY <1>3 DEF Turn, Next
<1>. QED  BY <1>1, <1>2, <1>3

(* The loading steps put one byte into a region.                           *)
LEMMA LoadsPut ==
  ASSUME MainInv, LoadCode \/ FillSram
  PROVE  /\ IsMemory(memory')
         /\ index < code_size /\ index \in Nat /\ index' = index + 1
         /\ index' \in 0..ULONG_MAX /\ index' <= code_size
<1>1. /\ index \in Nat /\ index < code_size
      /\ index + 1 \in 0..ULONG_MAX /\ index + 1 <= code_size
  BY Numbers DEF LoadCode, LoadingCode, FillSram, FillingSram, MainInv, MainTypeOK
<1>2. CASE LoadCode
  <2>1. Files[Arg(2)] \in Seq(Byte)
    BY <1>2, EmulatorAssumption DEF LoadCode, LoadingCode, MainInv, Opened
  <2>2. Got(Files[Arg(2)], index) \in Byte
    BY <1>1, <2>1, GotByte
  <2>. QED  BY <1>1, <1>2, <2>2, PutTyped DEF LoadCode, MainInv, MainTypeOK, TypeOK
<1>3. CASE FillSram
  <2>1. <<>> \in Seq(Byte)
    OBVIOUS
  <2>2. Got(<<>>, index) \in Byte
    BY <1>1, <2>1, GotByte
  <2>. QED  BY <1>1, <1>3, <2>2, PutTyped DEF FillSram, MainInv, MainTypeOK, TypeOK
<1>. QED  BY <1>2, <1>3

(* How each step changes the cpu: not at all, by a byte that is loaded, or *)
(* by a step of its own.                                                   *)
LEMMA CpuSteps ==
  ASSUME MainInv, [MainNext]_emulator
  PROVE  [Next]_vars \/ LoadCode \/ FillSram
BY CallsAreNext
DEF MainNext, emulator, Usage, ReadOptions, RefuseSizes, OpenCode, OpenSram, PrintCpu,
    OutOfMemory, Crash

-----------------------------------------------------------------------------
(* The initial state.                                                      *)
LEMMA MainInitial == MainInit => MainInv
<1> SUFFICES ASSUME MainInit PROVE MainInv
  OBVIOUS
<1>1. TypeOK
  BY InitTyped DEF MainInit
<1>. QED
  BY <1>1, Numbers
  DEF MainInit, Init, MainInv, MainTypeOK, Options, Opened, Bounded, Waiting, Before, Underway

(* Every step keeps the types of the cpu.                                  *)
LEMMA CpuTyped ==
  ASSUME MainInv, [MainNext]_emulator
  PROVE  TypeOK'
<1>1. CASE [Next]_vars
  BY <1>1, NextTyped DEF MainInv, MainTypeOK
<1>2. CASE LoadCode
  BY <1>2, LoadsPut DEF LoadCode, history, MainInv, MainTypeOK, TypeOK
<1>3. CASE FillSram
  BY <1>3, LoadsPut DEF FillSram, history, MainInv, MainTypeOK, TypeOK
<1>. QED  BY <1>1, <1>2, <1>3, CpuSteps

(* Five arguments are read, after -v when there is a sixth.                *)
LEMMA OptionsRead ==
  ASSUME MainInv, ReadOptions
  PROVE  /\ argc \in {6, 7}
         /\ verbose' <=> argc = 7 /\ argv[1] = "-v"
         /\ code_size' \in 0..ULONG_MAX /\ sram_size' \in 0..ULONG_MAX
<1>1. argv \in Seq(Texts) /\ Len(argv) = argc - 1
  BY Argc DEF MainInv, MainTypeOK
<1>2. argc = 6 \/ argc = 7
  BY DEF ReadOptions
<1>3. verbose' <=> argc = 7 /\ argv[1] = "-v"
  BY DEF ReadOptions
<1>4. argv' = argv
  BY DEF ReadOptions
<1>5. ASSUME NEW k \in 1..5 PROVE Arg(k)' \in Texts
  <2>1. CASE verbose'
    <3>1. Arg(k)' = argv[k + 1] /\ k + 1 \in 1..Len(argv)
      BY <1>1, <1>3, <1>4, <2>1 DEF Arg
    <3>. QED  BY <1>1, <3>1
  <2>2. CASE ~verbose'
    <3>1. Arg(k)' = argv[k] /\ k \in 1..Len(argv)
      BY <1>1, <1>2, <1>4, <2>2 DEF Arg
    <3>. QED  BY <1>1, <3>1
  <2>. QED  BY <2>1, <2>2
<1>6. code_size' = Strtoul[Arg(1)'] /\ sram_size' = Strtoul[Arg(3)']
  BY DEF ReadOptions
<1>. QED  BY <1>2, <1>3, <1>5, <1>6, Numbers

(* The code file opens or main ends.                                       *)
LEMMA CodeOpened ==
  ASSUME OpenCode
  PROVE  /\ stage = "sizes" /\ code_good' \in BOOLEAN
         /\ \/ stage' = "code" /\ exit' = exit /\ Arg(2) \in DOMAIN Files
            \/ stage' = "end" /\ exit' = "refused"
         /\ UNCHANGED <<vars, argv, verbose, code_size, sram_size, index, sram_good, overrun>>
<1>1. stage = "sizes" /\ code_good' \in BOOLEAN
  BY DEF OpenCode
<1>2. CASE Arg(2) \in DOMAIN Files
  <2>1. stage' = "code" /\ exit' = exit
    BY <1>2 DEF OpenCode
  <2>. QED  BY <1>1, <1>2, <2>1 DEF OpenCode
<1>3. CASE Arg(2) \notin DOMAIN Files
  <2>1. stage' = "end" /\ exit' = "refused"
    BY <1>3 DEF OpenCode, End
  <2>. QED  BY <1>1, <2>1 DEF OpenCode
<1>. QED  BY <1>2, <1>3

(* Every step of main keeps the types and what is known of the options.    *)
LEMMA MainStep ==
  ASSUME MainInv, [MainNext]_emulator
  PROVE  MainInv'
<1>0. TypeOK'
  BY CpuTyped
<1> USE DEF MainInv, MainTypeOK, Options, Opened, Bounded, Waiting, Before, Underway
<1>1. CASE Usage \/ RefuseSizes \/ PrintCpu \/ OutOfMemory \/ Crash
  BY <1>0, <1>1
  DEF Usage, RefuseSizes, PrintCpu, OutOfMemory, Crash, End, main, vars, history
<1>2. CASE ReadOptions
  <2>1. /\ argv' = argv /\ code_size' = Strtoul[Arg(1)'] /\ sram_size' = Strtoul[Arg(3)']
        /\ stage = "arguments" /\ stage' = "sizes"
        /\ UNCHANGED <<vars, index, code_good, sram_good, overrun, exit>>
    BY <1>2 DEF ReadOptions
  <2>2. argc' \in {6, 7} /\ (verbose' <=> argc' = 7 /\ argv'[1] = "-v")
    BY <1>2, <2>1, OptionsRead DEF argc
  <2>3. Options' /\ Opened'
    BY <2>1, <2>2
  <2>4. Bounded' /\ Waiting'
    BY <2>1 DEF vars, history
  <2>5. verbose' \in BOOLEAN
    BY <1>2 DEF ReadOptions
  <2>6. MainTypeOK'
    BY <1>0, <1>2, <2>1, <2>5, OptionsRead
  <2>. QED  BY <2>3, <2>4, <2>6 DEF MainInv
<1>3. CASE OpenCode
  <2>1. CASE stage' = "code"
    <3>1. /\ UNCHANGED <<vars, argv, verbose, code_size, sram_size, index, sram_good, overrun>>
          /\ exit' = exit /\ Arg(2) \in DOMAIN Files /\ stage = "sizes"
          /\ code_good' \in BOOLEAN
      BY <1>3, <2>1, CodeOpened
    <3>2. argc' = argc /\ \A k : Arg(k)' = Arg(k)
      BY <3>1 DEF Arg, argc
    <3>3. Options' /\ Opened'
      BY <2>1, <3>1, <3>2
    <3>4. Bounded' /\ Waiting'
      BY <2>1, <3>1, Numbers DEF vars, history
    <3>5. MainTypeOK'
      BY <1>0, <2>1, <3>1
    <3>. QED  BY <3>3, <3>4, <3>5 DEF MainInv
  <2>2. CASE stage' = "end"
    BY <1>0, <1>3, <2>2, CodeOpened DEF vars, history
  <2>. QED  BY <1>3, <2>1, <2>2, CodeOpened
<1>4. CASE LoadCode
  BY <1>0, <1>4, LoadsPut, Numbers DEF LoadCode, LoadingCode, Arg, argc, history
<1>5. CASE OpenSram
  BY <1>0, <1>5, Numbers DEF OpenSram, Arg, argc, vars, history
<1>6. CASE FillSram
  <2>1. index' \in 0..ULONG_MAX /\ index' <= code_size
    BY <1>6, LoadsPut
  <2>2. overrun' \in BOOLEAN /\ code_good' = FALSE
    BY <1>6 DEF FillSram
  <2>. QED  BY <1>0, <1>6, <2>1, <2>2 DEF FillSram, FillingSram, Arg, argc, history
<1>7. CASE CreateCpu
  BY <1>0, <1>7 DEF CreateCpu, Reset, main, Arg, argc
<1>8. CASE CallRun \/ Turn
  <2>1. /\ UNCHANGED main /\ overrun' = overrun /\ exit' = exit
        /\ stage \in {"call", "run"} /\ stage' = "run"
    BY <1>8 DEF CallRun, Turn
  <2>2. argc' = argc /\ \A k : Arg(k)' = Arg(k)
    BY <2>1 DEF main, Arg, argc
  <2>3. MainTypeOK'
    BY <1>0, <2>1 DEF main
  <2>4. Options' /\ Opened'
    BY <2>1, <2>2 DEF main
  <2>5. Bounded' /\ Waiting'
    BY <2>1
  <2>. QED  BY <2>3, <2>4, <2>5 DEF MainInv
<1>9. CASE UNCHANGED emulator
  BY <1>0, <1>9 DEF emulator, main, vars, Arg, argc, history
<1>. QED
  BY <1>1, <1>2, <1>3, <1>4, <1>5, <1>6, <1>7, <1>8, <1>9 DEF MainNext

(* main and the cpu keep their types, for every command line and files.    *)
THEOREM MainTypeCorrect == MainSpec => []MainTypeOK
<1>1. MainInv => MainTypeOK
  BY DEF MainInv
<1>. QED  BY <1>1, MainInitial, MainStep, PTL DEF MainSpec

-----------------------------------------------------------------------------
(* What is executed.                                                       *)
ExecInv == MainInv /\ PipelineSync /\ HeldInv

(* Loading does not disturb the pipeline, which is not filled yet.         *)
LEMMA ExecStep ==
  ASSUME ExecInv, [MainNext]_emulator
  PROVE  ExecInv'
<1>1. MainInv'
  BY MainStep DEF ExecInv
<1>2. TypeOK
  BY DEF ExecInv, MainInv, MainTypeOK
<1>3. CASE [Next]_vars
  BY <1>1, <1>2, <1>3, SyncStep, HeldStep DEF ExecInv
<1>4. CASE LoadCode \/ FillSram
  <2>1. phase = "idle" /\ stale = TRUE /\ thrown = FALSE
    BY <1>4 DEF LoadCode, LoadingCode, FillSram, FillingSram, ExecInv, MainInv, Waiting, Before
  <2>2. UNCHANGED <<registers, next_pc, phase, stale, thrown>>
    BY <1>4 DEF LoadCode, FillSram, history
  <2>3. PipelineSync'
    BY <2>2 DEF ExecInv, PipelineSync, Synced
  <2>4. HeldInv'
    BY <2>1, <2>2 DEF HeldInv, BufferHeld, ExecutesMemory
  <2>. QED  BY <1>1, <2>3, <2>4 DEF ExecInv
<1>. QED  BY <1>3, <1>4, CpuSteps DEF ExecInv

(* What memory holds of the file is what the file holds.                   *)
LEMMA FileInMemory ==
  ASSUME CodeUnwritten, NEW a \in Int, InCode(a), {a, a + 1} \subseteq FromFile
  PROVE  Read16(memory, a) = CODE_FILE[a + 1] + 256 * CODE_FILE[a + 2]
<1>1. /\ <<"code_region", a>> \in DOMAIN memory
      /\ memory[<<"code_region", a>>] = CODE_FILE[a + 1]
  BY DEF CodeUnwritten
<1>2. /\ <<"code_region", a + 1>> \in DOMAIN memory
      /\ memory[<<"code_region", a + 1>>] = CODE_FILE[a + 1 + 1]
  BY DEF CodeUnwritten
<1>3. a + 1 + 1 = a + 2 /\ a - 0 + 0 = a /\ a - 0 + 1 = a + 1
  OBVIOUS
<1>4. Cell(a, 0) = <<"code_region", a>> /\ Cell(a, 1) = <<"code_region", a + 1>>
  BY <1>3 DEF Cell, CODE_BEGIN
<1>. QED  BY <1>1, <1>2, <1>3, <1>4 DEF Read16, Mapped, ByteIn, BYTE

(* What main's run executes is the code file, at the addresses of the      *)
(* program, as long as the program does not write over it: for all command *)
(* lines, files, sizes and numbers of instructions.                        *)
THEOREM FileIsExecuted == MainSpec => []ExecutesFile
<1>1. MainInit => ExecInv
  <2> SUFFICES ASSUME MainInit PROVE ExecInv
    OBVIOUS
  <2>1. Init
    BY DEF MainInit
  <2>2. PipelineSync
    BY <2>1, InitTyped DEF PipelineSync
  <2>3. HeldInv
    BY <2>1 DEF Init, HeldInv, BufferHeld, ExecutesMemory
  <2>. QED  BY <2>2, <2>3, MainInitial DEF ExecInv
<1>2. ExecInv => ExecutesFile
  <2> SUFFICES ASSUME ExecInv, phase = "execute", ~thrown, ~stale, CodeUnwritten,
                      InCode(Minus(next_pc, 2)),
                      {Minus(next_pc, 2), Minus(next_pc, 2) + 1} \subseteq FromFile
               PROVE  instr = CODE_FILE[Minus(next_pc, 2) + 1]
                                + 256 * CODE_FILE[Minus(next_pc, 2) + 2]
    BY DEF ExecutesFile
  <2>1. instr = Read16(memory, Minus(next_pc, 2))
    BY DEF ExecInv, HeldInv, ExecutesMemory
  <2>2. Minus(next_pc, 2) \in Int
    <3>1. next_pc - 2 \in Int
      BY WordSize DEF ExecInv, MainInv, MainTypeOK, TypeOK, Word
    <3>. QED  BY <3>1, Wraps, Masked DEF Minus
  <2>. QED  BY <2>1, <2>2, FileInMemory
<1>. QED  BY <1>1, <1>2, ExecStep, PTL DEF MainSpec

-----------------------------------------------------------------------------
(* How much is executed.                                                   *)
Counted ==
  /\ stage = "run" => asked = Strtoul[Arg(5)] /\ (thrown \/ caller \in CountedLoops)
  /\ exit = "printed" => stage = "end" /\ ExecutesNumInstr

CountInv == MainInv /\ RunCount /\ Counted

(* A turn of the loop keeps what it was called for.                        *)
LEMMA TurnKeepsCall ==
  ASSUME TypeOK, Step
  PROVE  asked' = asked /\ (thrown' = TRUE \/ UNCHANGED <<thrown, caller>>)
<1>1. CASE Fetch
  BY <1>1 DEF Fetch, history
<1>2. CASE ExecuteOp
  <2>1. Return \/ Throw
    BY <1>2, HandlersKept DEF Kept, Quiet, Landed, Threw
  <2>. QED  BY <2>1 DEF Return, Throw, history
<1>3. CASE LoopTest
  BY <1>3 DEF LoopTest, history
<1>. QED  BY <1>1, <1>2, <1>3 DEF Step

(* Loading calls nothing, so nothing is counted yet.                       *)
LEMMA LoadingCounts ==
  ASSUME MainInv, RunCount, [MainNext]_emulator
  PROVE  RunCount'
<1>1. TypeOK
  BY DEF MainInv, MainTypeOK
<1>2. CASE [Next]_vars
  BY <1>1, <1>2, CountStep
<1>3. CASE LoadCode \/ FillSram
  <2>1. caller' = "none"
    BY <1>3 DEF LoadCode, LoadingCode, FillSram, FillingSram, MainInv, Waiting, Before
  <2>. QED  BY <2>1 DEF RunCount, CountedLoops
<1>. QED  BY <1>2, <1>3, CpuSteps

(* The run is called with NUM_INSTR, and is over when the cpu is printed.  *)
LEMMA CountedKept ==
  ASSUME MainInv, RunCount, Counted, [MainNext]_emulator
  PROVE  Counted'
<1>1. CASE Usage \/ RefuseSizes \/ OutOfMemory \/ Crash
  BY <1>1 DEF Usage, RefuseSizes, OutOfMemory, Crash, End, Counted
<1>2. CASE ReadOptions \/ OpenSram \/ LoadCode \/ FillSram \/ CreateCpu
  BY <1>2
  DEF ReadOptions, OpenSram, LoadCode, LoadingCode, FillSram, FillingSram, CreateCpu, Counted
<1>3. CASE OpenCode
  BY <1>3, CodeOpened DEF Counted
<1>4. CASE CallRun
  <2>1. /\ stage = "call" /\ stage' = "run" /\ exit' = exit
        /\ asked' = Strtoul[Arg(5)] /\ caller' \in CountedLoops
    BY <1>4 DEF CallRun, RunN, VerboseRun, CountedRun, CountedLoops
  <2>2. Arg(5)' = Arg(5)
    BY <1>4 DEF CallRun, main, Arg
  <2>. QED  BY <2>1, <2>2 DEF Counted
<1>5. CASE Turn
  <2>1. asked' = asked /\ (thrown' = TRUE \/ UNCHANGED <<thrown, caller>>)
    BY <1>5, TurnKeepsCall DEF Turn, MainInv, MainTypeOK
  <2>2. stage = "run" /\ exit' = exit /\ Arg(5)' = Arg(5)
    BY <1>5 DEF Turn, main, Arg
  <2>. QED  BY <2>1, <2>2 DEF Counted
<1>6. CASE PrintCpu
  <2>1. stage = "run" /\ phase = "idle" /\ stage' = "end"
    BY <1>6 DEF PrintCpu, End
  <2>2. UNCHANGED <<argv, done, holdState>>
    BY <1>6 DEF PrintCpu, vars, history, main
  <2>3. SUFFICES ASSUME exit' = "printed"
                 PROVE  done = IF holdState THEN 1 ELSE Turns(NUM_INSTR)
    BY <2>1, <2>2 DEF Counted, ExecutesNumInstr, Turns, NUM_INSTR, Given, argc
  <2>4. ~thrown
    BY <1>6, <2>3 DEF PrintCpu, End
  <2>5. asked = Strtoul[Arg(5)] /\ caller \in CountedLoops
    BY <2>1, <2>4 DEF Counted
  <2>6. Arg(5) = Given[5]
    BY <2>1, ArgsKnown DEF Underway
  <2>. QED  BY <2>1, <2>5, <2>6 DEF RunCount, NUM_INSTR
<1>7. CASE UNCHANGED emulator
  BY <1>7
  DEF emulator, main, vars, history, Counted, ExecutesNumInstr, Turns, NUM_INSTR, Given,
      Arg, argc
<1>. QED  BY <1>1, <1>2, <1>3, <1>4, <1>5, <1>6, <1>7 DEF MainNext

(* What main prints is a cpu that has executed NUM_INSTR instructions, of  *)
(* the argument the usage text names, with -v and without.                 *)
THEOREM NumInstrIsExecuted == MainSpec => []ExecutesNumInstr
<1>1. MainInit => CountInv
  <2>1. MainInit => RunCount /\ Counted
    BY DEF MainInit, Init, RunCount, Counted, CountedLoops
  <2>. QED  BY <2>1, MainInitial DEF CountInv
<1>2. CountInv /\ [MainNext]_emulator => CountInv'
  BY MainStep, LoadingCounts, CountedKept DEF CountInv
<1>3. CountInv => ExecutesNumInstr
  BY DEF CountInv, Counted, ExecutesNumInstr
<1>. QED  BY <1>1, <1>2, <1>3, PTL DEF MainSpec

-----------------------------------------------------------------------------
(* What the regions hold.  The first n bytes of a region and no other, as  *)
(* a function gives them.                                                  *)
Holds(m, region, n, f) == \A k :
  /\ <<region, k>> \in DOMAIN m <=> k \in 0..n-1
  /\ k \in 0..n-1 => m[<<region, k>>] = f[k]

Paired == \A c \in DOMAIN memory : \E region, k : c = <<region, k>>

CodeBytes == [k \in Nat |-> IF k < Len(CODE_FILE) THEN CODE_FILE[k + 1] ELSE 255]

(* The bytes of the code region that are loaded in the end.                *)
Loaded == IF Len(CODE_FILE) < CODE_SIZE THEN Len(CODE_FILE) + 1 ELSE CODE_SIZE

NothingHeld == DOMAIN memory = {}

CodeHeld ==
  /\ Paired
  /\ Holds(memory, "code_region", index, CodeBytes)
  /\ index <= Len(CODE_FILE) + 1
  /\ code_good <=> index <= Len(CODE_FILE)

AllHeld ==
  /\ Paired
  /\ Holds(memory, "code_region", Loaded, CodeBytes)

LoadInv ==
  /\ stage \in {"arguments", "sizes"} => NothingHeld
  /\ stage = "code" => CodeHeld
  /\ stage \in {"sram", "call"} => AllHeld

(* The next byte of a region extends what it holds.                        *)
LEMMA PutExtends ==
  ASSUME NEW m, NEW region, NEW n \in Nat, NEW f, Holds(m, region, n, f),
         NEW b, b = f[n]
  PROVE  Holds(Put(m, region, n, b), region, n + 1, f)
<1> SUFFICES ASSUME NEW k
             PROVE  /\ <<region, k>> \in DOMAIN Put(m, region, n, b) <=> k \in 0..n+1-1
                    /\ k \in 0..n+1-1 => Put(m, region, n, b)[<<region, k>>] = f[k]
  BY DEF Holds
<1>1. k \in 0..n+1-1 <=> k \in 0..n-1 \/ k = n
  OBVIOUS
<1>2. <<region, k>> = <<region, n>> <=> k = n
  OBVIOUS
<1>3. /\ <<region, k>> \in DOMAIN m <=> k \in 0..n-1
      /\ k \in 0..n-1 => m[<<region, k>>] = f[k]
  BY DEF Holds
<1>4. DOMAIN Put(m, region, n, b) = DOMAIN m \cup {<<region, n>>}
  BY DEF Put
<1>5. k = n => Put(m, region, n, b)[<<region, k>>] = b
  BY DEF Put
<1>6. k \in 0..n-1 => k # n
  OBVIOUS
<1>7. k \in 0..n-1 => Put(m, region, n, b)[<<region, k>>] = m[<<region, k>>]
  BY <1>2, <1>3, <1>6 DEF Put
<1>. QED  BY <1>1, <1>2, <1>3, <1>4, <1>5, <1>7

(* A byte of one region leaves the other alone.                            *)
LEMMA PutElsewhere ==
  ASSUME NEW m, NEW region, NEW other, region # other, NEW j, NEW b,
         NEW n, NEW f, Holds(m, other, n, f)
  PROVE  Holds(Put(m, region, j, b), other, n, f)
<1> SUFFICES ASSUME NEW k
             PROVE  /\ <<other, k>> \in DOMAIN Put(m, region, j, b) <=> k \in 0..n-1
                    /\ k \in 0..n-1 => Put(m, region, j, b)[<<other, k>>] = f[k]
  BY DEF Holds
<1>1. <<other, k>> # <<region, j>>
  OBVIOUS
<1>2. /\ <<other, k>> \in DOMAIN m <=> k \in 0..n-1
      /\ k \in 0..n-1 => m[<<other, k>>] = f[k]
  BY DEF Holds
<1>. QED  BY <1>1, <1>2 DEF Put

(* The region as a function of its offsets.                                *)
LEMMA RegionHeld ==
  ASSUME Paired, NEW region, NEW n, NEW f, Holds(memory, region, n, f)
  PROVE  Region(region) = [k \in 0..n-1 |-> f[k]]
<1> DEFINE K == {c[2] : c \in {d \in DOMAIN memory : d[1] = region}}
<1>1. ASSUME NEW k \in K PROVE k \in 0..n-1
  <2>1. PICK c \in DOMAIN memory : c[1] = region /\ c[2] = k
    OBVIOUS
  <2>2. PICK r, j : c = <<r, j>>
    BY DEF Paired
  <2>3. c = <<region, k>>
    BY <2>1, <2>2
  <2>. QED  BY <2>1, <2>3 DEF Holds
<1>2. ASSUME NEW k \in 0..n-1 PROVE k \in K
  <2>1. <<region, k>> \in DOMAIN memory
    BY DEF Holds
  <2>2. <<region, k>>[1] = region /\ <<region, k>>[2] = k
    OBVIOUS
  <2>. QED  BY <2>1, <2>2
<1>3. K = 0..n-1
  BY <1>1, <1>2
<1>4. \A k \in 0..n-1 : memory[<<region, k>>] = f[k]
  BY DEF Holds
<1>. QED  BY <1>3, <1>4 DEF Region

(* No step changes the command line.                                       *)
LEMMA CommandLineKept ==
  ASSUME [MainNext]_emulator
  PROVE  /\ argv' = argv
         /\ UNCHANGED <<CODE_SIZE, CODE_FILE, SRAM_SIZE, SRAM_FILE>>
         /\ UNCHANGED <<CodeBytes, Loaded>>
<1>1. argv' = argv
  BY DEF MainNext, emulator, main, Usage, ReadOptions, RefuseSizes, OpenCode, LoadCode,
         OpenSram, FillSram, CreateCpu, CallRun, Turn, PrintCpu, OutOfMemory, Crash
<1>2. Given' = Given
  BY <1>1 DEF Given, argc
<1>3. UNCHANGED <<CODE_SIZE, CODE_FILE, SRAM_SIZE, SRAM_FILE>>
  BY <1>2 DEF CODE_SIZE, CODE_FILE, SRAM_SIZE, SRAM_FILE
<1>. QED  BY <1>1, <1>3 DEF CodeBytes, Loaded

(* The options are the sizes and files of the command line.                *)
LEMMA OptionsGiven ==
  ASSUME MainInv, Underway
  PROVE  /\ code_size = CODE_SIZE /\ sram_size = SRAM_SIZE
         /\ Files[Arg(2)] = CODE_FILE /\ Arg(4) = SRAM_FILE
         /\ Opened /\ stage \in {"code", "sram", "call", "run"} => CODE_FILE \in Seq(Byte)
<1>1. code_size = Strtoul[Arg(1)] /\ sram_size = Strtoul[Arg(3)]
  BY DEF MainInv, Options
<1>2. Arg(1) = Given[1] /\ Arg(2) = Given[2] /\ Arg(3) = Given[3] /\ Arg(4) = Given[4]
  BY ArgsKnown
<1>3. Opened /\ stage \in {"code", "sram", "call", "run"} => Files[Arg(2)] \in Seq(Byte)
  BY EmulatorAssumption DEF Opened
<1>. QED  BY <1>1, <1>2, <1>3 DEF CODE_SIZE, CODE_FILE, SRAM_SIZE, SRAM_FILE

(* A byte that is loaded goes to the end of the code region.               *)
LEMMA CodeByteHeld ==
  ASSUME MainInv, CodeHeld, LoadCode
  PROVE  CodeHeld'
<1>1. stage = "code" /\ index \in Nat /\ index < code_size /\ (code_good = TRUE)
  BY DEF LoadCode, LoadingCode, MainInv, MainTypeOK
<1>2. CODE_FILE \in Seq(Byte) /\ Files[Arg(2)] = CODE_FILE
  BY <1>1, OptionsGiven DEF MainInv, Underway
<1>3. Len(CODE_FILE) \in Nat
  BY <1>2
<1>4. Got(CODE_FILE, index) = CodeBytes[index]
  BY <1>1, <1>2, GotByte DEF CodeBytes
<1>5. memory' = Put(memory, "code_region", index, CodeBytes[index])
  BY <1>2, <1>4 DEF LoadCode
<1>6. index <= Len(CODE_FILE)
  BY <1>1 DEF CodeHeld
<1>7. /\ index' = index + 1
      /\ code_good' <=> index < Len(CODE_FILE)
  BY <1>2 DEF LoadCode
<1>8. UNCHANGED <<CODE_FILE, CodeBytes>>
  BY CommandLineKept DEF MainNext
<1>9. Holds(memory', "code_region", index + 1, CodeBytes)
  BY <1>1, <1>5, PutExtends DEF CodeHeld
<1>10. Paired'
  BY <1>5 DEF CodeHeld, Paired, Put
<1>11. /\ index + 1 <= Len(CODE_FILE) + 1
       /\ index < Len(CODE_FILE) <=> index + 1 <= Len(CODE_FILE)
  BY <1>1, <1>3, <1>6
<1>12. Holds(memory, "code_region", index, CodeBytes)'
  BY <1>7, <1>8, <1>9 DEF Holds
<1>13. index' <= Len(CODE_FILE)' + 1 /\ (code_good' <=> index' <= Len(CODE_FILE)')
  BY <1>7, <1>8, <1>11
<1>. QED  BY <1>10, <1>12, <1>13 DEF CodeHeld

(* When the loop ends the code region is loaded.                           *)
LEMMA CodeDone ==
  ASSUME MainInv, CodeHeld, OpenSram
  PROVE  AllHeld'
<1>1. /\ stage = "code" /\ index \in Nat /\ index <= code_size
      /\ (~code_good \/ ~(index < code_size))
  BY DEF OpenSram, LoadingCode, MainInv, MainTypeOK, Bounded
<1>2. CODE_FILE \in Seq(Byte) /\ code_size = CODE_SIZE
  BY <1>1, OptionsGiven DEF MainInv, Underway
<1>3. code_size \in Nat /\ Len(CODE_FILE) \in Nat
  BY <1>2, Numbers DEF MainInv, MainTypeOK
<1>4. index = Loaded
  <2>1. CASE ~code_good
    <3>1. index <= Len(CODE_FILE) + 1 /\ ~(index <= Len(CODE_FILE))
      BY <2>1 DEF CodeHeld
    <3>. QED  BY <1>1, <1>2, <1>3, <3>1 DEF Loaded
  <2>2. CASE code_good
    <3>1. index <= Len(CODE_FILE)
      BY <2>2 DEF CodeHeld
    <3>2. index = code_size
      BY <1>1, <1>3, <2>2
    <3>. QED  BY <1>1, <1>2, <1>3, <3>1, <3>2 DEF Loaded
  <2>. QED  BY <2>1, <2>2
<1>5. memory' = memory
  BY DEF OpenSram, vars
<1>6. UNCHANGED <<CodeBytes, Loaded>>
  BY CommandLineKept DEF MainNext
<1>7. Holds(memory, "code_region", Loaded, CodeBytes)'
  BY <1>4, <1>5, <1>6 DEF CodeHeld, Holds
<1>8. Paired'
  BY <1>5 DEF CodeHeld, Paired
<1>. QED  BY <1>7, <1>8 DEF AllHeld

(* What is written to the SRAM region leaves the code region as it is.     *)
LEMMA FillKeepsCode ==
  ASSUME AllHeld, FillSram
  PROVE  AllHeld'
<1>1. memory' = Put(memory, "sram_region", index, Got(<<>>, index))
  BY DEF FillSram
<1>2. UNCHANGED <<CodeBytes, Loaded>>
  BY CommandLineKept DEF MainNext
<1>3. Holds(memory', "code_region", Loaded, CodeBytes)
  BY <1>1, PutElsewhere DEF AllHeld
<1>4. Paired'
  BY <1>1 DEF AllHeld, Paired, Put
<1>5. Holds(memory, "code_region", Loaded, CodeBytes)'
  BY <1>2, <1>3 DEF Holds
<1>. QED  BY <1>4, <1>5 DEF AllHeld

(* The code file opens before anything is loaded.                          *)
LEMMA NothingIsHeld ==
  ASSUME MainInv, NothingHeld, OpenCode, stage' = "code"
  PROVE  CodeHeld'
<1>1. /\ UNCHANGED <<vars, argv, verbose, code_size, sram_size, index, sram_good, overrun>>
      /\ stage = "sizes" /\ Arg(2) \in DOMAIN Files
  BY CodeOpened
<1>2. memory' = memory /\ index' = 0 /\ (code_good' = TRUE)
  BY <1>1 DEF OpenCode, MainInv, Bounded, vars
<1>3. CODE_FILE \in Seq(Byte)
  BY <1>1, ArgsKnown, EmulatorAssumption DEF Underway, CODE_FILE
<1>4. CODE_FILE' = CODE_FILE
  BY CommandLineKept DEF MainNext
<1>5. Len(CODE_FILE)' \in Nat
  BY <1>3, <1>4
<1>6. DOMAIN memory' = {}
  BY <1>2 DEF NothingHeld
<1>7. Paired'
  BY <1>6 DEF Paired
<1>8. Holds(memory, "code_region", index, CodeBytes)'
  BY <1>2, <1>6 DEF Holds
<1>. QED  BY <1>2, <1>5, <1>7, <1>8 DEF CodeHeld

(* Every step keeps what is known of the regions.                          *)
LEMMA LoadStep ==
  ASSUME MainInv, LoadInv, [MainNext]_emulator
  PROVE  LoadInv'
<1>1. CASE Usage \/ RefuseSizes \/ OutOfMemory \/ Crash \/ PrintCpu
  BY <1>1 DEF Usage, RefuseSizes, OutOfMemory, Crash, PrintCpu, End, LoadInv
<1>2. CASE ReadOptions
  BY <1>2 DEF ReadOptions, LoadInv, NothingHeld, vars
<1>3. CASE OpenCode
  BY <1>3, CodeOpened, NothingIsHeld DEF LoadInv
<1>4. CASE LoadCode
  <2>1. stage = "code" /\ stage' = "code"
    BY <1>4 DEF LoadCode, LoadingCode
  <2>. QED  BY <1>4, <2>1, CodeByteHeld DEF LoadInv
<1>5. CASE OpenSram
  <2>1. stage = "code" /\ stage' = "sram"
    BY <1>5 DEF OpenSram
  <2>. QED  BY <1>5, <2>1, CodeDone DEF LoadInv
<1>6. CASE FillSram
  <2>1. stage = "sram" /\ stage' = "sram"
    BY <1>6 DEF FillSram, FillingSram
  <2>. QED  BY <1>6, <2>1, FillKeepsCode DEF LoadInv
<1>7. CASE CreateCpu
  <2>1. stage = "sram" /\ stage' = "call"
    BY <1>7 DEF CreateCpu
  <2>2. memory' = memory
    BY <1>7 DEF CreateCpu, Reset
  <2>3. UNCHANGED <<CodeBytes, Loaded>>
    BY CommandLineKept
  <2>4. AllHeld'
    BY <2>1, <2>2, <2>3 DEF LoadInv, AllHeld, Paired, Holds
  <2>. QED  BY <2>1, <2>4 DEF LoadInv
<1>8. CASE CallRun \/ Turn
  BY <1>8 DEF CallRun, Turn, LoadInv
<1>9. CASE UNCHANGED emulator
  <2>1. /\ memory' = memory /\ index' = index /\ stage' = stage /\ code_good' = code_good
    BY <1>9 DEF emulator, main, vars
  <2>2. UNCHANGED <<CODE_FILE, CodeBytes, Loaded>>
    BY CommandLineKept
  <2>3. \A region, n, f : Holds(memory', region, n, f) <=> Holds(memory, region, n, f)
    BY <2>1
  <2>4. /\ NothingHeld => NothingHeld'
        /\ CodeHeld => CodeHeld'
        /\ AllHeld => AllHeld'
    BY <2>1, <2>2, <2>3 DEF NothingHeld, CodeHeld, AllHeld, Paired, Holds
  <2>. QED  BY <2>1, <2>4, Zenon DEF LoadInv
<1>. QED  BY <1>1, <1>2, <1>3, <1>4, <1>5, <1>6, <1>7, <1>8, <1>9 DEF MainNext

(* At the start nothing is loaded.                                         *)
LEMMA LoadInitial == MainInit => LoadInv
<1> SUFFICES ASSUME MainInit PROVE LoadInv
  OBVIOUS
<1>1. memory = [c \in {} |-> Blank]
  BY EmulatorAssumption DEF MainInit, Init
<1>2. DOMAIN memory = {}
  BY <1>1
<1>. QED  BY <1>2 DEF MainInit, LoadInv, NothingHeld

(* main creates the cpu on the code of the file, cut at the size of the    *)
(* region, with one byte 255 after a file that is shorter: for every       *)
(* command line and all files.                                             *)
THEOREM CodeIsLoaded == MainSpec => []CodeLoaded
<1>1. MainInv /\ LoadInv => CodeLoaded
  <2> SUFFICES ASSUME MainInv, LoadInv, stage = "call" PROVE CodeLoaded
    BY DEF CodeLoaded
  <2>1. /\ CODE_FILE \in Seq(Byte) /\ CODE_SIZE = code_size
    BY OptionsGiven DEF MainInv, Underway
  <2>2. Len(CODE_FILE) \in Nat /\ CODE_SIZE \in Nat
    BY <2>1, Numbers DEF MainInv, MainTypeOK
  <2>3. Region("code_region") = [k \in 0..Loaded-1 |-> CodeBytes[k]]
    BY RegionHeld DEF LoadInv, AllHeld
  <2> DEFINE After == IF Len(CODE_FILE) < CODE_SIZE THEN {Len(CODE_FILE)} ELSE {}
  <2>4. FromFile \cup After = 0..Loaded-1
    BY <2>2 DEF FromFile, Loaded
  <2>5. ASSUME NEW k \in 0..Loaded-1
        PROVE  CodeBytes[k] = IF k \in FromFile THEN CODE_FILE[k + 1] ELSE 255
    BY <2>2 DEF FromFile, Loaded, CodeBytes
  <2>6. [k \in 0..Loaded-1 |-> CodeBytes[k]]
          = [k \in 0..Loaded-1 |-> IF k \in FromFile THEN CODE_FILE[k + 1] ELSE 255]
    BY <2>5
  <2>. QED  BY <2>3, <2>4, <2>6, Zenon DEF CodeLoaded
<1>. QED  BY <1>1, MainInitial, MainStep, LoadInitial, LoadStep, PTL DEF MainSpec

(* No step overruns an array while the SRAM is as large as the code.       *)
LEMMA ArraysStep ==
  ASSUME MainInv, ArraysKept, [MainNext]_emulator
  PROVE  ArraysKept'
<1>1. CODE_SIZE' = CODE_SIZE /\ SRAM_SIZE' = SRAM_SIZE
  BY CommandLineKept
<1>2. CASE LoadCode
  <2>1. index \in Nat /\ code_size \in Nat /\ index < code_size
    BY <1>2, Numbers DEF LoadCode, LoadingCode, MainInv, MainTypeOK
  <2>2. ~(index >= code_size)
    BY <2>1
  <2>3. overrun' => overrun
    BY <1>2, <2>2, Zenon DEF LoadCode
  <2>. QED  BY <1>1, <2>3 DEF ArraysKept
<1>3. CASE FillSram
  <2>1. /\ stage = "sram" /\ index \in Nat /\ index < code_size
        /\ code_size \in Nat /\ sram_size \in Nat
    BY <1>3, Numbers DEF FillSram, FillingSram, MainInv, MainTypeOK
  <2>2. code_size = CODE_SIZE /\ sram_size = SRAM_SIZE
    BY <2>1, OptionsGiven DEF Underway
  <2>3. overrun' => overrun \/ index >= sram_size
    BY <1>3 DEF FillSram
  <2>. QED  BY <1>1, <2>1, <2>2, <2>3 DEF ArraysKept
<1>4. CASE ~LoadCode /\ ~FillSram
  <2>1. overrun' = overrun
    BY <1>4 DEF MainNext, emulator, main, Usage, ReadOptions, RefuseSizes, OpenCode, OpenSram,
                CreateCpu, CallRun, Turn, PrintCpu, OutOfMemory, Crash
  <2>. QED  BY <1>1, <2>1 DEF ArraysKept
<1>. QED  BY <1>2, <1>3, <1>4

(* main stays within its two arrays on every command line whose SRAM is    *)
(* as large as its code, whatever the files hold.                          *)
THEOREM ArraysAreKept == MainSpec => []ArraysKept
<1>1. MainInit => ArraysKept
  BY DEF MainInit, ArraysKept
<1>2. MainInv /\ ArraysKept /\ [MainNext]_emulator => ArraysKept'
  BY ArraysStep
<1>. QED  BY <1>1, <1>2, MainInitial, MainStep, PTL DEF MainSpec

-----------------------------------------------------------------------------
(* The run main waits for is a counted one.                                *)
Called == stage = "run" /\ phase # "idle" => caller \in CountedLoops

(* A step of main keeps the run a counted one.                             *)
LEMMA CalledKept ==
  ASSUME MainInv, Called, [MainNext]_emulator
  PROVE  Called'
<1>1. CASE CallRun
  BY <1>1 DEF CallRun, RunN, VerboseRun, CountedRun, HostCall, Called, CountedLoops
<1>2. CASE Turn
  <2>1. TypeOK /\ Step /\ stage = "run" /\ stage' = stage
    BY <1>2 DEF Turn, MainInv, MainTypeOK
  <2>2. CASE Fetch \/ LoopTest
    BY <2>1, <2>2 DEF Fetch, LoopTest, Called
  <2>3. CASE ExecuteOp
    <3>1. phase = "execute" /\ (Return \/ Throw)
      BY <2>1, <2>3, HandlersKept DEF ExecuteOp, Kept, Quiet, Landed, Threw
    <3>. QED  BY <2>1, <3>1 DEF Return, Throw, Called
  <2>. QED  BY <2>1, <2>2, <2>3 DEF Step
<1>3. CASE UNCHANGED emulator
  BY <1>3 DEF emulator, vars, Called
<1>4. CASE ~(CallRun \/ Turn) /\ MainNext
  <2>1. stage' # "run"
    BY <1>4 DEF MainNext, Usage, ReadOptions, RefuseSizes, OpenCode, LoadCode,
       LoadingCode, OpenSram, FillSram, FillingSram, CreateCpu, PrintCpu, OutOfMemory,
       Crash, End
  <2>. QED  BY <2>1 DEF Called
<1>. QED  BY <1>1, <1>2, <1>3, <1>4

(* A step of main.                                                         *)
LEMMA MainProgresses ==
  ASSUME MainInv, Called, MainNext
  PROVE  \/ Place' > Place
         \/ stage' = stage /\ RoundsLeft' \in 0..RoundsLeft-1
         \/ UNCHANGED emulator
<1>1. /\ code_size \in Nat /\ index \in Nat
      /\ stage \in {"code", "sram"} => index <= code_size
  BY Numbers DEF MainInv, MainTypeOK, Bounded
<1>2. CASE Usage \/ ReadOptions \/ RefuseSizes \/ OpenCode \/ OpenSram \/ CreateCpu
           \/ CallRun \/ PrintCpu \/ OutOfMemory \/ Crash
  <2>1. Place' > Place
    <3>1. stage \in {"arguments", "sizes", "code", "sram", "call", "run", "end"}
      BY DEF MainInv, MainTypeOK
    <3>2. \/ stage # "end" /\ stage' = "end"
          \/ stage = "arguments" /\ stage' = "sizes"
          \/ stage = "sizes" /\ stage' = "code"
          \/ stage = "code" /\ stage' = "sram"
          \/ stage = "sram" /\ stage' = "call"
          \/ stage = "call" /\ stage' = "run"
      BY <1>2 DEF Usage, ReadOptions, RefuseSizes, OpenCode, OpenSram, CreateCpu, CallRun,
         PrintCpu, OutOfMemory, Crash, End
    <3>. QED  BY <3>1, <3>2 DEF Place
  <2>. QED  BY <2>1
<1>3. CASE LoadCode
  <2>1. /\ stage = "code" /\ stage' = stage /\ index < code_size
        /\ index' = index + 1 /\ code_size' = code_size
    BY <1>3 DEF LoadCode, LoadingCode
  <2>. QED  BY <1>1, <2>1 DEF RoundsLeft
<1>4. CASE FillSram
  <2>1. /\ stage = "sram" /\ stage' = stage /\ index < code_size
        /\ index' = index + 1 /\ code_size' = code_size
    BY <1>4 DEF FillSram, FillingSram
  <2>. QED  BY <1>1, <2>1 DEF RoundsLeft
<1>5. CASE Turn
  <2>1. /\ TypeOK /\ Step /\ stage = "run" /\ stage' = stage
        /\ UNCHANGED <<main, stage, overrun, exit>>
    BY <1>5 DEF Turn, MainInv, MainTypeOK
  <2>2. phase # "idle" /\ caller \in CountedLoops
    BY <2>1 DEF Step, Fetch, ExecuteOp, LoopTest, Called
  <2>3. CASE UNCHANGED vars
    BY <2>1, <2>3 DEF emulator
  <2>4. CASE ~UNCHANGED vars
    <3>1. phase' = "idle" \/ StepsLeft' \in 0..StepsLeft-1
      BY <2>1, <2>2, <2>4, ProgressStep DEF Next
    <3>2. StepsLeft \in Nat \ {0}
      BY <2>1, <2>2, LeftPositive
    <3>3. RoundsLeft = StepsLeft
      BY <2>1, <2>2 DEF RoundsLeft
    <3>4. RoundsLeft' = IF phase' # "idle" THEN StepsLeft' ELSE 0
      BY <2>1 DEF RoundsLeft
    <3>. QED  BY <2>1, <3>1, <3>2, <3>3, <3>4
  <2>. QED  BY <2>3, <2>4
<1>. QED  BY <1>2, <1>3, <1>4, <1>5 DEF MainNext

(* main never takes a step that leads it nowhere: each takes it to a later *)
(* place or leaves fewer rounds of the loop it is in, whatever the command *)
(* line and the files.                                                     *)
THEOREM MainMakesProgress == MainSpec => MainProgress
<1>1. MainInit => MainInv /\ Called
  <2>1. MainInit => Called
    BY DEF MainInit, Called
  <2>. QED  BY <2>1, MainInitial
<1>2. MainInv /\ Called /\ [MainNext]_emulator => MainInv' /\ Called'
  BY MainStep, CalledKept
<1>3. MainInv /\ Called /\ [MainNext]_emulator
        => [Place' > Place \/ (stage' = stage /\ RoundsLeft' \in 0..RoundsLeft-1)]_emulator
  BY MainProgresses
<1>. QED  BY <1>1, <1>2, <1>3, PTL DEF MainSpec, MainProgress
=============================================================================
