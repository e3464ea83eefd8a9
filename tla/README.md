# The ARM M0 emulator in TLA+

This directory models the emulator of this repository: the processor of
`cpu/cpu.cpp`, its flag arithmetic in `cpu/util.h`, the memory and the registry of
peripherals of `cpu/mmu.cpp`, and the program around them in `main.cpp`. TLC checks the
models on small instances, TLAPS proves the safety properties and the refinements for every
width of the machine word, every memory, every program and every command line.

The models say what the code does, not what an ARM M0 does. Where the code
departs from its own documentation the model has the code's behaviour, and a run
shows the difference (see "Where the code and its documentation differ").

## The system

The program is sequential: one host thread constructs a `cpu`, calls its public
functions and catches, or in `main` does not catch, what they throw. What makes it
hard is not concurrency but that one position in the program is kept three times
(`next_pc`, R15, the prefetch buffer), that a call may end in the middle of an
instruction by an exception, and that the members are left uninitialised and
carried from call to call.

| component | source | state | operations |
|---|---|---|---|
| processor loop | `cpu/cpu.cpp` 1164-1360 | `registers`, `psr_register`, `next_pc`, `cpu_prefetch`, `holdState` | construct, `reset`, `run()`, `run(n)`, `verbose_run(n)` |
| decoder | `cpu/cpu.cpp` 1164-1221 | none | `execute_op` |
| data processing | `cpu/cpu.cpp` 11-438 | the flags and a low register | four handlers |
| high registers, branches | `cpu/cpu.cpp` 440-601, 931-1122 | R14, R15, `next_pc`, the buffer | ADD, CMP, MOV, BX, BLX, B, Bcc, BL |
| loads, stores, stack | `cpu/cpu.cpp` 603-929 | registers and memory | ten handlers |
| flag predicates | `cpu/util.h` | none | `neg`, `pos`, `add_carry`, ... |
| memory | `cpu/mmu.cpp` | `code_region`, `sram_region` | `read8` ... `write32` |
| peripherals | `pheripherals/peripheral.h`, `mmu::register_peripheral` | the list `peripherals` | register, `in_conflict`, `in_range` |
| `main` | `main.cpp` | its options, the index of its loops, two streams, two arrays | read the options, load, create, run, print |
| enumerations, printing, tests | `cpu/registers.h`, `cpu::print`, `tests/` | | |

The run loops call `prefetch`/`prefetch_next` and `execute_op`; `execute_op` calls
one handler; the handlers read and write memory through the `mmu`, and those that
transfer control set `next_pc` and R15 and call `prefetch` themselves. Only BX and
BLX throw. `mmu` never forwards an access to a peripheral.

What makes each part correct:

* loop: a counted run executes the instructions it was asked for and comes back;
  it starts on what memory holds now;
* pipeline: R15, `next_pc` and the buffer stay in step through every handler;
* data processing: sums and differences are exact with carry and overflow, shifts
  are iterated one bit shifts, the condition codes name the order of what CMP
  compared;
* stack: PUSH and POP are a last in, first out list of words;
* memory: little endian, accesses outside the regions read zero or are dropped;
* peripherals: registered ranges are disjoint;
* `main`: the code region gets its file, the cpu executes that file for the number of
  instructions on the command line, and the program ends.

`PROJECT.json` lists the hazards line by line.

## The modules

| module | what it is |
|---|---|
| `Words` | `uint32_t` of `WordBits` bits, the bit operators, the shifts, `util.h` |
| `Alu` | for each data-processing operation, the value and the flags it leaves |
| `Memory` | the two regions and the accessors of the `mmu`, and the block transfers |
| `Decoder` | the arms of `execute_op` in their order, and the bit fields |
| `Cpu` | the state machine: host calls, fetch, one handler, loop test |
| `ProgramOrder` | abstract: a processor without a pipeline, and where each instruction goes next |
| `CpuProperties` | the type invariant of `Cpu`, its safety, action and liveness properties and its refinement mapping to `ProgramOrder` |
| `Tests` | the three programs of `tests/test-cpu.cpp` and what the tests expect of them |
| `DataProcessing` | the handlers on one pair of registers and the flags, for exhaustive operands |
| `WordStack` | the abstract specification of PUSH and POP |
| `StackUse` | the processor with a program that keeps to its stack, and its refinement mapping to `WordStack` |
| `AddressMap` | abstract: an address belongs to at most one peripheral |
| `ByteStore` | abstract: one byte for each address of the two regions |
| `Mmu` | class `mmu`: the accessors of `Memory`, the registry, and the mappings to those two |
| `Emulator` | `main`, as the host of `Cpu`, with its properties |
| `MCWords`, `MCDataProcessing`, `MCCpu`, `MCStack`, `MCMmu`, `MCEmulator` | values of the constants for TLC, programs, command lines |
| `AluProofs`, `MemoryProofs`, `HandlerProofs` | lemmas on the operators and on each handler |
| `CpuProofs`, `DataProcessingProofs`, `StackProofs`, `MmuProofs`, `EmulatorProofs` | the theorems |

`Cpu` extends `Alu`, `Memory` and `Decoder`, which share `Words`; `Emulator` extends
`CpuProperties` and uses its actions, as do `StackUse` and `Tests`; `Mmu` extends `Memory`.
No module has a RECURSIVE operator.

**State.** The variables of `Cpu` have the names of the members (`psr` is
`psr_register`). `memory` is a function from the cells that were written to their
bytes; a cell is a region and an offset, since the regions are two arrays: an access
that runs off the end of one does not reach the other. `phase`, `caller`, `instr` and
`n_instr` are where the loop is and its local variables (`caller` is `"none"` before
the first call and after an exception). `thrown`, `asked`, `done`,
`stale` and `calls` are history: no guard of the code's steps reads them. `stale` says that
the buffer is not the promise of anything: after construction and `reset()`, which do not
fill it, and after a store, of the program or the host, into the two half-words it holds.

`Mmu` keeps `memory`, the list `peripherals` (a record of `start` and `end` for each), and
what the last call was and did. `Emulator` adds the locals of `main` (`index` is its `i`),
`good()` of the two streams, `stage`, which is where `main` is, and `exit`, how it ended.

**Actions.** `Init` is the constructor, on memory it does not initialise (the sets
`...Garbage`); `Reset`, `Poke` (`get_mmu()->write16`), `RunN`, `VerboseRun` and `Run`
are the calls of the host; `Fetch`, `ExecuteOp` and `LoopTest` are the three parts of
a turn of the loop. `ExecuteOp` is one step with all a handler does. A handler ends in
`Return`, or in `Throw`, which unwinds to the host. `Jump` and `Land` are the sequence
that ends every transfer of control.

`Mmu` has one action for the registration, one for the reads and one for the writes of the
three sizes. Each action of `Emulator` is a stretch of `main` up to the next loop test or
call; `CreateCpu`, `CallRun` and `Turn` are `Reset`, `RunN` or `VerboseRun`, and `Step` of
`Cpu`. An allocation may throw (`OutOfMemory`), and once `main` has written past an array
the process may end at any time (`Crash`); nothing catches anything.

**Undefined behaviour.** An immediate shift by zero computes its carry with a shift by
32 or by -1; `ShiftImmediate` leaves that carry open. Uninitialised members are chosen
in `Init`.

**Width.** Everything the code says of bit 31 is said of the top bit, and the regions
are the same eighths of the address space, so that with `WordBits = 32` the definitions
are the code's. An immediate shift amount is taken modulo the width, which changes
nothing at 32. `Pow2` and `Value` (the word of a set of bits) are constants with
assumptions, so that neither recursion nor a fixed width is built in.

**Mutated forms.** A definition named as such in its comment (`FetchStale`, `PushNoLR`,
...) is no part of the model. It is a plausible bug in the definition after it, and putting
it in that definition's place makes the property listed for it in `PROJECT.json` fail.

## What TLC checks

| run | instance | what it shows |
|---|---|---|
| `mmu` | 16 bit words, three calls out of every range within four addresses (those that end before they start too) and reads and writes of 1, 2 and 4 bytes at the last and first addresses of the regions | `RangesDisjoint`, `MapImplemented`, `StoreImplemented`, `TypeOK` |
| `emulator` | 723 command lines: sizes refused, below and above those of the files and of each other, with and without `-v`, files that loop, throw, end early, are empty or absent; `size_t` of 20 values | `CodeLoaded`, `ArraysKept`, `ExecutesFile`, `ExecutesNumInstr`, `MainEnds`, `MainProgress`, `MainTypeOK` |
| `data_processing` | 3 bit words, every pair of operands, every flag state, every instruction in any order | `AdditionExact`, `SubtractionExact`, `CompareThenBranch`, `ShiftsIterate`, `TypeOK` |
| `pipeline` | 16 bit words, every pair of the 56 instructions of `MCCpu!Instructions`, three host calls out of `run(3)`, `reset` and a write into the code, `holdState` either way | `PipelineSync`, `ExecutesMemory`, `RunsInProgramOrder`, `PrefetchKept`, `PcStaysEven`, `TypeOK` |
| `counting` | the three programs of `tests/test-cpu.cpp`, `size_t` of 40 values, n of 0, 1, 3 and 39, two calls, garbage in registers, flags, buffer and `holdState` | `RunCount`, `TestsPass`, `ExecutesMemory` (with `run()`), `RunReturns`, `RunProgress` |
| `stack` | every program of three of ten PUSH, POP, arithmetic, STR and ADD SP instructions and one of three POPs, SP aligned and not, STR to a free word or to one that may be on the stack, followed as long as it keeps to its stack | `StackImplemented` |

*Why the bounds are enough.* The arithmetic is uniform in the width: three bits have
both signs, a carry into and out of the top bit, and shifts by 0, below, at and beyond
the width (and the theorems cover every width). The pipeline holds two half-words, so a
pair of instructions and the filler after it are everything a fetch can see; the list has
an instruction for every arm of the decoder and every arm of the handlers that differ in
control, with operands that make them store into the fetched window, jump to even and odd
addresses, and throw. The third call is there for what follows an exception. In
`counting` `SizeT` is 40 so that `run(39)` is as in the tests and `run(0)` goes round.
Sixteen bit words are the least in which a half-word and an instruction fit; a 32 bit
access then keeps two bytes of its value, and what it does with all four is left to the
proofs. In `mmu` two registrations are a conflict and three make the order matter; every
overlap of two ranges, and every way an access lies across a border, occurs. The sizes of
`emulator` are below, at and above the lengths of its files, and the SRAM smaller and
larger than the code, so that each loop ends for each of its reasons and overruns. In `stack`
three pushes are six words and four registers deep, and STR and ADD SP sometimes keep to the
stack and sometimes end the behaviour, so that the hypothesis is met and is needed.

*Bounds by name.* `MaxCalls` bounds the host calls; `RunArgs`, `Pokes` and `Images` are
what it calls with, as `Peripherals`, `Reads` and `Writes` are for `Mmu` (whose `Observed`
is the addresses compared) and `CommandLines` and `Files` for `Emulator`, where `main` makes
two calls and `MaxCalls` bounds nothing. `Bottom` is the address the stack of `StackUse` grows down from. The proofs bound none of them except that they are in range.

*Fairness.* `RunReturns` assumes `WF_vars(Step)`: a call, once made, is sequential code
on its own stack that nothing blocks, so its next step happens. The host is under no
fairness. `run()` need not return when `holdState` is false, and the property does not
ask it to. `MainEnds` assumes `WF_emulator(MainNext)`: `main` is one thread, and reading a
file, unlike reading a terminal, does not block for ever.
Neither fairness is in `RunProgress` and `MainProgress`, which are what the two properties are
without it: each step of a counted run leaves fewer steps to make, at most three for each turn,
and each step of `main` leaves its stage or has fewer rounds of it to go. So if the steps are
taken, the run and the program end. `CHECK_DEADLOCK FALSE` is set where the host may stop after `MaxCalls` calls, or the program has ended.

*`PrefetchKept`* says that a buffer that agrees with memory goes on agreeing, with one
exception: a store into the two half-words it holds, which the code does not notice. That is
the behaviour of self-modifying code here and no document says it should be otherwise.

*`ExecutesMemory`* is what the pipeline is for: the instruction a run executes is the
half-word in memory one before `next_pc`, whatever the host did before. It stops being
so with `stale` and after an exception, until a reset (`thrown`); a counted run begins with
neither buffer nor promise lost. So it says of `run()` only that it goes on from a counted
run: on a new or a reset cpu `run()` executes what happens to be in the buffer.

*`TestsPass`* is what the three tests of `tests/test-cpu.cpp` assert. A test writes its program
into a new cpu and resets it, which is `Init` on a memory where the program is at its entry, and
calls `run(n)` once (`Tested`). The property asks nothing else of that memory, nor of the
registers, flags and buffer the constructor found, and lets either counted loop run the program.
It does ask that `holdState`, which the constructor does not set either, came up clear: a cpu in
which it is set leaves the loop after one instruction, and the tests would fail on it.
`LoopPasses` says one thing more than its test: that the loop is left by its BEQ in the 39th
instruction. The second test's comment expects R1 to be 1 and its assertion 13; the assertion is
the one modelled.

*`RunsInProgramOrder`* is the refinement of `ProgramOrder`, a processor that has a `pc` and no
pipeline: it executes the half-word at `pc`, R15 reads as `pc + 4`, and each instruction names
the next `pc`. The mapping takes `pc` to be one half-word before `next_pc` while an
instruction is fetched and not yet executed, and `next_pc` otherwise, so that `Fetch` and
`LoopTest` are stutters and `ExecuteOp` is `Execute` or `Throw`. It fixes the targets of all
branches, that BL links to the instruction after it, and that only BX and BLX throw, when
they do. It leaves registers, flags and memory open, and allows
anything once its `lost` is set (`thrown` or `stale`), until a counted run begins. LR after
BLX, which the code takes from R15 after the jump, is open there.

*`MapImplemented`* is the refinement of `AddressMap`: a peripheral is granted its addresses
exactly when they are free, though `in_conflict` compares starts only. A peripheral that
ends before it starts is granted none and still keeps others from its start; the map says so.
*`StoreImplemented`* is the refinement of `ByteStore`: an access of any size is little
endian, reaches the bytes of the region it starts in and no others, and outside reads zero
and writes nothing. What a read over the end of its region finds is not promised.

*`CodeLoaded`* says what the code region holds when the cpu is created: the code file cut at
CODE_SIZE, with one byte 255 (EOF, cut to a byte) after a shorter file. What the SRAM should
hold is `SramLoaded`, which the code does not do (see below). *`ArraysKept`* is that the two
loops over the files stay within their arrays on every command line whose SRAM is as large as
its code; the loop that fills the SRAM stops at the size of the code, so that a smaller SRAM is
overrun. The usage text sets no such condition, which is why the property has to.
*`ExecutesFile`* follows the file into the run: as long as the
program has not written over it, each instruction executed is two bytes of the file at its
own address. *`ExecutesNumInstr`* is that a cpu that is printed has executed NUM_INSTR
instructions, the argument of the usage text, as the loop counts them.

*`StackImplemented`* maps the words from the (aligned) SP up to `Bottom`, where SP began, to the
abstract stack and the saved registers to the abstract file. It is promised to a program that
keeps to its stack, which is `KeepsToStack`: no instruction but PUSH and POP moves SP, a POP
asks for no more words than there are, a PUSH has room above the beginning of SRAM, and no
other store, of the program or of the host, changes a word on the stack. The hypothesis says
nothing of what PUSH and POP do; that a PUSH leaves the words under it alone, in order and at
their places, whatever the list and the alignment of SP, is the property's. The lists for POP
contain R2, because the code takes that bit for the load/store bit.

*`ShiftsIterate`* compares each shift with as many shifts by one bit, value and carry, for
amounts up to 255: the code's cases below, at and beyond the width have no seam.

## Where the code and its documentation differ

Six runs each end in a violation of one property that states what a comment or the README says.

| run | what happens |
|---|---|
| `bx_returns` | BX has no `break` and runs into BLX (`cpu.cpp:575`): LR is overwritten, BX LR to an odd address throws |
| `runs_n` | `run(0)` runs as often as `size_t` has values (`cpu.cpp:1333`) |
| `load_store_bit` | PUSH or POP is decided by R2's bit of the list (`cpu.cpp:771`) |
| `branch_taken` | the documented encoding of B is unknown to `execute_op` (`cpu.cpp:1196`), which neither branches nor throws (`cpu.cpp:1219`) |
| `sram_loaded` | the loop that should copy SRAM_FILE reads the closed code file (`main.cpp:74`): SRAM gets bytes 255 |
| `subtract_then_borrow` | SUB takes C from `add_carry` (`cpu.cpp:156`), which is no borrow |

Other departures are in the model and have no run: the load and store handlers with
an immediate offset use a register (`cpu.cpp:686`), L and S bits are reversed
(`cpu.cpp:718`, `743`, `759`, `887`), SP relative accesses use Rs (`cpu.cpp:734`),
and three of the four bits of the ALU operation are decoded (`cpu.h:101`), so that TST, which
`README.md` lists as implemented, runs as EOR. `in_range` is said to be true inside the peripheral and is so
at its start only (`peripheral.h:99`, `102`), but is never called.

## What TLAPS proves

For every `WordBits`, memory, program, host, command line, file and uninitialised content
that the assumptions allow:

* `CpuProofs`: `TypeCorrect`, `PipelineInSync`, `PrefetchIsKept`, `MemoryIsExecuted`,
  `PcIsEven`, `RunsCount`, `RunsProgress`, `ImplementsProgramOrder`, `TestsArePassed`;
* `DataProcessingProofs`: `TypeCorrect`, `AdditionIsExact`, `SubtractionIsExact`,
  `CompareIsOrder`, `ShiftsAreIterated`;
* `StackProofs`: `StackRefined`;
* `MmuProofs`: `TypeCorrect`, `RegistryDisjoint`, `ImplementsMap`, `ImplementsStore`;
* `EmulatorProofs`: `MainTypeCorrect`, `CodeIsLoaded`, `ArraysAreKept`, `FileIsExecuted`,
  `NumInstrIsExecuted`, `MainMakesProgress`.

*Assumptions.* `WordBitsAssumption` and `Pow2Assumption` (the powers of two),
`ValueAssumption` (every word is the word of its bits), `BlankAssumption`,
`WidthAssumption` (a word holds a half-word), `CpuAssumption` (the types of the bounds),
`OffsetsAssumption`, `StackAssumption` (a word is at most four bytes wide, and the stack begins
at an address in SRAM that is a multiple of four), `MmuAssumption` and `ObservedAssumption` (the types of what the host
passes), `EmulatorAssumption` (the files are bytes, `strtoul` has the range of `size_t`, and
`main` is a host without pokes or an image of its own). TLC evaluates them in every run that uses them.

*The argument.* `HandlerProofs` shows of each handler that, from typed state, it ends in
one of three ways: *quiet* (it returns and moves neither the PC, `next_pc` nor the
buffer), *landed* (it returns after moving all three to one target, even when it came from
an even PC) or *threw* (to an even R15, with `next_pc` and the buffer untouched or moved
together). `Kept` is that disjunction with the types, `HandlersKept` says every handler
satisfies it, and the processor's theorems follow from it and from `Fetch`, `LoopTest`
and the host calls:

* `PipelineSync` alone is inductive with `TypeOK`: `Fetch` makes the two agree from
  anything, a quiet or landed handler keeps them so, and a throw sets `thrown`;
* `PrefetchKept` and `PcStaysEven` are action properties and need `TypeOK` only
  (`PrefetchKept`'s own antecedent is what the step before provides);
* `ExecutesMemory` says nothing of the buffer and is not inductive. `HeldInv` adds that the
  buffer, unless stale, holds what memory holds; its step uses `PipelineSync` for the
  fetch and the step of `PrefetchKept` for the handlers;
* `RunCount` needs the strengthening that is in its statement: the sum of the turns left and
  the turns made, with the turns of `n_instr = 0` counted as `SizeT`. "When it comes back
  it has executed n" is not inductive by itself, the sum is;
* `RunProgress` is an action property and needs `TypeOK`: a handler returns to the loop test or
  throws, and `LoopTest` leaves one turn fewer, 0 going round to `SizeT`.

The order of a program needs more of each handler than `HandlersKept`. In the last part of
`CpuProofs`, `Straight` handlers return with `next_pc` as it was, and all but five are; the
others have a lemma each, and `HandlersInOrder` puts them together: from a synchronised
state each handler is a step of `ProgramOrder` at its place. `Places` and `Here` turn the
mapping into arithmetic (the PC is the place plus 4, the instruction is what memory holds
there, by `HeldInv`). The lemmas `Same...` are there because INSTANCE makes operators of its
own for the decoder, the conditions and the memory of the abstract module. `HostMaps`,
`FetchMaps`, `LoopTestMaps` and `ExecuteMaps` are the four kinds of steps.

`TestsArePassed` follows the three programs through the model. `FirstArm` (in `HandlerProofs`)
finds the arm of the decoder for an instruction: the bits of an arm's mask are a quotient of the
instruction, and no earlier arm has them. `MovLeaves`, `AddLeaves`, `BeqLeaves` and the others
are what a handler leaves of R0 to R2, the flags and the position in the program, for any
operands; `MovTwelve`, `SubRegisters`, `BxBack` and the others are that for the instructions of
the tests. The invariants say what is known after `done` instructions: `AddAt` and `SubAt` line
by line, `LoopAt` before the loop (`LeadingIn`) and in it (`TurnAt`: after `4 + 3q + s` of them the
program is `s` instructions into turn `q` of twelve, and R0 is down to `12 - q`, one less once the
SUB is done). `TestExecutes` is where the other invariants come in: the instruction is the one in
memory at the position (`HeldInv`), R15 is the position plus 4 (`PipelineSync`), and one was still
due (`RunCount`). The steps that execute nothing leave `Seen` as it is (`TestWaits`). The property
is an implication from the first state to every later one, because the program is in memory at
first and must be shown to stay there.

Both refinements of `Mmu` go action by action. The map rests on `NoConflictIsApart` and
`ConflictIsNotFree`: comparing starts decides whether two ranges meet, except that one of them
may be empty. The store rests on `RegionCells` (no address is in both regions) and on `ReadAfterWrite` (a
byte read after a write is the one written or the one that was there).

The invariants of `Emulator` go by the stages of `main`: `MainInv` says what is known of the
options, the index and the idle cpu in each, `ExecInv` adds `PipelineSync` and `HeldInv`,
`CountInv` adds `RunCount` and the argument the run was called with, and `LoadInv` says which
prefix of the code region is loaded, with the state of the stream that goes with it.
`ArraysKept` is inductive with `MainInv`, which says that the two sizes are those of the
command line; the index is below the first of them by the test of either loop. A step of the
cpu there is a step of `Cpu` (`CallsAreNext`), so the steps of `CpuProofs` are used as they
are. `MainMakesProgress` rests on `MainInv`, for the bounds of the index, and on the step of
`RunsProgress` for the run.

The data-processing theorems reduce to linear arithmetic once a wrapped sum is split into
the two cases that `sum % WORD` has; `CompareIsOrder` then compares each of the fourteen
conditions with the order it names.

`ShiftsAreIterated` is an induction over the amount of a shift. The induction theorems of the
library take an operator and cannot be used, so `Least` (in `AluProofs`) says that a set of
numbers that is not empty has a least one, from the well-foundedness of the naturals, and
`Induct` is the induction it gives, for a set. The recursive function of the property is shown to exist by its closed form, a
quotient, a remainder or a rotation, and the closed form is what the handlers compute, case by
case.

The stack's invariant is `TypeOK` with `Top <= Bottom`. `BytesOfWord`, `ReadsBytes` and
`ReadsSame` (in `MemoryProofs`) say that a word read is the four bytes written, which is where
`StackAssumption` is needed, and that other cells do not disturb it; `Ranks` and `BlockReads` that
the word of a register is stored and found at its rank in the list. With these `PushPushes` and
`PopPops` show that the two handlers are `Push` and `Pop` of `WordStack`. `OthersStill` shows that
no handler outside `MovesSp` and PUSH and POP moves SP, and none outside `MayStore` writes memory,
so that every other step is `Work`: the two lists of instructions in the hypothesis are
sufficient, which TLC could not say of instructions it was not given.

*Only model-checked.* `RunReturns` and `MainEnds` are liveness under fairness; what they need of
the code is proved, as `RunProgress` and `MainProgress`. Every other property of a passing
run has its theorem.

## Not modelled

Printing and the accessors have no state; a host that changes registers through
`get_registers()` between calls is left out. The 32 bit handlers are empty and never called.
`current_mode` and `isp` are never read. The accessors of class `peripheral` are pure virtual,
have no implementation in the repository and are never called, and neither is `in_range`: no
access of the `mmu` reaches a peripheral. Accesses beyond the allocated arrays are undefined
behaviour of the host process; the model's regions have no end within their address range, and
`Crash` is all it has of what `main`'s own overrun may do. The text of the file errors and of
the printed cpu is left out. The enumerations of `registers.h` are read by no code.
`tests/test-mmu-test.cpp` writes and
reads back up to 1024 values, which `StoreImplemented` covers for any sequence; its calls are not
transcribed.

## Plan

Everything planned is modelled and checked and, but for the two liveness properties above, proved.
What could be added is a host that writes registers through `get_registers()` between calls: the
theorems that hold from typed state would stay as they are, and those that keep R15 in step with
`next_pc` would say what such a host must leave alone.
