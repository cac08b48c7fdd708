# A TLA+ model of smldbg

smldbg is a small source-level debugger for x86-64 Linux programs. It forks the
program to be debugged (the *target*), patches trap instructions into its text,
drives it with `ptrace` and `waitpid`, and finds its way between addresses,
lines, functions and variables by reading the DWARF sections of the executable
itself. This directory holds TLA+ modules that model the parts of it where
something can go wrong, configurations with which TLC checks them, and theorems
that TLAPS checks: about the control of the target, where its commands stop it and
what is shown of it then, the line number interpreter and the lookups in its
tables, the answers of the debugging information and the walks over it, and the
command line.

`tlc -config X.cfg M` checks a run; the table under *Runs* says which module
goes with which configuration. `tlapm M.tla` checks the proofs of a module.

## The system

| part | source (under src/src) | state | operations | used by |
|---|---|---|---|---|
| Execution control | debugger.cpp | `m_pid`, `m_is_running`, `m_breakpoints`; between two system calls, a local breakpoint and a location | start, break, delete, continue, finish, next, step, quit | the command line |
| Breakpoint | breakpoint.cpp | address, saved byte | enable, disable, step_over | execution control |
| Backtrace | debugger.cpp, dwarf.cpp | none | bt, function_from_program_counter | the command line |
| Variables | debugger.cpp | the target's memory | print, set | the command line |
| Command line | debugger.cpp (exec), command_parser.cpp | `m_is_running`, standard input | one turn of the loop, parse | the user |
| Debugging information entries | die.cpp, dwarf.cpp | a position in .debug_info | ++, is_null, get_nested, filter by tag, search for a variable | backtrace, variables, break on a function |
| Line number machine | line_vm.cpp | registers, rows | one per opcode | line lookups |
| Line lookups | dwarf.cpp | none (rows) | address to row, line to row | queries |
| Queries | dwarf.cpp | the compile units, once read | where is a function, a line, an address | break, next, step, printing |
| Compile units | compile_unit.cpp | header fields | header, root, contains_address | queries |
| Attributes, abbreviations | attribute.cpp, die.cpp | a position and a form | sizes of forms, conversions, declarations | debugging information entries |
| Location expressions | dwarf_location_stack_machine.cpp | none | exec of one opcode | variables |
| LEB128, tokens | util.cpp | none | decoding, splitting | the DWARF readers, the parser |
| ELF reader | elf.cpp | a cache of sections, a stream | get_section_data | every DWARF reader |

The debugger has one thread. Its concurrency is with the target and the kernel:
every `PTRACE_CONT` and `PTRACE_SINGLESTEP` gives the target away, and the
`waitpid` after it returns when the target has stopped *for some reason* or has
died. smldbg rarely asks for which reason. What is hard about it follows:

- **Between two ptrace calls of one command** the target runs, is signalled,
  faults, exits or is killed. The command goes on as if the expected thing had
  happened. What it does to the text then must still be undone by somebody.
- **Breakpoints meet each other.** `finish` and `next` plant a temporary
  breakpoint while the user's are armed. The target may stop at any of them
  first, and two at one address save each other's trap.
- **State that is out of date.** `rbp` is the caller's until a function's
  prologue has run. `m_is_running` outlives the target. `m_pid` is read before
  it is set.
- **Walks over binary data** that end by an equality or by a count, and a
  virtual machine whose registers live on from one sequence to the next.
- **Sign and width** in the words moved by PEEKDATA and POKEDATA, in variable
  length numbers and in attributes.
- **Everything is found by adding up sizes.** One form, length or header taken
  for shorter than it is, and all that follows it is read from the wrong byte.
- **What is kept from one question to the next**: the sections, and a stream
  that does not recover from a failure.

What makes each part correct:

- *Execution control and Breakpoint*: the text of the target is the program with
  exactly the user's breakpoints in it whenever the user can type; no breakpoint
  is run through unreported; a target under the debugger does what it would do
  without one; finish, next and step stop where they are documented to; a
  command comes back.
- *Backtrace*: it prints the functions that are active.
- *Variables, Location expressions, LEB128*: set changes one variable, the one
  the expression stands for; print shows what is there; an expression that is
  not supported ends with a message.
- *Command line*: a word calls the command it documents; there is at most one
  target, and nothing works on a target before there is one.
- *Debugging information entries*: a walk sees all of its unit, or of its
  function, and nothing else.
- *Attributes, abbreviations, unit headers*: whatever the forms, the entries
  read from the bytes are those the compiler has written.
- *Queries, Compile units, ELF reader*: an address goes to the unit and the row
  that cover it, a breakpoint on a function stops in that function and behind
  its prologue, and what has been asked before makes no difference.
- *Line numbers*: opcodes do what the DWARF standard says; a byte belongs to
  the row that covers it; a breakpoint by line is where it says it is.

PROJECT.json lists the hazards behind these, each at its line, with the
properties that watch it.

## Modules

```
TargetProgram --- NativeTarget        Breakpoint
      \                |                 /
       \     (Native, refinement)       / (B, instance)
        +-------- Debugger ------------+
                   |      \
               Inspect   DebuggerProofs
                   |      /
                FrameProofs

LineProgram --- LineVM --- LineLookup --- LineTables --- Dwarf
         \       /             |               |           |
        LineStandard       LineProofs -- LineTablesProofs -- DwarfProofs
                                               |
CommandLoop --- CommandLoopProofs         IntegerSets

Leb128 --- LocationMachine --- Variables
      \
       +-- DieReader
              |     (Tree, refinement)
           DieTree --- DieTreeProofs --- IntegerSets
```

Each component's small instances are in `MCDebugger`, `MCInspect`, `MCLine`,
`MCDieTree`, `MCDieReader`, `MCVariables`, `MCDwarf` and `MCCommandLoop`.
The modules whose names end in Proofs hold the theorems; `IntegerSets` has the
lemmas about least and greatest integers, and `LineTablesProofs` those about the
searches in a table, that others rest on.

**TargetProgram** is the processor running the target. It is not smldbg's code;
it keeps what smldbg can observe through ptrace: `rip`, `rbp`, the return
addresses on the stack and the kind and length of each instruction. `rbp = n`
stands for the frame whose return address is the n-th on the stack, so "the
word at rbp + 8" is `stack[n]`. A fault or an exit is an instruction without a
successor.

**NativeTarget** is the abstract specification: the same program with no
debugger. Nothing but its instructions moves it, and it can end at any time.

**Breakpoint** says what enable and disable do to the text. The code moves
64-bit words but changes only the lowest byte, so the text is a function from
addresses to bytes and a byte is the program's own ("op"), a trap ("trap") or
the low byte of a failed PEEKTEXT ("junk").

**Debugger** is the core. `at` is the place in debugger.cpp where control waits
(which `waitpid`, or which loop head); one action runs from there to the next
such place, with everything the code does in between. `Start` .. `Step` are the
commands typed at the prompt; `ContinueHits` .. `StepEnds` are their
continuations; `ExecTrap` .. `Killed` are the target, the kernel and the world.
`over` and `tmp` are the breakpoint being stepped over and the local Breakpoint
of finish and next. `why` is the reason the kernel had for the stop: no action
of the debugger reads it, because the code does not, but properties do. A
ptrace request that fails changes nothing, a failed GETREGS leaves any value in
the struct (`ReadRip`), and a failed `waitpid` reads as an exit (`TargetGone`).
`job.frame` and `job.depth` are read by properties only. `Mains` has the places
break_on_function("main") may find, nowhere among them (`BreakOnMain`); a fork
that fails ends the debugger (`ForkFailed`). `quit` lets a stopped target go
("released"): it dies of the signal or runs on, with what traps there are in its
text, and nobody watches it any more.

**Inspect** adds `bt` as operators on the stops of Debugger, with the reference
it is compared with (`Owner`, `CallChain`).

**CommandLoop** is the loop of exec and the parser; an argument is the kind of
thing the number conversions make of it.

**Leb128** is decodeULEB128 and decodeLEB128 with a byte of `Group` + 1 bits, an
int of `IntBits` and a result of `Size`, where the code has 7, 32 and 64. What
matters is kept: each group is shifted as an int, whose sign is then extended,
and a group that starts beyond the int is undefined. `Meaning` and
`SignedMeaning` are the standard's definitions, which the code is compared with.

**LocationMachine** is the evaluation of a location expression and what
variable_location makes of two of them. An expression is its first opcode and
the bytes behind it, because no more is looked at. `Exec` is a set: a loop
without an effect may be left out by the compiler, and then an empty location
comes back. A location in a list is refused and a missing one is not looked for
(`NoLocation`), which print reports and set does not (`PrintNothing`,
`SetNothing`). **Variables** is print and set on top of it: `Home` is the cell where
the standard puts a variable, and the 64-bit words are of two 32-bit cells, so a
write meant for one cell can be seen in the other. The frame, its expressions
and the memory are chosen in the initial state.

**DieTree** is the walks over a compile unit, an entry at a time. A unit is a
sequence of entries in preorder with null entries ending the lists of children,
as in the section. **DieReader** does the same from bytes: read_compile_units over
the headers, then filter_die_by_tag, get_nested and the search of
variable_location over the entries behind one of them, with abbreviation codes
as LEB128 numbers, declarations from a shared .debug_abbrev, and attributes of
every form `eat` knows. `source` is what the producer meant, and no action reads
it; through it the refinement mapping turns positions into indices, and `Tree` is
DieTree under that mapping. `ReadsTheTree` is `Tree!Spec`. DieReader stops where
the debugger exits, which DieTree, without attributes, never does; that is a
behaviour of DieTree that ends early.

**LineProgram**, **LineVM** and **LineLookup** are the line number machine, one
action per opcode, and the searches of **LineTables** in the table it makes;
**LineStandard** is the same machine as the DWARF standard describes it. An
extended opcode nobody knows has no case and its operands are read as the next
opcodes (`Unknown`); the number of a file is taken as it comes, and one the
header has no name for reads beside the array (`Garbage`).

**Dwarf** composes LineTables with the compile units and the section cache: the
questions the debugger asks, in any order. A unit has a tag, bounds, ranges or
neither, its functions, and a table or none; a root that is no compile unit, asked
whether it contains an address, ends the debugger (`Exit`); a section is whole, cut off by the end of the file, or
not there. `Ask` runs a whole question: the sections it makes the debugger read,
in the code's order, then the answer. An answer that rests on a section that is
not whole is `Undefined`, since no property can say what it is.

## Runs

Runs that must find no error:

| run (configuration) | module | what it asks |
|---|---|---|
| DebuggerAll | MCDebugger | All commands in any order, one signal, a kill, a failed exec. Is the text what it should be at the prompt (`ImageIntact`) and at every point in between (`ImageInvariant`)? Is a breakpoint ever run through (`NoSilentPass`)? |
| DebuggerContinue | MCInspect | Breakpoints and continue, three functions, two signals, a fault of the target, a kill. Does the target do what it would do alone (`Transparent`)? Is a hit a trap, whatever else stops the target (`HitIsTrap`)? Does step_over execute its instruction, if no signal stops it in front (`StepOverExecutes`)? Does a command return (`CommandReturns`)? Does bt print the call chain at a breakpoint, and is rbp the frame of the function rip is in (`BacktraceIsCallChain`, `FrameIsCurrent`)? |
| DebuggerSteps | MCDebugger | continue, finish, next, step. Is the target what it would be alone for these too (`Transparent`), do they return, come back to the caller (`FinishReturnsToCaller`) and stay in their frame (`NextStaysInFrame`), and step back over their own trap only (`StepsBackOverOwnTrap`)? |
| VariablesUnsigned | MCVariables | print, and set of values without a sign, from any memory, with every encoding of the offsets. Is it the variable's cell, and that cell alone (`SetChangesOneVariable`, `PrintShowsTheVariable`, `PrintShowsWhatWasSet`)? Does an expression that is not supported, or a location list, come back (`DecodingReturns`)? |
| CommandLines | MCCommandLoop | Every documented word and abbreviation with every kind of argument, in any order. |
| DieTrees | MCDieTree | Every unit of up to seven entries whose root has children. Do the walks stay in it (`WalkStaysInUnit`), see every subprogram (`FilterFindsAll`), and give a function its own entries and variable (`NestedAreOwn`, `AnswerIsTheVariable`)? |
| DieBytes | MCDieReader | Two units of bytes, 32 and 64 bits wide, an attribute of each form in every entry. Are units and attributes found where they are (`UnitsAreFound`, `AttributesAreFound`), and is the reader an implementation of DieTree (`ReadsTheTree`)? |
| LineFollowsStandard | MCLine | LineVM refines LineStandard, on the opcodes on which they agree. |
| LineTable | MCLine | Sequences in any order, under the header of an old version, with opcodes nobody knows and files without a name. Does an address get its row (`LookupFindsRow`), and does a breakpoint by line report the row it was set for (`BreakpointIsWhereItSays`)? |
| DwarfQueries | MCDwarf | Questions in any order about two units, one in several ranges around the other, or one without addresses, or without a table. Does an address go to its unit (`AddressGoesToItsUnit`), a breakpoint on a function into it and behind its prologue (`BreakIsInFunction`, `BreakIsBehindPrologue`), a line to itself (`LineAndBack`)? Do earlier questions change an answer (`AnswersAreTheFiles`)? |

Runs that find a violation, each of a sentence in the code:

| run | property | what happens |
|---|---|---|
| FinishHitsOther | `StepsBackOverOwnTrap` | finish, stopped by a breakpoint of the user in a callee, steps back one byte as if the trap were its own, and executes that trap instead of the instruction. |
| DwarfOffsetUnit | `AddressGoesToItsUnit` | The end of a compile unit, written as an offset as DWARF 4 has it, is taken for an address (compile_unit.cpp:51; for functions dwarf.cpp:154 knows both): no address of the unit has a source location. |

### Bounds

*Programs.* `Nested` (DebuggerAll) has a runtime without line information, a main
and a function with one-byte instructions behind the prologue, a branch, and a
stretch that belongs to line 0: every branch of next and step, breakpoints
before a call, at its return address and in the callee. `Deep` adds a second call
site and a third function, so that a return address is met from several frames
and a temporary breakpoint coincides with a user's. `Placed` (DebuggerContinue)
has the calls of Deep and a function that may fault; where a breakpoint may be put,
which is behind a prologue or at a line, its instruction is longer than a byte,
and elsewhere there are instructions of one byte, so that a signal can stop the
target at every distance from a breakpoint. `Recursive` has an f that
calls itself. StackLimit is the depth these can reach (2, 3, and 3 or 4); a
call beyond it faults. All programs are without loops, so that counters need no
bounds of their own.

*Events.* One signal is enough to hit every wait of a command; DebuggerContinue
has two, the first to stop step_over in front of its instruction and the second
to come when the same breakpoint is hit again. start finds a main or, in
DebuggerAll, none. A kill can happen at any time. `step` is given 1 and 2: the
second value takes the loop of exec round once.

*Data.* Half words of two bits have values with and without a sign, and a carry
into the upper half would show; two variables share a word, and a cell lies
above them. Bytes of three bits, an int of five and a result of ten stand for
those of eight, 32 and 64: offsets come in every encoding of one to three bytes,
the third of which reaches beyond the int, as the fifth does in the code. One
expression for each opcode that has a case is enough, because no state
is kept from one to the next. In DieBytes a byte has four bits, so that a code, a length and
an offset can take one or several; each attribute form with a size comes with
two ends of functions and two widths of unit, and values made of bytes that would be
codes if they were read as such. The second unit has the same codes for other
declarations. DwarfQueries has two units because the questions concern one unit
and whatever is not in it; every address in and around them is asked for, and
since an answer leaves nothing behind but the cache and the stream, all orders
in which sections can be read are met.
Units of seven entries have room for a subprogram with two children and
another one after it, for a block with a variable inside a subprogram, and for a
subprogram inside another, in every arrangement. Five
opcodes make two rows and a sequence end with something in between; seven make
two sequences with a gap, in both orders of address. The old header
(MaximumOperations = 0) of LineTable lets `AdvancePcByZero` happen; the new one of
LineFollowsStandard lets `AdvancePc`.

*Deadlock* is checked in every run of Debugger, where a debugger that has exited
stutters (`Exited`). It is not in the
others: an interpreter that has read its program, a walk that has found its
answer, and a debugger that has called exit, crashed or hangs really do stop.

### What the passing runs leave out, and why

The agreement of LineVM with the standard, the transparency of continue and the
promises of finish and next hold in part of the system only, and the
configurations say which: DebuggerContinue has its breakpoints on instructions
longer than a byte, DebuggerSteps has no signals and no breakpoints but main's, its functions are not recursive and
its calls are direct and not next to each other, StandardCode leaves out negate_stmt, set_prologue_end and
the first special opcode; VariablesUnsigned has no negative values, and the
frames of code that keeps rbp; DieTrees has no empty root; the units of DwarfQueries
are compile units and have gaps between them, a prologue in every function, and, where they have
bounds instead of ranges, an address for their end and a first byte nobody asks
for; the sections of DieBytes have no inline names, no constants of eight bytes
and no addresses beyond four. The theorems about the text of the target have none of
these limits, and DebuggerAll has signals and all breakpoints. Outside them the code does not keep what its
comments say. The two runs above show it for two of them; the following
configurations find the counterexamples of the rest.

Configurations of their own:

| configuration | module | property | what happens |
|---|---|---|---|
| FinishAtEntry | MCDebugger | `FinishLeavesCurrentFrame` | finish after a step into a function, before its prologue, goes by the caller's rbp and leaves the caller (debugger.cpp:196; debugger.h:67). |
| FinishRecursion | MCDebugger | `FinishReturnsToCaller` | finish in a recursive function stops when an inner call returns (debugger.cpp:211). |
| NextOverBreakpoint | MCDebugger | `SingleStepsOwnInstruction` | next single steps onto the trap of a breakpoint (debugger.cpp:254, "safe to single step"). |
| NextIndirectCall | MCDebugger | `NextStaysInFrame` | next enters a function called through a register (debugger.cpp:244). |
| ContinueSignal | MCDebugger | `HitIsTrap` | A signal stops the target one byte after a breakpoint; continue takes it for a hit and executes the one-byte instruction a second time (debugger.cpp:176). |
| StepOverSignal | MCDebugger | `HitIsReportedOnce` | A signal during step_over's single step: the hit is reported again for the same arrival (breakpoint.cpp:43). |
| StepLines | MCDebugger | `StepIsOneInstruction` | step moves by lines (debugger.cpp:300), README.md:53 counts instructions. |
| QuitBeforeStart | MCDebugger | `QuitSignalsTarget` | quit before start signals a pid nothing has set (debugger.cpp:104). |
| ExitWhileSteppedOver | MCDebugger | `RunningMeansNotReaped` | The target ends during step_over, its status is dropped, and the user gets a prompt (breakpoint.cpp:43). |
| InspectAtEntry | MCInspect | `BacktraceIsCallChain` | bt before the prologue leaves out the caller (debugger.cpp:487). |
| InspectAdjacent | MCInspect | `CurrentFunctionIsNamed` | At the entry of a function that starts where main ends, bt names main (dwarf.cpp:162). |
| InspectUnknown | MCInspect | `UnknownFunctionIsPrinted` | The name of an unknown function is dereferenced (debugger.cpp:480). |
| InspectBreakOnCall | MCInspect | `FrameIsCurrent` | A hit on a call instruction hands the prompt back in the callee, before its frame is made (debugger.cpp:181). |

Configurations that differ from one of the runs above in at most one constant,
and check the property named instead of the run's:

| run | constant | property | what happens |
|---|---|---|---|
| DebuggerSteps | `Program <- CallAfterCall` | `FinishReturnsToCaller` | The return address of a call is another call: step_over, which single steps what is there, enters it, and finish ends in a deeper frame (breakpoint.cpp:43, debugger.cpp:220). |
| DebuggerSteps | `Program <- CallAfterCall` | `NextStaysInFrame` | So does next (debugger.cpp:252). |
| VariablesUnsigned | `Values <- Negative` | `SetChangesOneVariable` | set of a negative value fills the four bytes above the variable with ones (debugger.cpp:461). |
| VariablesUnsigned | `Layouts <- FromCfa` | `PrintShowsTheVariable` | The frame base is decoded and not used: in code whose frame base is DW_OP_call_frame_cfa, which is gcc's, print reads elsewhere (dwarf.cpp:243, debugger.cpp:441). |
| VariablesUnsigned | `Layouts <- InRegister` | `PrintShowsWhatWasSet` | The offset of a register is the largest number, and print and set go there (dwarf.cpp:243). |
| VariablesUnsigned | `Layouts <- Constant` | `DecodingReturns` | DW_OP_lit5 has no case in the switch of a loop that reads nothing (dwarf_location_stack_machine.cpp:28). |
| VariablesUnsigned | `Layouts <- OptimizedOut` | `DecodingReturns` | The location of a variable that has none is dereferenced (dwarf.cpp:227). |
| VariablesUnsigned | `Values <- Negative` | `PrintShowsWhatWasSet` | -1 is printed as the largest unsigned value (debugger.cpp:445). |
| CommandLines |  | `BadArgumentsAreReported` | An argument that is no number ends the debugger (debugger.cpp:113). |
| CommandLines |  | `PrintHasName` | print without a name looks for a variable without one (debugger.cpp:89). |
| DieTrees | `Units <- Empty` | `WalkStaysInUnit` | The walk over a unit whose root has no children leaves the unit (die.h:109). |
| DieTrees | `Units <- Unnamed` | `AnswerIsTheVariable` | A parameter without a name ends the search for a name, and its location is taken for that of the variable (dwarf.cpp:213). |
| DieTrees |  | `NestedAreAll` | get_nested returns after the first child when that child is a leaf, so the second variable of a function is not found (die.cpp:48). |
| DieTrees |  | `AnswerIsDefined` | The location of a variable that was not found is used (dwarf.cpp:227). |
| DieBytes | `Sections <- NameInLine` | `EveryFormIsRead` | DW_FORM_string, which gcc uses for names shorter than an offset, ends the debugger when the attribute is passed over (attribute.cpp:72). |
| DieBytes | `Sections <- SizeOfEight` | `EveryFormIsRead` | A high_pc of DW_FORM_data8, as gcc writes it, ends the debugger (attribute.cpp:90). |
| DieBytes | `Sections <- HighAddresses` | `ValuesAreWhole` | Four of the eight bytes of an address are read (attribute.cpp:85). |
| LineFollowsStandard | `Code <- AllCode` | `SequenceStartsWithDefault` | is_stmt survives end_sequence (line_vm.h:117). |
| LineFollowsStandard | `Code <- AllCode` | `SpecialCommitsRow` | The first special opcode commits no row (line_vm.cpp:54). |
| LineFollowsStandard | `Code <- AllCode` | `PrologueEndReachesRow` | advance_pc drops a prologue end (line_vm.cpp:101). |
| LineFollowsStandard | `Code <- AllCode` | `EveryFileHasRows` | A line without a match is not noticed (dwarf.cpp:74). |
| LineTable | `Code <- AllCode` | `NeverCrashes` | advance_pc divides by a field old headers have not got (line_vm.cpp:95). |
| LineTable |  | `RowsAreNamed` | A file number is not checked: the name of file 0, or of one past the list, is read from beside the array (line_vm.cpp:160). |
| DwarfQueries | `Images <- PartialUnit` | `AddressGoesToItsUnit` | A partial unit among the others ends the debugger when an address is asked for (compile_unit.cpp:42). |
| DwarfQueries | `Images <- BoundedUnit` | `AddressGoesToItsUnit` | The first address of a unit with bounds is not in it (compile_unit.cpp:51). |
| DwarfQueries | `Images <- Adjacent` | `AddressGoesToItsUnit` | The address behind a range is in it: the entry of the next unit is looked up in the wrong one (compile_unit.cpp:67). |
| DwarfQueries | `Pcs <- Everywhere` | `AddressOutsideIsNone` | That address with nothing behind it has no row, and the table is read at INT_MAX (dwarf.cpp:128). |
| DwarfQueries | `Images <- NoPrologue` | `BreakIsInFunction` | The row after that of a function with a single row is the prologue end of the next function, and the breakpoint goes there (dwarf.cpp:132). |
| DwarfQueries | `Images <- CutOff` | `AnswersAreTheFiles` | A section that is cut off leaves the stream failed, and the sections read after it are zeros (elf.cpp:87). |

## Fairness

`FairSpec` asks for weak fairness of `DebuggerRuns`, what the debugger does when
a `waitpid` has returned or in a loop of its own, and of `TargetRuns`, the next
instruction of a target that has been resumed. Both are processes the kernel
schedules, and nothing else can hold them up for ever. Nothing is asked of the
user, who need not type anything, nor of signals and kills. `CommandReturns`
also needs the target to end or stop: a target that loops keeps continue
waiting, as it should, and one that faults at the same instruction every time
it is stepped (signals are never passed on to it) keeps step and next in their
loops. No program checked loops, and where one faults, in DebuggerContinue,
continue comes back with each fault.

## Proofs

A theorem holds for every value of the constants and for executions of any
length. Its hypotheses are of three kinds: the assumptions of the modules, which
TLC evaluates in every run; *hypotheses about the program* under the debugger or
the data it reads, which are definitions over the constants; and, where the
debugger takes a stop for one it has caused, *hypotheses about what else stops
the target*, which are action properties. What happens outside a hypothesis is
in the tables above.

| module | theorem | property | under |
|---|---|---|---|
| DebuggerProofs | `TypeCorrect` | `TypeOK` | |
| | `ImageInvariantCorrect` | `ImageInvariant`: at every point of every command the text is the program with the traps the debugger's state accounts for | |
| | `ImageCorrect` | `ImageIntact`: at the prompt these are the user's breakpoints | |
| | `NoSilentPassCorrect` | `NoSilentPass`: the instruction under a breakpoint is executed only by the single step with which continue reports it | |
| | `StepOverExecutesCorrect` | `StepOverExecutes`: step_over executes its instruction or is stopped in front of it, and never runs into a trap | |
| | `StepsBackCorrect` | `StepsBackOverOwnTrap`: finish and next step back over their own trap | `StepsUndisturbed` |
| | `TransparentCorrect` | `Transparent`: under all commands Debugger refines NativeTarget | `SignalsMiss`, `StepsUndisturbed`, `PlainProgram` |
| | `FalseHitsAreOneByte` | what continue takes for a hit is one, or a stop behind a breakpoint on an instruction of one byte | `StepsUndisturbed`, `PlainProgram` |
| | `HitIsTrapCorrect` | `HitIsTrap`: what continue takes for a hit is one | `ContinueOnly`, `PlainProgram`, `BreaksAreLong` |
| | `ContinueTransparent` | `Transparent` | the same |
| FrameProofs | `FrameIsCurrentCorrect` | `FrameIsCurrent` | these, `KeepsFrames`, `BreaksOnNoCall` |
| | `BacktraceCorrect` | `BacktraceIsCallChain` | `ContinueOnly`, `BreaksAreLong`, `BreaksOnNoCall`, `DebuggableProgram` |
| | `FinishReturnsCorrect` | `FinishReturnsToCaller` | `SignalsMiss`, `StepsUndisturbed`, `OrderlyProgram` |
| | `NextStaysCorrect` | `NextStaysInFrame` | these, `DirectCalls` |
| LineProofs | `TypeCorrect` | `TypeOK` | `UnsignedOperands` |
| | `ImplementsStandard` | `FollowsStandard`: LineVM refines LineStandard | `UnsignedOperands`, `Conforming` |
| | `LookupCorrect` | `LookupFindsRow` | `UnsignedOperands` |
| | `BreakpointCorrect` | `BreakpointIsWhereItSays` | `UnsignedOperands` |
| DwarfProofs | `AnswersCorrect` | `AnswersAreTheFiles` | `SectionsAreWhole` |
| | `AddressCorrect` | `AddressGoesToItsUnit` | these, `ImagesAreProper`, `PcsAreInside` |
| | `LineAndBackCorrect` | `LineAndBack` | `SectionsAreWhole`, `ImagesAreProper`, `LinesAreInside` |
| | `FunctionCorrect` | `BreakIsInFunction` | `SectionsAreWhole`, `ImagesAreProper`, `FunctionsAreProper` |
| | `PrologueCorrect` | `BreakIsBehindPrologue` | the same |
| DieTreeProofs | `WalksStayInUnit` | `WalkStaysInUnit` | `RootsHaveChildren` |
| | `FilterIsComplete` | `FilterFindsAll` | `RootsHaveChildren` |
| | `NestedBelongToOwner` | `NestedAreOwn` | `RootsHaveChildren` |
| | `TheVariableIsFound` | `AnswerIsTheVariable` | `RootsHaveChildren`, `LocatedAreNamed` |
| CommandLoopProofs | `OneTargetFirstCorrect` | `OneTargetFirst` | |
| | `AbbreviationsAgreeCorrect` | `AbbreviationsAgree` | `WordsAreDocumented` |

Every inductive invariant below was checked by TLC, as an invariant of the run
of its component, before it was proved, and so was every hypothesis about the
constants. Those on what stops the target were checked with signals, kills and
all breakpoints, in the steps the hypothesis allows.

### The text of the target (DebuggerProofs)

The theorems rest on the assumptions Debugger and TargetProgram name:
`ProgramAssumption`, `TextAssumption` and `DebuggerAssumption` say that
instructions and breakpoints lie in the text, and nothing about what the
instructions do.

`ImageIntact` is not inductive: it says nothing about a command
under way, and a command is what puts the text back. `ImageInvariant` says at
every control point which traps are in the text (`TextAsPatched`): the user's,
less the one being stepped over, plus the temporary one while it is planted.
That alone would not do either, for what a disable writes is a byte saved
earlier. `SavedBytes` says it is the right one: the program's own for a user's
breakpoint, and the *trap* for a temporary one on top of a user's, which is why
`finish` to an address with a breakpoint does not lose it. `SteppingOver` ties
`over` to the control point, `BeforeStart` says nothing is patched or resumed
before there is a target, and `MovesWhenWaitedFor` that the target does not run
while the debugger is patching. Each action is one step of the proof, with the
conjuncts it can disturb below it; the actions that run the target leave the
text and the debugger alone. The interesting cases are those in which the
target is gone: every Poke then fails, and the conjuncts about the text ask for
nothing.

`NoSilentPass` follows from the invariant: if the instruction at a breakpoint is
intact its trap is out of the text, and `TextAsPatched` leaves `over` as the only
one that is.

### The stops the debugger takes for its own (DebuggerProofs)

The code cannot tell one stop from another. `HitInvariant` connects a stop with
the reason nobody reads: in the wait of continue the target runs and is not
stepped; in that of step_over it starts at the breakpoint, whose trap is out of
the text, and a stop is the end of the step or a signal in front of it. It holds
with all commands and signals, and gives `StepOverExecutes`. A signal in front of the
instruction makes the same hit be reported twice (StepOverSignal), but does no other harm:
the target is where it was.

What continue takes for a hit is another matter, since it looks at an address only.
A signal or a fault that stops the target one byte after a breakpoint is taken for
a hit. `Placed` says where the target can be stopped: in front of an instruction, or
one byte behind a trap. Instructions do not overlap, so a stop that is not a
trap's can be one byte after a breakpoint only if the instruction under it is one
byte long (`LooksLikeHit`, `FalseHitsAreOneByte`), which is the counterexample
ContinueSignal. That is a hypothesis on where the user's breakpoints are
(`BreaksAreLong`) and none on what the target or the world does: under it no signal
comes amiss (`LongBreaksMiss`). `SignalsMiss`, that none stops the target one byte
after a breakpoint while continue waits, is the hypothesis that the theorems about all
commands have instead.

`StepsUndisturbed` is its counterpart for finish and next, which look at no
address at all: while they wait at their temporary breakpoint no signal or fault
stops the target, and only continue runs into a breakpoint of the user. What it
leaves out is FinishHitsOther and NextOverBreakpoint, and nothing else: user breakpoints may be
anywhere, under the temporary one too, and be passed when the step starts at
them; the target may be signalled while it is stepped, and may die at any time. In
`TmpInvariant` the wait runs the target freely until it stops, and a stop is one byte behind the
temporary breakpoint; the image invariant says that no other trap is in the text.

### Transparency (DebuggerProofs)

The program is one in which instructions do not overlap and control goes from one
to the start of another (`PlainProgram`): in the middle of an instruction a trap
changes what is executed. The refinement mapping hides a trap that has been
executed and not yet been stepped back over (`LogicalCpu`). `NativeInvariant`
says when there is one, namely in front of the test a command makes when its wait
returns (`TrapPoints`), never at the prompt; that breakpoints are where the user may put
them and a temporary one at an instruction; and that rip and the return addresses are at
instructions. Every step then leaves `LogicalCpu` as it is or executes one
instruction (`GoesOn`), and that is a step of NativeTarget. Two kinds of step need
most. An instruction of the target whose first byte is not a trap has none
further on, because a trap is at the start of an instruction and they do not
overlap (`UntrappedIsIntact`). And the step back over a trap, which is an
assignment to rip, must be what the mapping had already subtracted, the trap
being that of the command and no other: that is what `HitInvariant` and
`TmpInvariant` are for.

With break, delete, continue and quit alone (`ContinueOnly`) no command waits at a
temporary breakpoint, and `StepsUndisturbed` is a theorem; with `BreaksAreLong`
so is `SignalsMiss`, and nothing is left to say of signals, faults and kills
(`ContinueTransparent`, `HitIsTrapCorrect`).

### What is shown at a breakpoint (FrameProofs)

`KeepsFrames` is the convention the debugger relies on: a function is called, and
only called, at the instruction that makes its frame. rbp is then one frame
behind from a call to the prologue, and current everywhere else (`FrameMatches`), in
recursion of any depth. That is true of the target alone, and since `LogicalCpu`
moves as NativeTarget does, of the debugged one. It is the prompt that must not come up in
between, when a hit has been reported: `StopsInFrame`, which is about the stops
that a step has ended in, is inductive if no breakpoint is on a call, behind whose
step_over the target is in the callee (`BreaksOnNoCall`, InspectBreakOnCall). A
prompt that a signal has brought up may be at an entry (InspectAtEntry has one
that step has), and the two properties do not speak of it (`AtHit`).

The names of bt are asked for at the return address, with an interval that
includes the end of the function; those of `CallChain` for the call, without the
end. The two agree where functions start at their frame and nothing else lies
behind them (`FunctionsAreDelimited`), since a return address is never at an entry:
the off-by-one at the end of the interval makes up for asking one byte too far
(`ReturnOwner`), which is why it shows only at rip, and at an entry only
(InspectAdjacent). A name is not dereferenced when missing because the functions on
the stack that have debug information are the innermost ones (`ChainIsKnown`), and
main is one of them; that needs `FlowStaysInFunction`, that they call only their
like (InspectUnknown shows what a missing name does, at a stop outside main).

### Where finish and next come back to (FrameProofs)

Both plant a breakpoint at a return address and take the first arrival for the
return they wait for. That an arrival is at an *address* and the promise about a
*frame* is the whole difficulty. `NotRecursive` bridges it: the instructions can be
ranked so that nothing that follows or is jumped to is above, and what a call enters is
strictly below what it returns to, which is to say that the call graph has no
cycle. Along the stack, from rip outwards, the ranks then grow (`Stacked`), so that the
target is never at an address it has yet to return to. `WayBack` says
how the home of a command stays on the way of the target: it is still on the
stack at its depth, or has been reached there, or is what the call about to be
executed will return to. `HomeInvariant` says that a temporary breakpoint is on the way back to
a depth the command may end in (`Home`: for finish the caller's, for next that of
the frame it was typed in or of one of its callers), that neither leaves it for a
deeper frame while it steps, and that it knows when it is about to: next looks
at the opcode, finish and next step over an instruction that is no call. The three
hypotheses of `OrderlyProgram` and `DirectCalls` each stand for one
counterexample: `NotRecursive` for FinishRecursion, `CallsApart` for
`CallAfterCall`, where the instruction stepped over is a call, and `DirectCalls`
for NextIndirectCall; finish does not need the last. No hypothesis says that the frame finish
reads is current: `job.frame` is the one it reads, and FinishAtEntry shows when
that is another than the function's.

### The line number machine and its tables (LineProofs, LineTablesProofs)

`UnsignedOperands` says that operands, but that of advance_line, are natural numbers, as
their encodings are. The type
invariant is inductive; what takes work in it is that products and quotients of
header fields are natural numbers, so that the address never goes below zero.
`Conforming` programs have one operation to an instruction, and none of the
opcodes for which there is a counterexample, nor one that ends the debugger.
The refinement is the identity on the four variables of LineStandard, but no
step of it follows from the types alone: `Agreeing` adds that the operation index
is zero, is_stmt the header's and no prologue end marked. With the first the two
ways of advancing, M * n / 1 and M * (0 + n) / 1, are one; the second makes up
for the is_stmt that `Reset` keeps, the third for the prologue end that
`AdvancePc` drops. `Conforming` is what keeps `Agreeing` true, and StandardCode of
LineFollowsStandard satisfies it.

The lookups have no hypothesis of their own: `WellFormed` and `Plain` are in the
properties. The code looks at pairs of rows and knows nothing of sequences; the
reference does. A row is taken by the code exactly when it is the last one not
beyond the address in a sequence that covers it (`MatchIsRow`, `RowMatches`). For
one direction the addresses between the start and the end of a sequence grow
(`AddressesGrow`); for the other the table has to end with the end of a sequence
(`DoneIsEnded`, an invariant of LineVM that no property states). Sequences do not
overlap, so that there is one such row (`CoveredOnce`, `MatchIsUnique`), and the
order in which the linker has put them does not matter. A breakpoint by line goes
to a row that no row of its sequence shares the address with, and looking that
address up finds it again (`BreakpointRow`).

### The answers of the debugging information (DwarfProofs)

What a question finds in the cache, and the state of the stream, is left behind by
the questions before it. `CacheInvariant` says that the stream is good and that a
section of the file is never cached as empty; it needs every section a unit
refers to to be whole (`SectionsAreWhole`; CutOff is a file with one that is
not), and with it the sections an answer rests on have been read when it is
given (`ReadsAll`). From there on the proofs are about what an executable says, and no
longer about an order of events. `ImagesAreProper` is where the defects of contains_address
are left out: bounds are two addresses (not an offset, OffsetUnit), the bytes
behind a range are in no other unit (Adjacent), and the first byte of bounds
counts as outside (`Inside`; BoundedUnit); `PcsAreInside` asks no question about that
byte. An address then belongs to one unit only, whatever comes before it
(`LocationInside`), and the lemmas about tables find its row there. `LineAndBack`
needs in addition that each row stands for bytes of the unit.
`BreakIsInFunction` and `BreakIsBehindPrologue` are about `Functions`, the functions
of all units one after the other, in which a declaration may come before the
definition. `FunctionsAreProper` says that a name has one definition with a row at
its entry, and that what marks the end of its prologue is the row behind it: NoPrologue
is a function whose next row is another function's. That each entry of the
flattened sequence is from some unit is proved, like an induction, by a least counterexample
(`FlattenHolds`).

### The walks over entries (DieTreeProofs)

The code ends a walk at a null entry in the last *position*, or by counting levels;
the properties are about the tree. `LevelNext` says what an entry does to the
level, and `LastIsNull` that the last entry of a unit is a null entry if the root has
children (the unit of an empty source file has none: `Units <- Empty`).
`WalkInvariant` says how far the filter has come (`FilteredTo`), that the walk below an
owner is below it, at the level the counter says (`BelowOwner`), and that what has
been collected is (`OwnNested`). A walk cannot leave the unit because each of its steps
is to the next entry, and the last entry is where `is_null` holds.
`LocatedAreNamed`, that what has a location has a name, is what the search for a
variable takes for granted; `Units <- Unnamed` shows that it has to.

### The command line (CommandLoopProofs)

`OneTargetFirst` needs the link between `m_is_running`, which exec
tests, and the number of targets there are: `RunningIsForked`. `AbbreviationsAgree`
rests on the prefixes of the parser: no word starts with the letters of two
commands (`OneCommand`), so what is left of a documented word is either not taken
for a command or taken for the same one (`AbbreviationParses`). `WordsAreDocumented`
says that the whole words call what they should.

### Induction, and what is only model-checked

The library's induction rules take an operator as a parameter, which the
provers cannot instantiate. Where the data are sets of numbers a least
counterexample does instead: `IntegerSets` derives from the well-foundedness of
the natural numbers that a set of integers with a bound has a least, or a
greatest, element, and with it that `Min` and `Max`, which the models take
from the community modules, are what they are called. `AddressesGrow` is an
induction over rows made that way.

Choices and folds over sequences can be reasoned about that way where the
definition is a recursive function over the naturals, as for `FlattenSeq`.

*Only model-checked* are:

- liveness (`CommandReturns`), and everything about fairness and ENABLED;
- `FinishLeavesCurrentFrame`, `StepIsOneInstruction` and the other properties of the
  counterexamples, which do not hold;
- the refinement `ReadsTheTree` and all of DieReader, whose entries are found by
  adding up sizes that LEB128 numbers decide, and everything about Variables. The
  numbers of both are folds over bytes and powers of two, and no prover
  installed has a theory of exponentiation with a variable exponent.

## Not modelled

- **The headers of the ELF file and of a line number program.** They are copied
  once, field by field; what depends on them (the version of LineVM's header,
  which sections there are) is a constant of the models.
- **Abbreviation declarations as bytes.** A declaration is one element of a
  sequence; their order, their codes and where a unit's start are modelled. A
  code that is not declared, which valid sections do not have, is not.
- **Calls of one query from another while the target runs.** Debugger asks for
  lines through a table of its own (`Location`), Inspect for functions
  through `FunctionOf`; Dwarf is checked by itself.
- **The child of a failed exec.** `start` does not leave it when `execl` fails,
  and it goes on as a second debugger; but its first wait_for_target, of a
  process that is not its child, fails, reads as an exit and ends it
  (debugger.cpp:159-168). The parent's side is `StartFailed`.
- **The number of times step is repeated when it is negative**, which becomes
  four billion; no document says what a negative count should do.
- **Columns, basic blocks, instruction sets** of the line machine, which are
  copied into rows nobody asks about.
- **Register and status printing, main, the tests.** Text only.
- **The processor's effect on the target's data**, and self-modifying targets.
- **A target with several threads or children**, which the debugger does not
  know of.

## Plan

Done, in this order: execution control with its breakpoints (the heart of the
program), its proofs, the line machine and its lookups, what is shown of a
stopped target, variables, entries, the command line; then location expressions
and LEB128 under variables, the bytes under entries, compile units and sections
around the lookups, the proofs of the line machine and the command line; those
of the refinement of NativeTarget under continue, of what is shown at a breakpoint, of
the lookups and of the walks over entries; and those of the refinement under all
commands, of where finish and next come back to, and of the answers of the
debugging information.

Next: Dwarf under Debugger, with the breakpoints of `Break` as the answers of
`AskFunction` and `AskLine`.
