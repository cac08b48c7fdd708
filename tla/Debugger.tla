----------------------------- MODULE Debugger -----------------------------
(***************************************************************************)
(* The debugger at work on a target: the commands of src/src/debugger.cpp  *)
(* that run, stop and patch the target, the breakpoints of                 *)
(* src/src/breakpoint.cpp, and between them the target and the kernel.     *)
(*                                                                         *)
(* The debugger is sequential, but it gives the target away at every       *)
(* PTRACE_CONT and PTRACE_SINGLESTEP and gets it back from waitpid only    *)
(* after the target has moved, stopped for some reason, or died.  So a     *)
(* command is one action per stretch between two such points; "at" says    *)
(* which waitpid (or loop head) the debugger is in.                        *)
(***************************************************************************)
EXTENDS TargetProgram, FiniteSets

CONSTANTS
  LineAt,      \* source line of a text address: a line, 0, or NoLine
  Mains,       \* where break_on_function("main") may put its breakpoint;
               \* NoAddr: nowhere, no method of that name is found
  BreakAddrs,  \* addresses the break command can resolve to
  Commands,    \* commands the user may type besides start
  StepCounts,  \* arguments of the step command
  MaxSignals,  \* bound: signals sent to the target while it runs
  MayBeKilled  \* whether the target may be killed from outside

VARIABLES
  \* the target and the kernel
  cpu,         \* registers and stack
  text,        \* bytes of the program text
  status,      \* of the target process, see Status
  why,         \* why the kernel stopped the target; the debugger never asks
  signals,     \* signals still to come
  \* the debugger
  at,          \* where in debugger.cpp control is, see Points
  m_is_running,
  m_breakpoints, \* the byte saved for each address, "none" if no breakpoint
  over,        \* the breakpoint continue_execution is stepping over
  tmp,         \* the temporary breakpoint of finish and next
  job,         \* location and count of next and step; and, read by no code,
               \* the frame and the stack depth the command was typed in
  sigterm      \* what the pid that quit signalled stood for

targetVars   == <<cpu, text, status, why, signals>>
debuggerVars == <<at, m_is_running, m_breakpoints, over, tmp, job, sigterm>>
vars == <<cpu, text, status, why, signals,
          at, m_is_running, m_breakpoints, over, tmp, job, sigterm>>

B == INSTANCE Breakpoint

NoLine == -1

ASSUME DebuggerAssumption ==
  /\ LineAt \in [Addr -> Int]
  /\ Mains # {} /\ Mains \subseteq BreakAddrs \cup {NoAddr}
  /\ BreakAddrs \subseteq DOMAIN Program
  /\ Commands \subseteq {"break", "continue", "delete", "finish", "next",
                         "step", "quit"}
  /\ StepCounts \subseteq Nat \ {0}
  /\ MaxSignals \in Nat
  /\ MayBeKilled \in BOOLEAN

Status == {"none",      \* start has not been typed
           "stopped",   \* in a ptrace stop
           "running",   \* after PTRACE_CONT
           "stepping",  \* after PTRACE_SINGLESTEP
           "zombie",    \* dead, not waited for
           "reaped",    \* dead, waited for: the pid is free again
           "released"}  \* runs on by itself, its tracer has exited

Reasons == {"none", "trap", "step", "signal"}

Points == {"prompt",
           "cont",        \* continue_execution, wait_for_target
           "contOver",    \* continue_execution, waitpid of step_over
           "finish",      \* continue_to_end_of_stack_frame, wait_for_target
           "finishOver",  \* the same, waitpid of step_over
           "next",        \* next, head of the loop
           "nextCall",    \* next, wait_for_target after running a call
           "nextOver",    \* the same, waitpid of step_over
           "nextStep",    \* next, wait_for_target after a single step
           "step",        \* step, wait_for_target
           "exited"}      \* the debugger has called exit

SavedByte == B!Byte \cup {"none"}

NoTmp == [addr |-> NoAddr, data |-> "op"]

NoJob == [loc |-> NoLine, left |-> 0, frame |-> 0, depth |-> 0]

Init ==
  /\ cpu = InitialCpu
  /\ text = B!OriginalText
  /\ status = "none"
  /\ why = "none"
  /\ signals = MaxSignals
  /\ at = "prompt"
  /\ m_is_running = FALSE
  /\ m_breakpoints = [a \in Addr |-> "none"]
  /\ over = NoAddr
  /\ tmp = NoTmp
  /\ job = NoJob
  /\ sigterm = "none"

-----------------------------------------------------------------------------
(* What ptrace and waitpid do.                                             *)

\* A ptrace request other than TRACEME works only on a stopped tracee.
Attached == status = "stopped"

Dead == status \in {"zombie", "reaped"}

\* waitpid returns: with a stop, with a death, or with ECHILD.
WaitReturns == Attached \/ Dead

Resumed(mode) == IF Attached THEN mode ELSE status

Reaped == IF Dead THEN "reaped" ELSE status

\* PTRACE_CONT or PTRACE_SINGLESTEP.
Resume(mode) ==
  /\ status' = Resumed(mode)
  /\ why' = "none"

\* GETREGS leaves the struct uninitialised when it fails.
ReadRip == IF Attached THEN {cpu.rip} ELSE Addr \cup {NoAddr}

\* registers.rip -= 1 between a GETREGS and a SETREGS.  Addresses below the
\* text are all alike: NoAddr stands for them.
OneBack(rip) == IF rip > NoAddr THEN rip - 1 ELSE NoAddr

\* Mutant: step_over does not step back.
NotSteppedBack == cpu

SteppedBack == IF Attached THEN [cpu EXCEPT !.rip = OneBack(@)] ELSE cpu

\* source_location_from_program_counter, down to the line.
Location(rip) == IF rip \in Addr THEN LineAt[rip] ELSE NoLine

IsBreakpoint(a) == a \in Addr /\ m_breakpoints[a] # "none"

Depth(c) == Len(c.stack)

Issued(loc, left) ==
  [loc |-> loc, left |-> left, frame |-> cpu.rbp, depth |-> Depth(cpu)]

\* Mutant: next does not look for calls.
NeverCall(rip) == FALSE

\* The first byte at rip is 0xE8.
IsCall(rip) ==
  /\ B!Peek(text, Attached, rip) = "op"
  /\ rip \in DOMAIN Program
  /\ Program[rip].kind = "call"

\* In the middle of an instruction any byte may be found.
MayBeCall(rip) ==
  \/ IsCall(rip)
  \/ B!Peek(text, Attached, rip) = "op" /\ rip \notin DOMAIN Program

-----------------------------------------------------------------------------
(* start                                                                   *)

\* Mutant: the prologue is taken to end one instruction later.
BreakOnMainTooFar(live) ==
  \E main \in Mains :
    IF main = NoAddr
    THEN UNCHANGED <<m_breakpoints, text>>
    ELSE LET a == main + Program[main].len IN
         /\ m_breakpoints' =
              [m_breakpoints EXCEPT ![a] = B!EnableData(text, live, a)]
         /\ text' = B!EnableText(text, live, a)

(* break_on_function("main"), which says so and returns if there is none.  *)
BreakOnMain(live) ==
  \E main \in Mains :
    IF main = NoAddr
    THEN UNCHANGED <<m_breakpoints, text>>
    ELSE /\ m_breakpoints' =
              [m_breakpoints EXCEPT ![main] = B!EnableData(text, live, main)]
         /\ text' = B!EnableText(text, live, main)

\* fork, exec, break_on_function("main"), and PTRACE_CONT.
Start ==
  /\ at = "prompt" /\ ~m_is_running
  /\ m_is_running' = TRUE
  /\ BreakOnMain(TRUE)
  /\ status' = "running"
  /\ at' = "cont"
  /\ UNCHANGED <<cpu, why, signals, over, tmp, job, sigterm>>

\* execl fails and the child goes away; start does not look at the wait status.
StartFailed ==
  /\ at = "prompt" /\ ~m_is_running
  /\ m_is_running' = TRUE
  /\ BreakOnMain(FALSE)
  /\ status' = "reaped"
  /\ at' = "cont"
  /\ UNCHANGED <<cpu, why, signals, over, tmp, job, sigterm>>

\* fork fails, and start ends the debugger.
ForkFailed ==
  /\ at = "prompt" /\ ~m_is_running
  /\ at' = "exited"
  /\ UNCHANGED targetVars
  /\ UNCHANGED <<m_is_running, m_breakpoints, over, tmp, job, sigterm>>

-----------------------------------------------------------------------------
(* The commands that need a running target.                                *)
Ready(command) == at = "prompt" /\ m_is_running /\ command \in Commands

\* break: break_on_function and break_on_line_and_file once they have an
\* address; both return early if there is a breakpoint already.
Break(a) ==
  /\ Ready("break")
  /\ ~IsBreakpoint(a)
  /\ m_breakpoints' =
       [m_breakpoints EXCEPT ![a] = B!EnableData(text, Attached, a)]
  /\ text' = B!EnableText(text, Attached, a)
  /\ UNCHANGED <<cpu, status, why, signals>>
  /\ UNCHANGED <<at, m_is_running, over, tmp, job, sigterm>>

\* delete: delete_all_breakpoints disables every breakpoint of the map.
Delete ==
  /\ Ready("delete")
  /\ \E a \in Addr : IsBreakpoint(a)
  /\ text' = IF Attached
             THEN [a \in Addr |-> IF IsBreakpoint(a) THEN m_breakpoints[a]
                                                     ELSE text[a]]
             ELSE text
  /\ m_breakpoints' = [a \in Addr |-> "none"]
  /\ UNCHANGED <<cpu, status, why, signals>>
  /\ UNCHANGED <<at, m_is_running, over, tmp, job, sigterm>>

(* quit, which exec accepts whether or not m_pid has been set.  The exit of *)
(* the debugger lets a stopped target go: it dies of the signal, or runs on *)
(* with whatever traps are in its text.                                     *)
Quit ==
  /\ at = "prompt" /\ "quit" \in Commands
  /\ sigterm' = IF ~m_is_running         THEN "uninitialised"
                ELSE IF status = "reaped" THEN "stale"
                ELSE "target"
  /\ status' = IF Attached THEN "released" ELSE status
  /\ at' = "exited"
  /\ UNCHANGED <<cpu, text, why, signals>>
  /\ UNCHANGED <<m_is_running, m_breakpoints, over, tmp, job>>

-----------------------------------------------------------------------------
\* Mutant: wait_for_target waits again.
TargetGoneWaitsAgain ==
  /\ at \in {"cont", "finish", "nextCall", "nextStep", "step"}
  /\ Dead
  /\ status' = "reaped"
  /\ UNCHANGED <<cpu, text, why, signals>> /\ UNCHANGED debuggerVars

(* wait_for_target finds the target dead, or already waited for (waitpid   *)
(* fails and leaves status 0, which reads as an exit), and ends the        *)
(* debugger.                                                               *)
TargetGone ==
  /\ at \in {"cont", "finish", "nextCall", "nextStep", "step"}
  /\ Dead
  /\ status' = "reaped"
  /\ at' = "exited"
  /\ UNCHANGED <<cpu, text, why, signals>>
  /\ UNCHANGED <<m_is_running, m_breakpoints, over, tmp, job, sigterm>>

(* continue: continue_execution.                                           *)
Continue ==
  /\ Ready("continue")
  /\ Resume("running")
  /\ at' = "cont"
  /\ UNCHANGED <<cpu, text, signals>>
  /\ UNCHANGED <<m_is_running, m_breakpoints, over, tmp, job, sigterm>>

\* The target has stopped, and not one byte after a breakpoint.
ContinueStops ==
  /\ at = "cont" /\ Attached
  /\ ~IsBreakpoint(cpu.rip - 1)
  /\ at' = "prompt"
  /\ UNCHANGED targetVars
  /\ UNCHANGED <<m_is_running, m_breakpoints, over, tmp, job, sigterm>>

\* Mutant: step_over does not disable the breakpoint first.
ContinueHitsStillEnabled ==
  /\ at = "cont" /\ Attached
  /\ IsBreakpoint(cpu.rip - 1)
  /\ over' = cpu.rip - 1
  /\ cpu' = SteppedBack
  /\ Resume("stepping")
  /\ at' = "contOver"
  /\ UNCHANGED <<text, signals, m_is_running, m_breakpoints, tmp, job, sigterm>>

\* Mutant: rip is looked up as it is, not one byte back.
ContinueHitsAtRip ==
  /\ at = "cont" /\ Attached
  /\ IsBreakpoint(cpu.rip)
  /\ over' = cpu.rip
  /\ text' = B!DisableText(text, Attached, cpu.rip, m_breakpoints[cpu.rip])
  /\ cpu' = SteppedBack
  /\ Resume("stepping")
  /\ at' = "contOver"
  /\ UNCHANGED <<signals, m_is_running, m_breakpoints, tmp, job, sigterm>>

\* It is one byte after a breakpoint: step_over up to its waitpid.
ContinueHits ==
  /\ at = "cont" /\ Attached
  /\ IsBreakpoint(cpu.rip - 1)
  /\ over' = cpu.rip - 1
  /\ text' = B!DisableText(text, Attached, cpu.rip - 1,
                           m_breakpoints[cpu.rip - 1])
  /\ cpu' = SteppedBack
  /\ Resume("stepping")
  /\ at' = "contOver"
  /\ UNCHANGED <<signals, m_is_running, m_breakpoints, tmp, job, sigterm>>

\* Mutant: step_over does not enable the breakpoint again.
ContinueLeavesDisabled ==
  /\ at = "contOver" /\ WaitReturns
  /\ status' = Reaped
  /\ over' = NoAddr
  /\ at' = "prompt"
  /\ UNCHANGED <<cpu, text, why, signals, m_is_running, m_breakpoints, tmp, job,
                 sigterm>>

\* The rest of step_over; how the single step ended is not looked at.
ContinueSteppedOver ==
  /\ at = "contOver" /\ WaitReturns
  /\ status' = Reaped
  /\ m_breakpoints' =
       [m_breakpoints EXCEPT ![over] = B!EnableData(text, Attached, over)]
  /\ text' = B!EnableText(text, Attached, over)
  /\ over' = NoAddr
  /\ at' = "prompt"
  /\ UNCHANGED <<cpu, why, signals, m_is_running, tmp, job, sigterm>>

-----------------------------------------------------------------------------
(* A local Breakpoint of finish and next: enabled and run to, ...          *)
RunToTmp(a) ==
  /\ tmp' = [addr |-> a, data |-> B!EnableData(text, Attached, a)]
  /\ text' = B!EnableText(text, Attached, a)
  /\ Resume("running")
  /\ UNCHANGED <<cpu, signals>>

\* ... stepped over up to its waitpid, wherever the target has stopped, ...
StepOverTmp ==
  /\ text' = B!DisableText(text, Attached, tmp.addr, tmp.data)
  /\ cpu' = SteppedBack
  /\ Resume("stepping")
  /\ UNCHANGED <<signals, tmp>>

\* Mutant: the disable after step_over is missing.
DropTmpEnabled ==
  /\ text' = B!EnableText(text, Attached, tmp.addr)
  /\ tmp' = NoTmp
  /\ status' = Reaped
  /\ UNCHANGED <<cpu, why, signals>>

\* ... and enabled by the end of step_over and disabled at once.
DropTmp ==
  /\ text' = B!DisableText(B!EnableText(text, Attached, tmp.addr), Attached,
                           tmp.addr, B!EnableData(text, Attached, tmp.addr))
  /\ tmp' = NoTmp
  /\ status' = Reaped
  /\ UNCHANGED <<cpu, why, signals>>

(* finish: continue_to_end_of_stack_frame.                                 *)
Finish ==
  /\ Ready("finish")
  /\ RunToTmp(IF Attached THEN ReturnAddress(cpu) ELSE NoAddr)
  /\ job' = Issued(NoLine, 0)
  /\ at' = "finish"
  /\ UNCHANGED <<m_is_running, m_breakpoints, over, sigterm>>

FinishStops ==
  /\ at = "finish" /\ Attached
  /\ StepOverTmp
  /\ at' = "finishOver"
  /\ UNCHANGED <<m_is_running, m_breakpoints, over, job, sigterm>>

FinishSteppedOver ==
  /\ at = "finishOver" /\ WaitReturns
  /\ DropTmp
  /\ job' = NoJob
  /\ at' = "prompt"
  /\ UNCHANGED <<m_is_running, m_breakpoints, over, sigterm>>

-----------------------------------------------------------------------------
(* next.  Without a location for rip it returns at once.                   *)
NextCommand ==
  /\ Ready("next")
  /\ \E rip \in ReadRip :
       /\ Location(rip) # NoLine
       /\ job' = Issued(Location(rip), 0)
  /\ at' = "next"
  /\ UNCHANGED targetVars
  /\ UNCHANGED <<m_is_running, m_breakpoints, over, tmp, sigterm>>

\* Mutant: the call is taken for four bytes.
NextRunsShortCall ==
  /\ at = "next"
  /\ MayBeCall(cpu.rip)
  /\ RunToTmp(cpu.rip + CallLength - 1)
  /\ at' = "nextCall"
  /\ UNCHANGED <<m_is_running, m_breakpoints, over, job, sigterm>>

\* The loop: run a direct call to the instruction after it, ...
NextRunsCall ==
  /\ at = "next"
  /\ MayBeCall(cpu.rip)
  /\ RunToTmp(cpu.rip + CallLength)
  /\ at' = "nextCall"
  /\ UNCHANGED <<m_is_running, m_breakpoints, over, job, sigterm>>

\* ... single step anything else, ...
NextSteps ==
  /\ at = "next"
  /\ ~IsCall(cpu.rip)
  /\ Resume("stepping")
  /\ at' = "nextStep"
  /\ UNCHANGED <<cpu, text, signals>>
  /\ UNCHANGED <<m_is_running, m_breakpoints, over, tmp, job, sigterm>>

NextCallStops ==
  /\ at = "nextCall" /\ Attached
  /\ StepOverTmp
  /\ at' = "nextOver"
  /\ UNCHANGED <<m_is_running, m_breakpoints, over, job, sigterm>>

\* ... until the location is another one, and not line 0.
LeavesLine(rip) == Location(rip) \notin {NoLine, job.loc}

NextDecides ==
  \E rip \in ReadRip :
    IF LeavesLine(rip) /\ Location(rip) # 0
    THEN at' = "prompt" /\ job' = NoJob
    ELSE at' = "next" /\ UNCHANGED job

NextSteppedOver ==
  /\ at = "nextOver" /\ WaitReturns
  /\ DropTmp
  /\ NextDecides
  /\ UNCHANGED <<m_is_running, m_breakpoints, over, sigterm>>

NextStepped ==
  /\ at = "nextStep" /\ Attached
  /\ NextDecides
  /\ UNCHANGED targetVars
  /\ UNCHANGED <<m_is_running, m_breakpoints, over, tmp, sigterm>>

-----------------------------------------------------------------------------
(* step n: exec calls step n times; each single steps until the location   *)
(* changes.                                                                *)
Step(n) ==
  /\ Ready("step")
  /\ \E rip \in ReadRip :
       /\ Location(rip) # NoLine
       /\ job' = Issued(Location(rip), n)
  /\ Resume("stepping")
  /\ at' = "step"
  /\ UNCHANGED <<cpu, text, signals>>
  /\ UNCHANGED <<m_is_running, m_breakpoints, over, tmp, sigterm>>

\* Mutant: the count does not end the loop of exec.
StepForever ==
  /\ at = "step" /\ Attached
  /\ job' = IF LeavesLine(cpu.rip)
            THEN [job EXCEPT !.loc = Location(cpu.rip), !.left = @ - 1]
            ELSE job
  /\ Resume("stepping")
  /\ UNCHANGED <<cpu, text, signals>>
  /\ UNCHANGED <<at, m_is_running, m_breakpoints, over, tmp, sigterm>>

StepAgain ==
  /\ at = "step" /\ Attached
  /\ ~LeavesLine(cpu.rip) \/ job.left > 1
  /\ job' = IF LeavesLine(cpu.rip)
            THEN [job EXCEPT !.loc = Location(cpu.rip), !.left = @ - 1]
            ELSE job
  /\ Resume("stepping")
  /\ UNCHANGED <<cpu, text, signals>>
  /\ UNCHANGED <<at, m_is_running, m_breakpoints, over, tmp, sigterm>>

StepEnds ==
  /\ at = "step" /\ Attached
  /\ LeavesLine(cpu.rip) /\ job.left <= 1
  /\ job' = NoJob
  /\ at' = "prompt"
  /\ UNCHANGED targetVars
  /\ UNCHANGED <<m_is_running, m_breakpoints, over, tmp, sigterm>>

-----------------------------------------------------------------------------
(* The target, the kernel and the rest of the world.                       *)
Moving == status \in {"running", "stepping"}

\* After an instruction a single-stepped target stops.
AfterInstruction ==
  /\ status' = IF status = "stepping" THEN "stopped" ELSE status
  /\ why' = IF status = "stepping" THEN "step" ELSE why

StopFor(reason) == status' = "stopped" /\ why' = reason

Patched(a) == a \in Addr /\ text[a] = "trap"

\* Every byte of the instruction at a is the program's own.
Intact(a) ==
  /\ a \in DOMAIN Program
  /\ \A b \in a .. (a + Program[a].len - 1) : text[b] = "op"

ExecTrap ==
  /\ Moving /\ Patched(cpu.rip)
  /\ cpu' = [cpu EXCEPT !.rip = @ + 1]
  /\ StopFor("trap")
  /\ UNCHANGED <<text, signals>> /\ UNCHANGED debuggerVars

ExecOriginal ==
  /\ Moving /\ Intact(cpu.rip)
  /\ cpu' \in Successors(cpu)
  /\ AfterInstruction
  /\ UNCHANGED <<text, signals>> /\ UNCHANGED debuggerVars

ExecExit ==
  /\ Moving /\ Intact(cpu.rip) /\ Exits(cpu)
  /\ status' = "zombie"
  /\ UNCHANGED <<cpu, text, why, signals>> /\ UNCHANGED debuggerVars

ExecFault ==
  /\ Moving /\ ~Patched(cpu.rip)
  /\ Intact(cpu.rip) => Faults(cpu)
  /\ StopFor("signal")
  /\ UNCHANGED <<cpu, text, signals>> /\ UNCHANGED debuggerVars

\* In the middle of an instruction the bytes mean something else.
ExecStray ==
  /\ Moving /\ cpu.rip \in Addr /\ ~Patched(cpu.rip) /\ ~Intact(cpu.rip)
  /\ \E a \in Addr : cpu' = [cpu EXCEPT !.rip = a]
  /\ AfterInstruction
  /\ UNCHANGED <<text, signals>> /\ UNCHANGED debuggerVars

\* A signal stops a traced target before its next instruction.
SignalStop ==
  /\ Moving /\ signals > 0
  /\ signals' = signals - 1
  /\ StopFor("signal")
  /\ UNCHANGED <<cpu, text>> /\ UNCHANGED debuggerVars

Killed ==
  /\ MayBeKilled
  /\ Moving \/ Attached
  /\ status' = "zombie"
  /\ UNCHANGED <<cpu, text, why, signals>> /\ UNCHANGED debuggerVars

\* The debugger process has ended.
Exited == at = "exited" /\ UNCHANGED vars

-----------------------------------------------------------------------------
UserTypes ==
  \/ Start \/ StartFailed \/ ForkFailed
  \/ \E a \in BreakAddrs : Break(a)
  \/ Delete \/ Quit \/ Continue \/ Finish \/ NextCommand
  \/ \E n \in StepCounts : Step(n)

DebuggerRuns ==
  \/ TargetGone
  \/ ContinueStops \/ ContinueHits \/ ContinueSteppedOver
  \/ FinishStops \/ FinishSteppedOver
  \/ NextRunsCall \/ NextSteps \/ NextCallStops
  \/ NextSteppedOver \/ NextStepped
  \/ StepAgain \/ StepEnds

TargetRuns == ExecTrap \/ ExecOriginal \/ ExecExit \/ ExecFault \/ ExecStray

Next ==
  \/ UserTypes \/ DebuggerRuns
  \/ TargetRuns \/ SignalStop \/ Killed
  \/ Exited

Spec == Init /\ [][Next]_vars

\* The kernel schedules the debugger and the target; the user owes nothing.
FairSpec == Spec /\ WF_vars(DebuggerRuns) /\ WF_vars(TargetRuns)

-----------------------------------------------------------------------------
(* Properties.                                                             *)

TypeOK ==
  /\ cpu \in Cpu
  /\ text \in B!Text
  /\ status \in Status
  /\ why \in Reasons
  /\ signals \in 0 .. MaxSignals
  /\ at \in Points
  /\ m_is_running \in BOOLEAN
  /\ m_breakpoints \in [Addr -> SavedByte]
  /\ over \in Addr \cup {NoAddr}
  /\ tmp \in [addr : Int, data : B!Byte]
  /\ job \in [loc : Int, left : Nat, frame : Nat, depth : Nat]
  /\ sigterm \in {"none", "target", "stale", "uninitialised"}

Alive == Moving \/ Attached

(* Whenever the user has the prompt, the text of a live target is the      *)
(* program's own with a trap at each breakpoint of m_breakpoints, and at   *)
(* nothing else: no command, whatever interrupts it, leaves a temporary    *)
(* trap behind or loses one the user asked for.                            *)
ImageIntact ==
  at = "prompt" /\ Alive =>
    \A a \in Addr : text[a] = IF IsBreakpoint(a) THEN "trap" ELSE "op"

(* The same at every control point, with what the debugger holds in its    *)
(* locals there: the breakpoint being stepped over is out of the text, a   *)
(* temporary one is in it, and each saved byte is the one its disable has  *)
(* to put back (the trap below it, for a temporary one on a user's).       *)
Planted == at \in {"finish", "nextCall"}

Trapped(a) ==
  \/ IsBreakpoint(a) /\ a # over
  \/ Planted /\ a = tmp.addr

TextAsPatched ==
  Alive => \A a \in Addr : text[a] = IF Trapped(a) THEN "trap" ELSE "op"

SavedBytes ==
  Alive =>
    /\ \A a \in Addr : m_breakpoints[a] \in {"none", "op"}
    /\ Planted /\ tmp.addr \in Addr =>
         tmp.data = IF IsBreakpoint(tmp.addr) THEN "trap" ELSE "op"

SteppingOver ==
  IF at = "contOver" THEN IsBreakpoint(over) ELSE over = NoAddr

BeforeStart ==
  /\ m_is_running <=> status # "none"
  /\ ~m_is_running =>
       /\ at \in {"prompt", "exited"}
       /\ text = B!OriginalText
       /\ m_breakpoints = [a \in Addr |-> "none"]

\* The target only moves while the debugger waits for it.
MovesWhenWaitedFor == Moving => at \notin {"prompt", "next", "exited"}

ImageInvariant ==
  /\ TextAsPatched
  /\ SavedBytes
  /\ SteppingOver
  /\ BeforeStart
  /\ MovesWhenWaitedFor

(* A user breakpoint is never run through: as long as it is set, the       *)
(* instruction there is executed only by the single step that              *)
(* continue_execution makes to report it.                                  *)
NoSilentPass ==
  [][ExecOriginal /\ IsBreakpoint(cpu.rip) =>
       at = "contOver" /\ over = cpu.rip]_vars

(* What continue_execution takes for a breakpoint hit (comment at          *)
(* debugger.cpp:174) is a trap of that breakpoint.                         *)
HitIsTrap == [][ContinueHits => why = "trap"]_vars

(* Single-stepping the original instruction (breakpoint.cpp:40) executes   *)
(* it, once, before the breakpoint is enabled again; or, when a signal     *)
(* stops the target first, leaves it at that instruction.  It never runs   *)
(* into a trap, this breakpoint's or another.                              *)
StepOverExecutes ==
  [][ContinueSteppedOver /\ Attached =>
       why = "step" \/ (why = "signal" /\ cpu.rip = over)]_vars

(* A hit is reported once (debugger.cpp:187): the instruction has been     *)
(* executed when step_over returns, so that the same arrival at the        *)
(* breakpoint does not hit it a second time.                               *)
HitIsReportedOnce ==
  [][ContinueSteppedOver /\ Attached => why = "step"]_vars

(* step_over steps back over the trap of the breakpoint it is stepping     *)
(* over (breakpoint.cpp:34), not over something else.                      *)
StepsBackOverOwnTrap ==
  [][FinishStops \/ NextCallStops =>
       why = "trap" /\ cpu.rip - 1 = tmp.addr]_vars

(* step and next never single step a trap: the instruction they execute    *)
(* is the program's (debugger.cpp:254, "safe to single step").             *)
SingleStepsOwnInstruction ==
  [][at' \in {"nextStep", "step"} /\ status' = "stepping" /\ Attached
       => ~Patched(cpu.rip)]_vars

(* finish comes back to the caller of the frame rbp stood for when it was *)
(* typed, that frame and all it called gone (debugger.h:67): a recursive   *)
(* call does not stop it early, nor a later call draw it in.               *)
FinishReturnsToCaller ==
  [][FinishSteppedOver /\ Attached => Depth(cpu) = job.frame - 1]_vars

(* The frame finish leaves is that of the function the target was in.      *)
FinishLeavesCurrentFrame ==
  [][FinishSteppedOver /\ Attached => Depth(cpu) = job.depth - 1]_vars

(* step n moves the target n instructions (README.md:53, README.md:65): no *)
(* step goes on after the first.                                           *)
StepIsOneInstruction == [][StepAgain => LeavesLine(cpu.rip)]_vars

(* next does not enter function calls (debugger.cpp:224): it hands back    *)
(* the prompt in the frame it was typed in or in a caller of it.           *)
NextStaysInFrame ==
  [][at = "next" \/ NextSteppedOver \/ NextStepped =>
       (at' = "prompt" => Depth(cpu) <= job.depth)]_vars

(* quit signals the target and nobody else (debugger.h:109).               *)
QuitSignalsTarget == sigterm \in {"none", "target"}

(* m_is_running, when the user has the prompt, says whether there is a     *)
(* target as far as waitpid has told (debugger.h:108).                     *)
RunningMeansNotReaped == at = "prompt" /\ m_is_running => status # "reaped"

(* A command gives the prompt back or ends the debugger.                   *)
CommandReturns == (at # "prompt") ~> (at \in {"prompt", "exited"})

(* The target as it would be without the trap it has just executed.        *)
LogicalCpu == IF why = "trap" THEN [cpu EXCEPT !.rip = @ - 1] ELSE cpu

Life == IF status = "none" THEN "none" ELSE IF Dead THEN "dead" ELSE "alive"

Native == INSTANCE NativeTarget WITH cpu <- LogicalCpu, life <- Life

(* The debugged target takes the steps of the undebugged one and no other: *)
(* no instruction is skipped, repeated or torn by a breakpoint.            *)
Transparent == Native!Spec
=============================================================================
