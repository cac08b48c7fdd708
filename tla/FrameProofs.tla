---------------------------- MODULE FrameProofs ----------------------------
(***************************************************************************)
(* What the user is shown at a breakpoint, in programs of any size.        *)
(***************************************************************************)
EXTENDS Inspect, DebuggerProofs

AtEnter(a) == a \in DOMAIN Program /\ Program[a].kind = "enter"

Calls(a) == Program[a].kind \in {"call", "icall"}

FallsThrough(a) == Program[a].kind \in {"seq", "enter", "call", "icall"}

(* What a compiler does that keeps rbp: a function is called, and only     *)
(* called, at the instruction that makes its frame.                        *)
KeepsFrames ==
  /\ ~AtEnter(Entry)
  /\ \A a \in DOMAIN Program :
       /\ Calls(a) => \A t \in Program[a].to : AtEnter(t)
       /\ Program[a].kind = "jump" => \A t \in Program[a].to : ~AtEnter(t)
       /\ FallsThrough(a) => ~AtEnter(a + Program[a].len)

(* A hit hands the prompt back behind the instruction of the breakpoint:   *)
(* behind a call that is the entry of the callee.                          *)
BreaksOnNoCall == \A a \in BreakAddrs : ~Calls(a)

-----------------------------------------------------------------------------
(* The frame pointer.                                                      *)

(* It is one frame behind from the call of a function to its prologue.     *)
FrameMatches(c) ==
  /\ c.rbp = IF AtEnter(c.rip) THEN Depth(c) - 1 ELSE Depth(c)
  /\ \A k \in DOMAIN c.stack : ~AtEnter(c.stack[k])

(* Where continue reports a hit, or is about to, the target is not at an   *)
(* entry.  A signal may have stopped it at one.                            *)
StopsInFrame == Attached /\ why = "step" => ~AtEnter(cpu.rip)

FrameInvariant == FrameMatches(LogicalCpu) /\ StopsInFrame

(* The cases of an instruction, of which the proofs below need these facts *)
(* only.                                                                   *)
LEMMA SuccessorCases ==
  ASSUME NEW c \in Cpu, c.rip \in DOMAIN Program, NEW d \in Successors(c)
  PROVE  \/ /\ FallsThrough(c.rip) /\ ~Calls(c.rip)
            /\ d.rip = FallThrough(c) /\ d.stack = c.stack
            /\ d.rbp = IF AtEnter(c.rip) THEN Depth(c) ELSE c.rbp
         \/ /\ Program[c.rip].kind = "jump"
            /\ d.rip \in Program[c.rip].to /\ d.stack = c.stack
            /\ d.rbp = c.rbp
         \/ /\ FallsThrough(c.rip) /\ Calls(c.rip)
            /\ d.rip \in Program[c.rip].to
            /\ d.stack = Append(c.stack, FallThrough(c)) /\ d.rbp = c.rbp
         \/ /\ Program[c.rip].kind = "ret" /\ c.stack # << >>
            /\ d.rip = c.stack[Len(c.stack)] /\ d.stack = Pop(c.stack)
            /\ d.rbp = Len(c.stack) - 1
<1>1. Program[c.rip].kind \in Kinds
  BY ProgramAssumption DEF Instruction
<1>2. CASE Program[c.rip].kind = "seq"
  BY <1>2 DEF Successors, Cpu, FallsThrough, Calls, AtEnter
<1>3. CASE Program[c.rip].kind = "jump"
  BY <1>3 DEF Successors, Cpu
<1>4. CASE Program[c.rip].kind \in {"call", "icall"}
  BY <1>4 DEF Successors, Cpu, FallsThrough, Calls
<1>5. CASE Program[c.rip].kind = "enter"
  BY <1>5 DEF Successors, Cpu, FallsThrough, Calls, AtEnter, Depth
<1>6. CASE Program[c.rip].kind = "ret"
  BY <1>6 DEF Successors
<1>7. CASE Program[c.rip].kind \in {"exit", "fault"}
  BY <1>7 DEF Successors
<1> QED BY <1>1, <1>2, <1>3, <1>4, <1>5, <1>6, <1>7 DEF Kinds

\* A call puts one return address on top of the others, ret takes it off.
LEMMA StackAppend ==
  ASSUME NEW c \in Cpu, c.rip \in DOMAIN Program
  PROVE  LET s == Append(c.stack, FallThrough(c)) IN
         /\ Depth(c) \in Nat /\ DOMAIN c.stack = 1 .. Depth(c)
         /\ DOMAIN s = 1 .. Depth(c) + 1 /\ Len(s) = Depth(c) + 1
         /\ s[Depth(c) + 1] = FallThrough(c)
         /\ \A k \in 1 .. Depth(c) : s[k] = c.stack[k]
<1>1. FallThrough(c) \in Int
  <2>1. Program[c.rip].len \in Nat /\ c.rip \in Int
    BY ProgramAssumption DEF Instruction, Cpu
  <2> QED BY <2>1 DEF FallThrough
<1>2. c.stack \in Seq(Int)
  BY DEF Cpu
<1> DEFINE n == Len(c.stack)
           f == FallThrough(c)
<1>3. n \in Nat /\ DOMAIN c.stack = 1 .. n
  BY <1>2
<1>4. /\ Len(Append(c.stack, f)) = n + 1
      /\ \A k \in 1 .. n : Append(c.stack, f)[k] = c.stack[k]
      /\ Append(c.stack, f)[n + 1] = f
      /\ DOMAIN Append(c.stack, f) = 1 .. n + 1
  <2> HIDE DEF f
  <2> QED BY <1>1, <1>2 DEF f
<1> QED BY <1>3, <1>4 DEF Depth

LEMMA StackPop ==
  ASSUME NEW c \in Cpu, c.stack # << >>
  PROVE  /\ Depth(c) \in Nat \ {0} /\ DOMAIN c.stack = 1 .. Depth(c)
         /\ DOMAIN Pop(c.stack) = 1 .. Depth(c) - 1
         /\ Len(Pop(c.stack)) = Depth(c) - 1
         /\ \A k \in 1 .. Depth(c) - 1 : Pop(c.stack)[k] = c.stack[k]
<1> DEFINE s == c.stack
           n == Len(s)
<1>1. s \in Seq(Int) /\ s # << >>
  BY DEF Cpu
<1>2. n \in Nat \ {0} /\ DOMAIN s = 1 .. n
  BY <1>1
<1>3. /\ DOMAIN Pop(s) = 1 .. n - 1 /\ Len(Pop(s)) = n - 1
      /\ \A k \in 1 .. n - 1 : Pop(s)[k] = s[k]
  <2> HIDE DEF s
  <2> QED BY <1>1, <1>2 DEF Pop
<1> QED BY <1>2, <1>3 DEF Depth

LEMMA SuccessorsMatch ==
  ASSUME KeepsFrames, NEW c \in Cpu, c.rip \in DOMAIN Program,
         FrameMatches(c), NEW d \in Successors(c)
  PROVE  FrameMatches(d) /\ (~Calls(c.rip) => ~AtEnter(d.rip))
<1>1. /\ \A k \in DOMAIN c.stack : ~AtEnter(c.stack[k])
      /\ c.rbp = IF AtEnter(c.rip) THEN Depth(c) - 1 ELSE Depth(c)
  BY DEF FrameMatches
<1>2. /\ Calls(c.rip) => \A t \in Program[c.rip].to : AtEnter(t)
      /\ Program[c.rip].kind = "jump" =>
           \A t \in Program[c.rip].to : ~AtEnter(t)
      /\ FallsThrough(c.rip) => ~AtEnter(FallThrough(c))
  BY DEF KeepsFrames, FallThrough
<1>3. CASE d.stack = c.stack /\ ~AtEnter(d.rip) /\ d.rbp = Depth(c)
  BY <1>1, <1>3 DEF FrameMatches, Depth
<1>4. CASE /\ FallsThrough(c.rip) /\ ~Calls(c.rip)
           /\ d.rip = FallThrough(c) /\ d.stack = c.stack
           /\ d.rbp = IF AtEnter(c.rip) THEN Depth(c) ELSE c.rbp
  BY <1>1, <1>2, <1>3, <1>4
<1>5. CASE /\ Program[c.rip].kind = "jump"
           /\ d.rip \in Program[c.rip].to /\ d.stack = c.stack
           /\ d.rbp = c.rbp
  BY <1>1, <1>2, <1>3, <1>5 DEF AtEnter
<1>6. CASE /\ FallsThrough(c.rip) /\ Calls(c.rip)
           /\ d.rip \in Program[c.rip].to
           /\ d.stack = Append(c.stack, FallThrough(c)) /\ d.rbp = c.rbp
  <2>1. AtEnter(d.rip) /\ c.rbp = Depth(c)
    BY <1>1, <1>2, <1>6 DEF AtEnter, Calls
  <2>2. /\ Depth(c) \in Nat /\ DOMAIN c.stack = 1 .. Depth(c)
        /\ DOMAIN d.stack = 1 .. Depth(c) + 1 /\ Depth(d) = Depth(c) + 1
        /\ d.stack[Depth(c) + 1] = FallThrough(c)
        /\ \A k \in 1 .. Depth(c) : d.stack[k] = c.stack[k]
    BY <1>6, StackAppend DEF Depth
  <2>3. ASSUME NEW k \in 1 .. Depth(c) + 1 PROVE ~AtEnter(d.stack[k])
    <3>1. k = Depth(c) + 1 \/ k \in 1 .. Depth(c)
      BY <2>2
    <3> QED BY <1>1, <1>2, <1>6, <2>2, <3>1
  <2>4. d.rbp = Depth(d) - 1
    BY <1>6, <2>1, <2>2
  <2> QED BY <1>6, <2>1, <2>2, <2>3, <2>4 DEF FrameMatches
<1>7. CASE /\ Program[c.rip].kind = "ret" /\ c.stack # << >>
           /\ d.rip = c.stack[Len(c.stack)] /\ d.stack = Pop(c.stack)
           /\ d.rbp = Len(c.stack) - 1
  <2>1. /\ Depth(c) \in Nat \ {0} /\ DOMAIN c.stack = 1 .. Depth(c)
        /\ DOMAIN d.stack = 1 .. Depth(c) - 1 /\ Depth(d) = Depth(c) - 1
        /\ \A k \in 1 .. Depth(c) - 1 : d.stack[k] = c.stack[k]
    BY <1>7, StackPop DEF Depth
  <2>2. Depth(c) \in DOMAIN c.stack /\ ~AtEnter(d.rip)
    BY <1>1, <1>7, <2>1 DEF Depth
  <2>3. ASSUME NEW k \in 1 .. Depth(c) - 1 PROVE ~AtEnter(d.stack[k])
    <3>1. k \in 1 .. Depth(c)
      BY <2>1
    <3> QED BY <1>1, <2>1, <3>1
  <2>4. d.rbp = Depth(d)
    BY <1>7, <2>1 DEF Depth
  <2> QED BY <2>1, <2>2, <2>3, <2>4 DEF FrameMatches
<1> QED BY <1>4, <1>5, <1>6, <1>7, SuccessorCases

LEMMA UserStaysInFrame ==
  ASSUME ContinueOnly, Continuing, StopsInFrame, UserTypes
  PROVE  StopsInFrame'
<1>1. CASE Start \/ StartFailed \/ Continue
  <2>1. at' = "cont" /\ ~Attached'
    BY <1>1 DEF Start, StartFailed, Continue, Resume, Resumed, Attached
  <2> QED BY <2>1 DEF StopsInFrame
<1>2. CASE (\E a \in BreakAddrs : Break(a)) \/ Delete
  <2>1. cpu' = cpu /\ status' = status /\ why' = why
    BY <1>2 DEF Break, Delete, targetVars
  <2> QED BY <2>1 DEF StopsInFrame, Attached
<1>3. CASE Quit \/ ForkFailed
  <2>1. cpu' = cpu /\ why' = why /\ (Attached' => Attached)
    BY <1>3 DEF Quit, ForkFailed, Attached, targetVars
  <2> QED BY <2>1 DEF StopsInFrame
<1>4. ~Finish /\ ~NextCommand /\ \A n \in StepCounts : ~Step(n)
  BY DEF ContinueOnly, Finish, NextCommand, Step, Ready
<1> QED BY <1>1, <1>2, <1>3, <1>4 DEF UserTypes

LEMMA DebuggerStaysInFrame ==
  ASSUME Continuing, StopsInFrame, DebuggerRuns
  PROVE  StopsInFrame'
<1>1. at \in ContinuePoints
  BY DEF Continuing
<1>2. CASE ContinueHits
  <2>1. ~Attached'
    BY <1>2 DEF ContinueHits, Resume, Resumed, Attached
  <2> QED BY <2>1 DEF StopsInFrame
<1>3. CASE TargetGone \/ ContinueStops \/ ContinueSteppedOver
  <2>1. cpu' = cpu /\ why' = why /\ (Attached' => Attached)
    BY <1>3 DEF TargetGone, ContinueStops, ContinueSteppedOver, Reaped, Attached,
                targetVars
  <2> QED BY <2>1 DEF StopsInFrame
<1> QED
  BY <1>1, <1>2, <1>3
     DEF ContinuePoints, DebuggerRuns, FinishStops, FinishSteppedOver,
         NextRunsCall, NextSteps, NextCallStops, NextSteppedOver, NextStepped,
         StepAgain, StepEnds

LEMMA EnvironmentStaysInFrame ==
  ASSUME PlainProgram, KeepsFrames, BreaksOnNoCall, Continuing,
         FrameInvariant, TargetRuns \/ SignalStop \/ Killed
  PROVE  StopsInFrame'
<1>1. /\ TypeOK /\ ImageInvariant /\ HitInvariant /\ NativeInvariant
      /\ Placed /\ at \in ContinuePoints
  BY DEF Continuing, LikeNative, Placed
<1>2. UNCHANGED debuggerVars
  BY DEF TargetRuns, ExecTrap, ExecOriginal, ExecExit, ExecFault, ExecStray,
         SignalStop, Killed
<1>3. at' = at
  BY <1>2 DEF debuggerVars
<1>4. Moving => LogicalCpu = cpu /\ at \in {"cont", "contOver"}
  BY <1>1, NoTrapPending DEF Moving, ImageInvariant, MovesWhenWaitedFor,
                             ContinuePoints
<1>5. CASE ExecTrap
  BY <1>5 DEF ExecTrap, StopFor, StopsInFrame
<1>6. CASE ExecOriginal
  <2>1. /\ Moving /\ cpu.rip \in DOMAIN Program /\ cpu' \in Successors(cpu)
        /\ Attached' => status = "stepping"
    BY <1>6 DEF ExecOriginal, Intact, AfterInstruction, Attached, Moving
  <2>2. CASE at = "cont"
    BY <1>1, <2>1, <2>2 DEF HitInvariant, RunsInContinue, StopsInFrame
  <2>3. CASE at = "contOver"
    <3>1. cpu.rip = over /\ IsBreakpoint(over)
      BY <1>1, <2>1, <2>3
         DEF HitInvariant, StartsAtBreakpoint, ImageInvariant, SteppingOver
    <3>2. ~Calls(cpu.rip)
      BY <1>1, <3>1 DEF NativeInvariant, IsBreakpoint, BreaksOnNoCall
    <3>3. FrameMatches(cpu) /\ cpu \in Cpu
      BY <1>1, <1>4, <2>1 DEF FrameInvariant, TypeOK
    <3>4. ~AtEnter(cpu'.rip)
      BY <2>1, <3>2, <3>3, SuccessorsMatch
    <3> QED BY <3>4 DEF StopsInFrame
  <2> QED BY <1>4, <2>1, <2>2, <2>3
<1>7. CASE ExecExit \/ Killed
  <2>1. status' = "zombie"
    BY <1>7 DEF ExecExit, Killed
  <2> QED BY <2>1 DEF StopsInFrame, Attached
<1>8. CASE ExecFault \/ SignalStop
  BY <1>8 DEF ExecFault, SignalStop, StopFor, StopsInFrame
<1> QED BY <1>1, <1>5, <1>6, <1>7, <1>8, NeverStrays DEF TargetRuns

LEMMA LogicalCpuType == Continuing => LogicalCpu \in Cpu
<1>1. Continuing => cpu \in Cpu
  BY DEF Continuing, LikeNative, Placed, TypeOK
<1> QED BY <1>1 DEF LogicalCpu, Cpu

LEMMA NextFrame ==
  ASSUME ContinueOnly, PlainProgram, KeepsFrames, BreaksOnNoCall, Continuing,
         FrameInvariant, [Next]_vars
  PROVE  FrameInvariant'
<1>1. FrameMatches(LogicalCpu)'
  <2>1. SeemsStill \/ SeemsToRun
    BY ContinuingGoesOn DEF GoesOn, Continuing, LikeNative
  <2>2. CASE SeemsStill
    BY <2>2 DEF SeemsStill, FrameInvariant, FrameMatches, Depth
  <2>3. CASE SeemsToRun
    <3>1. \A d \in Successors(LogicalCpu) : FrameMatches(d)
      BY <2>3, LogicalCpuType, SuccessorsMatch DEF SeemsToRun, FrameInvariant
    <3> QED BY <2>3, <3>1 DEF SeemsToRun, FrameMatches, Depth
  <2> QED BY <2>1, <2>2, <2>3
<1>2. CASE UNCHANGED vars
  BY <1>1, <1>2 DEF vars, FrameInvariant, StopsInFrame, Attached
<1>3. CASE Next
  BY <1>1, <1>2, <1>3, UserStaysInFrame, DebuggerStaysInFrame,
     EnvironmentStaysInFrame
     DEF Next, Exited, FrameInvariant
<1> QED BY <1>2, <1>3

LEMMA InitFrame == ASSUME KeepsFrames, Init PROVE FrameInvariant
<1>1. /\ LogicalCpu = cpu /\ cpu.rip = Entry /\ cpu.stack = << >>
      /\ cpu.rbp = 0 /\ ~Attached
  BY DEF Init, LogicalCpu, InitialCpu, Attached
<1> QED
  BY <1>1 DEF KeepsFrames, FrameInvariant, FrameMatches, StopsInFrame, Depth

THEOREM SpecFrames ==
  ASSUME ContinueOnly, PlainProgram, BreaksAreLong, KeepsFrames, BreaksOnNoCall
  PROVE  Spec => []FrameInvariant
<1>1. Continuing /\ FrameInvariant /\ [Next]_vars => FrameInvariant'
  BY NextFrame
<1>2. Init => FrameInvariant
  BY InitFrame
<1> QED
  BY <1>1, <1>2, SpecContinuing, PTL DEF Spec

(* At a breakpoint rbp is the frame of the function rip is in, which is    *)
(* where print and set look for its variables.                             *)
THEOREM FrameIsCurrentCorrect ==
  ASSUME ContinueOnly, PlainProgram, BreaksAreLong, KeepsFrames, BreaksOnNoCall
  PROVE  Spec => []FrameIsCurrent
<1>1. Continuing /\ FrameInvariant => FrameIsCurrent
  <2> SUFFICES ASSUME Continuing, FrameInvariant, AtHit
               PROVE  cpu.rbp = Depth(cpu)
    BY DEF FrameIsCurrent
  <2>1. LogicalCpu = cpu /\ ~AtEnter(cpu.rip)
    BY NoTrapPending
       DEF Continuing, LikeNative, Placed, TrapPoints, FrameInvariant,
           StopsInFrame, AtHit, AtPrompt
  <2> QED BY <2>1 DEF FrameInvariant, FrameMatches
<1> QED BY <1>1, SpecFrames, SpecContinuing, PTL
-----------------------------------------------------------------------------
(* The functions on the stack.                                             *)

Known(a) == Owner(a) # "unknown"

(* A function starts at its frame, and no other code is right behind it.   *)
FunctionsAreDelimited ==
  \A i \in DOMAIN Functions :
    /\ AtEnter(Functions[i].low)
    /\ Functions[i].high \in DOMAIN Program => AtEnter(Functions[i].high)

\* Every instruction that needs a next one has it.
StaysInProgram ==
  \A a \in DOMAIN Program :
    FallsThrough(a) => a + Program[a].len \in DOMAIN Program

(* A function is left by call and ret only, and one with debug information *)
(* calls none without.                                                     *)
FlowStaysInFunction ==
  \A a \in DOMAIN Program :
    /\ FallsThrough(a) => Owner(a + Program[a].len) = Owner(a)
    /\ Program[a].kind = "jump" =>
         \A t \in Program[a].to : Owner(t) = Owner(a)
    /\ Calls(a) /\ Known(a) => \A t \in Program[a].to : Known(t)

DebuggableProgram ==
  /\ PlainProgram /\ KeepsFrames /\ StaysInProgram
  /\ FunctionsAreDelimited /\ FlowStaysInFunction

\* From the first function with debug information on, all have it.
ChainIsKnown(c) ==
  /\ c.rip \in DOMAIN Program
  /\ \A k \in DOMAIN c.stack : c.stack[k] \in DOMAIN Program
  /\ \A k, l \in DOMAIN c.stack :
       k <= l /\ Known(c.stack[k]) => Known(c.stack[l])
  /\ \A k \in DOMAIN c.stack : Known(c.stack[k]) => Known(c.rip)

LEMMA SuccessorsKnown ==
  ASSUME DebuggableProgram, NEW c \in Cpu, ChainIsKnown(c),
         NEW d \in Successors(c)
  PROVE  ChainIsKnown(d)
<1>1. c.rip \in DOMAIN Program
  BY DEF ChainIsKnown
<1>2. /\ Program[c.rip].to \subseteq DOMAIN Program
      /\ FallsThrough(c.rip) => /\ FallThrough(c) \in DOMAIN Program
                                /\ Owner(FallThrough(c)) = Owner(c.rip)
      /\ Program[c.rip].kind = "jump" =>
           \A t \in Program[c.rip].to : Owner(t) = Owner(c.rip)
      /\ Calls(c.rip) /\ Known(c.rip) => \A t \in Program[c.rip].to : Known(t)
  BY <1>1 DEF DebuggableProgram, PlainProgram, FlowStaysOnInstructions,
              StaysInProgram, FlowStaysInFunction, FallThrough
<1>3. CASE /\ d.stack = c.stack
           /\ d.rip \in DOMAIN Program /\ Owner(d.rip) = Owner(c.rip)
  BY <1>3 DEF ChainIsKnown, Known
<1>4. CASE /\ FallsThrough(c.rip) /\ ~Calls(c.rip)
           /\ d.rip = FallThrough(c) /\ d.stack = c.stack
           /\ d.rbp = IF AtEnter(c.rip) THEN Depth(c) ELSE c.rbp
  BY <1>2, <1>3, <1>4
<1>5. CASE /\ Program[c.rip].kind = "jump"
           /\ d.rip \in Program[c.rip].to /\ d.stack = c.stack
           /\ d.rbp = c.rbp
  BY <1>2, <1>3, <1>5
<1>6. CASE /\ FallsThrough(c.rip) /\ Calls(c.rip)
           /\ d.rip \in Program[c.rip].to
           /\ d.stack = Append(c.stack, FallThrough(c)) /\ d.rbp = c.rbp
  <2>1. /\ Depth(c) \in Nat /\ DOMAIN c.stack = 1 .. Depth(c)
        /\ DOMAIN d.stack = 1 .. Depth(c) + 1
        /\ d.stack[Depth(c) + 1] = FallThrough(c)
        /\ \A k \in 1 .. Depth(c) : d.stack[k] = c.stack[k]
    BY <1>1, <1>6, StackAppend
  <2>2. Known(FallThrough(c)) = Known(c.rip)
    BY <1>2, <1>6 DEF Known
  <2>3. Known(c.rip) => Known(d.rip)
    BY <1>2, <1>6
  <2>4. ASSUME NEW k \in 1 .. Depth(c) + 1
        PROVE  /\ k = Depth(c) + 1 \/ k \in 1 .. Depth(c)
               /\ d.stack[k] \in DOMAIN Program
               /\ Known(d.stack[k]) => Known(c.rip)
    <3>1. k = Depth(c) + 1 \/ k \in 1 .. Depth(c)
      BY <2>1
    <3>2. CASE k = Depth(c) + 1
      BY <1>2, <1>6, <2>1, <2>2, <3>2
    <3>3. CASE k \in 1 .. Depth(c)
      BY <2>1, <3>3 DEF ChainIsKnown
    <3> QED BY <3>1, <3>2, <3>3
  <2>5. ASSUME NEW k \in 1 .. Depth(c) + 1, NEW l \in 1 .. Depth(c) + 1,
               k <= l, Known(d.stack[k])
        PROVE  Known(d.stack[l])
    <3>1. CASE l = Depth(c) + 1
      BY <2>1, <2>2, <2>4, <2>5, <3>1
    <3>2. CASE l \in 1 .. Depth(c)
      <4>1. k \in 1 .. Depth(c)
        BY <2>1, <2>5, <3>2
      <4> QED BY <2>1, <2>5, <3>2, <4>1 DEF ChainIsKnown
    <3> QED BY <2>4, <3>1, <3>2
  <2> QED BY <1>2, <1>6, <2>1, <2>3, <2>4, <2>5 DEF ChainIsKnown
<1>7. CASE /\ Program[c.rip].kind = "ret" /\ c.stack # << >>
           /\ d.rip = c.stack[Len(c.stack)] /\ d.stack = Pop(c.stack)
           /\ d.rbp = Len(c.stack) - 1
  <2>1. /\ Depth(c) \in Nat \ {0} /\ DOMAIN c.stack = 1 .. Depth(c)
        /\ DOMAIN d.stack = 1 .. Depth(c) - 1
        /\ \A k \in 1 .. Depth(c) - 1 : d.stack[k] = c.stack[k]
    BY <1>7, StackPop
  <2>2. Depth(c) \in DOMAIN c.stack /\ d.rip = c.stack[Depth(c)]
    BY <1>7, <2>1 DEF Depth
  <2>3. \A k \in 1 .. Depth(c) - 1 : k \in DOMAIN c.stack /\ k <= Depth(c)
    BY <2>1
  <2> QED BY <2>1, <2>2, <2>3 DEF ChainIsKnown
<1> QED BY <1>1, <1>4, <1>5, <1>6, <1>7, SuccessorCases

LEMMA InitChain == Init => ChainIsKnown(LogicalCpu)
<1> SUFFICES ASSUME Init PROVE ChainIsKnown(LogicalCpu)
  OBVIOUS
<1>1. /\ LogicalCpu = cpu /\ cpu.rip = Entry /\ cpu.stack = << >>
  BY DEF Init, LogicalCpu, InitialCpu
<1> QED BY <1>1, ProgramAssumption DEF ChainIsKnown

THEOREM SpecChain ==
  ASSUME ContinueOnly, DebuggableProgram, BreaksAreLong
  PROVE  Spec => []ChainIsKnown(LogicalCpu)
<1>1. Continuing /\ ChainIsKnown(LogicalCpu) /\ [Next]_vars
      => ChainIsKnown(LogicalCpu)'
  <2> SUFFICES ASSUME Continuing, ChainIsKnown(LogicalCpu), [Next]_vars
               PROVE  ChainIsKnown(LogicalCpu)'
    OBVIOUS
  <2>1. SeemsStill \/ SeemsToRun
    BY ContinuingGoesOn
       DEF GoesOn, DebuggableProgram, Continuing, LikeNative
  <2>2. CASE SeemsStill
    BY <2>2 DEF SeemsStill, ChainIsKnown
  <2>3. CASE SeemsToRun
    BY <2>3, LogicalCpuType, SuccessorsKnown DEF SeemsToRun, ChainIsKnown
  <2> QED BY <2>1, <2>2, <2>3
<1>2. PlainProgram
  BY DEF DebuggableProgram
<1> QED
  BY <1>1, <1>2, InitChain, SpecContinuing, PTL DEF Spec
-----------------------------------------------------------------------------
(* The names on the stack.                                                 *)

LEMMA FunctionsType ==
  \A i \in DOMAIN Functions : Functions[i].low \in Int /\ Functions[i].high \in Int
<1> DEFINE F == [name : STRING, low : Nat, high : Nat]
<1>1. \A i \in DOMAIN Functions : Functions[i] \in F
  <2> HIDE DEF F
  <2>1. Functions \in Seq(F)
    BY FunctionsAssumption DEF F
  <2> QED BY <2>1
<1> QED BY <1>1

(* Neither end of a function is where the two ways of asking for it        *)
(* differ: inside it, ...                                                  *)
LEMMA InsideOwner ==
  ASSUME FunctionsAreDelimited, NEW a \in DOMAIN Program, ~AtEnter(a)
  PROVE  FunctionOf(a) = Owner(a)
<1>1. a \in Nat
  BY ProgramAssumption, Zenon
<1>2. ASSUME NEW i \in DOMAIN Functions
      PROVE  (a <= Functions[i].high) <=> (a < Functions[i].high)
  <2>1. Functions[i].high # a
    BY DEF FunctionsAreDelimited
  <2>2. Functions[i].high \in Int
    BY FunctionsType
  <2> QED BY <1>1, <2>1, <2>2
<1>3. {i \in DOMAIN Functions :
         Functions[i].low <= a /\ a <= Functions[i].high}
      = {i \in DOMAIN Functions :
           Functions[i].low <= a /\ a < Functions[i].high}
  BY <1>2
<1> QED BY <1>3, Zenon DEF FunctionOf, Owner

\* ... and at a return address, looked at as the byte behind a call.
LEMMA ReturnOwner ==
  ASSUME FunctionsAreDelimited, NEW a \in DOMAIN Program, ~AtEnter(a)
  PROVE  FunctionOf(a) = Owner(a - 1)
<1>1. a \in Nat
  BY ProgramAssumption, Zenon
<1>2. ASSUME NEW i \in DOMAIN Functions
      PROVE  /\ (Functions[i].low <= a) <=> (Functions[i].low <= a - 1)
             /\ (a <= Functions[i].high) <=> (a - 1 < Functions[i].high)
  <2>1. Functions[i].low # a
    BY DEF FunctionsAreDelimited
  <2>2. Functions[i].high \in Int /\ Functions[i].low \in Int
    BY FunctionsType
  <2> QED BY <1>1, <2>1, <2>2
<1>3. {i \in DOMAIN Functions :
         Functions[i].low <= a /\ a <= Functions[i].high}
      = {i \in DOMAIN Functions :
           Functions[i].low <= a - 1 /\ a - 1 < Functions[i].high}
  BY <1>2
<1> QED BY <1>3, Zenon DEF FunctionOf, Owner

(* Off the entries, the names the debugger reads are the call chain, and   *)
(* below main none of them is missing.                                     *)
LEMMA NamesAreChain ==
  ASSUME FunctionsAreDelimited, NEW c \in Cpu, FrameMatches(c),
         ChainIsKnown(c), ~AtEnter(c.rip)
  PROVE  Names(c) = Chain(c)
<1>1. c.rbp = Depth(c) /\ FunctionOf(c.rip) = Owner(c.rip)
  BY InsideOwner DEF FrameMatches, ChainIsKnown
<1>2. Depth(c) \in Nat /\ DOMAIN c.stack = 1 .. Depth(c)
  BY DEF Cpu, Depth
<1>3. ASSUME NEW i \in 1 .. Depth(c)
      PROVE  FunctionOf(c.stack[Depth(c) + 1 - i])
               = Owner(c.stack[Depth(c) + 1 - i] - 1)
  <2>1. Depth(c) + 1 - i \in DOMAIN c.stack
    BY <1>2
  <2> QED BY <2>1, ReturnOwner DEF FrameMatches, ChainIsKnown
<1>4. [i \in 1 .. Depth(c) |-> FunctionOf(c.stack[Depth(c) + 1 - i])]
      = [i \in 1 .. Depth(c) |-> Owner(c.stack[Depth(c) + 1 - i] - 1)]
  BY <1>3
<1> QED BY <1>1, <1>4, Zenon DEF Names, Chain

LEMMA ChainIsNamed ==
  ASSUME FunctionsAreDelimited, NEW c \in Cpu, FrameMatches(c),
         ChainIsKnown(c), InMain(c)
  PROVE  \E i \in DOMAIN Chain(c) :
           /\ Chain(c)[i] = "main"
           /\ \A j \in 1 .. i : j \in DOMAIN Chain(c) /\ Chain(c)[j] # "unknown"
<1> DEFINE n == Depth(c)
           rest == [i \in 1 .. n |-> Owner(c.stack[n + 1 - i] - 1)]
<1>1. n \in Nat /\ DOMAIN c.stack = 1 .. n
  BY DEF Cpu, Depth
<1>2. /\ DOMAIN Chain(c) = 1 .. n + 1 /\ Chain(c)[1] = Owner(c.rip)
      /\ \A i \in 2 .. n + 1 : Chain(c)[i] = Owner(c.stack[n + 2 - i] - 1)
  <2>1. Chain(c) = <<Owner(c.rip)>> \o rest
    BY DEF Chain
  <2>2. DOMAIN rest = 1 .. n /\ Len(rest) = n /\ Len(<<Owner(c.rip)>>) = 1
    BY <1>1
  <2>3. \A i \in 1 .. n : rest[i] = Owner(c.stack[n + 1 - i] - 1)
    OBVIOUS
  <2> HIDE DEF n, rest
  <2>4. /\ DOMAIN Chain(c) = 1 .. n + 1 /\ Chain(c)[1] = Owner(c.rip)
        /\ \A i \in 2 .. n + 1 : Chain(c)[i] = rest[i - 1]
    BY <1>1, <2>1, <2>2
  <2>5. ASSUME NEW i \in 2 .. n + 1
        PROVE  Chain(c)[i] = Owner(c.stack[n + 2 - i] - 1)
    <3>1. i - 1 \in 1 .. n /\ n + 1 - (i - 1) = n + 2 - i
      BY <1>1
    <3>2. Chain(c)[i] = rest[i - 1]
      BY <2>4
    <3>3. rest[i - 1] = Owner(c.stack[n + 1 - (i - 1)] - 1)
      BY <2>3, <3>1
    <3> QED BY <3>1, <3>2, <3>3
  <2> QED BY <2>4, <2>5
<1>3. ASSUME NEW i \in 2 .. n + 1
      PROVE  /\ n + 2 - i \in DOMAIN c.stack
             /\ Chain(c)[i] = Owner(c.stack[n + 2 - i])
  <2>1. n + 2 - i \in DOMAIN c.stack
    BY <1>1
  <2>2. c.stack[n + 2 - i] \in DOMAIN Program /\ ~AtEnter(c.stack[n + 2 - i])
    BY <2>1 DEF ChainIsKnown, FrameMatches
  <2>3. Owner(c.stack[n + 2 - i] - 1) = Owner(c.stack[n + 2 - i])
    BY <2>2, InsideOwner, ReturnOwner
  <2> QED BY <1>2, <2>1, <2>3
<1>4. PICK i \in 1 .. n + 1 : Chain(c)[i] = "main"
  BY <1>2 DEF InMain
<1> SUFFICES ASSUME NEW j \in 1 .. i
             PROVE  j \in 1 .. n + 1 /\ Chain(c)[j] # "unknown"
  BY <1>2, <1>4
<1> HIDE DEF n, rest
<1>5. j \in 1 .. n + 1 /\ (j = i \/ j < i)
  BY <1>1, <1>4
<1>6. CASE j = i
  BY <1>4, <1>5, <1>6
<1>7. CASE j < i
  <2>1. i \in 2 .. n + 1
    BY <1>1, <1>4, <1>5, <1>7
  <2>2. Known(c.stack[n + 2 - i]) /\ n + 2 - i \in DOMAIN c.stack
    BY <1>3, <1>4, <2>1 DEF Known
  <2>3. CASE j = 1
    BY <1>2, <1>5, <2>2, <2>3 DEF ChainIsKnown, Known
  <2>4. CASE j # 1
    <3>1. j \in 2 .. n + 1 /\ n + 2 - i <= n + 2 - j
      BY <1>1, <1>4, <1>5, <1>7, <2>4
    <3>2. n + 2 - j \in DOMAIN c.stack /\ Chain(c)[j] = Owner(c.stack[n + 2 - j])
      BY <1>3, <3>1
    <3>3. Known(c.stack[n + 2 - j])
      BY <2>2, <3>1, <3>2 DEF ChainIsKnown
    <3> QED BY <1>5, <3>2, <3>3 DEF Known
  <2> QED BY <2>3, <2>4
<1> QED BY <1>5, <1>6, <1>7

(* At a breakpoint bt prints the functions that are active, from the       *)
(* innermost to main, and none is missing whose name it would dereference. *)
THEOREM BacktraceCorrect ==
  ASSUME ContinueOnly, DebuggableProgram, BreaksAreLong, BreaksOnNoCall
  PROVE  Spec => []BacktraceIsCallChain
<1>1. PlainProgram /\ KeepsFrames /\ FunctionsAreDelimited
  BY DEF DebuggableProgram
<1>2. Continuing /\ FrameInvariant /\ ChainIsKnown(LogicalCpu)
        => BacktraceIsCallChain
  <2> SUFFICES ASSUME Continuing, FrameInvariant, ChainIsKnown(LogicalCpu),
                      AtHit, InMain(cpu)
               PROVE  ~Crashes(cpu) /\ Backtrace(cpu) = CallChain(cpu)
    BY DEF BacktraceIsCallChain
  <2>1. LogicalCpu = cpu /\ ~AtEnter(cpu.rip)
    BY NoTrapPending
       DEF Continuing, LikeNative, Placed, TrapPoints, FrameInvariant,
           StopsInFrame, AtHit, AtPrompt
  <2>2. cpu \in Cpu /\ FrameMatches(cpu) /\ ChainIsKnown(cpu)
    BY <2>1, LogicalCpuType DEF FrameInvariant
  <2>3. Names(cpu) = Chain(cpu)
    BY <1>1, <2>1, <2>2, NamesAreChain
  <2>4. ~Crashes(cpu)
    BY <1>1, <2>2, <2>3, ChainIsNamed DEF Crashes
  <2>5. Backtrace(cpu) = CallChain(cpu)
    BY <2>3, Zenon DEF Backtrace, CallChain
  <2> QED BY <2>4, <2>5
<1> QED BY <1>1, <1>2, SpecFrames, SpecChain, SpecContinuing, PTL
-----------------------------------------------------------------------------
(* Where finish and next come back to.                                     *)

\* An instruction that single stepping leaves on its frame.
Lands(a) ==
  a \in DOMAIN Program /\ Program[a].kind \notin {"call", "icall", "ret"}

(* Compilers put the store of a result, or the end of the statement,       *)
(* behind a call.                                                          *)
CallsApart ==
  \A a \in DOMAIN Program : Calls(a) => Lands(a + Program[a].len)

(* The call graph has no cycle: code can be ranked so that what is called  *)
(* is below the code behind the call.                                      *)
RanksCalls(rank) ==
  \A a \in DOMAIN Program :
    /\ FallsThrough(a) => rank[a + Program[a].len] <= rank[a]
    /\ Program[a].kind = "jump" =>
         \A t \in Program[a].to : rank[t] <= rank[a]
    /\ Calls(a) =>
         \A t \in Program[a].to : rank[t] < rank[a + Program[a].len]

NotRecursive == \E rank \in [DOMAIN Program -> Int] : RanksCalls(rank)

Rank == CHOOSE rank \in [DOMAIN Program -> Int] : RanksCalls(rank)

OrderlyProgram ==
  PlainProgram /\ StaysInProgram /\ CallsApart /\ NotRecursive

DirectCalls == \A a \in DOMAIN Program : Program[a].kind # "icall"

\* The code on the stack is ranked from rip outwards.
Stacked(c) ==
  /\ c.rip \in DOMAIN Program
  /\ \A k \in DOMAIN c.stack :
       Lands(c.stack[k]) /\ Rank[c.rip] < Rank[c.stack[k]]
  /\ \A k, l \in DOMAIN c.stack : k < l => Rank[c.stack[l]] < Rank[c.stack[k]]

(* The target comes to a with d frames below: it will return there, is     *)
(* there, or is at the call that returns there.                            *)
WayBack(c, d, a) ==
  \/ d < Depth(c) /\ c.stack[d + 1] = a
  \/ Depth(c) = d /\ c.rip = a
  \/ Depth(c) = d /\ Calls(c.rip) /\ FallThrough(c) = a

\* The depths the command may come back to.
Home ==
  IF at \in {"finish", "finishOver"} THEN {job.frame - 1} \cap Nat
  ELSE 0 .. job.depth

(* No step of finish or next goes to a deeper frame than its home, and     *)
(* what they run freely is on the way back there.                          *)
ComesHome ==
  /\ Planted /\ tmp.addr \in Addr =>
       Lands(tmp.addr) /\ \E d \in Home : WayBack(LogicalCpu, d, tmp.addr)
  /\ at \in {"finishOver", "next", "nextOver", "nextStep"} =>
       Depth(LogicalCpu) \in Home
  /\ at \in {"finishOver", "nextOver"} /\ Moving =>
       status = "stepping" /\ Lands(cpu.rip)
  /\ at = "nextStep" /\ Moving =>
       status = "stepping" /\ (Calls(cpu.rip) => Patched(cpu.rip))

\* next takes an indirect call for any other instruction.
HomeInvariant == DirectCalls \/ at \in {"finish", "finishOver"} => ComesHome

LEMMA RankType ==
  ASSUME NotRecursive
  PROVE  /\ RanksCalls(Rank)
         /\ \A a \in DOMAIN Program : Rank[a] \in Int
<1>1. \E rank \in [DOMAIN Program -> Int] : RanksCalls(rank)
  BY DEF NotRecursive
<1>2. Rank \in [DOMAIN Program -> Int] /\ RanksCalls(Rank)
  BY <1>1, Zenon DEF Rank
<1> QED BY <1>2

LEMMA SuccessorsStacked ==
  ASSUME OrderlyProgram, NEW c \in Cpu, Stacked(c), NEW d \in Successors(c)
  PROVE  Stacked(d)
<1>1. c.rip \in DOMAIN Program
  BY DEF Stacked
<1>2. /\ Program[c.rip].to \subseteq DOMAIN Program
      /\ FallsThrough(c.rip) => /\ FallThrough(c) \in DOMAIN Program
                                /\ Rank[FallThrough(c)] <= Rank[c.rip]
      /\ Program[c.rip].kind = "jump" =>
           \A t \in Program[c.rip].to : Rank[t] <= Rank[c.rip]
      /\ Calls(c.rip) => /\ Lands(FallThrough(c))
                         /\ \A t \in Program[c.rip].to :
                              Rank[t] < Rank[FallThrough(c)]
  BY <1>1, RankType
     DEF OrderlyProgram, PlainProgram, FlowStaysOnInstructions, StaysInProgram,
         CallsApart, RanksCalls, FallThrough
<1>3. /\ \A a \in DOMAIN Program : Rank[a] \in Int
      /\ \A k \in DOMAIN c.stack : c.stack[k] \in DOMAIN Program
  BY RankType DEF OrderlyProgram, Stacked, Lands
<1>4. CASE /\ d.stack = c.stack
           /\ d.rip \in DOMAIN Program /\ Rank[d.rip] <= Rank[c.rip]
  <2>1. ASSUME NEW k \in DOMAIN c.stack PROVE Rank[d.rip] < Rank[c.stack[k]]
    <3>1. Rank[c.rip] < Rank[c.stack[k]]
      BY DEF Stacked
    <3>2. Rank[c.stack[k]] \in Int /\ Rank[c.rip] \in Int /\ Rank[d.rip] \in Int
      BY <1>1, <1>3, <1>4
    <3> QED BY <1>4, <3>1, <3>2
  <2> QED BY <1>4, <2>1 DEF Stacked
<1>5. CASE /\ FallsThrough(c.rip) /\ ~Calls(c.rip)
           /\ d.rip = FallThrough(c) /\ d.stack = c.stack
           /\ d.rbp = IF AtEnter(c.rip) THEN Depth(c) ELSE c.rbp
  BY <1>2, <1>4, <1>5
<1>6. CASE /\ Program[c.rip].kind = "jump"
           /\ d.rip \in Program[c.rip].to /\ d.stack = c.stack
           /\ d.rbp = c.rbp
  BY <1>2, <1>4, <1>6
<1>7. CASE /\ FallsThrough(c.rip) /\ Calls(c.rip)
           /\ d.rip \in Program[c.rip].to
           /\ d.stack = Append(c.stack, FallThrough(c)) /\ d.rbp = c.rbp
  <2> DEFINE f == FallThrough(c)
             n == Depth(c)
  <2>1. /\ n \in Nat /\ DOMAIN c.stack = 1 .. n
        /\ DOMAIN d.stack = 1 .. n + 1
        /\ d.stack[n + 1] = f
        /\ \A k \in 1 .. n : d.stack[k] = c.stack[k]
    BY <1>1, <1>7, StackAppend
  <2>2. /\ Lands(f) /\ f \in DOMAIN Program /\ Rank[f] <= Rank[c.rip]
        /\ d.rip \in DOMAIN Program /\ Rank[d.rip] < Rank[f]
    BY <1>2, <1>7
  <2>3. Rank[f] \in Int /\ Rank[c.rip] \in Int /\ Rank[d.rip] \in Int
    BY <1>1, <1>3, <2>2
  <2> HIDE DEF f, n
  <2>4. ASSUME NEW k \in 1 .. n
        PROVE  Rank[f] < Rank[c.stack[k]] /\ Rank[d.rip] < Rank[c.stack[k]]
    <3>1. Rank[c.rip] < Rank[c.stack[k]] /\ c.stack[k] \in DOMAIN Program
      BY <2>1 DEF Stacked, Lands
    <3>2. Rank[c.stack[k]] \in Int
      BY <1>3, <3>1
    <3> QED BY <2>2, <2>3, <3>1, <3>2
  <2>5. ASSUME NEW k \in 1 .. n + 1
        PROVE  Lands(d.stack[k]) /\ Rank[d.rip] < Rank[d.stack[k]]
    <3>1. k = n + 1 \/ k \in 1 .. n
      BY <2>1
    <3>2. CASE k = n + 1
      BY <2>1, <2>2, <3>2
    <3>3. CASE k \in 1 .. n
      BY <2>1, <2>4, <3>3 DEF Stacked
    <3> QED BY <3>1, <3>2, <3>3
  <2>6. ASSUME NEW k \in 1 .. n + 1, NEW l \in 1 .. n + 1, k < l
        PROVE  Rank[d.stack[l]] < Rank[d.stack[k]]
    <3>1. k \in 1 .. n /\ (l = n + 1 \/ l \in 1 .. n)
      BY <2>1, <2>6
    <3>2. CASE l = n + 1
      BY <2>1, <2>4, <3>1, <3>2
    <3>3. CASE l \in 1 .. n
      BY <2>1, <2>6, <3>1, <3>3 DEF Stacked
    <3> QED BY <3>1, <3>2, <3>3
  <2> QED BY <2>1, <2>2, <2>5, <2>6 DEF Stacked
<1>8. CASE /\ Program[c.rip].kind = "ret" /\ c.stack # << >>
           /\ d.rip = c.stack[Len(c.stack)] /\ d.stack = Pop(c.stack)
           /\ d.rbp = Len(c.stack) - 1
  <2>1. /\ Depth(c) \in Nat \ {0} /\ DOMAIN c.stack = 1 .. Depth(c)
        /\ DOMAIN d.stack = 1 .. Depth(c) - 1
        /\ \A k \in 1 .. Depth(c) - 1 : d.stack[k] = c.stack[k]
    BY <1>8, StackPop
  <2>2. Depth(c) \in DOMAIN c.stack /\ d.rip = c.stack[Depth(c)]
    BY <1>8, <2>1 DEF Depth
  <2>3. \A k \in 1 .. Depth(c) - 1 : k \in DOMAIN c.stack /\ k < Depth(c)
    BY <2>1
  <2> QED BY <1>3, <2>1, <2>2, <2>3 DEF Stacked
<1> QED BY <1>1, <1>5, <1>6, <1>7, <1>8, SuccessorCases

LEMMA InitStacked == ASSUME Init PROVE Stacked(LogicalCpu)
<1>1. LogicalCpu = cpu /\ cpu.rip = Entry /\ cpu.stack = << >>
  BY DEF Init, LogicalCpu, InitialCpu
<1> QED BY <1>1, ProgramAssumption DEF Stacked

LEMMA LikeNativeType == LikeNative => LogicalCpu \in Cpu /\ cpu \in Cpu
<1>1. LikeNative => cpu \in Cpu
  BY DEF LikeNative, Placed, TypeOK
<1> QED BY <1>1 DEF LogicalCpu, Cpu

THEOREM SpecStacked ==
  ASSUME OrderlyProgram
  PROVE  Spec /\ SignalsMiss /\ StepsUndisturbed => []Stacked(LogicalCpu)
<1>1. /\ LikeNative /\ Stacked(LogicalCpu)
      /\ [Next]_vars /\ [StepUndisturbed]_vars
      => Stacked(LogicalCpu)'
  <2> SUFFICES ASSUME LikeNative, Stacked(LogicalCpu), [Next]_vars,
                      [StepUndisturbed]_vars
               PROVE  Stacked(LogicalCpu)'
    OBVIOUS
  <2>1. SeemsStill \/ SeemsToRun
    BY NextGoesOn DEF GoesOn, LikeNative, OrderlyProgram
  <2>2. CASE SeemsStill
    BY <2>2 DEF SeemsStill, Stacked
  <2>3. CASE SeemsToRun
    BY <2>3, LikeNativeType, SuccessorsStacked DEF SeemsToRun, Stacked
  <2> QED BY <2>1, <2>2, <2>3
<1>2. PlainProgram
  BY DEF OrderlyProgram
<1> QED
  BY <1>1, <1>2, InitStacked, SpecLikeNative, PTL
     DEF Spec, StepsUndisturbed

\* What an instruction does to the depth.
LEMMA SuccessorsDepth ==
  ASSUME NEW c \in Cpu, c.rip \in DOMAIN Program, NEW d \in Successors(c)
  PROVE  /\ Depth(c) \in Nat /\ Depth(d) \in Nat
         /\ ~Calls(c.rip) => Depth(d) <= Depth(c)
         /\ Lands(c.rip) => Depth(d) = Depth(c)
<1>1. Depth(c) \in Nat
  BY DEF Cpu, Depth
<1>2. CASE d.stack = c.stack
  BY <1>1, <1>2 DEF Depth
<1>3. CASE Calls(c.rip) /\ d.stack = Append(c.stack, FallThrough(c))
  <2>1. Depth(d) = Depth(c) + 1
    BY <1>3, StackAppend DEF Depth
  <2> QED BY <1>1, <1>3, <2>1 DEF Lands, Calls
<1>4. CASE /\ Program[c.rip].kind = "ret" /\ c.stack # << >>
           /\ d.stack = Pop(c.stack)
  <2>1. Depth(d) = Depth(c) - 1 /\ Depth(c) \in Nat \ {0}
    BY <1>4, StackPop DEF Depth
  <2> QED BY <1>4, <2>1 DEF Lands
<1> QED BY <1>2, <1>3, <1>4, SuccessorCases

\* The way back goes on until the target is there.
LEMMA SuccessorsWayBack ==
  ASSUME NEW c \in Cpu, c.rip \in DOMAIN Program, NEW n \in Nat, NEW a,
         WayBack(c, n, a), c.rip # a, NEW d \in Successors(c)
  PROVE  WayBack(d, n, a)
<1>1. Depth(c) \in Nat /\ DOMAIN c.stack = 1 .. Depth(c)
  BY DEF Cpu, Depth
<1>2. \/ n < Depth(c) /\ c.stack[n + 1] = a
      \/ Depth(c) = n /\ Calls(c.rip) /\ FallThrough(c) = a
  BY DEF WayBack
<1>3. CASE d.stack = c.stack /\ ~Calls(c.rip)
  BY <1>2, <1>3 DEF WayBack, Depth
<1>4. CASE Calls(c.rip) /\ d.stack = Append(c.stack, FallThrough(c))
  <2>1. /\ Depth(d) = Depth(c) + 1
        /\ d.stack[Depth(c) + 1] = FallThrough(c)
        /\ \A k \in 1 .. Depth(c) : d.stack[k] = c.stack[k]
    BY <1>4, StackAppend DEF Depth
  <2>2. CASE n < Depth(c) /\ c.stack[n + 1] = a
    <3>1. n + 1 \in 1 .. Depth(c) /\ n < Depth(d)
      BY <1>1, <2>1, <2>2
    <3> QED BY <2>1, <2>2, <3>1 DEF WayBack
  <2>3. CASE Depth(c) = n /\ FallThrough(c) = a
    <3>1. n < Depth(d)
      BY <2>1, <2>3
    <3> QED BY <2>1, <2>3, <3>1 DEF WayBack
  <2> QED BY <1>2, <2>2, <2>3
<1>5. CASE /\ Program[c.rip].kind = "ret" /\ c.stack # << >>
           /\ d.rip = c.stack[Len(c.stack)] /\ d.stack = Pop(c.stack)
  <2>1. /\ Depth(d) = Depth(c) - 1 /\ d.rip = c.stack[Depth(c)]
        /\ \A k \in 1 .. Depth(c) - 1 : d.stack[k] = c.stack[k]
    BY <1>5, StackPop DEF Depth
  <2>2. n < Depth(c) /\ c.stack[n + 1] = a
    BY <1>2, <1>5 DEF Calls
  <2>3. CASE n + 1 = Depth(c)
    <3>1. Depth(d) = n
      BY <1>1, <2>1, <2>3
    <3> QED BY <2>1, <2>2, <2>3, <3>1 DEF WayBack
  <2>4. CASE n + 1 < Depth(c)
    <3>1. n + 1 \in 1 .. Depth(c) - 1 /\ n < Depth(d)
      BY <1>1, <2>1, <2>4
    <3> QED BY <2>1, <2>2, <3>1 DEF WayBack
  <2> QED BY <1>1, <2>2, <2>3, <2>4
<1> QED BY <1>3, <1>4, <1>5, SuccessorCases DEF Calls

\* And it is there at the right depth: deeper down rip would be ranked lower.
LEMMA ArrivesHome ==
  ASSUME NotRecursive, NEW c \in Cpu, Stacked(c), NEW n \in Nat,
         WayBack(c, n, c.rip)
  PROVE  Depth(c) = n
<1> SUFFICES ASSUME n < Depth(c), c.stack[n + 1] = c.rip PROVE FALSE
  BY DEF WayBack
<1>1. n + 1 \in DOMAIN c.stack
  BY DEF Cpu, Depth
<1>2. Rank[c.rip] < Rank[c.rip] /\ Rank[c.rip] \in Int
  BY <1>1, RankType DEF Stacked
<1> QED BY <1>2

LEMMA ElsewhereHome ==
  at' \notin {"finish", "finishOver", "next", "nextCall", "nextOver", "nextStep"}
    => HomeInvariant'
BY DEF HomeInvariant, ComesHome, Planted

LEMMA UserComesHome ==
  ASSUME LikeNative, Stacked(LogicalCpu), UserTypes
  PROVE  HomeInvariant'
<1>1. NativeInvariant /\ cpu \in Cpu
  BY LikeNativeType DEF LikeNative, Placed
<1>2. CASE Finish
  <2>1. /\ at' = "finish" /\ cpu' = cpu /\ why' = "none"
        /\ job' = Issued(NoLine, 0)
        /\ tmp'.addr = ReturnAddress(cpu) \/ tmp'.addr = NoAddr
    BY <1>2 DEF Finish, RunToTmp, Resume
  <2>2. LogicalCpu = cpu /\ LogicalCpu' = cpu
    BY <1>1, <1>2, <2>1, NoTrapPending
       DEF Finish, Ready, TrapPoints, LogicalCpu
  <2>3. ASSUME tmp'.addr \in Addr
        PROVE  /\ Lands(tmp'.addr)
               /\ cpu.rbp - 1 \in Home' /\ WayBack(cpu, cpu.rbp - 1, tmp'.addr)
    <3>1. NoAddr \notin Addr
      BY ProgramAssumption DEF NoAddr
    <3>2. cpu.rbp \in 1 .. Len(cpu.stack) /\ tmp'.addr = cpu.stack[cpu.rbp]
      BY <2>1, <2>3, <3>1 DEF ReturnAddress
    <3>3. cpu.rbp \in DOMAIN cpu.stack /\ (cpu.rbp - 1) + 1 = cpu.rbp
          /\ cpu.rbp - 1 < Depth(cpu)
      BY <1>1, <3>2 DEF Cpu, Depth
    <3>4. Lands(tmp'.addr)
      BY <2>2, <3>2, <3>3 DEF Stacked
    <3>5. cpu.rbp - 1 \in Home'
      BY <2>1, <3>2 DEF Home, Issued
    <3> QED BY <3>2, <3>3, <3>4, <3>5 DEF WayBack
  <2>4. ComesHome'
    BY <2>1, <2>2, <2>3 DEF ComesHome, WayBack, Depth, Lands
  <2> QED BY <2>4 DEF HomeInvariant
<1>3. CASE NextCommand
  <2>1. /\ at' = "next" /\ cpu' = cpu /\ why' = why /\ job'.depth = Depth(cpu)
    BY <1>3 DEF NextCommand, Issued, targetVars
  <2>2. LogicalCpu' = cpu
    BY <1>1, <1>3, <2>1, NoTrapPending
       DEF NextCommand, Ready, TrapPoints, LogicalCpu
  <2>3. Depth(LogicalCpu)' = Depth(cpu) /\ Depth(cpu) \in Nat
    BY <1>1, <2>2 DEF Depth, Cpu
  <2>4. Home' = 0 .. Depth(cpu)
    BY <2>1 DEF Home
  <2>5. ComesHome'
    BY <2>1, <2>3, <2>4 DEF ComesHome, Planted
  <2> QED BY <2>5 DEF HomeInvariant
<1>4. CASE /\ UserTypes
           /\ ~Finish /\ ~NextCommand
  <2>1. at' \in {"prompt", "cont", "step", "exited"}
    BY <1>4
       DEF UserTypes, Start, StartFailed, ForkFailed, Break, Delete, Quit,
           Continue, Step, Ready
  <2> QED BY <2>1, ElsewhereHome
<1> QED BY <1>2, <1>3, <1>4

LEMMA StopComesHome ==
  ASSUME LikeNative, NotRecursive, Stacked(LogicalCpu), HomeInvariant,
         FinishStops \/ NextCallStops
  PROVE  HomeInvariant'
<1>1. /\ Planted /\ Attached /\ job' = job
      /\ at' = IF at = "finish" THEN "finishOver" ELSE "nextOver"
      /\ status' = "stepping"
  BY DEF FinishStops, NextCallStops, StepOverTmp, Resume, Resumed, Planted
<1>2. why = "trap" /\ cpu.rip - 1 = tmp.addr /\ tmp.addr \in Addr
  BY <1>1 DEF LikeNative, Placed, TmpInvariant, StopsAtTmp
<1>3. LogicalCpu' = LogicalCpu /\ LogicalCpu' = cpu'
  BY <1>2, StepBack DEF LikeNative
<1>4. LogicalCpu.rip = tmp.addr /\ LogicalCpu \in Cpu
  BY <1>2, LikeNativeType DEF LogicalCpu, Cpu
<1>5. Home' = Home
  BY <1>1 DEF Home, Planted
<1>6. ASSUME ComesHome PROVE ComesHome'
  <2>1. PICK d \in Home : WayBack(LogicalCpu, d, tmp.addr)
    BY <1>1, <1>2, <1>6 DEF ComesHome
  <2>2. d \in Nat
    BY DEF Home
  <2>3. Depth(LogicalCpu) = d
    BY <1>4, <2>1, <2>2, ArrivesHome
  <2>4. Lands(cpu'.rip)
    BY <1>1, <1>2, <1>3, <1>4, <1>6 DEF ComesHome
  <2>5. Depth(LogicalCpu)' \in Home'
    BY <1>3, <1>5, <2>3 DEF Depth
  <2> QED BY <1>1, <2>4, <2>5 DEF ComesHome, Planted, Lands
<1>7. DirectCalls \/ at' \in {"finish", "finishOver"} =>
        DirectCalls \/ at \in {"finish", "finishOver"}
  BY <1>1
<1> QED BY <1>6, <1>7 DEF HomeInvariant

LEMMA NextCallComesHome ==
  ASSUME LikeNative, OrderlyProgram, Stacked(LogicalCpu), HomeInvariant,
         NextRunsCall
  PROVE  HomeInvariant'
<1> SUFFICES ASSUME DirectCalls PROVE ComesHome'
  BY DEF HomeInvariant, NextRunsCall
<1>1. /\ at = "next" /\ at' = "nextCall" /\ job' = job /\ cpu' = cpu
      /\ why' = "none" /\ tmp'.addr = cpu.rip + CallLength
  BY DEF NextRunsCall, RunToTmp, Resume
<1>2. LogicalCpu = cpu /\ LogicalCpu' = cpu
  BY <1>1, NoTrapPending DEF LikeNative, Placed, TrapPoints, LogicalCpu
<1>3. IsCall(cpu.rip)
  BY <1>2 DEF NextRunsCall, MayBeCall, Stacked
<1>4. Calls(cpu.rip) /\ FallThrough(cpu) = tmp'.addr
  BY <1>1, <1>3, TextAssumption DEF IsCall, Calls, FallThrough
<1>5. Lands(tmp'.addr)
  BY <1>3, <1>4 DEF IsCall, OrderlyProgram, CallsApart, FallThrough
<1>6. Depth(cpu) \in Home'
  BY <1>1, <1>2 DEF HomeInvariant, ComesHome, Home
<1>7. WayBack(cpu, Depth(cpu), tmp'.addr)
  BY <1>4 DEF WayBack
<1> QED BY <1>1, <1>2, <1>5, <1>6, <1>7 DEF ComesHome, WayBack, Depth, Lands

LEMMA NextStepComesHome ==
  ASSUME LikeNative, Stacked(LogicalCpu), HomeInvariant,
         NextSteps \/ NextSteppedOver \/ NextStepped
  PROVE  HomeInvariant'
<1>1. /\ at \in {"next", "nextOver", "nextStep"} /\ cpu' = cpu
      /\ why' \in {why, "none"} /\ at' \in {"prompt", "next", "nextStep"}
  BY DEF NextSteps, NextSteppedOver, NextStepped, NextDecides, DropTmp, Resume,
         targetVars
<1>2. LogicalCpu = cpu /\ LogicalCpu' = cpu
  BY <1>1, NoTrapPending DEF LikeNative, Placed, TrapPoints, LogicalCpu
<1>3. CASE at' = "prompt"
  BY <1>3, ElsewhereHome
<1>4. CASE at' # "prompt"
  <2> SUFFICES ASSUME DirectCalls PROVE ComesHome'
    BY <1>1 DEF HomeInvariant
  <2>1. job' = job
    BY <1>4 DEF NextSteps, NextSteppedOver, NextStepped, NextDecides
  <2>2. Depth(LogicalCpu)' \in Home'
    BY <1>1, <1>2, <2>1 DEF HomeInvariant, ComesHome, Home, Depth
  <2>3. ASSUME at' = "nextStep", Moving'
        PROVE  status' = "stepping" /\ (Calls(cpu.rip) => Patched(cpu.rip))'
    <3>1. /\ at = "next" /\ status' = Resumed("stepping") /\ text' = text
          /\ ~IsCall(cpu.rip)
      BY <2>3
         DEF NextSteps, NextSteppedOver, NextStepped, NextDecides, Resume
    <3>2. ~Moving
      BY <3>1 DEF LikeNative, Placed, ImageInvariant, MovesWhenWaitedFor
    <3>3. Attached /\ status' = "stepping"
      BY <2>3, <3>1, <3>2 DEF Resumed, Moving
    <3>4. ASSUME Calls(cpu.rip) PROVE Patched(cpu.rip)
      <4>1. cpu.rip \in DOMAIN Program /\ cpu.rip \in Addr
        BY <1>2, ProgramAssumption DEF Stacked
      <4>2. text[cpu.rip] # "op"
        BY <3>1, <3>3, <3>4, <4>1 DEF IsCall, Calls, DirectCalls, B!Peek
      <4> QED
        BY <3>3, <4>1, <4>2
           DEF LikeNative, Placed, ImageInvariant, TextAsPatched, Alive, Patched
    <3>5. (Calls(cpu.rip) => Patched(cpu.rip))'
      BY <1>1, <3>1, <3>4 DEF Patched, Calls
    <3> QED BY <3>3, <3>5
  <2> QED BY <1>1, <2>2, <2>3 DEF ComesHome, Planted
<1> QED BY <1>3, <1>4

LEMMA DebuggerComesHome ==
  ASSUME LikeNative, OrderlyProgram, Stacked(LogicalCpu), HomeInvariant,
         DebuggerRuns
  PROVE  HomeInvariant'
<1>1. CASE FinishStops \/ NextCallStops
  BY <1>1, StopComesHome DEF OrderlyProgram
<1>2. CASE NextRunsCall
  BY <1>2, NextCallComesHome
<1>3. CASE NextSteps \/ NextSteppedOver \/ NextStepped
  BY <1>3, NextStepComesHome
<1>4. CASE /\ ~FinishStops /\ ~NextCallStops /\ ~NextRunsCall
           /\ ~NextSteps /\ ~NextSteppedOver /\ ~NextStepped
  <2>1. at' \in {"exited", "prompt", "contOver", "step"}
    BY <1>4
       DEF DebuggerRuns, TargetGone, ContinueStops, ContinueHits,
           ContinueSteppedOver, FinishSteppedOver, StepAgain, StepEnds
  <2> QED BY <2>1, ElsewhereHome
<1> QED BY <1>1, <1>2, <1>3, <1>4

\* The target executes an instruction on the way back, or on its frame.
LEMMA RunComesHome ==
  ASSUME LikeNative, Stacked(LogicalCpu), ComesHome, ExecOriginal
  PROVE  ComesHome'
<1>1. /\ Moving /\ Intact(cpu.rip) /\ cpu' \in Successors(cpu)
      /\ AfterInstruction /\ why' \in {why, "step"}
      /\ at' = at /\ tmp' = tmp /\ job' = job
  BY DEF ExecOriginal, AfterInstruction, debuggerVars
<1>2. LogicalCpu = cpu /\ LogicalCpu' = cpu'
  BY <1>1, NoTrapPending DEF LikeNative, Placed, LogicalCpu
<1>3. cpu.rip \in DOMAIN Program /\ text[cpu.rip] = "op"
  <2>1. Program[cpu.rip].len \in Nat \ {0} /\ cpu.rip \in Int
    BY <1>1, ProgramAssumption, LikeNativeType DEF Intact, Instruction, Cpu
  <2> QED BY <1>1, <2>1 DEF Intact
<1>4. cpu \in Cpu /\ Home' = Home
  BY <1>1, LikeNativeType DEF Home
<1>5. ASSUME Planted, tmp.addr \in Addr
      PROVE  Lands(tmp.addr) /\ \E d \in Home : WayBack(cpu', d, tmp.addr)
  <2>1. text[tmp.addr] = "trap"
    BY <1>1, <1>5 DEF LikeNative, Placed, ImageInvariant, TextAsPatched, Alive, Trapped
  <2>2. PICK d \in Home : WayBack(cpu, d, tmp.addr)
    BY <1>2, <1>5 DEF ComesHome
  <2>3. WayBack(cpu', d, tmp.addr)
    <3>1. d \in Nat /\ cpu.rip # tmp.addr
      BY <1>3, <2>1 DEF Home
    <3> QED BY <1>1, <1>3, <1>4, <2>2, <3>1, SuccessorsWayBack
  <2> QED BY <1>5, <2>3 DEF ComesHome
<1>6. ASSUME at \in {"finishOver", "next", "nextOver", "nextStep"}
      PROVE  Depth(cpu') \in Home /\ status = "stepping"
  <2>1. at # "next"
    BY <1>1 DEF LikeNative, Placed, ImageInvariant, MovesWhenWaitedFor
  <2>2. Depth(cpu) \in Home /\ status = "stepping"
    BY <1>1, <1>2, <1>6, <2>1 DEF ComesHome
  <2>3. /\ Depth(cpu) \in Nat /\ Depth(cpu') \in Nat
        /\ ~Calls(cpu.rip) => Depth(cpu') <= Depth(cpu)
        /\ Lands(cpu.rip) => Depth(cpu') = Depth(cpu)
    BY <1>1, <1>3, <1>4, SuccessorsDepth
  <2>4. CASE at \in {"finishOver", "nextOver"}
    <3>1. Lands(cpu.rip)
      BY <1>1, <2>4 DEF ComesHome
    <3> QED BY <2>2, <2>3, <3>1
  <2>5. CASE at = "nextStep"
    <3>1. ~Calls(cpu.rip)
      BY <1>1, <1>3, <2>5 DEF ComesHome, Patched
    <3>2. job.depth \in Nat
      BY DEF LikeNative, Placed, TypeOK
    <3> QED BY <2>2, <2>3, <2>5, <3>1, <3>2 DEF Home
  <2> QED BY <1>6, <2>1, <2>4, <2>5
<1>7. at \in {"finishOver", "next", "nextOver", "nextStep"} => ~Moving'
  BY <1>1, <1>6 DEF AfterInstruction, Moving
<1> QED
  BY <1>1, <1>2, <1>4, <1>5, <1>6, <1>7
     DEF ComesHome, Planted, WayBack, Depth, Lands

\* The target stops or dies where it is.
LEMMA HaltComesHome ==
  ASSUME LikeNative, ComesHome, TargetRuns \/ SignalStop \/ Killed,
         LogicalCpu' = LogicalCpu, ~Moving'
  PROVE  ComesHome'
<1>1. at' = at /\ tmp' = tmp /\ job' = job
  BY DEF TargetRuns, ExecTrap, ExecOriginal, ExecExit, ExecFault, ExecStray,
         SignalStop, Killed, debuggerVars
<1> QED BY <1>1 DEF ComesHome, Planted, Home, WayBack, Depth, Lands

LEMMA EnvironmentComesHome ==
  ASSUME LikeNative, OrderlyProgram, Stacked(LogicalCpu), HomeInvariant,
         TargetRuns \/ SignalStop \/ Killed
  PROVE  HomeInvariant'
<1> SUFFICES ASSUME ComesHome PROVE ComesHome'
  <2>1. at' = at
    BY DEF TargetRuns, ExecTrap, ExecOriginal, ExecExit, ExecFault, ExecStray,
           SignalStop, Killed, debuggerVars
  <2> QED BY <2>1 DEF HomeInvariant
<1>1. CASE ExecOriginal
  BY <1>1, RunComesHome
<1>2. CASE ExecTrap
  <2>1. ~Moving'
    BY <1>2 DEF ExecTrap, StopFor, Moving
  <2> QED BY <1>2, <2>1, TrapStaysStill, HaltComesHome DEF LikeNative
<1>3. CASE ExecExit \/ Killed
  <2>1. cpu' = cpu /\ why' = why /\ ~Moving'
    BY <1>3 DEF ExecExit, Killed, Moving
  <2>2. LogicalCpu' = LogicalCpu
    BY <2>1 DEF LogicalCpu
  <2> QED BY <2>1, <2>2, HaltComesHome
<1>4. CASE ExecFault \/ SignalStop
  <2>1. Moving /\ cpu' = cpu /\ why' = "signal" /\ ~Moving'
    BY <1>4 DEF ExecFault, SignalStop, StopFor, Moving
  <2>2. LogicalCpu' = LogicalCpu
    BY <2>1, NoTrapPending DEF LikeNative, Placed, LogicalCpu
  <2> QED BY <2>1, <2>2, HaltComesHome
<1> QED BY <1>1, <1>2, <1>3, <1>4, NeverStrays
     DEF OrderlyProgram, LikeNative, TargetRuns

LEMMA NextComesHome ==
  ASSUME LikeNative, OrderlyProgram, Stacked(LogicalCpu), HomeInvariant,
         [Next]_vars
  PROVE  HomeInvariant'
<1>1. CASE UNCHANGED vars
  <2>1. LogicalCpu' = LogicalCpu
    BY <1>1 DEF vars, LogicalCpu
  <2> QED
    BY <1>1, <2>1
       DEF vars, HomeInvariant, ComesHome, Planted, Home, WayBack, Depth, Lands,
           Moving, Patched
<1>2. CASE Next
  BY <1>1, <1>2, UserComesHome, DebuggerComesHome, EnvironmentComesHome
     DEF Next, Exited
<1> QED BY <1>1, <1>2

THEOREM SpecHome ==
  ASSUME OrderlyProgram
  PROVE  Spec /\ SignalsMiss /\ StepsUndisturbed => []HomeInvariant
<1>1. Init => HomeInvariant
  BY DEF Init, HomeInvariant, ComesHome, Planted
<1>2. /\ LikeNative /\ Stacked(LogicalCpu) /\ HomeInvariant /\ [Next]_vars
      => HomeInvariant'
  BY NextComesHome
<1>3. PlainProgram
  BY DEF OrderlyProgram
<1> QED BY <1>1, <1>2, <1>3, SpecLikeNative, SpecStacked, PTL DEF Spec

(* Without recursion finish comes back to the caller of the frame it was   *)
(* typed in, that frame and everything it called gone.                     *)
THEOREM FinishReturnsCorrect ==
  ASSUME OrderlyProgram
  PROVE  Spec /\ SignalsMiss /\ StepsUndisturbed => FinishReturnsToCaller
<1>1. LikeNative /\ HomeInvariant =>
        [FinishSteppedOver /\ Attached => Depth(cpu) = job.frame - 1]_vars
  <2> SUFFICES ASSUME LikeNative, HomeInvariant, FinishSteppedOver
               PROVE  Depth(cpu) = job.frame - 1
    OBVIOUS
  <2>1. at = "finishOver"
    BY DEF FinishSteppedOver
  <2>2. LogicalCpu = cpu
    BY <2>1, NoTrapPending DEF LikeNative, Placed, TrapPoints
  <2> QED BY <2>1, <2>2 DEF HomeInvariant, ComesHome, Home
<1>2. PlainProgram
  BY DEF OrderlyProgram
<1> QED
  BY <1>1, <1>2, SpecHome, SpecLikeNative, PTL DEF FinishReturnsToCaller

(* And next stays in its frame, or ends in a caller of it, if the calls    *)
(* are of the kind it looks for.                                           *)
THEOREM NextStaysCorrect ==
  ASSUME OrderlyProgram, DirectCalls
  PROVE  Spec /\ SignalsMiss /\ StepsUndisturbed => NextStaysInFrame
<1>1. LikeNative /\ HomeInvariant =>
        [at = "next" \/ NextSteppedOver \/ NextStepped =>
           (at' = "prompt" => Depth(cpu) <= job.depth)]_vars
  <2> SUFFICES ASSUME LikeNative, HomeInvariant,
                      at = "next" \/ NextSteppedOver \/ NextStepped
               PROVE  Depth(cpu) <= job.depth
    OBVIOUS
  <2>1. at \in {"next", "nextOver", "nextStep"}
    BY DEF NextSteppedOver, NextStepped
  <2>2. LogicalCpu = cpu
    BY <2>1, NoTrapPending DEF LikeNative, Placed, TrapPoints
  <2> QED BY <2>1, <2>2 DEF HomeInvariant, ComesHome, Home
<1>2. PlainProgram
  BY DEF OrderlyProgram
<1> QED
  BY <1>1, <1>2, SpecHome, SpecLikeNative, PTL DEF NextStaysInFrame
=============================================================================
