-------------------------- MODULE DebuggerProofs --------------------------
(***************************************************************************)
(* Proofs that hold for every program, every command sequence, any number  *)
(* of signals and deaths of the target at any moment.                      *)
(***************************************************************************)
EXTENDS Debugger, TLAPS

(* Running one instruction keeps the registers and the stack well formed.  *)
LEMMA SuccessorsType ==
  ASSUME NEW c \in Cpu, c.rip \in DOMAIN Program, NEW d \in Successors(c)
  PROVE  d \in Cpu
<1>1. PICK i \in Instruction : i = Program[c.rip]
  BY ProgramAssumption
<1>2. i.to \subseteq Int /\ i.len \in Nat
  <2>1. i.to \in SUBSET Addr /\ i.len \in Nat \ {0}
    BY DEF Instruction
  <2>2. Addr \subseteq Int
    BY ProgramAssumption
  <2> QED
    BY <2>1, <2>2
<1>3. FallThrough(c) \in Int
  BY <1>1, <1>2 DEF FallThrough, Cpu
<1>4. Append(c.stack, FallThrough(c)) \in Seq(Int)
  BY <1>3 DEF Cpu
<1>5. c.stack # << >> =>
        /\ c.stack[Len(c.stack)] \in Int
        /\ Pop(c.stack) \in Seq(Int)
        /\ Len(c.stack) - 1 \in Nat
  BY DEF Cpu, Pop
<1>6. Len(c.stack) \in Nat
  BY DEF Cpu
<1>7. i.kind \in Kinds
  BY DEF Instruction
<1>8. CASE i.kind = "seq"
  BY <1>1, <1>3, <1>8 DEF Successors, Cpu
<1>9. CASE i.kind = "jump"
  BY <1>1, <1>2, <1>9 DEF Successors, Cpu
<1>10. CASE i.kind \in {"call", "icall"}
  <2>1. PICK t \in i.to :
          d = [c EXCEPT !.rip = t, !.stack = Append(c.stack, FallThrough(c))]
    BY <1>1, <1>10 DEF Successors
  <2> QED
    BY <2>1, <1>2, <1>4 DEF Cpu
<1>11. CASE i.kind = "enter"
  BY <1>1, <1>3, <1>6, <1>11 DEF Successors, Cpu
<1>12. CASE i.kind = "ret"
  BY <1>1, <1>5, <1>12 DEF Successors, Cpu
<1>13. CASE i.kind \in {"exit", "fault"}
  BY <1>1, <1>13 DEF Successors
<1> QED
  BY <1>7, <1>8, <1>9, <1>10, <1>11, <1>12, <1>13 DEF Kinds
-----------------------------------------------------------------------------
(* Patching keeps the text a text, and what is saved is a byte.            *)
LEMMA PatchType ==
  ASSUME NEW t \in B!Text, NEW live \in BOOLEAN, NEW a, NEW byte \in B!Byte
  PROVE  /\ B!EnableData(t, live, a) \in B!Byte
         /\ B!EnableText(t, live, a) \in B!Text
         /\ B!DisableText(t, live, a, byte) \in B!Text
BY DEF B!EnableData, B!EnableText, B!DisableText, B!Peek, B!Poke, B!Text, B!Byte

LEMMA LocationType == ASSUME NEW a PROVE Location(a) \in Int
BY DebuggerAssumption DEF Location, NoLine

LEMMA SteppedBackType == TypeOK => SteppedBack \in Cpu
<1> SUFFICES ASSUME cpu \in Cpu PROVE SteppedBack \in Cpu
  BY DEF TypeOK
<1>1. OneBack(cpu.rip) \in Int
  BY DEF OneBack, Cpu, NoAddr
<1> QED
  BY <1>1 DEF SteppedBack, Cpu

LEMMA ResumeType ==
  ASSUME TypeOK, NEW mode \in {"running", "stepping"}, Resume(mode)
  PROVE  status' \in Status /\ why' \in Reasons
BY DEF TypeOK, Resume, Resumed, Status, Reasons

LEMMA IssuedType ==
  ASSUME TypeOK, NEW loc \in Int, NEW left \in Nat
  PROVE  Issued(loc, left) \in [loc : Int, left : Nat, frame : Nat, depth : Nat]
BY DEF TypeOK, Issued, Cpu, Depth

(* Every variable keeps its type; in particular rip, the return addresses  *)
(* and the temporary breakpoint's address stay numbers even after the      *)
(* target has run into the middle of an instruction.                       *)
LEMMA TypeInit == Init => TypeOK
<1> SUFFICES ASSUME Init PROVE TypeOK
  OBVIOUS
<1>1. cpu \in Cpu
  BY ProgramAssumption DEF Init, InitialCpu, Cpu
<1>2. text \in B!Text
  BY DEF Init, B!OriginalText, B!Text, B!Byte
<1>3. tmp \in [addr : Int, data : B!Byte]
  BY DEF Init, NoTmp, NoAddr, B!Byte
<1>4. job \in [loc : Int, left : Nat, frame : Nat, depth : Nat]
  BY DEF Init, NoJob, NoLine
<1>5. m_breakpoints \in [Addr -> SavedByte]
  BY DEF Init, SavedByte
<1>6. signals \in 0 .. MaxSignals
  BY DebuggerAssumption DEF Init
<1> QED
  BY <1>1, <1>2, <1>3, <1>4, <1>5, <1>6
     DEF Init, TypeOK, Status, Reasons, Points

LEMMA TypeStart == TypeOK /\ (Start \/ StartFailed) => TypeOK'
<1> SUFFICES ASSUME TypeOK, Start \/ StartFailed PROVE TypeOK'
  OBVIOUS
<1>1. ASSUME NEW live \in BOOLEAN, BreakOnMain(live)
      PROVE  text' \in B!Text /\ m_breakpoints' \in [Addr -> SavedByte]
  <2>1. \A main \in Mains : /\ B!EnableData(text, live, main) \in SavedByte
                            /\ B!EnableText(text, live, main) \in B!Text
    BY PatchType DEF TypeOK, SavedByte, B!Byte
  <2> QED BY <1>1, <2>1 DEF BreakOnMain, TypeOK
<1> QED
  BY <1>1 DEF TypeOK, Start, StartFailed, Status, Points

LEMMA TypeBreak == ASSUME TypeOK, NEW a \in BreakAddrs, Break(a) PROVE TypeOK'
<1>1. /\ B!EnableData(text, Attached, a) \in SavedByte
      /\ B!EnableText(text, Attached, a) \in B!Text
  BY PatchType DEF TypeOK, SavedByte, B!Byte, Attached
<1> QED
  BY <1>1 DEF TypeOK, Break

LEMMA TypeDelete == TypeOK /\ Delete => TypeOK'
<1> SUFFICES ASSUME TypeOK, Delete PROVE TypeOK'
  OBVIOUS
<1>1. text' \in B!Text
  BY DEF TypeOK, Delete, IsBreakpoint, SavedByte, B!Text
<1>2. m_breakpoints' \in [Addr -> SavedByte]
  BY DEF Delete, SavedByte
<1> QED
  BY <1>1, <1>2 DEF TypeOK, Delete

LEMMA TypeContinue ==
  TypeOK /\ (TargetGone \/ Continue \/ ContinueStops \/ ContinueHits
             \/ ContinueSteppedOver) => TypeOK'
<1> SUFFICES ASSUME TypeOK,
                    TargetGone \/ Continue \/ ContinueStops \/ ContinueHits
                      \/ ContinueSteppedOver
             PROVE  TypeOK'
  OBVIOUS
<1>1. CASE TargetGone
  BY <1>1 DEF TypeOK, TargetGone, Status, Points
<1>2. CASE Continue
  BY <1>2, ResumeType DEF TypeOK, Continue, Points
<1>3. CASE ContinueStops
  BY <1>3 DEF TypeOK, ContinueStops, targetVars, Points
<1>4. CASE ContinueHits
  <2>1. m_breakpoints[cpu.rip - 1] \in B!Byte /\ cpu.rip - 1 \in Addr
    BY <1>4 DEF ContinueHits, IsBreakpoint, TypeOK, SavedByte
  <2>2. text' \in B!Text
    BY <1>4, <2>1, PatchType DEF ContinueHits, TypeOK, Attached
  <2>3. cpu' \in Cpu /\ status' \in Status /\ why' \in Reasons
    BY <1>4, SteppedBackType, ResumeType DEF ContinueHits
  <2> QED
    BY <1>4, <2>1, <2>2, <2>3 DEF TypeOK, ContinueHits, Points
<1>5. CASE ContinueSteppedOver
  <2>1. /\ B!EnableData(text, Attached, over) \in SavedByte
        /\ B!EnableText(text, Attached, over) \in B!Text
    BY PatchType DEF TypeOK, SavedByte, B!Byte, Attached
  <2> QED
    BY <1>5, <2>1 DEF TypeOK, ContinueSteppedOver, Reaped, Status, Points
<1> QED
  BY <1>1, <1>2, <1>3, <1>4, <1>5
(* What finish and next share.                                             *)
PatchTyped ==
  /\ cpu \in Cpu /\ text \in B!Text
  /\ status \in Status /\ why \in Reasons
  /\ signals \in 0 .. MaxSignals
  /\ tmp \in [addr : Int, data : B!Byte]

LEMMA TypeTmp ==
  ASSUME TypeOK
  PROVE  /\ \A a \in Int : RunToTmp(a) => PatchTyped'
         /\ StepOverTmp \/ DropTmp => PatchTyped'
<1>1. ASSUME NEW a \in Int, RunToTmp(a)
      PROVE  PatchTyped'
  <2>1. /\ B!EnableData(text, Attached, a) \in B!Byte
        /\ B!EnableText(text, Attached, a) \in B!Text
    BY PatchType DEF TypeOK, B!Byte, Attached
  <2>2. status' \in Status /\ why' \in Reasons
    BY <1>1, ResumeType DEF RunToTmp
  <2> QED
    BY <1>1, <2>1, <2>2 DEF TypeOK, PatchTyped, RunToTmp
<1>2. ASSUME StepOverTmp
      PROVE  PatchTyped'
  <2>1. text' \in B!Text
    BY <1>2, PatchType DEF TypeOK, StepOverTmp, Attached
  <2>2. status' \in Status /\ why' \in Reasons
    BY <1>2, ResumeType DEF StepOverTmp
  <2>3. cpu' \in Cpu
    BY <1>2, SteppedBackType DEF StepOverTmp
  <2> QED
    BY <1>2, <2>1, <2>2, <2>3 DEF TypeOK, PatchTyped, StepOverTmp
<1>3. ASSUME DropTmp
      PROVE  PatchTyped'
  <2>1. /\ B!EnableData(text, Attached, tmp.addr) \in B!Byte
        /\ B!EnableText(text, Attached, tmp.addr) \in B!Text
    BY PatchType DEF TypeOK, B!Byte, Attached
  <2>2. text' \in B!Text
    BY <1>3, <2>1, PatchType DEF DropTmp, Attached
  <2>3. NoTmp \in [addr : Int, data : B!Byte]
    BY DEF NoTmp, NoAddr, B!Byte
  <2> QED
    BY <1>3, <2>2, <2>3 DEF TypeOK, PatchTyped, DropTmp, Reaped, Status
<1> QED
  BY <1>1, <1>2, <1>3

LEMMA TypeFinish ==
  TypeOK /\ (Finish \/ FinishStops \/ FinishSteppedOver) => TypeOK'
<1> SUFFICES ASSUME TypeOK, Finish \/ FinishStops \/ FinishSteppedOver
             PROVE  TypeOK'
  OBVIOUS
<1>1. CASE Finish
  <2>1. (IF Attached THEN ReturnAddress(cpu) ELSE NoAddr) \in Int
    BY DEF TypeOK, Cpu, ReturnAddress, NoAddr
  <2>2. job' \in [loc : Int, left : Nat, frame : Nat, depth : Nat]
    BY <1>1, IssuedType DEF Finish, NoLine
  <2> QED
    BY <1>1, <2>1, <2>2, TypeTmp DEF TypeOK, PatchTyped, Finish, Points
<1>2. CASE FinishStops
  BY <1>2, TypeTmp DEF TypeOK, PatchTyped, FinishStops, Points
<1>3. CASE FinishSteppedOver
  BY <1>3, TypeTmp DEF TypeOK, PatchTyped, FinishSteppedOver, Points, NoJob, NoLine
<1> QED
  BY <1>1, <1>2, <1>3
LEMMA TypeDecides ==
  ASSUME TypeOK, NextDecides
  PROVE  /\ at' \in Points
         /\ job' \in [loc : Int, left : Nat, frame : Nat, depth : Nat]
BY DEF TypeOK, NextDecides, Points, NoJob, NoLine

LEMMA TypeNext ==
  TypeOK /\ (NextCommand \/ NextRunsCall \/ NextSteps \/ NextCallStops
             \/ NextSteppedOver \/ NextStepped) => TypeOK'
<1> SUFFICES ASSUME TypeOK,
                    NextCommand \/ NextRunsCall \/ NextSteps \/ NextCallStops
                      \/ NextSteppedOver \/ NextStepped
             PROVE  TypeOK'
  OBVIOUS
<1>1. CASE NextCommand
  BY <1>1, LocationType, IssuedType DEF TypeOK, NextCommand, targetVars, Points
<1>2. CASE NextRunsCall
  <2>1. cpu.rip + CallLength \in Int
    BY DEF TypeOK, Cpu, CallLength
  <2> QED
    BY <1>2, <2>1, TypeTmp DEF TypeOK, PatchTyped, NextRunsCall, Points
<1>3. CASE NextSteps
  BY <1>3, ResumeType DEF TypeOK, NextSteps, Points
<1>4. CASE NextCallStops
  BY <1>4, TypeTmp DEF TypeOK, PatchTyped, NextCallStops, Points
<1>5. CASE NextSteppedOver
  BY <1>5, TypeTmp, TypeDecides DEF TypeOK, PatchTyped, NextSteppedOver
<1>6. CASE NextStepped
  BY <1>6, TypeDecides DEF TypeOK, NextStepped, targetVars
<1> QED
  BY <1>1, <1>2, <1>3, <1>4, <1>5, <1>6

LEMMA TypeStep ==
  TypeOK /\ ((\E n \in StepCounts : Step(n)) \/ StepAgain \/ StepEnds) => TypeOK'
<1> SUFFICES ASSUME TypeOK,
                    (\E n \in StepCounts : Step(n)) \/ StepAgain \/ StepEnds
             PROVE  TypeOK'
  OBVIOUS
<1>1. ASSUME NEW n \in StepCounts, Step(n) PROVE TypeOK'
  <2>1. n \in Nat
    BY DebuggerAssumption
  <2>2. job' \in [loc : Int, left : Nat, frame : Nat, depth : Nat]
    BY <1>1, <2>1, LocationType, IssuedType DEF Step
  <2> QED
    BY <1>1, <2>2, ResumeType DEF TypeOK, Step, Points
<1>2. CASE StepAgain
  <2>1. ASSUME LeavesLine(cpu.rip)
        PROVE  job' \in [loc : Int, left : Nat, frame : Nat, depth : Nat]
    <3>1. job.left - 1 \in Nat
      BY <1>2, <2>1 DEF StepAgain, TypeOK
    <3>2. job' = [job EXCEPT !.loc = Location(cpu.rip), !.left = job.left - 1]
      BY <1>2, <2>1 DEF StepAgain
    <3>3. Location(cpu.rip) \in Int
      BY LocationType
    <3> QED
      BY <3>1, <3>2, <3>3 DEF TypeOK
  <2>2. ~LeavesLine(cpu.rip) =>
          job' \in [loc : Int, left : Nat, frame : Nat, depth : Nat]
    BY <1>2 DEF StepAgain, TypeOK
  <2>3. job' \in [loc : Int, left : Nat, frame : Nat, depth : Nat]
    BY <2>1, <2>2
  <2> QED
    BY <1>2, <2>3, ResumeType DEF TypeOK, StepAgain, Points
<1>3. CASE StepEnds
  BY <1>3 DEF TypeOK, StepEnds, targetVars, Points, NoJob, NoLine
<1> QED
  BY <1>1, <1>2, <1>3

LEMMA TypeEnvironment ==
  TypeOK /\ (TargetRuns \/ SignalStop \/ Killed) => TypeOK'
<1> SUFFICES ASSUME TypeOK, TargetRuns \/ SignalStop \/ Killed PROVE TypeOK'
  OBVIOUS
<1>1. CASE ExecTrap
  <2>1. cpu.rip + 1 \in Int
    BY DEF TypeOK, Cpu
  <2>2. cpu' \in Cpu
    BY <1>1, <2>1 DEF ExecTrap, TypeOK, Cpu
  <2> QED
    BY <1>1, <2>2 DEF ExecTrap, TypeOK, StopFor, debuggerVars, Status, Reasons
<1>2. CASE ExecOriginal
  <2>1. cpu' \in Cpu
    BY <1>2, SuccessorsType DEF ExecOriginal, TypeOK, Intact
  <2> QED
    BY <1>2, <2>1
       DEF ExecOriginal, TypeOK, AfterInstruction, debuggerVars, Status, Reasons
<1>3. CASE ExecExit
  BY <1>3 DEF ExecExit, TypeOK, debuggerVars, Status
<1>4. CASE ExecFault
  BY <1>4 DEF ExecFault, TypeOK, StopFor, debuggerVars, Status, Reasons
<1>5. CASE ExecStray
  <2>1. PICK a \in Addr : cpu' = [cpu EXCEPT !.rip = a]
    BY <1>5 DEF ExecStray
  <2>2. a \in Int
    BY ProgramAssumption
  <2>3. cpu' \in Cpu
    BY <2>1, <2>2 DEF TypeOK, Cpu
  <2> QED
    BY <1>5, <2>3
       DEF ExecStray, TypeOK, AfterInstruction, debuggerVars, Status, Reasons
<1>6. CASE SignalStop
  <2>1. signals' \in 0 .. MaxSignals
    BY <1>6, DebuggerAssumption DEF SignalStop, TypeOK
  <2> QED
    BY <1>6, <2>1 DEF SignalStop, TypeOK, StopFor, debuggerVars, Status, Reasons
<1>7. CASE Killed
  BY <1>7 DEF Killed, TypeOK, debuggerVars, Status
<1> QED
  BY <1>1, <1>2, <1>3, <1>4, <1>5, <1>6, <1>7 DEF TargetRuns

(* TypeOK holds in every reachable state.                                  *)
THEOREM TypeCorrect == Spec => []TypeOK
<1>1. TypeOK /\ [Next]_vars => TypeOK'
  <2> SUFFICES ASSUME TypeOK, [Next]_vars PROVE TypeOK'
    OBVIOUS
  <2>1. CASE UserTypes
    <3>1. CASE Quit \/ ForkFailed
      BY <3>1 DEF TypeOK, Quit, ForkFailed, targetVars, Status, Points
    <3> QED
      BY <2>1, <3>1, TypeStart, TypeBreak, TypeDelete, TypeContinue, TypeFinish,
         TypeNext, TypeStep DEF UserTypes
  <2>2. CASE DebuggerRuns
    BY <2>2, TypeContinue, TypeFinish, TypeNext, TypeStep DEF DebuggerRuns
  <2>3. CASE TargetRuns \/ SignalStop \/ Killed
    BY <2>3, TypeEnvironment
  <2>4. CASE UNCHANGED vars
    BY <2>4 DEF TypeOK, vars
  <2> QED
    BY <2>1, <2>2, <2>3, <2>4 DEF Next, Exited
<1> QED
  BY <1>1, TypeInit, PTL DEF Spec
-----------------------------------------------------------------------------
(* What the breakpoints do to the text of the target.                      *)

LEMMA InitialImage == Init => ImageInvariant
BY DEF Init, ImageInvariant, TextAsPatched, SavedBytes, SteppingOver,
       BeforeStart, MovesWhenWaitedFor, Alive, Moving, Attached, NoAddr

(* A step that patches nothing and raises nobody from the dead.            *)
LEMMA UnpatchedImage ==
  ASSUME ImageInvariant,
         UNCHANGED <<text, m_breakpoints, over, tmp, m_is_running>>,
         Alive' => Alive /\ Planted' = Planted,
         at' = "contOver" <=> at = "contOver",
         status' = "none" <=> status = "none",
         at' \in {"prompt", "exited"} \/ m_is_running,
         Moving' => at' \notin {"prompt", "next", "exited"}
  PROVE  ImageInvariant'
BY DEF ImageInvariant, TextAsPatched, SavedBytes, SteppingOver, BeforeStart,
       MovesWhenWaitedFor, IsBreakpoint, Trapped

LEMMA StartImage ==
  TypeOK /\ ImageInvariant /\ (Start \/ StartFailed) => ImageInvariant'
<1> SUFFICES ASSUME TypeOK, ImageInvariant, Start \/ StartFailed
             PROVE  ImageInvariant'
  OBVIOUS
<1>1. /\ \A a \in Addr : text[a] = "op" /\ m_breakpoints[a] = "none"
      /\ over = NoAddr
  BY DEF Start, StartFailed, ImageInvariant, BeforeStart, SteppingOver,
         B!OriginalText
<1>2. NoAddr \notin Addr
  BY ProgramAssumption DEF NoAddr
<1>3. CASE Start
  <2>1. PICK main \in Mains :
          IF main = NoAddr
          THEN UNCHANGED <<m_breakpoints, text>>
          ELSE /\ m_breakpoints' = [m_breakpoints EXCEPT
                                      ![main] = B!EnableData(text, TRUE, main)]
               /\ text' = B!EnableText(text, TRUE, main)
    BY <1>3 DEF Start, BreakOnMain
  <2>2. main # NoAddr => main \in Addr
    BY DebuggerAssumption, ProgramAssumption
  <2>3. \A a \in Addr : text'[a] = IF a = main THEN "trap" ELSE "op"
    BY <1>1, <1>2, <2>1, <2>2 DEF TypeOK, B!EnableText, B!Poke, B!Text
  <2>4. main # NoAddr => B!EnableData(text, TRUE, main) = "op"
    BY <1>1, <2>2 DEF B!EnableData, B!Peek
  <2>5. \A a \in Addr : m_breakpoints'[a] = IF a = main THEN "op" ELSE "none"
    BY <1>1, <1>2, <2>1, <2>2, <2>4 DEF TypeOK
  <2> QED
    BY <1>1, <1>2, <1>3, <2>3, <2>5
       DEF Start, ImageInvariant, TextAsPatched, SavedBytes, SteppingOver,
           BeforeStart, MovesWhenWaitedFor, IsBreakpoint, Trapped, Planted
<1>4. CASE StartFailed
  BY <1>1, <1>4
     DEF StartFailed, ImageInvariant, TextAsPatched, SavedBytes, SteppingOver,
         BeforeStart, MovesWhenWaitedFor, Alive, Moving, Attached
<1> QED
  BY <1>3, <1>4

LEMMA BreakImage ==
  ASSUME TypeOK, ImageInvariant, NEW a \in BreakAddrs, Break(a)
  PROVE  ImageInvariant'
<1>1. a \in Addr /\ NoAddr \notin Addr
  BY DebuggerAssumption, ProgramAssumption DEF NoAddr
<1>2. over = NoAddr /\ at = "prompt" /\ m_is_running /\ m_breakpoints[a] = "none"
  BY <1>1 DEF Break, Ready, ImageInvariant, SteppingOver, IsBreakpoint
<1>3. Alive' => Alive /\ Attached
  BY <1>2 DEF Break, Alive, Moving, Attached, ImageInvariant, MovesWhenWaitedFor
<1>4. ASSUME Alive, Attached
      PROVE  /\ \A b \in Addr : text'[b] = IF b = a THEN "trap" ELSE text[b]
             /\ B!EnableData(text, Attached, a) = "op"
  <2>1. text[a] = "op"
    BY <1>1, <1>2, <1>4
       DEF ImageInvariant, TextAsPatched, Trapped, IsBreakpoint, Planted
  <2> QED
    BY <1>1, <1>4, <2>1
       DEF Break, TypeOK, B!EnableText, B!EnableData, B!Poke, B!Peek, B!Text
<1>5. ASSUME Alive, Attached
      PROVE  \A b \in Addr :
               m_breakpoints'[b] = IF b = a THEN "op" ELSE m_breakpoints[b]
  BY <1>4, <1>5 DEF Break, TypeOK
<1>6. TextAsPatched' /\ SavedBytes'
  BY <1>1, <1>2, <1>3, <1>4, <1>5
     DEF Break, ImageInvariant, TextAsPatched, SavedBytes, Trapped,
         IsBreakpoint, Planted
<1> QED
  BY <1>2, <1>6
     DEF Break, ImageInvariant, SteppingOver, BeforeStart, MovesWhenWaitedFor,
         Moving
LEMMA DeleteImage == TypeOK /\ ImageInvariant /\ Delete => ImageInvariant'
<1> SUFFICES ASSUME TypeOK, ImageInvariant, Delete PROVE ImageInvariant'
  OBVIOUS
<1>1. over = NoAddr /\ at = "prompt" /\ m_is_running
  BY DEF Delete, Ready, ImageInvariant, SteppingOver
<1>2. NoAddr \notin Addr
  BY ProgramAssumption DEF NoAddr
<1>3. Alive' => Alive /\ Attached
  BY <1>1 DEF Delete, Alive, Moving, Attached, ImageInvariant, MovesWhenWaitedFor
<1>4. ASSUME Alive, Attached PROVE \A b \in Addr : text'[b] = "op"
  BY <1>1, <1>2, <1>4
     DEF Delete, ImageInvariant, TextAsPatched, SavedBytes, Trapped,
         IsBreakpoint, Planted
<1>5. \A b \in Addr : m_breakpoints'[b] = "none"
  BY DEF Delete
<1>6. TextAsPatched' /\ SavedBytes'
  BY <1>1, <1>3, <1>4, <1>5
     DEF Delete, TextAsPatched, SavedBytes, Trapped, IsBreakpoint, Planted
<1> QED
  BY <1>1, <1>6
     DEF Delete, ImageInvariant, SteppingOver, BeforeStart, MovesWhenWaitedFor,
         Moving

LEMMA ContinueHitsImage ==
  TypeOK /\ ImageInvariant /\ ContinueHits => ImageInvariant'
<1> SUFFICES ASSUME TypeOK, ImageInvariant, ContinueHits PROVE ImageInvariant'
  OBVIOUS
<1> DEFINE hit == cpu.rip - 1
<1>1. /\ hit \in Addr /\ m_breakpoints[hit] # "none" /\ at = "cont"
      /\ over' = hit /\ at' = "contOver" /\ Attached /\ Alive
      /\ over = NoAddr /\ m_is_running
  BY DEF ContinueHits, IsBreakpoint, Alive, ImageInvariant, SteppingOver,
         BeforeStart
<1>2. NoAddr \notin Addr
  BY ProgramAssumption DEF NoAddr
<1>3. m_breakpoints[hit] = "op"
  BY <1>1 DEF ImageInvariant, SavedBytes
<1>4. \A b \in Addr : text'[b] = IF b = hit THEN "op" ELSE text[b]
  BY <1>1, <1>3 DEF ContinueHits, TypeOK, B!DisableText, B!Poke, B!Text
<1>5. TextAsPatched' /\ SavedBytes'
  BY <1>1, <1>2, <1>4
     DEF ContinueHits, ImageInvariant, TextAsPatched, SavedBytes, Trapped,
         IsBreakpoint, Planted
<1>6. status' = "stepping" /\ status # "none"
  BY <1>1 DEF ContinueHits, Resume, Resumed, Attached
<1> QED
  BY <1>1, <1>5, <1>6
     DEF ContinueHits, ImageInvariant, SteppingOver, BeforeStart,
         MovesWhenWaitedFor, IsBreakpoint

LEMMA ContinueSteppedOverImage ==
  TypeOK /\ ImageInvariant /\ ContinueSteppedOver => ImageInvariant'
<1> SUFFICES ASSUME TypeOK, ImageInvariant, ContinueSteppedOver
             PROVE  ImageInvariant'
  OBVIOUS
<1>1. /\ over \in Addr /\ m_breakpoints[over] # "none" /\ at = "contOver"
      /\ over' = NoAddr /\ at' = "prompt"
  BY DEF ContinueSteppedOver, ImageInvariant, SteppingOver, IsBreakpoint
<1>2. NoAddr \notin Addr
  BY ProgramAssumption DEF NoAddr
<1>3. /\ Alive' => Alive /\ Attached
      /\ ~Moving' /\ (status' = "none" <=> status = "none")
  BY DEF ContinueSteppedOver, WaitReturns, Reaped, Attached, Dead, Alive, Moving
<1>4. ASSUME Alive, Attached
      PROVE  /\ \A b \in Addr : text'[b] = IF b = over THEN "trap" ELSE text[b]
             /\ \A b \in Addr : m_breakpoints'[b] =
                  IF b = over THEN "op" ELSE m_breakpoints[b]
  <2>1. text[over] = "op"
    BY <1>1, <1>4
       DEF ImageInvariant, TextAsPatched, Trapped, IsBreakpoint, Planted
  <2> QED
    BY <1>1, <1>4, <2>1
       DEF ContinueSteppedOver, TypeOK, B!EnableText, B!EnableData, B!Poke,
           B!Peek, B!Text
<1>5. TextAsPatched' /\ SavedBytes'
  BY <1>1, <1>2, <1>3, <1>4
     DEF ImageInvariant, TextAsPatched, SavedBytes, Trapped, IsBreakpoint, Planted
<1> QED
  BY <1>1, <1>3, <1>5
     DEF ContinueSteppedOver, ImageInvariant, SteppingOver, BeforeStart,
         MovesWhenWaitedFor

(* The three parts of the life of a temporary breakpoint.                  *)
LEMMA RunToTmpImage ==
  ASSUME TypeOK, ImageInvariant, NEW a \in Int, RunToTmp(a),
         at \in {"prompt", "next"}, at' \in {"finish", "nextCall"},
         m_is_running, UNCHANGED <<m_is_running, m_breakpoints, over>>
  PROVE  ImageInvariant'
<1>1. over = NoAddr /\ over' = NoAddr
  BY DEF ImageInvariant, SteppingOver
<1>2. NoAddr \notin Addr
  BY ProgramAssumption DEF NoAddr
<1>3. /\ Alive' => Alive /\ Attached
      /\ status' = "none" <=> status = "none"
  BY DEF RunToTmp, Resume, Resumed, Attached, Alive, Moving, ImageInvariant,
         MovesWhenWaitedFor
<1>4. tmp'.addr = a /\ tmp'.data = B!EnableData(text, Attached, a)
  BY DEF RunToTmp
<1>5. ASSUME Alive, Attached
      PROVE  /\ \A b \in Addr : text'[b] = IF b = a THEN "trap" ELSE text[b]
             /\ a \in Addr => tmp'.data = text[a]
  BY <1>4, <1>5
     DEF RunToTmp, TypeOK, B!EnableText, B!EnableData, B!Poke, B!Peek, B!Text
<1>6. \A b \in Addr : Alive => text[b] = IF IsBreakpoint(b) THEN "trap" ELSE "op"
  BY <1>1, <1>2 DEF ImageInvariant, TextAsPatched, Trapped, Planted
<1>7. TextAsPatched' /\ SavedBytes'
  BY <1>1, <1>2, <1>3, <1>4, <1>5, <1>6
     DEF ImageInvariant, TextAsPatched, SavedBytes, Trapped, IsBreakpoint, Planted
<1> QED
  BY <1>1, <1>3, <1>7
     DEF ImageInvariant, SteppingOver, BeforeStart, MovesWhenWaitedFor

LEMMA StepOverTmpImage ==
  ASSUME TypeOK, ImageInvariant, StepOverTmp, Attached,
         at \in {"finish", "nextCall"}, at' \in {"finishOver", "nextOver"},
         UNCHANGED <<m_is_running, m_breakpoints, over>>
  PROVE  ImageInvariant'
<1>1. over = NoAddr /\ m_is_running /\ Alive
  BY DEF ImageInvariant, SteppingOver, BeforeStart, Alive
<1>2. NoAddr \notin Addr
  BY ProgramAssumption DEF NoAddr
<1>3. \A b \in Addr : text'[b] = IF b = tmp.addr THEN tmp.data ELSE text[b]
  BY DEF StepOverTmp, TypeOK, B!DisableText, B!Poke, B!Text
<1>4. TextAsPatched' /\ SavedBytes'
  BY <1>1, <1>2, <1>3
     DEF ImageInvariant, TextAsPatched, SavedBytes, Trapped, IsBreakpoint, Planted
<1>5. status' = "stepping" /\ status # "none"
  BY DEF StepOverTmp, Resume, Resumed, Attached
<1> QED
  BY <1>1, <1>4, <1>5
     DEF ImageInvariant, SteppingOver, BeforeStart, MovesWhenWaitedFor

LEMMA DropTmpImage ==
  ASSUME TypeOK, ImageInvariant, DropTmp, WaitReturns,
         at \in {"finishOver", "nextOver"}, at' \in {"prompt", "next"},
         UNCHANGED <<m_is_running, m_breakpoints, over>>
  PROVE  ImageInvariant'
<1>1. over = NoAddr /\ m_is_running
  BY DEF ImageInvariant, SteppingOver, BeforeStart
<1>2. /\ Alive' => Alive /\ Attached
      /\ ~Moving' /\ (status' = "none" <=> status = "none")
  BY DEF DropTmp, WaitReturns, Reaped, Attached, Dead, Alive, Moving
<1>3. ASSUME Attached PROVE \A b \in Addr : text'[b] = text[b]
  BY <1>3
     DEF DropTmp, TypeOK, B!DisableText, B!EnableText, B!EnableData, B!Poke,
         B!Peek, B!Text
<1>4. TextAsPatched' /\ SavedBytes'
  BY <1>1, <1>2, <1>3
     DEF ImageInvariant, TextAsPatched, SavedBytes, Trapped, IsBreakpoint, Planted
<1> QED
  BY <1>1, <1>2, <1>4
     DEF ImageInvariant, SteppingOver, BeforeStart, MovesWhenWaitedFor
-----------------------------------------------------------------------------
LEMMA UserImage == TypeOK /\ ImageInvariant /\ UserTypes => ImageInvariant'
<1> SUFFICES ASSUME TypeOK, ImageInvariant, UserTypes PROVE ImageInvariant'
  OBVIOUS
<1>1. at = "prompt" => ~Moving
  BY DEF ImageInvariant, MovesWhenWaitedFor
<1>2. m_is_running <=> status # "none"
  BY DEF ImageInvariant, BeforeStart
<1>3. CASE Quit \/ ForkFailed
  BY <1>1, <1>2, <1>3, UnpatchedImage
     DEF Quit, ForkFailed, targetVars, Alive, Planted, Moving, Attached
<1>4. CASE Continue
  BY <1>1, <1>2, <1>4, UnpatchedImage
     DEF Continue, Ready, Resume, Resumed, Alive, Planted, Moving, Attached
<1>5. CASE Finish
  <2>1. (IF Attached THEN ReturnAddress(cpu) ELSE NoAddr) \in Int
    BY DEF TypeOK, Cpu, ReturnAddress, NoAddr
  <2> QED
    BY <1>5, <2>1, RunToTmpImage DEF Finish, Ready
<1>6. CASE NextCommand
  BY <1>1, <1>2, <1>6, UnpatchedImage
     DEF NextCommand, Ready, targetVars, Alive, Planted, Moving, Attached
<1>7. CASE \E n \in StepCounts : Step(n)
  BY <1>1, <1>2, <1>7, UnpatchedImage
     DEF Step, Ready, Resume, Resumed, Alive, Planted, Moving, Attached
<1> QED
  BY <1>3, <1>4, <1>5, <1>6, <1>7, StartImage, BreakImage, DeleteImage
     DEF UserTypes

LEMMA DebuggerImage == TypeOK /\ ImageInvariant /\ DebuggerRuns => ImageInvariant'
<1> SUFFICES ASSUME TypeOK, ImageInvariant, DebuggerRuns PROVE ImageInvariant'
  OBVIOUS
<1>1. at \notin {"prompt", "exited"} => m_is_running
  BY DEF ImageInvariant, BeforeStart
<1>2. m_is_running <=> status # "none"
  BY DEF ImageInvariant, BeforeStart
<1>3. CASE TargetGone
  BY <1>1, <1>3, UnpatchedImage
     DEF TargetGone, Dead, Alive, Planted, Moving, Attached
<1>4. CASE ContinueStops \/ NextStepped \/ StepEnds
  BY <1>1, <1>2, <1>4, UnpatchedImage
     DEF ContinueStops, NextStepped, NextDecides, StepEnds, targetVars, Alive,
         Planted, Moving, Attached
<1>5. CASE NextSteps
  <2>1. ~Moving
    BY <1>5 DEF NextSteps, ImageInvariant, MovesWhenWaitedFor
  <2> QED
    BY <1>1, <1>2, <1>5, <2>1, UnpatchedImage
       DEF NextSteps, Resume, Resumed, Alive, Planted, Moving, Attached
<1>6. CASE StepAgain
  BY <1>1, <1>2, <1>6, UnpatchedImage
     DEF StepAgain, Resume, Resumed, Alive, Planted, Moving, Attached
<1>7. CASE FinishStops \/ NextCallStops
  BY <1>7, StepOverTmpImage DEF FinishStops, NextCallStops
<1>8. CASE FinishSteppedOver
  BY <1>8, DropTmpImage DEF FinishSteppedOver
<1>9. CASE NextSteppedOver
  BY <1>9, DropTmpImage DEF NextSteppedOver, NextDecides
<1>10. CASE NextRunsCall
  <2>1. cpu.rip + CallLength \in Int
    BY DEF TypeOK, Cpu, CallLength
  <2> QED
    BY <1>1, <1>10, <2>1, RunToTmpImage DEF NextRunsCall
<1> QED
  BY <1>3, <1>4, <1>5, <1>6, <1>7, <1>8, <1>9, <1>10, ContinueHitsImage,
     ContinueSteppedOverImage DEF DebuggerRuns

LEMMA EnvironmentImage ==
  TypeOK /\ ImageInvariant /\ (TargetRuns \/ SignalStop \/ Killed)
    => ImageInvariant'
<1> SUFFICES ASSUME TypeOK, ImageInvariant, TargetRuns \/ SignalStop \/ Killed
             PROVE  ImageInvariant'
  OBVIOUS
<1>1. /\ Moving => at \notin {"prompt", "next", "exited"}
      /\ m_is_running <=> status # "none"
  BY DEF ImageInvariant, BeforeStart, MovesWhenWaitedFor
<1>2. CASE TargetRuns \/ SignalStop
  BY <1>1, <1>2, UnpatchedImage
     DEF TargetRuns, ExecTrap, ExecOriginal, ExecExit, ExecFault, ExecStray,
         SignalStop, StopFor, AfterInstruction, debuggerVars, Alive, Planted,
         Moving, Attached
<1>3. CASE Killed
  BY <1>1, <1>3, UnpatchedImage
     DEF Killed, debuggerVars, Alive, Planted, Moving, Attached, ImageInvariant,
         BeforeStart
<1> QED
  BY <1>2, <1>3

(* The patched text is what the debugger's variables say at every control  *)
(* point.  This is the inductive invariant: the prompt alone says nothing  *)
(* of what a command in flight has to put back.                            *)
THEOREM ImageInvariantCorrect == Spec => []ImageInvariant
<1>1. TypeOK /\ ImageInvariant /\ [Next]_vars => ImageInvariant'
  <2> SUFFICES ASSUME TypeOK, ImageInvariant, [Next]_vars PROVE ImageInvariant'
    OBVIOUS
  <2>1. CASE UNCHANGED vars
    BY <2>1
       DEF vars, ImageInvariant, TextAsPatched, SavedBytes, SteppingOver,
           BeforeStart, MovesWhenWaitedFor, IsBreakpoint, Trapped, Planted,
           Alive, Moving, Attached
  <2> QED
    BY <2>1, UserImage, DebuggerImage, EnvironmentImage DEF Next, Exited
<1> QED
  BY <1>1, InitialImage, TypeCorrect, PTL DEF Spec

(* Whenever the user has the prompt the text of a live target holds the    *)
(* user's traps and no other change, whatever stopped the commands before. *)
THEOREM ImageCorrect == Spec => []ImageIntact
<1>1. ImageInvariant => ImageIntact
  <2> SUFFICES ASSUME ImageInvariant, at = "prompt", Alive, NEW a \in Addr
               PROVE  text[a] = IF IsBreakpoint(a) THEN "trap" ELSE "op"
    BY DEF ImageIntact
  <2>1. over = NoAddr /\ ~Planted
    BY DEF ImageInvariant, SteppingOver, Planted
  <2>2. a # NoAddr
    BY ProgramAssumption DEF NoAddr
  <2> QED
    BY <2>1, <2>2 DEF ImageInvariant, TextAsPatched, Trapped
<1> QED
  BY <1>1, ImageInvariantCorrect, PTL

(* No breakpoint is run through: its instruction executes only under the   *)
(* single step of the hit that reports it.                                 *)
THEOREM NoSilentPassCorrect == Spec => NoSilentPass
<1>1. TypeOK /\ ImageInvariant /\ [Next]_vars =>
        [ExecOriginal /\ IsBreakpoint(cpu.rip) =>
           at = "contOver" /\ over = cpu.rip]_vars
  <2> SUFFICES ASSUME TypeOK, ImageInvariant, ExecOriginal, IsBreakpoint(cpu.rip)
               PROVE  at = "contOver" /\ over = cpu.rip
    OBVIOUS
  <2>1. Alive /\ cpu.rip \in DOMAIN Program
    BY DEF ExecOriginal, Intact, Alive
  <2>2. Program[cpu.rip].len \in Nat \ {0} /\ cpu.rip \in Int
    BY <2>1, ProgramAssumption DEF Instruction, TypeOK, Cpu
  <2>3. text[cpu.rip] = "op"
    BY <2>2 DEF ExecOriginal, Intact
  <2>4. cpu.rip \in Addr /\ over = cpu.rip
    BY <2>1, <2>3
       DEF ImageInvariant, TextAsPatched, Trapped, IsBreakpoint
  <2>5. over # NoAddr
    BY <2>4, ProgramAssumption DEF NoAddr
  <2> QED
    BY <2>4, <2>5 DEF ImageInvariant, SteppingOver
<1> QED
  BY <1>1, TypeCorrect, ImageInvariantCorrect, PTL DEF Spec, NoSilentPass
-----------------------------------------------------------------------------
(* What continue_execution makes of a stop.                                *)

(* The single step of step_over starts at its breakpoint, and ends when    *)
(* the instruction there has been executed, or a signal has come first.    *)
RunsInContinue == at = "cont" /\ Moving => status = "running"

StartsAtBreakpoint ==
  at = "contOver" /\ Moving => status = "stepping" /\ cpu.rip = over

EndsAfterIt ==
  at = "contOver" /\ Attached =>
    why = "step" \/ (why = "signal" /\ cpu.rip = over)

HitInvariant ==
  /\ RunsInContinue
  /\ StartsAtBreakpoint
  /\ EndsAfterIt

LEMMA InitHit == Init => HitInvariant
BY DEF Init, HitInvariant, RunsInContinue, StartsAtBreakpoint, EndsAfterIt

\* A step that leaves control in none of the waits of continue.
LEMMA ElsewhereHit == at' \notin {"cont", "contOver"} => HitInvariant'
BY DEF HitInvariant, RunsInContinue, StartsAtBreakpoint, EndsAfterIt

\* Whatever resumes the target into continue has it run.
LEMMA UserContinues ==
  ASSUME ImageInvariant, Start \/ StartFailed \/ Continue
  PROVE  at' = "cont" /\ ~Attached' /\ (Moving' => status' = "running")
BY DEF Start, StartFailed, Continue, Ready, Resume, Resumed, Attached, Moving,
       ImageInvariant, MovesWhenWaitedFor

LEMMA UserElsewhere ==
  ASSUME UserTypes, ~Start, ~StartFailed, ~Continue
  PROVE  at' \notin {"cont", "contOver"}
BY DEF UserTypes, ForkFailed, Break, Delete, Quit, Finish, NextCommand, Step,
       Ready

LEMMA UserHit ==
  ASSUME ImageInvariant, UserTypes
  PROVE  HitInvariant'
<1>1. CASE Start \/ StartFailed \/ Continue
  <2>1. at' = "cont" /\ ~Attached' /\ (Moving' => status' = "running")
    BY <1>1, UserContinues
  <2> QED
    BY <2>1 DEF HitInvariant, RunsInContinue, StartsAtBreakpoint, EndsAfterIt
<1>2. CASE ~Start /\ ~StartFailed /\ ~Continue
  BY <1>2, UserElsewhere, ElsewhereHit
<1> QED BY <1>1, <1>2

LEMMA DebuggerHit ==
  ASSUME TypeOK, HitInvariant, DebuggerRuns
  PROVE  HitInvariant'
<1>1. CASE ContinueHits
  <2>1. /\ at' = "contOver" /\ status' = "stepping"
        /\ over' = cpu.rip - 1 /\ cpu' = SteppedBack /\ Attached
    BY <1>1 DEF ContinueHits, Resume, Resumed
  <2>2. cpu'.rip = cpu.rip - 1
    <3>1. cpu \in Cpu /\ cpu.rip - 1 \in Addr
      BY <1>1 DEF ContinueHits, IsBreakpoint, TypeOK
    <3>2. OneBack(cpu.rip) = cpu.rip - 1
      BY <3>1, ProgramAssumption DEF OneBack, NoAddr, Cpu
    <3> QED BY <2>1, <3>1, <3>2 DEF SteppedBack, Cpu
  <2> QED
    BY <2>1, <2>2
       DEF HitInvariant, RunsInContinue, StartsAtBreakpoint, EndsAfterIt,
           Attached
<1>2. CASE ~ContinueHits
  <2>1. at' \notin {"cont", "contOver"}
    BY <1>2
       DEF DebuggerRuns, TargetGone, ContinueStops, ContinueSteppedOver,
           FinishStops, FinishSteppedOver, NextRunsCall, NextSteps,
           NextCallStops, NextSteppedOver, NextStepped, NextDecides, StepAgain,
           StepEnds
  <2> QED BY <2>1, ElsewhereHit
<1> QED BY <1>1, <1>2

LEMMA EnvironmentHit ==
  ASSUME ImageInvariant, HitInvariant, TargetRuns \/ SignalStop \/ Killed
  PROVE  HitInvariant'
<1>1. UNCHANGED debuggerVars
  BY DEF TargetRuns, ExecTrap, ExecOriginal, ExecExit, ExecFault, ExecStray,
         SignalStop, Killed
<1>2. at' = at /\ over' = over /\ m_breakpoints' = m_breakpoints
  BY <1>1 DEF debuggerVars
<1>3. CASE ExecTrap
  <2>1. status' = "stopped" /\ why' = "trap" /\ Moving /\ Patched(cpu.rip)
    BY <1>3 DEF ExecTrap, StopFor
  <2>2. at # "contOver"
    <3>1. at = "contOver" => cpu.rip = over
      BY <2>1 DEF HitInvariant, StartsAtBreakpoint
    <3>2. at = "contOver" /\ over \in Addr => text[over] = "op"
      BY <2>1 DEF ImageInvariant, TextAsPatched, Alive, Trapped, Planted
    <3> QED BY <2>1, <3>1, <3>2 DEF Patched
  <2> QED
    BY <1>2, <2>1, <2>2
       DEF HitInvariant, RunsInContinue, StartsAtBreakpoint, EndsAfterIt,
           Moving
<1>4. CASE ExecOriginal \/ ExecStray
  <2>1. AfterInstruction /\ Moving
    BY <1>4 DEF ExecOriginal, ExecStray
  <2> QED
    BY <1>2, <2>1
       DEF HitInvariant, RunsInContinue, StartsAtBreakpoint, EndsAfterIt,
           Moving, Attached, AfterInstruction
<1>5. CASE ExecExit \/ Killed
  <2>1. status' = "zombie"
    BY <1>5 DEF ExecExit, Killed
  <2> QED
    BY <2>1
       DEF HitInvariant, RunsInContinue, StartsAtBreakpoint, EndsAfterIt,
           Moving, Attached
<1>6. CASE ExecFault \/ SignalStop
  <2>1. Moving /\ status' = "stopped" /\ why' = "signal" /\ cpu' = cpu
    BY <1>6 DEF ExecFault, SignalStop, StopFor
  <2> QED
    BY <1>2, <2>1
       DEF HitInvariant, RunsInContinue, StartsAtBreakpoint, EndsAfterIt, Moving
<1> QED BY <1>3, <1>4, <1>5, <1>6 DEF TargetRuns

LEMMA NextHit ==
  ASSUME TypeOK, ImageInvariant, HitInvariant, [Next]_vars
  PROVE  HitInvariant'
<1>1. CASE UNCHANGED vars
  BY <1>1 DEF vars, HitInvariant, RunsInContinue, StartsAtBreakpoint,
              EndsAfterIt, Moving, Attached
<1>2. CASE Next
  BY <1>1, <1>2, UserHit, DebuggerHit, EnvironmentHit DEF Next, Exited
<1> QED BY <1>1, <1>2

THEOREM SpecHit == Spec => []HitInvariant
<1>1. TypeOK /\ ImageInvariant /\ HitInvariant /\ [Next]_vars => HitInvariant'
  BY NextHit
<1> QED
  BY <1>1, InitHit, TypeCorrect, ImageInvariantCorrect, PTL DEF Spec

(* The single step of step_over executes the instruction at the breakpoint *)
(* or, if a signal comes first, none: it never runs into a trap.           *)
THEOREM StepOverExecutesCorrect == Spec => StepOverExecutes
<1>1. HitInvariant =>
        [ContinueSteppedOver /\ Attached =>
           why = "step" \/ (why = "signal" /\ cpu.rip = over)]_vars
  BY DEF ContinueSteppedOver, HitInvariant, EndsAfterIt
<1> QED BY <1>1, SpecHit, PTL DEF StepOverExecutes
-----------------------------------------------------------------------------
(* A signal, or a fault, that stops the target one byte after a breakpoint *)
(* looks like a hit of it (LooksLikeHit, below, tells where it can).       *)
SignalMisses ==
  ExecFault \/ SignalStop => ~(at = "cont" /\ IsBreakpoint(cpu.rip - 1))

SignalsMiss == [][SignalMisses]_vars

HitsAreTraps ==
  at = "cont" /\ Attached /\ IsBreakpoint(cpu.rip - 1) => why = "trap"

LEMMA NextTraps ==
  ASSUME ImageInvariant, HitInvariant, HitsAreTraps,
         [Next]_vars, [SignalMisses]_vars
  PROVE  HitsAreTraps'
<1>1. CASE UNCHANGED vars
  BY <1>1 DEF vars, HitsAreTraps, Attached, IsBreakpoint
<1>2. CASE UserTypes
  BY <1>2, UserContinues, UserElsewhere DEF HitsAreTraps
<1>3. CASE DebuggerRuns
  <2>1. at' # "cont"
    BY <1>3
       DEF DebuggerRuns, TargetGone, ContinueStops, ContinueHits,
           ContinueSteppedOver, FinishStops, FinishSteppedOver, NextRunsCall,
           NextSteps, NextCallStops, NextSteppedOver, NextStepped, NextDecides,
           StepAgain, StepEnds
  <2> QED BY <2>1 DEF HitsAreTraps
<1>4. CASE TargetRuns \/ SignalStop \/ Killed
  <2>1. at' = at /\ m_breakpoints' = m_breakpoints
    BY <1>4
       DEF TargetRuns, ExecTrap, ExecOriginal, ExecExit, ExecFault, ExecStray,
           SignalStop, Killed, debuggerVars
  <2>2. CASE ExecTrap
    BY <2>2 DEF ExecTrap, StopFor, HitsAreTraps
  <2>3. CASE ExecOriginal \/ ExecStray
    <3>1. AfterInstruction /\ Moving
      BY <2>3 DEF ExecOriginal, ExecStray
    <3> QED
      BY <2>1, <3>1 DEF HitsAreTraps, HitInvariant, RunsInContinue, Attached,
                        AfterInstruction, Moving
  <2>4. CASE ExecExit \/ Killed
    BY <2>4 DEF ExecExit, Killed, HitsAreTraps, Attached
  <2>5. CASE ExecFault \/ SignalStop
    <3>1. cpu' = cpu /\ (SignalMisses \/ UNCHANGED vars)
      BY <2>5 DEF ExecFault, SignalStop
    <3> QED
      BY <1>1, <2>1, <2>5, <3>1 DEF SignalMisses, HitsAreTraps, IsBreakpoint
  <2> QED BY <1>4, <2>2, <2>3, <2>4, <2>5 DEF TargetRuns
<1> QED BY <1>1, <1>2, <1>3, <1>4 DEF Next, Exited

LEMMA SpecTraps == Spec /\ SignalsMiss => []HitsAreTraps
<1>1. Init => HitsAreTraps
  BY DEF Init, HitsAreTraps
<1>2. /\ ImageInvariant /\ HitInvariant /\ HitsAreTraps
      /\ [Next]_vars /\ [SignalMisses]_vars
      => HitsAreTraps'
  BY NextTraps
<1> QED
  BY <1>1, <1>2, ImageInvariantCorrect, SpecHit, PTL DEF Spec, SignalsMiss
-----------------------------------------------------------------------------
(* The temporary breakpoint of finish and next.                            *)

(* While finish or next waits at a temporary breakpoint, nothing else      *)
(* stops the target, and no user breakpoint is hit by any command but      *)
(* continue.                                                               *)
StepUndisturbed ==
  /\ ExecFault \/ SignalStop => ~Planted
  /\ ExecTrap /\ IsBreakpoint(cpu.rip) => at \in {"cont", "contOver"}

StepsUndisturbed == [][StepUndisturbed]_vars

(* The stop it waits for is then the one that comes.                       *)
RunsToTmp == Planted /\ Moving => status = "running"

StopsAtTmp ==
  Planted /\ Attached =>
    why = "trap" /\ cpu.rip - 1 = tmp.addr /\ tmp.addr \in Addr

TmpInvariant == RunsToTmp /\ StopsAtTmp

LEMMA ElsewhereTmp == ~Planted' => TmpInvariant'
BY DEF TmpInvariant, RunsToTmp, StopsAtTmp

\* What is patched elsewhere than at a user breakpoint is the temporary one.
LEMMA TrapIsSeen ==
  ASSUME TypeOK, ImageInvariant, HitInvariant, StepUndisturbed, ExecTrap
  PROVE  \/ at = "cont" /\ IsBreakpoint(cpu.rip)
         \/ Planted /\ cpu.rip = tmp.addr /\ tmp.addr \in Addr
<1>1. Moving /\ cpu.rip \in Addr /\ text[cpu.rip] = "trap"
  BY DEF ExecTrap, Patched
<1>2. Trapped(cpu.rip)
  BY <1>1 DEF ImageInvariant, TextAsPatched, Alive
<1>3. CASE IsBreakpoint(cpu.rip) /\ cpu.rip # over
  <2>1. at # "contOver"
    BY <1>1, <1>3 DEF HitInvariant, StartsAtBreakpoint
  <2> QED BY <1>3, <2>1 DEF StepUndisturbed
<1>4. CASE Planted /\ cpu.rip = tmp.addr
  BY <1>1, <1>4
<1> QED BY <1>2, <1>3, <1>4 DEF Trapped

LEMMA NextTmp ==
  ASSUME TypeOK, ImageInvariant, TmpInvariant, [Next]_vars, [StepUndisturbed]_vars
  PROVE  TmpInvariant'
<1>1. CASE UNCHANGED vars
  BY <1>1 DEF vars, TmpInvariant, RunsToTmp, StopsAtTmp, Planted, Moving, Attached
<1>2. CASE Finish \/ NextRunsCall
  <2>1. status' = Resumed("running") /\ status \notin {"running", "stepping"}
    <3>1. at \in {"prompt", "next"}
      BY <1>2 DEF Finish, NextRunsCall, Ready
    <3>2. ~Moving
      BY <3>1 DEF ImageInvariant, MovesWhenWaitedFor
    <3>3. status' = Resumed("running")
      BY <1>2 DEF Finish, NextRunsCall, RunToTmp, Resume
    <3> QED BY <3>2, <3>3 DEF Moving
  <2>2. ~Attached' /\ (Moving' => status' = "running")
    BY <2>1 DEF Resumed, Attached, Moving
  <2> QED BY <2>2 DEF TmpInvariant, RunsToTmp, StopsAtTmp
<1>3. CASE /\ UserTypes \/ DebuggerRuns
           /\ ~Finish /\ ~NextRunsCall
  <2>1. at' \notin {"finish", "nextCall"}
    BY <1>3
       DEF UserTypes, Start, StartFailed, ForkFailed, Break, Delete, Quit,
           Continue, NextCommand, Step, Ready, DebuggerRuns, TargetGone, ContinueStops,
           ContinueHits, ContinueSteppedOver, FinishStops, FinishSteppedOver,
           NextSteps, NextCallStops, NextSteppedOver, NextStepped, NextDecides,
           StepAgain, StepEnds
  <2> QED BY <2>1, ElsewhereTmp DEF Planted
<1>4. CASE (TargetRuns \/ SignalStop \/ Killed) /\ StepUndisturbed
  <2>1. at' = at /\ tmp' = tmp
    BY <1>4
       DEF TargetRuns, ExecTrap, ExecOriginal, ExecExit, ExecFault, ExecStray,
           SignalStop, Killed, debuggerVars
  <2>2. CASE ExecTrap
    <3>1. /\ status' = "stopped" /\ why' = "trap" /\ cpu'.rip = cpu.rip + 1
      BY <2>2 DEF ExecTrap, StopFor, TypeOK, Cpu
    <3>2. Moving /\ cpu.rip \in Addr /\ text[cpu.rip] = "trap"
      BY <2>2 DEF ExecTrap, Patched
    <3>3. Trapped(cpu.rip)
      BY <3>2 DEF ImageInvariant, TextAsPatched, Alive
    <3>4. Planted => cpu.rip = tmp.addr
      BY <1>4, <2>2, <3>3 DEF Trapped, StepUndisturbed, Planted
    <3>5. cpu'.rip - 1 = cpu.rip
      BY <3>1 DEF TypeOK, Cpu
    <3> QED
      BY <2>1, <3>1, <3>2, <3>4, <3>5
         DEF TmpInvariant, RunsToTmp, StopsAtTmp, Planted, Moving
  <2>3. CASE ExecOriginal \/ ExecStray
    <3>1. AfterInstruction /\ Moving
      BY <2>3 DEF ExecOriginal, ExecStray
    <3> QED
      BY <2>1, <3>1
         DEF TmpInvariant, RunsToTmp, StopsAtTmp, Planted, Moving, Attached,
             AfterInstruction
  <2>4. CASE ExecExit \/ Killed
    <3>1. status' = "zombie"
      BY <2>4 DEF ExecExit, Killed
    <3> QED
      BY <3>1 DEF TmpInvariant, RunsToTmp, StopsAtTmp, Moving, Attached
  <2>5. CASE ExecFault \/ SignalStop
    BY <1>4, <2>1, <2>5, ElsewhereTmp DEF StepUndisturbed, Planted
  <2> QED BY <1>4, <2>2, <2>3, <2>4, <2>5 DEF TargetRuns
<1> QED BY <1>1, <1>2, <1>3, <1>4 DEF Next, Exited

THEOREM SpecTmp == Spec /\ StepsUndisturbed => []TmpInvariant
<1>1. Init => TmpInvariant
  BY DEF Init, TmpInvariant, RunsToTmp, StopsAtTmp, Planted
<1>2. /\ TypeOK /\ ImageInvariant /\ TmpInvariant
      /\ [Next]_vars /\ [StepUndisturbed]_vars
      => TmpInvariant'
  BY NextTmp
<1> QED
  BY <1>1, <1>2, TypeCorrect, ImageInvariantCorrect, PTL DEF Spec, StepsUndisturbed

(* finish and next step back over the trap of their temporary breakpoint,  *)
(* in any program, if nothing else stops the target on the way.            *)
THEOREM StepsBackCorrect == Spec /\ StepsUndisturbed => StepsBackOverOwnTrap
<1>1. TmpInvariant =>
        [FinishStops \/ NextCallStops =>
           why = "trap" /\ cpu.rip - 1 = tmp.addr]_vars
  BY DEF TmpInvariant, StopsAtTmp, FinishStops, NextCallStops, Planted
<1> QED BY <1>1, SpecTmp, PTL DEF StepsBackOverOwnTrap
-----------------------------------------------------------------------------
(* The target under all commands.                                          *)

(* The programs compilers make: instructions lie next to each other, and   *)
(* control goes from one to the start of another, or leaves the text.      *)
NoOverlap ==
  \A a, b \in DOMAIN Program : a < b => a + Program[a].len <= b

OnInstruction(a) == a \in Addr => a \in DOMAIN Program

FlowStaysOnInstructions ==
  \A a \in DOMAIN Program :
    /\ Program[a].to \subseteq DOMAIN Program
    /\ OnInstruction(a + Program[a].len)

PlainProgram == NoOverlap /\ FlowStaysOnInstructions

\* rip, and every address rip may return to, are at instructions.
OnInstructions(c) ==
  OnInstruction(c.rip) /\ \A k \in DOMAIN c.stack : OnInstruction(c.stack[k])

(* Where a trap may be waiting to be looked at.  Every command looks at it *)
(* before anything else happens, so that the prompt always finds the       *)
(* target where it would be without one.                                   *)
TrapPoints == {"cont", "finish", "nextCall", "exited"}

NativeInvariant ==
  /\ why = "trap" => at \in TrapPoints /\ ~Moving
  /\ why = "trap" /\ Attached /\ at = "cont" => IsBreakpoint(cpu.rip - 1)
  /\ \A a \in Addr : m_breakpoints[a] # "none" => a \in BreakAddrs
  /\ Planted => OnInstruction(tmp.addr)
  /\ OnInstructions(LogicalCpu)

\* The debugger and the target know where they are, ...
Placed ==
  /\ TypeOK /\ ImageInvariant
  /\ HitInvariant /\ TmpInvariant /\ NativeInvariant

\* ... and so the target seems to run by itself, if hits are traps.
LikeNative == Placed /\ HitsAreTraps

LEMMA SuccessorsOnInstructions ==
  ASSUME FlowStaysOnInstructions, NEW c \in Cpu, c.rip \in DOMAIN Program,
         OnInstructions(c), NEW d \in Successors(c)
  PROVE  OnInstructions(d)
<1>1. PICK i \in Instruction : i = Program[c.rip]
  BY ProgramAssumption
<1>2. i.to \subseteq DOMAIN Program /\ OnInstruction(FallThrough(c))
  BY <1>1 DEF FlowStaysOnInstructions, FallThrough
<1>3. FallThrough(c) \in Int
  <2>1. i.len \in Nat /\ c.rip \in Int
    BY DEF Instruction, Cpu
  <2> QED BY <1>1, <2>1 DEF FallThrough
<1>4. /\ c.stack \in Seq(Int) /\ Len(c.stack) \in Nat
      /\ DOMAIN c.stack = 1 .. Len(c.stack)
      /\ \A k \in DOMAIN c.stack : OnInstruction(c.stack[k])
  BY DEF OnInstructions, Cpu
<1>5. i.kind \in Kinds
  BY DEF Instruction
<1>6. CASE i.kind \in {"seq", "jump", "enter"}
  <2>1. d.stack = c.stack /\ (d.rip \in i.to \/ d.rip = FallThrough(c))
    BY <1>1, <1>6 DEF Successors, Cpu
  <2> QED BY <1>2, <1>4, <2>1 DEF OnInstructions, OnInstruction
<1>7. CASE i.kind \in {"call", "icall"}
  <2>1. d.rip \in i.to /\ d.stack = Append(c.stack, FallThrough(c))
    <3>1. PICK t \in i.to :
            d = [c EXCEPT !.rip = t, !.stack = Append(c.stack, FallThrough(c))]
      BY <1>1, <1>7 DEF Successors
    <3> QED BY <3>1 DEF Cpu
  <2>2. /\ DOMAIN d.stack = 1 .. Len(c.stack) + 1
        /\ d.stack[Len(c.stack) + 1] = FallThrough(c)
        /\ \A k \in 1 .. Len(c.stack) : d.stack[k] = c.stack[k]
    BY <1>3, <1>4, <2>1
  <2>3. ASSUME NEW k \in 1 .. Len(c.stack) + 1 PROVE OnInstruction(d.stack[k])
    <3>1. k = Len(c.stack) + 1 \/ k \in 1 .. Len(c.stack)
      BY <1>4
    <3> QED BY <1>2, <1>4, <2>2, <3>1
  <2> QED BY <1>2, <2>1, <2>2, <2>3 DEF OnInstructions, OnInstruction
<1>8. CASE i.kind = "ret"
  <2>1. /\ c.stack # << >>
        /\ d.rip = c.stack[Len(c.stack)] /\ d.stack = Pop(c.stack)
    BY <1>1, <1>8 DEF Successors
  <2>2. Len(c.stack) \in 1 .. Len(c.stack)
    BY <1>4, <2>1
  <2>3. /\ DOMAIN d.stack = 1 .. Len(c.stack) - 1
        /\ \A k \in 1 .. Len(c.stack) - 1 : d.stack[k] = c.stack[k]
    BY <1>4, <2>1, <2>2 DEF Pop
  <2>4. \A k \in 1 .. Len(c.stack) - 1 : k \in 1 .. Len(c.stack)
    BY <1>4
  <2> QED BY <1>4, <2>1, <2>2, <2>3, <2>4 DEF OnInstructions
<1>9. CASE i.kind \in {"exit", "fault"}
  BY <1>1, <1>9 DEF Successors
<1> QED BY <1>5, <1>6, <1>7, <1>8, <1>9 DEF Kinds

\* An instruction without a trap at its start has none further on either.
LEMMA UntrappedIsIntact ==
  ASSUME TypeOK, ImageInvariant, NativeInvariant, NoOverlap, Alive,
         NEW a \in DOMAIN Program, ~Patched(a)
  PROVE  Intact(a)
<1>1. /\ a \in Nat /\ a \in Addr /\ Program[a].len \in Nat
      /\ a .. (a + Program[a].len - 1) \subseteq Addr
  BY ProgramAssumption, TextAssumption DEF Instruction
<1>2. SUFFICES ASSUME NEW b \in a .. (a + Program[a].len - 1), text[b] # "op"
               PROVE  FALSE
  BY DEF Intact
<1>3. b \in Addr /\ b \in Int /\ a <= b /\ b < a + Program[a].len
  BY <1>1, <1>2
<1>4. Trapped(b) /\ text[b] = "trap"
  BY <1>2, <1>3 DEF ImageInvariant, TextAsPatched
<1>5. b \in DOMAIN Program
  BY <1>3, <1>4, DebuggerAssumption
     DEF Trapped, IsBreakpoint, NativeInvariant, OnInstruction
<1>6. a # b
  BY <1>3, <1>4 DEF Patched
<1>7. a + Program[a].len <= b
  BY <1>1, <1>3, <1>5, <1>6 DEF NoOverlap
<1> QED BY <1>1, <1>3, <1>7

\* While the target runs, and at the prompt, it is where it seems to be.
LEMMA NoTrapPending ==
  ASSUME NativeInvariant, Moving \/ at \notin TrapPoints
  PROVE  why # "trap" /\ LogicalCpu = cpu
BY DEF NativeInvariant, LogicalCpu

LEMMA InitNative == Init => NativeInvariant
<1> SUFFICES ASSUME Init PROVE NativeInvariant
  OBVIOUS
<1>1. LogicalCpu = InitialCpu /\ why = "none" /\ at = "prompt"
  BY DEF Init, LogicalCpu
<1>2. OnInstructions(InitialCpu)
  BY ProgramAssumption DEF OnInstructions, OnInstruction, InitialCpu
<1> QED
  BY <1>1, <1>2, Zenon DEF NativeInvariant, Planted, Init

(* Two kinds of step: the target seems not to have moved, ...              *)
SeemsStill ==
  LogicalCpu' = LogicalCpu /\ (Life' = Life \/ Life' = "dead" \/
                               (Life = "none" /\ Life' = "alive"))

(* ... or it has executed an instruction of the program.                   *)
SeemsToRun ==
  /\ LogicalCpu.rip \in DOMAIN Program
  /\ LogicalCpu' \in Successors(LogicalCpu)
  /\ Life = "alive" /\ Life' = "alive"

\* What is asked of every step.
GoesOn ==
  /\ NativeInvariant'
  /\ HitsAreTraps => SeemsStill \/ SeemsToRun

\* A step that leaves no trap to be looked at and does not run the target.
LEMMA StillGoesOn ==
  ASSUME Placed, SeemsStill, why' # "trap",
         \A a \in Addr : m_breakpoints'[a] # "none" =>
                            m_breakpoints[a] # "none" \/ a \in BreakAddrs,
         Planted' => OnInstruction(tmp.addr)'
  PROVE  GoesOn
<1>1. \A a \in Addr : m_breakpoints'[a] # "none" => a \in BreakAddrs
  BY DEF Placed, NativeInvariant
<1>2. OnInstructions(LogicalCpu)'
  BY DEF Placed, NativeInvariant, SeemsStill, OnInstructions
<1> QED BY <1>1, <1>2 DEF GoesOn, NativeInvariant

LEMMA UserGoesOn ==
  ASSUME Placed, UserTypes
  PROVE  GoesOn
<1>1. at = "prompt" /\ NativeInvariant /\ TypeOK /\ ImageInvariant
  BY DEF Placed, UserTypes, Start, StartFailed, ForkFailed, Break, Delete, Quit,
         Continue, Finish, NextCommand, Step, Ready
<1>2. why # "trap" /\ LogicalCpu = cpu
  BY <1>1, NoTrapPending DEF TrapPoints
<1>3. cpu' = cpu /\ why' \in {why, "none"}
  BY DEF UserTypes, Start, StartFailed, ForkFailed, Break, Delete, Quit,
         Continue, Finish, NextCommand, Step, RunToTmp, Resume, targetVars
<1>4. why' # "trap" /\ LogicalCpu' = LogicalCpu
  BY <1>2, <1>3 DEF LogicalCpu
<1>5. SeemsStill
  <2>1. CASE Start \/ StartFailed
    <3>1. status = "none" /\ status' \in {"running", "reaped"}
      BY <1>1, <2>1 DEF Start, StartFailed, ImageInvariant, BeforeStart
    <3> QED BY <1>4, <3>1 DEF SeemsStill, Life, Dead
  <2>2. CASE ~Start /\ ~StartFailed
    <3>1. \/ status' = status \/ (Attached /\ status' = "released")
          \/ status' = Resumed("running") \/ status' = Resumed("stepping")
      BY <2>2
         DEF UserTypes, ForkFailed, Break, Delete, Quit, Continue, Finish, NextCommand,
             Step, RunToTmp, Resume, targetVars
    <3>2. Life' = Life
      BY <3>1 DEF Resumed, Attached, Life, Dead
    <3> QED BY <1>4, <3>2 DEF SeemsStill
  <2> QED BY <2>1, <2>2
<1>6. ASSUME NEW a \in Addr, m_breakpoints'[a] # "none"
      PROVE  m_breakpoints[a] # "none" \/ a \in BreakAddrs
  <2>1. CASE Start \/ StartFailed
    BY <1>1, <1>6, <2>1, DebuggerAssumption
       DEF Start, StartFailed, BreakOnMain, TypeOK
  <2>2. ASSUME NEW b \in BreakAddrs, Break(b)
        PROVE  m_breakpoints[a] # "none" \/ a \in BreakAddrs
    BY <1>1, <1>6, <2>2 DEF Break, TypeOK
  <2>3. CASE Delete
    BY <1>6, <2>3 DEF Delete
  <2>4. CASE /\ ForkFailed \/ Quit \/ Continue \/ Finish \/ NextCommand
                \/ \E n \in StepCounts : Step(n)
    BY <1>6, <2>4 DEF ForkFailed, Quit, Continue, Finish, NextCommand, Step
  <2> QED BY <2>1, <2>2, <2>3, <2>4 DEF UserTypes
<1>7. ASSUME Planted' PROVE OnInstruction(tmp.addr)'
  <2>1. Finish
    BY <1>1, <1>7
       DEF Planted, UserTypes, Start, StartFailed, ForkFailed, Break, Delete,
           Quit, Continue, NextCommand, Step
  <2>2. tmp'.addr = ReturnAddress(cpu) \/ tmp'.addr = NoAddr
    BY <2>1 DEF Finish, RunToTmp
  <2>3. NoAddr \notin Addr
    BY ProgramAssumption DEF NoAddr
  <2>4. OnInstruction(ReturnAddress(cpu))
    <3>1. cpu.rbp \in 1 .. Len(cpu.stack) => cpu.rbp \in DOMAIN cpu.stack
      BY <1>1 DEF TypeOK, Cpu
    <3> QED
      BY <1>1, <1>2, <2>3, <3>1
         DEF ReturnAddress, NativeInvariant, OnInstructions, OnInstruction
  <2> QED BY <2>2, <2>3, <2>4 DEF OnInstruction
<1> QED BY <1>4, <1>5, <1>6, <1>7, StillGoesOn

(* step_over steps back to an instruction, and over the trap the target    *)
(* has stopped at if it has stopped at one.                                *)
LEMMA StepBack ==
  ASSUME Placed, ContinueHits \/ FinishStops \/ NextCallStops
  PROVE  /\ cpu' = [cpu EXCEPT !.rip = cpu.rip - 1]
         /\ cpu.rip - 1 \in DOMAIN Program \/ why = "trap"
         /\ HitsAreTraps => why = "trap"
         /\ LogicalCpu' = cpu'
         /\ why = "trap" => LogicalCpu' = LogicalCpu
<1>1. Attached /\ cpu' = SteppedBack /\ why' = "none" /\ TypeOK
  BY DEF ContinueHits, FinishStops, NextCallStops, StepOverTmp, Resume, Placed
<1>2. /\ cpu.rip - 1 \in Addr
      /\ ContinueHits => cpu.rip - 1 \in DOMAIN Program
      /\ ~ContinueHits => why = "trap"
  BY DebuggerAssumption
     DEF Placed, ContinueHits, IsBreakpoint, NativeInvariant, FinishStops,
         NextCallStops, TmpInvariant, StopsAtTmp, Planted
<1>3. cpu' = [cpu EXCEPT !.rip = cpu.rip - 1]
  <2>1. OneBack(cpu.rip) = cpu.rip - 1
    BY <1>1, <1>2, ProgramAssumption DEF TypeOK, Cpu, OneBack, NoAddr
  <2> QED BY <1>1, <2>1 DEF SteppedBack
<1>4. LogicalCpu' = cpu' /\ (why = "trap" => LogicalCpu' = LogicalCpu)
  BY <1>1, <1>3 DEF LogicalCpu
<1>5. HitsAreTraps => why = "trap"
  BY <1>2 DEF HitsAreTraps, ContinueHits
<1> QED BY <1>2, <1>3, <1>4, <1>5

LEMMA StepBackGoesOn ==
  ASSUME Placed, ContinueHits \/ FinishStops \/ NextCallStops
  PROVE  GoesOn
<1>1. /\ Attached /\ why' = "none" /\ status' = "stepping"
      /\ m_breakpoints' = m_breakpoints /\ ~Planted'
      /\ NativeInvariant /\ cpu \in Cpu
  BY DEF ContinueHits, FinishStops, NextCallStops, StepOverTmp, Resume, Resumed,
         Planted, Placed, TypeOK
<1>2. OnInstructions(LogicalCpu)'
  <2>1. OnInstructions(LogicalCpu) /\ LogicalCpu.stack = cpu.stack
    BY <1>1 DEF NativeInvariant, LogicalCpu, Cpu
  <2>2. CASE why = "trap"
    BY <2>1, <2>2, StepBack DEF OnInstructions
  <2>3. CASE cpu.rip - 1 \in DOMAIN Program
    <3>1. LogicalCpu' = [cpu EXCEPT !.rip = cpu.rip - 1]
      BY StepBack
    <3>2. LogicalCpu'.rip = cpu.rip - 1 /\ LogicalCpu'.stack = cpu.stack
      BY <1>1, <3>1 DEF Cpu
    <3> QED BY <2>1, <2>3, <3>2 DEF OnInstructions, OnInstruction
  <2> QED BY <2>2, <2>3, StepBack
<1>3. NativeInvariant'
  BY <1>1, <1>2 DEF NativeInvariant
<1>4. HitsAreTraps => SeemsStill
  BY <1>1, StepBack DEF SeemsStill, Life, Dead, Attached
<1> QED BY <1>3, <1>4 DEF GoesOn

LEMMA DebuggerGoesOn ==
  ASSUME PlainProgram, Placed, DebuggerRuns
  PROVE  GoesOn
<1>1. /\ TypeOK /\ ImageInvariant /\ HitInvariant /\ NativeInvariant
      /\ at \in Points
  BY DEF Placed, TypeOK
<1>2. CASE TargetGone
  <2>1. /\ cpu' = cpu /\ why' = why /\ at' = "exited" /\ status' = "reaped"
        /\ m_breakpoints' = m_breakpoints
    BY <1>2 DEF TargetGone
  <2>2. LogicalCpu' = LogicalCpu
    BY <2>1 DEF LogicalCpu
  <2>3. NativeInvariant'
    BY <1>1, <2>1, <2>2
       DEF NativeInvariant, TrapPoints, Planted, Moving, Attached, OnInstructions
  <2>4. SeemsStill
    BY <2>1, <2>2 DEF SeemsStill, Life, Dead
  <2> QED BY <2>3, <2>4 DEF GoesOn
<1>3. CASE ContinueHits \/ FinishStops \/ NextCallStops
  BY <1>3, StepBackGoesOn
<1>4. CASE /\ ~TargetGone
           /\ ~ContinueHits /\ ~FinishStops /\ ~NextCallStops
  <2>1. why # "trap"
    <3>1. CASE ContinueStops
      BY <1>1, <3>1 DEF ContinueStops, NativeInvariant
    <3>2. CASE ~ContinueStops
      <4>1. at \in {"contOver", "finishOver", "next", "nextOver", "nextStep",
                    "step"}
        BY <1>4, <3>2
           DEF DebuggerRuns, ContinueSteppedOver, FinishSteppedOver,
               NextRunsCall, NextSteps, NextSteppedOver, NextStepped, StepAgain,
               StepEnds
      <4> QED BY <1>1, <4>1, NoTrapPending DEF TrapPoints
    <3> QED BY <3>1, <3>2
  <2>2. cpu' = cpu /\ why' \in {why, "none"}
    BY <1>4
       DEF DebuggerRuns, ContinueStops, ContinueSteppedOver, FinishSteppedOver,
           NextRunsCall, NextSteps, NextSteppedOver, NextStepped, StepAgain,
           StepEnds, targetVars, RunToTmp, DropTmp, Resume
  <2>3. \/ status' \in {status, Reaped}
        \/ status' \in {Resumed("running"), Resumed("stepping")}
    BY <1>4
       DEF DebuggerRuns, ContinueStops, ContinueSteppedOver, FinishSteppedOver,
           NextRunsCall, NextSteps, NextSteppedOver, NextStepped, StepAgain,
           StepEnds, targetVars, RunToTmp, DropTmp, Resume
  <2>4. SeemsStill
    <3>1. Life' = Life
      BY <2>3 DEF Resumed, Reaped, Attached, Life, Dead
    <3>2. LogicalCpu' = LogicalCpu
      BY <2>1, <2>2 DEF LogicalCpu
    <3> QED BY <3>1, <3>2 DEF SeemsStill
  <2>5. ASSUME NEW a \in Addr, m_breakpoints'[a] # "none"
        PROVE  m_breakpoints[a] # "none"
    <3>1. CASE ContinueSteppedOver
      BY <1>1, <2>5, <3>1
         DEF ContinueSteppedOver, ImageInvariant, SteppingOver, IsBreakpoint,
             TypeOK
    <3>2. CASE ~ContinueSteppedOver
      BY <1>4, <2>5, <3>2
         DEF DebuggerRuns, ContinueStops, FinishSteppedOver, NextRunsCall,
             NextSteps, NextSteppedOver, NextStepped, StepAgain, StepEnds
    <3> QED BY <3>1, <3>2
  <2>6. ASSUME Planted' PROVE OnInstruction(tmp.addr)'
    <3>1. NextRunsCall
      BY <1>4, <2>6
         DEF DebuggerRuns, ContinueStops, ContinueSteppedOver,
             FinishSteppedOver, NextSteps, NextSteppedOver, NextStepped,
             NextDecides, StepAgain, StepEnds, Planted
    <3>2. tmp'.addr = cpu.rip + CallLength /\ at = "next"
      BY <3>1 DEF NextRunsCall, RunToTmp
    <3>3. OnInstruction(cpu.rip)
      BY <1>1, <3>2, NoTrapPending DEF TrapPoints, NativeInvariant, OnInstructions
    <3>4. IsCall(cpu.rip)
      BY <3>1, <3>3 DEF NextRunsCall, MayBeCall, B!Peek, OnInstruction
    <3>5. OnInstruction(cpu.rip + CallLength)
      BY <3>4, TextAssumption DEF IsCall, PlainProgram, FlowStaysOnInstructions
    <3> QED BY <3>2, <3>5 DEF OnInstruction
  <2> QED BY <2>1, <2>2, <2>4, <2>5, <2>6, StillGoesOn
<1> QED BY <1>2, <1>3, <1>4

\* So the target never executes half an instruction.
LEMMA NeverStrays ==
  ASSUME PlainProgram, Placed
  PROVE  ~ExecStray
<1> SUFFICES ASSUME ExecStray PROVE FALSE
  OBVIOUS
<1>1. /\ TypeOK /\ ImageInvariant /\ NativeInvariant
      /\ Moving /\ cpu.rip \in Addr /\ ~Patched(cpu.rip) /\ ~Intact(cpu.rip)
  BY DEF Placed, ExecStray
<1>2. LogicalCpu = cpu /\ Alive
  BY <1>1, NoTrapPending DEF Alive
<1>3. cpu.rip \in DOMAIN Program
  BY <1>1, <1>2 DEF NativeInvariant, OnInstructions, OnInstruction
<1> QED BY <1>1, <1>2, <1>3, UntrappedIsIntact DEF PlainProgram

\* To run into a trap is to stay before it.
LEMMA TrapStaysStill ==
  ASSUME Placed, ExecTrap
  PROVE  LogicalCpu' = LogicalCpu
<1>1. /\ cpu' = [cpu EXCEPT !.rip = cpu.rip + 1] /\ cpu \in Cpu
      /\ why' = "trap" /\ Moving
  BY DEF Placed, TypeOK, ExecTrap, StopFor
<1>2. LogicalCpu = cpu
  BY <1>1, NoTrapPending DEF Placed
<1>3. cpu'.rip - 1 = cpu.rip
  BY <1>1 DEF Cpu
<1>4. LogicalCpu' = [cpu' EXCEPT !.rip = cpu.rip]
  BY <1>1, <1>3 DEF LogicalCpu
<1>5. [cpu' EXCEPT !.rip = cpu.rip] = cpu
  BY <1>1, <1>3 DEF Cpu
<1> QED BY <1>2, <1>4, <1>5

LEMMA EnvironmentGoesOn ==
  ASSUME PlainProgram, Placed, StepUndisturbed,
         TargetRuns \/ SignalStop \/ Killed
  PROVE  GoesOn
<1>1. /\ TypeOK /\ ImageInvariant /\ HitInvariant /\ NativeInvariant
  BY DEF Placed
<1>2. UNCHANGED debuggerVars
  BY DEF TargetRuns, ExecTrap, ExecOriginal, ExecExit, ExecFault, ExecStray,
         SignalStop, Killed
<1>3. at' = at /\ m_breakpoints' = m_breakpoints /\ tmp' = tmp
  BY <1>2 DEF debuggerVars
<1>4. Planted' => OnInstruction(tmp.addr)'
  BY <1>1, <1>3 DEF NativeInvariant, Planted, OnInstruction
<1>5. Moving => why # "trap" /\ LogicalCpu = cpu /\ Life = "alive"
  BY <1>1, NoTrapPending DEF Life, Moving, Dead
<1>6. CASE ExecTrap
  <2>1. /\ cpu' = [cpu EXCEPT !.rip = cpu.rip + 1] /\ cpu \in Cpu
        /\ status' = "stopped" /\ why' = "trap" /\ Moving
    BY <1>1, <1>6 DEF ExecTrap, StopFor, TypeOK
  <2>2. cpu'.rip - 1 = cpu.rip
    BY <2>1 DEF Cpu
  <2>3. LogicalCpu' = LogicalCpu
    BY <1>6, TrapStaysStill
  <2>4. \/ at = "cont" /\ IsBreakpoint(cpu.rip)
        \/ Planted /\ cpu.rip = tmp.addr /\ tmp.addr \in Addr
    BY <1>1, <1>6, TrapIsSeen
  <2>5. at' \in TrapPoints /\ ~Moving'
    BY <1>3, <2>1, <2>4 DEF TrapPoints, Planted, Moving
  <2>6. at' = "cont" => IsBreakpoint(cpu.rip - 1)'
    BY <1>3, <2>2, <2>4 DEF IsBreakpoint, Planted
  <2>7. NativeInvariant'
    BY <1>1, <1>3, <1>4, <2>3, <2>5, <2>6 DEF NativeInvariant, OnInstructions
  <2>8. SeemsStill
    BY <1>5, <2>1, <2>3 DEF SeemsStill, Life, Dead
  <2> QED BY <2>7, <2>8 DEF GoesOn
<1>7. CASE ExecOriginal
  <2>1. /\ Moving /\ cpu.rip \in DOMAIN Program /\ cpu' \in Successors(cpu)
        /\ why' \in {why, "step"} /\ status' \in {status, "stopped"}
    BY <1>7 DEF ExecOriginal, Intact, AfterInstruction
  <2>2. LogicalCpu' = cpu'
    BY <1>5, <2>1 DEF LogicalCpu
  <2>3. OnInstructions(cpu)
    BY <1>1, <1>5, <2>1 DEF NativeInvariant
  <2>4. \A d \in Successors(cpu) : OnInstructions(d)
    BY <1>1, <2>1, <2>3, SuccessorsOnInstructions DEF PlainProgram, TypeOK
  <2>5. NativeInvariant'
    BY <1>1, <1>3, <1>4, <1>5, <2>1, <2>2, <2>4
       DEF NativeInvariant, OnInstructions
  <2>6. SeemsToRun
    BY <1>5, <2>1, <2>2 DEF SeemsToRun, Life, Moving, Dead
  <2> QED BY <2>5, <2>6 DEF GoesOn
<1>8. CASE ExecExit \/ Killed
  <2>1. cpu' = cpu /\ why' = why /\ status' = "zombie"
    BY <1>8 DEF ExecExit, Killed
  <2>2. LogicalCpu' = LogicalCpu
    BY <2>1 DEF LogicalCpu
  <2>3. NativeInvariant'
    BY <1>1, <1>3, <1>4, <2>1, <2>2
       DEF NativeInvariant, Moving, Attached, OnInstructions
  <2>4. SeemsStill
    BY <2>1, <2>2 DEF SeemsStill, Life, Dead
  <2> QED BY <2>3, <2>4 DEF GoesOn
<1>9. CASE ExecFault \/ SignalStop
  <2>1. Moving /\ cpu' = cpu /\ why' = "signal" /\ status' = "stopped"
    BY <1>9 DEF ExecFault, SignalStop, StopFor
  <2>2. LogicalCpu' = LogicalCpu
    BY <1>5, <2>1 DEF LogicalCpu
  <2>3. SeemsStill
    BY <1>5, <2>1, <2>2 DEF SeemsStill, Life, Dead
  <2> QED BY <1>3, <1>4, <2>1, <2>3, StillGoesOn
<1> QED BY <1>6, <1>7, <1>8, <1>9, NeverStrays DEF TargetRuns

LEMMA NextGoesOn ==
  ASSUME PlainProgram, Placed,
         [Next]_vars, [StepUndisturbed]_vars
  PROVE  GoesOn
<1>1. CASE UNCHANGED vars
  <2>1. LogicalCpu' = LogicalCpu /\ Life' = Life
    BY <1>1 DEF vars, LogicalCpu, Life, Dead
  <2>2. NativeInvariant'
    BY <1>1, <2>1
       DEF vars, Placed, NativeInvariant, Moving, Attached, IsBreakpoint,
           Planted, OnInstructions
  <2> QED BY <2>1, <2>2 DEF GoesOn, SeemsStill
<1>2. CASE Next /\ StepUndisturbed
  BY <1>1, <1>2, UserGoesOn, DebuggerGoesOn, EnvironmentGoesOn DEF Next, Exited
<1> QED BY <1>1, <1>2

THEOREM SpecPlaced ==
  ASSUME PlainProgram
  PROVE  Spec /\ StepsUndisturbed => []Placed
<1>1. Placed /\ [Next]_vars /\ [StepUndisturbed]_vars => NativeInvariant'
  BY NextGoesOn DEF GoesOn
<1>2. /\ TypeOK /\ ImageInvariant
      /\ HitInvariant /\ TmpInvariant /\ NativeInvariant
      => Placed
  BY DEF Placed
<1> QED
  BY <1>1, <1>2, InitNative, TypeCorrect, ImageInvariantCorrect, SpecHit,
     SpecTmp, PTL
     DEF Spec, StepsUndisturbed

THEOREM SpecLikeNative ==
  ASSUME PlainProgram
  PROVE  Spec /\ SignalsMiss /\ StepsUndisturbed => []LikeNative
<1>1. Placed /\ HitsAreTraps => LikeNative
  BY DEF LikeNative
<1> QED BY <1>1, SpecPlaced, SpecTraps, PTL

(* Whatever commands are typed, the target executes the instructions it    *)
(* would execute without a debugger, in that order, each of them once, as  *)
(* long as nothing stops a step for another reason than its own.           *)
THEOREM TransparentCorrect ==
  ASSUME PlainProgram
  PROVE  Spec /\ SignalsMiss /\ StepsUndisturbed => Transparent
<1>1. Init => Native!Init
  BY DEF Init, Native!Init, LogicalCpu, Life, Native!InitialCpu, InitialCpu
<1>2. LikeNative /\ [Next]_vars /\ [StepUndisturbed]_vars
      => [Native!Next]_(Native!nativeVars)
  <2> SUFFICES ASSUME LikeNative, [Next]_vars, [StepUndisturbed]_vars
               PROVE  [Native!Next]_(Native!nativeVars)
    OBVIOUS
  <2>1. SeemsStill \/ SeemsToRun
    BY NextGoesOn DEF GoesOn, LikeNative
  <2>2. CASE SeemsStill
    BY <2>2 DEF SeemsStill, Native!Next, Native!Load, Native!Die,
                Native!nativeVars
  <2>3. CASE SeemsToRun
    BY <2>3 DEF SeemsToRun, Native!Next, Native!Run, Native!Successors,
                Native!FallThrough, Native!Pop, Successors, FallThrough, Pop
  <2> QED BY <2>1, <2>2, <2>3
<1> QED
  BY <1>1, <1>2, SpecLikeNative, PTL
     DEF Spec, SignalsMiss, StepsUndisturbed, Transparent, Native!Spec
-----------------------------------------------------------------------------
(* Hits.  A stop in front of an instruction can be one byte after a        *)
(* breakpoint only if the instruction there is one byte long; a stop is    *)
(* always in front of an instruction, or behind a trap.                    *)

BreaksAreLong == \A a \in BreakAddrs : Program[a].len > 1

LEMMA LooksLikeHit ==
  ASSUME PlainProgram, Placed, why # "trap", IsBreakpoint(cpu.rip - 1)
  PROVE  cpu.rip - 1 \in BreakAddrs /\ Program[cpu.rip - 1].len = 1
<1> DEFINE a == cpu.rip - 1
<1>1. cpu.rip \in Int /\ a \in BreakAddrs /\ a \in DOMAIN Program
  BY DebuggerAssumption
     DEF Placed, TypeOK, Cpu, NativeInvariant, IsBreakpoint
<1>2. Program[a].len \in Nat \ {0} /\ a \in Int
  BY <1>1, ProgramAssumption DEF Instruction
<1>3. OnInstruction(cpu.rip)
  BY DEF Placed, NativeInvariant, LogicalCpu, OnInstructions
<1>4. ASSUME Program[a].len > 1 PROVE FALSE
  <2>1. cpu.rip \in a .. (a + Program[a].len - 1)
    BY <1>1, <1>2, <1>4
  <2>2. cpu.rip \in DOMAIN Program
    BY <1>1, <1>3, <2>1, TextAssumption DEF OnInstruction
  <2>3. a + Program[a].len <= cpu.rip
    BY <1>1, <2>2 DEF PlainProgram, NoOverlap
  <2> QED BY <1>1, <1>2, <1>4, <2>3
<1> QED BY <1>1, <1>2, <1>4

(* With any breakpoints, signals, faults and kills: what continue takes    *)
(* for a hit is one, or a stop behind an instruction of a single byte that *)
(* a breakpoint is on.                                                     *)
THEOREM FalseHitsAreOneByte ==
  ASSUME PlainProgram
  PROVE  Spec /\ StepsUndisturbed =>
           [][ContinueHits => why = "trap" \/ Program[cpu.rip - 1].len = 1]_vars
<1>1. Placed =>
        [ContinueHits => why = "trap" \/ Program[cpu.rip - 1].len = 1]_vars
  BY LooksLikeHit DEF ContinueHits
<1> QED BY <1>1, SpecPlaced, PTL

(* With longer instructions under the breakpoints no signal comes amiss.   *)
THEOREM LongBreaksMiss ==
  ASSUME PlainProgram, BreaksAreLong
  PROVE  Spec /\ StepsUndisturbed => SignalsMiss
<1>1. Placed => [SignalMisses]_vars
  <2> SUFFICES ASSUME Placed, ExecFault \/ SignalStop,
                      IsBreakpoint(cpu.rip - 1)
               PROVE  FALSE
    BY DEF SignalMisses
  <2>1. why # "trap"
    BY NoTrapPending DEF Placed, ExecFault, SignalStop
  <2>2. cpu.rip - 1 \in BreakAddrs /\ Program[cpu.rip - 1].len = 1
    BY <2>1, LooksLikeHit
  <2>3. Program[cpu.rip - 1].len > 1
    BY <2>2 DEF BreaksAreLong
  <2> QED BY <2>2, <2>3
<1> QED BY <1>1, SpecPlaced, PTL DEF SignalsMiss
-----------------------------------------------------------------------------
(* break, continue and delete alone disturb no step.                       *)
ContinueOnly == Commands \subseteq {"break", "continue", "delete", "quit"}

ContinuePoints == {"prompt", "cont", "contOver", "exited"}

LEMMA NextContinues ==
  ASSUME ContinueOnly, at \in ContinuePoints, [Next]_vars
  PROVE  at' \in ContinuePoints
<1>1. ~Finish /\ ~NextCommand /\ \A n \in StepCounts : ~Step(n)
  BY DEF ContinueOnly, Finish, NextCommand, Step, Ready
<1>2. CASE UserTypes
  BY <1>1, <1>2
     DEF ContinuePoints, UserTypes, Start, StartFailed, ForkFailed, Break,
         Delete, Quit, Continue
<1>3. CASE DebuggerRuns
  BY <1>3
     DEF ContinuePoints, DebuggerRuns, TargetGone, ContinueStops, ContinueHits,
         ContinueSteppedOver, FinishStops, FinishSteppedOver, NextRunsCall,
         NextSteps, NextCallStops, NextSteppedOver, NextStepped, StepAgain,
         StepEnds
<1>4. CASE TargetRuns \/ SignalStop \/ Killed
  BY <1>4
     DEF TargetRuns, ExecTrap, ExecOriginal, ExecExit, ExecFault, ExecStray,
         SignalStop, Killed, debuggerVars
<1> QED BY <1>2, <1>3, <1>4 DEF Next, Exited, vars

LEMMA ContinueUndisturbed ==
  ImageInvariant /\ at \in ContinuePoints => [StepUndisturbed]_vars
BY DEF StepUndisturbed, ExecTrap, Planted, ContinuePoints, ImageInvariant,
       MovesWhenWaitedFor

Continuing == LikeNative /\ at \in ContinuePoints

LEMMA ContinuingGoesOn ==
  ASSUME PlainProgram, Continuing, [Next]_vars
  PROVE  GoesOn
BY ContinueUndisturbed, NextGoesOn DEF Continuing, LikeNative, Placed

LEMMA ContinuingUndisturbed ==
  ASSUME ContinueOnly
  PROVE  Spec => StepsUndisturbed /\ [](at \in ContinuePoints)
<1>1. Init => at \in ContinuePoints
  BY DEF Init, ContinuePoints
<1>2. at \in ContinuePoints /\ [Next]_vars => (at \in ContinuePoints)'
  BY NextContinues
<1>3. ImageInvariant /\ at \in ContinuePoints => [StepUndisturbed]_vars
  BY ContinueUndisturbed
<1> QED
  BY <1>1, <1>2, <1>3, ImageInvariantCorrect, PTL DEF Spec, StepsUndisturbed

THEOREM SpecContinuing ==
  ASSUME ContinueOnly, PlainProgram, BreaksAreLong
  PROVE  Spec => []Continuing
<1>1. LikeNative /\ at \in ContinuePoints => Continuing
  BY DEF Continuing
<1> QED
  BY <1>1, ContinuingUndisturbed, LongBreaksMiss, SpecLikeNative, PTL

(* What continue_execution takes for a hit of a breakpoint is one, though  *)
(* it never asks why the target stopped: whatever signals, faults and      *)
(* kills come, at whatever moment.                                         *)
THEOREM HitIsTrapCorrect ==
  ASSUME ContinueOnly, PlainProgram, BreaksAreLong
  PROVE  Spec => HitIsTrap
<1>1. Continuing => [ContinueHits => why = "trap"]_vars
  BY DEF Continuing, LikeNative, HitsAreTraps, ContinueHits
<1> QED BY <1>1, SpecContinuing, PTL DEF HitIsTrap

(* Breakpoints set, hit, deleted and continued from at will make no        *)
(* difference to the target, and no signal makes them do.                  *)
THEOREM ContinueTransparent ==
  ASSUME ContinueOnly, PlainProgram, BreaksAreLong
  PROVE  Spec => Transparent
BY ContinuingUndisturbed, LongBreaksMiss, TransparentCorrect, PTL
=============================================================================
