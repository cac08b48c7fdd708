------------------------------ MODULE Inspect ------------------------------
(***************************************************************************)
(* What the user is shown of a stopped target: backtrace of                *)
(* src/src/debugger.cpp on top of function_from_program_counter of         *)
(* src/src/dwarf.cpp.  Neither changes any state, so they are operators on *)
(* the states of Debugger in which the user has the prompt.                *)
(***************************************************************************)
EXTENDS Debugger, FiniteSetsExt

CONSTANT Functions  \* the subprograms of .debug_info, in its order

(* high is the end of the function: its address is not in it, as the DWARF *)
(* standard has it (section 2.17.2).                                       *)
ASSUME FunctionsAssumption ==
  /\ Functions \in Seq([name : STRING, low : Nat, high : Nat])
  /\ \A i \in DOMAIN Functions : Functions[i].name # "unknown"

-----------------------------------------------------------------------------
\* function_from_program_counter: the first match counts.
FunctionOf(pc) ==
  LET Found == {i \in DOMAIN Functions :
                  Functions[i].low <= pc /\ pc <= Functions[i].high}
  IN  IF Found = {} THEN "unknown" ELSE Functions[Min(Found)].name

\* Mutant: the frame pointer is followed before the return address is read.
NamesFromCaller(c) ==
  <<FunctionOf(c.rip)>>
    \o [i \in 1 .. c.rbp - 1 |-> FunctionOf(c.stack[c.rbp - i])]

(* The names the loop of backtrace reads: that of rip, and those of the    *)
(* return addresses from the frame of rbp outwards.                        *)
Names(c) ==
  <<FunctionOf(c.rip)>>
    \o [i \in 1 .. c.rbp |-> FunctionOf(c.stack[c.rbp + 1 - i])]

UpTo(names, i) == SubSeq(names, 1, i)

(* It ends at the first main, or at an unknown function before it: the     *)
(* name it then dereferences is not there.                                 *)
Crashes(c) ==
  LET names == Names(c) IN
    \A i \in DOMAIN names : names[i] = "main" =>
      \E j \in 1 .. i : names[j] = "unknown"

Backtrace(c) ==
  UpTo(Names(c), Min({i \in DOMAIN Names(c) : Names(c)[i] = "main"}))

-----------------------------------------------------------------------------
(* What the call chain is: the function each byte belongs to, for rip and  *)
(* for the calls that are on the stack.                                    *)
Owner(a) ==
  LET Own == {i \in DOMAIN Functions :
                Functions[i].low <= a /\ a < Functions[i].high}
  IN  IF Own = {} THEN "unknown" ELSE Functions[Min(Own)].name

Chain(c) ==
  <<Owner(c.rip)>>
    \o [i \in 1 .. Depth(c) |-> Owner(c.stack[Depth(c) + 1 - i] - 1)]

InMain(c) == \E i \in DOMAIN Chain(c) : Chain(c)[i] = "main"

CallChain(c) ==
  UpTo(Chain(c), Min({i \in DOMAIN Chain(c) : Chain(c)[i] = "main"}))

AtPrompt == at = "prompt" /\ Attached

(* At a reported hit, its instruction executed.  A signal stops the target *)
(* anywhere, also between a call and the making of the frame.              *)
AtHit == AtPrompt /\ why = "step"

(* Wherever continue has stopped the target at a breakpoint below main, bt *)
(* prints the functions that are active, innermost first (debugger.h:94).  *)
BacktraceIsCallChain ==
  AtHit /\ InMain(cpu) =>
    ~Crashes(cpu) /\ Backtrace(cpu) = CallChain(cpu)

(* The function a backtrace starts with is the one the target is in        *)
(* (debugger.cpp:466).                                                     *)
CurrentFunctionIsNamed == AtPrompt => FunctionOf(cpu.rip) = Owner(cpu.rip)

(* A function without debug information is printed as unknown              *)
(* (debugger.cpp:476) and does not end the debugger.                       *)
UnknownFunctionIsPrinted ==
  AtPrompt /\ FunctionOf(cpu.rip) = "unknown" => ~Crashes(cpu)

(* print and set look for a variable at an offset from rbp, in the frame   *)
(* of the function rip is in: that frame is there at a reported hit.       *)
FrameIsCurrent == AtHit /\ InMain(cpu) => cpu.rbp = Depth(cpu)
=============================================================================
