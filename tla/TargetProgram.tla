--------------------------- MODULE TargetProgram ---------------------------
(***************************************************************************)
(* The program being debugged, as the processor runs it.  It is not part   *)
(* of the repository: the debugger only sees it through ptrace, so this    *)
(* module keeps exactly what src/src/debugger.cpp and                      *)
(* src/src/breakpoint.cpp look at (rip, rbp, the word at rbp + 8, the      *)
(* first byte of an instruction) and nothing of the target's data.         *)
(*                                                                         *)
(* An instruction is a record: its kind, its length in bytes, and the      *)
(* addresses it may transfer control to.                                   *)
(***************************************************************************)
EXTENDS Integers, Sequences

CONSTANTS
  Addr,        \* addresses of the bytes of the program text
  Program,     \* the instructions: a function from the address they start at
  Entry,       \* where the loader starts the program
  StackLimit   \* bound: return addresses the stack can hold

Kinds == {"seq",    \* falls through to the next instruction
          "jump",   \* goes to one of to (a conditional jump lists both ways)
          "call",   \* call rel32: opcode 0xE8, five bytes
          "icall",  \* any other call (through a register or memory)
          "enter",  \* push rbp; mov rbp, rsp: the function makes its frame
          "ret",    \* leave; ret
          "exit",   \* the program ends
          "fault"}  \* an instruction that raises a signal when executed

CallLength == 5

Instruction == [kind : Kinds, len : Nat \ {0}, to : SUBSET Addr]

(* What the debugger takes for granted of the program it is given: every   *)
(* instruction lies in the text, and a call it recognises is five bytes.   *)
ASSUME ProgramAssumption ==
  /\ Addr \subseteq Nat
  /\ DOMAIN Program \subseteq Addr
  /\ \A a \in DOMAIN Program : Program[a] \in Instruction
  /\ Entry \in DOMAIN Program
  /\ StackLimit \in Nat

ASSUME TextAssumption ==
  \A a \in DOMAIN Program :
    /\ a .. (a + Program[a].len - 1) \subseteq Addr
    /\ Program[a].kind = "call" => Program[a].len = CallLength

-----------------------------------------------------------------------------
(* The registers and the stack.  rbp = n stands for the frame whose return *)
(* address is the n-th on the stack: the word at rbp + 8 is stack[n].      *)
Cpu == [rip : Int, stack : Seq(Int), rbp : Nat]

InitialCpu == [rip |-> Entry, stack |-> << >>, rbp |-> 0]

NoAddr == -1  \* what PEEKTEXT answers for a word it cannot read

\* Mutant: the word at rbp, one too low, taken for the return address.
CallersReturnAddress(c) ==
  IF c.rbp \in 2 .. Len(c.stack) THEN c.stack[c.rbp - 1] ELSE NoAddr

ReturnAddress(c) ==
  IF c.rbp \in 1 .. Len(c.stack) THEN c.stack[c.rbp] ELSE NoAddr

FallThrough(c) == c.rip + Program[c.rip].len

Pop(s) == SubSeq(s, 1, Len(s) - 1)

(* The states the processor may be in after the instruction at c.rip.      *)
(* There is none for an instruction that faults or ends the program.       *)
Successors(c) ==
  LET i    == Program[c.rip]
      next == FallThrough(c)
  IN  CASE i.kind = "seq"   -> {[c EXCEPT !.rip = next]}
        [] i.kind = "jump"  -> {[c EXCEPT !.rip = t] : t \in i.to}
        [] i.kind \in {"call", "icall"} ->
             IF Len(c.stack) < StackLimit
             THEN {[c EXCEPT !.rip = t, !.stack = Append(@, next)] : t \in i.to}
             ELSE {}
        [] i.kind = "enter" -> {[c EXCEPT !.rip = next, !.rbp = Len(c.stack)]}
        [] i.kind = "ret"   ->
             IF c.stack = << >> THEN {}
             ELSE {[rip   |-> c.stack[Len(c.stack)],
                    stack |-> Pop(c.stack),
                    rbp   |-> Len(c.stack) - 1]}
        [] OTHER            -> {}

Exits(c) == c.rip \in DOMAIN Program /\ Program[c.rip].kind = "exit"

Faults(c) == c.rip \notin DOMAIN Program \/ (~Exits(c) /\ Successors(c) = {})
=============================================================================
