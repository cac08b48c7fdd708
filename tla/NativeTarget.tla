--------------------------- MODULE NativeTarget ---------------------------
(***************************************************************************)
(* The target run without a debugger: what the debugger promises to leave  *)
(* alone.  A debugged target, seen with its breakpoints hidden, may only   *)
(* take the steps of this specification.                                   *)
(***************************************************************************)
EXTENDS TargetProgram

VARIABLES cpu,   \* registers and stack
          life   \* "none" before it is started, "alive", "dead"

nativeVars == <<cpu, life>>

Init == cpu = InitialCpu /\ life = "none"

Load == life = "none" /\ life' = "alive" /\ UNCHANGED cpu

Run ==
  /\ life = "alive"
  /\ cpu.rip \in DOMAIN Program
  /\ cpu' \in Successors(cpu)
  /\ UNCHANGED life

\* The program exits, is killed, or could not be loaded.
Die == life' = "dead" /\ UNCHANGED cpu

Next == Load \/ Run \/ Die

Spec == Init /\ [][Next]_nativeVars
=============================================================================
