-------------------------- MODULE LocationMachine --------------------------
(***************************************************************************)
(* DwarfLocationStackMachine of src/src/dwarf_location_stack_machine.cpp   *)
(* and what variable_location of src/src/dwarf.cpp makes of its results.   *)
(* An expression is its first opcode and the bytes behind it; an attribute *)
(* that is missing is Nothing, and one of a form that is no expression is  *)
(* LocationList.                                                           *)
(***************************************************************************)
EXTENDS Leb128

CONSTANT Far  \* the largest int64_t, as an offset

ASSUME LocationAssumption == Far \in Nat

Expression(opcode, operand) == [opcode |-> opcode, operand |-> operand]

Nothing == Expression(-1, << >>)

LocationList == Expression(-2, << >>)

Reg(n) == 80 + n
Breg(n) == 112 + n
Fbreg == 145
CallFrameCfa == 156
Addr == 3
Lit2 == 50
StackValue == 159

\* Mutant: the cases of three opcodes are missing from the switch.
OpcodeWithoutThree ==
  {3, 6} \cup 8 .. 49 \cup {79, 80, 81, 111, 112, 113, 143}
    \cup 144 .. 156 \cup {224, 255}

\* The opcodes the code has names for.
Opcode == {3, 6} \cup 8 .. 49 \cup {79, 80, 81, 111, 112, 113, 143}
            \cup 144 .. 159 \cup {224, 255}

is_reg_opcode(opcode) == opcode \in Reg(0) .. Reg(31)

is_breg_opcode(opcode) == opcode \in Breg(0) .. Breg(31)

Location(base, register, offset) ==
  [base |-> base, register |-> register, offset |-> offset]

\* The results that are no location: std::exit, a loop that reads nothing, and
\* a read where there are no bytes.
Exits == Location("exited", 0, 0)
Hangs == Location("hung", 0, 0)
Crashes == Location("crashed", 0, 0)

NoReturns == {Exits, Hangs, Crashes}

\* std::nullopt.
NoLocation == Location("None", 0, 0)

\* An empty DwarfLocation.
Empty == Location("Register", 0, 0)

(* exec, as the set of its outcomes: a loop without an effect need not be  *)
(* kept by the compiler.  No opcode but the first is looked at, and one    *)
(* that is not handled is noticed only if there are bytes behind it.       *)
Exec(e) ==
  CASE e = Nothing              -> {Crashes}
    [] is_reg_opcode(e.opcode)  -> {Location("Register", e.opcode - Reg(0),
                                             Far)}
    [] is_breg_opcode(e.opcode) -> {Location("Register", e.opcode - Breg(0),
                                             Signed(e.operand, 1))}
    [] OTHER ->
         IF e.operand = << >> THEN {Empty}
         ELSE IF e.opcode = Fbreg
              THEN {Location("FrameBase", 0, Signed(e.operand, 1))}
         ELSE IF e.opcode \in Opcode THEN {Exits}
         ELSE {Hangs, Empty}

\* Mutant: the number of a location is read without its sign.
VariableLocationUnsigned(frame_base, location) ==
  IF location = LocationList THEN {NoLocation}
  ELSE {Location("FrameBase", 0, Unsigned(location.operand, 1))}

(* The end of variable_location: a location that is no expression, as the  *)
(* form read from a missing one may have it, is none.  The frame base is   *)
(* decoded, but nothing is made of it, unless decoding it ends the         *)
(* debugger.                                                               *)
VariableLocation(frame_base, location) ==
  LET bad == Exec(frame_base) \cap NoReturns
  IN  CASE location = LocationList -> {NoLocation}
        [] location = Nothing      -> {NoLocation, Crashes}
        [] bad = Exec(frame_base)  -> bad
        [] OTHER                   -> bad \cup Exec(location)
=============================================================================
