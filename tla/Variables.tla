----------------------------- MODULE Variables -----------------------------
(***************************************************************************)
(* print and set of src/src/debugger.cpp: 32-bit variables of one frame of *)
(* a stopped target, found at rbp plus the offset variable_location        *)
(* decodes, and read and written through the 64-bit words of               *)
(* PTRACE_PEEKDATA and PTRACE_POKEDATA.                                    *)
(*                                                                         *)
(* The memory is a row of half words, numbered from the one rbp points to. *)
(* Offsets count half words, and a half word has Bits bits instead of 32.  *)
(***************************************************************************)
EXTENDS LocationMachine

CONSTANTS
  Bits,
  Low, High,   \* the cells of the memory
  Cfa,         \* the canonical frame address, from rbp
  Layouts,     \* what the debugging information says of the frame
  Values       \* what the user types in set, an int32_t

Modulus == 2^Bits

Cell == Low .. High

Half == 0 .. Modulus - 1

\* Where the standard has the frame base, and a variable.  A register is no
\* cell of the memory.
FrameBase(e) ==
  CASE e.opcode = Breg(6)      -> SignedMeaning(e.operand)
    [] e.opcode = CallFrameCfa -> Cfa
    [] OTHER                   -> 0

Home(frame_base, e) ==
  CASE e.opcode = Fbreg   -> FrameBase(frame_base) + SignedMeaning(e.operand)
    [] e.opcode = Breg(6) -> SignedMeaning(e.operand)
    [] e.opcode = Addr    -> Meaning(e.operand)
    [] OTHER              -> High + 1

ASSUME VariablesAssumption ==
  /\ Bits \in Nat \ {0}
  /\ Low \in Int /\ High \in Int /\ Low < High /\ Far > High
  /\ Values \subseteq -(Modulus \div 2) .. (Modulus \div 2) - 1
  /\ \A l \in Layouts : \A v, w \in DOMAIN l.location :
       v # w =>
         Home(l.frame_base, l.location[v]) # Home(l.frame_base, l.location[w])

VARIABLES
  layout,   \* frame_base and location, the expressions of the frame
  memory,   \* the cells
  shown,    \* the variable and value printed last
  debugger, \* "prompt", "exited", "hung" or "crashed"
  wanted    \* read by no code: the value last set, Unset if there is none

vars == <<layout, memory, shown, debugger, wanted>>

Variable == DOMAIN layout.location

HomeOf(v) == Home(layout.frame_base, layout.location[v])

Unset == Modulus

Init ==
  /\ layout \in Layouts
  /\ memory \in {[c \in Cell |-> IF c % 2 = 0 THEN x ELSE y] : x, y \in Half}
  /\ shown = [variable |-> CHOOSE v \in Variable : TRUE, value |-> 0]
  /\ debugger = "prompt"
  /\ wanted = [v \in Variable |-> Unset]

-----------------------------------------------------------------------------
\* PEEKDATA, which gives -1 where there is no memory.
Word(a) ==
  IF {a, a + 1} \subseteq Cell THEN memory[a + 1] * Modulus + memory[a]
                               ELSE Modulus * Modulus - 1

\* POKEDATA of a 64-bit word.
Poke(a, word) ==
  memory' = [c \in Cell |->
               IF ~({a, a + 1} \subseteq Cell) THEN memory[c]
               ELSE IF c = a     THEN word % Modulus
               ELSE IF c = a + 1 THEN word \div Modulus
               ELSE memory[c]]

\* An int32_t as the 64-bit operand of a bitwise or.
Extended(x) == x % (Modulus * Modulus)

\* Mutant: the upper half is not kept.
OrOnlyLow(word, x) == Extended(x)

\* (word & 0xFFFFFFFF00000000) | x: the lower half is x's; the upper one is
\* kept, but for a sign extension of x it is all ones.
OrIntoUpperHalf(word, x) ==
  IF x >= 0 THEN word - (word % Modulus) + x ELSE Extended(x)

\* Mutant: all of the word is shown.
WholeWord(word) == word

\* word & ~uint32_t(0).
LowerHalf(word) == word % Modulus

Found(v) == VariableLocation(layout.frame_base, layout.location[v])

\* rbp + *variable_location, whatever the location's base is.
Addresses(v) ==
  UNION {IF loc.offset = NoNumber THEN Cell ELSE {loc.offset} :
           loc \in Found(v) \ (NoReturns \cup {NoLocation})}

\* get_variable_value.
PrintVariable(v) ==
  /\ debugger = "prompt"
  /\ \E a \in Addresses(v) :
       shown' = [variable |-> v, value |-> LowerHalf(Word(a))]
  /\ UNCHANGED <<layout, memory, debugger, wanted>>

\* set_variable_value.
SetVariable(v, x) ==
  /\ debugger = "prompt"
  /\ \E a \in Addresses(v) : Poke(a, OrIntoUpperHalf(Word(a), x))
  /\ wanted' = [wanted EXCEPT ![v] = x]
  /\ UNCHANGED <<layout, shown, debugger>>

\* Both, when no location is found: print says so, set does not.
PrintNothing(v) ==
  /\ debugger = "prompt"
  /\ NoLocation \in Found(v)
  /\ UNCHANGED vars

SetNothing(v, x) ==
  /\ debugger = "prompt"
  /\ NoLocation \in Found(v)
  /\ wanted' = [wanted EXCEPT ![v] = x]
  /\ UNCHANGED <<layout, memory, shown, debugger>>

\* Both, when an expression is not one the location machine returns from.
NoReturn(v) ==
  /\ debugger = "prompt"
  /\ debugger' \in {loc.base : loc \in Found(v) \cap NoReturns}
  /\ UNCHANGED <<layout, memory, shown, wanted>>

Next ==
  \E v \in Variable :
    \/ PrintVariable(v)
    \/ PrintNothing(v)
    \/ NoReturn(v)
    \/ \E x \in Values : SetVariable(v, x) \/ SetNothing(v, x)

Spec == Init /\ [][Next]_vars
-----------------------------------------------------------------------------
TypeOK ==
  /\ \A v \in Variable : layout.location[v].operand \in Seq(Byte)
  /\ memory \in [Cell -> Half]
  /\ shown \in [variable : Variable, value : Half]
  /\ debugger \in {"prompt", "exited", "hung", "crashed"}
  /\ wanted \in [Variable -> Values \cup {Unset}]

(* set sets the named variable (debugger.h:91): of all the memory, only    *)
(* the place where the standard puts it changes, and the variable that     *)
(* shares its word does not.                                               *)
SetChangesOneVariable ==
  [][\A v \in Variable, x \in Values : SetVariable(v, x) =>
       \A c \in Cell \ {HomeOf(v)} : memory'[c] = memory[c]]_vars

(* print gives the value of the variable (debugger.h:88): what was last    *)
(* set, whatever has been set or printed since.                            *)
PrintShowsWhatWasSet ==
  [][\A v \in Variable : PrintVariable(v) =>
       wanted[v] \in {Unset, shown'.value}]_vars

(* print gives the value of the variable (debugger.h:88): what is stored   *)
(* where the standard puts it.                                             *)
PrintShowsTheVariable ==
  [][\A v \in Variable : PrintVariable(v) /\ HomeOf(v) \in Cell =>
       shown'.value = memory[HomeOf(v)]]_vars

(* A location that is not supported ends the debugger with a message       *)
(* (dwarf_location_stack_machine.cpp:76 and 99): it neither keeps it in a  *)
(* loop nor makes it read what is not there.                               *)
DecodingReturns == debugger \notin {"hung", "crashed"}
=============================================================================
