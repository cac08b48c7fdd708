------------------------------ MODULE DieTree ------------------------------
(***************************************************************************)
(* The walks over the debugging information entries of a compile unit:     *)
(* DIE::operator++, is_null and get_nested of src/src/die.cpp, and the     *)
(* loops of filter_die_by_tag and variable_location of src/src/dwarf.cpp   *)
(* that use them.                                                          *)
(*                                                                         *)
(* A unit is its entries in the order of the section: a tree in preorder,  *)
(* in which an entry with the tag "null" ends a list of children.  A DIE   *)
(* is the index of its entry; m_debug_info stands after the abbreviation   *)
(* code of that entry and before its attributes.                           *)
(***************************************************************************)
EXTENDS Integers, Sequences, FiniteSetsExt

CONSTANTS
  Units,     \* the compile units to walk
  Variable   \* the name variable_location is asked for

\* kids: DW_CHILDREN_yes; data: bytes of its attributes; name: DW_AT_name,
\* "" if it has none; located: it has a DW_AT_location.
Entry == [tag : {"null", "compile_unit", "subprogram", "lexical_block",
                 "variable"},
          kids : BOOLEAN, data : Nat, name : STRING, located : BOOLEAN]

\* The number of lists of children open before entry i.
Level(u, i) == Cardinality({j \in 1 .. i - 1 : u[j].kids})
                 - Cardinality({j \in 1 .. i - 1 : u[j].tag = "null"})

\* A tree whose root has attributes, with every list of children ended.
IsUnit(u) ==
  /\ u \in Seq(Entry) /\ u # << >>
  /\ u[1].tag = "compile_unit" /\ u[1].data > 0
  /\ \A i \in DOMAIN u : u[i].tag = "null" => ~u[i].kids /\ u[i].data = 0
  /\ \A i \in 2 .. Len(u) : Level(u, i) > 0
  /\ Level(u, Len(u) + 1) = 0

ASSUME UnitsAssumption == \A u \in Units : IsUnit(u)

VARIABLES
  unit,
  phase,     \* the loop control is in, see Phases
  die,       \* the entry that loop looks at
  filtered,  \* what filter_die_by_tag(DW_TAG_subprogram) has collected
  owner,     \* the subprogram get_nested is called for
  depth, nested,  \* of get_nested
  answer     \* of variable_location: an entry, None or Undefined

vars == <<unit, phase, die, filtered, owner, depth, nested, answer>>

Phases == {"filter", "filtered",
           "overrun",   \* the walk has left the unit
           "nesting", "nested", "answered"}

None == 0

Undefined == -1  \* read through an optional that holds nothing

Init ==
  /\ unit \in Units
  /\ phase = "filter"
  /\ die = 1
  /\ filtered = << >>
  /\ owner = None
  /\ depth = 0
  /\ nested = << >>
  /\ answer = None
-----------------------------------------------------------------------------
\* Mutant: the end of the unit is not met exactly.
IsNullPastEnd(i) == i > Len(unit)

\* is_null: m_debug_info is at m_debug_info_end.
IsNull(i) == i = Len(unit) /\ unit[i].data = 0

\* Mutant: the first entry of a list of children is skipped.
AfterChild(i) == IF unit[i].kids /\ i + 1 < Len(unit) THEN i + 2 ELSE i + 1

\* operator++.
Incremented(i) == i + 1

(* filter_die_by_tag, over one compile unit.                               *)
FilterVisit ==
  /\ phase = "filter" /\ ~IsNull(die)
  /\ filtered' = IF unit[die].tag = "subprogram" THEN Append(filtered, die)
                                                 ELSE filtered
  /\ die' = Incremented(die)
  /\ phase' = IF die' \in DOMAIN unit THEN "filter" ELSE "overrun"
  /\ UNCHANGED <<unit, owner, depth, nested, answer>>

FilterEnds ==
  /\ phase = "filter" /\ IsNull(die)
  /\ phase' = "filtered"
  /\ UNCHANGED <<unit, die, filtered, owner, depth, nested, answer>>

(* get_nested of the subprogram that contains the program counter.         *)
GetNested ==
  /\ phase = "filtered"
  /\ owner' \in {filtered[k] : k \in DOMAIN filtered}
  /\ die' = Incremented(owner')
  /\ phase' = IF IsNull(die') \/ ~unit[owner'].kids THEN "nested" ELSE "nesting"
  /\ UNCHANGED <<unit, filtered, depth, nested, answer>>

\* Mutant: the nesting depth does not end the loop.
NestingGoesOnToEnd(i, d) == ~IsNull(i)

NestingGoesOn(i, d) == ~IsNull(i) /\ d > 0

Nest ==
  /\ phase = "nesting"
  /\ depth' = IF unit[die].kids             THEN depth + 1
              ELSE IF unit[die].tag = "null" THEN depth - 1
              ELSE depth
  /\ nested' = IF unit[die].tag # "null" THEN Append(nested, die) ELSE nested
  /\ die' = Incremented(die)
  /\ phase' = IF NestingGoesOn(die', depth') THEN "nesting" ELSE "nested"
  /\ UNCHANGED <<unit, filtered, owner, answer>>

\* Mutant: entries with another name are not passed over.
Takes(i) == TRUE

\* The search passes over entries with another name, and stops at one with
\* no name.
StopsAt(i) == unit[i].name \in {Variable, ""}

(* The rest of variable_location, up to its use of what it has found.      *)
Search ==
  /\ phase = "nested"
  /\ LET Stops == {k \in DOMAIN nested : StopsAt(nested[k])}
         first == nested[Min(Stops)]
     IN  answer' = IF Stops # {} /\ unit[first].located THEN first
                                                        ELSE Undefined
  /\ phase' = "answered"
  /\ UNCHANGED <<unit, die, filtered, owner, depth, nested>>

Next == FilterVisit \/ FilterEnds \/ GetNested \/ Nest \/ Search

Spec == Init /\ [][Next]_vars
-----------------------------------------------------------------------------
Tagged(tag) == {i \in DOMAIN unit : unit[i].tag = tag}

\* The entries below entry i.
Descendants(i) ==
  {j \in i + 1 .. Len(unit) :
     /\ unit[j].tag # "null"
     /\ \A k \in i + 1 .. j : Level(unit, k) > Level(unit, i)}

(* The walk ends at the end of the unit (die.h:107): it does not read on   *)
(* into whatever follows it in the section.                                *)
WalkStaysInUnit == phase # "overrun"

(* The filter finds every subprogram of the unit, however deep, once and   *)
(* in order.                                                               *)
FilterFindsAll ==
  phase = "filtered" =>
    /\ {filtered[k] : k \in DOMAIN filtered} = Tagged("subprogram")
    /\ \A k \in 1 .. Len(filtered) - 1 : filtered[k] < filtered[k + 1]

(* What get_nested returns lies below the entry it was called for: the     *)
(* variables of another function are not mistaken for its own.             *)
NestedAreOwn ==
  phase = "nested" => \A k \in DOMAIN nested : nested[k] \in Descendants(owner)

(* It goes on until it returns to the current nesting depth (die.cpp:36):  *)
(* nothing below the entry is left out.                                    *)
NestedAreAll ==
  phase = "nested" =>
    Descendants(owner) \subseteq {nested[k] : k \in DOMAIN nested}

(* The location found is that of a variable of the subprogram with the     *)
(* name that was asked for.                                                *)
AnswerIsTheVariable ==
  answer \in DOMAIN unit =>
    answer \in Descendants(owner) /\ unit[answer].name = Variable

(* The location of a variable that is among the nested entries, or the     *)
(* lack of one, is found out before it is used (dwarf.cpp:210).            *)
AnswerIsDefined == answer # Undefined
=============================================================================
