----------------------------- MODULE DieReader -----------------------------
(***************************************************************************)
(* How smldbg reads .debug_info: the headers of the compile units          *)
(* (src/src/compile_unit.cpp), the entries behind them (src/src/die.cpp)   *)
(* and their attributes (src/src/attribute.cpp), up to the entry in which  *)
(* variable_location of src/src/dwarf.cpp finds a variable.                *)
(*                                                                         *)
(* .debug_info is its bytes, with the Group + 1 bits of Leb128, counted    *)
(* from 1.  .debug_abbrev is a sequence of declarations, and an offset     *)
(* into it counts declarations.  A name is a key of .debug_str.            *)
(***************************************************************************)
EXTENDS Leb128

CONSTANTS
  Sections,         \* see section
  ProgramCounters,
  Variable          \* the name variable_location is asked for

Form == {"addr", "block2", "block4", "data2", "data4", "data8", "string",
         "block", "block1", "data1", "flag", "sdata", "strp", "udata",
         "ref_addr", "ref1", "ref2", "ref4", "ref8", "ref_udata", "indirect",
         "sec_offset", "exprloc", "flag_present", "ref_sig8"}

Declaration(index, tag, kids, attributes) ==
  [index |-> index, tag |-> tag, kids |-> kids, attributes |-> attributes]

VARIABLES
  section,   \* info, size, abbrev and str; and source, which no code reads:
             \* the entries of each unit, with the position of their attributes
  cu,        \* the unit that is followed here
  pc,
  outcome,   \* "reading", "exited" (std::exit) or "not_found"
  phase,     \* "units", or one of DieTree's
  iter, m_compile_units,
  die,       \* of the loop control is in
  filtered,  \* what filter_die_by_tag(DW_TAG_subprogram) has collected
  owner,     \* the subprogram get_nested is called for
  depth, nested,
  answer     \* of variable_location, once it has found an entry or not

vars == <<section, cu, pc, outcome, phase, iter, m_compile_units, die,
          filtered, owner, depth, nested, answer>>

info == section.info

NullEntry == Declaration(0, "null", FALSE, << >>)

\* A code that is not declared sends the search out of the section.
NoEntry == Declaration(0, "undeclared", FALSE, << >>)

DIE(position, ate) == [m_debug_info |-> position, m_ate |-> ate]

NoDie == DIE(0, NoEntry)

ExitDie == DIE(-1, NoEntry)

-----------------------------------------------------------------------------
\* Mutant: the escape in front of a 64-bit length is not counted.
UnitSize32(u) == u.unit_length + 4

\* How far the next unit, or the end of this one, is from its start.
UnitSize(u) == u.unit_length + (IF u.is_64bit THEN 12 ELSE 4)

HeaderSize(u) == IF u.is_64bit THEN 12 + 2 + 8 + 1 ELSE 4 + 2 + 4 + 1

\* The constructor of CompileUnit, at position p.
CompileUnit(p) ==
  LET is_64bit == Fixed(info, p, 4) = 2^(4 * (Group + 1)) - 1
      width == IF is_64bit THEN 8 ELSE 4
      length == IF is_64bit THEN p + 4 ELSE p
  IN  [start |-> p, is_64bit |-> is_64bit,
       unit_length |-> Fixed(info, length, width),
       debug_abbrev_offset |-> Fixed(info, length + width + 2, width)]

unit == m_compile_units[cu]

\* Mutant: the table is read from the start of .debug_abbrev.
FirstInSection(u, index) ==
  Min({i \in DOMAIN section.abbrev : section.abbrev[i].index = index} \cup {999})

\* decode_abbreviations: the first declaration from the unit's table on.
FirstInTable(u, index) ==
  Min({i \in u.debug_abbrev_offset + 1 .. Len(section.abbrev) :
         section.abbrev[i].index = index} \cup {999})

decode_abbreviations(index) ==
  IF FirstInTable(unit, index) = 999 THEN NoEntry
  ELSE section.abbrev[FirstInTable(unit, index)]

\* read_abbreviation_code, at position p.
ReadAbbreviationCode(p) ==
  LET tag_index == Unsigned(info, p)
  IN  DIE(After(info, p),
          IF tag_index > 0 THEN decode_abbreviations(tag_index) ELSE NullEntry)

root == ReadAbbreviationCode(unit.start + HeaderSize(unit))

is_null(d) == d.m_debug_info = unit.start + UnitSize(unit)

Exit == -1

\* Mutant: the length of a block does not count.
BlockEnd1(p, width) == p + Fixed(info, p, width)

BlockEnd(p, width) == p + width + Fixed(info, p, width)

OffsetSize == IF unit.is_64bit THEN 8 ELSE 4

\* Attribute::eat: where the attribute after the one at p starts.
Eat(form, p) ==
  CASE form \in {"addr", "data8", "ref8"}          -> p + 8
    [] form \in {"data4", "ref4"}                  -> p + 4
    [] form \in {"data2", "ref2"}                  -> p + 2
    [] form \in {"data1", "flag", "ref1"}          -> p + 1
    [] form \in {"strp", "ref_addr", "sec_offset"} -> p + OffsetSize
    [] form \in {"sdata", "udata"}                 -> After(info, p)
    [] form \in {"block", "exprloc"} -> After(info, p) + Unsigned(info, p)
    [] form = "flag_present"                       -> p
    [] form = "block1"                             -> BlockEnd(p, 1)
    [] form = "block2"                             -> BlockEnd(p, 2)
    [] form = "block4"                             -> BlockEnd(p, 4)
    [] OTHER                                       -> Exit

\* The position behind the first n attributes of d.
Behind(d, n) ==
  LET at[i \in 0 .. n] ==
        IF i = 0 THEN d.m_debug_info
        ELSE IF at[i - 1] = Exit THEN Exit
        ELSE Eat(d.m_ate.attributes[i].form, at[i - 1])
  IN  at[n]

\* operator++.
Incremented(d) ==
  LET p == Behind(d, Len(d.m_ate.attributes))
  IN  IF p = Exit THEN ExitDie ELSE ReadAbbreviationCode(p)

NoAttribute == [form |-> "none", m_debug_info |-> 0]

\* DIE::attribute; its position is Exit if a form before it cannot be eaten.
Attribute(d, at) ==
  LET entries == {i \in DOMAIN d.m_ate.attributes : d.m_ate.attributes[i].at = at}
      index == Min(entries)
  IN  IF entries = {} THEN NoAttribute
      ELSE [form |-> d.m_ate.attributes[index].form,
            m_debug_info |-> Behind(d, index - 1)]

Has(d, at) == Attribute(d, at) # NoAttribute

as_uint64t(a) ==
  IF a.m_debug_info # Exit /\ a.form \in {"addr", "data4", "sec_offset"}
  THEN Fixed(info, a.m_debug_info, 4) ELSE Exit

\* The name of an entry, "" if it has none, by as_string_view.  A string in
\* line is one byte, which stands for its characters, and a null.
NoString == "exits"

Name(d) ==
  LET a == Attribute(d, "name")
  IN  CASE a = NoAttribute       -> ""
        [] a.m_debug_info = Exit -> NoString
        [] a.form = "strp"       -> section.str[Fixed(info, a.m_debug_info, 4)]
        [] a.form = "string"     -> section.str[info[a.m_debug_info]]
        [] OTHER                 -> NoString

(* The loop over the subprograms ends at the first that contains pc, or    *)
(* whose addresses cannot be read.                                         *)
HighPc(low, high) ==
  IF high.form = "addr" THEN as_uint64t(high)
  ELSE as_uint64t(low) + as_uint64t(high)

CannotRead(d) ==
  Exit \in {as_uint64t(Attribute(d, "low_pc")), as_uint64t(Attribute(d, "high_pc"))}

EndsSearch(d) ==
  LET low == Attribute(d, "low_pc")
      high == Attribute(d, "high_pc")
  IN  /\ NoAttribute \notin {low, high}
      /\ CannotRead(d) \/ (as_uint64t(low) <= pc /\ pc <= HighPc(low, high))

Subprograms == {k \in DOMAIN filtered : EndsSearch(filtered[k])}

Subprogram == filtered[Min(Subprograms)]

(* The loop over the nested entries ends at the first with that name, or   *)
(* without a name.                                                         *)
Stops == {k \in DOMAIN nested : Name(nested[k]) \in {Variable, "", NoString}}

Stop == nested[Min(Stops)]

\* A form is met that has no size, or no value of the kind asked for.
Fails ==
  CASE phase \in {"filter", "nesting"} -> ~is_null(die) /\ Incremented(die) = ExitDie
    [] phase = "filtered" ->
         Subprograms # {} /\ (CannotRead(Subprogram) \/ Incremented(Subprogram) = ExitDie)
    [] phase = "nested" ->
         Stops # {} /\ (Name(Stop) = NoString
                          \/ Attribute(Stop, "location").m_debug_info = Exit)
    [] OTHER -> FALSE

In(p) == outcome = "reading" /\ phase = p /\ ~Fails

-----------------------------------------------------------------------------
Init ==
  /\ section \in Sections
  /\ cu \in DOMAIN section.source
  /\ pc \in ProgramCounters
  /\ outcome = "reading"
  /\ phase = "units"
  /\ iter = 1
  /\ m_compile_units = << >>
  /\ die = NoDie /\ filtered = << >> /\ owner = NoDie
  /\ depth = 0 /\ nested = << >>
  /\ answer = NoDie

input == <<section, cu, pc>>

(* read_compile_units.                                                     *)
ReadUnit ==
  /\ In("units") /\ iter <= section.size
  /\ m_compile_units' = Append(m_compile_units, CompileUnit(iter))
  /\ iter' = iter + UnitSize(CompileUnit(iter))
  /\ UNCHANGED <<input, outcome, phase, die, filtered, owner, depth, nested,
                 answer>>

UnitsRead ==
  /\ In("units") /\ iter > section.size
  /\ die' = root
  /\ phase' = "filter"
  /\ UNCHANGED <<input, outcome, iter, m_compile_units, filtered, owner, depth,
                 nested, answer>>

(* filter_die_by_tag, over one unit.                                       *)
FilterVisit ==
  /\ In("filter") /\ ~is_null(die)
  /\ filtered' = IF die.m_ate.tag = "subprogram" THEN Append(filtered, die)
                                                 ELSE filtered
  /\ die' = Incremented(die)
  /\ UNCHANGED <<input, outcome, phase, iter, m_compile_units, owner, depth,
                 nested, answer>>

FilterEnds ==
  /\ In("filter") /\ is_null(die)
  /\ phase' = "filtered"
  /\ UNCHANGED <<input, outcome, iter, m_compile_units, die, filtered, owner,
                 depth, nested, answer>>

(* variable_location looks for the subprogram and calls get_nested.        *)
GetNested ==
  /\ In("filtered") /\ Subprograms # {}
  /\ owner' = Subprogram
  /\ die' = Incremented(Subprogram)
  /\ phase' = IF is_null(die') \/ ~Subprogram.m_ate.kids THEN "nested" ELSE "nesting"
  /\ UNCHANGED <<input, outcome, iter, m_compile_units, filtered, depth, nested,
                 answer>>

NoSubprogram ==
  /\ In("filtered") /\ Subprograms = {}
  /\ outcome' = "not_found"
  /\ UNCHANGED <<input, phase, iter, m_compile_units, die, filtered, owner,
                 depth, nested, answer>>

Nest ==
  /\ In("nesting")
  /\ depth' = IF die.m_ate.kids             THEN depth + 1
              ELSE IF die.m_ate.tag = "null" THEN depth - 1
              ELSE depth
  /\ nested' = IF die.m_ate.tag # "null" THEN Append(nested, die) ELSE nested
  /\ die' = Incremented(die)
  /\ phase' = IF ~is_null(die') /\ depth' > 0 THEN "nesting" ELSE "nested"
  /\ UNCHANGED <<input, outcome, iter, m_compile_units, filtered, owner, answer>>

(* The search of variable_location, up to the use of what it has found;    *)
(* ExitDie stands for an optional that holds nothing.                      *)
Search ==
  /\ In("nested")
  /\ answer' = IF Stops # {} /\ Has(Stop, "location") THEN Stop ELSE ExitDie
  /\ phase' = "answered"
  /\ UNCHANGED <<input, outcome, iter, m_compile_units, die, filtered, owner,
                 depth, nested>>

StdExit ==
  /\ outcome = "reading" /\ Fails
  /\ outcome' = "exited"
  /\ UNCHANGED <<input, phase, iter, m_compile_units, die, filtered, owner,
                 depth, nested, answer>>

Next ==
  \/ ReadUnit \/ UnitsRead \/ FilterVisit \/ FilterEnds
  \/ GetNested \/ NoSubprogram \/ Nest \/ Search \/ StdExit

Spec == Init /\ [][Next]_vars
-----------------------------------------------------------------------------
\* The entry of the source a DIE stands for; 0 if it stands between entries.
source == section.source[cu]

IndexOf(d) ==
  IF d = ExitDie THEN -1
  ELSE Max({0} \cup {i \in DOMAIN source : source[i].start = d.m_debug_info})

IndicesOf(ds) == [k \in DOMAIN ds |-> IndexOf(ds[k])]

\* The entries of a unit as DieTree has them.
TreeOf(s) ==
  [i \in DOMAIN s |-> [tag |-> s[i].tag, kids |-> s[i].kids, data |-> s[i].data,
                       name |-> s[i].name, located |-> s[i].located]]

Tree == INSTANCE DieTree WITH
  Units    <- {TreeOf(s) : s \in UNION {{x.source[i] : i \in DOMAIN x.source} :
                                          x \in Sections}},
  unit     <- TreeOf(source),
  phase    <- IF phase = "units" THEN "filter" ELSE phase,
  die      <- IF phase = "units" THEN 1 ELSE IndexOf(die),
  filtered <- IndicesOf(filtered),
  owner    <- IndexOf(owner),
  nested   <- IndicesOf(nested),
  answer   <- IndexOf(answer)

(* Read from the bytes, the entries are the tree the producer has written, *)
(* whatever the forms of their attributes: the reader does what the walks  *)
(* of DieTree do, or exits on the way.                                     *)
ReadsTheTree == Tree!Spec

\* What the loop control is in looks at.
Current == {die} \cup {filtered[k] : k \in DOMAIN filtered}
             \cup {nested[k] : k \in DOMAIN nested}

(* An attribute is found at its own first byte (attribute.h:153), however  *)
(* long those before it are.                                               *)
AttributesAreFound ==
  phase # "units" =>
    \A d \in Current \ {NoDie} : \A k \in DOMAIN d.m_ate.attributes :
      LET a == Attribute(d, d.m_ate.attributes[k].at) IN
        a.m_debug_info \in {Exit, source[IndexOf(d)].attributes[k]}

(* Every header is where the unit before it ends, and says what the        *)
(* producer has written into it.                                           *)
UnitsAreFound ==
  phase # "units" =>
    /\ Len(m_compile_units) = Len(section.source)
    /\ root.m_debug_info = source[1].start

(* No form that the headers name (attribute.h:112) ends the debugger.      *)
EveryFormIsRead == outcome # "exited"

(* The value of an attribute is all of it (attribute.h:161, "the data      *)
(* associated with |form|").                                               *)
ValuesAreWhole ==
  phase # "units" =>
    \A d \in Current \ {NoDie} : \A a \in {Attribute(d, "low_pc")} :
      a.form = "addr" => as_uint64t(a) = Fixed(info, a.m_debug_info, 8)
=============================================================================
