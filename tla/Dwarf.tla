------------------------------- MODULE Dwarf -------------------------------
(***************************************************************************)
(* The questions the debugger asks of the debugging information            *)
(* (src/src/dwarf.cpp): where a function, a line or an address is.  They   *)
(* go through the compile units (contains_address of                       *)
(* src/src/compile_unit.cpp), their line tables, and the sections          *)
(* src/src/elf.cpp reads and keeps.                                        *)
(***************************************************************************)
EXTENDS LineTables, SequencesExt

CONSTANTS
  Images,        \* executables, see IsImage
  Pcs, Lines     \* what is asked for

Sections == {".debug_info", ".debug_abbrev", ".debug_ranges", ".debug_line",
             ".debug_str"}

NoAddress == 0  \* of a function that is only declared

(* A unit has bounds, DW_AT_low_pc and DW_AT_high_pc, an address or an     *)
(* offset by its form; or ranges, which end with a pair of zeros; or, if   *)
(* it is without code, neither.  tag is that of its root, stmt_list says   *)
(* if the root refers to a table.                                          *)
Bounds == [form : {"addr", "data4"}, low : Nat, high : Nat]

Function == [name : STRING, low : Nat, high : Nat]

IsUnit(u) ==
  /\ u.tag \in {"compile_unit", "partial_unit"}
  /\ u.name \in STRING
  /\ u.stmt_list \in BOOLEAN
  /\ u.bounds \in Bounds \/ u.bounds = << >>
  /\ u.ranges # << >> => Last(u.ranges) = <<0, 0>>
  /\ u.functions \in Seq(Function)
  /\ WellFormed(u.table)

\* file: how much of each section there is.
IsImage(i) ==
  /\ Len(i.units) \in Nat /\ DOMAIN i.units = 1 .. Len(i.units)
  /\ \A k \in DOMAIN i.units : IsUnit(i.units[k])
  /\ i.file \in [Sections -> {"whole", "cut", "absent"}]

ASSUME ImagesAssumption == \A i \in Images : IsImage(i)

VARIABLES
  image,
  m_section_data_cache,
  m_is,      \* the state of the stream: "good" or "failed"
  question, answer   \* the last ones

vars == <<image, m_section_data_cache, m_is, question, answer>>

units == image.units

-----------------------------------------------------------------------------
\* read_section_data.  After a read beyond the end of the file the stream
\* neither seeks nor reads: the bytes stay zero.
Read(is, section) ==
  CASE image.file[section] = "absent" -> "empty"
    [] OTHER -> IF is = "failed" THEN "zeros" ELSE image.file[section]

\* Mutant: a section that has been read before is read again, on the end.
GetReadsAgain(e, section) ==
  [cache |-> [e.cache EXCEPT ![section] = IF @ = "none" THEN Read(e.is, section)
                                                        ELSE "twice"],
   is |-> e.is]

\* get_section_data, as it changes the cache and the stream.
GetSectionData(e, section) ==
  IF e.cache[section] # "none" THEN e
  ELSE LET bytes == Read(e.is, section)
       IN  [cache |-> [e.cache EXCEPT ![section] = bytes],
            is |-> IF bytes = "cut" THEN "failed" ELSE e.is]

GetBoth(e, first, second) == GetSectionData(GetSectionData(e, first), second)

Init ==
  /\ image \in Images
  /\ LET e == GetBoth([cache |-> [s \in Sections |-> "none"], is |-> "good"],
                      ".debug_info", ".debug_abbrev")
     IN  m_section_data_cache = e.cache /\ m_is = e.is
  /\ question = << >>
  /\ answer = << >>

-----------------------------------------------------------------------------
\* The pairs before the end of the list, or before one with a zero.
Listed(ranges) ==
  {ranges[i] : i \in 1 .. Min({i \in DOMAIN ranges : 0 \in Range(ranges[i])}) - 1}

\* Mutant: what lies between two ranges counts as inside.
ContainsBetween(u, address) ==
  IF u.bounds # << >>
  THEN address > u.bounds.low /\ address < u.bounds.high
  ELSE /\ u.ranges # << >>
       /\ \E r, s \in Listed(u.ranges) : r[1] <= address /\ address <= s[2]

\* Mutant: of the ranges only the first is looked at.
ContainsInFirst(u, address) ==
  IF u.bounds # << >>
  THEN address > u.bounds.low /\ address < u.bounds.high
  ELSE /\ u.ranges # << >>
       /\ u.ranges[1][1] <= address /\ address <= u.ranges[1][2]

contains_address(u, address) ==
  IF u.bounds # << >>
  THEN address > u.bounds.low /\ address < u.bounds.high
  ELSE /\ u.ranges # << >>
       /\ \E r \in Listed(u.ranges) : r[1] <= address /\ address <= r[2]

None == [unit |-> 0, row |-> 0]

\* contains_address has exited at a root that is no compile unit.
Exit == [unit |-> 0, row |-> -2]

\* source_location_from_program_counter: the units are asked up to the first
\* that contains pc.
LocationOf(pc, skip_prologues) ==
  LET found == {i \in DOMAIN units : contains_address(units[i], pc)}
      u == Min(found)
      asked == IF found = {} THEN DOMAIN units ELSE 1 .. u
  IN  IF \E i \in asked : units[i].tag # "compile_unit" THEN Exit
      ELSE IF found = {} \/ ~units[u].stmt_list THEN None
      ELSE [unit |-> u, row |-> SourceRow(units[u].table, pc, skip_prologues)]

Functions == FlattenSeq([i \in DOMAIN units |-> units[i].functions])

\* Those with that name that are more than declared.
Definitions(name) ==
  {i \in DOMAIN Functions : Functions[i].name = name /\ Functions[i].low # NoAddress}

\* Mutant: the first entry with the name counts, were it a declaration.
LocationOfFirst(name) ==
  LET found == {i \in DOMAIN Functions : Functions[i].name = name}
  IN  LocationOf(Functions[Min(found)].low, TRUE)

\* Mutant: prologues are not skipped.
LocationOfEntry(name) ==
  IF Definitions(name) = {} THEN None
  ELSE LocationOf(Functions[Min(Definitions(name))].low, FALSE)

\* source_location_from_function.
LocationOfFunction(name) ==
  IF Definitions(name) = {} THEN None
  ELSE LocationOf(Functions[Min(Definitions(name))].low, TRUE)

\* debug_line_offset_from_file.
UnitOfFile(file) ==
  LET Same == {i \in DOMAIN units :
                  units[i].tag = "compile_unit" /\ units[i].name = file}
  IN  Min(Same \cup {Len(units) + 1})

\* program_counter_from_line_and_file.
AddressOfLine(line, file) ==
  LET u == UnitOfFile(file)
  IN  IF u > Len(units) \/ ~units[u].stmt_list THEN None
      ELSE [unit |-> u, row |-> LineRow(units[u].table, line, file)]

FoundFor(q) ==
  CASE q.kind = "address"  -> LocationOf(q.pc, FALSE)
    [] q.kind = "function" -> LocationOfFunction(q.name)
    [] q.kind = "line"     -> AddressOfLine(q.line, q.file)

\* The sections a question makes the debugger read to find the unit, ...
ReadToFind(q, e) ==
  CASE q.kind = "address"  -> GetSectionData(e, ".debug_ranges")
    [] q.kind = "function" ->
         IF Definitions(q.name) = {} THEN GetSectionData(e, ".debug_str")
                                     ELSE GetBoth(e, ".debug_str", ".debug_ranges")
    [] q.kind = "line"     -> GetSectionData(e, ".debug_str")

\* ... and those it reads the table from, if there is a unit.
ReadFor(q, e) ==
  IF FoundFor(q).unit = 0 THEN ReadToFind(q, e)
  ELSE GetBoth(ReadToFind(q, e), ".debug_line", ".debug_str")

Undefined == [unit |-> 0, row |-> -1]

\* The debugger has ended, or has read the table at INT_MAX.
Crashed ==
  /\ answer # << >>
  /\ answer = Exit \/ (answer.unit # 0 /\ answer.row = OutOfBounds)

HasRanges(u) == u.bounds = << >> /\ u.ranges # << >>

\* What the answer rests on: .debug_ranges is read even if no unit has ranges.
Uses(q) ==
  (IF q.kind = "address" THEN {} ELSE {".debug_str"})
    \cup (IF FoundFor(q).unit = 0 THEN {} ELSE {".debug_line", ".debug_str"})
    \cup (IF /\ q.kind = "address" \/ (q.kind = "function" /\ Definitions(q.name) # {})
             /\ \E i \in DOMAIN units : HasRanges(units[i])
          THEN {".debug_ranges"} ELSE {})

\* The answer, if the sections it rests on are there.
Ask(q) ==
  LET e == ReadFor(q, [cache |-> m_section_data_cache, is |-> m_is]) IN
    /\ ~Crashed
    /\ m_section_data_cache' = e.cache
    /\ m_is' = e.is
    /\ question' = q
    /\ answer' = IF \A s \in Uses(q) : e.cache[s] = "whole" THEN FoundFor(q)
                                                           ELSE Undefined
    /\ UNCHANGED image

AskAddress == \E pc \in Pcs : Ask([kind |-> "address", pc |-> pc])

AskFunction ==
  \E i \in DOMAIN Functions : Ask([kind |-> "function", name |-> Functions[i].name])

AskLine ==
  \E line \in Lines, i \in DOMAIN units :
    Ask([kind |-> "line", line |-> line, file |-> units[i].name])

Next == AskAddress \/ AskFunction \/ AskLine

Spec == Init /\ [][Next]_vars
-----------------------------------------------------------------------------
Asked(kind) == question # << >> /\ question.kind = kind

\* The address a location stands for.
RowAt(location) == units[location.unit].table[location.row]

IsRow(location) == location.unit # 0 /\ location.row > 0

\* The addresses of a unit (DWARF 4, section 2.17): low_pc is the first, and
\* high_pc the one behind the last, or the distance to it.
Code(u) ==
  IF u.bounds = << >>
  THEN UNION {r[1] .. r[2] - 1 : r \in ToSet(u.ranges)}
  ELSE u.bounds.low ..
         u.bounds.high - 1 + (IF u.bounds.form = "addr" THEN 0 ELSE u.bounds.low)

(* Where the target is, the debugger shows a line of the compile unit that *)
(* contains the address (dwarf.cpp:88), and it does show one if the unit   *)
(* has a table.                                                            *)
AddressGoesToItsUnit ==
  Asked("address") =>
    \A u \in DOMAIN units : question.pc \in Code(units[u]) =>
      IF units[u].stmt_list THEN answer.unit = u /\ IsRow(answer)
                            ELSE answer = None

(* A breakpoint on a function stops inside that function (debugger.h:76).  *)
BreakIsInFunction ==
  Asked("function") =>
    \A i \in Definitions(question.name) :
      /\ IsRow(answer)
      /\ RowAt(answer).address \in Functions[i].low .. Functions[i].high - 1

(* and behind its prologue, if the table says where that is.               *)
BreakIsBehindPrologue ==
  Asked("function") /\ IsRow(answer) =>
    \A i \in DOMAIN units[answer.unit].table :
      LET row == units[answer.unit].table[i] IN
        row.prologue_end => \A f \in Definitions(question.name) :
          row.address \in Functions[f].low .. Functions[f].high - 1 =>
            RowAt(answer).address >= row.address

(* The address of a line, asked for in its turn, is in that line: a        *)
(* breakpoint set by file and line is reported there.                      *)
LineAndBack ==
  Asked("line") /\ IsRow(answer) =>
    LET back == LocationOf(RowAt(answer).address, FALSE) IN
      /\ IsRow(back)
      /\ RowAt(back).line = RowAt(answer).line
      /\ RowAt(back).file = RowAt(answer).file

(* What has been asked before makes no difference to the answer: the cache *)
(* holds the sections of the file (elf.cpp:14).                            *)
AnswersAreTheFiles == question # << >> => answer = FoundFor(question)

(* An address that is in no unit has no location, rather than a row that   *)
(* is not there (dwarf.cpp:128).                                           *)
AddressOutsideIsNone ==
  Asked("address") /\ (\A u \in DOMAIN units : question.pc \notin Code(units[u]))
    => answer = None
=============================================================================
