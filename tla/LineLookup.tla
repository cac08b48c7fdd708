---------------------------- MODULE LineLookup ----------------------------
(***************************************************************************)
(* The lookups of LineTables in the table LineVM makes.                    *)
(***************************************************************************)
EXTENDS LineVM, LineTables

\* What lies beside the array of names: none of them.
Garbage == "?"

FileName(n) == IF n \in DOMAIN FileNames THEN FileNames[n] ELSE Garbage

\* LineVM::table: file is the name now, its number unchecked.
Table(rows) == [i \in DOMAIN rows |-> [rows[i] EXCEPT !.file = FileName(@)]]

Rows == Table(m_state)

Lines == {Rows[i].line : i \in DOMAIN Rows}

Addresses == {Rows[i].address : i \in DOMAIN Rows}

\* Every address at which the answer can change, and the byte before it.
ProgramCounters == Addresses \cup {a - 1 : a \in Addresses}

(* In whatever order the linker has put the sequences, an address is       *)
(* attributed to its row of the sequence that covers it, and an address in *)
(* a gap between them to none.                                             *)
LookupFindsRow ==
  state = "done" /\ WellFormed(Rows) =>
    \A pc \in ProgramCounters :
      LET Over == {e \in Ends(Rows) : Covers(Rows, e, pc)} IN
        SourceRow(Rows, pc, FALSE) =
          IF Over = {} THEN OutOfBounds
          ELSE RowOf(Rows, CHOOSE e \in Over : TRUE, pc)

(* A breakpoint set by file and line stops where the debugger then says it *)
(* has stopped: looked up again, its address gives the row it came from.   *)
BreakpointIsWhereItSays ==
  state = "done" /\ WellFormed(Rows) /\ Plain(Rows) =>
    \A line \in Lines, file \in {FileNames[f] : f \in DOMAIN FileNames} :
      LET row == LineRow(Rows, line, file) IN
        row # OutOfBounds => SourceRow(Rows, Rows[row].address, FALSE) = row

(* Every row belongs to a file of the header (line_vm.cpp:160).            *)
RowsAreNamed == state = "done" => \A i \in DOMAIN Rows : Rows[i].file # Garbage

(* A line of a file that has no statement gives no address, instead of a   *)
(* row that is not there (dwarf.cpp:73, "Didn't find a match.").           *)
EveryFileHasRows ==
  state = "done" =>
    \A line \in Lines, file \in {FileNames[f] : f \in DOMAIN FileNames} :
      LineRow(Rows, line, file) # OutOfBounds
=============================================================================
