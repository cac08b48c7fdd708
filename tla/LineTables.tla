---------------------------- MODULE LineTables ----------------------------
(***************************************************************************)
(* The two searches of src/src/dwarf.cpp in a table of rows: for a program *)
(* counter, and for a line of a file.  A row is named by its index in the  *)
(* table, counted from 1.                                                  *)
(***************************************************************************)
EXTENDS Integers, Sequences, FiniteSetsExt

(* best_match is still INT_MAX, which is compared with the largest         *)
(* unsigned: the lookups never return nullopt here, but read the table at  *)
(* INT_MAX.                                                                *)
OutOfBounds == 0

SkipPrologue(rows, i) ==
  IF i < Len(rows) /\ rows[i + 1].prologue_end THEN i + 1 ELSE i

\* Mutant: the row that ends a sequence counts as any other.
SourceRowAcrossSequences(rows, pc, skip_prologues) ==
  LET Matches == {i \in 1 .. Len(rows) - 1 :
                    rows[i].address <= pc /\ rows[i + 1].address > pc}
  IN  IF Matches = {} THEN OutOfBounds ELSE Max(Matches)

\* source_location_from_program_counter; the last match counts.
SourceRow(rows, pc, skip_prologues) ==
  LET Matches == {i \in 1 .. Len(rows) - 1 :
                    /\ rows[i].address <= pc
                    /\ rows[i + 1].address > pc
                    /\ ~rows[i].end_sequence}
  IN  IF Matches = {} THEN OutOfBounds
      ELSE IF skip_prologues THEN SkipPrologue(rows, Max(Matches))
      ELSE Max(Matches)

Distance(rows, line, i) ==
  IF rows[i].line > line THEN rows[i].line - line ELSE line - rows[i].line

\* Mutant: the last of the closest counts.
LineRowLast(rows, line, file) ==
  LET Candidates == {i \in DOMAIN rows : rows[i].file = file /\ rows[i].is_stmt}
      Closest == {i \in Candidates : \A j \in Candidates :
                    Distance(rows, line, i) <= Distance(rows, line, j)}
  IN  IF Candidates = {} THEN OutOfBounds
      ELSE SkipPrologue(rows, Max(Closest))

\* program_counter_from_line_and_file; the first of the closest counts.
LineRow(rows, line, file) ==
  LET Candidates == {i \in DOMAIN rows : rows[i].file = file /\ rows[i].is_stmt}
      Closest == {i \in Candidates : \A j \in Candidates :
                    Distance(rows, line, i) <= Distance(rows, line, j)}
  IN  IF Candidates = {} THEN OutOfBounds
      ELSE SkipPrologue(rows, Min(Closest))
-----------------------------------------------------------------------------
(* What a table means: the rows up to an end_sequence row cover the bytes  *)
(* from the first row's address up to the end row's.                       *)
Ends(rows) == {i \in DOMAIN rows : rows[i].end_sequence}

SequenceEnd(rows, i) == Min({e \in Ends(rows) : e >= i})

SequenceStart(rows, i) == 1 + Max({0} \cup {e \in Ends(rows) : e < i})

Covers(rows, e, pc) ==
  /\ rows[SequenceStart(rows, e)].address <= pc
  /\ pc < rows[e].address

(* Addresses grow within a sequence, and no byte is covered by two.        *)
WellFormed(rows) ==
  /\ \A i \in 1 .. Len(rows) - 1 :
       ~rows[i].end_sequence => rows[i].address <= rows[i + 1].address
  /\ \A d, e \in Ends(rows) : d # e =>
       \/ rows[d].address <= rows[SequenceStart(rows, e)].address
       \/ rows[e].address <= rows[SequenceStart(rows, d)].address

(* The row of an address: the last of its sequence not beyond it.          *)
RowOf(rows, e, pc) ==
  Max({i \in SequenceStart(rows, e) .. e : rows[i].address <= pc})

(* Rows that describe at least one byte, and end rows that stand for no    *)
(* line of their own: what a compiler emits without optimisation.          *)
Plain(rows) ==
  /\ \A e \in Ends(rows) : SequenceStart(rows, e) # e
  /\ \A i \in 1 .. Len(rows) - 1 :
       ~rows[i].end_sequence => rows[i].address < rows[i + 1].address
  /\ \A i \in 1 .. Len(rows) - 1 :
       rows[i + 1].end_sequence =>
           /\ rows[i + 1].line = rows[i].line
           /\ rows[i + 1].file = rows[i].file
           /\ rows[i + 1].is_stmt = rows[i].is_stmt
           /\ ~rows[i + 1].prologue_end
=============================================================================
