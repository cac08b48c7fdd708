------------------------------ MODULE MCDwarf ------------------------------
(***************************************************************************)
(* Executables of two source files for TLC.                                *)
(***************************************************************************)
EXTENDS Dwarf

\* A function of four bytes: its entry, the end of its prologue, a line more.
Body(low, line, file, marked) ==
  LET Row(address, n, prologue_end, end_sequence) ==
        [address |-> low + address, line |-> line + n, file |-> file,
         is_stmt |-> TRUE, prologue_end |-> prologue_end,
         end_sequence |-> end_sequence]
  IN  <<Row(0, 0, FALSE, FALSE), Row(1, 1, marked, FALSE), Row(3, 2, FALSE, FALSE),
        Row(4, 2, FALSE, TRUE)>>

Named(name, low, high) == [name |-> name, low |-> low, high |-> high]

Ranged(name, ranges, functions, table) ==
  [tag |-> "compile_unit", name |-> name, stmt_list |-> TRUE,
   bounds |-> << >>, ranges |-> ranges \o <<<<0, 0>>>>,
   functions |-> functions, table |-> table]

Bounded(name, form, low, high, functions, table) ==
  [tag |-> "compile_unit", name |-> name, stmt_list |-> TRUE,
   bounds |-> [form |-> form, low |-> low, high |-> high],
   ranges |-> << >>, functions |-> functions, table |-> table]

Whole == [s \in Sections |-> "whole"]

Image(one, two) == [units |-> <<one, two>>, file |-> Whole]

f == Named("f", 10, 14)
g == Named("g", 30, 34)
h == Named("h", 20, 24)
DeclaredH == Named("h", NoAddress, 0)

\* f and g of a.c, in sections of their own, in either order, with h of b.c
\* between them, which a.c declares.
Split(marked) ==
  LET fs == Body(10, 1, "a.c", marked)
      gs == Body(30, 5, "a.c", marked)
      a(rows, ranges) == Ranged("a.c", ranges, <<f, DeclaredH, g>>, rows)
      b == Ranged("b.c", <<<<20, 24>>>>, <<h>>, Body(20, 3, "b.c", marked))
  IN  {Image(a(fs \o gs, <<<<10, 14>>, <<30, 34>>>>), b),
       Image(a(gs \o fs, <<<<30, 34>>, <<10, 14>>>>), b),
       Image(b, a(gs \o fs, <<<<10, 14>>, <<30, 34>>>>))}

\* Units of the DWARF 3 kind, which start with a byte of padding, in a file
\* without ranges.
Padded ==
  [Image(Bounded("a.c", "addr", 9, 14, <<f>>, Body(10, 1, "a.c", TRUE)),
         Bounded("b.c", "addr", 19, 24, <<h>>, Body(20, 3, "b.c", TRUE)))
   EXCEPT !.file[".debug_ranges"] = "absent"]

\* A unit of declarations alone, a.c, and code without line numbers.
Headers == [Ranged("h.h", <<>>, <<DeclaredH>>, <<>>) EXCEPT !.ranges = <<>>]

WithHeaders(headers) ==
  [units |-> <<headers, Ranged("a.c", <<<<10, 14>>>>, <<f>>, Body(10, 1, "a.c", TRUE)),
               [Ranged("s.s", <<<<20, 24>>>>, <<>>, <<>>) EXCEPT !.stmt_list = FALSE]>>,
   file |-> Whole]

WithGaps ==
  UNION {Split(marked) : marked \in BOOLEAN} \cup {Padded, WithHeaders(Headers)}

\* The same with the declarations in a partial unit.
PartialUnit == {WithHeaders([Headers EXCEPT !.tag = "partial_unit"])}

One(form, high) ==
  Image(Bounded("b.c", form, 20, high, <<h>>, Body(20, 3, "b.c", TRUE)),
        Ranged("a.c", <<<<10, 14>>>>, <<f>>, Body(10, 1, "a.c", TRUE)))

\* The end of b.c as an offset, and as an address.
OffsetUnit == {One("data4", 4)}
BoundedUnit == {One("addr", 24)}

\* Units without a gap between them.
Adjacent ==
  {Image(Ranged("a.c", <<<<16, 20>>>>, <<Named("f", 16, 20)>>, Body(16, 1, "a.c", TRUE)),
         Ranged("b.c", <<<<20, 24>>>>, <<h>>, Body(20, 3, "b.c", TRUE)))}

\* A function without a prologue in front of one whose entry is marked as
\* the end of its own.
NoPrologue ==
  {Image(Ranged("a.c", <<<<10, 14>>>>, <<Named("e", 10, 11), Named("f", 11, 14)>>,
                Body(10, 1, "a.c", TRUE)),
         Ranged("b.c", <<<<20, 24>>>>, <<h>>, Body(20, 3, "b.c", TRUE)))}

\* A file that ends in the middle of a section no unit refers to.
CutOff == {[Padded EXCEPT !.file[".debug_ranges"] = "cut"]}

Everywhere == 8 .. 36

\* Without the padding, which has no row.
Covered == Everywhere \ {9, 19}
=============================================================================
