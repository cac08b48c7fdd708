------------------------------- MODULE MCLine -------------------------------
(***************************************************************************)
(* Opcodes for TLC to make line number programs of.                        *)
(***************************************************************************)
EXTENDS LineLookup

TwoFiles == <<"main.cpp", "util.h">>

MCLineBase == -1

\* What the interpreter executes as the standard asks.
StandardCode ==
  {Op("special", 1), Op("special", 6), Op("copy", 0), Op("advance_pc", 3),
   Op("advance_line", 2), Op("set_file", 2), Op("const_add_pc", 0),
   Op("fixed_advance_pc", 4), Op("set_address", 16), Op("end_sequence", 0)}

\* Everything the interpreter reads.
AllCode ==
  StandardCode \cup
  {Op("special", 0), Op("negate_stmt", 0), Op("set_prologue_end", 0),
   Op("unsupported", 0), Op("unknown", 0), Op("set_file", 0)}

\* Programs that make tables worth looking things up in, and the opcodes that
\* make none under the header of an old version.
TableCode ==
  {Op("special", 0), Op("advance_pc", 3), Op("unsupported", 0),
   Op("unknown", 0), Op("set_file", 0), Op("special", 1), Op("special", 6),
   Op("copy", 0), Op("set_file", 2), Op("negate_stmt", 0),
   Op("set_prologue_end", 0), Op("fixed_advance_pc", 2),
   Op("set_address", 16), Op("end_sequence", 0)}
=============================================================================
