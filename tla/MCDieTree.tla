----------------------------- MODULE MCDieTree -----------------------------
(***************************************************************************)
(* Compile units for TLC to walk.                                          *)
(***************************************************************************)
EXTENDS DieTree

Die(tag, kids, name, located) ==
  [tag |-> tag, kids |-> kids, data |-> 1, name |-> name, located |-> located]

Null == [tag |-> "null", kids |-> FALSE, data |-> 0, name |-> "",
         located |-> FALSE]

Root(kids) == Die("compile_unit", kids, "main.cpp", FALSE)

Leaves == {Die("subprogram", FALSE, "g", FALSE),
           Die("variable", FALSE, "x", TRUE), Die("variable", FALSE, "y", TRUE)}

Nodes == {Die("subprogram", TRUE, "f", FALSE),
          Die("lexical_block", TRUE, "", FALSE)}

\* Lists of children, without the null at their end, of n entries in all.
Forest[n \in Nat] ==
  IF n = 0 THEN {<< >>}
  ELSE {<<leaf>> \o rest : leaf \in Leaves, rest \in Forest[n - 1]} \cup
       UNION {{<<node>> \o kids \o <<Null>> \o rest :
                 node \in Nodes, kids \in Forest[k], rest \in Forest[n - 2 - k]} :
                k \in 0 .. n - 2}

UnitsOf(n) == {<<Root(TRUE)>> \o f \o <<Null>> : f \in Forest[n]}

\* The units of up to seven entries whose root has children, and that of a
\* source file nothing is left of.
Trees == UNION {UnitsOf(n) : n \in 0 .. 5}
Empty == {<<Root(FALSE)>>}

\* A parameter without a name comes before the variable.
Unnamed ==
  {<<Root(TRUE), Die("subprogram", TRUE, "f", FALSE),
     Die("variable", FALSE, "", TRUE), Die("variable", FALSE, "x", TRUE),
     Null, Null>>}
=============================================================================
