----------------------------- MODULE MCInspect -----------------------------
(***************************************************************************)
(* The functions of the programs of MCDebugger; the runtime that calls     *)
(* main has no debug information.                                          *)
(***************************************************************************)
EXTENDS MCDebugger, Inspect

Function(name, low, high) == [name |-> name, low |-> low, high |-> high]

DeepFunctions ==
  <<Function("main", 7, 23), Function("f", 23, 34), Function("g", 34, 38)>>

PlacedFunctions ==
  <<Function("main", 7, 23), Function("f", 23, 35), Function("g", 35, 40)>>

(* An f behind padding, so that no function ends where another starts.     *)
PaddedFunctions == <<Function("main", 7, 22), Function("f", 23, 33),
                     Function("g", 34, 38)>>

RecursiveFunctions == <<Function("main", 7, 14), Function("f", 14, 23)>>
=============================================================================
