----------------------------- MODULE MCDebugger -----------------------------
(***************************************************************************)
(* Small programs for TLC to debug.  In each, the runtime that calls main  *)
(* has no line information.                                                *)
(***************************************************************************)
EXTENDS Debugger, TLC

Op(kind, len, to) == [kind |-> kind, len |-> len, to |-> to]

(* A main that calls f, with one-byte instructions after the prologues and *)
(* a stretch of f that belongs to line 0.                                  *)
NestedProgram ==
  0 :> Op("call", 5, {7}) @@ 5 :> Op("seq", 1, {}) @@ 6 :> Op("exit", 1, {})
  \* main
  @@ 7 :> Op("enter", 1, {}) @@ 8 :> Op("seq", 1, {}) @@ 9 :> Op("call", 5, {16})
  @@ 14 :> Op("seq", 1, {}) @@ 15 :> Op("ret", 1, {})
  \* f
  @@ 16 :> Op("enter", 1, {}) @@ 17 :> Op("jump", 2, {19, 20})
  @@ 19 :> Op("seq", 1, {}) @@ 20 :> Op("ret", 1, {})

NestedAddr == 0 .. 20

NestedLines == [a \in NestedAddr |->
  CASE a < 7 -> NoLine [] a \in 7 .. 8 -> 1 [] a \in 9 .. 13 -> 2
    [] a \in 14 .. 15 -> 3 [] a \in 16 .. 18 -> 4 [] a = 19 -> 0
    [] OTHER -> 5]

NestedBreaks == {8, 14, 17}
NestedOnlyMain == {8}
NestedAnyMain == {8, NoAddr}

(* The same, with the call made through a register.                        *)
IndirectAddr == NestedAddr
IndirectProgram == [NestedProgram EXCEPT ![9].kind = "icall"]
IndirectLines == NestedLines

(* A main that calls f once or twice, and an f that may call g.            *)
DeepProgram ==
  0 :> Op("call", 5, {7}) @@ 5 :> Op("seq", 1, {}) @@ 6 :> Op("exit", 1, {})
  \* main
  @@ 7 :> Op("enter", 1, {}) @@ 8 :> Op("seq", 1, {}) @@ 9 :> Op("call", 5, {23})
  @@ 14 :> Op("jump", 2, {16, 21}) @@ 16 :> Op("call", 5, {23})
  @@ 21 :> Op("seq", 1, {}) @@ 22 :> Op("ret", 1, {})
  \* f
  @@ 23 :> Op("enter", 1, {}) @@ 24 :> Op("jump", 2, {26, 32})
  @@ 26 :> Op("call", 5, {34}) @@ 31 :> Op("seq", 1, {})
  @@ 32 :> Op("seq", 1, {}) @@ 33 :> Op("ret", 1, {})
  \* g
  @@ 34 :> Op("enter", 1, {}) @@ 35 :> Op("seq", 2, {}) @@ 37 :> Op("ret", 1, {})

\* The same, with the two calls of f next to each other.
CallAfterCall ==
  14 :> Op("call", 5, {23}) @@ 19 :> Op("seq", 2, {})
  @@ [a \in DOMAIN DeepProgram \ {16} |-> DeepProgram[a]]

DeepAddr == 0 .. 37

DeepLines == [a \in DeepAddr |->
  CASE a < 7 -> NoLine [] a \in 7 .. 8 -> 1 [] a \in 9 .. 15 -> 2
    [] a \in 16 .. 20 -> 3 [] a \in 21 .. 22 -> 4
    [] a \in 23 .. 25 -> 5 [] a \in 26 .. 30 -> 6 [] a = 31 -> 0
    [] a \in 32 .. 33 -> 7 [] a \in 34 .. 36 -> 8 [] OTHER -> 9]

DeepBreaks == {8, 24, 32, 35}
DeepOnlyMain == {8}

(* The same calls, with more than one byte wherever a breakpoint may be    *)
(* put and one byte elsewhere, and a g that may fault.                     *)
PlacedProgram ==
  0 :> Op("call", 5, {7}) @@ 5 :> Op("seq", 1, {}) @@ 6 :> Op("exit", 1, {})
  \* main
  @@ 7 :> Op("enter", 1, {}) @@ 8 :> Op("seq", 2, {}) @@ 10 :> Op("call", 5, {23})
  @@ 15 :> Op("jump", 2, {17, 22}) @@ 17 :> Op("call", 5, {23})
  @@ 22 :> Op("ret", 1, {})
  \* f
  @@ 23 :> Op("enter", 1, {}) @@ 24 :> Op("jump", 2, {26, 32})
  @@ 26 :> Op("call", 5, {35}) @@ 31 :> Op("seq", 1, {})
  @@ 32 :> Op("seq", 2, {}) @@ 34 :> Op("ret", 1, {})
  \* g
  @@ 35 :> Op("enter", 1, {}) @@ 36 :> Op("jump", 2, {38, 39})
  @@ 38 :> Op("fault", 1, {}) @@ 39 :> Op("ret", 1, {})

PlacedAddr == 0 .. 39

PlacedLines == [a \in PlacedAddr |->
  CASE a < 7 -> NoLine [] a \in 7 .. 9 -> 1 [] a \in 10 .. 16 -> 2
    [] a \in 17 .. 22 -> 3 [] a \in 23 .. 25 -> 4 [] a \in 26 .. 31 -> 5
    [] a \in 32 .. 34 -> 6 [] OTHER -> 7]

PlacedBreaks == {8, 24, 32, 36}
PlacedOnlyMain == {8}

(* A main that calls f, and an f that may call itself.                     *)
RecursiveProgram ==
  0 :> Op("call", 5, {7}) @@ 5 :> Op("seq", 1, {}) @@ 6 :> Op("exit", 1, {})
  \* main
  @@ 7 :> Op("enter", 1, {}) @@ 8 :> Op("call", 5, {14}) @@ 13 :> Op("ret", 1, {})
  \* f
  @@ 14 :> Op("enter", 1, {}) @@ 15 :> Op("jump", 1, {16, 22})
  @@ 16 :> Op("call", 5, {14}) @@ 21 :> Op("seq", 1, {}) @@ 22 :> Op("ret", 1, {})

RecursiveAddr == 0 .. 22

RecursiveLines == [a \in RecursiveAddr |->
  CASE a < 7 -> NoLine [] a \in 7 .. 13 -> 1 [] a \in 14 .. 15 -> 2
    [] a \in 16 .. 21 -> 3 [] OTHER -> 4]

RecursiveOnlyMain == {8}
RecursiveBreaks == {8, 15}
=============================================================================
