------------------------- MODULE CommandLoopProofs -------------------------
(***************************************************************************)
(* Debugger::exec calls for a target only when there is exactly one,       *)
(* whatever the user types.  The invariant ties what exec checks,          *)
(* m_is_running, to what it stands for, the number of targets created.     *)
(***************************************************************************)
EXTENDS CommandLoop, TLAPS

Unrunning == {"none", "start", "kill"}

RunningIsForked ==
  /\ m_is_running = TRUE \/ m_is_running = FALSE
  /\ m_is_running => forks = 1
  /\ ~m_is_running => forks = 0
  /\ call.name \notin Unrunning => m_is_running

LEMMA InitForked == Init => RunningIsForked
BY DEF Init, RunningIsForked, NoCall, Unrunning

\* What is neither start nor quit is handled only when the target runs.
LEMMA OnlyWhenRunning ==
  ASSUME NEW line, NEW command, Handles(line, command),
         command \notin {"Start", "Quit"}
  PROVE  m_is_running
BY DEF Handles, Allowed

\* The commands that create no target and leave the flag.
LEMMA KeepsForked ==
  ASSUME RunningIsForked, UNCHANGED <<m_is_running, forks>>,
         call'.name \notin Unrunning => m_is_running
  PROVE  RunningIsForked'
BY DEF RunningIsForked

LEMMA QuietForked ==
  ASSUME RunningIsForked, UNCHANGED <<m_is_running, forks>>, call' = NoCall
  PROVE  RunningIsForked'
BY KeepsForked DEF NoCall, Unrunning

LEMMA NextForked == RunningIsForked /\ [Next]_vars => RunningIsForked'
<1> SUFFICES ASSUME RunningIsForked, [Next]_vars PROVE RunningIsForked'
  OBVIOUS
<1> USE DEF Stays
<1>1. CASE UNCHANGED vars
  BY <1>1 DEF vars, RunningIsForked
<1>2. CASE Next
  <2>1. PICK line \in Lines \cup {EmptyLine} : Turn(line)
    BY <1>2 DEF Next
  <2>2. CASE Nothing(line)
    BY <2>2, QuietForked DEF Nothing, Complains
  <2>3. CASE Break(line)
    <3>1. m_is_running
      BY <2>3, OnlyWhenRunning DEF Break
    <3>2. UNCHANGED <<m_is_running, forks>>
      BY <2>3 DEF Break, Complains, Throws
    <3> QED BY <3>1, <3>2, KeepsForked
  <2>4. CASE Looks(line)
    <3>1. PICK command \in DOMAIN Simple : Handles(line, command) /\ Stays
      BY <2>4 DEF Looks
    <3>2. command \notin {"Start", "Quit"}
      BY <3>1 DEF Simple
    <3>3. m_is_running
      BY <3>1, <3>2, OnlyWhenRunning
    <3> QED BY <3>1, <3>3, KeepsForked
  <2>5. CASE Moves(line)
    <3>1. PICK command \in DOMAIN Running : Handles(line, command)
      BY <2>5 DEF Moves
    <3>2. command \notin {"Start", "Quit"}
      BY <3>1 DEF Running
    <3>3. m_is_running
      BY <3>1, <3>2, OnlyWhenRunning
    <3> QED BY <2>5, <3>3, KeepsForked DEF Moves
  <2>6. CASE PrintVariable(line)
    <3>1. m_is_running
      BY <2>6, OnlyWhenRunning DEF PrintVariable
    <3> QED BY <2>6, <3>1, KeepsForked DEF PrintVariable
  <2>7. CASE Quit(line)
    BY <2>7, KeepsForked DEF Quit, Calls, Unrunning
  <2>8. CASE Set(line)
    <3>1. m_is_running
      BY <2>8, OnlyWhenRunning DEF Set
    <3>2. UNCHANGED <<m_is_running, forks>>
      BY <2>8 DEF Set, Complains, Throws
    <3> QED BY <3>1, <3>2, KeepsForked
  <2>9. CASE Step(line)
    <3>1. m_is_running
      BY <2>9, OnlyWhenRunning DEF Step
    <3>2. UNCHANGED <<m_is_running, forks>>
      BY <2>9 DEF Step, Throws
    <3> QED BY <3>1, <3>2, KeepsForked
  <2>10. CASE Start(line)
    <3>1. CASE m_is_running
      BY <2>10, <3>1, KeepsForked DEF Start
    <3>2. CASE ~m_is_running
      <4>1. m_is_running' = TRUE /\ forks' = forks + 1
        BY <2>10, <3>2 DEF Start
      <4>2. forks = 0
        BY <3>2 DEF RunningIsForked
      <4>3. 0 + 1 = 1
        OBVIOUS
      <4>4. forks' = 1
        BY <4>1, <4>2, <4>3, Zenon
      <4> QED BY <4>1, <4>4 DEF RunningIsForked
    <3> QED BY <3>1, <3>2
  <2> QED
    BY <2>1, <2>2, <2>3, <2>4, <2>5, <2>6, <2>7, <2>8, <2>9, <2>10 DEF Turn
<1> QED BY <1>1, <1>2

LEMMA ForkedOneTarget == RunningIsForked => OneTargetFirst
BY DEF RunningIsForked, OneTargetFirst, Unrunning

(* Whatever lines the user may type, in any order: no call but start and   *)
(* kill is made before there is a target (debugger.cpp:43), and there is   *)
(* never more than one (debugger.cpp:135).                                 *)
THEOREM OneTargetFirstCorrect == Spec => []OneTargetFirst
BY InitForked, NextForked, ForkedOneTarget, PTL DEF Spec
-----------------------------------------------------------------------------
(* Abbreviations.                                                          *)

LEMMA PrefixLetters ==
  ASSUME NEW s, NEW t \in Seq(STRING), NEW n \in Nat, Len(s) = n, IsPrefix(s, t)
  PROVE  n <= Len(t) /\ \A k \in 1 .. n : t[k] = s[k]
<1>1. n <= Len(t) /\ SubSeq(s, 1, n) = SubSeq(t, 1, n)
  BY DEF IsPrefix
<1> QED BY <1>1

\* A prefix of a prefix.
LEMMA PrefixTransitive ==
  ASSUME NEW s, Len(s) \in Nat, NEW t \in Seq(STRING), NEW u \in Seq(STRING),
         IsPrefix(s, t), IsPrefix(t, u)
  PROVE  IsPrefix(s, u)
<1>1. /\ Len(t) \in Nat /\ Len(u) \in Nat
      /\ Len(s) <= Len(t) /\ Len(t) <= Len(u)
  BY DEF IsPrefix
<1>2. \A k \in 1 .. Len(t) : u[k] = t[k]
  BY <1>1, PrefixLetters
<1>3. SubSeq(t, 1, Len(s)) = SubSeq(u, 1, Len(s))
  BY <1>1, <1>2
<1> QED BY <1>1, <1>3 DEF IsPrefix

LEMMA FirstLetters ==
  ASSUME NEW w \in Seq(STRING), NEW a, NEW b, NEW c
  PROVE  /\ IsPrefix(<<a>>, w) => w[1] = a
         /\ IsPrefix(<<a, b>>, w) => w[1] = a /\ w[2] = b
         /\ IsPrefix(<<a, b, c>>, w) => w[1] = a /\ w[2] = b /\ w[3] = c
<1>1. ASSUME IsPrefix(<<a>>, w) PROVE w[1] = a
  <2>1. Len(<<a>>) = 1
    OBVIOUS
  <2>2. \A k \in 1 .. 1 : w[k] = <<a>>[k]
    BY <1>1, <2>1, PrefixLetters
  <2> QED BY <2>2
<1>2. ASSUME IsPrefix(<<a, b>>, w) PROVE w[1] = a /\ w[2] = b
  <2>1. Len(<<a, b>>) = 2
    OBVIOUS
  <2>2. \A k \in 1 .. 2 : w[k] = <<a, b>>[k]
    BY <1>2, <2>1, PrefixLetters
  <2> QED BY <2>2
<1>3. ASSUME IsPrefix(<<a, b, c>>, w) PROVE w[1] = a /\ w[2] = b /\ w[3] = c
  <2>1. Len(<<a, b, c>>) = 3
    OBVIOUS
  <2>2. \A k \in 1 .. 3 : w[k] = <<a, b, c>>[k]
    BY <1>3, <2>1, PrefixLetters
  <2> QED BY <2>2
<1> QED BY <1>1, <1>2, <1>3

(* No word starts with the letters of two commands: the order in which     *)
(* they are tried makes no difference.                                     *)
LEMMA CommandLetters ==
  ASSUME NEW w \in Seq(STRING), NEW i \in DOMAIN CommandPrefixes,
         IsPrefix(CommandPrefixes[i][1], w)
  PROVE  \/ i = 1 /\ w[1] = "b" /\ w[2] = "r"
         \/ i = 2 /\ w[1] = "b" /\ w[2] = "t"
         \/ i = 3 /\ w[1] = "c"
         \/ i = 4 /\ w[1] = "d"
         \/ i = 5 /\ w[1] = "f"
         \/ i = 6 /\ w[1] = "i"
         \/ i = 7 /\ w[1] = "n"
         \/ i = 8 /\ w[1] = "p"
         \/ i = 9 /\ w[1] = "q"
         \/ i = 10 /\ w[1] = "s" /\ w[2] = "e"
         \/ i = 11 /\ w[1] = "s" /\ w[2] = "t" /\ w[3] = "a"
         \/ i = 12 /\ w[1] = "s" /\ w[2] = "t" /\ w[3] = "e"
<1>0. i \in 1 .. 12
  BY DEF CommandPrefixes
<1>1. CASE i = 1
  <2>1. IsPrefix(<<"b", "r">>, w)
    BY <1>1 DEF CommandPrefixes
  <2> QED BY <1>1, <2>1, FirstLetters, Zenon
<1>2. CASE i = 2
  <2>1. IsPrefix(<<"b", "t">>, w)
    BY <1>2 DEF CommandPrefixes
  <2> QED BY <1>2, <2>1, FirstLetters, Zenon
<1>3. CASE i = 3
  <2>1. IsPrefix(<<"c">>, w)
    BY <1>3 DEF CommandPrefixes
  <2> QED BY <1>3, <2>1, FirstLetters, Zenon
<1>4. CASE i = 4
  <2>1. IsPrefix(<<"d">>, w)
    BY <1>4 DEF CommandPrefixes
  <2> QED BY <1>4, <2>1, FirstLetters, Zenon
<1>5. CASE i = 5
  <2>1. IsPrefix(<<"f">>, w)
    BY <1>5 DEF CommandPrefixes
  <2> QED BY <1>5, <2>1, FirstLetters, Zenon
<1>6. CASE i = 6
  <2>1. IsPrefix(<<"i">>, w)
    BY <1>6 DEF CommandPrefixes
  <2> QED BY <1>6, <2>1, FirstLetters, Zenon
<1>7. CASE i = 7
  <2>1. IsPrefix(<<"n">>, w)
    BY <1>7 DEF CommandPrefixes
  <2> QED BY <1>7, <2>1, FirstLetters, Zenon
<1>8. CASE i = 8
  <2>1. IsPrefix(<<"p">>, w)
    BY <1>8 DEF CommandPrefixes
  <2> QED BY <1>8, <2>1, FirstLetters, Zenon
<1>9. CASE i = 9
  <2>1. IsPrefix(<<"q">>, w)
    BY <1>9 DEF CommandPrefixes
  <2> QED BY <1>9, <2>1, FirstLetters, Zenon
<1>10. CASE i = 10
  <2>1. IsPrefix(<<"s", "e">>, w)
    BY <1>10 DEF CommandPrefixes
  <2> QED BY <1>10, <2>1, FirstLetters, Zenon
<1>11. CASE i = 11
  <2>1. IsPrefix(<<"s", "t", "a">>, w)
    BY <1>11 DEF CommandPrefixes
  <2> QED BY <1>11, <2>1, FirstLetters, Zenon
<1>12. CASE i = 12
  <2>1. IsPrefix(<<"s", "t", "e">>, w)
    BY <1>12 DEF CommandPrefixes
  <2> QED BY <1>12, <2>1, FirstLetters, Zenon
<1> QED
  BY <1>0, <1>1, <1>2, <1>3, <1>4, <1>5, <1>6, <1>7, <1>8, <1>9, <1>10, <1>11,
     <1>12

LEMMA OneCommand ==
  ASSUME NEW w \in Seq(STRING),
         NEW i \in DOMAIN CommandPrefixes, IsPrefix(CommandPrefixes[i][1], w),
         NEW j \in DOMAIN CommandPrefixes, IsPrefix(CommandPrefixes[j][1], w)
  PROVE  i = j
BY CommandLetters

LEMMA ParseIs ==
  ASSUME NEW w \in Seq(STRING),
         NEW i \in DOMAIN CommandPrefixes, IsPrefix(CommandPrefixes[i][1], w)
  PROVE  Parse(w) = CommandPrefixes[i][2]
<1> DEFINE Matches == {j \in DOMAIN CommandPrefixes :
                         IsPrefix(CommandPrefixes[j][1], w)}
           first == CHOOSE j \in Matches : \A k \in Matches : j <= k
<1>1. i \in Matches /\ \A j \in Matches : j = i
  BY OneCommand
<1>2. i <= i
  <2>1. i \in 1 .. 12
    BY DEF CommandPrefixes
  <2> QED BY <2>1
<1>3. first = i
  <2> HIDE DEF Matches
  <2> QED BY <1>1, <1>2
<1> HIDE DEF first
<1> QED BY <1>1, <1>3 DEF Parse, first

LEMMA LettersLength ==
  \A i \in DOMAIN CommandPrefixes : Len(CommandPrefixes[i][1]) \in Nat
<1> SUFFICES ASSUME NEW i \in DOMAIN CommandPrefixes
             PROVE  Len(CommandPrefixes[i][1]) \in Nat
  OBVIOUS
<1>1. i \in 1 .. 12
  BY DEF CommandPrefixes
<1>2. CASE i \in 1 .. 4
  BY <1>2 DEF CommandPrefixes
<1>3. CASE i \in 5 .. 8
  BY <1>3 DEF CommandPrefixes
<1>4. CASE i \in 9 .. 12
  BY <1>4 DEF CommandPrefixes
<1> QED BY <1>1, <1>2, <1>3, <1>4

(* What is left of a word, if it is still taken for a command, is taken    *)
(* for the same one.                                                       *)
LEMMA AbbreviationParses ==
  ASSUME NEW w \in Seq(STRING), NEW whole \in Seq(STRING), IsPrefix(w, whole)
  PROVE  Parse(w) = "Unknown" \/ Parse(w) = Parse(whole)
<1>1. CASE \E i \in DOMAIN CommandPrefixes : IsPrefix(CommandPrefixes[i][1], w)
  <2>1. PICK i \in DOMAIN CommandPrefixes : IsPrefix(CommandPrefixes[i][1], w)
    BY <1>1
  <2>2. IsPrefix(CommandPrefixes[i][1], whole)
    BY <2>1, LettersLength, PrefixTransitive
  <2> QED BY <2>1, <2>2, ParseIs
<1>2. CASE ~\E i \in DOMAIN CommandPrefixes : IsPrefix(CommandPrefixes[i][1], w)
  <2>1. {i \in DOMAIN CommandPrefixes : IsPrefix(CommandPrefixes[i][1], w)} = {}
    BY <1>2
  <2> QED BY <2>1, Zenon DEF Parse
<1> QED BY <1>1, <1>2

\* The calls exec makes for a command.
CallsFor(command) ==
  {name \in {"break_on_function", "break_on_line_and_file"} : command = "Break"}
    \cup {Simple[c] : c \in DOMAIN Simple \cap {command}}
    \cup {Running[c] : c \in DOMAIN Running \cap {command}}
    \cup {name \in {"get_variable_value"} : command = "Print"}
    \cup {name \in {"kill"} : command = "Quit"}
    \cup {name \in {"set_variable_value"} : command = "Set"}
    \cup {name \in {"step"} : command = "Step"}
    \cup {name \in {"start"} : command = "Start"}

\* The documentation of each whole word is that of the command it is.
WordsAreDocumented ==
  \A entry \in Documented :
    entry.word \in Seq(STRING) /\ CallsFor(Parse(entry.word)) \subseteq entry.calls

CallIsForInput ==
  /\ input.word \in Seq(STRING)
  /\ call.name # "none" => call.name \in CallsFor(Parse(input.word))

LEMMA InitCall == Init => CallIsForInput
BY DEF Init, CallIsForInput, EmptyLine, NoCall

LEMMA NextCall == CallIsForInput /\ [Next]_vars => CallIsForInput'
<1> SUFFICES ASSUME CallIsForInput, [Next]_vars PROVE CallIsForInput'
  OBVIOUS
<1>1. CASE UNCHANGED vars
  BY <1>1 DEF vars, CallIsForInput
<1>2. CASE Next
  <2>1. PICK line \in Lines \cup {EmptyLine} : Turn(line)
    BY <1>2 DEF Next
  <2>2. line.word \in Seq(STRING)
    <3>1. CASE line \in Lines
      BY <3>1, LinesAssumption
    <3>2. CASE line = EmptyLine
      BY <3>2 DEF EmptyLine
    <3> QED BY <3>1, <3>2
  <2>3. input' = line
    BY <2>1 DEF Turn, Nothing, Break, Looks, Moves, PrintVariable, Quit, Set,
                Step, Start, Handles, Reads
  <2>4. call'.name # "none" => call'.name \in CallsFor(Parse(line.word))
    <3>1. CASE Nothing(line)
      BY <3>1 DEF Nothing, Complains, NoCall
    <3>2. CASE Break(line)
      <4>1. HasColon(line.arguments) \in BOOLEAN
        BY DEF HasColon
      <4>2. \/ call'.name \in {"break_on_function", "break_on_line_and_file"}
            \/ call'.name = "none"
        <5>1. \/ Complains \/ Throws
              \/ Calls("break_on_function", line.arguments)
              \/ Calls("break_on_line_and_file", line.arguments)
          BY <3>2, <4>1, Zenon DEF Break
        <5> QED BY <5>1 DEF Calls, Complains, Throws, NoCall
      <4> QED BY <3>2, <4>2 DEF Break, Handles, CallsFor
    <3>3. CASE Looks(line)
      <4>1. PICK command \in DOMAIN Simple :
              Parse(line.word) = command /\ call'.name = Simple[command]
        BY <3>3 DEF Looks, Handles, Calls
      <4> QED BY <4>1 DEF CallsFor
    <3>4. CASE Moves(line)
      <4>1. PICK command \in DOMAIN Running :
              Parse(line.word) = command /\ call'.name = Running[command]
        BY <3>4 DEF Moves, Handles, Calls
      <4> QED BY <4>1 DEF CallsFor
    <3>5. CASE PrintVariable(line) \/ Quit(line)
      BY <3>5 DEF PrintVariable, Quit, Handles, Calls, CallsFor
    <3>6. CASE Set(line)
      BY <3>6 DEF Set, Handles, Calls, Complains, Throws, NoCall, CallsFor
    <3>7. CASE Step(line)
      BY <3>7 DEF Step, Handles, Calls, Throws, NoCall, CallsFor
    <3>8. CASE Start(line)
      BY <3>8 DEF Start, Handles, Calls, CallsFor
    <3> QED BY <2>1, <3>1, <3>2, <3>3, <3>4, <3>5, <3>6, <3>7, <3>8 DEF Turn
  <2> QED BY <2>2, <2>3, <2>4 DEF CallIsForInput
<1> QED BY <1>1, <1>2

(* If each documented word calls what its documentation says, so does      *)
(* everything shorter that the parser accepts: no abbreviation of one      *)
(* command is taken for another.                                           *)
THEOREM AbbreviationsAgreeCorrect ==
  ASSUME WordsAreDocumented PROVE Spec => []AbbreviationsAgree
<1>1. CallIsForInput => AbbreviationsAgree
  <2> SUFFICES ASSUME CallIsForInput, NEW entry \in Documented,
                      IsPrefix(input.word, entry.word), call.name # "none"
               PROVE  call.name \in entry.calls
    BY DEF AbbreviationsAgree
  <2>1. /\ input.word \in Seq(STRING) /\ entry.word \in Seq(STRING)
        /\ call.name \in CallsFor(Parse(input.word))
        /\ CallsFor(Parse(entry.word)) \subseteq entry.calls
    BY DEF CallIsForInput, WordsAreDocumented
  <2>2. CallsFor("Unknown") = {}
    BY DEF CallsFor, Simple, Running
  <2>3. Parse(input.word) = Parse(entry.word)
    BY <2>1, <2>2, AbbreviationParses
  <2> QED BY <2>1, <2>3
<1> QED BY <1>1, InitCall, NextCall, PTL DEF Spec
=============================================================================
