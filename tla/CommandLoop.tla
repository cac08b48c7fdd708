---------------------------- MODULE CommandLoop ----------------------------
(***************************************************************************)
(* The command line: Debugger::exec of src/src/debugger.cpp and            *)
(* CommandParser::parse of src/src/command_parser.cpp.  What the commands  *)
(* do to the target is in Debugger; here a command is the call exec makes. *)
(*                                                                         *)
(* A line is the letters up to the first space and the arguments after it, *)
(* each argument by what the number conversions of exec make of it.        *)
(***************************************************************************)
EXTENDS Integers, SequencesExt, FiniteSetsExt

CONSTANTS
  Lines,       \* what the user may type
  Documented   \* the words of README.md's session, each with the calls it
               \* is there for

ArgumentKinds == {"none",     \* nothing: two spaces, or the end of the line
                  "name",     \* no number at its start, and no colon
                  "number",   \* fits an int
                  "huge",     \* fits no integer type
                  "line",     \* has a colon, and a number after it
                  "colon"}    \* has a colon, and no number that fits after it

ASSUME LinesAssumption ==
  \A line \in Lines :
    /\ line.word \in Seq(STRING)
    /\ line.arguments \in Seq(ArgumentKinds) /\ line.arguments # << >>

VARIABLES
  m_is_running,
  forks,      \* targets created
  input,      \* the line read last
  call,       \* the call exec makes for it, with its arguments
  control,    \* "exec"; "exited", by std::exit; "aborted", by an exception
  eof         \* standard input has ended

vars == <<m_is_running, forks, input, call, control, eof>>

EmptyLine == [word |-> << >>, arguments |-> <<"none">>]

NoCall == [name |-> "none", arguments |-> << >>]

Init ==
  /\ m_is_running = FALSE
  /\ forks = 0
  /\ input = EmptyLine
  /\ call = NoCall
  /\ control = "exec"
  /\ eof = FALSE
-----------------------------------------------------------------------------
(* CommandParser::parse.                                                   *)

\* Mutant: step and start are told apart one letter too early.
ShortPrefixes ==
  << <<<<"b", "r">>, "Break">>, <<<<"b", "t">>, "BackTrace">>,
     <<<<"c">>, "Continue">>, <<<<"d">>, "Delete">>, <<<<"f">>, "Finish">>,
     <<<<"i">>, "Info">>, <<<<"n">>, "Next">>, <<<<"p">>, "Print">>,
     <<<<"q">>, "Quit">>, <<<<"s", "e">>, "Set">>, <<<<"s", "t">>, "Start">>,
     <<<<"s", "t", "e">>, "Step">> >>

\* The first letters that identify a command, in the order they are tried.
CommandPrefixes ==
  << <<<<"b", "r">>, "Break">>, <<<<"b", "t">>, "BackTrace">>,
     <<<<"c">>, "Continue">>, <<<<"d">>, "Delete">>, <<<<"f">>, "Finish">>,
     <<<<"i">>, "Info">>, <<<<"n">>, "Next">>, <<<<"p">>, "Print">>,
     <<<<"q">>, "Quit">>, <<<<"s", "e">>, "Set">>,
     <<<<"s", "t", "a">>, "Start">>, <<<<"s", "t", "e">>, "Step">> >>

Parse(word) ==
  LET Matches == {i \in DOMAIN CommandPrefixes :
                    IsPrefix(CommandPrefixes[i][1], word)}
      first == CHOOSE i \in Matches : \A j \in Matches : i <= j
  IN  IF Matches = {} THEN "Unknown" ELSE CommandPrefixes[first][2]

-----------------------------------------------------------------------------
(* One turn of the loop of exec.                                           *)

\* getline; once it has failed the line is empty.
Reads(line) ==
  /\ control = "exec"
  /\ input' = line
  /\ IF eof THEN line = EmptyLine /\ UNCHANGED eof
     ELSE \/ line \in Lines /\ UNCHANGED eof
          \/ line = EmptyLine /\ eof' = TRUE

\* Mutant: the command is handled whether the target is running or not.
AlwaysAllowed(command) == TRUE

Allowed(command) == m_is_running \/ command \in {"Start", "Quit"}

Handles(line, command) ==
  Reads(line) /\ Parse(line.word) = command /\ Allowed(command)

Calls(name, arguments) == call' = [name |-> name, arguments |-> arguments]

\* Calls that resume the target end the debugger when the target ends.
Resumes == control' \in {"exec", "exited"}

Stays == UNCHANGED <<m_is_running, forks, control>>

Throws ==
  /\ call' = NoCall
  /\ control' = "aborted"
  /\ UNCHANGED <<m_is_running, forks>>

Complains == call' = NoCall /\ Stays

\* Not running, or not a command.
Nothing(line) ==
  /\ Reads(line)
  /\ ~Allowed(Parse(line.word)) \/ Parse(line.word) = "Unknown"
  /\ Complains

HasColon(arguments) ==
  \E i \in DOMAIN arguments : arguments[i] \in {"line", "colon"}

FirstColon(arguments) ==
  arguments[Min({i \in DOMAIN arguments : arguments[i] \in {"line", "colon"}})]

Break(line) ==
  /\ Handles(line, "Break")
  /\ CASE line.arguments = <<"none">> -> Complains
       [] ~HasColon(line.arguments) ->
            Calls("break_on_function", line.arguments) /\ Stays
       [] HasColon(line.arguments) ->
            IF FirstColon(line.arguments) = "line"
            THEN Calls("break_on_line_and_file", line.arguments) /\ Stays
            ELSE Throws

Simple == [BackTrace |-> "backtrace", Delete |-> "delete_all_breakpoints",
           Info |-> "print_hardware_registers"]

Looks(line) ==
  \E command \in DOMAIN Simple :
    Handles(line, command) /\ Calls(Simple[command], << >>) /\ Stays

Running == [Continue |-> "continue_execution",
            Finish |-> "continue_to_end_of_stack_frame", Next |-> "next"]

Moves(line) ==
  /\ \E command \in DOMAIN Running :
       Handles(line, command) /\ Calls(Running[command], << >>)
  /\ Resumes
  /\ UNCHANGED <<m_is_running, forks>>

\* The arguments are always there, if only as an empty string.
PrintVariable(line) ==
  /\ Handles(line, "Print")
  /\ Calls("get_variable_value", line.arguments)
  /\ Stays

Quit(line) ==
  /\ Handles(line, "Quit")
  /\ Calls("kill", << >>)
  /\ control' = "exited"
  /\ UNCHANGED <<m_is_running, forks>>

Set(line) ==
  /\ Handles(line, "Set")
  /\ IF Len(line.arguments) # 2            THEN Complains
     ELSE IF line.arguments[2] = "number"
     THEN Calls("set_variable_value", line.arguments) /\ Stays
     ELSE Throws

\* stoi skips leading spaces.
FirstArgument(arguments) ==
  LET There == {i \in DOMAIN arguments : arguments[i] # "none"}
  IN  IF There = {} THEN "none" ELSE arguments[Min(There)]

Step(line) ==
  /\ Handles(line, "Step")
  /\ IF line.arguments = <<"none">> \/ FirstArgument(line.arguments) = "number"
     THEN /\ Calls("step", line.arguments)
          /\ Resumes
          /\ UNCHANGED <<m_is_running, forks>>
     ELSE Throws

Start(line) ==
  /\ Handles(line, "Start")
  /\ Calls("start", << >>)
  /\ IF m_is_running THEN Stays
     ELSE forks' = forks + 1 /\ m_is_running' = TRUE /\ Resumes

Turn(line) ==
  \/ Nothing(line)
  \/ Break(line) \/ Looks(line) \/ Moves(line) \/ PrintVariable(line)
  \/ Quit(line) \/ Set(line) \/ Step(line) \/ Start(line)

Next == \E line \in Lines \cup {EmptyLine} : Turn(line)

Spec == Init /\ [][Next]_vars
-----------------------------------------------------------------------------
(* No call but start and kill is made before there is a target             *)
(* (debugger.cpp:43), and there is never more than one (debugger.cpp:135). *)
OneTargetFirst ==
  /\ call.name \notin {"none", "start", "kill"} => forks = 1
  /\ forks <= 1

(* A documented word, and any shorter form of it that the parser accepts,  *)
(* calls what its documentation says: no abbreviation of one command is    *)
(* taken for another.                                                      *)
AbbreviationsAgree ==
  \A entry \in Documented :
    IsPrefix(input.word, entry.word) /\ call.name # "none" =>
      call.name \in entry.calls

(* What the user gets wrong in an argument is reported (debugger.cpp:110)  *)
(* and does not end the debugger.                                          *)
BadArgumentsAreReported == control # "aborted"

(* print without a name is refused (debugger.cpp:90).                      *)
PrintHasName ==
  call.name = "get_variable_value" => call.arguments # <<"none">>
=============================================================================
