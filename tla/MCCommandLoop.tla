--------------------------- MODULE MCCommandLoop ---------------------------
(***************************************************************************)
(* Lines for TLC to type: the words of README.md, whole and abbreviated,   *)
(* with arguments of every kind.                                           *)
(***************************************************************************)
EXTENDS CommandLoop

Words ==
  {<<"s", "t", "a", "r", "t">>, <<"s", "t", "e", "p">>, <<"s", "e", "t">>,
   <<"i", "n", "f", "o">>, <<"b", "t">>, <<"b", "r", "e", "a", "k">>,
   <<"c", "o", "n", "t">>, <<"p", "r", "i", "n", "t">>,
   <<"f", "i", "n", "i", "s", "h">>, <<"d", "e", "l", "e", "t", "e">>,
   <<"n", "e", "x", "t">>, <<"q">>}

Documentation(letters, calls) == [word |-> letters, calls |-> calls]

Readme ==
  {Documentation(<<"s", "t", "a", "r", "t">>, {"start"}),
   Documentation(<<"s", "t", "e", "p">>, {"step"}),
   Documentation(<<"s", "e", "t">>, {"set_variable_value"}),
   Documentation(<<"i", "n", "f", "o">>, {"print_hardware_registers"}),
   Documentation(<<"b", "t">>, {"backtrace"}),
   Documentation(<<"b", "r", "e", "a", "k">>,
                 {"break_on_function", "break_on_line_and_file"}),
   Documentation(<<"c", "o", "n", "t">>, {"continue_execution"}),
   Documentation(<<"p", "r", "i", "n", "t">>, {"get_variable_value"}),
   Documentation(<<"f", "i", "n", "i", "s", "h">>,
                 {"continue_to_end_of_stack_frame"}),
   Documentation(<<"d", "e", "l", "e", "t", "e">>, {"delete_all_breakpoints"}),
   Documentation(<<"n", "e", "x", "t">>, {"next"})}

Abbreviations ==
  UNION {{SubSeq(w, 1, n) : n \in 1 .. Len(w)} : w \in Words}

Line(letters, arguments) == [word |-> letters, arguments |-> arguments]

SomeArguments ==
  {<<"none">>, <<"name">>, <<"number">>, <<"line">>, <<"colon">>,
   <<"name", "number">>, <<"name", "name">>, <<"name", "huge">>,
   <<"none", "number">>}

AllLines == {Line(w, a) : w \in Words, a \in SomeArguments}
              \cup {Line(w, <<"none">>) : w \in Abbreviations}
=============================================================================
