---------------------------- MODULE MCVariables ----------------------------
(***************************************************************************)
(* Frames for TLC: two variables at -1, -2 or -3 from rbp, the number      *)
(* encoded in one to three bytes, of which the third reaches beyond an     *)
(* int; and one variable that is elsewhere, or in a location list.         *)
(***************************************************************************)
EXTENDS Variables

NonNegative == 0 .. (Modulus \div 2) - 1
AllValues == -(Modulus \div 2) .. (Modulus \div 2) - 1
Negative == {-1}
MCLow == -5

Encodings(n) == {s \in Numbers(3) : SignedMeaning(s) = n}

\* rbp, as clang has it at -O0, and as an offset of nothing from it.
AtRbp == {Expression(Reg(6), << >>)} \cup {Expression(Breg(6), <<0>>)}

AtCfa == {Expression(CallFrameCfa, << >>)}

Frames(bases, Offset) ==
  {[frame_base |-> base, location |-> [v \in {"x", "y"} |->
      Expression(Fbreg, IF v = "x" THEN s ELSE t)]] :
     base \in bases, s \in UNION {Encodings(n) : n \in Offset},
     t \in UNION {Encodings(n) : n \in Offset}}

IsFrame(l) ==
  \A v, w \in DOMAIN l.location :
    v # w =>
      Home(l.frame_base, l.location[v]) # Home(l.frame_base, l.location[w])

\* A static variable; one the compiler has made a constant, DW_OP_lit5
\* DW_OP_stack_value; and one it has put into a register.
Elsewhere(opcode, operand) ==
  [frame_base |-> Expression(Reg(6), << >>),
   location |-> [v \in {"x"} |-> Expression(opcode, operand)]]

\* The opcodes of DWARF 4, section 7.7.1, but for those that the machine
\* evaluates and DW_OP_lit2 to DW_OP_lit30.
Unsupported ==
  {3, 6} \cup 8 .. 49 \cup {79, 144} \cup 146 .. 159 \cup {224, 255}

FromRbp ==
  {l \in Frames(AtRbp, -3 .. -1) : IsFrame(l)}
    \cup {Elsewhere(op, <<1>>) : op \in Unsupported}
    \cup {[frame_base |-> base, location |-> [v \in {"x"} |-> LocationList]] :
            base \in AtRbp \cup {Nothing}}

FromCfa == {l \in Frames(AtCfa, -3 .. -2) : IsFrame(l)}

InRegister == {Elsewhere(Reg(3), << >>)}

Constant == {Elsewhere(Lit2 + 3, <<StackValue % 8>>)}

\* A variable that is in the source only.
OptimizedOut == {[frame_base |-> Expression(Reg(6), << >>),
                  location |-> [v \in {"x"} |-> Nothing]]}
=============================================================================
