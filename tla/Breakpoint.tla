---------------------------- MODULE Breakpoint ----------------------------
(***************************************************************************)
(* src/src/breakpoint.cpp: what enabling and disabling a breakpoint does   *)
(* to the bytes of the target's text.  Only the first byte of the word     *)
(* that PEEKTEXT and POKETEXT move is ever changed, so the text is a       *)
(* function from addresses to bytes, and a byte is either the program's    *)
(* own ("op"), the trap instruction 0xCC ("trap"), or the low byte of a    *)
(* failed PEEKTEXT ("junk").                                               *)
(***************************************************************************)
EXTENDS Integers

CONSTANT Addr

Byte == {"op", "trap", "junk"}

Text == [Addr -> Byte]

OriginalText == [a \in Addr |-> "op"]

(* PEEKTEXT of the byte at a.  It fails, and answers -1, when the target   *)
(* is not there to be read or nothing is mapped at a.                      *)
Peek(text, attached, a) ==
  IF attached /\ a \in Addr THEN text[a] ELSE "junk"

Poke(text, attached, a, byte) ==
  IF attached /\ a \in Addr THEN [text EXCEPT ![a] = byte] ELSE text

\* Breakpoint::enable, the byte it saves in m_data and the text it leaves.
EnableData(text, attached, a) == Peek(text, attached, a)

EnableText(text, attached, a) == Poke(text, attached, a, "trap")

\* Breakpoint::disable, with data the byte saved in m_data.
DisableText(text, attached, a, data) == Poke(text, attached, a, data)
=============================================================================
