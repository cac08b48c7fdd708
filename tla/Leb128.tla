------------------------------- MODULE Leb128 -------------------------------
(***************************************************************************)
(* decodeULEB128 and decodeLEB128 of src/src/util.cpp, and the fixed-width *)
(* reads of src/src/util.h.                                                *)
(*                                                                         *)
(* A byte has Group bits and, above them, the bit that says there is       *)
(* another.  The code has Group = 7 and shifts each group as an int of     *)
(* IntBits = 32 bits into a result of Size = 64; the last group that       *)
(* starts inside an int reaches beyond it.  The models keep that, with     *)
(* fewer bits.  An int wraps, as it does where the debugger is built.      *)
(***************************************************************************)
EXTENDS Integers, SequencesExt

CONSTANTS Group, IntBits, Size

ASSUME Leb128Assumption ==
  /\ {Group, IntBits, Size} \subseteq Nat \ {0}
  /\ Group < IntBits /\ IntBits < Size

Byte == 0 .. 2^(Group + 1) - 1

More(byte) == byte >= 2^Group

Payload(byte) == byte % 2^Group

\* A shift by the width of an int, or more, is undefined.
NoNumber == 2^Size

\* The last byte of the number at position p of the bytes s.
LastByte(s, p) == Min({i \in p .. Len(s) : ~More(s[i])})

\* Where the reader stands behind the number at p.
After(s, p) == LastByte(s, p) + 1

\* A group shifted as an int and then extended to 64 bits, with its sign.
Shifted(byte, shift) ==
  LET bits == (Payload(byte) * 2^shift) % 2^IntBits
  IN  IF bits < 2^(IntBits - 1) THEN bits ELSE bits + 2^Size - 2^IntBits

\* Mutant: every group but the first is one bit too far to the left.
ShiftTooFar(i) == IF i = 0 THEN 0 ELSE Group * i + 1

ShiftOf(i) == Group * i

\* decodeULEB128.  The groups have no bit in common: only the last can have
\* been extended.
Unsigned(s, p) ==
  LET last == LastByte(s, p)
      from[i \in p .. last] ==
        Shifted(s[i], ShiftOf(i - p)) + (IF i = last THEN 0 ELSE from[i + 1])
  IN  IF ShiftOf(last - p) >= IntBits THEN NoNumber ELSE from[p]

AsSigned(n) == IF n < 2^(Size - 1) THEN n ELSE n - 2^Size

\* Mutant: the sign of the last group is not extended.
SignedNotExtended(s, p) == AsSigned(Unsigned(s, p))

\* decodeLEB128: the bits from shift upwards are set if the last group is
\* negative, unless they have been already.
Signed(s, p) ==
  LET result == Unsigned(s, p)
      shift == ShiftOf(After(s, p) - p)
      negative == Payload(s[LastByte(s, p)]) >= 2^(Group - 1)
  IN  IF result = NoNumber THEN NoNumber
      ELSE AsSigned(IF shift < Size /\ negative /\ result < 2^shift
                    THEN result + 2^Size - 2^shift ELSE result)

\* read_bytes of an unsigned integer: n bytes, the least significant first.
Fixed(s, p, n) == FoldRight(LAMBDA byte, rest : byte + 2^(Group + 1) * rest,
                            SubSeq(s, p, p + n - 1), 0)
-----------------------------------------------------------------------------
(* What the standard calls the number (DWARF 4, section 7.6).              *)
Meaning(bytes) ==
  LET from[i \in DOMAIN bytes] ==
        Payload(bytes[i])
          + (IF i = Len(bytes) THEN 0 ELSE 2^Group * from[i + 1])
  IN  from[1]

SignedMeaning(bytes) ==
  IF Payload(bytes[Len(bytes)]) >= 2^(Group - 1)
  THEN Meaning(bytes) - 2^(Group * Len(bytes)) ELSE Meaning(bytes)

\* The numbers of up to n bytes, the ones with bytes to spare included.
Numbers(n) ==
  UNION {{s \in [1 .. k -> Byte] : LastByte(s \o <<0>>, 1) = k} : k \in 1 .. n}
=============================================================================
