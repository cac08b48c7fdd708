---------------------------- MODULE LineProgram ----------------------------
(***************************************************************************)
(* What a line number program of .debug_line is made of: the header fields *)
(* its interpretation depends on, its opcodes, the registers of the line   *)
(* number state machine and the rows it commits.                           *)
(*                                                                         *)
(* Of the registers of src/src/line_vm.h the module keeps those a lookup   *)
(* reads.  column and isa are copied into rows nobody asks about;          *)
(* basic_block and epilogue_begin are set and cleared beside prologue_end. *)
(***************************************************************************)
EXTENDS Integers, Sequences

CONSTANTS
  OpcodeBase,               \* header: first special opcode
  LineBase, LineRange,      \* header: what a special opcode adds to line
  MinimumInstructionLength,
  MaximumOperations,        \* header: 0 when the version is below 4, which
                            \* has no such field
  DefaultIsStmt,
  FileNames                 \* header: the file names, numbered from 1

\* OpcodeBase: a header that knows the twelve standard opcodes.
ASSUME HeaderAssumption ==
  /\ OpcodeBase \in 13 .. 255
  /\ LineBase \in Int
  /\ LineRange \in Nat \ {0}
  /\ MinimumInstructionLength \in Nat \ {0}
  /\ MaximumOperations \in Nat
  /\ DefaultIsStmt \in BOOLEAN
  /\ Len(FileNames) > 0

(* An opcode and its operand; n is 0 where there is none, and the distance *)
(* from OpcodeBase for a special opcode.                                   *)
Op(name, n) == [name |-> name, n |-> n]

Names == {"special", "copy", "advance_pc", "advance_line", "set_file",
          "negate_stmt", "const_add_pc", "fixed_advance_pc",
          "set_prologue_end", "set_address", "end_sequence",
          "unsupported",  \* set_discriminator, define_file, lo_user, hi_user
          "unknown"}      \* the other extended opcodes

Opcodes == [name : Names, n : Int]

Row == [address : Nat, op_index : Nat, file : Nat, line : Int,
        is_stmt : BOOLEAN, prologue_end : BOOLEAN, end_sequence : BOOLEAN]

InitialRegisters ==
  [address |-> 0, op_index |-> 0, file |-> 1, line |-> 1,
   is_stmt |-> DefaultIsStmt, prologue_end |-> FALSE, end_sequence |-> FALSE]

SpecialLine(n) == LineBase + (n % LineRange)
=============================================================================
