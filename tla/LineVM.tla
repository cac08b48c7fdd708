------------------------------- MODULE LineVM -------------------------------
(***************************************************************************)
(* LineVM::exec of src/src/line_vm.cpp, one action per opcode.  The        *)
(* program it reads is any sequence of opcodes from Code in which the unit *)
(* ends, if it does, after an end_sequence.                                *)
(***************************************************************************)
EXTENDS LineProgram

CONSTANTS
  Code,        \* the opcodes a program is made of
  MaxOpcodes   \* bound: opcodes executed

ASSUME CodeAssumption == Code \subseteq Opcodes /\ MaxOpcodes \in Nat

VARIABLES
  registers,
  m_state,     \* rows committed so far
  opcode,      \* the opcode executed last
  state,       \* "running", "done", "exited" (std::exit), "crashed"
  left         \* opcodes still to come

vars == <<registers, m_state, opcode, state, left>>

Init ==
  /\ registers = InitialRegisters
  /\ m_state = << >>
  /\ opcode = Op("end_sequence", 0)
  /\ state = "running"
  /\ left = MaxOpcodes

Fetch(name) ==
  /\ state = "running" /\ left > 0
  /\ opcode' \in {op \in Code : op.name = name}
  /\ left' = left - 1

Goes == UNCHANGED <<m_state, state>>

\* Mutant: every register is set to zero.
ResetToZero(r) ==
  [InitialRegisters EXCEPT !.is_stmt = r.is_stmt, !.file = 0, !.line = 0]

\* Registers::reset, which leaves is_stmt alone.
Reset(r) == [InitialRegisters EXCEPT !.is_stmt = r.is_stmt]

Commit(r) == m_state' = Append(m_state, r)

AfterRow(r) == [r EXCEPT !.prologue_end = FALSE]

-----------------------------------------------------------------------------
EndSequence ==
  /\ Fetch("end_sequence")
  /\ Commit([registers EXCEPT !.end_sequence = TRUE])
  /\ registers' = Reset(registers)
  /\ state' \in {"running", "done"}   \* done if iter == m_debug_line_end

SetAddress ==
  /\ Fetch("set_address")
  /\ registers' = [registers EXCEPT !.address = opcode'.n, !.op_index = 0]
  /\ Goes

\* set_discriminator, define_file, lo_user and hi_user end the debugger.
Unsupported ==
  /\ Fetch("unsupported")
  /\ state' = "exited"
  /\ UNCHANGED <<registers, m_state>>

\* No case takes it, and its operands are read as opcodes.
Unknown ==
  /\ Fetch("unknown")
  /\ UNCHANGED registers
  /\ Goes

\* opcode > opcode_base.
Special ==
  /\ Fetch("special") /\ opcode'.n > 0
  /\ LET r == [registers EXCEPT
                 !.address = @ + MinimumInstructionLength
                                   * (opcode'.n \div LineRange),
                 !.line = @ + SpecialLine(opcode'.n)]
     IN  Commit(r) /\ registers' = AfterRow(r)
  /\ UNCHANGED state

\* opcode = opcode_base falls through to the standard opcodes, where no case
\* takes it.
SpecialBase ==
  /\ Fetch("special") /\ opcode'.n = 0
  /\ UNCHANGED registers
  /\ Goes

Copy ==
  /\ Fetch("copy")
  /\ Commit(registers)
  /\ registers' = AfterRow(registers)
  /\ UNCHANGED state

AdvancePc ==
  /\ Fetch("advance_pc") /\ MaximumOperations > 0
  /\ LET n == registers.op_index + opcode'.n IN
       registers' = [AfterRow(registers) EXCEPT
                       !.address = @ + (MinimumInstructionLength * n)
                                         \div MaximumOperations,
                       !.op_index = n % MaximumOperations]
  /\ Goes

\* Division by a header field that was never read.
AdvancePcByZero ==
  /\ Fetch("advance_pc") /\ MaximumOperations = 0
  /\ state' = "crashed"
  /\ UNCHANGED <<registers, m_state>>

AdvanceLine ==
  /\ Fetch("advance_line")
  /\ registers' = [registers EXCEPT !.line = @ + opcode'.n]
  /\ Goes

\* Mutant: the number is made an index here already.
SetFileIndex ==
  /\ Fetch("set_file")
  /\ registers' = [registers EXCEPT !.file = opcode'.n - 1]
  /\ Goes

\* Any number, also one the header has no name for.
SetFile ==
  /\ Fetch("set_file")
  /\ registers' = [registers EXCEPT !.file = opcode'.n]
  /\ Goes

NegateStmt ==
  /\ Fetch("negate_stmt")
  /\ registers' = [registers EXCEPT !.is_stmt = ~@]
  /\ Goes

ConstAddPc ==
  /\ Fetch("const_add_pc")
  /\ registers' = [registers EXCEPT
                     !.address = @ + ((255 - OpcodeBase) \div LineRange)
                                       * MinimumInstructionLength]
  /\ Goes

FixedAdvancePc ==
  /\ Fetch("fixed_advance_pc")
  /\ registers' = [registers EXCEPT !.address = @ + opcode'.n, !.op_index = 0]
  /\ Goes

SetPrologueEnd ==
  /\ Fetch("set_prologue_end")
  /\ registers' = [registers EXCEPT !.prologue_end = TRUE]
  /\ Goes

Next ==
  \/ EndSequence \/ SetAddress \/ Unsupported \/ Unknown
  \/ Special \/ SpecialBase
  \/ Copy \/ AdvancePc \/ AdvancePcByZero \/ AdvanceLine \/ SetFile
  \/ NegateStmt \/ ConstAddPc \/ FixedAdvancePc \/ SetPrologueEnd

Spec == Init /\ [][Next]_vars
-----------------------------------------------------------------------------
TypeOK ==
  /\ registers \in Row
  /\ m_state \in Seq(Row)
  /\ opcode \in Opcodes
  /\ state \in {"running", "done", "exited", "crashed"}
  /\ left \in 0 .. MaxOpcodes

(* The interpreter executes every opcode as the standard does.             *)
Standard == INSTANCE LineStandard

FollowsStandard == Standard!Spec

(* A sequence starts with the is_stmt of the header (line_vm.h:109).       *)
SequenceStartsWithDefault ==
  [][opcode'.name = "end_sequence" => registers'.is_stmt = DefaultIsStmt]_vars

(* Every special opcode, the first one included, commits a row             *)
(* (line_vm.cpp:53).                                                       *)
SpecialCommitsRow ==
  [][Special \/ SpecialBase => Len(m_state') > Len(m_state)]_vars

(* A prologue end that has been marked reaches the next row, so that the   *)
(* lookups can skip the prologue (dwarf.cpp:131).                          *)
PrologueEndReachesRow ==
  [][registers.prologue_end /\ m_state' = m_state => registers'.prologue_end]_vars

(* A program whose header has no maximum_operations_per_instruction field  *)
(* (line_vm.cpp:199) is run like any other.                                *)
NeverCrashes == state # "crashed"
=============================================================================
