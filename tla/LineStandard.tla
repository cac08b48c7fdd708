---------------------------- MODULE LineStandard ----------------------------
(***************************************************************************)
(* The line number state machine as the DWARF 4 standard defines it        *)
(* (section 6.2.5, which src/src/line_vm.h cites): what LineVM promises.   *)
(***************************************************************************)
EXTENDS LineProgram

VARIABLES
  registers,
  m_state,    \* rows committed so far
  opcode,     \* the opcode executed last
  state       \* "running", "done"

OpsPerInstruction == IF MaximumOperations = 0 THEN 1 ELSE MaximumOperations

\* An operation advance, as special opcodes and advance_pc make it.
Advanced(r, n) ==
  [r EXCEPT
     !.address = @ + MinimumInstructionLength
                       * ((r.op_index + n) \div OpsPerInstruction),
     !.op_index = (@ + n) % OpsPerInstruction]

(* The registers after an opcode that commits no row, and the row that one *)
(* that does commits.                                                      *)
Effect(r, op) ==
  CASE op.name = "special" ->
         LET a == Advanced(r, op.n \div LineRange)
         IN  [a EXCEPT !.line = @ + SpecialLine(op.n)]
    [] op.name = "advance_pc" -> Advanced(r, op.n)
    [] op.name = "const_add_pc" -> Advanced(r, (255 - OpcodeBase) \div LineRange)
    [] op.name = "fixed_advance_pc" ->
         [r EXCEPT !.address = @ + op.n, !.op_index = 0]
    [] op.name = "set_address" -> [r EXCEPT !.address = op.n, !.op_index = 0]
    [] op.name = "advance_line" -> [r EXCEPT !.line = @ + op.n]
    [] op.name = "set_file" -> [r EXCEPT !.file = op.n]
    [] op.name = "negate_stmt" -> [r EXCEPT !.is_stmt = ~@]
    [] op.name = "set_prologue_end" -> [r EXCEPT !.prologue_end = TRUE]
    [] op.name = "end_sequence" -> [r EXCEPT !.end_sequence = TRUE]
    [] OTHER -> r

Commits(op) == op.name \in {"special", "copy", "end_sequence"}

\* The registers after a row is committed.
Committed(r) ==
  IF r.end_sequence THEN InitialRegisters ELSE [r EXCEPT !.prologue_end = FALSE]

Init ==
  /\ registers = InitialRegisters
  /\ m_state = << >>
  /\ opcode = Op("end_sequence", 0)
  /\ state = "running"

Execute(op) ==
  /\ state = "running"
  /\ opcode' = op
  /\ LET r == Effect(registers, op) IN
       IF Commits(op)
       THEN m_state' = Append(m_state, r) /\ registers' = Committed(r)
       ELSE registers' = r /\ UNCHANGED m_state
  /\ \/ state' = "running"
     \/ op.name = "end_sequence" /\ state' = "done"

\* opcode' rather than a bound variable: Opcodes is infinite.
Next == opcode' \in Opcodes /\ Execute(opcode')

Spec == Init /\ [][Next]_<<registers, m_state, opcode, state>>
=============================================================================
