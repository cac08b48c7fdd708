----------------------------- MODULE LineProofs -----------------------------
(***************************************************************************)
(* The line number interpreter, for every header and every program of any  *)
(* length: its registers and rows have their types, on programs of the     *)
(* opcodes it handles rightly it implements the standard's machine, and    *)
(* the lookups find what they should in the tables it makes.               *)
(***************************************************************************)
EXTENDS LineLookup, LineTablesProofs

\* Only advance_line has a signed operand.
UnsignedOperands == \A op \in Code : op.name # "advance_line" => op.n \in Nat

(* What the passing run leaves to the counterexamples: is_stmt, which      *)
(* reset leaves alone; the prologue end, which advance_pc clears; the      *)
(* first special opcode; operation indices, which special opcodes do not   *)
(* advance; and opcodes the standard skips by their length.                *)
Conforming ==
  /\ MaximumOperations = 1
  /\ \A op \in Code :
       /\ op.name \notin {"negate_stmt", "set_prologue_end", "unsupported",
                         "unknown"}
       /\ op.name = "special" => op.n > 0
-----------------------------------------------------------------------------
LEMMA Product == \A a, b \in Nat : a * b \in Nat
OBVIOUS

LEMMA Quotient == \A a \in Nat, d \in Nat \ {0} : a \div d \in Nat
OBVIOUS

LEMMA Remainder == \A a \in Nat, d \in Nat \ {0} : a % d \in Nat
OBVIOUS

LEMMA ByOne == \A a \in Nat : a \div 1 = a /\ a % 1 = 0
OBVIOUS

LEMMA SpecialLineInt == \A n \in Nat : SpecialLine(n) \in Int
BY HeaderAssumption, Remainder DEF SpecialLine

\* How far opcode n advances the address.
LEMMA AdvanceNat ==
  /\ \A n \in Nat : MinimumInstructionLength * (n \div LineRange) \in Nat
  /\ ((255 - OpcodeBase) \div LineRange) * MinimumInstructionLength \in Nat
<1>1. ASSUME NEW n \in Nat
      PROVE  MinimumInstructionLength * (n \div LineRange) \in Nat
  <2>1. n \div LineRange \in Nat
    BY HeaderAssumption, Quotient
  <2> QED BY <2>1, HeaderAssumption, Product
<1>2. ((255 - OpcodeBase) \div LineRange) * MinimumInstructionLength \in Nat
  <2>1. 255 - OpcodeBase \in Nat
    BY HeaderAssumption
  <2>2. (255 - OpcodeBase) \div LineRange \in Nat
    BY <2>1, HeaderAssumption, Quotient
  <2> QED BY <2>2, HeaderAssumption, Product
<1> QED BY <1>1, <1>2
-----------------------------------------------------------------------------
(* Types.                                                                  *)

LEMMA InitialRow == InitialRegisters \in Row
BY HeaderAssumption DEF InitialRegisters, Row

LEMMA InitTyped == Init => TypeOK
<1> SUFFICES ASSUME Init PROVE TypeOK
  OBVIOUS
<1>1. m_state \in Seq(Row)
  BY DEF Init
<1>2. opcode \in Opcodes
  BY DEF Init, Op, Opcodes, Names
<1>3. left \in 0 .. MaxOpcodes
  BY CodeAssumption DEF Init
<1> QED BY <1>1, <1>2, <1>3, InitialRow DEF Init, TypeOK

LEMMA ResetRow == \A r \in Row : Reset(r) \in Row /\ AfterRow(r) \in Row
BY InitialRow DEF Reset, AfterRow, InitialRegisters, Row

LEMMA ChangedRow ==
  /\ \A r \in Row, a \in Nat : [r EXCEPT !.address = a] \in Row
  /\ \A r \in Row, a, o \in Nat : [r EXCEPT !.address = a, !.op_index = o] \in Row
  /\ \A r \in Row, l \in Int : [r EXCEPT !.line = l] \in Row
  /\ \A r \in Row, a \in Nat, l \in Int :
       [r EXCEPT !.address = a, !.line = l] \in Row
BY DEF Row

LEMMA AdvancedRow ==
  ASSUME NEW r \in Row, NEW n \in Nat, NEW i \in Int
  PROVE  r.address + n \in Nat /\ r.op_index + n \in Nat /\ r.line + i \in Int
<1>1. r.address \in Nat /\ r.op_index \in Nat /\ r.line \in Int
  BY DEF Row
<1> QED BY <1>1

\* What Fetch leaves to show of an action.
LEMMA FetchTyped ==
  ASSUME TypeOK, NEW name, Fetch(name), registers' \in Row,
         m_state' \in Seq(Row),
         state' \in {"running", "done", "exited", "crashed"}
  PROVE  TypeOK'
<1>1. opcode' \in Opcodes
  BY CodeAssumption DEF Fetch
<1>2. left' \in 0 .. MaxOpcodes
  BY CodeAssumption DEF Fetch, TypeOK
<1> QED BY <1>1, <1>2 DEF TypeOK

\* The operand of what has been fetched.
LEMMA FetchOperand ==
  ASSUME UnsignedOperands, NEW name, Fetch(name)
  PROVE  /\ opcode'.name = name
         /\ opcode'.n \in Int
         /\ name # "advance_line" => opcode'.n \in Nat
BY CodeAssumption DEF Fetch, Opcodes, UnsignedOperands

LEMMA CommitTyped ==
  ASSUME TypeOK, NEW r \in Row, Commit(r)
  PROVE  m_state' \in Seq(Row)
BY DEF TypeOK, Commit

LEMMA GoesTyped ==
  ASSUME TypeOK, Goes
  PROVE  m_state' \in Seq(Row) /\ state' \in {"running", "done", "exited", "crashed"}
BY DEF TypeOK, Goes

LEMMA NextTyped ==
  ASSUME UnsignedOperands, TypeOK, [Next]_vars
  PROVE  TypeOK'
<1>0. registers \in Row /\ m_state \in Seq(Row)
  BY DEF TypeOK
<1>1. CASE UNCHANGED vars
  BY <1>1 DEF vars, TypeOK
<1>2. CASE EndSequence
  <2>1. [registers EXCEPT !.end_sequence = TRUE] \in Row
    BY <1>0 DEF Row
  <2>2. m_state' \in Seq(Row)
    BY <1>2, <2>1, CommitTyped DEF EndSequence
  <2>3. registers' \in Row
    BY <1>0, <1>2, ResetRow DEF EndSequence
  <2> QED BY <1>2, <2>2, <2>3, FetchTyped DEF EndSequence
<1>3. CASE SetAddress
  <2>1. opcode'.n \in Nat
    BY <1>3, FetchOperand DEF SetAddress
  <2>2. registers' \in Row
    BY <1>0, <1>3, <2>1 DEF SetAddress, Row
  <2> QED BY <1>3, <2>2, GoesTyped, FetchTyped DEF SetAddress
<1>4. CASE Unsupported
  BY <1>0, <1>4, FetchTyped DEF Unsupported
<1>16. CASE Unknown
  BY <1>0, <1>16, GoesTyped, FetchTyped DEF Unknown
<1>5. CASE Special
  <2> DEFINE r == [registers EXCEPT
                     !.address = @ + MinimumInstructionLength
                                       * (opcode'.n \div LineRange),
                     !.line = @ + SpecialLine(opcode'.n)]
  <2>1. opcode'.n \in Nat
    BY <1>5, FetchOperand DEF Special
  <2>2. MinimumInstructionLength * (opcode'.n \div LineRange) \in Nat
    BY <2>1, AdvanceNat
  <2>3. SpecialLine(opcode'.n) \in Int
    BY <2>1, SpecialLineInt
  <2>4. r \in Row
    BY <1>0, <2>2, <2>3, AdvancedRow, ChangedRow
  <2>5. Commit(r) /\ registers' = AfterRow(r)
    BY <1>5 DEF Special
  <2> HIDE DEF r
  <2>6. m_state' \in Seq(Row)
    BY <2>4, <2>5, CommitTyped
  <2>7. registers' \in Row
    BY <2>4, <2>5, ResetRow
  <2> QED BY <1>5, <2>6, <2>7, FetchTyped DEF Special, TypeOK
<1>6. CASE SpecialBase
  BY <1>0, <1>6, GoesTyped, FetchTyped DEF SpecialBase
<1>7. CASE Copy
  <2>1. m_state' \in Seq(Row)
    BY <1>0, <1>7, CommitTyped DEF Copy
  <2>2. registers' \in Row
    BY <1>0, <1>7, ResetRow DEF Copy
  <2> QED BY <1>7, <2>1, <2>2, FetchTyped DEF Copy, TypeOK
<1>8. CASE AdvancePc
  <2> DEFINE n == registers.op_index + opcode'.n
  <2>1. n \in Nat
    <3>1. opcode'.n \in Nat
      BY <1>8, FetchOperand DEF AdvancePc
    <3>2. registers.op_index \in Nat
      BY <1>0 DEF Row
    <3> QED BY <3>1, <3>2
  <2>2. MaximumOperations \in Nat \ {0}
    BY <1>8, HeaderAssumption DEF AdvancePc
  <2>3. MinimumInstructionLength * n \in Nat
    BY <2>1, HeaderAssumption, Product
  <2>4. (MinimumInstructionLength * n) \div MaximumOperations \in Nat
    BY <2>2, <2>3, Quotient
  <2>5. n % MaximumOperations \in Nat
    BY <2>1, <2>2, Remainder
  <2> DEFINE r == AfterRow(registers)
             a == r.address + (MinimumInstructionLength * n) \div MaximumOperations
             o == n % MaximumOperations
  <2>6. registers' = [r EXCEPT !.address = a, !.op_index = o]
    BY <1>8 DEF AdvancePc
  <2>7. r \in Row
    BY <1>0, ResetRow
  <2>9. a \in Nat
    BY <2>4, <2>7, AdvancedRow
  <2> HIDE DEF r, a, o
  <2>8. registers' \in Row
    BY <2>5, <2>6, <2>7, <2>9, ChangedRow DEF o
  <2> QED BY <1>8, <2>8, GoesTyped, FetchTyped DEF AdvancePc
<1>9. CASE AdvancePcByZero
  BY <1>0, <1>9, FetchTyped DEF AdvancePcByZero
<1>10. CASE AdvanceLine
  <2> DEFINE l == registers.line + opcode'.n
  <2>1. l \in Int
    <3>1. opcode'.n \in Int
      BY <1>10, FetchOperand DEF AdvanceLine
    <3> QED BY <1>0, <3>1, AdvancedRow
  <2>3. registers' = [registers EXCEPT !.line = l]
    BY <1>10 DEF AdvanceLine
  <2> HIDE DEF l
  <2>2. registers' \in Row
    BY <1>0, <2>1, <2>3, ChangedRow
  <2> QED BY <1>10, <2>2, GoesTyped, FetchTyped DEF AdvanceLine
<1>11. CASE SetFile
  <2>2. opcode'.n \in Nat
    BY <1>11, FetchOperand DEF SetFile
  <2>1. registers' \in Row
    BY <1>0, <1>11, <2>2 DEF SetFile, Row
  <2> QED BY <1>11, <2>1, GoesTyped, FetchTyped DEF SetFile
<1>12. CASE NegateStmt
  <2>1. registers' \in Row
    BY <1>0, <1>12 DEF NegateStmt, Row
  <2> QED BY <1>12, <2>1, GoesTyped, FetchTyped DEF NegateStmt
<1>13. CASE ConstAddPc
  <2> DEFINE k == ((255 - OpcodeBase) \div LineRange)
                    * MinimumInstructionLength
             a == registers.address + k
  <2>2. a \in Nat
    <3>1. k \in Nat
      BY AdvanceNat
    <3> HIDE DEF k
    <3>2. registers.address \in Nat
      BY <1>0 DEF Row
    <3> QED BY <3>1, <3>2
  <2>3. registers' = [registers EXCEPT !.address = a]
    BY <1>13 DEF ConstAddPc
  <2> HIDE DEF a
  <2>1. registers' \in Row
    BY <1>0, <2>2, <2>3, ChangedRow
  <2> QED BY <1>13, <2>1, GoesTyped, FetchTyped DEF ConstAddPc
<1>14. CASE FixedAdvancePc
  <2> DEFINE a == registers.address + opcode'.n
  <2>1. a \in Nat
    <3>1. opcode'.n \in Nat
      BY <1>14, FetchOperand DEF FixedAdvancePc
    <3> QED BY <1>0, <3>1, AdvancedRow
  <2>3. registers' = [registers EXCEPT !.address = a, !.op_index = 0]
    BY <1>14 DEF FixedAdvancePc
  <2> HIDE DEF a
  <2>2. registers' \in Row
    <3>1. 0 \in Nat
      OBVIOUS
    <3> QED BY <1>0, <2>1, <2>3, <3>1, ChangedRow
  <2> QED BY <1>14, <2>2, GoesTyped, FetchTyped DEF FixedAdvancePc
<1>15. CASE SetPrologueEnd
  <2>1. registers' \in Row
    BY <1>0, <1>15 DEF SetPrologueEnd, Row
  <2> QED BY <1>15, <2>1, GoesTyped, FetchTyped DEF SetPrologueEnd
<1> QED
  BY <1>1, <1>2, <1>3, <1>4, <1>5, <1>6, <1>7, <1>8, <1>9, <1>10, <1>11,
     <1>12, <1>13, <1>14, <1>15, <1>16 DEF Next

(* For every header and every program whose unsigned operands are that,    *)
(* the registers and the rows of the interpreter have their types: neither *)
(* the address nor the number of the file goes below zero.                 *)
THEOREM TypeCorrect == ASSUME UnsignedOperands PROVE Spec => []TypeOK
BY InitTyped, NextTyped, PTL DEF Spec

-----------------------------------------------------------------------------
(* The refinement.                                                         *)

(* Between the opcodes of a conforming program the registers are where the *)
(* two machines cannot differ.                                             *)
Agreeing ==
  /\ TypeOK
  /\ registers.op_index = 0
  /\ registers.is_stmt = DefaultIsStmt
  /\ registers.prologue_end = FALSE
  /\ registers.end_sequence = FALSE

LEMMA InitAgreeing == Init => Agreeing
BY InitTyped DEF Init, Agreeing, InitialRegisters

\* The reset at the end of a sequence.
LEMMA SameReset ==
  ASSUME NEW r \in Row, r.is_stmt = DefaultIsStmt
  PROVE  Reset(r) = InitialRegisters
<1>1. Reset(r) = [InitialRegisters EXCEPT !.is_stmt = DefaultIsStmt]
  BY Zenon DEF Reset
<1>2. [InitialRegisters EXCEPT !.is_stmt = DefaultIsStmt] = InitialRegisters
  <2>1. \A i \in Row : [i EXCEPT !.is_stmt = i.is_stmt] = i
    BY DEF Row
  <2>2. InitialRegisters.is_stmt = DefaultIsStmt
    BY Zenon DEF InitialRegisters
  <2> QED BY <2>1, <2>2, InitialRow, Zenon
<1> QED BY <1>1, <1>2, Zenon

\* After a row, if no prologue end was marked.
LEMMA SameAfterRow ==
  ASSUME NEW r \in Row, r.prologue_end = FALSE
  PROVE  AfterRow(r) = r
BY DEF AfterRow, Row

LEMMA SameAdvance ==
  ASSUME Conforming, NEW r \in Row, r.op_index = 0, NEW n \in Nat
  PROVE  Standard!Advanced(r, n) =
           [r EXCEPT !.address = @ + MinimumInstructionLength * n]
<1>1. Standard!OpsPerInstruction = 1
  BY DEF Conforming, Standard!OpsPerInstruction
<1>0. 0 + n = n
  OBVIOUS
<1>2. r.op_index + n = n
  BY <1>0, Zenon
<1>3. n \div 1 = n /\ n % 1 = 0
  BY ByOne
<1>4. (r.op_index + n) \div Standard!OpsPerInstruction = n
  BY <1>1, <1>2, <1>3, Zenon
<1>5. (r.op_index + n) % Standard!OpsPerInstruction = r.op_index
  BY <1>1, <1>2, <1>3, Zenon
<1>6. Standard!Advanced(r, n) =
        [r EXCEPT !.address = @ + MinimumInstructionLength * n,
                  !.op_index = r.op_index]
  BY <1>4, <1>5, Zenon DEF Standard!Advanced
<1>7. [[r EXCEPT !.address = @ + MinimumInstructionLength * n]
          EXCEPT !.op_index = r.op_index] =
        [r EXCEPT !.address = @ + MinimumInstructionLength * n]
  BY DEF Row
<1> QED BY <1>6, <1>7

\* Steps of the standard's machine that commit no row, and one.
LEMMA QuietStep ==
  ASSUME NEW name, Fetch(name), Goes, ~Standard!Commits(opcode'),
         registers' = Standard!Effect(registers, opcode')
  PROVE  Standard!Next
<1>1. opcode' \in Standard!Opcodes
  BY CodeAssumption DEF Fetch, Opcodes, Names, Standard!Opcodes, Standard!Names
<1>2. Standard!Execute(opcode')
  BY Zenon DEF Fetch, Goes, Standard!Execute
<1> QED BY <1>1, <1>2, Zenon DEF Standard!Next

LEMMA RowStep ==
  ASSUME NEW name, Fetch(name), Standard!Commits(opcode'),
         Commit(Standard!Effect(registers, opcode')),
         registers' = Standard!Committed(Standard!Effect(registers, opcode')),
         state' = state \/ (name = "end_sequence" /\ state' \in {"running", "done"})
  PROVE  Standard!Next
<1>1. opcode' \in Standard!Opcodes
  BY CodeAssumption DEF Fetch, Opcodes, Names, Standard!Opcodes, Standard!Names
<1>2. opcode'.name = name
  BY DEF Fetch
<1>3. state' = "running" \/ (opcode'.name = "end_sequence" /\ state' = "done")
  BY <1>2 DEF Fetch
<1>4. Standard!Execute(opcode')
  BY <1>3, Zenon DEF Fetch, Commit, Standard!Execute
<1> QED BY <1>1, <1>4, Zenon DEF Standard!Next

LEMMA NextAgreeing ==
  ASSUME UnsignedOperands, Conforming, Agreeing, Next
  PROVE  Agreeing' /\ Standard!Next
<1>0. /\ registers \in Row
      /\ registers.op_index = 0
      /\ registers.is_stmt = DefaultIsStmt
      /\ registers.prologue_end = FALSE
      /\ registers.end_sequence = FALSE
  BY DEF Agreeing, TypeOK
<1>1. TypeOK'
  BY NextTyped DEF Agreeing
<1>3. \A name : Fetch(name) => opcode' \in Code /\ opcode'.name = name
  BY DEF Fetch
<1>6. CASE EndSequence
  <2> DEFINE r == [registers EXCEPT !.end_sequence = TRUE]
  <2>1. Fetch("end_sequence") /\ Commit(r) /\ registers' = Reset(registers)
    BY <1>6 DEF EndSequence
  <2>2. opcode'.name = "end_sequence"
    BY <2>1, <1>3
  <2>3. Standard!Effect(registers, opcode') = r
    BY <2>2 DEF Standard!Effect
  <2>4. registers' = InitialRegisters
    BY <1>0, <2>1, SameReset
  <2>5. r.end_sequence
    BY <1>0 DEF Row
  <2>6. Standard!Committed(r) = InitialRegisters
    BY <2>5, Zenon
       DEF Standard!Committed, Standard!InitialRegisters, InitialRegisters
  <2>7. Standard!Commits(opcode')
    BY <2>2 DEF Standard!Commits
  <2> HIDE DEF r
  <2>8. Standard!Next
    BY <1>6, <2>1, <2>3, <2>4, <2>6, <2>7, RowStep DEF EndSequence
  <2>9. Agreeing'
    BY <1>1, <2>4, Zenon DEF Agreeing, InitialRegisters
  <2> QED BY <2>8, <2>9
<1>7. CASE SetAddress
  <2>1. Fetch("set_address") /\ Goes /\
        registers' = [registers EXCEPT !.address = opcode'.n, !.op_index = 0]
    BY <1>7 DEF SetAddress
  <2>2. opcode'.name = "set_address"
    BY <2>1, <1>3
  <2>3. registers' = Standard!Effect(registers, opcode')
    BY <2>1, <2>2 DEF Standard!Effect
  <2>4. Agreeing'
    BY <1>0, <1>1, <2>1 DEF Agreeing, Row
  <2> QED BY <2>1, <2>2, <2>3, <2>4, QuietStep DEF Standard!Commits
<1>8. CASE Unsupported
  BY <1>3, <1>8 DEF Unsupported, Conforming
<1>20. CASE Unknown
  BY <1>3, <1>20 DEF Unknown, Conforming
<1>9. CASE Special
  <2> DEFINE k == opcode'.n \div LineRange
             a == [registers EXCEPT !.address = @ + MinimumInstructionLength * k]
             r == [a EXCEPT !.line = @ + SpecialLine(opcode'.n)]
  <2>1. Fetch("special") /\ opcode'.name = "special" /\ opcode'.n \in Nat
    BY <1>3, <1>9, FetchOperand DEF Special
  <2>2. k \in Nat
    BY <2>1, HeaderAssumption, Quotient
  <2>3. Standard!Advanced(registers, k) = a
    BY <1>0, <2>2, SameAdvance
  <2>4. Standard!Effect(registers, opcode') = r
    BY <2>1, <2>3 DEF Standard!Effect, Standard!SpecialLine, SpecialLine
  <2>5. /\ Commit([registers EXCEPT
                     !.address = @ + MinimumInstructionLength * k,
                     !.line = @ + SpecialLine(opcode'.n)])
        /\ registers' = AfterRow([registers EXCEPT
                     !.address = @ + MinimumInstructionLength * k,
                     !.line = @ + SpecialLine(opcode'.n)])
        /\ state' = state
    BY <1>9 DEF Special
  <2>6. r = [registers EXCEPT
               !.address = @ + MinimumInstructionLength * k,
               !.line = @ + SpecialLine(opcode'.n)]
    BY <1>0 DEF Row
  <2>7. r.prologue_end = FALSE /\ r.end_sequence = FALSE
    BY <1>0 DEF Row
  <2>8. r \in Row
    BY <1>0, <2>1, <2>2, <2>6, AdvanceNat, SpecialLineInt, AdvancedRow, ChangedRow
  <2>9. AfterRow(r) = r
    BY <2>7, <2>8, SameAfterRow
  <2>10. Standard!Committed(r) = r
    BY <2>7, <2>9, Zenon DEF Standard!Committed, AfterRow
  <2>11. Standard!Commits(opcode')
    BY <2>1 DEF Standard!Commits
  <2>12. Agreeing'
    BY <1>0, <1>1, <2>5, <2>6, <2>9 DEF Agreeing, Row
  <2> HIDE DEF r, a, k
  <2>13. Standard!Next
    BY <2>1, <2>4, <2>5, <2>6, <2>9, <2>10, <2>11, RowStep
  <2> QED BY <2>12, <2>13
<1>10. CASE SpecialBase
  BY <1>3, <1>10 DEF SpecialBase, Conforming
<1>11. CASE Copy
  <2>1. Fetch("copy") /\ Commit(registers) /\ registers' = AfterRow(registers)
        /\ state' = state
    BY <1>11 DEF Copy
  <2>2. opcode'.name = "copy"
    BY <2>1, <1>3
  <2>3. Standard!Effect(registers, opcode') = registers
    BY <2>2 DEF Standard!Effect
  <2>4. registers' = registers
    BY <1>0, <2>1, SameAfterRow
  <2>5. Standard!Committed(registers) = registers
    BY <1>0, <2>1, <2>4, Zenon DEF Standard!Committed, AfterRow
  <2>6. Standard!Commits(opcode')
    BY <2>2 DEF Standard!Commits
  <2>7. Standard!Next
    BY <2>1, <2>3, <2>4, <2>5, <2>6, RowStep
  <2>8. Agreeing'
    BY <1>0, <1>1, <2>4 DEF Agreeing
  <2> QED BY <2>7, <2>8
<1>12. CASE AdvancePc
  <2> DEFINE a == [registers EXCEPT
                     !.address = @ + MinimumInstructionLength * opcode'.n]
  <2>1. Fetch("advance_pc") /\ Goes
    BY <1>12 DEF AdvancePc
  <2>2. opcode'.name = "advance_pc" /\ opcode'.n \in Nat
    BY <2>1, <1>3, FetchOperand
  <2>3. Standard!Effect(registers, opcode') = a
    BY <1>0, <2>2, SameAdvance DEF Standard!Effect
  <2>4. 0 + opcode'.n = opcode'.n
    BY <2>2
  <2>5. opcode'.n % 1 = 0
    BY <2>2, ByOne
  <2>6. (MinimumInstructionLength * opcode'.n) \div 1 =
          MinimumInstructionLength * opcode'.n
    BY <2>2, HeaderAssumption, Product, ByOne
  <2>7. registers' = [AfterRow(registers) EXCEPT
          !.address = @ + (MinimumInstructionLength
                             * (registers.op_index + opcode'.n)) \div 1,
          !.op_index = (registers.op_index + opcode'.n) % 1]
    BY <1>12 DEF AdvancePc, Conforming
  <2>8. AfterRow(registers) = registers
    BY <1>0, SameAfterRow
  <2>9. registers' = [registers EXCEPT
          !.address = @ + MinimumInstructionLength * opcode'.n, !.op_index = 0]
    BY <1>0, <2>4, <2>5, <2>6, <2>7, <2>8, Zenon
  <2>10. registers' = a
    BY <1>0, <2>9 DEF Row
  <2>11. Agreeing'
    BY <1>0, <1>1, <2>9 DEF Agreeing, Row
  <2> QED BY <2>1, <2>2, <2>3, <2>10, <2>11, QuietStep DEF Standard!Commits
<1>13. CASE AdvancePcByZero
  BY <1>13 DEF AdvancePcByZero, Conforming
<1>14. CASE AdvanceLine
  <2>1. Fetch("advance_line") /\ Goes /\
        registers' = [registers EXCEPT !.line = @ + opcode'.n]
    BY <1>14 DEF AdvanceLine
  <2>2. opcode'.name = "advance_line"
    BY <2>1, <1>3
  <2>3. registers' = Standard!Effect(registers, opcode')
    BY <2>1, <2>2 DEF Standard!Effect
  <2>4. Agreeing'
    BY <1>0, <1>1, <2>1 DEF Agreeing, Row
  <2> QED BY <2>1, <2>2, <2>3, <2>4, QuietStep DEF Standard!Commits
<1>15. CASE SetFile
  <2>1. Fetch("set_file") /\ Goes /\
        registers' = [registers EXCEPT !.file = opcode'.n]
    BY <1>15 DEF SetFile
  <2>2. opcode'.name = "set_file"
    BY <2>1, <1>3
  <2>3. registers' = Standard!Effect(registers, opcode')
    BY <2>1, <2>2 DEF Standard!Effect
  <2>4. Agreeing'
    BY <1>0, <1>1, <2>1 DEF Agreeing, Row
  <2> QED BY <2>1, <2>2, <2>3, <2>4, QuietStep DEF Standard!Commits
<1>16. CASE NegateStmt
  BY <1>3, <1>16 DEF NegateStmt, Conforming
<1>17. CASE ConstAddPc
  <2> DEFINE k == (255 - OpcodeBase) \div LineRange
  <2>1. Fetch("const_add_pc") /\ Goes /\
        registers' = [registers EXCEPT !.address = @ + k * MinimumInstructionLength]
    BY <1>17 DEF ConstAddPc
  <2>2. opcode'.name = "const_add_pc"
    BY <2>1, <1>3
  <2>3. k \in Nat
    BY HeaderAssumption, Quotient
  <2>4. Standard!Effect(registers, opcode') =
          [registers EXCEPT !.address = @ + MinimumInstructionLength * k]
    BY <1>0, <2>2, <2>3, SameAdvance DEF Standard!Effect
  <2> HIDE DEF k
  <2>5. k * MinimumInstructionLength = MinimumInstructionLength * k
    BY <2>3, HeaderAssumption
  <2>6. registers' = Standard!Effect(registers, opcode')
    BY <2>1, <2>4, <2>5, Zenon
  <2>7. Agreeing'
    BY <1>0, <1>1, <2>1 DEF Agreeing, Row
  <2> QED BY <2>1, <2>2, <2>6, <2>7, QuietStep DEF Standard!Commits
<1>18. CASE FixedAdvancePc
  <2>1. Fetch("fixed_advance_pc") /\ Goes /\
        registers' = [registers EXCEPT !.address = @ + opcode'.n, !.op_index = 0]
    BY <1>18 DEF FixedAdvancePc
  <2>2. opcode'.name = "fixed_advance_pc"
    BY <2>1, <1>3
  <2>3. registers' = Standard!Effect(registers, opcode')
    BY <2>1, <2>2 DEF Standard!Effect
  <2>4. Agreeing'
    BY <1>0, <1>1, <2>1 DEF Agreeing, Row
  <2> QED BY <2>1, <2>2, <2>3, <2>4, QuietStep DEF Standard!Commits
<1>19. CASE SetPrologueEnd
  BY <1>3, <1>19 DEF SetPrologueEnd, Conforming
<1> QED
  BY <1>6, <1>7, <1>8, <1>9, <1>10, <1>11, <1>12, <1>13, <1>14, <1>15, <1>16,
     <1>17, <1>18, <1>19, <1>20 DEF Next

(* Without prologue ends, negated is_stmt and the first special opcode,    *)
(* and with one operation to an instruction, LineVM::exec executes every   *)
(* program as the standard's machine (section 6.2.5, which                 *)
(* src/src/line_vm.h cites) does: the same rows from the same registers,   *)
(* whatever the other fields of the header are.                            *)
THEOREM ImplementsStandard ==
  ASSUME UnsignedOperands, Conforming PROVE Spec => FollowsStandard
<1>1. Init => Standard!Init
  BY DEF Init, Standard!Init, InitialRegisters, Standard!InitialRegisters, Op,
         Standard!Op
<1>2. Agreeing /\ [Next]_vars =>
        Agreeing' /\ [Standard!Next]_<<registers, m_state, opcode, state>>
  <2>1. CASE UNCHANGED vars
    BY <2>1, Zenon DEF vars, Agreeing, TypeOK
  <2> QED BY <2>1, NextAgreeing
<1> QED
  BY <1>1, <1>2, InitAgreeing, PTL DEF Spec, FollowsStandard, Standard!Spec
-----------------------------------------------------------------------------
(* The tables the interpreter makes.                                       *)

\* exec comes to the end of the unit behind an end_sequence.
DoneIsEnded ==
  state = "done" => m_state # << >> /\ m_state[Len(m_state)].end_sequence

LEMMA NextEnded ==
  ASSUME TypeOK, DoneIsEnded, [Next]_vars
  PROVE  DoneIsEnded'
<1>1. CASE EndSequence
  <2> DEFINE r == [registers EXCEPT !.end_sequence = TRUE]
  <2>1. r \in Row /\ r.end_sequence /\ m_state \in Seq(Row)
    BY DEF TypeOK, Row
  <2>2. m_state' = Append(m_state, r)
    BY <1>1 DEF EndSequence, Commit
  <2> HIDE DEF r
  <2>3. m_state' # << >> /\ m_state'[Len(m_state')] = r
    BY <2>1, <2>2
  <2> QED BY <2>1, <2>3 DEF DoneIsEnded
<1>2. CASE Next /\ ~EndSequence
  <2>1. state' # "done"
    BY <1>2
       DEF Next, Fetch, Goes, SetAddress, Unsupported, Unknown, Special, SpecialBase, Copy,
           AdvancePc, AdvancePcByZero, AdvanceLine, SetFile, NegateStmt,
           ConstAddPc, FixedAdvancePc, SetPrologueEnd
  <2> QED BY <2>1 DEF DoneIsEnded
<1>3. CASE UNCHANGED vars
  BY <1>3 DEF vars, DoneIsEnded
<1> QED BY <1>1, <1>2, <1>3

THEOREM EndedCorrect == ASSUME UnsignedOperands PROVE Spec => []DoneIsEnded
<1>1. Init => DoneIsEnded
  BY DEF Init, DoneIsEnded
<1>2. TypeOK /\ DoneIsEnded /\ [Next]_vars => DoneIsEnded'
  BY NextEnded
<1> QED BY <1>1, <1>2, TypeCorrect, PTL DEF Spec

LEMMA LenDomain ==
  ASSUME NEW s, NEW n \in Nat, DOMAIN s = 1 .. n
  PROVE  Len(s) = n
OBVIOUS

LEMMA RowsAreTable ==
  ASSUME TypeOK, DoneIsEnded, state = "done"
  PROVE  IsTable(Rows)
<1>1. /\ m_state \in Seq(Row) /\ Len(m_state) \in Nat
      /\ DOMAIN m_state = 1 .. Len(m_state)
  BY DEF TypeOK
<1>2. /\ DOMAIN Rows = 1 .. Len(m_state)
      /\ \A i \in 1 .. Len(m_state) :
           Rows[i] = [m_state[i] EXCEPT !.file = FileName(@)]
  BY <1>1, Zenon DEF Rows, Table
<1>3. Len(Rows) = Len(m_state)
  BY <1>1, <1>2, LenDomain, Zenon
<1>4. ASSUME NEW i \in 1 .. Len(m_state)
      PROVE  /\ Rows[i].address \in Int /\ Rows[i].line \in Int
             /\ Rows[i].end_sequence = m_state[i].end_sequence
  <2>1. m_state[i] \in Row
    BY <1>1
  <2>2. Rows[i] = [m_state[i] EXCEPT !.file = FileName(m_state[i].file)]
    BY <1>2
  <2> QED BY <2>1, <2>2 DEF Row
<1>5. Len(m_state) \in 1 .. Len(m_state) /\ m_state[Len(m_state)].end_sequence
  BY <1>1 DEF DoneIsEnded
<1> QED BY <1>1, <1>2, <1>3, <1>4, <1>5 DEF IsTable

(* Whatever the program, the rows it makes, if their addresses grow within *)
(* a sequence and no two sequences overlap, are found: an address gets the *)
(* last row of the sequence that covers it, and none if none does.         *)
THEOREM LookupCorrect ==
  ASSUME UnsignedOperands PROVE Spec => []LookupFindsRow
<1>1. TypeOK /\ DoneIsEnded => LookupFindsRow
  <2> SUFFICES ASSUME TypeOK, DoneIsEnded, state = "done", WellFormed(Rows),
                      NEW pc \in ProgramCounters
               PROVE  LET Over == {e \in Ends(Rows) : Covers(Rows, e, pc)} IN
                        SourceRow(Rows, pc, FALSE) =
                          IF Over = {} THEN OutOfBounds
                          ELSE RowOf(Rows, CHOOSE e \in Over : TRUE, pc)
    BY DEF LookupFindsRow
  <2>1. IsTable(Rows)
    BY RowsAreTable
  <2>2. pc \in Int
    BY <2>1 DEF IsTable, ProgramCounters, Addresses
  <2> QED BY <2>1, <2>2, LookupInTable
<1> QED BY <1>1, EndedCorrect, TypeCorrect, PTL

(* A breakpoint set by line stops where the debugger then says it is.      *)
THEOREM BreakpointCorrect ==
  ASSUME UnsignedOperands PROVE Spec => []BreakpointIsWhereItSays
<1>1. TypeOK /\ DoneIsEnded => BreakpointIsWhereItSays
  <2> SUFFICES ASSUME TypeOK, DoneIsEnded, state = "done", WellFormed(Rows),
                      Plain(Rows), NEW line \in Lines,
                      NEW file \in {FileNames[f] : f \in DOMAIN FileNames},
                      LineRow(Rows, line, file) # OutOfBounds
               PROVE  LET row == LineRow(Rows, line, file) IN
                        SourceRow(Rows, Rows[row].address, FALSE) = row
    BY DEF BreakpointIsWhereItSays
  <2>1. IsTable(Rows)
    BY RowsAreTable
  <2>2. line \in Int
    BY <2>1 DEF IsTable, Lines
  <2> QED BY <2>1, <2>2, BreakpointInTable
<1> QED BY <1>1, EndedCorrect, TypeCorrect, PTL
=============================================================================
