-------------------------- MODULE LineTablesProofs --------------------------
(***************************************************************************)
(* The lookups of LineTables in tables of any length.                      *)
(***************************************************************************)
EXTENDS LineTables, IntegerSets

(* What the lemmas need of a table: its last row ends a sequence.          *)
IsTable(rows) ==
  /\ Len(rows) \in Nat /\ DOMAIN rows = 1 .. Len(rows)
  /\ \A i \in DOMAIN rows : rows[i].address \in Int /\ rows[i].line \in Int
  /\ Len(rows) > 0 => rows[Len(rows)].end_sequence
-----------------------------------------------------------------------------
(* Sequences of rows.                                                      *)

\* The rows from the start to the end of a sequence hold no other end.
LEMMA SequenceStartIs ==
  ASSUME NEW rows, IsTable(rows), NEW e \in Ends(rows)
  PROVE  /\ e \in Int /\ 1 <= e /\ e <= Len(rows)
         /\ SequenceStart(rows, e) \in Int
         /\ 1 <= SequenceStart(rows, e) /\ SequenceStart(rows, e) <= e
         /\ \A d \in Ends(rows) : d < e => d < SequenceStart(rows, e)
         /\ SequenceStart(rows, e) = 1 \/ SequenceStart(rows, e) - 1 \in Ends(rows)
<1> DEFINE Before == {0} \cup {d \in Ends(rows) : d < e}
<1>1. Ends(rows) \subseteq 1 .. Len(rows) /\ Len(rows) \in Nat
  BY DEF IsTable, Ends
<1>2. e \in 1 .. Len(rows)
  BY <1>1
<1>3. e \in Int /\ 1 <= e /\ e <= Len(rows)
  BY <1>1, <1>2
<1>4. \A d \in Ends(rows) : d \in Int /\ 1 <= d
  BY <1>1
<1>5. /\ Before \in SUBSET Int /\ Before # {}
      /\ \A x \in Before : x <= e
      /\ \A x \in Before : 0 <= x /\ x < e
      /\ \A x \in Before : x = 0 \/ x \in Ends(rows)
  <2>1. \A x \in Before : x = 0 \/ (x \in Ends(rows) /\ x < e)
    OBVIOUS
  <2>2. 0 \in Before
    OBVIOUS
  <2> HIDE DEF Before
  <2>3. ASSUME NEW x \in Before PROVE x \in Int /\ 0 <= x /\ x < e /\ x <= e
    <3>1. CASE x = 0
      BY <1>3, <3>1
    <3>2. CASE x \in Ends(rows) /\ x < e
      BY <1>3, <1>4, <3>2
    <3> QED BY <2>1, <3>1, <3>2
  <2>4. Before \in SUBSET Int
    BY <2>3, Zenon
  <2>5. Before # {}
    BY <2>2
  <2> QED BY <2>1, <2>3, <2>4, <2>5
<1>6. Max(Before) \in Before /\ \A x \in Before : x <= Max(Before)
  <2> HIDE DEF Before
  <2> QED BY <1>3, <1>5, MaxIsGreatest
<1>7. SequenceStart(rows, e) = 1 + Max(Before)
  BY DEF SequenceStart
<1>8. PICK m : m = Max(Before)
  OBVIOUS
<1>9. m \in Int /\ 0 <= m /\ m < e /\ (m = 0 \/ m \in Ends(rows))
  BY <1>5, <1>6, <1>8
<1>10. \A d \in Ends(rows) : d < e => d <= m
  BY <1>6, <1>8
<1>11. SequenceStart(rows, e) = 1 + m
  BY <1>7, <1>8
<1>12. 1 + m \in Int /\ 1 <= 1 + m /\ 1 + m <= e /\ (1 + m = 1 \/ (1 + m) - 1 = m)
  BY <1>3, <1>9
<1>13. \A d \in Ends(rows) : d < e => d < 1 + m
  BY <1>4, <1>9, <1>10
<1> QED BY <1>3, <1>9, <1>11, <1>12, <1>13

\* Addresses grow within a sequence.
LEMMA AddressesGrow ==
  ASSUME NEW rows, IsTable(rows), WellFormed(rows), NEW e \in Ends(rows),
         NEW i \in SequenceStart(rows, e) .. e,
         NEW j \in SequenceStart(rows, e) .. e, i <= j
  PROVE  rows[i].address <= rows[j].address
<1> DEFINE s == SequenceStart(rows, e)
           Lower == {k \in i .. e : rows[k].address < rows[i].address}
<1>1. /\ e \in Int /\ e <= Len(rows) /\ s \in Int /\ 1 <= s
      /\ \A d \in Ends(rows) : d < e => d < s
      /\ Len(rows) \in Nat
  BY SequenceStartIs DEF IsTable
<1> HIDE DEF s
<1>2. i \in Int /\ j \in Int /\ s <= i /\ j <= e
  BY <1>1 DEF s
<1>3. \A k \in i .. e : k \in Int /\ rows[k].address \in Int
  BY <1>1, <1>2 DEF IsTable
<1>4. Lower = {}
  <2>1. SUFFICES ASSUME Lower # {} PROVE FALSE
    OBVIOUS
  <2>2. Lower \in SUBSET Int /\ \A k \in Lower : i <= k
    BY <1>2
  <2>3. PICK k \in Lower : \A m \in Lower : k <= m
    <3> HIDE DEF Lower
    <3> QED BY <1>2, <2>1, <2>2, LeastInteger
  <2>4. k \in Int /\ k # i /\ i <= k /\ k <= e /\ rows[k].address < rows[i].address
    BY <1>2, <1>3
  <2>5. k - 1 \in i .. e /\ k - 1 \notin Lower
    BY <1>1, <1>2, <2>3, <2>4
  <2>6. ~(rows[k - 1].address < rows[i].address)
    BY <2>5
  <2>7. k - 1 \in 1 .. Len(rows) - 1 /\ k - 1 < e /\ ~(k - 1 < s)
    BY <1>1, <1>2, <2>4, <2>5
  <2>8. k - 1 \notin Ends(rows)
    BY <1>1, <2>7
  <2>9. rows[k - 1].address <= rows[(k - 1) + 1].address
    BY <2>7, <2>8 DEF WellFormed, Ends, IsTable
  <2>10. (k - 1) + 1 = k
    BY <2>4
  <2>11. /\ rows[k].address \in Int /\ rows[i].address \in Int
         /\ rows[k - 1].address \in Int
    BY <1>1, <1>2, <1>3, <2>4, <2>5
  <2> QED BY <2>4, <2>6, <2>9, <2>10, <2>11
<1>5. j \in i .. e
  BY <1>1, <1>2
<1>6. ~(rows[j].address < rows[i].address)
  BY <1>4, <1>5
<1>7. rows[i].address \in Int /\ rows[j].address \in Int
  BY <1>1, <1>2, <1>3, <1>5
<1> QED BY <1>6, <1>7

\* No byte is covered by two sequences.
LEMMA CoveredOnce ==
  ASSUME NEW rows, IsTable(rows), WellFormed(rows), NEW pc \in Int,
         NEW d \in Ends(rows), NEW e \in Ends(rows),
         Covers(rows, d, pc), Covers(rows, e, pc)
  PROVE  d = e
<1>1. /\ d \in 1 .. Len(rows) /\ e \in 1 .. Len(rows)
      /\ SequenceStart(rows, d) \in 1 .. Len(rows)
      /\ SequenceStart(rows, e) \in 1 .. Len(rows)
  <2>1. Len(rows) \in Nat
    BY DEF IsTable
  <2>2. /\ d \in Int /\ 1 <= d /\ d <= Len(rows) /\ SequenceStart(rows, d) \in Int
        /\ 1 <= SequenceStart(rows, d) /\ SequenceStart(rows, d) <= d
    BY SequenceStartIs
  <2>3. /\ e \in Int /\ 1 <= e /\ e <= Len(rows) /\ SequenceStart(rows, e) \in Int
        /\ 1 <= SequenceStart(rows, e) /\ SequenceStart(rows, e) <= e
    BY SequenceStartIs
  <2> QED BY <2>1, <2>2, <2>3
<1>2. \A i \in 1 .. Len(rows) : rows[i].address \in Int
  BY DEF IsTable
<1>3. /\ rows[SequenceStart(rows, d)].address <= pc /\ pc < rows[d].address
      /\ rows[SequenceStart(rows, e)].address <= pc /\ pc < rows[e].address
  BY DEF Covers
<1>4. d # e => \/ rows[d].address <= rows[SequenceStart(rows, e)].address
               \/ rows[e].address <= rows[SequenceStart(rows, d)].address
  BY DEF WellFormed
<1>5. /\ rows[d].address \in Int /\ rows[SequenceStart(rows, d)].address \in Int
      /\ rows[e].address \in Int /\ rows[SequenceStart(rows, e)].address \in Int
  BY <1>1, <1>2
<1> QED BY <1>3, <1>4, <1>5
-----------------------------------------------------------------------------
(* Lookup of an address.                                                   *)

Matching(rows, pc) ==
  {i \in 1 .. Len(rows) - 1 : /\ rows[i].address <= pc
                              /\ rows[i + 1].address > pc
                              /\ ~rows[i].end_sequence}

\* The rows of a sequence up to the address.
NotBeyond(rows, e, pc) ==
  {i \in SequenceStart(rows, e) .. e : rows[i].address <= pc}

\* A row that matches is that of the sequence it is in.
LEMMA MatchIsRow ==
  ASSUME NEW rows, IsTable(rows), WellFormed(rows), NEW pc \in Int,
         NEW i \in Matching(rows, pc)
  PROVE  \E e \in Ends(rows) : Covers(rows, e, pc) /\ RowOf(rows, e, pc) = i
<1> DEFINE n == Len(rows)
           Behind == {d \in Ends(rows) : i <= d}
<1>1. /\ n \in Nat /\ Ends(rows) \subseteq 1 .. n
      /\ \A k \in 1 .. n : rows[k].address \in Int
  BY DEF IsTable, Ends
<1>2. /\ i \in Int /\ 1 <= i /\ i < n /\ i \in 1 .. n /\ i + 1 \in 1 .. n
      /\ rows[i].address <= pc /\ rows[i + 1].address > pc
      /\ i \notin Ends(rows)
  BY <1>1 DEF Matching, Ends
<1>3. n \in Behind
  BY <1>1, <1>2 DEF IsTable, Ends
<1>4. PICK e \in Behind : \A d \in Behind : e <= d
  <2>1. Behind \in SUBSET Int /\ \A d \in Behind : i <= d
    BY <1>1
  <2> HIDE DEF Behind
  <2> QED BY <1>2, <1>3, <2>1, LeastInteger
<1>5. e \in Ends(rows) /\ i <= e /\ e # i /\ e \in Int /\ e <= n
  BY <1>1, <1>2, <1>4
<1> DEFINE s == SequenceStart(rows, e)
<1>6. s \in Int /\ 1 <= s /\ s <= e /\ (s = 1 \/ s - 1 \in Ends(rows))
  BY <1>5, SequenceStartIs
<1>7. s <= i
  <2>1. s - 1 \in Ends(rows) => ~(i <= s - 1)
    <3>1. s - 1 \in Ends(rows) /\ i <= s - 1 => e <= s - 1
      BY <1>4
    <3> HIDE DEF s
    <3> QED BY <1>5, <1>6, <3>1
  <2> HIDE DEF s
  <2> QED BY <1>2, <1>6, <2>1
<1>8. i + 1 <= e /\ i \in s .. e /\ i + 1 \in s .. e /\ s \in s .. e /\ e \in s .. e
  <2> HIDE DEF s
  <2> QED BY <1>2, <1>5, <1>6, <1>7
<1>9. rows[s].address <= rows[i].address /\ rows[i + 1].address <= rows[e].address
  BY <1>2, <1>5, <1>7, <1>8, AddressesGrow
<1>10. /\ rows[s].address \in Int /\ rows[e].address \in Int
       /\ rows[i].address \in Int /\ rows[i + 1].address \in Int
  <2>1. s \in 1 .. n /\ e \in 1 .. n
    <3> HIDE DEF s
    <3> QED BY <1>1, <1>5, <1>6
  <2> QED BY <1>1, <1>2, <2>1
<1>11. Covers(rows, e, pc)
  BY <1>2, <1>9, <1>10 DEF Covers
<1>12. RowOf(rows, e, pc) = i
  <2> DEFINE Upto == NotBeyond(rows, e, pc)
  <2>1. i \in Upto
    BY <1>2, <1>8 DEF NotBeyond
  <2>2. Upto \in SUBSET Int /\ \A k \in Upto : k <= e
    BY <1>5, <1>6 DEF NotBeyond
  <2>3. \A k \in Upto : k <= i
    <3> SUFFICES ASSUME NEW k \in Upto, ~(k <= i) PROVE FALSE
      OBVIOUS
    <3>1. k \in s .. e /\ rows[k].address <= pc
      BY DEF NotBeyond
    <3>2. k \in Int /\ i + 1 <= k /\ k \in 1 .. n
      <4> HIDE DEF s
      <4> QED BY <1>1, <1>2, <1>5, <1>6, <3>1
    <3>3. rows[i + 1].address <= rows[k].address
      BY <1>5, <1>8, <3>1, <3>2, AddressesGrow
    <3> QED BY <1>1, <1>2, <1>10, <3>1, <3>2, <3>3
  <2>4. RowOf(rows, e, pc) = Max(Upto)
    BY DEF RowOf, NotBeyond
  <2>5. Max(Upto) = i
    <3> HIDE DEF Upto
    <3> QED BY <2>1, <2>2, <2>3, MaxIs
  <2> QED BY <2>4, <2>5
<1> QED BY <1>5, <1>11, <1>12

\* The row of the sequence that covers an address matches it.
LEMMA RowMatches ==
  ASSUME NEW rows, IsTable(rows), WellFormed(rows), NEW pc \in Int,
         NEW e \in Ends(rows), Covers(rows, e, pc)
  PROVE  RowOf(rows, e, pc) \in Matching(rows, pc)
<1> DEFINE n == Len(rows)
           s == SequenceStart(rows, e)
           Upto == NotBeyond(rows, e, pc)
           m == Max(Upto)
<1>1. /\ n \in Nat /\ \A k \in 1 .. n : rows[k].address \in Int
  BY DEF IsTable
<1>2. /\ e \in Int /\ e <= n /\ s \in Int /\ 1 <= s /\ s <= e
      /\ \A d \in Ends(rows) : d < e => d < s
  BY SequenceStartIs
<1>3. rows[s].address <= pc /\ pc < rows[e].address
  BY DEF Covers
<1>4. s \in Upto /\ Upto \in SUBSET Int /\ \A k \in Upto : k <= e
  BY <1>2, <1>3 DEF NotBeyond
<1>5. m \in Upto /\ \A k \in Upto : k <= m
  <2> HIDE DEF Upto
  <2> QED BY <1>2, <1>4, MaxIsGreatest
<1>6. m \in s .. e /\ rows[m].address <= pc
  BY <1>5 DEF NotBeyond
<1>7. \A k \in s .. e : k > m => ~(rows[k].address <= pc)
  BY <1>2, <1>5, <1>6 DEF NotBeyond
<1>8. RowOf(rows, e, pc) = m
  BY DEF RowOf, NotBeyond
<1> HIDE DEF m, Upto, s
<1>9. m # e
  <2>1. rows[e].address \in Int
    BY <1>1, <1>2
  <2> QED BY <1>3, <1>6, <2>1
<1>10. /\ m \in Int /\ m < e /\ ~(m < s) /\ m \in 1 .. n - 1
       /\ m + 1 \in 1 .. n /\ m + 1 \in s .. e /\ m + 1 > m
  BY <1>1, <1>2, <1>6, <1>9
<1>11. m \notin Ends(rows)
  BY <1>2, <1>10
<1>12. ~rows[m].end_sequence
  BY <1>1, <1>10, <1>11 DEF Ends, IsTable
<1>13. rows[m + 1].address > pc
  BY <1>1, <1>7, <1>10
<1> QED BY <1>6, <1>8, <1>10, <1>12, <1>13 DEF Matching

\* At most one row matches.
LEMMA MatchIsUnique ==
  ASSUME NEW rows, IsTable(rows), WellFormed(rows), NEW pc \in Int,
         NEW i \in Matching(rows, pc)
  PROVE  Max(Matching(rows, pc)) = i
<1>1. \A k \in Matching(rows, pc) : k = i
  <2> SUFFICES ASSUME NEW k \in Matching(rows, pc) PROVE k = i
    OBVIOUS
  <2>1. PICK d \in Ends(rows) : Covers(rows, d, pc) /\ RowOf(rows, d, pc) = i
    BY MatchIsRow
  <2>2. PICK e \in Ends(rows) : Covers(rows, e, pc) /\ RowOf(rows, e, pc) = k
    BY MatchIsRow
  <2>3. d = e
    BY <2>1, <2>2, CoveredOnce
  <2> QED BY <2>1, <2>2, <2>3
<1>2. Matching(rows, pc) \in SUBSET Int /\ i \in Int
  BY DEF Matching, IsTable
<1>3. \A k \in Matching(rows, pc) : k <= i
  BY <1>1, <1>2
<1> QED BY <1>2, <1>3, MaxIs

LEMMA SourceRowIs ==
  ASSUME NEW rows, NEW pc
  PROVE  SourceRow(rows, pc, FALSE) =
           IF Matching(rows, pc) = {} THEN OutOfBounds ELSE Max(Matching(rows, pc))
BY DEF SourceRow, Matching

\* The search of source_location_from_program_counter in any table.
LEMMA LookupInTable ==
  ASSUME NEW rows, IsTable(rows), WellFormed(rows), NEW pc \in Int
  PROVE  LET Over == {e \in Ends(rows) : Covers(rows, e, pc)} IN
           SourceRow(rows, pc, FALSE) =
             IF Over = {} THEN OutOfBounds
             ELSE RowOf(rows, CHOOSE e \in Over : TRUE, pc)
<1> DEFINE Over == {e \in Ends(rows) : Covers(rows, e, pc)}
<1>1. CASE Over = {}
  <2>1. Matching(rows, pc) = {}
    BY <1>1, MatchIsRow
  <2> QED BY <1>1, <2>1, SourceRowIs
<1>2. CASE Over # {}
  <2>1. PICK e : e = CHOOSE d \in Over : TRUE
    OBVIOUS
  <2>2. e \in Ends(rows) /\ Covers(rows, e, pc)
    BY <1>2, <2>1
  <2>3. RowOf(rows, e, pc) \in Matching(rows, pc)
    BY <2>2, RowMatches
  <2>4. Max(Matching(rows, pc)) = RowOf(rows, e, pc)
    BY <2>3, MatchIsUnique
  <2> QED BY <1>2, <2>1, <2>3, <2>4, SourceRowIs
<1> QED BY <1>1, <1>2
-----------------------------------------------------------------------------
(* Lookup of a line.                                                       *)

CandidatesOf(rows, file) == {i \in DOMAIN rows : rows[i].file = file /\ rows[i].is_stmt}

ClosestOf(rows, line, file) ==
  {i \in CandidatesOf(rows, file) :
     \A j \in CandidatesOf(rows, file) :
       Distance(rows, line, i) <= Distance(rows, line, j)}

LEMMA LineRowIs ==
  ASSUME NEW rows, NEW line, NEW file
  PROVE  LineRow(rows, line, file) =
           IF CandidatesOf(rows, file) = {} THEN OutOfBounds
           ELSE SkipPrologue(rows, Min(ClosestOf(rows, line, file)))
BY DEF LineRow, CandidatesOf, ClosestOf

\* The search of program_counter_from_line_and_file ends at the first of the
\* closest rows.
LEMMA ClosestIsFound ==
  ASSUME NEW rows, IsTable(rows), NEW line \in Int, NEW file,
         CandidatesOf(rows, file) # {}
  PROVE  LET c == Min(ClosestOf(rows, line, file)) IN
           /\ c \in ClosestOf(rows, line, file)
           /\ \A i \in ClosestOf(rows, line, file) : c <= i
<1> DEFINE C == CandidatesOf(rows, file)
           D == {Distance(rows, line, i) : i \in C}
<1>1. C \subseteq 1 .. Len(rows) /\ Len(rows) \in Nat
      /\ \A i \in C : rows[i].line \in Int
  BY DEF CandidatesOf, IsTable
<1>2. \A i \in C : Distance(rows, line, i) \in Nat
  BY <1>1 DEF Distance
<1>3. D \in SUBSET Nat /\ D # {}
  <2>1. PICK i \in C : TRUE
    OBVIOUS
  <2>2. Distance(rows, line, i) \in D
    OBVIOUS
  <2> QED BY <1>2, <2>2
<1>4. PICK d \in D : \A x \in D : d <= x
  <2> HIDE DEF D
  <2> QED BY <1>3, LeastNatural
<1>5. PICK i \in C : d = Distance(rows, line, i)
  OBVIOUS
<1>6. \A j \in C : Distance(rows, line, i) <= Distance(rows, line, j)
  BY <1>4, <1>5
<1>7. i \in ClosestOf(rows, line, file)
  BY <1>6 DEF ClosestOf
<1>8. /\ ClosestOf(rows, line, file) \in SUBSET Int
      /\ \A k \in ClosestOf(rows, line, file) : 1 <= k
  BY <1>1 DEF ClosestOf
<1> QED BY <1>7, <1>8, MinIsLeast

(* An end row is not where a breakpoint goes: the row before it is as      *)
(* close.                                                                  *)
LEMMA BreakpointRow ==
  ASSUME NEW rows, IsTable(rows), Plain(rows), NEW line \in Int, NEW file,
         CandidatesOf(rows, file) # {}
  PROVE  LET row == LineRow(rows, line, file) IN
           row \in 1 .. Len(rows) - 1 /\ ~rows[row].end_sequence
<1> DEFINE c == Min(ClosestOf(rows, line, file))
           n == Len(rows)
           row == LineRow(rows, line, file)
<1>1. /\ c \in ClosestOf(rows, line, file)
      /\ \A i \in ClosestOf(rows, line, file) : c <= i
  BY ClosestIsFound
<1>2. /\ c \in CandidatesOf(rows, file)
      /\ \A j \in CandidatesOf(rows, file) :
           Distance(rows, line, c) <= Distance(rows, line, j)
  BY <1>1 DEF ClosestOf
<1>3. row = SkipPrologue(rows, c)
  BY LineRowIs
<1> HIDE DEF c, row
<1>4. /\ n \in Nat /\ DOMAIN rows = 1 .. n /\ c \in 1 .. n
      /\ rows[c].file = file /\ rows[c].is_stmt
      /\ rows[n].end_sequence
  BY <1>2 DEF CandidatesOf, IsTable
<1>5. c \in Int /\ 1 <= c /\ c <= n
  BY <1>4
<1>6. ~rows[c].end_sequence
  <2>1. SUFFICES ASSUME rows[c].end_sequence PROVE FALSE
    OBVIOUS
  <2>2. c \in Ends(rows) /\ SequenceStart(rows, c) # c
    BY <1>4, <2>1 DEF Ends, Plain
  <2>3. /\ SequenceStart(rows, c) \in Int /\ 1 <= SequenceStart(rows, c)
        /\ SequenceStart(rows, c) <= c
    BY <2>2, SequenceStartIs
  <2>4. c - 1 \in 1 .. n - 1 /\ c - 1 \in 1 .. n /\ (c - 1) + 1 = c /\ ~(c <= c - 1)
    BY <1>4, <1>5, <2>2, <2>3
  <2>5. /\ rows[c].line = rows[c - 1].line /\ rows[c].file = rows[c - 1].file
        /\ rows[c].is_stmt = rows[c - 1].is_stmt
    BY <2>1, <2>4 DEF Plain
  <2>6. c - 1 \in CandidatesOf(rows, file)
    BY <1>4, <2>4, <2>5 DEF CandidatesOf
  <2>7. Distance(rows, line, c - 1) = Distance(rows, line, c)
    BY <2>5 DEF Distance
  <2>8. c - 1 \in ClosestOf(rows, line, file)
    BY <1>2, <2>6, <2>7 DEF ClosestOf
  <2> QED BY <1>1, <2>4, <2>8
<1>7. c \in 1 .. n - 1 /\ c + 1 \in 1 .. n /\ c < n /\ n \in Int
  <2>1. c # n
    BY <1>4, <1>6
  <2> HIDE DEF n
  <2>2. c < n
    BY <1>4, <1>5, <2>1
  <2> QED BY <1>4, <1>5, <2>2
<1>8. CASE rows[c + 1].prologue_end
  <2>1. row = c + 1
    BY <1>3, <1>7, <1>8 DEF SkipPrologue
  <2>2. ~rows[c + 1].end_sequence
    BY <1>7, <1>8 DEF Plain
  <2>3. c + 1 # n
    BY <1>4, <2>2
  <2>4. c + 1 \in 1 .. n - 1
    <3> HIDE DEF n
    <3> QED BY <1>5, <1>7, <2>3
  <2> QED BY <2>1, <2>2, <2>4 DEF row
<1>9. CASE ~rows[c + 1].prologue_end
  <2>1. row = c
    BY <1>3, <1>9 DEF SkipPrologue
  <2> QED BY <1>6, <1>7, <2>1 DEF row
<1> QED BY <1>8, <1>9

LEMMA BreakpointInTable ==
  ASSUME NEW rows, IsTable(rows), WellFormed(rows), Plain(rows),
         NEW line \in Int, NEW file, LineRow(rows, line, file) # OutOfBounds
  PROVE  LET row == LineRow(rows, line, file) IN
           SourceRow(rows, rows[row].address, FALSE) = row
<1> DEFINE row == LineRow(rows, line, file)
<1>1. CandidatesOf(rows, file) # {}
  BY LineRowIs
<1>2. row \in 1 .. Len(rows) - 1 /\ ~rows[row].end_sequence
  BY <1>1, BreakpointRow
<1> HIDE DEF row
<1>3. rows[row].address < rows[row + 1].address
  BY <1>2 DEF Plain
<1>4. /\ row \in 1 .. Len(rows) /\ row + 1 \in 1 .. Len(rows)
  BY <1>2 DEF IsTable
<1>5. rows[row].address \in Int /\ rows[row + 1].address \in Int
  BY <1>4 DEF IsTable
<1>6. row \in Matching(rows, rows[row].address)
  BY <1>2, <1>3, <1>5 DEF Matching
<1>7. Max(Matching(rows, rows[row].address)) = row
  BY <1>5, <1>6, MatchIsUnique
<1>8. SourceRow(rows, rows[row].address, FALSE) = row
  BY <1>6, <1>7, SourceRowIs
<1> QED BY <1>8 DEF row
=============================================================================
