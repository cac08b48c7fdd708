---------------------------- MODULE DwarfProofs ----------------------------
(***************************************************************************)
(* The answers of the debugging information, for executables of any size   *)
(* and questions in any order.                                             *)
(***************************************************************************)
EXTENDS Dwarf, LineTablesProofs

(* Every section is there, but for .debug_ranges if no unit has ranges.    *)
SectionsAreThere(i) ==
  \A s \in Sections :
    \/ i.file[s] = "whole"
    \/ /\ i.file[s] = "absent" /\ s = ".debug_ranges"
       /\ \A k \in DOMAIN i.units : ~HasRanges(i.units[k])

(* The addresses contains_address is to find: the first byte of bounds is  *)
(* left out, as the debugger does.                                         *)
Inside(u) == IF u.bounds = << >> THEN Code(u) ELSE Code(u) \ {u.bounds.low}

(* Bounds are two addresses, only the last range has a zero, and if there  *)
(* is a table every byte has a row.                                        *)
ProperUnit(u) ==
  /\ u.tag = "compile_unit"
  /\ IsTable(u.table)
  /\ u.bounds # << >> => u.bounds.form = "addr"
  /\ u.bounds = << >> =>
       /\ u.ranges \in Seq(Nat \X Nat)
       /\ \A k \in 1 .. Len(u.ranges) - 1 : 0 \notin Range(u.ranges[k])
  /\ u.stmt_list =>
       \A pc \in Inside(u) : \E e \in Ends(u.table) : Covers(u.table, e, pc)

\* An address of the unit, or one right behind a range of it.
Touches(u, pc) ==
  \/ pc \in Code(u)
  \/ u.bounds = << >> /\ \E r \in ToSet(u.ranges) : pc = r[2]

(* Executables whose units do not overlap and are not adjacent.            *)
ProperImage(i) ==
  /\ \A k \in DOMAIN i.units : ProperUnit(i.units[k])
  /\ \A j, k \in DOMAIN i.units : j # k =>
       \A pc \in Inside(i.units[k]) : ~Touches(i.units[j], pc)

SectionsAreWhole == \A i \in Images : SectionsAreThere(i)

ImagesAreProper == \A i \in Images : ProperImage(i)

\* No question is about the first byte of bounds.
PcsAreInside ==
  Pcs \subseteq Int /\
  \A i \in Images, pc \in Pcs : \A k \in DOMAIN i.units :
    i.units[k].bounds # << >> => pc # i.units[k].bounds.low
-----------------------------------------------------------------------------
(* The sections.                                                           *)

(* Nothing has been read but what is there, and the stream is good.        *)
Cached(cache, is) ==
  /\ is = "good"
  /\ cache \in [Sections -> {"none", "whole", "empty"}]
  /\ \A s \in Sections : image.file[s] = "whole" => cache[s] # "empty"

CacheInvariant ==
  image \in Images /\ Cached(m_section_data_cache, m_is)

\* Reading one more section keeps it so, and nothing that was read is lost.
LEMMA ReadsOne ==
  ASSUME image \in Images, SectionsAreThere(image),
         NEW e, Cached(e.cache, e.is), NEW s \in Sections
  PROVE  LET d == GetSectionData(e, s) IN
           /\ Cached(d.cache, d.is)
           /\ image.file[s] = "whole" => d.cache[s] = "whole"
           /\ \A t \in Sections : e.cache[t] = "whole" => d.cache[t] = "whole"
<1> DEFINE d == GetSectionData(e, s)
<1>1. image.file[s] \in {"whole", "absent"}
  BY DEF SectionsAreThere
<1>2. CASE e.cache[s] # "none"
  BY <1>2 DEF GetSectionData, Cached
<1>3. CASE e.cache[s] = "none"
  <2> DEFINE b == Read(e.is, s)
  <2>1. b = IF image.file[s] = "whole" THEN "whole" ELSE "empty"
    BY <1>1 DEF Read, Cached
  <2>2. /\ d.cache = [e.cache EXCEPT ![s] = b]
        /\ d.is = "good"
    BY <1>3, <2>1 DEF GetSectionData, Cached
  <2> HIDE DEF d, b
  <2>3. Cached(d.cache, d.is)
    BY <1>1, <2>1, <2>2 DEF Cached
  <2>4. \A t \in Sections : e.cache[t] = "whole" => d.cache[t] = "whole"
    BY <1>3, <2>1, <2>2 DEF Cached
  <2>5. image.file[s] = "whole" => d.cache[s] = "whole"
    BY <2>1, <2>2 DEF Cached
  <2> QED BY <2>3, <2>4, <2>5 DEF d
<1> QED BY <1>2, <1>3

LEMMA ReadsBoth ==
  ASSUME image \in Images, SectionsAreThere(image),
         NEW e, Cached(e.cache, e.is), NEW s \in Sections, NEW t \in Sections
  PROVE  LET d == GetBoth(e, s, t) IN
           /\ Cached(d.cache, d.is)
           /\ \A r \in {s, t} : image.file[r] = "whole" => d.cache[r] = "whole"
           /\ \A r \in Sections : e.cache[r] = "whole" => d.cache[r] = "whole"
<1> DEFINE c == GetSectionData(e, s)
           d == GetSectionData(c, t)
<1>1. /\ Cached(c.cache, c.is)
      /\ image.file[s] = "whole" => c.cache[s] = "whole"
      /\ \A r \in Sections : e.cache[r] = "whole" => c.cache[r] = "whole"
  BY ReadsOne
<1> HIDE DEF c
<1>2. /\ Cached(d.cache, d.is)
      /\ image.file[t] = "whole" => d.cache[t] = "whole"
      /\ \A r \in Sections : c.cache[r] = "whole" => d.cache[r] = "whole"
  BY <1>1, ReadsOne
<1>3. GetBoth(e, s, t) = d
  BY DEF GetBoth, c
<1> HIDE DEF d
<1> QED BY <1>1, <1>2, <1>3

Kinds == {"address", "function", "line"}

\* Whatever the question, the sections its answer rests on have been read.
LEMMA ReadsAll ==
  ASSUME image \in Images, SectionsAreThere(image),
         NEW e, Cached(e.cache, e.is), NEW q, q.kind \in Kinds
  PROVE  LET d == ReadFor(q, e) IN
           Cached(d.cache, d.is) /\ \A s \in Uses(q) : d.cache[s] = "whole"
<1> DEFINE c == ReadToFind(q, e)
           d == ReadFor(q, e)
           First == IF q.kind = "address" THEN {} ELSE {".debug_str"}
           Ranges == IF \/ q.kind = "address"
                        \/ q.kind = "function" /\ Definitions(q.name) # {}
                     THEN {".debug_ranges"} ELSE {}
           Table == IF FoundFor(q).unit = 0 THEN {} ELSE {".debug_line", ".debug_str"}
<1>1. /\ Cached(c.cache, c.is)
      /\ \A s \in First \cup Ranges :
           image.file[s] = "whole" => c.cache[s] = "whole"
  <2>1. /\ ".debug_str" \in Sections /\ ".debug_ranges" \in Sections
    BY DEF Sections
  <2>2. CASE q.kind = "address"
    <3>1. c = GetSectionData(e, ".debug_ranges") /\ First \cup Ranges = {".debug_ranges"}
      BY <2>2 DEF ReadToFind
    <3> HIDE DEF c, First, Ranges
    <3> QED BY <2>1, <3>1, ReadsOne
  <2>3. CASE q.kind = "function" /\ Definitions(q.name) # {}
    <3>1. /\ c = GetBoth(e, ".debug_str", ".debug_ranges")
          /\ First \cup Ranges = {".debug_str", ".debug_ranges"}
      BY <2>3 DEF ReadToFind
    <3> HIDE DEF c, First, Ranges
    <3>2. /\ Cached(c.cache, c.is)
          /\ \A s \in {".debug_str", ".debug_ranges"} :
               image.file[s] = "whole" => c.cache[s] = "whole"
      BY <2>1, <3>1, ReadsBoth
    <3> QED BY <3>1, <3>2
  <2>4. CASE q.kind = "line" \/ (q.kind = "function" /\ Definitions(q.name) = {})
    <3>1. c = GetSectionData(e, ".debug_str") /\ First \cup Ranges = {".debug_str"}
      BY <2>4 DEF ReadToFind
    <3> HIDE DEF c, First, Ranges
    <3> QED BY <2>1, <3>1, ReadsOne
  <2> QED BY <2>2, <2>3, <2>4 DEF Kinds
<1> HIDE DEF c
<1>2. /\ Cached(d.cache, d.is)
      /\ \A s \in First \cup Ranges \cup Table :
           image.file[s] = "whole" => d.cache[s] = "whole"
  <2>1. CASE FoundFor(q).unit = 0
    <3>1. d = c /\ Table = {}
      BY <2>1 DEF ReadFor, c
    <3> QED BY <1>1, <3>1
  <2>2. CASE FoundFor(q).unit # 0
    <3>1. d = GetBoth(c, ".debug_line", ".debug_str") /\ Table = {".debug_line", ".debug_str"}
      BY <2>2 DEF ReadFor, c
    <3>2. ".debug_line" \in Sections /\ ".debug_str" \in Sections
          /\ First \cup Ranges \subseteq Sections
      BY DEF Sections
    <3>3. Cached(c.cache, c.is) /\ ".debug_line" \in Sections /\ ".debug_str" \in Sections
      BY <1>1, <3>2
    <3> HIDE DEF d, First, Ranges, Table
    <3>4. LET b == GetBoth(c, ".debug_line", ".debug_str") IN
            /\ Cached(b.cache, b.is)
            /\ \A s \in {".debug_line", ".debug_str"} :
                 image.file[s] = "whole" => b.cache[s] = "whole"
            /\ \A s \in Sections : c.cache[s] = "whole" => b.cache[s] = "whole"
      BY <3>3, ReadsBoth, Zenon
    <3>5. \A s \in First \cup Ranges : image.file[s] = "whole" => d.cache[s] = "whole"
      BY <1>1, <3>1, <3>2, <3>4
    <3>6. \A s \in Table : image.file[s] = "whole" => d.cache[s] = "whole"
      BY <3>1, <3>4
    <3> QED BY <3>1, <3>4, <3>5, <3>6
  <2> QED BY <2>1, <2>2
<1> HIDE DEF d
<1>3. ASSUME NEW s \in Uses(q)
      PROVE  s \in First \cup Ranges \cup Table /\ image.file[s] = "whole"
  <2>1. /\ s \in First \cup Ranges \cup Table
        /\ s = ".debug_ranges" => \E i \in DOMAIN units : HasRanges(units[i])
        /\ s \in Sections
    BY DEF Uses, Sections
  <2> HIDE DEF First, Ranges, Table
  <2> QED BY <2>1 DEF SectionsAreThere, units
<1> QED BY <1>2, <1>3 DEF d
-----------------------------------------------------------------------------
(* Questions.                                                              *)

\* What is asked is one of the questions the commands ask.
Posed ==
  question # << >> =>
    /\ question.kind \in Kinds
    /\ question.kind = "address" => question.pc \in Pcs
    /\ question.kind = "line" => question.line \in Lines

AskInvariant == CacheInvariant /\ Posed /\ AnswersAreTheFiles

LEMMA InitAsk == SectionsAreWhole /\ Init => AskInvariant
<1> SUFFICES ASSUME SectionsAreWhole, Init PROVE AskInvariant
  OBVIOUS
<1> DEFINE e == [cache |-> [s \in Sections |-> "none"], is |-> "good"]
           d == GetBoth(e, ".debug_info", ".debug_abbrev")
<1>1. image \in Images /\ SectionsAreThere(image)
  BY DEF Init, SectionsAreWhole
<1>2. Cached(e.cache, e.is)
  BY DEF Cached
<1>3. ".debug_info" \in Sections /\ ".debug_abbrev" \in Sections
  BY DEF Sections
<1>4. m_section_data_cache = d.cache /\ m_is = d.is
  BY DEF Init
<1> HIDE DEF e, d
<1>5. Cached(d.cache, d.is)
  BY <1>1, <1>2, <1>3, ReadsBoth DEF d
<1>6. question = << >>
  BY DEF Init
<1> QED
  BY <1>1, <1>4, <1>5, <1>6
     DEF AskInvariant, CacheInvariant, Posed, AnswersAreTheFiles

\* The answer to a question is a matter of the image alone.
LEMMA SameAnswer ==
  ASSUME UNCHANGED image, NEW q
  PROVE  FoundFor(q)' = FoundFor(q)
<1>1. units' = units
  BY DEF units
<1>2. ASSUME NEW pc, NEW skip
      PROVE  LocationOf(pc, skip)' = LocationOf(pc, skip)
  BY <1>1, Zenon DEF LocationOf
<1>3. Functions' = Functions
  BY <1>1, Zenon DEF Functions
<1>4. ASSUME NEW name PROVE Definitions(name)' = Definitions(name)
  BY <1>3, Zenon DEF Definitions
<1>5. ASSUME NEW name
      PROVE  LocationOfFunction(name)' = LocationOfFunction(name)
  BY <1>2, <1>3, <1>4, Zenon DEF LocationOfFunction
<1>6. ASSUME NEW line, NEW file
      PROVE  AddressOfLine(line, file)' = AddressOfLine(line, file)
  <2>1. UnitOfFile(file)' = UnitOfFile(file)
    BY <1>1, Zenon DEF UnitOfFile
  <2> QED BY <1>1, <2>1, Zenon DEF AddressOfLine
<1> QED BY <1>2, <1>5, <1>6, Zenon DEF FoundFor

LEMMA NextAsk ==
  ASSUME SectionsAreWhole, AskInvariant, [Next]_vars
  PROVE  AskInvariant'
<1>0. image \in Images /\ SectionsAreThere(image)
  BY DEF AskInvariant, CacheInvariant, SectionsAreWhole
<1>1. ASSUME NEW q, Ask(q), q.kind \in Kinds,
             q.kind = "address" => q.pc \in Pcs,
             q.kind = "line" => q.line \in Lines
      PROVE  AskInvariant'
  <2> DEFINE e == [cache |-> m_section_data_cache, is |-> m_is]
             d == ReadFor(q, e)
  <2>1. /\ m_section_data_cache' = d.cache /\ m_is' = d.is
        /\ question' = q /\ image' = image
        /\ answer' = IF \A s \in Uses(q) : d.cache[s] = "whole"
                     THEN FoundFor(q) ELSE Undefined
    BY <1>1 DEF Ask
  <2>2. Cached(e.cache, e.is)
    BY DEF AskInvariant, CacheInvariant
  <2> HIDE DEF e, d
  <2>3. Cached(d.cache, d.is) /\ \A s \in Uses(q) : d.cache[s] = "whole"
    BY <1>0, <1>1, <2>2, ReadsAll DEF d
  <2>4. CacheInvariant'
    BY <1>0, <2>1, <2>3 DEF CacheInvariant, Cached
  <2>5. answer' = FoundFor(q)
    BY <2>1, <2>3
  <2>6. FoundFor(q)' = FoundFor(q)
    BY <2>1, SameAnswer
  <2>7. AnswersAreTheFiles'
    BY <2>1, <2>5, <2>6, Zenon DEF AnswersAreTheFiles
  <2>8. Posed'
    BY <1>1, <2>1 DEF Posed
  <2> QED BY <2>4, <2>7, <2>8 DEF AskInvariant
<1>2. CASE AskAddress
  <2>1. PICK pc \in Pcs : Ask([kind |-> "address", pc |-> pc])
    BY <1>2 DEF AskAddress
  <2> QED BY <1>1, <2>1 DEF Kinds
<1>3. CASE AskFunction
  <2>1. PICK i \in DOMAIN Functions :
          Ask([kind |-> "function", name |-> Functions[i].name])
    BY <1>3 DEF AskFunction
  <2> QED BY <1>1, <2>1 DEF Kinds
<1>4. CASE AskLine
  <2>1. PICK line \in Lines, i \in DOMAIN units :
          Ask([kind |-> "line", line |-> line, file |-> units[i].name])
    BY <1>4 DEF AskLine
  <2> QED BY <1>1, <2>1 DEF Kinds
<1>5. CASE UNCHANGED vars
  <2>1. FoundFor(question)' = FoundFor(question)
    BY <1>5, SameAnswer DEF vars
  <2> QED
    BY <1>5, <2>1 DEF vars, AskInvariant, CacheInvariant, Cached, Posed, AnswersAreTheFiles
<1> QED BY <1>2, <1>3, <1>4, <1>5 DEF Next

THEOREM SpecAsk == ASSUME SectionsAreWhole PROVE Spec => []AskInvariant
<1>1. Init => AskInvariant
  BY InitAsk
<1>2. AskInvariant /\ [Next]_vars => AskInvariant'
  BY NextAsk
<1> QED BY <1>1, <1>2, PTL DEF Spec

(* What has been asked before makes no difference to an answer.            *)
THEOREM AnswersCorrect ==
  ASSUME SectionsAreWhole PROVE Spec => []AnswersAreTheFiles
<1>1. AskInvariant => AnswersAreTheFiles
  BY DEF AskInvariant
<1> QED BY <1>1, SpecAsk, PTL
-----------------------------------------------------------------------------
(* The unit of an address.                                                 *)

\* Of proper ranges all are listed but the last, which is empty.
LEMMA ListedAre ==
  ASSUME NEW u, IsUnit(u), ProperUnit(u), HasRanges(u)
  PROVE  /\ Len(u.ranges) \in Nat \ {0} /\ u.ranges \in Seq(Nat \X Nat)
         /\ u.ranges[Len(u.ranges)] = <<0, 0>>
         /\ Listed(u.ranges) = {u.ranges[k] : k \in 1 .. Len(u.ranges) - 1}
<1> DEFINE n == Len(u.ranges)
           Zeros == {i \in DOMAIN u.ranges : 0 \in Range(u.ranges[i])}
<1>1. /\ u.ranges \in Seq(Nat \X Nat) /\ u.ranges # << >>
      /\ u.ranges[n] = <<0, 0>>
      /\ \A k \in 1 .. n - 1 : 0 \notin Range(u.ranges[k])
  BY DEF IsUnit, ProperUnit, HasRanges, Last
<1>2. n \in Nat \ {0} /\ DOMAIN u.ranges = 1 .. n
  BY <1>1
<1>3. n \in Zeros
  <2>1. 1 \in DOMAIN u.ranges[n] /\ u.ranges[n][1] = 0
    BY <1>1
  <2>2. 0 \in Range(u.ranges[n])
    BY <2>1 DEF Range
  <2> QED BY <1>2, <2>2
<1>4. Zeros = {n}
  <2>1. \A k \in 1 .. n : k = n \/ k \in 1 .. n - 1
    BY <1>2
  <2> QED BY <1>1, <1>2, <1>3, <2>1
<1>5. Min(Zeros) = n
  <2>1. /\ Zeros \in SUBSET Int /\ Zeros # {}
        /\ n \in Int /\ \A x \in Zeros : n <= x
    BY <1>2, <1>4
  <2> HIDE DEF Zeros, n
  <2>2. Min(Zeros) \in Zeros
    BY <2>1, MinIsLeast
  <2> QED BY <1>4, <2>2
<1>6. Listed(u.ranges) = {u.ranges[k] : k \in 1 .. n - 1}
  BY <1>5 DEF Listed
<1> QED BY <1>1, <1>2, <1>6

\* contains_address says yes inside a unit, and only where the unit is touched.
LEMMA ContainsInside ==
  ASSUME NEW u, IsUnit(u), ProperUnit(u), NEW pc \in Int
  PROVE  /\ pc \in Inside(u) => contains_address(u, pc)
         /\ contains_address(u, pc) => Touches(u, pc)
<1>1. CASE u.bounds # << >>
  <2>1. /\ u.bounds.low \in Nat /\ u.bounds.high \in Nat
        /\ u.bounds.form = "addr"
    BY <1>1 DEF IsUnit, ProperUnit, Bounds
  <2>2. Code(u) = u.bounds.low .. u.bounds.high - 1
    BY <1>1, <2>1 DEF Code
  <2>3. contains_address(u, pc) <=> pc > u.bounds.low /\ pc < u.bounds.high
    BY <1>1 DEF contains_address
  <2>4. Inside(u) = Code(u) \ {u.bounds.low}
    BY <1>1 DEF Inside
  <2> QED BY <2>1, <2>2, <2>3, <2>4 DEF Touches
<1>2. CASE HasRanges(u)
  <2> DEFINE n == Len(u.ranges)
  <2>0. u.bounds = << >> /\ u.ranges # << >>
    BY <1>2 DEF HasRanges
  <2>1. /\ n \in Nat \ {0} /\ u.ranges \in Seq(Nat \X Nat)
        /\ u.ranges[n] = <<0, 0>>
        /\ Listed(u.ranges) = {u.ranges[k] : k \in 1 .. n - 1}
    BY <1>2, ListedAre
  <2>2. /\ DOMAIN u.ranges = 1 .. n
        /\ \A k \in 1 .. n : u.ranges[k][1] \in Nat /\ u.ranges[k][2] \in Nat
    BY <2>1
  <2>3. contains_address(u, pc) <=>
          \E k \in 1 .. n - 1 : u.ranges[k][1] <= pc /\ pc <= u.ranges[k][2]
    BY <2>0, <2>1 DEF contains_address
  <2>4. pc \in Code(u) <=>
          \E k \in 1 .. n : pc \in u.ranges[k][1] .. u.ranges[k][2] - 1
    BY <2>0, <2>2 DEF Code, ToSet
  <2>5. Inside(u) = Code(u)
    BY <2>0 DEF Inside
  <2>6. ASSUME pc \in Code(u) PROVE contains_address(u, pc)
    <3>1. PICK k \in 1 .. n : pc \in u.ranges[k][1] .. u.ranges[k][2] - 1
      BY <2>4, <2>6
    <3>2. k # n
      BY <2>1, <3>1
    <3>3. k \in 1 .. n - 1
      BY <2>1, <3>2
    <3>4. u.ranges[k][1] <= pc /\ pc <= u.ranges[k][2]
      BY <2>2, <3>1
    <3> QED BY <2>3, <3>3, <3>4
  <2>7. ASSUME contains_address(u, pc) PROVE Touches(u, pc)
    <3>1. PICK k \in 1 .. n - 1 : u.ranges[k][1] <= pc /\ pc <= u.ranges[k][2]
      BY <2>3, <2>7
    <3>2. k \in 1 .. n
      BY <2>1
    <3>3. CASE pc = u.ranges[k][2]
      <4>1. u.ranges[k] \in ToSet(u.ranges)
        BY <2>2, <3>2 DEF ToSet
      <4> QED BY <2>0, <3>3, <4>1 DEF Touches
    <3>4. CASE pc # u.ranges[k][2]
      <4>1. pc \in u.ranges[k][1] .. u.ranges[k][2] - 1
        BY <2>2, <3>1, <3>2, <3>4
      <4> QED BY <2>4, <3>2, <4>1 DEF Touches
    <3> QED BY <3>3, <3>4
  <2> QED BY <2>5, <2>6, <2>7
<1>3. CASE u.bounds = << >> /\ u.ranges = << >>
  BY <1>3 DEF contains_address, Inside, Code, ToSet
<1> QED BY <1>1, <1>2, <1>3 DEF HasRanges

\* The units of the image.
LEMMA UnitsAre ==
  ASSUME ImagesAreProper, image \in Images
  PROVE  /\ Len(units) \in Nat /\ DOMAIN units = 1 .. Len(units)
         /\ \A k \in DOMAIN units : IsUnit(units[k]) /\ ProperUnit(units[k])
         /\ ProperImage(image)
BY ImagesAssumption DEF ImagesAreProper, ProperImage, IsImage, units

\* The search for the unit of an address stops at the unit it is in.
LEMMA LocationInside ==
  ASSUME ImagesAreProper, image \in Images,
         NEW k \in DOMAIN units, NEW pc \in Int, pc \in Inside(units[k]),
         NEW skip
  PROVE  LocationOf(pc, skip) =
           IF units[k].stmt_list
           THEN [unit |-> k, row |-> SourceRow(units[k].table, pc, skip)]
           ELSE None
<1> DEFINE found == {i \in DOMAIN units : contains_address(units[i], pc)}
<1>1. found = {k}
  <2>1. contains_address(units[k], pc)
    BY UnitsAre, ContainsInside
  <2>2. ASSUME NEW i \in DOMAIN units, i # k, contains_address(units[i], pc)
        PROVE  FALSE
    <3>1. Touches(units[i], pc)
      BY <2>2, UnitsAre, ContainsInside
    <3> QED BY <2>2, <3>1, UnitsAre DEF ProperImage, units
  <2> QED BY <2>1, <2>2
<1>2. Min(found) = k
  <2>1. k \in Int
    BY UnitsAre
  <2> HIDE DEF found
  <2>2. found \in SUBSET Int /\ found # {} /\ \A x \in found : k <= x
    BY <1>1, <2>1
  <2>3. Min(found) \in found
    BY <2>1, <2>2, MinIsLeast
  <2> QED BY <1>1, <2>3
<1>3. \A i \in 1 .. k : units[i].tag = "compile_unit"
  BY UnitsAre DEF ProperUnit
<1> HIDE DEF found
<1>4. found # {}
  BY <1>1
<1> QED BY <1>2, <1>3, <1>4 DEF LocationOf, found

\* The table of that unit has a row for it.
LEMMA RowInside ==
  ASSUME NEW u, IsUnit(u), ProperUnit(u), u.stmt_list,
         NEW pc \in Int, pc \in Inside(u)
  PROVE  /\ SourceRow(u.table, pc, FALSE) \in Matching(u.table, pc)
         /\ SourceRow(u.table, pc, FALSE) > 0
<1>1. IsTable(u.table) /\ WellFormed(u.table)
  BY DEF IsUnit, ProperUnit
<1>2. PICK e \in Ends(u.table) : Covers(u.table, e, pc)
  BY DEF ProperUnit
<1>3. PICK r \in Matching(u.table, pc) : TRUE
  BY <1>1, <1>2, RowMatches
<1>4. SourceRow(u.table, pc, FALSE) = r
  BY <1>1, <1>3, SourceRowIs, MatchIsUnique
<1>5. r > 0
  BY <1>1, <1>3 DEF Matching, IsTable
<1> QED BY <1>3, <1>4, <1>5

(* An address inside a unit, wherever the linker has put the parts of the  *)
(* others, is answered with that unit and a row of its table.              *)
THEOREM AddressCorrect ==
  ASSUME SectionsAreWhole, ImagesAreProper, PcsAreInside
  PROVE  Spec => []AddressGoesToItsUnit
<1>1. AskInvariant => AddressGoesToItsUnit
  <2> SUFFICES ASSUME AskInvariant, Asked("address"),
                      NEW u \in DOMAIN units, question.pc \in Code(units[u])
               PROVE  IF units[u].stmt_list
                      THEN answer.unit = u /\ IsRow(answer)
                      ELSE answer = None
    BY DEF AddressGoesToItsUnit
  <2> DEFINE pc == question.pc
  <2>1. /\ image \in Images /\ question # << >> /\ pc \in Pcs
        /\ answer = LocationOf(pc, FALSE)
    BY DEF AskInvariant, CacheInvariant, Posed, AnswersAreTheFiles, Asked, FoundFor
  <2>2. pc \in Int /\ pc \in Inside(units[u])
    BY <2>1 DEF PcsAreInside, Inside, units
  <2>3. IsUnit(units[u]) /\ ProperUnit(units[u])
    BY <2>1, UnitsAre
  <2>4. answer = IF units[u].stmt_list
                 THEN [unit |-> u, row |-> SourceRow(units[u].table, pc, FALSE)]
                 ELSE None
    BY <2>1, <2>2, LocationInside
  <2>5. units[u].stmt_list => SourceRow(units[u].table, pc, FALSE) > 0
    BY <2>2, <2>3, RowInside
  <2>6. u # 0
    BY <2>1, UnitsAre
  <2> QED BY <2>4, <2>5, <2>6 DEF IsRow
<1> QED BY <1>1, SpecAsk, PTL
-----------------------------------------------------------------------------
(* The address of a line.                                                  *)

\* Every row that is not an end stands for bytes of the unit.
RowsAreInside(u) ==
  /\ Plain(u.table)
  /\ \A k \in 1 .. Len(u.table) - 1 :
       ~u.table[k].end_sequence => u.table[k].address \in Inside(u)

LinesAreInside ==
  Lines \subseteq Int /\
  \A i \in Images : \A k \in DOMAIN i.units : RowsAreInside(i.units[k])

(* A breakpoint set by file and line is reported there: the address the    *)
(* table has for the line is looked up in the same unit, whatever units    *)
(* come before it, and its row is the one the address is from.             *)
THEOREM LineAndBackCorrect ==
  ASSUME SectionsAreWhole, ImagesAreProper, LinesAreInside
  PROVE  Spec => []LineAndBack
<1>1. AskInvariant => LineAndBack
  <2> SUFFICES ASSUME AskInvariant, Asked("line"), IsRow(answer)
               PROVE  LET back == LocationOf(RowAt(answer).address, FALSE) IN
                        /\ IsRow(back)
                        /\ RowAt(back).line = RowAt(answer).line
                        /\ RowAt(back).file = RowAt(answer).file
    BY DEF LineAndBack
  <2> DEFINE u == UnitOfFile(question.file)
             rows == units[u].table
             row == LineRow(rows, question.line, question.file)
  <2>1. /\ image \in Images /\ question # << >> /\ question.line \in Lines
        /\ answer = AddressOfLine(question.line, question.file)
    BY DEF AskInvariant, CacheInvariant, Posed, AnswersAreTheFiles, Asked, FoundFor
  <2>2. /\ answer = [unit |-> u, row |-> row]
        /\ ~(u > Len(units)) /\ units[u].stmt_list
    <3>1. answer # None
      BY DEF IsRow, None
    <3> QED BY <2>1, <3>1 DEF AddressOfLine
  <2>3. u \in DOMAIN units
    <3> DEFINE S == {i \in DOMAIN units : /\ units[i].tag = "compile_unit"
                                          /\ units[i].name = question.file}
                      \cup {Len(units) + 1}
    <3>1. /\ Len(units) \in Nat /\ DOMAIN units = 1 .. Len(units)
      BY <2>1, UnitsAre
    <3>2. S \in SUBSET Int /\ S # {} /\ \A x \in S : 1 <= x
      BY <3>1
    <3>3. u = Min(S)
      BY DEF UnitOfFile
    <3>4. u \in S
      <4> HIDE DEF S
      <4> QED BY <3>2, <3>3, MinIsLeast
    <3> QED BY <2>2, <3>1, <3>4
  <2> HIDE DEF u
  <2>4. IsUnit(units[u]) /\ ProperUnit(units[u]) /\ RowsAreInside(units[u])
    BY <2>1, <2>3, UnitsAre DEF LinesAreInside, units
  <2>5. /\ IsTable(rows) /\ WellFormed(rows) /\ Plain(rows)
        /\ question.line \in Int
    BY <2>1, <2>4 DEF IsUnit, ProperUnit, RowsAreInside, LinesAreInside
  <2>6. row > 0
    BY <2>2 DEF IsRow
  <2>7. row # OutOfBounds /\ CandidatesOf(rows, question.file) # {}
    <3>1. row # OutOfBounds
      BY <2>6 DEF OutOfBounds
    <3> QED BY <3>1, LineRowIs
  <2>8. row \in 1 .. Len(rows) - 1 /\ ~rows[row].end_sequence
    BY <2>5, <2>7, BreakpointRow
  <2>9. SourceRow(rows, rows[row].address, FALSE) = row
    BY <2>5, <2>7, BreakpointInTable
  <2> HIDE DEF row
  <2>10. rows[row].address \in Inside(units[u]) /\ rows[row].address \in Int
    BY <2>4, <2>5, <2>8 DEF RowsAreInside, IsTable
  <2>11. RowAt(answer) = rows[row]
    BY <2>2 DEF RowAt
  <2>12. LocationOf(RowAt(answer).address, FALSE) = answer
    BY <2>1, <2>2, <2>3, <2>9, <2>10, <2>11, LocationInside
  <2> QED BY <2>12
<1> QED BY <1>1, SpecAsk, PTL
-----------------------------------------------------------------------------
(* The address of a function.                                              *)

\* The equation of the function FlattenSeq is defined by, up to m.
Flattens(h, ss, m) ==
  h = [i \in 1 .. m |-> IF i = 1 THEN ss[i] ELSE h[i - 1] \o ss[i]]

LEMMA FlattenExists ==
  ASSUME NEW ss, NEW n \in Nat
  PROVE  \E h : Flattens(h, ss, n)
<1> DEFINE Bad == {m \in Nat : ~\E h : Flattens(h, ss, m)}
<1>1. SUFFICES ASSUME Bad # {} PROVE FALSE
  OBVIOUS
<1>2. PICK m \in Bad : \A k \in Bad : m <= k
  <2>1. Bad \in SUBSET Nat
    OBVIOUS
  <2> HIDE DEF Bad
  <2> QED BY <1>1, <2>1, LeastNatural
<1>3. CASE m = 0
  <2>1. Flattens([i \in 1 .. 0 |-> << >>], ss, 0)
    BY DEF Flattens
  <2> QED BY <1>2, <1>3, <2>1
<1>4. CASE m # 0
  <2>1. m - 1 \in Nat /\ m - 1 \notin Bad
    BY <1>2, <1>4
  <2>2. PICK h : Flattens(h, ss, m - 1)
    BY <2>1
  <2> DEFINE last == IF m = 1 THEN ss[m] ELSE h[m - 1] \o ss[m]
             longer == [i \in 1 .. m |-> IF i = m THEN last ELSE h[i]]
  <2>3. Flattens(longer, ss, m)
    <3>1. ASSUME NEW i \in 1 .. m
          PROVE  longer[i] = IF i = 1 THEN ss[i] ELSE longer[i - 1] \o ss[i]
      <4>1. CASE i = m
        <5>1. i # 1 => i - 1 \in 1 .. m /\ i - 1 # m
          BY <4>1
        <5> QED BY <4>1, <5>1
      <4>2. CASE i # m
        <5>1. i \in 1 .. m - 1 /\ (i # 1 => i - 1 \in 1 .. m /\ i - 1 # m)
          BY <4>2, <2>1
        <5>2. h[i] = IF i = 1 THEN ss[i] ELSE h[i - 1] \o ss[i]
          BY <2>2, <5>1 DEF Flattens
        <5> QED BY <4>2, <5>1, <5>2
      <4> QED BY <4>1, <4>2
    <3> DEFINE body == [i \in 1 .. m |-> IF i = 1 THEN ss[i] ELSE longer[i - 1] \o ss[i]]
    <3>2. longer = body
      <4>1. \A i \in 1 .. m : longer[i] = body[i]
        BY <3>1
      <4>2. longer = [i \in 1 .. m |-> longer[i]]
        OBVIOUS
      <4>3. body = [i \in 1 .. m |-> body[i]]
        OBVIOUS
      <4> HIDE DEF longer, body
      <4> QED BY <4>1, <4>2, <4>3
    <3> HIDE DEF longer
    <3> QED BY <3>2 DEF Flattens
  <2> QED BY <1>2, <2>3
<1> QED BY <1>3, <1>4

\* A flattened sequence holds what its parts hold.
LEMMA FlattenHolds ==
  ASSUME NEW T, NEW ss \in Seq(Seq(T))
  PROVE  FlattenSeq(ss) \in Seq(T)
<1> DEFINE n == Len(ss)
<1>1. n \in Nat /\ \A i \in 1 .. n : ss[i] \in Seq(T)
  OBVIOUS
<1>2. CASE n = 0
  <2>1. FlattenSeq(ss) = ss /\ ss = << >>
    BY <1>2 DEF FlattenSeq
  <2> QED BY <2>1
<1>3. CASE n # 0
  <2> DEFINE flat == CHOOSE h : Flattens(h, ss, n)
  <2>1. FlattenSeq(ss) = flat[n]
    BY <1>3, Zenon DEF FlattenSeq, Flattens
  <2>2. Flattens(flat, ss, n)
    BY <1>1, FlattenExists
  <2> HIDE DEF flat
  <2> DEFINE Bad == {i \in 1 .. n : flat[i] \notin Seq(T)}
  <2>3. Bad = {}
    <3>1. SUFFICES ASSUME Bad # {} PROVE FALSE
      OBVIOUS
    <3>2. PICK i \in Bad : \A k \in Bad : i <= k
      <4>1. Bad \in SUBSET Nat
        OBVIOUS
      <4> HIDE DEF Bad
      <4> QED BY <3>1, <4>1, LeastNatural
    <3>3. /\ i \in 1 .. n /\ flat[i] \notin Seq(T) /\ ss[i] \in Seq(T)
          /\ flat[i] = IF i = 1 THEN ss[i] ELSE flat[i - 1] \o ss[i]
      BY <1>1, <2>2, <3>2 DEF Flattens
    <3>4. i # 1 /\ i - 1 \in 1 .. n /\ ~(i <= i - 1)
      BY <1>1, <3>3
    <3>5. flat[i - 1] \in Seq(T)
      BY <3>2, <3>4
    <3>6. flat[i - 1] \o ss[i] \in Seq(T)
      BY <3>3, <3>5
    <3> QED BY <3>3, <3>4, <3>6
  <2>4. n \in 1 .. n
    BY <1>1, <1>3
  <2> QED BY <2>1, <2>3, <2>4
<1> QED BY <1>2, <1>3
Defined(u) == {f \in ToSet(u.functions) : f.low # NoAddress}

(* The row of the entry of a function, and the row of the end of its       *)
(* prologue, if that is marked, which is the next one.                     *)
EntryRow(u, f, r) ==
  LET next == u.table[r + 1] IN
    /\ u.table[r].address = f.low /\ ~u.table[r].end_sequence
    /\ f.low < next.address
    /\ next.prologue_end => next.address < f.high
    /\ \A i \in DOMAIN u.table :
         u.table[i].prologue_end /\ u.table[i].address \in f.low .. f.high - 1
           => i = r + 1 \/ u.table[i].address = f.low

ProperFunction(u, f) ==
  /\ u.stmt_list
  /\ f.low < f.high /\ f.low \in Inside(u)
  /\ \E r \in 1 .. Len(u.table) - 1 : EntryRow(u, f, r)

(* A name has one definition, with an entry in the table of its unit.      *)
FunctionsAreProper ==
  \A i \in Images : \A k \in DOMAIN i.units :
    \A f \in Defined(i.units[k]) :
      /\ ProperFunction(i.units[k], f)
      /\ \A j \in DOMAIN i.units : \A g \in Defined(i.units[j]) :
           f.name = g.name => f = g

\* The functions are those of the units.
LEMMA FunctionsAre ==
  ASSUME ImagesAreProper, image \in Images, NEW i \in DOMAIN Functions
  PROVE  /\ i \in Nat /\ Functions[i] \in Function
         /\ \E k \in DOMAIN units : Functions[i] \in ToSet(units[k].functions)
<1> DEFINE T == {f \in Function : \E k \in DOMAIN units : f \in ToSet(units[k].functions)}
           ss == [k \in DOMAIN units |-> units[k].functions]
<1>1. /\ Len(units) \in Nat /\ DOMAIN units = 1 .. Len(units)
      /\ \A k \in DOMAIN units : units[k].functions \in Seq(Function)
  BY UnitsAre DEF IsUnit
<1>2. ASSUME NEW k \in DOMAIN units PROVE units[k].functions \in Seq(T)
  <2> DEFINE fs == units[k].functions
  <2>1. fs \in Seq(Function)
    BY <1>1
  <2>2. \A j \in 1 .. Len(fs) : fs[j] \in ToSet(fs) /\ fs[j] \in Function
    BY <2>1 DEF ToSet
  <2>3. \A j \in 1 .. Len(fs) : fs[j] \in T
    BY <2>2
  <2> HIDE DEF T, fs
  <2>4. fs \in Seq(T)
    BY <2>1, <2>3
  <2> QED BY <2>4 DEF fs
<1>3. ss \in Seq(Seq(T))
  <2> HIDE DEF T
  <2> QED BY <1>1, <1>2
<1>4. Functions = FlattenSeq(ss)
  BY DEF Functions
<1> HIDE DEF T, ss
<1>5. Functions \in Seq(T)
  BY <1>3, <1>4, FlattenHolds
<1>6. i \in Nat /\ Functions[i] \in T
  BY <1>5
<1> QED BY <1>6 DEF T

\* The answer to a question for a function is the row of its entry, or that
\* of the end of its prologue.
LEMMA FunctionAnswer ==
  ASSUME ImagesAreProper, FunctionsAreProper, AskInvariant, Asked("function"),
         NEW i \in Definitions(question.name)
  PROVE  LET f == Functions[i]
             u == units[answer.unit]
         IN  /\ answer.unit \in DOMAIN units /\ IsTable(u.table)
             /\ f.low \in Nat /\ f.high \in Nat
             /\ f.low < f.high
             /\ \E r \in 1 .. Len(u.table) - 1 :
                  EntryRow(u, f, r) /\ answer.row = SkipPrologue(u.table, r)
<1> DEFINE name == question.name
           m == Min(Definitions(name))
           f == Functions[i]
<1>1. /\ image \in Images /\ question # << >>
      /\ answer = LocationOf(Functions[m].low, TRUE)
  BY DEF AskInvariant, CacheInvariant, AnswersAreTheFiles, Asked, FoundFor, LocationOfFunction
<1>2. \A j \in Definitions(name) :
        j \in Nat /\ j \in DOMAIN Functions
        /\ Functions[j] \in Function
        /\ Functions[j].name = name /\ Functions[j].low # NoAddress
  BY <1>1, FunctionsAre DEF Definitions
<1>3. m \in Definitions(name)
  <2>1. /\ Definitions(name) \in SUBSET Int /\ Definitions(name) # {}
        /\ \A j \in Definitions(name) : 0 <= j
    BY <1>2
  <2> QED BY <2>1, MinIsLeast
<1>4. Functions[m] = f
  <2>1. PICK k \in DOMAIN units : Functions[i] \in ToSet(units[k].functions)
    BY <1>1, <1>2, FunctionsAre
  <2>2. PICK j \in DOMAIN units : Functions[m] \in ToSet(units[j].functions)
    BY <1>1, <1>2, <1>3, FunctionsAre
  <2>3. Functions[i] \in Defined(units[k]) /\ Functions[m] \in Defined(units[j])
    BY <1>2, <1>3, <2>1, <2>2 DEF Defined
  <2>4. Functions[i].name = Functions[m].name
    BY <1>2, <1>3
  <2> QED BY <1>1, <2>3, <2>4 DEF FunctionsAreProper, units
<1>5. PICK k \in DOMAIN units : f \in Defined(units[k])
  BY <1>1, <1>2, FunctionsAre DEF Defined
<1> HIDE DEF f, m
<1>6. /\ f \in Function /\ f.low \in Nat /\ f.high \in Nat
  BY <1>2 DEF Function, f
<1> DEFINE u == units[k]
<1>7. /\ f.low < f.high /\ f.low \in Inside(u) /\ u.stmt_list
      /\ \E r \in 1 .. Len(u.table) - 1 : EntryRow(u, f, r)
  <2>1. ProperFunction(units[k], f)
    BY <1>1, <1>5 DEF FunctionsAreProper, units
  <2> QED BY <2>1 DEF ProperFunction
<1>8. PICK r \in 1 .. Len(u.table) - 1 : EntryRow(u, f, r)
  BY <1>7
<1>9. /\ IsTable(u.table) /\ WellFormed(u.table)
  BY <1>1, UnitsAre DEF IsUnit, ProperUnit
<1>10. answer = [unit |-> k, row |-> SourceRow(u.table, f.low, TRUE)]
  <2>1. f.low \in Int
    BY <1>6
  <2> QED BY <1>1, <1>4, <1>7, <2>1, LocationInside
<1>11. r \in Matching(u.table, f.low)
  <2>1. u.table[r].address <= f.low
    BY <1>6, <1>8 DEF EntryRow
  <2>2. u.table[r + 1].address > f.low
    <3>1. u.table[r + 1].address \in Int
      BY <1>9 DEF IsTable
    <3> QED BY <1>6, <1>8, <3>1 DEF EntryRow
  <2> QED BY <1>8, <2>1, <2>2 DEF EntryRow, Matching
<1>12. SourceRow(u.table, f.low, TRUE) = SkipPrologue(u.table, r)
  <2>1. Max(Matching(u.table, f.low)) = r
    BY <1>6, <1>9, <1>11, MatchIsUnique
  <2>2. SourceRow(u.table, f.low, TRUE) =
          SkipPrologue(u.table, Max(Matching(u.table, f.low)))
    BY <1>11 DEF SourceRow, Matching
  <2> QED BY <2>1, <2>2
<1>13. /\ answer.unit = k /\ answer.row = SkipPrologue(u.table, r)
  BY <1>10, <1>12
<1> QED BY <1>6, <1>7, <1>8, <1>9, <1>13 DEF f

\* Of the two rows, it is the marked one.
LEMMA PrologueSkipped ==
  ASSUME NEW rows, IsTable(rows), NEW r \in 1 .. Len(rows) - 1
  PROVE  /\ r \in DOMAIN rows /\ r + 1 \in DOMAIN rows /\ r > 0 /\ r + 1 > 0
         /\ SkipPrologue(rows, r) = IF rows[r + 1].prologue_end THEN r + 1 ELSE r
BY DEF SkipPrologue, IsTable

(* A breakpoint on a function stops inside that function, were its name    *)
(* declared in units before.                                               *)
THEOREM FunctionCorrect ==
  ASSUME SectionsAreWhole, ImagesAreProper, FunctionsAreProper
  PROVE  Spec => []BreakIsInFunction
<1>1. AskInvariant => BreakIsInFunction
  <2> SUFFICES ASSUME AskInvariant, Asked("function"),
                      NEW i \in Definitions(question.name)
               PROVE  /\ IsRow(answer)
                      /\ RowAt(answer).address \in Functions[i].low .. Functions[i].high - 1
    BY DEF BreakIsInFunction
  <2> DEFINE f == Functions[i]
             u == units[answer.unit]
  <2>1. /\ answer.unit \in DOMAIN units /\ IsTable(u.table)
        /\ f.low \in Nat /\ f.high \in Nat /\ f.low < f.high
        /\ \E r \in 1 .. Len(u.table) - 1 :
             EntryRow(u, f, r) /\ answer.row = SkipPrologue(u.table, r)
    BY FunctionAnswer
  <2>2. PICK r \in 1 .. Len(u.table) - 1 :
          EntryRow(u, f, r) /\ answer.row = SkipPrologue(u.table, r)
    BY <2>1
  <2>3. answer.unit # 0
    BY <2>1, UnitsAre DEF AskInvariant, CacheInvariant
  <2>4. RowAt(answer) = u.table[answer.row]
    BY DEF RowAt
  <2> HIDE DEF f, u
  <2>5. /\ r \in DOMAIN u.table /\ r + 1 \in DOMAIN u.table /\ r > 0 /\ r + 1 > 0
        /\ answer.row = IF u.table[r + 1].prologue_end THEN r + 1 ELSE r
    BY <2>1, <2>2, PrologueSkipped
  <2>6. u.table[r].address \in Int /\ u.table[r + 1].address \in Int
    BY <2>1, <2>5 DEF IsTable
  <2>7. /\ u.table[r].address = f.low /\ f.low < u.table[r + 1].address
        /\ u.table[r + 1].prologue_end => u.table[r + 1].address < f.high
    BY <2>2 DEF EntryRow
  <2>8. /\ f.low \in Nat /\ f.high \in Nat /\ f.low < f.high
    BY <2>1
  <2>9. RowAt(answer).address \in f.low .. f.high - 1
    <3>1. CASE u.table[r + 1].prologue_end
      <4>1. RowAt(answer).address = u.table[r + 1].address
        BY <2>4, <2>5, <3>1
      <4> QED BY <2>6, <2>7, <2>8, <3>1, <4>1
    <3>2. CASE ~u.table[r + 1].prologue_end
      <4>1. RowAt(answer).address = f.low
        BY <2>4, <2>5, <2>7, <3>2
      <4> QED BY <2>8, <4>1
    <3> QED BY <3>1, <3>2
  <2>10. IsRow(answer)
    BY <2>3, <2>5 DEF IsRow
  <2> QED BY <2>9, <2>10 DEF f
<1> QED BY <1>1, SpecAsk, PTL

(* and behind its prologue.                                                *)
THEOREM PrologueCorrect ==
  ASSUME SectionsAreWhole, ImagesAreProper, FunctionsAreProper
  PROVE  Spec => []BreakIsBehindPrologue
<1>1. AskInvariant => BreakIsBehindPrologue
  <2> DEFINE u == units[answer.unit]
  <2> SUFFICES ASSUME AskInvariant, Asked("function"),
                      NEW j \in DOMAIN u.table, u.table[j].prologue_end,
                      NEW i \in Definitions(question.name),
                      u.table[j].address \in Functions[i].low .. Functions[i].high - 1
               PROVE  RowAt(answer).address >= u.table[j].address
    BY DEF BreakIsBehindPrologue
  <2> DEFINE f == Functions[i]
  <2>1. /\ IsTable(u.table) /\ f.low \in Nat /\ f.high \in Nat /\ f.low < f.high
        /\ \E r \in 1 .. Len(u.table) - 1 :
             EntryRow(u, f, r) /\ answer.row = SkipPrologue(u.table, r)
    BY FunctionAnswer
  <2>2. PICK r \in 1 .. Len(u.table) - 1 :
          EntryRow(u, f, r) /\ answer.row = SkipPrologue(u.table, r)
    BY <2>1
  <2>3. RowAt(answer) = u.table[answer.row]
    BY DEF RowAt
  <2> HIDE DEF f, u
  <2>4. /\ r \in DOMAIN u.table /\ r + 1 \in DOMAIN u.table
        /\ answer.row = IF u.table[r + 1].prologue_end THEN r + 1 ELSE r
    BY <2>1, <2>2, PrologueSkipped
  <2>5. /\ u.table[r].address \in Int /\ u.table[r + 1].address \in Int
        /\ u.table[j].address \in Int
    BY <2>1, <2>4 DEF IsTable
  <2>6. /\ u.table[r].address = f.low /\ f.low < u.table[r + 1].address
        /\ j = r + 1 \/ u.table[j].address = f.low
    BY <2>2 DEF EntryRow, f
  <2>7. CASE j = r + 1
    <3>1. RowAt(answer) = u.table[j]
      BY <2>3, <2>4, <2>7
    <3> QED BY <2>5, <3>1
  <2>8. CASE u.table[j].address = f.low
    <3>1. \/ RowAt(answer).address = u.table[r].address
          \/ RowAt(answer).address = u.table[r + 1].address
      BY <2>3, <2>4
    <3> QED BY <2>5, <2>6, <2>8, <3>1
  <2> QED BY <2>6, <2>7, <2>8
<1> QED BY <1>1, SpecAsk, PTL
=============================================================================
