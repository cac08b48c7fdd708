--------------------------- MODULE DieTreeProofs ---------------------------
(***************************************************************************)
(* The walks of DieTree over any number of compile units of any size.      *)
(***************************************************************************)
EXTENDS DieTree, IntegerSets, FiniteSetTheorems, SequenceTheorems

\* A unit of a source file of which something is left.
RootsHaveChildren == \A u \in Units : u[1].kids

\* A location belongs to an entry with a name.
LocatedAreNamed ==
  \A u \in Units : \A i \in DOMAIN u : u[i].located => u[i].name # ""
-----------------------------------------------------------------------------
(* Levels.                                                                 *)

LEMMA UnitType ==
  ASSUME NEW u \in Units
  PROVE  /\ Len(u) \in Nat \ {0} /\ DOMAIN u = 1 .. Len(u)
         /\ \A i \in DOMAIN u : u[i] \in Entry
BY UnitsAssumption DEF IsUnit

LEMMA CountedNext ==
  ASSUME NEW i \in Nat \ {0}, NEW S \in SUBSET Nat
  PROVE  /\ IsFiniteSet(S \cap 1 .. i)
         /\ Cardinality(S \cap (1 .. i - 1)) \in Nat
         /\ Cardinality(S \cap 1 .. i) =
              Cardinality(S \cap (1 .. i - 1)) + (IF i \in S THEN 1 ELSE 0)
<1> DEFINE T == S \cap (1 .. i - 1)
<1>1. IsFiniteSet(1 .. i - 1) /\ IsFiniteSet(1 .. i)
  BY FS_Interval
<1>2. IsFiniteSet(T) /\ IsFiniteSet(S \cap 1 .. i)
  BY <1>1, FS_Subset
<1>3. Cardinality(T) \in Nat
  BY <1>2, FS_CardinalityType
<1>4. CASE i \in S
  <2>1. S \cap 1 .. i = T \cup {i} /\ i \notin T
    BY <1>4
  <2> HIDE DEF T
  <2>2. Cardinality(T \cup {i}) = Cardinality(T) + 1
    BY <1>2, <2>1, FS_AddElement
  <2>3. Cardinality(S \cap 1 .. i) = Cardinality(T) + 1
    BY <2>1, <2>2, Zenon
  <2> QED BY <1>2, <1>3, <1>4, <2>3, Zenon DEF T
<1>5. CASE i \notin S
  <2>1. S \cap 1 .. i = T
    BY <1>5
  <2>2. Cardinality(T) + 0 = Cardinality(T)
    BY <1>3
  <2> QED BY <1>2, <1>3, <1>5, <2>1, <2>2, Zenon
<1> QED BY <1>4, <1>5

\* An entry opens a list of children, ends one, or does neither.
LEMMA LevelNext ==
  ASSUME NEW u \in Units, NEW i \in DOMAIN u
  PROVE  /\ Level(u, i) \in Int
         /\ Level(u, i + 1) = Level(u, i)
              + (IF u[i].kids THEN 1 ELSE 0)
              - (IF u[i].tag = "null" THEN 1 ELSE 0)
<1> DEFINE K == {j \in DOMAIN u : u[j].kids}
           N == {j \in DOMAIN u : u[j].tag = "null"}
<1>1. DOMAIN u \subseteq Nat \ {0} /\ i \in Nat \ {0} /\ i <= Len(u)
  BY UnitType
<1>2. /\ {j \in 1 .. i - 1 : u[j].kids} = K \cap (1 .. i - 1)
      /\ {j \in 1 .. (i + 1) - 1 : u[j].kids} = K \cap 1 .. i
      /\ {j \in 1 .. i - 1 : u[j].tag = "null"} = N \cap (1 .. i - 1)
      /\ {j \in 1 .. (i + 1) - 1 : u[j].tag = "null"} = N \cap 1 .. i
  BY <1>1, UnitType
<1>3. K \in SUBSET Nat /\ N \in SUBSET Nat
  BY <1>1
<1>4. (i \in K <=> u[i].kids) /\ (i \in N <=> u[i].tag = "null")
  OBVIOUS
<1> HIDE DEF K, N
<1>5. /\ Cardinality(K \cap (1 .. i - 1)) \in Nat
      /\ Cardinality(K \cap 1 .. i) =
           Cardinality(K \cap (1 .. i - 1)) + (IF i \in K THEN 1 ELSE 0)
  BY <1>1, <1>3, CountedNext
<1>6. /\ Cardinality(N \cap (1 .. i - 1)) \in Nat
      /\ Cardinality(N \cap 1 .. i) =
           Cardinality(N \cap (1 .. i - 1)) + (IF i \in N THEN 1 ELSE 0)
  BY <1>1, <1>3, CountedNext
<1>7. Level(u, i) =
        Cardinality(K \cap (1 .. i - 1)) - Cardinality(N \cap (1 .. i - 1))
  BY <1>2, Zenon DEF Level
<1>8. Level(u, i + 1) = Cardinality(K \cap 1 .. i) - Cardinality(N \cap 1 .. i)
  BY <1>2, Zenon DEF Level
<1> QED BY <1>4, <1>5, <1>6, <1>7, <1>8

\* The null entry that ends the root's children is the last.
LEMMA LastIsNull ==
  ASSUME RootsHaveChildren, NEW u \in Units
  PROVE  /\ Len(u) > 1
         /\ u[Len(u)].tag = "null" /\ u[Len(u)].data = 0
<1>1. Len(u) \in DOMAIN u /\ 1 \in DOMAIN u
  BY UnitType
<1>2. Level(u, Len(u) + 1) = 0
  BY UnitsAssumption DEF IsUnit
<1>3. /\ Level(u, Len(u)) \in Int
      /\ 0 = Level(u, Len(u)) + (IF u[Len(u)].kids THEN 1 ELSE 0)
               - (IF u[Len(u)].tag = "null" THEN 1 ELSE 0)
  BY <1>1, <1>2, LevelNext
<1>4. Len(u) > 1
  <2>1. Level(u, 1) = 0
    <3>1. {j \in 1 .. 1 - 1 : u[j].kids} = {} /\
          {j \in 1 .. 1 - 1 : u[j].tag = "null"} = {}
      OBVIOUS
    <3> QED BY <3>1, FS_EmptySet DEF Level
  <2>2. u[1].kids /\ u[1].tag # "null"
    BY UnitsAssumption DEF RootsHaveChildren, IsUnit
  <2>3. Len(u) # 1
    BY <1>3, <2>1, <2>2
  <2>4. \A n \in Nat \ {0} : n # 1 => n > 1
    OBVIOUS
  <2> QED BY <2>3, <2>4, UnitType
<1>5. Level(u, Len(u)) > 0
  BY <1>4, UnitsAssumption, UnitType DEF IsUnit
<1>6. u[Len(u)].tag = "null"
  BY <1>3, <1>5
<1> QED BY <1>1, <1>4, <1>6, UnitsAssumption DEF IsUnit
-----------------------------------------------------------------------------
(* The invariant.                                                          *)

(* filtered holds the subprograms among the first n entries, in order.     *)
FilteredTo(n) ==
  /\ filtered \in Seq(Nat)
  /\ {filtered[k] : k \in DOMAIN filtered} = {i \in Tagged("subprogram") : i <= n}
  /\ \A k \in 1 .. Len(filtered) - 1 : filtered[k] < filtered[k + 1]

(* get_nested has not come back to the level of its owner: depth is the    *)
(* number of lists of children it has open below the owner's own.          *)
BelowOwner ==
  /\ owner \in DOMAIN unit /\ die \in DOMAIN unit
  /\ owner < die /\ ~IsNull(die)
  /\ depth \in Nat
  /\ Level(unit, die) = Level(unit, owner) + 1 + depth
  /\ \A k \in owner + 1 .. die : Level(unit, k) > Level(unit, owner)

OwnNested ==
  /\ owner \in DOMAIN unit
  /\ nested \in Seq(Nat)
  /\ \A k \in DOMAIN nested : nested[k] \in Descendants(owner)

WalkInvariant ==
  /\ unit \in Units
  /\ phase \in Phases \ {"overrun"}
  /\ phase = "filter" => die \in DOMAIN unit /\ FilteredTo(die - 1)
  /\ phase = "filtered" => FilteredTo(Len(unit))
  /\ phase \in {"filter", "filtered"} => depth = 0 /\ nested = << >>
  /\ phase = "nesting" => BelowOwner
  /\ phase \in {"nesting", "nested"} => OwnNested
  /\ phase # "answered" => answer = None

LEMMA InitWalk == Init => WalkInvariant
<1> SUFFICES ASSUME Init PROVE WalkInvariant
  OBVIOUS
<1>1. unit \in Units /\ 1 \in DOMAIN unit
  BY UnitType DEF Init
<1>2. unit[1].tag # "subprogram"
  BY <1>1, UnitsAssumption DEF IsUnit
<1>3. FilteredTo(1 - 1)
  <2>1. filtered = << >> /\ filtered \in Seq(Nat) /\ Len(filtered) = 0
        /\ DOMAIN filtered = {}
    BY DEF Init
  <2>2. {i \in Tagged("subprogram") : i <= 1 - 1} = {}
    BY <1>1, UnitType DEF Tagged
  <2> QED BY <2>1, <2>2 DEF FilteredTo
<1> QED
  BY <1>1, <1>3 DEF Init, WalkInvariant, Phases

\* The loop of filter_die_by_tag.
LEMMA FilterVisitWalk ==
  ASSUME RootsHaveChildren, WalkInvariant, FilterVisit
  PROVE  WalkInvariant'
<1>1. unit \in Units /\ die \in DOMAIN unit /\ FilteredTo(die - 1)
  BY DEF WalkInvariant, FilterVisit
<1>2. die \in Nat /\ die < Len(unit) /\ die + 1 \in DOMAIN unit
  <2>1. die # Len(unit)
    BY <1>1, LastIsNull DEF FilterVisit, IsNull
  <2> QED BY <1>1, <2>1, UnitType
<1>3. die' = die + 1 /\ phase' = "filter" /\ unit' = unit
  BY <1>2 DEF FilterVisit, Incremented
<1>4. die' - 1 = die
  BY <1>2, <1>3
<1>5. FilteredTo(die - 1)'
  <2> DEFINE Upto(n) == {i \in Tagged("subprogram") : i <= n}
             n == Len(filtered)
  <2>1. /\ filtered \in Seq(Nat) /\ n \in Nat /\ DOMAIN filtered = 1 .. n
        /\ {filtered[k] : k \in 1 .. n} = Upto(die - 1)
        /\ \A k \in 1 .. n - 1 : filtered[k] < filtered[k + 1]
        /\ \A k \in 1 .. n : filtered[k] \in Nat
    BY <1>1 DEF FilteredTo
  <2>2. CASE unit[die].tag = "subprogram"
    <3>1. filtered' = Append(filtered, die)
      BY <2>2 DEF FilterVisit
    <3>2. /\ filtered' \in Seq(Nat) /\ Len(filtered') = n + 1
          /\ DOMAIN filtered' = 1 .. n + 1
          /\ filtered'[n + 1] = die
          /\ \A k \in 1 .. n : filtered'[k] = filtered[k]
      BY <1>2, <2>1, <3>1, AppendProperties
    <3>3. Upto(die) = Upto(die - 1) \cup {die}
      BY <1>1, <1>2, <2>2, UnitType DEF Tagged
    <3>4. \A k \in 1 .. n : filtered[k] \in Upto(die - 1)
      BY <2>1
    <3>5. \A k \in 1 .. n : filtered[k] < die
      <4>1. \A i \in Upto(die - 1) : i <= die - 1
        OBVIOUS
      <4> QED BY <1>2, <2>1, <3>4, <4>1
    <3> HIDE DEF n, Upto
    <3>6. {filtered'[k] : k \in 1 .. n + 1} = Upto(die)
      <4>1. 1 .. n + 1 = (1 .. n) \cup {n + 1}
        BY <2>1
      <4>2. {filtered'[k] : k \in 1 .. n + 1} =
              {filtered[k] : k \in 1 .. n} \cup {die}
        BY <3>2, <4>1
      <4> QED BY <2>1, <3>3, <4>2
    <3>7. ASSUME NEW k \in 1 .. n
          PROVE  filtered'[k] < filtered'[k + 1]
      <4>1. CASE k = n
        BY <3>2, <3>5, <4>1
      <4>2. CASE k # n
        <5>1. k \in 1 .. n - 1 /\ k + 1 \in 1 .. n
          BY <2>1, <4>2
        <5> QED BY <2>1, <3>2, <5>1
      <4> QED BY <4>1, <4>2
    <3>8. Len(filtered') - 1 = n
      BY <2>1, <3>2
    <3> QED BY <1>3, <1>4, <3>2, <3>6, <3>7, <3>8 DEF FilteredTo, Tagged, Upto
  <2>3. CASE unit[die].tag # "subprogram"
    <3>1. filtered' = filtered
      BY <2>3 DEF FilterVisit
    <3>2. Upto(die) = Upto(die - 1)
      BY <1>1, <1>2, <2>3, UnitType DEF Tagged
    <3> HIDE DEF n
    <3> QED BY <1>3, <1>4, <2>1, <3>1, <3>2 DEF FilteredTo, Tagged, n
  <2> QED BY <2>2, <2>3
<1>6. die' \in DOMAIN unit'
  BY <1>2, <1>3
<1> QED
  BY <1>1, <1>3, <1>5, <1>6, Zenon
     DEF WalkInvariant, FilterVisit, Phases

LEMMA FilterEndsWalk ==
  ASSUME RootsHaveChildren, WalkInvariant, FilterEnds
  PROVE  WalkInvariant'
<1>1. unit \in Units /\ die = Len(unit) /\ FilteredTo(die - 1)
  BY DEF WalkInvariant, FilterEnds, IsNull
<1>2. unit[Len(unit)].tag = "null" /\ Len(unit) \in Nat /\ DOMAIN unit = 1 .. Len(unit)
  BY <1>1, LastIsNull, UnitType
<1>3. {i \in Tagged("subprogram") : i <= Len(unit) - 1} =
        {i \in Tagged("subprogram") : i <= Len(unit)}
  BY <1>2 DEF Tagged
<1>4. FilteredTo(Len(unit))
  BY <1>1, <1>3 DEF FilteredTo
<1>5. FilteredTo(Len(unit))'
  BY <1>4 DEF FilterEnds, FilteredTo, Tagged
<1> QED
  BY <1>1, <1>5, Zenon
     DEF WalkInvariant, FilterEnds, Phases

\* What the filter has collected are subprograms, and none is the last entry.
LEMMA FilteredIsSubprogram ==
  ASSUME RootsHaveChildren, unit \in Units, FilteredTo(Len(unit)),
         NEW i \in {filtered[k] : k \in DOMAIN filtered}
  PROVE  /\ i \in DOMAIN unit /\ i + 1 \in DOMAIN unit
         /\ unit[i].tag = "subprogram"
<1>1. i \in DOMAIN unit /\ unit[i].tag = "subprogram"
  BY DEF FilteredTo, Tagged
<1>2. i # Len(unit)
  BY <1>1, LastIsNull
<1> QED BY <1>1, <1>2, UnitType

LEMMA GetNestedWalk ==
  ASSUME RootsHaveChildren, WalkInvariant, GetNested
  PROVE  WalkInvariant'
<1>1. /\ unit \in Units /\ FilteredTo(Len(unit))
      /\ depth = 0 /\ nested = << >> /\ answer = None
  BY DEF WalkInvariant, GetNested
<1>2. /\ owner' \in DOMAIN unit /\ owner' + 1 \in DOMAIN unit
      /\ unit[owner'].tag = "subprogram"
  BY <1>1, FilteredIsSubprogram DEF GetNested
<1>3. die' = owner' + 1 /\ unit' = unit /\ depth' = 0 /\ nested' = << >>
      /\ answer' = None /\ phase' \in {"nesting", "nested"}
  BY <1>1 DEF GetNested, Incremented
<1>4. OwnNested'
  BY <1>2, <1>3 DEF OwnNested
<1>5. ASSUME phase' = "nesting" PROVE BelowOwner'
  <2>1. ~IsNull(die)' /\ unit[owner'].kids
    BY <1>5, <1>3 DEF GetNested, IsNull
  <2>2. /\ Level(unit, owner') \in Int
        /\ Level(unit, owner' + 1) = Level(unit, owner') + 1
    <3>1. /\ Level(unit, owner') \in Int
          /\ Level(unit, owner' + 1) = Level(unit, owner')
               + (IF unit[owner'].kids THEN 1 ELSE 0)
               - (IF unit[owner'].tag = "null" THEN 1 ELSE 0)
      BY <1>1, <1>2, LevelNext
    <3>2. unit[owner'].tag # "null"
      BY <1>2
    <3> QED BY <2>1, <3>1, <3>2
  <2>3. owner' \in Nat /\ owner' < owner' + 1 /\ owner' + 1 .. owner' + 1 = {owner' + 1}
    BY <1>1, <1>2, UnitType
  <2>4. Level(unit', die') = Level(unit', owner') + 1 + depth'
    BY <1>3, <2>2
  <2>5. \A k \in owner' + 1 .. die' : Level(unit', k) > Level(unit', owner')
    BY <1>3, <2>2, <2>3
  <2> QED BY <1>2, <1>3, <2>1, <2>3, <2>4, <2>5 DEF BelowOwner
<1> QED BY <1>1, <1>3, <1>4, <1>5, Zenon DEF WalkInvariant, Phases

\* The loop of get_nested.
LEMMA NestWalk ==
  ASSUME RootsHaveChildren, WalkInvariant, Nest
  PROVE  WalkInvariant'
<1>1. unit \in Units /\ BelowOwner /\ OwnNested /\ answer = None
  BY DEF WalkInvariant, Nest
<1>2. /\ die \in Nat /\ owner \in Nat /\ depth \in Nat
      /\ Len(unit) \in Nat /\ DOMAIN unit = 1 .. Len(unit)
      /\ owner \in DOMAIN unit /\ die \in DOMAIN unit /\ owner < die
      /\ die < Len(unit) /\ die + 1 \in DOMAIN unit /\ owner < die + 1
      /\ \A k \in owner + 1 .. die + 1 : k = die + 1 \/ k \in owner + 1 .. die
  <2>1. /\ owner \in DOMAIN unit /\ die \in DOMAIN unit /\ owner < die
        /\ depth \in Nat /\ DOMAIN unit = 1 .. Len(unit) /\ Len(unit) \in Nat
    BY <1>1, UnitType DEF BelowOwner
  <2>2. die # Len(unit)
    BY <1>1, LastIsNull DEF BelowOwner, IsNull
  <2>3. owner \in 1 .. Len(unit) /\ die \in 1 .. Len(unit)
    BY <2>1
  <2>4. die \in Nat /\ owner \in Nat
    BY <2>1, <2>3
  <2>5. die < Len(unit) /\ die + 1 \in 1 .. Len(unit) /\ owner < die + 1
    BY <2>1, <2>2, <2>3, <2>4
  <2>6. \A k \in owner + 1 .. die + 1 : k = die + 1 \/ k \in owner + 1 .. die
    BY <2>4
  <2> QED BY <2>1, <2>4, <2>5, <2>6
<1>3. /\ unit' = unit /\ owner' = owner /\ die' = die + 1 /\ answer' = None
      /\ phase' \in {"nesting", "nested"}
  BY <1>1 DEF Nest, Incremented
<1>4. /\ Level(unit, die) \in Int /\ Level(unit, owner) \in Int
      /\ Level(unit, die + 1) = Level(unit, die)
           + (IF unit[die].kids THEN 1 ELSE 0)
           - (IF unit[die].tag = "null" THEN 1 ELSE 0)
  BY <1>1, <1>2, LevelNext
<1>5. unit[die].tag = "null" => ~unit[die].kids
  BY <1>1, <1>2, UnitsAssumption DEF IsUnit
<1>6. OwnNested'
  <2>1. CASE unit[die].tag = "null"
    BY <1>1, <1>2, <1>3, <2>1 DEF Nest, OwnNested, Descendants
  <2>2. CASE unit[die].tag # "null"
    <3>1. die \in Descendants(owner)
      BY <1>1, <1>2, <2>2 DEF Descendants, BelowOwner
    <3>2. nested' = Append(nested, die) /\ nested \in Seq(Nat)
      BY <1>1, <2>2 DEF Nest, OwnNested
    <3>3. /\ nested' \in Seq(Nat) /\ Len(nested) \in Nat
          /\ DOMAIN nested' = 1 .. Len(nested) + 1
          /\ DOMAIN nested = 1 .. Len(nested)
          /\ nested'[Len(nested) + 1] = die
          /\ \A k \in 1 .. Len(nested) : nested'[k] = nested[k]
      BY <1>2, <3>2, AppendProperties
    <3>4. ASSUME NEW k \in 1 .. Len(nested) + 1
          PROVE  nested'[k] \in Descendants(owner)
      <4>1. CASE k = Len(nested) + 1
        BY <3>1, <3>3, <4>1
      <4>2. CASE k # Len(nested) + 1
        <5>1. k \in 1 .. Len(nested)
          BY <3>3, <4>2
        <5> QED BY <1>1, <3>3, <5>1 DEF OwnNested
      <4> QED BY <4>1, <4>2
    <3>5. Descendants(owner)' = Descendants(owner)
      BY <1>3 DEF Descendants
    <3> QED BY <1>2, <1>3, <3>3, <3>4, <3>5 DEF OwnNested
  <2> QED BY <2>1, <2>2
<1>7. ASSUME phase' = "nesting" PROVE BelowOwner'
  <2>1. ~IsNull(die)' /\ depth' > 0
    BY <1>3, <1>7 DEF Nest, NestingGoesOn, IsNull
  <2>2. depth' \in Int
        /\ depth' = depth + (IF unit[die].kids THEN 1 ELSE 0)
                      - (IF unit[die].tag = "null" THEN 1 ELSE 0)
    BY <1>2, <1>5 DEF Nest
  <2>3. Level(unit, die) = Level(unit, owner) + 1 + depth
    BY <1>1 DEF BelowOwner
  <2>4. Level(unit, die + 1) = Level(unit, owner) + 1 + depth'
    <3> DEFINE up == IF unit[die].kids THEN 1 ELSE 0
               down == IF unit[die].tag = "null" THEN 1 ELSE 0
               from == Level(unit, die)
               base == Level(unit, owner)
    <3>1. up \in Int /\ down \in Int /\ depth \in Int
      BY <1>2
    <3>2. from \in Int /\ base \in Int /\ Level(unit, die + 1) = from + up - down
      BY <1>4
    <3>3. depth' = depth + up - down /\ from = base + 1 + depth
      BY <2>2, <2>3
    <3> HIDE DEF up, down, from, base
    <3>4. Level(unit, die + 1) = base + 1 + depth'
      BY <3>1, <3>2, <3>3
    <3> QED BY <3>4 DEF base
  <2>5. Level(unit, die + 1) > Level(unit, owner)
    BY <1>4, <2>1, <2>2, <2>4
  <2>6. \A k \in owner + 1 .. die : Level(unit, k) > Level(unit, owner)
    BY <1>1 DEF BelowOwner
  <2>7. \A k \in owner + 1 .. die + 1 : Level(unit, k) > Level(unit, owner)
    BY <1>2, <2>5, <2>6
  <2>8. depth' \in Nat
    BY <2>1, <2>2
  <2> QED BY <1>2, <1>3, <2>1, <2>4, <2>7, <2>8 DEF BelowOwner
<1> QED BY <1>1, <1>3, <1>6, <1>7, Zenon DEF WalkInvariant, Phases

LEMMA NextWalk ==
  ASSUME RootsHaveChildren, WalkInvariant, [Next]_vars
  PROVE  WalkInvariant'
<1>1. CASE Search
  BY <1>1, Zenon DEF Search, WalkInvariant, Phases, OwnNested, Descendants
<1>2. CASE UNCHANGED vars
  BY <1>2
     DEF vars, WalkInvariant, FilteredTo, Tagged, BelowOwner, IsNull, OwnNested,
         Descendants
<1> QED
  BY <1>1, <1>2, FilterVisitWalk, FilterEndsWalk, GetNestedWalk, NestWalk DEF Next

THEOREM SpecWalk == ASSUME RootsHaveChildren PROVE Spec => []WalkInvariant
<1>1. WalkInvariant /\ [Next]_vars => WalkInvariant'
  BY NextWalk
<1> QED BY <1>1, InitWalk, PTL DEF Spec

\* The search of variable_location.
LEMMA SearchFindsVariable ==
  ASSUME LocatedAreNamed, WalkInvariant, Search
  PROVE  AnswerIsTheVariable'
<1>0. unit \in Units /\ OwnNested
  BY DEF WalkInvariant, Search
<1> DEFINE Stops == {k \in DOMAIN nested : StopsAt(nested[k])}
           first == nested[Min(Stops)]
<1>1. /\ unit' = unit /\ owner' = owner
      /\ answer' = IF Stops # {} /\ unit[first].located THEN first ELSE Undefined
  BY DEF Search
<1>2. Undefined \notin DOMAIN unit
  BY <1>0, UnitType DEF Undefined
<1> SUFFICES ASSUME Stops # {}, unit[first].located
             PROVE  first \in Descendants(owner) /\ unit[first].name = Variable
  BY <1>1, <1>2 DEF AnswerIsTheVariable, Descendants
<1>3. DOMAIN nested = 1 .. Len(nested) /\ Len(nested) \in Nat
  BY <1>0 DEF OwnNested
<1>4. Stops \in SUBSET Int /\ \A k \in Stops : 1 <= k
  BY <1>3
<1>5. Min(Stops) \in Stops
  <2> HIDE DEF Stops
  <2> QED BY <1>4, MinIsLeast
<1>6. first \in Descendants(owner) /\ StopsAt(first)
  BY <1>0, <1>5 DEF OwnNested
<1>7. first \in DOMAIN unit
  BY <1>0, <1>6, UnitType DEF OwnNested, Descendants
<1>8. unit[first].name # ""
  BY <1>0, <1>7 DEF LocatedAreNamed
<1> QED BY <1>6, <1>8 DEF StopsAt

LEMMA NextAnswer ==
  ASSUME LocatedAreNamed, WalkInvariant, WalkInvariant', AnswerIsTheVariable,
         [Next]_vars
  PROVE  AnswerIsTheVariable'
<1>1. CASE FilterVisit \/ FilterEnds \/ GetNested \/ Nest
  <2>1. unit' \in Units /\ answer' = None
    BY <1>1 DEF WalkInvariant, FilterVisit, FilterEnds, GetNested, Nest
  <2>2. None \notin DOMAIN unit'
    BY <2>1, UnitType DEF None
  <2> QED BY <2>1, <2>2 DEF AnswerIsTheVariable
<1>2. CASE UNCHANGED vars
  BY <1>2 DEF vars, AnswerIsTheVariable, Descendants
<1> QED BY <1>1, <1>2, SearchFindsVariable DEF Next
-----------------------------------------------------------------------------
(* The walk over a compile unit ends with the unit, whatever its size and  *)
(* shape, where the root has children (die.h:107).                         *)
THEOREM WalksStayInUnit ==
  ASSUME RootsHaveChildren
  PROVE  Spec => []WalkStaysInUnit
<1>1. WalkInvariant => WalkStaysInUnit
  BY DEF WalkInvariant, WalkStaysInUnit
<1> QED BY <1>1, SpecWalk, PTL

(* filter_die_by_tag returns every subprogram of the unit, once and in     *)
(* order.                                                                  *)
THEOREM FilterIsComplete ==
  ASSUME RootsHaveChildren
  PROVE  Spec => []FilterFindsAll
<1>1. WalkInvariant => FilterFindsAll
  <2> SUFFICES ASSUME WalkInvariant PROVE FilterFindsAll
    OBVIOUS
  <2>1. {i \in Tagged("subprogram") : i <= Len(unit)} = Tagged("subprogram")
    BY UnitType DEF WalkInvariant, Tagged
  <2> QED BY <2>1 DEF WalkInvariant, FilterFindsAll, FilteredTo
<1> QED BY <1>1, SpecWalk, PTL

(* get_nested returns entries below the one it is called for only: a       *)
(* variable of another function is never among them.                       *)
THEOREM NestedBelongToOwner ==
  ASSUME RootsHaveChildren
  PROVE  Spec => []NestedAreOwn
<1>1. WalkInvariant => NestedAreOwn
  BY DEF WalkInvariant, OwnNested, NestedAreOwn
<1> QED BY <1>1, SpecWalk, PTL

(* The location variable_location takes is that of a variable with the     *)
(* name it was asked for, of the subprogram it looked in.                  *)
THEOREM TheVariableIsFound ==
  ASSUME RootsHaveChildren, LocatedAreNamed
  PROVE  Spec => []AnswerIsTheVariable
<1>1. Init => AnswerIsTheVariable
  <2>1. Init => None \notin DOMAIN unit
    BY UnitType DEF Init, None
  <2> QED BY <2>1 DEF Init, AnswerIsTheVariable
<1>2. /\ WalkInvariant /\ WalkInvariant' /\ AnswerIsTheVariable /\ [Next]_vars
      => AnswerIsTheVariable'
  BY NextAnswer
<1> QED BY <1>1, <1>2, SpecWalk, PTL DEF Spec
=============================================================================
