---------------------------- MODULE MCDieReader ----------------------------
(***************************************************************************)
(* Sections for TLC to read, written as a compiler writes them.            *)
(***************************************************************************)
EXTENDS DieReader

Strings == <<"main.cpp", "f", "g", "x", "y">>

\* n in k bytes of four bits, and in a ULEB128 number of one or two.
Bytes(n, k) == [i \in 1 .. k |-> (n \div 16^(i - 1)) % 16]
Number(n) == IF n < 8 THEN <<n>> ELSE <<8 + (n % 8), n \div 8>>

Offset(is_64bit, n) == Bytes(n, IF is_64bit THEN 8 ELSE 4)

Value(form, bytes) == [form |-> form, bytes |-> bytes]

Named(at, value) == [at |-> at, form |-> value.form, bytes |-> value.bytes]

\* A value of each form that has a size, with bytes that could be codes.
Plain(is_64bit) ==
  {Value("flag_present", << >>), Value("sdata", <<9, 15, 7>>),
   Value("udata", <<8, 1>>), Value("block", <<9, 1>> \o [i \in 1 .. 9 |-> 1]),
   Value("exprloc", <<2, 9, 1>>), Value("block1", <<3, 1, 9, 1>>),
   Value("block2", <<1, 1>> \o [i \in 1 .. 17 |-> 1]),
   Value("block4", <<2, 0, 0, 0, 1, 9>>)}
  \cup {Value(f, <<9>>) : f \in {"data1", "flag", "ref1"}}
  \cup {Value(f, Bytes(25, 2)) : f \in {"data2", "ref2"}}
  \cup {Value(f, Bytes(25, 4)) : f \in {"data4", "ref4"}}
  \cup {Value(f, Bytes(25, 8)) : f \in {"addr", "data8", "ref8"}}
  \cup {Value(f, Offset(is_64bit, 1)) : f \in {"strp", "ref_addr", "sec_offset"}}

Unread == {Value("string", <<1, 0>>), Value("ref_udata", <<9, 1>>),
           Value("ref_sig8", Bytes(1, 8))}

Null == [tag |-> "null", kids |-> FALSE, name |-> "", attributes |-> << >>]

Entry(tag, kids, name, attributes) ==
  [tag |-> tag, kids |-> kids, name |-> name, attributes |-> attributes]

\* The entries of a unit: other is an attribute nobody asks for, from where
\* its functions lie, high the form of their ends; string: the name of x is
\* in line, as gcc writes names that are shorter than an offset.
Entries(is_64bit, other, from, high, string) ==
  LET Strp(n) == Value("strp", Offset(is_64bit, n))
      Other == Named("other", other)
      Variables(v, value) ==
        Entry("variable", FALSE, v, <<Other, Named("name", value),
                                      Named("location", Value("exprloc", <<1, 9>>))>>)
      x == Variables("x", IF string THEN Value("string", <<4, 0>>) ELSE Strp(4))
      y == Variables("y", Strp(5))
      Function(name, low, size) ==
        Entry("subprogram", TRUE, Strings[name],
              <<Named("name", Strp(name)), Other,
                Named("low_pc", Value("addr", Bytes(low, 8))),
                Named("high_pc", Value(high, IF high = "addr" THEN Bytes(low + size, 8)
                                             ELSE IF high = "data4" THEN Bytes(size, 4)
                                             ELSE Bytes(size, 8)))>>)
      block == Entry("lexical_block", TRUE, "", <<Other>>)
  IN  <<Entry("compile_unit", TRUE, "main.cpp", <<Other, Named("name", Strp(1))>>),
        Function(2, from, 2), block, y, x, Null, Null,
        Function(3, from + 18, 3), x, y, Null, Null>>

\* Every entry has a declaration of its own, some with a code of two bytes.
CodeOf(i) == (<<9, 1, 2, 12, 8, 3, 4, 10, 5, 6, 7, 11>>)[i]

DeclarationOf(es, i) ==
  Declaration(CodeOf(i), es[i].tag, es[i].kids,
    [k \in DOMAIN es[i].attributes |->
       [at |-> es[i].attributes[k].at, form |-> es[i].attributes[k].form]])

\* In an order that is not that of the codes.
TableOf(es) == Reverse([i \in DOMAIN es |-> DeclarationOf(es, i)])

CodeBytes(es, i) == IF es[i].tag = "null" THEN <<0>> ELSE Number(CodeOf(i))

Data(es, i, k) == FlattenSeq([j \in 1 .. k |-> es[i].attributes[j].bytes])

AllData(es, i) == Data(es, i, Len(es[i].attributes))

EntryBytes(es, n) == FlattenSeq([i \in 1 .. n |-> CodeBytes(es, i) \o AllData(es, i)])

Header(is_64bit, length, table) ==
  (IF is_64bit THEN <<15, 15, 15, 15>> ELSE << >>)
    \o Offset(is_64bit, length + (IF is_64bit THEN 11 ELSE 7))
    \o Bytes(4, 2) \o Offset(is_64bit, table) \o <<8>>

UnitBytes(is_64bit, es, table) ==
  Header(is_64bit, Len(EntryBytes(es, Len(es))), table) \o EntryBytes(es, Len(es))

\* The entries, with their positions, of a unit that starts behind base.
Source(is_64bit, es, base) ==
  [i \in DOMAIN es |->
    LET start == base + Len(Header(is_64bit, 0, 0)) + Len(EntryBytes(es, i - 1))
                   + Len(CodeBytes(es, i)) + 1
    IN  [tag |-> es[i].tag, kids |-> es[i].kids, name |-> es[i].name,
         located |-> es[i].tag = "variable", data |-> Len(AllData(es, i)),
         start |-> start,
         attributes |-> [k \in DOMAIN es[i].attributes |->
                           start + Len(Data(es, i, k - 1))]]]

\* Two units, each with a table of its own.
Section(is_64bit, first, second) ==
  LET one == UnitBytes(is_64bit, first, 0)
      two == UnitBytes(FALSE, second, Len(first))
  IN  [info |-> one \o two \o [i \in 1 .. 30 |-> 0],
       size |-> Len(one) + Len(two),
       abbrev |-> TableOf(first) \o TableOf(second),
       str |-> Strings,
       source |-> <<Source(is_64bit, first, 0), Source(FALSE, second, Len(one))>>]

Byte1 == Value("data1", <<1>>)

\* Its second unit is always the same.
Written(is_64bit, other, from, high, string) ==
  Section(is_64bit, Entries(is_64bit, other, from, high, string),
          Entries(FALSE, Byte1, 2, "data4", FALSE))

WellRead ==
  UNION {{Written(b, other, 2, high, FALSE) :
            other \in Plain(b), high \in {"addr", "data4"}} : b \in BOOLEAN}

NameInLine == {Written(FALSE, Byte1, 2, "data4", TRUE)}

SizeOfEight == {Written(FALSE, Byte1, 2, "data8", FALSE)}

NotRead == NameInLine \cup SizeOfEight
             \cup {Written(FALSE, other, 2, "data4", FALSE) : other \in Unread}

AllSections == WellRead \cup NotRead

HighAddresses == {Written(FALSE, Byte1, 65536, "data4", FALSE)}

Counters == {3, 21, 40}
=============================================================================
