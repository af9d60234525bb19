-------------------------- MODULE DeviceModelProofs --------------------------
(***************************************************************************)
(* The safety of DeviceModel, proved for every choice of types, cells,     *)
(* books, settings and counters.                                           *)
(*                                                                         *)
(* The configuration first: ConfigurationInv says after each parser what   *)
(* the members are, what the parsers still to run rely on, and carries     *)
(* DimmersFollowOutputs and CoversOwnOutputs.                              *)
(*                                                                         *)
(* Then the values.  Aims: a status reads attributes the module has, each  *)
(* once.  Honest: a step notifies the member whose attributes it sets.     *)
(* With both ValuesInv is inductive, and every change is heard; with the   *)
(* first, CleanInv is, and a status read again is quiet.                   *)
(***************************************************************************)
EXTENDS DeviceModel, ListsProofs, SequenceTheorems, FiniteSetTheorems, TLAPS

\* _module_kind: a type the library builds is of one of these kinds.
Kinds == {"controller", "mini", "out", "dimm", "io2", "in", "detect", "nature", "sensor",
          "ekey", "gsm"}

\* Every type of the instance is of one of the kinds build_module knows.
LEMMA KindOf ==
  ASSUME type \in Types
  PROVE  Kind[type] \in Kinds
  BY DeviceAssumption DEF Kind, Kinds

\* build_module creates the dimmers and covers of these kinds only, the dimmers behind
\* the outputs of no cover.
LEMMA SizesOfOutputs ==
  ASSUME type \in Types
  PROVE  /\ Is("controller") => Size("dimmers") = 2 /\ Size("covers") = 5 /\ Size("outputs") = 16
                                /\ Size("analog_outputs") = 1
         /\ Is("dimm") => Size("dimmers") = 4 /\ Size("covers") = 0 /\ Size("outputs") = 4
         /\ ~Is("controller") /\ ~Is("dimm") => Size("dimmers") = 0
         /\ Is("io2") => Size("covers") = 1 /\ Size("outputs") = 2
         /\ Is("out") => Size("covers") = 4 /\ Size("outputs") = 8
         /\ ~Is("controller") /\ ~Is("io2") /\ ~Is("out") => Size("covers") = 0
  <1>1. Is("controller") => Size("dimmers") = 2 /\ Size("covers") = 5 /\ Size("outputs") = 16
                            /\ Size("analog_outputs") = 1
    BY DEF Is, Size, Sizes
  <1>2. Is("dimm") => Size("dimmers") = 4 /\ Size("covers") = 0 /\ Size("outputs") = 4
    BY DEF Is, Size, Sizes
  <1>3. Is("io2") => Size("covers") = 1 /\ Size("outputs") = 2 /\ Size("dimmers") = 0
    BY DEF Is, Size, Sizes
  <1>4. Is("out") => Size("covers") = 4 /\ Size("outputs") = 8 /\ Size("dimmers") = 0
    BY DEF Is, Size, Sizes
  <1>5. Is("mini") \/ Is("in") \/ Is("detect") \/ Is("nature") \/ Is("sensor") \/ Is("ekey") \/ Is("gsm")
        => Size("covers") = 0 /\ Size("dimmers") = 0
    BY DEF Is, Size, Sizes
  <1>6. Is("controller") \/ Is("dimm") \/ Is("io2") \/ Is("out") \/ Is("mini") \/ Is("in")
        \/ Is("detect") \/ Is("nature") \/ Is("sensor") \/ Is("ekey") \/ Is("gsm")
    BY KindOf DEF Is, Kinds
  <1>7. Is("controller") => ~Is("dimm") /\ ~Is("io2") /\ ~Is("out")
    BY DEF Is
  <1>8. Is("dimm") => ~Is("io2") /\ ~Is("out")
    BY DEF Is
  <1> QED  BY <1>1, <1>2, <1>3, <1>4, <1>5, <1>6, <1>7, <1>8

\* build_module creates a number of members for every list, none for a list it does not know.
LEMMA SizeIsNat ==
  ASSUME type \in Types, NEW list
  PROVE  Size(list) \in Nat
  <1>1. CASE list = "analogins" \/ (list = "color_leds" /\ type = "Touch")
    BY <1>1 DEF Size
  <1>2. CASE list # "analogins" /\ ~(list = "color_leds" /\ type = "Touch")
    <2>1. Size(list) = IF list \in DOMAIN Sizes[Kind[type]] THEN Sizes[Kind[type]][list] ELSE 0
      BY <1>2 DEF Size
    <2>2. ASSUME list \in DOMAIN Sizes[Kind[type]]  PROVE Sizes[Kind[type]][list] \in Nat
      BY <2>2, KindOf DEF Kinds, Sizes
    <2> QED  BY <2>1, <2>2
  <1> QED  BY <1>1, <1>2

\* The members of some lists.
LEMMA MembersAre ==
  ASSUME NEW lists, NEW m
  PROVE  m \in MembersOf(lists) <=> \E list \in lists : \E i \in 0..(Size(list) - 1) : m = <<list, i>>
  BY DEF MembersOf

\* The members of one list.
LEMMA MembersOfOne ==
  ASSUME NEW list, NEW m
  PROVE  m \in MembersOf({list}) <=> \E i \in 0..(Size(list) - 1) : m = <<list, i>>
  BY MembersAre

\* The members the parsers configure.
ConfiguredLists == {"inputs", "analogins", "outputs", "analog_outputs", "dimmers", "covers"}

\* The members with a configuration, list by list.
LEMMA ConfiguredAre ==
  ASSUME NEW m
  PROVE  m \in Configured <=>
            \E list \in ConfiguredLists : \E i \in 0..(Size(list) - 1) : m = <<list, i>>
  BY MembersAre DEF Configured, ConfiguredLists

-------------------------------------------------------------------------------
(***************************************************************************)
(* The parsers of the definitions and the settings: DimmersFollowOutputs   *)
(* and CoversOwnOutputs.                                                   *)
(***************************************************************************)
IsConfiguration(r) ==
    /\ r = [name |-> r.name, type |-> r.type, nmbr |-> r.nmbr]
    /\ r.type \in Int /\ r.nmbr \in Int

\* A configuration for each configured member and for nothing else.
MemberTable(mem) ==
    /\ DOMAIN mem = Configured /\ mem = [m \in Configured |-> mem[m]]
    /\ \A m \in Configured : IsConfiguration(mem[m])

\* What the parsers write into a member.
LEMMA WrittenIs ==
  ASSUME NEW name, NEW typ \in Int, NEW nmbr \in Int, NEW r,
         r = [name |-> name, type |-> typ, nmbr |-> nmbr]
  PROVE  IsConfiguration(r) /\ r.name = name /\ r.type = typ /\ r.nmbr = nmbr
  BY DEF IsConfiguration

\* What a parser's update of one or two of a member's fields leaves in the others.
LEMMA RewrittenIs ==
  ASSUME NEW r, IsConfiguration(r), NEW name, NEW typ \in Int
  PROVE  /\ [r EXCEPT !.name = name] = [name |-> name, type |-> r.type, nmbr |-> r.nmbr]
         /\ [r EXCEPT !.type = typ] = [name |-> r.name, type |-> typ, nmbr |-> r.nmbr]
         /\ [r EXCEPT !.name = name, !.type = typ] = [name |-> name, type |-> typ, nmbr |-> r.nmbr]
  <1> DEFINE a == r.name  b == r.type  c == r.nmbr
  <1>1. r = [name |-> a, type |-> b, nmbr |-> c]  BY DEF IsConfiguration
  <1> HIDE DEF a, b, c
  <1>2. [r EXCEPT !.name = name] = [name |-> name, type |-> b, nmbr |-> c]  BY <1>1
  <1>3. [r EXCEPT !.type = typ] = [name |-> a, type |-> typ, nmbr |-> c]  BY <1>1
  <1>40. [r EXCEPT !.name = name, !.type = typ] = [[r EXCEPT !.name = name] EXCEPT !.type = typ]
    OBVIOUS
  <1>4. [r EXCEPT !.name = name, !.type = typ] = [name |-> name, type |-> typ, nmbr |-> c]
    <2> DEFINE named == [r EXCEPT !.name = name]
    <2>1. named = [name |-> name, type |-> b, nmbr |-> c]  BY <1>2
    <2>2. [r EXCEPT !.name = name, !.type = typ] = [named EXCEPT !.type = typ]  BY <1>40
    <2> HIDE DEF named
    <2>3. [named EXCEPT !.type = typ] = [name |-> name, type |-> typ, nmbr |-> c]  BY <2>1
    <2> QED  BY <2>2, <2>3
  <1> QED  BY <1>2, <1>3, <1>4 DEF a, b, c

\* What parse_settings writes into a configured cover.
LEMMA RenumberedIs ==
  ASSUME NEW r, IsConfiguration(r), NEW nmbr
  PROVE  [r EXCEPT !.nmbr = nmbr, !.type = 1] = [name |-> r.name, type |-> 1, nmbr |-> nmbr]
  <1> DEFINE a == r.name  b == r.type  c == r.nmbr  numbered == [r EXCEPT !.nmbr = nmbr]
  <1>1. r = [name |-> a, type |-> b, nmbr |-> c]  BY DEF IsConfiguration
  <1> HIDE DEF a, b, c
  <1>2. numbered = [name |-> a, type |-> b, nmbr |-> nmbr]  BY <1>1
  <1>3. [r EXCEPT !.nmbr = nmbr, !.type = 1] = [numbered EXCEPT !.type = 1]  OBVIOUS
  <1> HIDE DEF numbered
  <1>4. [numbered EXCEPT !.type = 1] = [name |-> a, type |-> 1, nmbr |-> nmbr]  BY <1>2
  <1> QED  BY <1>3, <1>4 DEF a

\* The members behind the relays, whichever kind of module has them.
Outputs == MembersOf({"outputs"})

\* The last output of a controller is the analogue output, configured on its own.
Plain(o) == o \in Outputs /\ o # <<"outputs", 15>>

\* An output is one of the configured members.
LEMMA OutputsAre ==
  ASSUME NEW o
  PROVE  o \in Outputs <=> o \in Configured /\ o[1] = "outputs"
  BY MembersOfOne, ConfiguredAre DEF Outputs, ConfiguredLists

\* A dimmer is one of the configured members.
LEMMA DimmersAre ==
  ASSUME NEW d
  PROVE  d \in MembersOf({"dimmers"}) <=> d \in Configured /\ d[1] = "dimmers"
  BY MembersOfOne, ConfiguredAre DEF ConfiguredLists

\* A cover is one of the configured members.
LEMMA CoversAre ==
  ASSUME NEW c
  PROVE  <<"covers", c>> \in Configured <=> c \in 0..(Size("covers") - 1)
  BY ConfiguredAre DEF ConfiguredLists

\* A configured member is known by its list and a place in it.
LEMMA PlaceIsNat ==
  ASSUME type \in Types, NEW m \in Configured
  PROVE  m[2] \in Nat /\ m[1] \in ConfiguredLists /\ m = <<m[1], m[2]>>
  BY ConfiguredAre, SizeIsNat

\* The output behind a dimmer is there, is no analogue output, and lies behind the
\* outputs of the covers.
LEMMA BackingIsPlain ==
  ASSUME type \in Types, NEW d \in MembersOf({"dimmers"})
  PROVE  Plain(Backing(d[2])) /\ Backing(d[2])[1] = "outputs"
         /\ Backing(d[2])[2] \div 2 \notin 0..(Size("covers") - 1)
  <1>1. PICK i \in 0..(Size("dimmers") - 1) : d = <<"dimmers", i>>  BY MembersOfOne
  <1>2. d[2] = i  BY <1>1
  <1>3. CASE Is("controller")
    <2>1. i \in 0..1 /\ Size("outputs") = 16 /\ Size("covers") = 5  BY <1>1, <1>3, SizesOfOutputs
    <2>2. Backing(d[2]) = <<"outputs", 10 + i>>  BY <1>2, <1>3 DEF Backing
    <2>3. 10 + i \in 0..15 /\ 10 + i # 15 /\ (10 + i) \div 2 = 5  BY <2>1
    <2> QED  BY <2>1, <2>2, <2>3, MembersOfOne DEF Plain, Outputs
  <1>4. CASE ~Is("controller")
    <2>1. Is("dimm")  BY <1>1, <1>4, SizesOfOutputs
    <2>2. i \in 0..3 /\ Size("outputs") = 4 /\ Size("covers") = 0  BY <1>1, <2>1, SizesOfOutputs
    <2>3. Backing(d[2]) = <<"outputs", i>>  BY <1>2, <1>4 DEF Backing
    <2>4. i # 15 /\ i \in 0..3  BY <2>2
    <2> QED  BY <2>2, <2>3, <2>4, MembersOfOne DEF Plain, Outputs
  <1> QED  BY <1>3, <1>4

\* build_module numbers every member by its place, but the covers, and a label may
\* wrap an output.
Numbered(mem) ==
    \A m \in Configured : \/ mem[m].nmbr = IF m[1] = "covers" THEN -1 ELSE m[2]
                          \/ IsWrapped(m, mem[m].nmbr)

\* The members with a label that cannot wrap, or none that does.
Straight(mem) ==
    \A m \in Configured : mem[m].nmbr = IF m[1] = "covers" THEN -1 ELSE m[2]

\* build_module numbers the members by their places, and names no output.
LEMMA BuiltTable ==
  ASSUME type \in Types
  PROVE  /\ MemberTable(Built) /\ Straight(Built) /\ Numbered(Built)
         /\ \A o \in Outputs : Built[o].name = "" /\ Built[o].type \in {1, 2}
  <1>1. \A m \in Configured : BuiltType(m) \in Int
    <2> SUFFICES ASSUME NEW m \in Configured  PROVE BuiltType(m) \in Int  OBVIOUS
    <2>1. m[1] \in ConfiguredLists  BY PlaceIsNat
    <2> QED  BY <2>1 DEF BuiltType, ConfiguredLists
  <1>2. \A m \in Configured : m[2] \in Int  BY PlaceIsNat
  <1>3. MemberTable(Built)
    <2>1. \A m \in Configured : IsConfiguration(Built[m])
      <3> TAKE m \in Configured
      <3> DEFINE nmbr == IF m[1] = "covers" THEN -1 ELSE m[2]
                 typ == BuiltType(m)
                 name == ""
                 new == Built[m]
      <3>1. nmbr \in Int /\ typ \in Int  BY <1>1, <1>2
      <3>2. new = [name |-> name, type |-> typ, nmbr |-> nmbr]  BY DEF Built
      <3> HIDE DEF nmbr, typ, name, new
      <3>3. IsConfiguration(new)  BY <3>1, <3>2, WrittenIs
      <3> QED  BY <3>3 DEF new
    <2>2. Built = [m \in Configured |-> Built[m]]  BY DEF Built
    <2> QED  BY <2>1, <2>2 DEF MemberTable
  <1>4. Straight(Built) /\ Numbered(Built)  BY DEF Built, Straight, Numbered
  <1>5. \A o \in Outputs : BuiltType(o) \in {1, 2}  BY OutputsAre DEF BuiltType
  <1>6. \A o \in Outputs : Built[o].name = "" /\ Built[o].type \in {1, 2}
    BY <1>5, OutputsAre DEF Built
  <1> QED  BY <1>3, <1>4, <1>6

\* What holds of the members step by step while the definitions are parsed: labelled or
\* not yet, then labelled or disabled.
Labels(mem) == \A o : Plain(o) => mem[o].type \in {1, 2} /\ mem[o].name # "default"

\* Once the defaults are named an output is labelled, or it is disabled and carries the default.
Roles(mem) ==
    \A o : Plain(o) => \/ mem[o].type \in {1, 2} /\ mem[o].name # "default"
                       \/ mem[o].type \in {-1, -2} /\ mem[o].name = "default"

\* _process_descriptor_label: the last label of a member counts.
LEMMA LabelledTable ==
  ASSUME type \in Types, member = Built, NEW book \in Books[type]
  PROVE  MemberTable(Labelled(book)) /\ Numbered(Labelled(book)) /\ Labels(Labelled(book))
  <1> DEFINE mine(m) == {i \in 1..Len(book) : Target(book[i]) = m}
             last(m) == CHOOSE i \in mine(m) : \A j \in mine(m) : j <= i
             isOut(m) == m[1] = "outputs" /\ Is("out")
             typed(m) == m[1] = "inputs" \/ isOut(m)
             mem == Labelled(book)
  <1>1. /\ book \in Seq([code : Nat, text : STRING]) /\ Len(book) \in Nat
        /\ \A i \in 1..Len(book) : book[i].text # "default"
    BY DeviceAssumption
  <1>11. \A i \in 1..Len(book) : book[i] \in [code : Nat, text : STRING]
    <2> DEFINE lines == [code : Nat, text : STRING]
    <2>1. book \in Seq(lines)  BY <1>1
    <2> HIDE DEF lines
    <2>2. \A i \in 1..Len(book) : book[i] \in lines  BY <2>1
    <2> QED  BY <2>2 DEF lines
  <1>12. \A i \in 1..Len(book) : book[i].code \in Nat  BY <1>11
  <1>2. ASSUME NEW m, mine(m) # {}  PROVE last(m) \in 1..Len(book)
    <2>1. mine(m) \in SUBSET (1..Len(book))  OBVIOUS
    <2> HIDE DEF mine
    <2>2. \E i \in mine(m) : \A j \in mine(m) : j <= i  BY <1>1, <1>2, <2>1, LastPosition
    <2> QED  BY <2>1, <2>2
  <1>3. \A m \in Configured :
            mem[m] = IF mine(m) = {} THEN Built[m]
                     ELSE [name |-> book[last(m)].text,
                           type |-> IF typed(m) THEN 1 ELSE Built[m].type,
                           nmbr |-> IF isOut(m) THEN book[last(m)].code - 60 ELSE Built[m].nmbr]
    BY DEF Labelled
  <1>4. DOMAIN mem = Configured /\ mem = [m \in Configured |-> mem[m]]  BY DEF Labelled
  <1>41. ASSUME NEW m \in Configured, mine(m) # {}, isOut(m)
         PROVE  book[last(m)].code - 60 = m[2] \/ IsWrapped(m, book[last(m)].code - 60)
    <2>1. mine(m) \in SUBSET (1..Len(book))  OBVIOUS
    <2> HIDE DEF mine
    <2>2. \E i \in mine(m) : \A j \in mine(m) : j <= i  BY <1>1, <1>41, <2>1, LastPosition
    <2>3. last(m) \in mine(m)  BY <2>2
    <2> USE DEF mine
    <2> DEFINE l == book[last(m)]
    <2>31. l.code \in Nat  BY <1>12, <1>41, <1>2
    <2>32. Target(l) = m  BY <2>3
    <2>4. l.code \in Nat /\ Target(l) = m  BY <2>31, <2>32
    <2> HIDE DEF l, mine, last
    <2>5. m[2] = IF l.code \in 52..59 THEN l.code - 52 ELSE l.code - 60
      BY <2>4, <1>41 DEF Target
    <2>6. l.code - 60 = m[2] \/ l.code - 60 = m[2] - 8  BY <2>4, <2>5
    <2> QED  BY <1>41, <2>6 DEF IsWrapped, l
  <1> HIDE DEF mem, mine, last, typed, isOut
  <1>5. \A m \in Configured :
            /\ IsConfiguration(Built[m])
            /\ Built[m].nmbr = IF m[1] = "covers" THEN -1 ELSE m[2]
    BY BuiltTable DEF MemberTable, Straight
  <1>6. \A m \in Configured :
            /\ IsConfiguration(mem[m])
            /\ mem[m].nmbr = Built[m].nmbr \/ mem[m].nmbr = m[2] \/ IsWrapped(m, mem[m].nmbr)
            /\ isOut(m) \/ mem[m].nmbr = Built[m].nmbr
            /\ mem[m].type \in {Built[m].type, 1}
            /\ mem[m].name = Built[m].name \/ mem[m].name # "default"
    <2> TAKE m \in Configured
    <2>1. CASE mine(m) = {}
      BY <2>1, <1>3, <1>5
    <2>2. CASE mine(m) # {}
      <3> DEFINE typ == IF typed(m) THEN 1 ELSE Built[m].type
                 text == book[last(m)].text
                 n == IF isOut(m) THEN book[last(m)].code - 60 ELSE Built[m].nmbr
                 new == mem[m]
      <3>1. last(m) \in 1..Len(book)  BY <2>2, <1>2
      <3>2. book[last(m)].text # "default" /\ book[last(m)].code \in Nat
        BY <3>1, <1>1, <1>12
      <3>30. IsConfiguration(Built[m])  BY <1>5
      <3>31. Built[m].type \in Int /\ Built[m].nmbr \in Int  BY <3>30 DEF IsConfiguration
      <3>3. typ \in Int /\ typ \in {Built[m].type, 1} /\ Built[m].nmbr \in Int
        BY <3>31
      <3>4. new = [name |-> text, type |-> typ, nmbr |-> n]  BY <2>2, <1>3
      <3>41. n \in Int  BY <3>2, <3>3
      <3>42. n = Built[m].nmbr \/ n = m[2] \/ IsWrapped(m, n)  BY <1>41, <2>2
      <3>43. isOut(m) \/ n = Built[m].nmbr  OBVIOUS
      <3> HIDE DEF typ, new, text, n
      <3>6. IsConfiguration(new) /\ new.name = text /\ new.type = typ /\ new.nmbr = n
        BY <3>3, <3>4, <3>41, WrittenIs
      <3> QED  BY <3>2, <3>3, <3>6, <3>42, <3>43 DEF text, new
    <2> QED  BY <2>1, <2>2
  <1>7. MemberTable(mem)  BY <1>4, <1>6 DEF MemberTable
  <1>8. Numbered(mem)
    <2> SUFFICES ASSUME NEW m \in Configured
                 PROVE  \/ mem[m].nmbr = IF m[1] = "covers" THEN -1 ELSE m[2]
                        \/ IsWrapped(m, mem[m].nmbr)
      BY DEF Numbered
    <2>1. m[1] = "covers" => ~isOut(m)  BY DEF isOut
    <2> QED  BY <1>5, <1>6, <2>1
  <1>9. Labels(mem)
    <2>1. \A o \in Outputs : o \in Configured  BY OutputsAre
    <2>2. "" # "default"  OBVIOUS
    <2> QED  BY <2>1, <2>2, <1>6, BuiltTable DEF Labels, Plain
  <1> QED  BY <1>7, <1>8, <1>9 DEF mem

\* The analogue output of a controller takes its name and role from its last output.
LEMMA AnalogTable ==
  ASSUME type \in Types, NEW mem, MemberTable(mem), Numbered(mem), Labels(mem)
  PROVE  MemberTable(WithAnalogOut(mem)) /\ Numbered(WithAnalogOut(mem)) /\ Labels(WithAnalogOut(mem))
  <1> DEFINE new == WithAnalogOut(mem)
  <1>1. CASE ~Is("controller")
    BY <1>1 DEF WithAnalogOut
  <1>2. CASE Is("controller")
    <2> DEFINE written == mem[<<"outputs", 15>>].name
               name == IF written = "" THEN "default" ELSE written
               analog == <<"analog_outputs", 0>>
               behind == <<"outputs", 15>>
    <2>1. analog \in Configured /\ behind \in Configured
      BY <1>2, SizesOfOutputs, ConfiguredAre DEF ConfiguredLists
    <2>2. \A m \in Configured : IsConfiguration(mem[m])
      BY DEF MemberTable
    <2>4. new = [mem EXCEPT ![analog].name = name, ![behind].name = name, ![behind].type = -10]
      BY <1>2 DEF WithAnalogOut
    <2>5. analog # behind  OBVIOUS
    <2>6. mem = [m \in Configured |-> mem[m]]  BY DEF MemberTable
    <2> HIDE DEF name, new, written
    <2>7. DOMAIN new = Configured /\ new = [m \in Configured |-> new[m]]  BY <2>4, <2>6
    <2>51. behind # analog  BY <2>5
    <2> HIDE DEF analog, behind
    <2>8. \A m \in Configured :
            new[m] = IF m = analog THEN [mem[m] EXCEPT !.name = name]
                     ELSE IF m = behind THEN [mem[m] EXCEPT !.name = name, !.type = -10]
                     ELSE mem[m]
      BY <2>1, <2>4, <2>5, <2>6
    <2>9. \A m \in Configured :
            IsConfiguration(new[m]) /\ new[m].nmbr = mem[m].nmbr
      <3> TAKE m \in Configured
      <3>1. IsConfiguration(mem[m]) /\ mem[m].type \in Int /\ mem[m].nmbr \in Int /\ -10 \in Int
        BY <2>2 DEF IsConfiguration
      <3>2. CASE m = analog
        <4>1. new[m] = [name |-> name, type |-> mem[m].type, nmbr |-> mem[m].nmbr]
          BY <3>1, <3>2, <2>8, RewrittenIs
        <4> QED  BY <4>1, <3>1, WrittenIs
      <3>3. CASE m = behind
        <4>0. new[m] = [mem[m] EXCEPT !.name = name, !.type = -10]  BY <3>3, <2>8, <2>51
        <4> DEFINE typ == -10
        <4>1. new[m] = [mem[m] EXCEPT !.name = name, !.type = typ] /\ typ \in Int  BY <4>0
        <4> HIDE DEF typ
        <4>2. new[m] = [name |-> name, type |-> typ, nmbr |-> mem[m].nmbr]
          BY <4>1, <3>1, RewrittenIs
        <4> QED  BY <4>1, <4>2, <3>1, WrittenIs
      <3>4. CASE m # analog /\ m # behind
        BY <3>1, <3>4, <2>8
      <3> QED  BY <3>2, <3>3, <3>4
    <2>10. MemberTable(new)  BY <2>7, <2>9 DEF MemberTable
    <2>11. Numbered(new)  BY <2>9 DEF Numbered
    <2>12. \A o : Plain(o) => o \in Configured /\ o # analog /\ o # behind
      BY OutputsAre DEF Plain, analog, behind
    <2>13. Labels(new)  BY <2>8, <2>12 DEF Labels
    <2> QED  BY <2>10, <2>11, <2>13 DEF new
  <1> QED  BY <1>1, <1>2

\* _set_default_names: an output is disabled exactly when it has no label.
LEMMA DefaultsTable ==
  ASSUME type \in Types, NEW mem, MemberTable(mem), Numbered(mem), Labels(mem)
  PROVE  MemberTable(WithDefaults(mem)) /\ Numbered(WithDefaults(mem)) /\ Roles(WithDefaults(mem))
  <1> DEFINE new == WithDefaults(mem)
  <1>1. DOMAIN new = Configured /\ new = [m \in Configured |-> new[m]]  BY DEF WithDefaults
  <1>2. \A m \in Configured :
            new[m] = IF m[1] \in {"inputs", "outputs"} /\ mem[m].name = ""
                     THEN [name |-> "default", type |-> -mem[m].type, nmbr |-> m[2]]
                     ELSE mem[m]
    BY DEF WithDefaults
  <1>3. \A m \in Configured : IsConfiguration(mem[m])  BY DEF MemberTable
  <1> HIDE DEF new
  <1>4. ASSUME NEW m \in Configured, m[1] \in {"inputs", "outputs"}, mem[m].name = ""
        PROVE  /\ IsConfiguration(new[m]) /\ new[m].nmbr = m[2]
               /\ new[m].name = "default" /\ new[m].type = -mem[m].type
    <2>0. IsConfiguration(mem[m])  BY <1>3
    <2>01. mem[m].type \in Int  BY <2>0 DEF IsConfiguration
    <2>1. -mem[m].type \in Int /\ m[2] \in Int  BY <2>01, PlaceIsNat
    <2>2. new[m] = [name |-> "default", type |-> -mem[m].type, nmbr |-> m[2]]  BY <1>2, <1>4
    <2> QED  BY <2>1, <2>2, WrittenIs
  <1>5. MemberTable(new)  BY <1>1, <1>2, <1>3, <1>4 DEF MemberTable
  <1>6. Numbered(new)
    <2> SUFFICES ASSUME NEW m \in Configured
                 PROVE  \/ new[m].nmbr = IF m[1] = "covers" THEN -1 ELSE m[2]
                        \/ IsWrapped(m, new[m].nmbr)
      BY DEF Numbered
    <2>1. CASE m[1] \in {"inputs", "outputs"} /\ mem[m].name = ""
      <3>1. m[1] # "covers"  BY <2>1
      <3> QED  BY <3>1, <2>1, <1>4
    <2>2. CASE ~(m[1] \in {"inputs", "outputs"} /\ mem[m].name = "")
      BY <2>2, <1>2 DEF Numbered
    <2> QED  BY <2>1, <2>2
  <1>7. \A o : Plain(o) => o \in Configured /\ o[1] = "outputs"  BY OutputsAre DEF Plain
  <1>8. Roles(new)
    <2> SUFFICES ASSUME NEW o, Plain(o)
                 PROVE  \/ new[o].type \in {1, 2} /\ new[o].name # "default"
                        \/ new[o].type \in {-1, -2} /\ new[o].name = "default"
      BY DEF Roles
    <2>1. o \in Configured /\ o[1] = "outputs"  BY <1>7
    <2>2. mem[o].type \in {1, 2} /\ mem[o].name # "default"  BY DEF Labels
    <2>3. CASE mem[o].name = ""
      <3>2. new[o].type = -mem[o].type /\ new[o].name = "default"  BY <1>4, <2>1, <2>3
      <3> QED  BY <3>2, <2>2
    <2>4. CASE mem[o].name # ""
      BY <1>2, <2>1, <2>2, <2>4
    <2> QED  BY <2>3, <2>4
  <1> QED  BY <1>5, <1>6, <1>8 DEF new

\* The dimmers' names and roles are those of their outputs.
Follow(mem) ==
    \A d \in MembersOf({"dimmers"}) :
        /\ mem[d].name = mem[Backing(d[2])].name /\ mem[d].type = mem[Backing(d[2])].type
        /\ (mem[d].type < 0) <=> (mem[Backing(d[2])].name = "default")

\* _make_dimmer.
LEMMA DimmersTable ==
  ASSUME type \in Types, NEW mem, MemberTable(mem), Numbered(mem), Roles(mem)
  PROVE  /\ MemberTable(WithDimmers(mem)) /\ Numbered(WithDimmers(mem)) /\ Roles(WithDimmers(mem))
         /\ Follow(WithDimmers(mem))
  <1> DEFINE new == WithDimmers(mem)
             Role(out) == IF out.type < 0 THEN -2 ELSE 2
             dimmers == MembersOf({"dimmers"})
             backing == {Backing(d[2]) : d \in dimmers}
  <1>1. DOMAIN new = Configured /\ new = [m \in Configured |-> new[m]]  BY DEF WithDimmers
  <1>2. \A m \in Configured :
            new[m] = IF m[1] = "dimmers"
                     THEN [name |-> mem[Backing(m[2])].name, type |-> Role(mem[Backing(m[2])]),
                           nmbr |-> m[2]]
                     ELSE IF m \in backing THEN [mem[m] EXCEPT !.type = Role(mem[m])]
                     ELSE mem[m]
    BY DEF WithDimmers
  <1>3. \A m \in Configured : IsConfiguration(mem[m])  BY DEF MemberTable
  <1>4. \A d \in dimmers : /\ d \in Configured /\ d[1] = "dimmers"
                           /\ Plain(Backing(d[2])) /\ Backing(d[2]) \in Configured
                           /\ Backing(d[2])[1] = "outputs" /\ Backing(d[2]) \in backing
    BY DimmersAre, BackingIsPlain, OutputsAre DEF Plain
  <1>5. \A m \in Configured : m[1] = "dimmers" => m \in dimmers  BY DimmersAre
  <1>6. \A out : Role(out) \in {2, -2}  OBVIOUS
  <1>7. "dimmers" # "outputs" /\ "dimmers" # "covers"  OBVIOUS
  <1>8. \A o : Plain(o) => o \in Configured /\ o[1] = "outputs"  BY OutputsAre DEF Plain
  <1> HIDE DEF new, dimmers, backing
  <1>91. ASSUME NEW d \in Configured, d[1] = "dimmers"
         PROVE  /\ IsConfiguration(new[d]) /\ new[d].nmbr = d[2]
                /\ new[d].name = mem[Backing(d[2])].name /\ new[d].type = Role(mem[Backing(d[2])])
    <2> DEFINE out == mem[Backing(d[2])]
    <2>1. new[d] = [name |-> out.name, type |-> Role(out), nmbr |-> d[2]]  BY <1>2, <1>91
    <2>2. Role(out) \in Int /\ d[2] \in Int  BY PlaceIsNat
    <2> HIDE DEF out, Role
    <2>3. IsConfiguration(new[d]) /\ new[d].nmbr = d[2] /\ new[d].name = out.name /\ new[d].type = Role(out)
      BY <2>1, <2>2, WrittenIs
    <2> QED  BY <2>3 DEF out
  <1>92. ASSUME NEW o \in Configured, o[1] # "dimmers", o \in backing
         PROVE  /\ IsConfiguration(new[o]) /\ new[o].nmbr = mem[o].nmbr
                /\ new[o].name = mem[o].name /\ new[o].type = Role(mem[o])
    <2>1. new[o] = [mem[o] EXCEPT !.type = Role(mem[o])]  BY <1>2, <1>92
    <2>2. Role(mem[o]) \in Int /\ mem[o].nmbr \in Int /\ IsConfiguration(mem[o])
      BY <1>3 DEF IsConfiguration
    <2> HIDE DEF Role
    <2>3. new[o] = [name |-> mem[o].name, type |-> Role(mem[o]), nmbr |-> mem[o].nmbr]
      BY <2>1, <2>2, RewrittenIs
    <2> QED  BY <2>2, <2>3, WrittenIs
  <1>93. ASSUME NEW o \in Configured, o[1] # "dimmers", o \notin backing
         PROVE  new[o] = mem[o]
    BY <1>93, <1>2
  <1>10. MemberTable(new)  BY <1>1, <1>3, <1>91, <1>92, <1>93 DEF MemberTable
  <1>11. Numbered(new)  BY <1>7, <1>91, <1>92, <1>93 DEF Numbered
  <1>12. ASSUME NEW o, Plain(o)
         PROVE  /\ new[o].name = mem[o].name
                /\ o \in backing => new[o].type = Role(mem[o])
                /\ o \notin backing => new[o].type = mem[o].type
    <2>1. o \in Configured /\ o[1] # "dimmers"  BY <1>12, <1>7, <1>8
    <2> QED  BY <2>1, <1>92, <1>93
  <1>13. Roles(new)
    <2> SUFFICES ASSUME NEW o, Plain(o)
                 PROVE  \/ new[o].type \in {1, 2} /\ new[o].name # "default"
                        \/ new[o].type \in {-1, -2} /\ new[o].name = "default"
      BY DEF Roles
    <2>1. \/ mem[o].type \in {1, 2} /\ mem[o].name # "default"
          \/ mem[o].type \in {-1, -2} /\ mem[o].name = "default"
      BY DEF Roles
    <2> QED  BY <2>1, <1>12
  <1>14. Follow(new)
    <2> SUFFICES ASSUME NEW d \in dimmers
                 PROVE  /\ new[d].name = new[Backing(d[2])].name
                        /\ new[d].type = new[Backing(d[2])].type
                        /\ (new[d].type < 0) <=> (new[Backing(d[2])].name = "default")
      BY DEF Follow, dimmers
    <2> DEFINE out == Backing(d[2])
    <2>1. d \in Configured /\ d[1] = "dimmers" /\ Plain(out) /\ out \in backing  BY <1>4
    <2>3. new[d].name = mem[out].name /\ new[d].type = Role(mem[out])  BY <2>1, <1>91
    <2>4. new[out].name = mem[out].name /\ new[out].type = Role(mem[out])  BY <2>1, <1>12
    <2>5. \/ mem[out].type \in {1, 2} /\ mem[out].name # "default"
          \/ mem[out].type \in {-1, -2} /\ mem[out].name = "default"
      BY <2>1 DEF Roles
    <2>6. (Role(mem[out]) < 0) <=> (mem[out].name = "default")  BY <2>5
    <2> HIDE DEF out, Role
    <2> QED  BY <2>3, <2>4, <2>6 DEF out
  <1> QED  BY <1>10, <1>11, <1>13, <1>14 DEF new

\* parse_definitions as a whole.
LEMMA NamedTable ==
  ASSUME type \in Types, member = Built, NEW book \in Books[type]
  PROVE  MemberTable(Named(book)) /\ Numbered(Named(book)) /\ Roles(Named(book)) /\ Follow(Named(book))
  <1> DEFINE one == Labelled(book)  two == WithAnalogOut(one)  three == WithDefaults(two)
  <1>1. MemberTable(one) /\ Numbered(one) /\ Labels(one)  BY LabelledTable
  <1> HIDE DEF one
  <1>2. MemberTable(two) /\ Numbered(two) /\ Labels(two)  BY <1>1, AnalogTable
  <1> HIDE DEF two
  <1>3. MemberTable(three) /\ Numbered(three) /\ Roles(three)  BY <1>2, DefaultsTable
  <1> HIDE DEF three
  <1>4. Named(book) = WithDimmers(three)  BY DEF Named, three, two, one
  <1> QED  BY <1>3, <1>4, DimmersTable

\* Before the settings no output hides behind a cover.
Open(mem) == \A o : Plain(o) => mem[o].type \in {1, 2, -1, -2}

\* The settings' place of a cover's motor is the one the status parser reads, one
\* place apart on an IO2 module.
LEMMA PlacesAgree ==
  ASSUME type \in Types, NEW c \in 0..(Size("covers") - 1)
  PROVE  SettingsPlace(c) = MotorOf(c)
  <1>1. CASE Is("controller")
    <2>1. ~Is("io2")  BY <1>1 DEF Is
    <2>2. c \in 0..4  BY <1>1, SizesOfOutputs
    <2> QED  BY <1>1, <2>1, <2>2 DEF SettingsPlace, StatusPlace, MotorOf
  <1>2. CASE Is("io2")
    <2>1. c = 0  BY <1>2, SizesOfOutputs
    <2>2. ~Is("controller")  BY <1>2 DEF Is
    <2>3. StatusPlace(c) = -1  BY <1>2, <2>2 DEF StatusPlace
    <2> QED  BY <1>2, <2>1, <2>2, <2>3 DEF SettingsPlace, MotorOf
  <1>3. CASE ~Is("controller") /\ ~Is("io2")
    BY <1>3 DEF SettingsPlace, StatusPlace, MotorOf
  <1> QED  BY <1>1, <1>2, <1>3

\* A cover is numbered exactly when its motor's place is among the shutters, and then it
\* alone hides its two outputs.
Hidden(mem, places) ==
    /\ \A c \in 0..(Size("covers") - 1) :
        /\ mem[<<"covers", c>>].nmbr \in {-1, c}
        /\ mem[<<"covers", c>>].nmbr = c <=> SettingsPlace(c) \in places
    /\ \A o : Plain(o) =>
        (mem[o].type = -10
            <=> o[2] \div 2 \in 0..(Size("covers") - 1) /\ SettingsPlace(o[2] \div 2) \in places)

\* A member keeps its place, or its cover is not configured, or its label wrapped.
Placed(mem) ==
    \A m \in Configured : \/ mem[m].nmbr = m[2]
                          \/ m[1] = "covers" /\ mem[m].nmbr = -1
                          \/ IsWrapped(m, mem[m].nmbr)

\* Without settings nothing is hidden.
LEMMA NothingHidden ==
  ASSUME type \in Types, NEW mem, Numbered(mem), Open(mem)
  PROVE  Hidden(mem, {}) /\ Placed(mem)
  <1>1. \A c \in 0..(Size("covers") - 1) : mem[<<"covers", c>>].nmbr = -1
    <2> TAKE c \in 0..(Size("covers") - 1)
    <2> DEFINE m == <<"covers", c>>
    <2>1. m \in Configured  BY CoversAre
    <2>2. m[1] = "covers" /\ m[1] # "outputs"  OBVIOUS
    <2> HIDE DEF m
    <2>3. mem[m].nmbr = -1  BY <2>1, <2>2 DEF Numbered, IsWrapped
    <2> QED  BY <2>3 DEF m
  <1>2. \A c \in 0..(Size("covers") - 1) : -1 # c  BY SizeIsNat
  <1>3. \A o : Plain(o) => mem[o].type # -10  BY DEF Open
  <1>4. Placed(mem)  BY DEF Placed, Numbered
  <1> QED  BY <1>1, <1>2, <1>3, <1>4 DEF Hidden

\* parse_settings: the members it writes, and what it leaves of the others.
LEMMA TypedTable ==
  ASSUME type \in Types, MemberTable(member), Numbered(member), Open(member), NEW s
  PROVE  /\ MemberTable(Typed(s)) /\ Placed(Typed(s)) /\ Hidden(Typed(s), s.shutters)
         /\ Follow(member) => Follow(Typed(s))
  <1> DEFINE covers == {c \in 0..(Size("covers") - 1) : SettingsPlace(c) \in s.shutters}
             new == Typed(s)
             three(m) == \/ m[1] = "inputs" /\ IsAnalog(m[2], s)
                         \/ /\ m[1] = "analogins"
                            /\ \E n \in s.analog : IsAnalog(n, s) /\ (n - 2) % 6 = m[2]
  <1>1. DOMAIN new = Configured /\ new = [m \in Configured |-> new[m]]  BY DEF Typed
  <1>2. ASSUME NEW m \in Configured
        PROVE  /\ m[1] \in {"inputs", "analogins"} =>
                    new[m] \in {member[m], [member[m] EXCEPT !.type = 3], [member[m] EXCEPT !.type = 2 * @]}
               /\ m[1] = "outputs" =>
                    new[m] = IF m[2] \div 2 \in covers THEN [member[m] EXCEPT !.type = -10] ELSE member[m]
               /\ m[1] = "covers" =>
                    new[m] = IF m[2] \in covers THEN [member[m] EXCEPT !.nmbr = m[2], !.type = 1]
                             ELSE member[m]
               /\ m[1] \in {"dimmers", "analog_outputs"} => new[m] = member[m]
    <2> HIDE DEF covers
    <2>0. new[m] =
             CASE m[1] = "inputs" /\ IsAnalog(m[2], s)      -> [member[m] EXCEPT !.type = 3]
              [] m[1] = "inputs" /\ ~IsAnalog(m[2], s)
                     /\ m[2] \in s.switches                -> [member[m] EXCEPT !.type = 2 * @]
              [] m[1] = "analogins"
                     /\ \E n \in s.analog : IsAnalog(n, s) /\ (n - 2) % 6 = m[2]
                                                           -> [member[m] EXCEPT !.type = 3]
              [] m[1] = "outputs" /\ m[2] \div 2 \in covers -> [member[m] EXCEPT !.type = -10]
              [] m[1] = "covers" /\ m[2] \in covers        -> [member[m] EXCEPT !.nmbr = m[2], !.type = 1]
              [] OTHER -> member[m]
      BY DEF Typed, covers
    <2> DEFINE a == [member[m] EXCEPT !.type = 3]
               b == [member[m] EXCEPT !.type = 2 * @]
               c == [member[m] EXCEPT !.type = -10]
               d == [member[m] EXCEPT !.nmbr = m[2], !.type = 1]
               e == member[m]
               p == IsAnalog(m[2], s)
               q == \E n \in s.analog : IsAnalog(n, s) /\ (n - 2) % 6 = m[2]
               row == new[m]
    <2> HIDE DEF a, b, c, d, e, p, q, row
    <2>1. row = CASE m[1] = "inputs" /\ p -> a
                  [] m[1] = "inputs" /\ ~p /\ m[2] \in s.switches -> b
                  [] m[1] = "analogins" /\ q -> a
                  [] m[1] = "outputs" /\ m[2] \div 2 \in covers -> c
                  [] m[1] = "covers" /\ m[2] \in covers -> d
                  [] OTHER -> e
      BY <2>0 DEF a, b, c, d, e, p, q, row
    <2>2. m[1] \in {"inputs", "analogins"} => row \in {e, a, b}  BY <2>1
    <2>3. m[1] = "outputs" => row = IF m[2] \div 2 \in covers THEN c ELSE e  BY <2>1
    <2>4. m[1] = "covers" => row = IF m[2] \in covers THEN d ELSE e  BY <2>1
    <2>5. m[1] \in {"dimmers", "analog_outputs"} => row = e  BY <2>1
    <2> QED  BY <2>2, <2>3, <2>4, <2>5 DEF a, b, c, d, e, row
  <1>3. \A m \in Configured : IsConfiguration(member[m])  BY DEF MemberTable
  <1> HIDE DEF new, covers
  <1>4. ASSUME NEW m \in Configured, m[1] \in {"inputs", "analogins"}
        PROVE  IsConfiguration(new[m]) /\ new[m].nmbr = m[2]
    <2>1. IsConfiguration(member[m]) /\ member[m].type \in Int /\ member[m].nmbr \in Int
      BY <1>3 DEF IsConfiguration
    <2>2. member[m].nmbr = m[2]  BY <1>4 DEF Numbered, IsWrapped
    <2>3. ASSUME NEW typ \in Int, new[m] = [member[m] EXCEPT !.type = typ]
          PROVE  IsConfiguration(new[m]) /\ new[m].nmbr = m[2]
      <3>1. new[m] = [name |-> member[m].name, type |-> typ, nmbr |-> member[m].nmbr]
        BY <2>1, <2>3, RewrittenIs
      <3> QED  BY <3>1, <2>1, <2>2, WrittenIs
    <2>4. 2 * member[m].type \in Int /\ 3 \in Int  BY <2>1
    <2>5. \/ new[m] = member[m] \/ new[m] = [member[m] EXCEPT !.type = 3]
          \/ new[m] = [member[m] EXCEPT !.type = 2 * member[m].type]
      BY <1>2, <1>4
    <2>6. CASE new[m] = member[m]  BY <2>6, <2>1, <2>2
    <2>7. CASE new[m] = [member[m] EXCEPT !.type = 3]  BY <2>7, <2>3, <2>4
    <2>8. CASE new[m] = [member[m] EXCEPT !.type = 2 * member[m].type]
      <3> DEFINE typ == 2 * member[m].type
      <3>1. typ \in Int /\ new[m] = [member[m] EXCEPT !.type = typ]  BY <2>4, <2>8
      <3> HIDE DEF typ
      <3> QED  BY <3>1, <2>3
    <2> QED  BY <2>5, <2>6, <2>7, <2>8
  <1>5. ASSUME NEW m \in Configured, m[1] = "outputs"
        PROVE  /\ IsConfiguration(new[m]) /\ new[m].nmbr = member[m].nmbr
               /\ new[m].name = member[m].name
               /\ new[m].type = IF m[2] \div 2 \in covers THEN -10 ELSE member[m].type
    <2>1. IsConfiguration(member[m]) /\ member[m].type \in Int /\ member[m].nmbr \in Int
      BY <1>3 DEF IsConfiguration
    <2>3. CASE m[2] \div 2 \in covers
      <3> DEFINE typ == -10
      <3>0. new[m] = [member[m] EXCEPT !.type = -10]  BY <1>2, <1>5, <2>3
      <3>1. typ \in Int /\ new[m] = [member[m] EXCEPT !.type = typ]  BY <3>0
      <3> HIDE DEF typ
      <3>2. new[m] = [name |-> member[m].name, type |-> typ, nmbr |-> member[m].nmbr]
        BY <2>1, <3>1, RewrittenIs
      <3>3. /\ IsConfiguration(new[m]) /\ new[m].nmbr = member[m].nmbr
            /\ new[m].name = member[m].name /\ new[m].type = typ
        BY <3>1, <3>2, <2>1, WrittenIs
      <3> QED  BY <3>3, <2>3 DEF typ
    <2>4. CASE m[2] \div 2 \notin covers
      BY <1>2, <1>5, <2>1, <2>4
    <2> QED  BY <2>3, <2>4
  <1>6. ASSUME NEW m \in Configured, m[1] = "covers"
        PROVE  /\ IsConfiguration(new[m])
               /\ new[m].nmbr = IF m[2] \in covers THEN m[2] ELSE -1
    <2>1. IsConfiguration(member[m]) /\ m[2] \in Int  BY <1>3, PlaceIsNat
    <2>2. member[m].nmbr = -1  BY <1>6 DEF Numbered, IsWrapped
    <2>3. CASE m[2] \in covers
      <3> DEFINE n == m[2]  t == member[m].name
      <3>1. new[m] = [member[m] EXCEPT !.nmbr = n, !.type = 1] /\ n \in Int  BY <1>2, <1>6, <2>1, <2>3
      <3> HIDE DEF n, t
      <3>2. new[m] = [name |-> t, type |-> 1, nmbr |-> n]
        BY <2>1, <3>1, RenumberedIs DEF t
      <3>3. IsConfiguration(new[m]) /\ new[m].nmbr = n  BY <3>1, <3>2, WrittenIs
      <3> QED  BY <3>3, <2>3 DEF n
    <2>4. CASE m[2] \notin covers
      BY <1>2, <1>6, <2>1, <2>2, <2>4
    <2> QED  BY <2>3, <2>4
  <1>7. ASSUME NEW m \in Configured, m[1] \in {"dimmers", "analog_outputs"}
        PROVE  new[m] = member[m] /\ IsConfiguration(new[m]) /\ new[m].nmbr = m[2]
    <2>1. m[1] # "covers" /\ m[1] # "outputs"  BY <1>7
    <2> QED  BY <1>2, <1>3, <1>7, <2>1 DEF Numbered, IsWrapped
  <1>8. \A m \in Configured : m[1] \in {"inputs", "analogins"} \/ m[1] = "outputs" \/ m[1] = "covers"
                              \/ m[1] \in {"dimmers", "analog_outputs"}
    <2> TAKE m \in Configured
    <2>1. m[1] \in ConfiguredLists  BY PlaceIsNat
    <2> QED  BY <2>1 DEF ConfiguredLists
  <1>9. MemberTable(new)
    <2>1. \A m \in Configured : IsConfiguration(new[m])  BY <1>4, <1>5, <1>6, <1>7, <1>8
    <2> QED  BY <1>1, <2>1 DEF MemberTable
  <1>10. Placed(new)
    <2> SUFFICES ASSUME NEW m \in Configured
                 PROVE  \/ new[m].nmbr = m[2]
                        \/ m[1] = "covers" /\ new[m].nmbr = -1
                        \/ IsWrapped(m, new[m].nmbr)
      BY DEF Placed
    <2>1. CASE m[1] = "outputs"
      <3>1. member[m].nmbr = m[2] \/ IsWrapped(m, member[m].nmbr)  BY <2>1 DEF Numbered
      <3> QED  BY <1>5, <2>1, <3>1
    <2> QED  BY <1>4, <1>6, <1>7, <1>8, <2>1
  <1>11. \A c \in 0..(Size("covers") - 1) :
            new[<<"covers", c>>].nmbr = IF c \in covers THEN c ELSE -1
    <2> TAKE c \in 0..(Size("covers") - 1)
    <2> DEFINE m == <<"covers", c>>
    <2>1. m \in Configured /\ m[1] = "covers" /\ m[2] = c  BY CoversAre
    <2> HIDE DEF m
    <2>2. new[m].nmbr = IF c \in covers THEN c ELSE -1  BY <1>6, <2>1
    <2> QED  BY <2>2 DEF m
  <1>12. \A c : c \in covers <=> c \in 0..(Size("covers") - 1) /\ SettingsPlace(c) \in s.shutters
    BY DEF covers
  <1>13. Hidden(new, s.shutters)
    <2>1. \A c \in 0..(Size("covers") - 1) : -1 # c  BY SizeIsNat
    <2>2. \A o : Plain(o) => o \in Configured /\ o[1] = "outputs" /\ member[o].type # -10
      BY OutputsAre DEF Plain, Open
    <2>3. \A o : Plain(o) => (new[o].type = -10 <=> o[2] \div 2 \in covers)
      BY <1>5, <2>2
    <2>4. \A c \in 0..(Size("covers") - 1) :
            /\ new[<<"covers", c>>].nmbr \in {-1, c}
            /\ new[<<"covers", c>>].nmbr = c <=> SettingsPlace(c) \in s.shutters
      BY <1>11, <1>12, <2>1
    <2> QED  BY <2>3, <2>4, <1>12 DEF Hidden
  <1>14. ASSUME Follow(member)  PROVE Follow(new)
    <2> SUFFICES ASSUME NEW d \in MembersOf({"dimmers"})
                 PROVE  /\ new[d].name = new[Backing(d[2])].name
                        /\ new[d].type = new[Backing(d[2])].type
                        /\ (new[d].type < 0) <=> (new[Backing(d[2])].name = "default")
      BY DEF Follow
    <2> DEFINE out == Backing(d[2])
    <2>1. d \in Configured /\ d[1] = "dimmers"  BY DimmersAre
    <2>2. Plain(out) /\ out[1] = "outputs" /\ out \in Configured /\ out[2] \div 2 \notin covers
      BY BackingIsPlain, OutputsAre, <1>12 DEF Plain
    <2>3. new[d] = member[d]  BY <1>7, <2>1
    <2>4. new[out].name = member[out].name /\ new[out].type = member[out].type
      BY <1>5, <2>2
    <2>5. /\ member[d].name = member[out].name /\ member[d].type = member[out].type
          /\ (member[d].type < 0) <=> (member[out].name = "default")
      BY <1>14 DEF Follow
    <2> HIDE DEF out
    <2> QED  BY <2>3, <2>4, <2>5 DEF out
  <1> QED  BY <1>9, <1>10, <1>13, <1>14 DEF new

-------------------------------------------------------------------------------
(***************************************************************************)
(* The module's configuration, stage by stage.                             *)
(***************************************************************************)
ConfigurationInv ==
    /\ type \in Types /\ stage \in {"built", "named", "configured", "live", "failed"}
    /\ MemberTable(member) /\ Placed(member)
    /\ stage = "built" => member = Built /\ ~labelled
    /\ stage \in {"built", "named"} => Numbered(member) /\ Open(member) /\ shutters = {}
    /\ stage \in {"configured", "live"} => Hidden(member, shutters)
    /\ stage = "live" => Shiftable
    /\ labelled => Follow(member)

\* A module just built fulfils ConfigurationInv.
LEMMA ConfigurationAtFirst == Init => ConfigurationInv
  <1> SUFFICES ASSUME Init  PROVE ConfigurationInv  OBVIOUS
  <1>1. type \in Types /\ stage = "built" /\ labelled = FALSE /\ shutters = {} /\ member = Built
    BY DEF Init
  <1>2. MemberTable(member) /\ Numbered(member) /\ Open(member)
    BY <1>1, BuiltTable DEF Open, Plain
  <1>3. Placed(member)  BY <1>1, <1>2, NothingHidden
  <1> QED  BY <1>1, <1>2, <1>3 DEF ConfigurationInv

\* The module's type stays, and with it its members.
LEMMA SameShape ==
  ASSUME type' = type
  PROVE  /\ \A list : Size(list)' = Size(list)
         /\ Configured' = Configured /\ Outputs' = Outputs
         /\ MembersOf({"dimmers"})' = MembersOf({"dimmers"})
         /\ \A n : Backing(n)' = Backing(n)
         /\ \A n : SettingsPlace(n)' = SettingsPlace(n)
         /\ \A o : Plain(o)' <=> Plain(o)
  <1>1. \A list : Size(list)' = Size(list)  BY DEF Size, HasAnalogPins
  <1>2. Configured' = Configured  BY <1>1 DEF Configured, MembersOf
  <1>3. Outputs' = Outputs  BY <1>1 DEF Outputs, MembersOf
  <1>4. MembersOf({"dimmers"})' = MembersOf({"dimmers"})  BY <1>1 DEF MembersOf
  <1>5. \A n : Backing(n)' = Backing(n)  BY DEF Backing, Is
  <1>6. \A n : SettingsPlace(n)' = SettingsPlace(n)  BY DEF SettingsPlace, Is
  <1>7. \A o : Plain(o)' <=> Plain(o)  BY <1>3 DEF Plain
  <1> QED  BY <1>1, <1>2, <1>3, <1>4, <1>5, <1>6, <1>7

\* What holds of the members a step writes holds of the members after it.
LEMMA Carried ==
  ASSUME type' = type, NEW mem, member' = mem
  PROVE  /\ MemberTable(mem) => MemberTable(member)'
         /\ Placed(mem) => Placed(member)'
         /\ Numbered(mem) => Numbered(member)'
         /\ Open(mem) => Open(member)'
         /\ Follow(mem) => Follow(member)'
         /\ Hidden(mem, shutters') => Hidden(member, shutters)'
  <1>1. MemberTable(mem) => MemberTable(member)'  BY SameShape DEF MemberTable
  <1>2. Placed(mem) => Placed(member)'  BY SameShape DEF Placed, IsWrapped, Is
  <1>3. Numbered(mem) => Numbered(member)'  BY SameShape DEF Numbered, IsWrapped, Is
  <1>4. Open(mem) => Open(member)'  BY SameShape DEF Open
  <1>5. Follow(mem) => Follow(member)'  BY SameShape DEF Follow
  <1>6. Hidden(mem, shutters') => Hidden(member, shutters)'  BY SameShape DEF Hidden
  <1> QED  BY <1>1, <1>2, <1>3, <1>4, <1>5, <1>6

\* The parsers run once each, and nothing else configures a member.
LEMMA ConfigurationStays == ConfigurationInv /\ [Next]_vars => ConfigurationInv'
  <1> SUFFICES ASSUME ConfigurationInv, [Next]_vars  PROVE ConfigurationInv'  OBVIOUS
  <1>0. /\ type \in Types /\ stage \in {"built", "named", "configured", "live", "failed"}
        /\ MemberTable(member) /\ Placed(member)
        /\ stage = "built" => member = Built /\ ~labelled
        /\ stage \in {"built", "named"} => Numbered(member) /\ Open(member) /\ shutters = {}
        /\ stage \in {"configured", "live"} => Hidden(member, shutters)
        /\ stage = "live" => Shiftable
        /\ labelled => Follow(member)
    BY DEF ConfigurationInv
  <1>1. ASSUME ReadDefinitions  PROVE ConfigurationInv'
    <2>1. /\ stage = "built" /\ stage' = "named" /\ type' = type /\ shutters' = shutters
          /\ \/ labelled' = FALSE /\ member' = member
             \/ \E book \in Books[type] : member' = Named(book)
      BY <1>1 DEF ReadDefinitions
    <2>2. type' \in Types /\ member = Built /\ shutters' = {}  BY <1>0, <2>1
    <2>3. CASE labelled' = FALSE /\ member' = member
      <3>1. MemberTable(member)' /\ Placed(member)' /\ Numbered(member)' /\ Open(member)'
        BY <1>0, <2>1, <2>3, Carried
      <3> QED  BY <2>1, <2>2, <2>3, <3>1 DEF ConfigurationInv
    <2>4. CASE \E book \in Books[type] : member' = Named(book)
      <3>1. PICK book \in Books[type] : member' = Named(book)  BY <2>4
      <3> DEFINE mem == Named(book)
      <3>2. MemberTable(mem) /\ Numbered(mem) /\ Roles(mem) /\ Follow(mem)
        BY <1>0, <2>2, NamedTable
      <3>3. Open(mem)  BY <3>2 DEF Roles, Open
      <3>4. Placed(mem)  BY <1>0, <3>2, <3>3, NothingHidden
      <3>5. member' = mem  BY <3>1
      <3> HIDE DEF mem
      <3>6. MemberTable(member)' /\ Placed(member)' /\ Numbered(member)' /\ Open(member)' /\ Follow(member)'
        BY <2>1, <3>2, <3>3, <3>4, <3>5, Carried
      <3> QED  BY <2>1, <2>2, <3>6 DEF ConfigurationInv
    <2> QED  BY <2>1, <2>3, <2>4
  <1>2. ASSUME ReadSettings  PROVE ConfigurationInv'
    <2>1. /\ stage = "named" /\ stage' = "configured" /\ type' = type /\ labelled' = labelled
          /\ \/ member' = member /\ shutters' = shutters
             \/ \E s \in SettingsOf[type] : member' = Typed(s) /\ shutters' = s.shutters
      BY <1>2 DEF ReadSettings
    <2>2. Numbered(member) /\ Open(member) /\ shutters = {}  BY <1>0, <2>1
    <2>3. CASE member' = member /\ shutters' = shutters
      <3>1. Hidden(member, shutters')  BY <1>0, <2>2, <2>3, NothingHidden
      <3>2. MemberTable(member)' /\ Placed(member)' /\ (labelled => Follow(member)') /\ Hidden(member, shutters)'
        BY <1>0, <2>1, <2>3, <3>1, Carried
      <3> QED  BY <1>0, <2>1, <3>2 DEF ConfigurationInv
    <2>4. CASE \E s \in SettingsOf[type] : member' = Typed(s) /\ shutters' = s.shutters
      <3>1. PICK s \in SettingsOf[type] : member' = Typed(s) /\ shutters' = s.shutters  BY <2>4
      <3> DEFINE mem == Typed(s)
      <3>2. MemberTable(mem) /\ Placed(mem) /\ Hidden(mem, s.shutters) /\ (Follow(member) => Follow(mem))
        BY <1>0, <2>2, TypedTable
      <3>3. member' = mem /\ shutters' = s.shutters  BY <3>1
      <3> HIDE DEF mem
      <3>4. MemberTable(member)' /\ Placed(member)' /\ (labelled => Follow(member)') /\ Hidden(member, shutters)'
        BY <1>0, <2>1, <3>2, <3>3, Carried
      <3> QED  BY <1>0, <2>1, <3>4 DEF ConfigurationInv
    <2> QED  BY <2>1, <2>3, <2>4
  <1>3. ASSUME /\ UNCHANGED <<type, labelled, shutters, member>>
               /\ \/ stage' = stage
                  \/ stage = "configured" /\ stage' = "live" /\ Shiftable
                  \/ stage = "configured" /\ stage' = "failed"
        PROVE  ConfigurationInv'
    <2>1. /\ MemberTable(member)' /\ Placed(member)' /\ (Numbered(member) => Numbered(member)')
          /\ (Open(member) => Open(member)') /\ (Follow(member) => Follow(member)')
          /\ (Hidden(member, shutters) => Hidden(member, shutters)')
      BY <1>0, <1>3, Carried
    <2>2. Built' = Built  BY <1>3, SameShape DEF Built, BuiltType, Is
    <2>3. Shiftable' = Shiftable  BY <1>3, SameShape DEF Shiftable, MembersOf
    <2> QED  BY <1>0, <1>3, <2>1, <2>2, <2>3 DEF ConfigurationInv
  <1>4. ASSUME BuildStatus \/ BuildFails  PROVE ConfigurationInv'
    BY <1>3, <1>4 DEF BuildStatus, BuildFails, config
  <1>5. ASSUME PollStatus  PROVE ConfigurationInv'  BY <1>3, <1>5 DEF PollStatus, config
  <1>6. ASSUME ApplyEvent  PROVE ConfigurationInv'  BY <1>3, <1>6 DEF ApplyEvent, config
  <1>7. ASSUME NEW c, HubChange(c)  PROVE ConfigurationInv'  BY <1>3, <1>7 DEF HubChange, config
  <1>8. ASSUME NEW c, ShortPress(c)  PROVE ConfigurationInv'  BY <1>3, <1>8 DEF ShortPress, config
  <1>9. ASSUME UNCHANGED vars  PROVE ConfigurationInv'  BY <1>3, <1>9 DEF vars, config
  <1> QED  BY <1>1, <1>2, <1>4, <1>5, <1>6, <1>7, <1>8, <1>9 DEF Next

\* A dimmer has its output's name and role: _make_dimmer copies them after the defaults
\* are named, and the settings retype no output behind a dimmer.
THEOREM DimmersMirrorOutputs == Spec => []DimmersFollowOutputs
  <1>1. ConfigurationInv => DimmersFollowOutputs
    BY DEF ConfigurationInv, DimmersFollowOutputs, Follow
  <1> QED  BY <1>1, ConfigurationAtFirst, ConfigurationStays, PTL DEF Spec

\* A cover hides its outputs exactly when the settings flag the motor the status parser
\* reads for it, on an IO2 module the motor one place further.
THEOREM CoversHideOutputs == Spec => []CoversOwnOutputs
  <1>1. ASSUME ConfigurationInv, stage \in {"configured", "live"}
        PROVE  /\ \A c \in 0..(Size("covers") - 1) :
                    member[<<"covers", c>>].nmbr = c
                        <=> MotorOf(c) \in shutters
               /\ \A o \in MembersOf({"outputs"}) \ {<<"outputs", 15>>} :
                    member[o].type = -10
                        <=> /\ <<"covers", o[2] \div 2>> \in Configured
                            /\ member[<<"covers", o[2] \div 2>>].nmbr >= 0
    <2>1. type \in Types /\ Hidden(member, shutters)  BY <1>1 DEF ConfigurationInv
    <2>2. \A c \in 0..(Size("covers") - 1) :
            /\ member[<<"covers", c>>].nmbr \in {-1, c}
            /\ member[<<"covers", c>>].nmbr = c <=> SettingsPlace(c) \in shutters
      BY <2>1 DEF Hidden
    <2>3. \A c \in 0..(Size("covers") - 1) :
            /\ SettingsPlace(c) = MotorOf(c)
            /\ c >= 0 /\ ~(-1 >= 0) /\ -1 # c
      BY <2>1, PlacesAgree, SizeIsNat
    <2>4. \A c \in 0..(Size("covers") - 1) :
            member[<<"covers", c>>].nmbr >= 0 <=> SettingsPlace(c) \in shutters
      BY <2>2, <2>3
    <2>5. \A o \in MembersOf({"outputs"}) \ {<<"outputs", 15>>} :
            member[o].type = -10
                <=> o[2] \div 2 \in 0..(Size("covers") - 1) /\ SettingsPlace(o[2] \div 2) \in shutters
      BY <2>1 DEF Hidden, Plain, Outputs
    <2>6. \A o \in MembersOf({"outputs"}) \ {<<"outputs", 15>>} :
            member[o].type = -10
                <=> /\ <<"covers", o[2] \div 2>> \in Configured
                    /\ member[<<"covers", o[2] \div 2>>].nmbr >= 0
      <3> TAKE o \in MembersOf({"outputs"}) \ {<<"outputs", 15>>}
      <3> DEFINE c == o[2] \div 2
      <3>1. <<"covers", c>> \in Configured <=> c \in 0..(Size("covers") - 1)  BY CoversAre
      <3>2. member[o].type = -10 <=> c \in 0..(Size("covers") - 1) /\ SettingsPlace(c) \in shutters
        BY <2>5
      <3> HIDE DEF c
      <3> QED  BY <2>4, <3>1, <3>2 DEF c
    <2> QED  BY <2>2, <2>3, <2>6
  <1>2. ConfigurationInv => CoversOwnOutputs  BY <1>1 DEF CoversOwnOutputs
  <1> QED  BY <1>2, ConfigurationAtFirst, ConfigurationStays, PTL DEF Spec

-------------------------------------------------------------------------------
(***************************************************************************)
(* What a status reads: every read is for an attribute the module has, and *)
(* no two reads are for the same one.                                      *)
(***************************************************************************)
StaticLists == ConfiguredLists \cup {"leds", "color_leds", "sensors", "setvalues", "fingers", "diags"}

\* The places a list has when n counters are discovered.
Places(list, n) ==
    CASE list \in {"mode", "health"} -> {0}
      [] list = "tilt"  -> 0..(Size("covers") - 1)
      [] list = "rgb"   -> 0..(Size("color_leds") - 1)
      [] list = "user"  -> 0..(Size("fingers") - 1)
      [] list = "flags" -> 1..Len(flags)
      [] list = "logic" -> 1..n
      [] list \in StaticLists -> 0..(Size(list) - 1)
      [] OTHER -> {}

\* The attributes when n counters are discovered.
Reach(n) ==
    StaticAttributes \cup {<<"flags", i>> : i \in 1..Len(flags)} \cup {<<"logic", i>> : i \in 1..n}

\* An attribute of the module is a list and a place the list has.
LEMMA ReachIs ==
  ASSUME NEW n, NEW a
  PROVE  a \in Reach(n) <=> \E list : \E i \in Places(list, n) : a = <<list, i>>
  <1>1. a \in StaticAttributes <=>
            \/ \E list \in StaticLists : \E i \in 0..(Size(list) - 1) : a = <<list, i>>
            \/ a \in {<<"mode", 0>>, <<"health", 0>>}
            \/ \E i \in 0..(Size("covers") - 1) : a = <<"tilt", i>>
            \/ \E i \in 0..(Size("color_leds") - 1) : a = <<"rgb", i>>
            \/ \E i \in 0..(Size("fingers") - 1) : a = <<"user", i>>
    <2> DEFINE rest == {"leds", "color_leds", "sensors", "setvalues", "fingers", "diags"}
    <2>1. a \in MembersOf(rest) <=> \E list \in rest : \E i \in 0..(Size(list) - 1) : a = <<list, i>>
      BY MembersAre
    <2>2. a \in Configured <=>
            \E list \in ConfiguredLists : \E i \in 0..(Size(list) - 1) : a = <<list, i>>
      BY ConfiguredAre
    <2>3. a \in StaticAttributes <=>
            \/ a \in Configured \/ a \in MembersOf(rest) \/ a \in {<<"mode", 0>>, <<"health", 0>>}
            \/ \E i \in 0..(Size("covers") - 1) : a = <<"tilt", i>>
            \/ \E i \in 0..(Size("color_leds") - 1) : a = <<"rgb", i>>
            \/ \E i \in 0..(Size("fingers") - 1) : a = <<"user", i>>
      BY DEF StaticAttributes
    <2>4. StaticLists = ConfiguredLists \cup rest  BY DEF StaticLists
    <2> HIDE DEF rest
    <2> QED  BY <2>1, <2>2, <2>3, <2>4
  <1>2. \A list \in StaticLists : Places(list, n) = 0..(Size(list) - 1)
    BY DEF Places, StaticLists, ConfiguredLists
  <1>3. /\ Places("mode", n) = {0} /\ Places("health", n) = {0}
        /\ Places("tilt", n) = 0..(Size("covers") - 1)
        /\ Places("rgb", n) = 0..(Size("color_leds") - 1)
        /\ Places("user", n) = 0..(Size("fingers") - 1)
        /\ Places("flags", n) = 1..Len(flags) /\ Places("logic", n) = 1..n
    BY DEF Places, StaticLists, ConfiguredLists
  <1>4. \A list : list \notin StaticLists
                    \cup {"mode", "health", "tilt", "rgb", "user", "flags", "logic"}
                  => Places(list, n) = {}
    BY DEF Places
  <1>5. a \in Reach(n) <=> \/ a \in StaticAttributes
                           \/ \E i \in 1..Len(flags) : a = <<"flags", i>>
                           \/ \E i \in 1..n : a = <<"logic", i>>
    BY DEF Reach
  <1>6. ASSUME a \in Reach(n)  PROVE \E list : \E i \in Places(list, n) : a = <<list, i>>
    BY <1>1, <1>2, <1>3, <1>5, <1>6
  <1>7. ASSUME NEW list, NEW i \in Places(list, n), a = <<list, i>>  PROVE a \in Reach(n)
    BY <1>1, <1>2, <1>3, <1>4, <1>5, <1>7
  <1> QED  BY <1>6, <1>7

\* The places of every list, and the same read from the attributes.
LEMMA PlacesAre ==
  ASSUME NEW n
  PROVE  /\ \A list \in StaticLists : Places(list, n) = 0..(Size(list) - 1)
         /\ Places("mode", n) = {0} /\ Places("health", n) = {0}
         /\ Places("tilt", n) = 0..(Size("covers") - 1)
         /\ Places("rgb", n) = 0..(Size("color_leds") - 1)
         /\ Places("user", n) = 0..(Size("fingers") - 1)
         /\ Places("flags", n) = 1..Len(flags) /\ Places("logic", n) = 1..n
         /\ \A list, i : <<list, i>> \in Reach(n) <=> i \in Places(list, n)
  <1>1. \A list \in StaticLists : Places(list, n) = 0..(Size(list) - 1)
    BY DEF Places, StaticLists, ConfiguredLists
  <1>2. /\ Places("mode", n) = {0} /\ Places("health", n) = {0}
        /\ Places("tilt", n) = 0..(Size("covers") - 1)
        /\ Places("rgb", n) = 0..(Size("color_leds") - 1)
        /\ Places("user", n) = 0..(Size("fingers") - 1)
        /\ Places("flags", n) = 1..Len(flags) /\ Places("logic", n) = 1..n
    BY DEF Places, StaticLists, ConfiguredLists
  <1>3. \A list, i : <<list, i>> \in Reach(n) <=> i \in Places(list, n)  BY ReachIs
  <1> QED  BY <1>1, <1>2, <1>3

\* The reads are a list, of attributes of these lists that the module has, of each once.
Aims(reads, lists, n) ==
    /\ \E X : reads \in Seq(X)
    /\ \A k \in 1..Len(reads) : reads[k].to \in Reach(n) /\ reads[k].to[1] \in lists
    /\ \A j, k \in 1..Len(reads) : reads[j].to = reads[k].to => j = k

\* Reads that aim at some lists aim at more lists.
LEMMA AimsWider ==
  ASSUME NEW n, NEW reads, NEW lists, NEW wider, Aims(reads, lists, n), lists \subseteq wider
  PROVE  Aims(reads, wider, n)
  BY DEF Aims

\* Two parsers' parts that aim at different lists, one after the other.
LEMMA AimsJoin ==
  ASSUME NEW n, NEW r, NEW s, NEW L, NEW M, Aims(r, L, n), Aims(s, M, n), L \cap M = {}
  PROVE  Aims(r \o s, L \cup M, n)
  <1>1. PICK X : r \in Seq(X)  BY DEF Aims
  <1>2. PICK Y : s \in Seq(Y)  BY DEF Aims
  <1> DEFINE Z == X \cup Y  t == r \o s
  <1>3. r \in Seq(Z) /\ s \in Seq(Z)  BY <1>1, <1>2
  <1> HIDE DEF Z
  <1>4. /\ t \in Seq(Z) /\ Len(t) = Len(r) + Len(s) /\ Len(r) \in Nat /\ Len(s) \in Nat
        /\ \A k \in 1..(Len(r) + Len(s)) : t[k] = IF k <= Len(r) THEN r[k] ELSE s[k - Len(r)]
    BY <1>3, ConcatProperties
  <1> HIDE DEF t
  <1>5. \A k \in 1..Len(t) : \/ k \in 1..Len(r) /\ t[k] = r[k]
                             \/ k - Len(r) \in 1..Len(s) /\ t[k] = s[k - Len(r)]
    BY <1>4
  <1>6. /\ \A k \in 1..Len(r) : r[k].to \in Reach(n) /\ r[k].to[1] \in L
        /\ \A j, k \in 1..Len(r) : r[j].to = r[k].to => j = k
        /\ \A k \in 1..Len(s) : s[k].to \in Reach(n) /\ s[k].to[1] \in M
        /\ \A j, k \in 1..Len(s) : s[j].to = s[k].to => j = k
    BY DEF Aims
  <1>7. \A k \in 1..Len(t) : t[k].to \in Reach(n) /\ t[k].to[1] \in L \cup M
    BY <1>5, <1>6
  <1>8. \A j, k \in 1..Len(t) : t[j].to = t[k].to => j = k
    <2> SUFFICES ASSUME NEW j \in 1..Len(t), NEW k \in 1..Len(t), t[j].to = t[k].to  PROVE j = k
      OBVIOUS
    <2>1. CASE j \in 1..Len(r) /\ t[j] = r[j]
      <3>1. t[k].to[1] \notin M  BY <1>6, <2>1
      <3> QED  BY <1>5, <1>6, <2>1, <3>1
    <2>2. CASE j - Len(r) \in 1..Len(s) /\ t[j] = s[j - Len(r)]
      <3>1. t[k].to[1] \notin L  BY <1>6, <2>2
      <3>2. k - Len(r) \in 1..Len(s) /\ t[k] = s[k - Len(r)]  BY <1>5, <1>6, <3>1
      <3>3. j - Len(r) = k - Len(r)  BY <1>6, <2>2, <3>2
      <3> QED  BY <1>4, <3>3
    <2> QED  BY <1>5, <2>1, <2>2
  <1>9. \E W : t \in Seq(W)  BY <1>4
  <1> QED  BY <1>7, <1>8, <1>9 DEF Aims, t

\* A loop over a list that skips some of the reads.
LEMMA AimsSome ==
  ASSUME NEW n, NEW s, NEW L, NEW places, Aims(s, L, n)
  PROVE  Aims(Entries(s, places), L, n)
  <1>1. PICK X : s \in Seq(X)  BY DEF Aims
  <1> DEFINE t == Entries(s, places)
  <1>2. t \in Seq(X) /\ \E f : Picks(f, t, s, places, Len(s))  BY <1>1, EntriesPick
  <1>3. PICK f : Picks(f, t, s, places, Len(s))  BY <1>2
  <1> HIDE DEF t
  <1>4. /\ f \in [1..Len(t) -> 1..Len(s)]
        /\ \A k \in 1..Len(t) : t[k] = s[f[k]]
        /\ \A j, k \in 1..Len(t) : j < k => f[j] < f[k]
    BY <1>3 DEF Picks
  <1>5. \A k \in 1..Len(t) : f[k] \in 1..Len(s)  BY <1>4
  <1>6. Len(t) \in Nat /\ Len(s) \in Nat  BY <1>1, <1>2
  <1>7. \A j, k \in 1..Len(t) : f[j] = f[k] => j = k  BY <1>4, <1>5, <1>6
  <1>8. \A j, k \in 1..Len(t) : t[j].to = t[k].to => j = k  BY <1>4, <1>5, <1>7 DEF Aims
  <1>9. \A k \in 1..Len(t) : t[k].to \in Reach(n) /\ t[k].to[1] \in L  BY <1>4, <1>5 DEF Aims
  <1> QED  BY <1>2, <1>8, <1>9 DEF Aims, t

\* One read after the other for the members of a list, from the place from on.
LEMMA AimsRun ==
  ASSUME NEW n, NEW reads, NEW list, NEW from \in Int, NEW len \in Nat,
         \E X : reads \in Seq(X), Len(reads) = len,
         \A k \in 1..len : reads[k].to = <<list, from + k>> /\ from + k \in Places(list, n)
  PROVE  Aims(reads, {list}, n)
  <1>1. ASSUME NEW k \in 1..len
        PROVE  reads[k].to \in Reach(n) /\ reads[k].to[1] = list /\ reads[k].to[2] = from + k
    <2> DEFINE i == from + k  to == reads[k].to
    <2>1. to = <<list, i>> /\ i \in Places(list, n)  OBVIOUS
    <2> HIDE DEF i, to
    <2>2. to \in Reach(n) /\ to[1] = list /\ to[2] = i  BY <2>1, PlacesAre
    <2> QED  BY <2>2 DEF i, to
  <1>2. \A j, k \in 1..len : from + j = from + k => j = k  OBVIOUS
  <1>3. \A j, k \in 1..len : reads[j].to = reads[k].to => j = k  BY <1>1, <1>2
  <1> QED  BY <1>1, <1>3 DEF Aims

\* Two reads in turn for the places of two lists.
LEMMA AimsPairs ==
  ASSUME NEW n, NEW reads, NEW one, NEW two, one # two, NEW size \in Nat,
         \E X : reads \in Seq(X), Len(reads) = 2 * size,
         \A k \in 1..(2 * size) :
            reads[k].to = IF k % 2 = 1 THEN <<one, (k - 1) \div 2>> ELSE <<two, (k - 1) \div 2>>,
         Places(one, n) = 0..(size - 1), Places(two, n) = 0..(size - 1)
  PROVE  Aims(reads, {one, two}, n)
  <1>1. ASSUME NEW k \in 1..(2 * size)
        PROVE  /\ reads[k].to[1] = IF k % 2 = 1 THEN one ELSE two
               /\ reads[k].to[2] = (k - 1) \div 2 /\ (k - 1) \div 2 \in 0..(size - 1)
               /\ reads[k].to \in Reach(n)
    <2> DEFINE i == (k - 1) \div 2  to == reads[k].to  odd == k % 2 = 1
    <2>1. i \in 0..(size - 1)  OBVIOUS
    <2>2. to = IF odd THEN <<one, i>> ELSE <<two, i>>  OBVIOUS
    <2> HIDE DEF i, to, odd
    <2>3. to \in Reach(n) /\ to[1] = (IF odd THEN one ELSE two) /\ to[2] = i
      BY <2>1, <2>2, PlacesAre
    <2> QED  BY <2>1, <2>3 DEF i, to, odd
  <1>2. \A j, k \in 1..(2 * size) : (j - 1) \div 2 = (k - 1) \div 2 /\ (j % 2 = 1 <=> k % 2 = 1) => j = k
    OBVIOUS
  <1>3. \A j, k \in 1..(2 * size) : reads[j].to = reads[k].to => j = k
    <2> TAKE j, k \in 1..(2 * size)
    <2> HAVE reads[j].to = reads[k].to
    <2>1. (j - 1) \div 2 = (k - 1) \div 2  BY <1>1
    <2>2. j % 2 = 1 <=> k % 2 = 1  BY <1>1
    <2> QED  BY <1>2, <2>1, <2>2
  <1>4. \A k \in 1..(2 * size) : reads[k].to[1] \in {one, two}  BY <1>1
  <1> QED  BY <1>1, <1>3, <1>4 DEF Aims

\* A table over 1..len is a list of this length.
LEMMA IsList ==
  ASSUME NEW len \in Nat, NEW s, s = [k \in 1..len |-> s[k]]
  PROVE  Len(s) = len /\ \E X : s \in Seq(X)
  <1> DEFINE X == {s[k] : k \in 1..len}
  <1>1. s \in [1..len -> X]
    <2>1. \A k \in 1..len : s[k] \in X  OBVIOUS
    <2> HIDE DEF X
    <2>2. [k \in 1..len |-> s[k]] \in [1..len -> X]  BY <2>1
    <2> QED  BY <2>2, Zenon
  <1> HIDE DEF X
  <1>2. s \in Seq(X)  BY <1>1
  <1>3. Len(s) = len
    <2>1. DOMAIN s = 1..len  BY <1>1
    <2> QED  BY <1>2, <2>1, LenProperties
  <1> QED  BY <1>2, <1>3

\* Members read from fields of their own are read once each.
LEMMA ColumnAims ==
  ASSUME NEW n, NEW list, NEW fields, NEW len \in Nat, Len(fields) = len,
         \A k \in 1..len : k - 1 \in Places(list, n)
  PROVE  Aims(Column(list, fields), {list}, n)
  <1> DEFINE reads == Column(list, fields)
             X == {Read(list, k - 1, fields[k], 0) : k \in 1..len}
  <1>1. reads = [k \in 1..len |-> Read(list, k - 1, fields[k], 0)]  BY DEF Column
  <1>2. \A k \in 1..len : reads[k].to = <<list, -1 + k>> /\ -1 + k \in Places(list, n)
    <2> TAKE k \in 1..len
    <2>1. -1 + k = k - 1  OBVIOUS
    <2>2. reads[k].to = <<list, k - 1>>  BY <1>1 DEF Read
    <2> QED  BY <2>1, <2>2
  <1>3. reads \in Seq(X) /\ Len(reads) = len  BY <1>1
  <1> HIDE DEF reads, X
  <1> DEFINE from == -1
  <1>4. from \in Int /\ \A k \in 1..len : reads[k].to = <<list, from + k>> /\ from + k \in Places(list, n)
    BY <1>2
  <1> HIDE DEF from
  <1>5. \E Y : reads \in Seq(Y)  BY <1>3
  <1>6. Aims(reads, {list}, n)  BY <1>3, <1>4, <1>5, AimsRun
  <1> QED  BY <1>6 DEF reads

\* Members read from consecutive bits or bytes are read once each.
LEMMA RowAims ==
  ASSUME type \in Types, NEW n, NEW list \in StaticLists, NEW field, NEW off
  PROVE  Aims(Row(list, field, off), {list}, n) /\ Len(Row(list, field, off)) = Size(list)
  <1> DEFINE reads == Row(list, field, off)
             len == Size(list)
  <1>0. len \in Nat  BY SizeIsNat
  <1>1. reads = [k \in 1..len |-> Read(list, k - 1, field, off + k - 1)]  BY DEF Row
  <1>11. Places(list, n) = 0..(len - 1)  BY PlacesAre
  <1> HIDE DEF len
  <1>2. \A k \in 1..len : reads[k].to = <<list, -1 + k>> /\ -1 + k \in Places(list, n)
    <2> TAKE k \in 1..len
    <2>1. -1 + k = k - 1 /\ k - 1 \in 0..(len - 1)  BY <1>0
    <2>2. reads[k].to = <<list, k - 1>>  BY <1>1 DEF Read
    <2> QED  BY <1>11, <2>1, <2>2
  <1> HIDE DEF reads
  <1>12. reads = [k \in 1..len |-> reads[k]]  BY <1>1
  <1>3. Len(reads) = len /\ \E X : reads \in Seq(X)  BY <1>0, <1>12, IsList
  <1> DEFINE from == -1
  <1>4. from \in Int /\ \A k \in 1..len : reads[k].to = <<list, from + k>> /\ from + k \in Places(list, n)
    BY <1>2
  <1> HIDE DEF from
  <1>6. Aims(reads, {list}, n)  BY <1>0, <1>3, <1>4, AimsRun
  <1> QED  BY <1>3, <1>6 DEF reads, len

\* A range that leaves out the last member.
LEMMA FrontAims ==
  ASSUME NEW n, NEW s, NEW L, Aims(s, L, n), Len(s) # 0
  PROVE  Aims(Front(s), L, n)
  <1>1. PICK X : s \in Seq(X)  BY DEF Aims
  <1> DEFINE t == Front(s)
  <1>2. Len(s) \in Nat /\ Len(s) - 1 \in Int /\ \A i \in 1..(Len(s) - 1) : s[i] \in X  BY <1>1
  <1>3. /\ t \in Seq(X) /\ Len(t) = (IF 1 <= Len(s) - 1 THEN Len(s) - 1 - 1 + 1 ELSE 0)
        /\ \A i \in 1..(Len(s) - 1 - 1 + 1) : t[i] = s[1 + i - 1]
    BY <1>2, SubSeqProperties DEF Front
  <1> HIDE DEF t
  <1>4. Len(t) = Len(s) - 1
    <2> DEFINE len == Len(s)
    <2>1. len \in Nat /\ len # 0 /\ Len(t) = (IF 1 <= len - 1 THEN len - 1 - 1 + 1 ELSE 0)  BY <1>2, <1>3
    <2> HIDE DEF len
    <2>2. Len(t) = len - 1  BY <2>1
    <2> QED  BY <2>2 DEF len
  <1>5. \A i \in 1..Len(t) : i \in 1..Len(s) /\ t[i] = s[i]  BY <1>2, <1>3, <1>4
  <1> QED  BY <1>3, <1>5 DEF Aims, t

\* A kind whose status says nothing reads nothing.
LEMMA NothingAims ==
  ASSUME NEW n, NEW L  PROVE Aims(<<>>, L, n)
  <1>1. <<>> \in Seq({}) /\ Len(<<>>) = 0  BY EmptySeq
  <1> QED  BY <1>1 DEF Aims

\* The module status is read for the first diagnostic.
LEMMA StatusAims ==
  ASSUME NEW n, Size("diags") \in Nat, Size("diags") # 0
  PROVE  Aims(Status, {"diags"}, n)
  <1> DEFINE s == Status
  <1>1. s = <<Read("diags", 0, "MODULE_STAT", 0)>>  BY DEF Status
  <1>2. s \in Seq({Read("diags", 0, "MODULE_STAT", 0)}) /\ Len(s) = 1
        /\ s[1] = Read("diags", 0, "MODULE_STAT", 0)
    BY <1>1
  <1>3. s[1].to = <<"diags", 0>>  BY <1>2 DEF Read
  <1>4. 0 \in Places("diags", n)  BY PlacesAre DEF StaticLists
  <1>5. <<"diags", 0>> \in Reach(n)  BY <1>4, PlacesAre
  <1> HIDE DEF s
  <1>6. \A k \in 1..Len(s) : k = 1  BY <1>2
  <1>7. \A k \in 1..Len(s) : s[k].to \in Reach(n) /\ s[k].to[1] \in {"diags"}  BY <1>3, <1>5, <1>6
  <1>8. \A j, k \in 1..Len(s) : j = k  BY <1>6
  <1> QED  BY <1>2, <1>7, <1>8 DEF Aims, s

\* Two diagnoses end the status of a module with a power supply.
LEMMA PowerAims ==
  ASSUME NEW n, Size("diags") = 2, NEW r, NEW L, Aims(r, L, n), "diags" \notin L
  PROVE  Aims((r \o Status) \o PowerTemp, L \cup {"diags"}, n)
  <1> DEFINE one == Read("diags", 0, "MODULE_STAT", 0)  two == Read("diags", 1, "TEMP_PWR", 0)
  <1>1. Status = <<one>> /\ PowerTemp = <<two>>  BY DEF Status, PowerTemp
  <1>2. one.to = <<"diags", 0>>  BY DEF Read
  <1>3. two.to = <<"diags", 1>>  BY DEF Read
  <1>4. Places("diags", n) = 0..(2 - 1)
    <2>1. "diags" \in StaticLists  BY DEF StaticLists
    <2>2. Places("diags", n) = 0..(Size("diags") - 1)  BY <2>1, PlacesAre
    <2> QED  BY <2>2
  <1>5. <<"diags", 0>> \in Reach(n) /\ <<"diags", 1>> \in Reach(n)
    <2>1. 0 \in Places("diags", n) /\ 1 \in Places("diags", n)  BY <1>4
    <2> QED  BY <2>1, PlacesAre
  <1> HIDE DEF one, two
  <1> DEFINE s == <<one>> \o <<two>>
  <1>6. <<one>> \in Seq({one, two}) /\ <<two>> \in Seq({one, two})
        /\ Len(<<one>>) = 1 /\ Len(<<two>>) = 1 /\ <<one>>[1] = one /\ <<two>>[1] = two
    OBVIOUS
  <1>7. /\ s \in Seq({one, two}) /\ Len(s) = 1 + 1
        /\ \A i \in 1..(1 + 1) : s[i] = IF i <= 1 THEN <<one>>[i] ELSE <<two>>[i - 1]
    BY <1>6, ConcatProperties
  <1> HIDE DEF s
  <1>8. Len(s) = 2 /\ s[1] = one /\ s[2] = two  BY <1>6, <1>7
  <1>9. \A k \in 1..Len(s) : k = 1 \/ k = 2  BY <1>8
  <1>10. \A k \in 1..Len(s) : s[k].to = <<"diags", 0>> \/ s[k].to = <<"diags", 1>>
    BY <1>2, <1>3, <1>8, <1>9
  <1>11. \A k \in 1..Len(s) : s[k].to \in Reach(n) /\ s[k].to[1] \in {"diags"}  BY <1>5, <1>10
  <1>12. one.to # two.to  BY <1>2, <1>3
  <1>13. \A j, k \in 1..Len(s) : s[j].to = s[k].to => j = k  BY <1>8, <1>9, <1>12
  <1>14. Aims(s, {"diags"}, n)  BY <1>7, <1>11, <1>13 DEF Aims
  <1>15. L \cap {"diags"} = {}  OBVIOUS
  <1>16. Aims(r \o s, L \cup {"diags"}, n)  BY <1>14, <1>15, AimsJoin
  <1>17. (r \o <<one>>) \o <<two>> = r \o s
    <2>1. PICK X : r \in Seq(X)  BY DEF Aims
    <2> DEFINE Z == X \cup {one, two}  a == <<one>>  b == <<two>>
    <2>2. r \in Seq(Z) /\ a \in Seq(Z) /\ b \in Seq(Z)  BY <2>1
    <2> HIDE DEF Z, a, b
    <2>3. (r \o a) \o b = r \o (a \o b)  BY <2>2, ConcatAssociative
    <2> QED  BY <2>3 DEF a, b, s
  <1> QED  BY <1>1, <1>16, <1>17

\* The set points are read for as many set values as the module has.
LEMMA SetpointsAims ==
  ASSUME NEW n, Size("setvalues") \in 0..2
  PROVE  Aims(Setpoints, {"setvalues"}, n)
  <1> DEFINE both == <<"T_SETP_0", "T_SETP_1">>
             fields == SubSeq(both, 1, Size("setvalues"))
             len == Size("setvalues")
  <1>1. \A i \in 1..len : both[i] \in {"T_SETP_0", "T_SETP_1"}
    <2>1. \A i \in 1..len : i = 1 \/ i = 2  OBVIOUS
    <2> QED  BY <2>1
  <1>2. Len(fields) = IF 1 <= len THEN len - 1 + 1 ELSE 0  BY <1>1, SubSeqProperties
  <1>3. Len(fields) = len /\ len \in Nat  BY <1>2
  <1>4. \A k \in 1..len : k - 1 \in Places("setvalues", n)
    <2>1. Places("setvalues", n) = 0..(len - 1)  BY PlacesAre DEF StaticLists
    <2> QED  BY <1>3, <2>1
  <1>5. Setpoints = Column("setvalues", fields)  BY DEF Setpoints
  <1> HIDE DEF fields, len
  <1> QED  BY <1>3, <1>4, <1>5, ColumnAims

\* A colour LED's switch and its colour are two attributes.
LEMMA ColourAims ==
  ASSUME type \in Types, NEW n
  PROVE  Aims(ColourReads, {"color_leds", "rgb"}, n)
  <1> DEFINE size == Size("color_leds")  reads == ColourReads
  <1>1. size \in Nat  BY SizeIsNat
  <1>2. Places("color_leds", n) = 0..(size - 1) /\ Places("rgb", n) = 0..(size - 1)
    BY PlacesAre DEF StaticLists
  <1>3. reads = [k \in 1..(2 * size) |->
                    IF k % 2 = 1 THEN Read("color_leds", (k - 1) \div 2, "RGB_MASK", (k - 1) \div 2)
                                 ELSE Read("rgb", (k - 1) \div 2, "RGB", (k - 1) \div 2)]
    BY DEF ColourReads
  <1> HIDE DEF size, reads
  <1>4. \A k \in 1..(2 * size) :
            reads[k].to = IF k % 2 = 1 THEN <<"color_leds", (k - 1) \div 2>> ELSE <<"rgb", (k - 1) \div 2>>
    BY <1>3 DEF Read
  <1>50. reads = [k \in 1..(2 * size) |-> reads[k]]  BY <1>3
  <1>51. 2 * size \in Nat  BY <1>1
  <1> DEFINE len == 2 * size  list == reads
  <1>52. len \in Nat /\ list = [k \in 1..len |-> list[k]]  BY <1>50, <1>51
  <1> HIDE DEF len, list
  <1>53. Len(list) = len /\ \E X : list \in Seq(X)  BY <1>52, IsList
  <1>5. Len(reads) = 2 * size /\ \E X : reads \in Seq(X)  BY <1>53 DEF len, list
  <1> DEFINE one == "color_leds"  two == "rgb"
  <1>6. one # two  OBVIOUS
  <1> HIDE DEF one, two
  <1>7. Aims(reads, {one, two}, n)
    <2>1. /\ \A k \in 1..(2 * size) :
              reads[k].to = IF k % 2 = 1 THEN <<one, (k - 1) \div 2>> ELSE <<two, (k - 1) \div 2>>
          /\ Places(one, n) = 0..(size - 1) /\ Places(two, n) = 0..(size - 1)
      BY <1>2, <1>4 DEF one, two
    <2> QED  BY <1>1, <1>5, <1>6, <2>1, AimsPairs
  <1> QED  BY <1>7 DEF one, two, reads

\* A cover's position and its tilt are two attributes, read only for configured covers.
LEMMA CoverAims ==
  ASSUME type \in Types, NEW n
  PROVE  Aims(CoverReads, {"covers", "tilt"}, n)
  <1> DEFINE size == Size("covers")
             reads == [k \in 1..(2 * size) |->
                        IF k % 2 = 1 THEN Read("covers", (k - 1) \div 2, "ROLL_POS", StatusPlace((k - 1) \div 2))
                                     ELSE Read("tilt", (k - 1) \div 2, "BLAD_POS", StatusPlace((k - 1) \div 2))]
             some == {k \in 1..Len(reads) : member[<<"covers", (k - 1) \div 2>>].nmbr >= 0}
  <1>1. size \in Nat  BY SizeIsNat
  <1>2. Places("covers", n) = 0..(size - 1) /\ Places("tilt", n) = 0..(size - 1)
    BY PlacesAre DEF StaticLists, ConfiguredLists
  <1>3. CoverReads = Entries(reads, some)  BY DEF CoverReads
  <1> HIDE DEF size, some
  <1>4. \A k \in 1..(2 * size) :
            reads[k].to = IF k % 2 = 1 THEN <<"covers", (k - 1) \div 2>> ELSE <<"tilt", (k - 1) \div 2>>
    BY DEF Read
  <1>50. reads = [k \in 1..(2 * size) |-> reads[k]]  OBVIOUS
  <1>51. 2 * size \in Nat  BY <1>1
  <1> DEFINE len == 2 * size  list == reads
  <1>52. len \in Nat /\ list = [k \in 1..len |-> list[k]]  BY <1>50, <1>51
  <1> HIDE DEF len, list
  <1>53. Len(list) = len /\ \E X : list \in Seq(X)  BY <1>52, IsList
  <1>5. Len(reads) = 2 * size /\ \E X : reads \in Seq(X)  BY <1>53 DEF len, list
  <1> DEFINE one == "covers"  two == "tilt"
  <1>6. one # two  OBVIOUS
  <1> HIDE DEF one, two, reads
  <1>7. Aims(reads, {one, two}, n)
    <2>1. /\ \A k \in 1..(2 * size) :
              reads[k].to = IF k % 2 = 1 THEN <<one, (k - 1) \div 2>> ELSE <<two, (k - 1) \div 2>>
          /\ Places(one, n) = 0..(size - 1) /\ Places(two, n) = 0..(size - 1)
      BY <1>2, <1>4 DEF one, two
    <2> QED  BY <1>1, <1>5, <1>6, <2>1, AimsPairs
  <1> QED  BY <1>3, <1>7, AimsSome DEF one, two

\* Analogue inputs are skipped, the others read once each.
LEMMA InputAims ==
  ASSUME type \in Types, NEW n
  PROVE  Aims(InputReads, {"inputs"}, n)
  <1> DEFINE row == Row("inputs", "INP", 0)
             some == {i \in 1..Len(row) : member[row[i].to].type # 3}
  <1>1. InputReads = Entries(row, some)  BY DEF InputReads
  <1>2. Aims(row, {"inputs"}, n)  BY RowAims DEF StaticLists, ConfiguredLists
  <1> HIDE DEF row, some
  <1> QED  BY <1>1, <1>2, AimsSome

\* Every flag is read for its own place, whatever its number.
LEMMA FlagAims ==
  ASSUME Len(flags) \in Nat, NEW n
  PROVE  Aims(FlagReads, {"flags"}, n)
  <1> DEFINE len == Len(flags)  reads == FlagReads
             X == {Read("flags", k, "FLAG_LOC", flags[k] - 1) : k \in 1..len}
  <1>1. reads = [k \in 1..len |-> Read("flags", k, "FLAG_LOC", flags[k] - 1)]  BY DEF FlagReads
  <1>2. Places("flags", n) = 1..len  BY PlacesAre
  <1> HIDE DEF len
  <1>3. \A k \in 1..len : reads[k].to = <<"flags", 0 + k>> /\ 0 + k \in Places("flags", n)
    <2> TAKE k \in 1..len
    <2>1. 0 + k = k  OBVIOUS
    <2>2. reads[k].to = <<"flags", k>>  BY <1>1 DEF Read
    <2> QED  BY <1>2, <2>1, <2>2
  <1>4. len \in Nat  BY DEF len
  <1>5. reads \in Seq(X) /\ Len(reads) = len  BY <1>1, <1>4
  <1> HIDE DEF reads, X
  <1> DEFINE list == "flags"  from == 0
  <1>6. from \in Int /\ \A k \in 1..len : reads[k].to = <<list, from + k>> /\ from + k \in Places(list, n)
    BY <1>3
  <1> HIDE DEF list, from
  <1>7. \E Y : reads \in Seq(Y)  BY <1>5
  <1>8. Aims(reads, {list}, n)  BY <1>4, <1>5, <1>6, <1>7, AimsRun
  <1> QED  BY <1>8 DEF reads, list

\* How many members of these lists the kinds have.
LEMMA SizesByKind ==
  ASSUME type \in Types
  PROVE  /\ Is("controller") => /\ Size("sensors") = 6 /\ Size("setvalues") = 2 /\ Size("outputs") = 16
                                /\ Size("analog_outputs") = 1 /\ Size("diags") = 2
                                /\ HasAnalogPins => Size("analogins") = 2
         /\ Is("mini")   => Size("sensors") = 4 /\ Size("setvalues") = 2 /\ Size("diags") = 1
         /\ Is("out")    => Size("diags") = 1
         /\ Is("dimm")   => Size("diags") = 2
         /\ Is("io2")    => Size("diags") = 1
         /\ Is("in")     => Size("diags") = 1 /\ Size("analogins") \in {0, 6}
         /\ Is("detect") => Size("sensors") = 2 /\ Size("diags") = 1
         /\ Is("nature") => Size("sensors") = 6 /\ Size("diags") = 1
         /\ Is("sensor") => Size("sensors") = 1 /\ Size("setvalues") = 1 /\ Size("diags") = 1
         /\ Is("ekey")   => Size("sensors") = 2 /\ Size("diags") = 1
  <1>1. HasAnalogPins => Size("analogins") = 2  BY DEF Size
  <1>2. Is("controller") => /\ Size("sensors") = 6 /\ Size("setvalues") = 2 /\ Size("outputs") = 16
                            /\ Size("analog_outputs") = 1 /\ Size("diags") = 2
    BY DEF Is, Size, Sizes
  <1>3. Is("mini") => Size("sensors") = 4 /\ Size("setvalues") = 2 /\ Size("diags") = 1
    BY DEF Is, Size, Sizes
  <1>4. Is("out") => Size("diags") = 1  BY DEF Is, Size, Sizes
  <1>5. Is("dimm") => Size("diags") = 2  BY DEF Is, Size, Sizes
  <1>6. Is("io2") => Size("diags") = 1  BY DEF Is, Size, Sizes
  <1>7. Is("in") => Size("diags") = 1  BY DEF Is, Size, Sizes
  <1>8. Is("in") => Size("analogins") \in {0, 6}
    <2>1. Is("in") => ~HasAnalogPins  BY DEF Is, Kind, HasAnalogPins
    <2> QED  BY <2>1 DEF Size
  <1>9. Is("detect") => Size("sensors") = 2 /\ Size("diags") = 1  BY DEF Is, Size, Sizes
  <1>10. Is("nature") => Size("sensors") = 6 /\ Size("diags") = 1  BY DEF Is, Size, Sizes
  <1>11. Is("sensor") => Size("sensors") = 1 /\ Size("setvalues") = 1 /\ Size("diags") = 1
    BY DEF Is, Size, Sizes
  <1>12. Is("ekey") => Size("sensors") = 2 /\ Size("diags") = 1  BY DEF Is, Size, Sizes
  <1> QED  BY <1>1, <1>2, <1>3, <1>4, <1>5, <1>6, <1>7, <1>8, <1>9, <1>10, <1>11, <1>12

\* A column that fills its list.
LEMMA ColumnFills ==
  ASSUME type \in Types, NEW n, NEW list \in StaticLists, NEW fields, Len(fields) = Size(list)
  PROVE  Aims(Column(list, fields), {list}, n)
  <1> DEFINE len == Size(list)
  <1>1. len \in Nat /\ Places(list, n) = 0..(len - 1) /\ Len(fields) = len  BY SizeIsNat, PlacesAre
  <1> HIDE DEF len
  <1>2. \A k \in 1..len : k - 1 \in Places(list, n)  BY <1>1
  <1> QED  BY <1>1, <1>2, ColumnAims

\* The smoothed wind is read for the same sensor.
LEMMA NatureAims ==
  ASSUME type \in Types, Is("nature"), NEW n
  PROVE  Aims(NatureReads, {"sensors", "diags"}, n)
  <1> DEFINE fields == <<"TEMP_ROOM", "HUM", "LUM", "WIND", "RAIN", "WINDP">>
             reads == Column("sensors", fields)
             wind == Smoothed(value[<<"sensors", 3>>], reads[4].is)
             new == [reads EXCEPT ![4].is = wind]
  <1>1. Len(fields) = 6  OBVIOUS
  <1>2. Size("sensors") = 6 /\ Size("diags") = 1  BY SizesByKind
  <1>3. Aims(reads, {"sensors"}, n)  BY <1>1, <1>2, ColumnFills DEF StaticLists
  <1>4. reads = [k \in 1..6 |-> Read("sensors", k - 1, fields[k], 0)]  BY <1>1 DEF Column
  <1>5. NatureReads = new \o Status  BY DEF NatureReads
  <1> HIDE DEF wind, fields
  <1>6. \A k \in 1..6 : reads[k].to = <<"sensors", k - 1>>  BY <1>4 DEF Read
  <1>7. reads[4] = [to |-> reads[4].to, from |-> reads[4].from, is |-> reads[4].is]
    BY <1>4 DEF Read
  <1> HIDE DEF reads
  <1>8. new = [k \in 1..6 |-> IF k = 4 THEN [reads[4] EXCEPT !.is = wind] ELSE reads[k]]
    BY <1>4
  <1>9. [reads[4] EXCEPT !.is = wind].to = reads[4].to  BY <1>7
  <1> HIDE DEF new
  <1>10. \A k \in 1..6 : new[k].to = reads[k].to  BY <1>8, <1>9
  <1>11. new = [k \in 1..6 |-> new[k]]  BY <1>8
  <1>12. Len(new) = 6 /\ \E X : new \in Seq(X)  BY <1>11, IsList
  <1>13. Len(reads) = 6
    <2>1. reads = [k \in 1..6 |-> reads[k]]  BY <1>4
    <2> QED  BY <2>1, IsList
  <1>14. Aims(new, {"sensors"}, n)  BY <1>3, <1>10, <1>12, <1>13 DEF Aims
  <1>15. Aims(Status, {"diags"}, n)  BY <1>2, StatusAims
  <1>16. {"sensors"} \cap {"diags"} = {} /\ {"sensors"} \cup {"diags"} = {"sensors", "diags"}  OBVIOUS
  <1> QED  BY <1>5, <1>14, <1>15, <1>16, AimsJoin

\* A barred finger is read for the same two sensors as any other.
LEMMA EkeyAims ==
  ASSUME type \in Types, Is("ekey"), NEW n
  PROVE  Aims(EkeyReads, {"sensors", "diags"}, n)
  <1> DEFINE key == IF <<"KEY_ID", 0>> \in Hot[type] THEN KeyPair(cell[<<"KEY_ID", 0>>]) ELSE <<0, 0>>
             Take(i, v) == [to |-> <<"sensors", i>>, from |-> <<"KEY_ID", 0>>, is |-> v]
             barred == <<Take(0, -key[1]), Take(1, key[2] - 128)>>
             plain == <<Take(0, key[1]), Take(1, key[2])>>
             reads == IF key[2] > 10 THEN barred ELSE plain
  <1>1. EkeyReads = reads \o Status  BY DEF EkeyReads
  <1>2. Size("sensors") = 2 /\ Size("diags") = 1  BY SizesByKind
  <1>3. <<"sensors", 0>> \in Reach(n) /\ <<"sensors", 1>> \in Reach(n)
    <2>1. "sensors" \in StaticLists  BY DEF StaticLists
    <2>2. Places("sensors", n) = 0..(Size("sensors") - 1)  BY <2>1, PlacesAre
    <2>3. 0 \in Places("sensors", n) /\ 1 \in Places("sensors", n)  BY <1>2, <2>2
    <2> QED  BY <2>3, PlacesAre
  <1>4. ASSUME NEW v, NEW w  PROVE Aims(<<Take(0, v), Take(1, w)>>, {"sensors"}, n)
    <2> DEFINE one == Take(0, v)  two == Take(1, w)  s == <<one, two>>
    <2>1. one.to = <<"sensors", 0>> /\ two.to = <<"sensors", 1>>  OBVIOUS
    <2> HIDE DEF one, two
    <2>2. s \in Seq({one, two}) /\ Len(s) = 2 /\ s[1] = one /\ s[2] = two  OBVIOUS
    <2> HIDE DEF s
    <2>3. \A k \in 1..Len(s) : k = 1 \/ k = 2  BY <2>2
    <2>4. \A k \in 1..Len(s) : s[k].to = <<"sensors", 0>> \/ s[k].to = <<"sensors", 1>>
      BY <2>1, <2>2, <2>3
    <2>5. \A k \in 1..Len(s) : s[k].to \in Reach(n) /\ s[k].to[1] \in {"sensors"}  BY <1>3, <2>4
    <2>6. one.to # two.to  BY <2>1
    <2>7. \A j, k \in 1..Len(s) : s[j].to = s[k].to => j = k  BY <2>2, <2>3, <2>6
    <2>8. Aims(s, {"sensors"}, n)  BY <2>2, <2>5, <2>7 DEF Aims
    <2> QED  BY <2>8 DEF s, one, two
  <1>5. Aims(barred, {"sensors"}, n) /\ Aims(plain, {"sensors"}, n)  BY <1>4
  <1> HIDE DEF barred, plain, key
  <1>6. Aims(reads, {"sensors"}, n)  BY <1>5
  <1>7. Aims(Status, {"diags"}, n)  BY <1>2, StatusAims
  <1>8. {"sensors"} \cap {"diags"} = {} /\ {"sensors"} \cup {"diags"} = {"sensors", "diags"}  OBVIOUS
  <1> HIDE DEF reads
  <1> QED  BY <1>1, <1>6, <1>7, <1>8, AimsJoin

\* The controller's parser reads no attribute twice: its parts are for different lists.
LEMMA ControllerAims ==
  ASSUME type \in Types, Is("controller"), Len(flags) \in Nat, NEW n
  PROVE  Aims(ControllerReads, {"sensors", "setvalues", "outputs", "analog_outputs", "dimmers", "leds",
              "color_leds", "rgb", "covers", "tilt", "inputs", "flags", "analogins", "diags"}, n)
  <1> DEFINE a == Column("sensors", <<"MOV", "TEMP_ROOM", "TEMP_EXT", "HUM", "LUM", "AQI">>)
             b == Front(Row("outputs", "OUT", 0))
             c == Column("analog_outputs", <<"AOUT_1">>)
             d == Row("dimmers", "DIM", 0)
             e == Row("leds", "OUT", 15)
             f == IF HasAnalogPins THEN Column("analogins", <<"AD_1", "AD_2">>) ELSE <<>>
  <1>0. /\ {"sensors", "outputs", "analog_outputs", "dimmers", "leds", "analogins"} \subseteq StaticLists
        /\ Size("sensors") = 6 /\ Size("setvalues") = 2 /\ Size("outputs") = 16
        /\ Size("analog_outputs") = 1 /\ Size("diags") = 2 /\ (HasAnalogPins => Size("analogins") = 2)
    BY SizesByKind DEF StaticLists, ConfiguredLists
  <1>1. Aims(a, {"sensors"}, n)
    <2>1. Len(<<"MOV", "TEMP_ROOM", "TEMP_EXT", "HUM", "LUM", "AQI">>) = 6  OBVIOUS
    <2> QED  BY <1>0, <2>1, ColumnFills
  <1>2. Aims(Setpoints, {"setvalues"}, n)  BY <1>0, SetpointsAims
  <1>3. Aims(b, {"outputs"}, n)
    <2>1. Aims(Row("outputs", "OUT", 0), {"outputs"}, n) /\ Len(Row("outputs", "OUT", 0)) = 16
      BY <1>0, RowAims
    <2>2. 16 # 0  OBVIOUS
    <2> QED  BY <2>1, <2>2, FrontAims
  <1>4. Aims(c, {"analog_outputs"}, n)
    <2>1. Len(<<"AOUT_1">>) = 1  OBVIOUS
    <2> QED  BY <1>0, <2>1, ColumnFills
  <1>5. Aims(d, {"dimmers"}, n) /\ Aims(e, {"leds"}, n)  BY <1>0, RowAims
  <1>6. Aims(ColourReads, {"color_leds", "rgb"}, n) /\ Aims(CoverReads, {"covers", "tilt"}, n)
        /\ Aims(InputReads, {"inputs"}, n) /\ Aims(FlagReads, {"flags"}, n)
    BY ColourAims, CoverAims, InputAims, FlagAims
  <1>7. Aims(f, {"analogins"}, n)
    <2>1. CASE HasAnalogPins
      <3>1. Len(<<"AD_1", "AD_2">>) = 2  OBVIOUS
      <3> QED  BY <1>0, <2>1, <3>1, ColumnFills
    <2>2. CASE ~HasAnalogPins
      BY <2>2, NothingAims
    <2> QED  BY <2>1, <2>2
  <1>8. ControllerReads = ((((((((((((a \o Setpoints) \o b) \o c) \o d) \o e) \o ColourReads) \o CoverReads)
                             \o InputReads) \o FlagReads) \o f) \o Status) \o PowerTemp)
    BY DEF ControllerReads
  <1> HIDE DEF a, b, c, d, e, f
  <1> DEFINE r1 == a \o Setpoints  r2 == r1 \o b  r3 == r2 \o c  r4 == r3 \o d  r5 == r4 \o e
             r6 == r5 \o ColourReads  r7 == r6 \o CoverReads  r8 == r7 \o InputReads
             r9 == r8 \o FlagReads  r10 == r9 \o f
             L1 == {"sensors"} \cup {"setvalues"}  L2 == L1 \cup {"outputs"}
             L3 == L2 \cup {"analog_outputs"}  L4 == L3 \cup {"dimmers"}  L5 == L4 \cup {"leds"}
             L6 == L5 \cup {"color_leds", "rgb"}  L7 == L6 \cup {"covers", "tilt"}
             L8 == L7 \cup {"inputs"}  L9 == L8 \cup {"flags"}  L10 == L9 \cup {"analogins"}
  <1>9. /\ {"sensors"} \cap {"setvalues"} = {} /\ L1 \cap {"outputs"} = {}
        /\ L2 \cap {"analog_outputs"} = {} /\ L3 \cap {"dimmers"} = {} /\ L4 \cap {"leds"} = {}
        /\ L5 \cap {"color_leds", "rgb"} = {} /\ L6 \cap {"covers", "tilt"} = {}
        /\ L7 \cap {"inputs"} = {} /\ L8 \cap {"flags"} = {} /\ L9 \cap {"analogins"} = {}
        /\ "diags" \notin L10
    OBVIOUS
  <1> HIDE DEF L1, L2, L3, L4, L5, L6, L7, L8, L9, L10
  <1>10. Aims(r1, L1, n)  BY <1>1, <1>2, <1>9, AimsJoin DEF L1
  <1> HIDE DEF r1
  <1>11. Aims(r2, L2, n)  BY <1>3, <1>9, <1>10, AimsJoin DEF L2
  <1> HIDE DEF r2
  <1>12. Aims(r3, L3, n)  BY <1>4, <1>9, <1>11, AimsJoin DEF L3
  <1> HIDE DEF r3
  <1>13. Aims(r4, L4, n)  BY <1>5, <1>9, <1>12, AimsJoin DEF L4
  <1> HIDE DEF r4
  <1>14. Aims(r5, L5, n)  BY <1>5, <1>9, <1>13, AimsJoin DEF L5
  <1> HIDE DEF r5
  <1>15. Aims(r6, L6, n)  BY <1>6, <1>9, <1>14, AimsJoin DEF L6
  <1> HIDE DEF r6
  <1>16. Aims(r7, L7, n)  BY <1>6, <1>9, <1>15, AimsJoin DEF L7
  <1> HIDE DEF r7
  <1>17. Aims(r8, L8, n)  BY <1>6, <1>9, <1>16, AimsJoin DEF L8
  <1> HIDE DEF r8
  <1>18. Aims(r9, L9, n)  BY <1>6, <1>9, <1>17, AimsJoin DEF L9
  <1> HIDE DEF r9
  <1>19. Aims(r10, L10, n)  BY <1>7, <1>9, <1>18, AimsJoin DEF L10
  <1> HIDE DEF r10
  <1>20. ControllerReads = (r10 \o Status) \o PowerTemp
    BY <1>8 DEF r10, r9, r8, r7, r6, r5, r4, r3, r2, r1
  <1>21. Aims(ControllerReads, L10 \cup {"diags"}, n)  BY <1>0, <1>9, <1>19, <1>20, PowerAims
  <1>22. L10 \cup {"diags"} = {"sensors", "setvalues", "outputs", "analog_outputs", "dimmers", "leds",
              "color_leds", "rgb", "covers", "tilt", "inputs", "flags", "analogins", "diags"}
    BY DEF L10, L9, L8, L7, L6, L5, L4, L3, L2, L1
  <1> QED  BY <1>21, <1>22

\* Nothing but the counters' and the mode's lists.
KindLists == StaticLists \cup {"rgb", "tilt", "flags"}

\* The same of the mini's parser.
LEMMA MiniAims ==
  ASSUME type \in Types, Is("mini"), Len(flags) \in Nat, NEW n
  PROVE  Aims(MiniReads, KindLists, n)
  <1> DEFINE a == Column("sensors", <<"MOV", "TEMP_ROOM", "LUM", "AQI">>)
             b == Row("outputs", "OUT", 0)
  <1>0. /\ {"sensors", "outputs"} \subseteq StaticLists
        /\ Size("sensors") = 4 /\ Size("setvalues") = 2 /\ Size("diags") = 1
    BY SizesByKind DEF StaticLists, ConfiguredLists
  <1>1. Aims(a, {"sensors"}, n)
    <2>1. Len(<<"MOV", "TEMP_ROOM", "LUM", "AQI">>) = 4  OBVIOUS
    <2> QED  BY <1>0, <2>1, ColumnFills
  <1>2. Aims(Setpoints, {"setvalues"}, n)  BY <1>0, SetpointsAims
  <1>3. Aims(b, {"outputs"}, n)  BY <1>0, RowAims
  <1>4. Aims(ColourReads, {"color_leds", "rgb"}, n) /\ Aims(InputReads, {"inputs"}, n)
        /\ Aims(FlagReads, {"flags"}, n) /\ Aims(Status, {"diags"}, n)
    BY <1>0, ColourAims, InputAims, FlagAims, StatusAims
  <1>5. MiniReads = (((((a \o Setpoints) \o b) \o ColourReads) \o InputReads) \o FlagReads) \o Status
    BY DEF MiniReads
  <1> HIDE DEF a, b
  <1> DEFINE r1 == a \o Setpoints  r2 == r1 \o b  r3 == r2 \o ColourReads  r4 == r3 \o InputReads
             r5 == r4 \o FlagReads
             L1 == {"sensors"} \cup {"setvalues"}  L2 == L1 \cup {"outputs"}
             L3 == L2 \cup {"color_leds", "rgb"}  L4 == L3 \cup {"inputs"}  L5 == L4 \cup {"flags"}
             L6 == L5 \cup {"diags"}
  <1>6. /\ {"sensors"} \cap {"setvalues"} = {} /\ L1 \cap {"outputs"} = {}
        /\ L2 \cap {"color_leds", "rgb"} = {} /\ L3 \cap {"inputs"} = {} /\ L4 \cap {"flags"} = {}
        /\ L5 \cap {"diags"} = {}
    OBVIOUS
  <1>7. L6 \subseteq KindLists  BY DEF KindLists, StaticLists, ConfiguredLists
  <1> HIDE DEF L1, L2, L3, L4, L5, L6
  <1>10. Aims(r1, L1, n)  BY <1>1, <1>2, <1>6, AimsJoin DEF L1
  <1> HIDE DEF r1
  <1>11. Aims(r2, L2, n)  BY <1>3, <1>6, <1>10, AimsJoin DEF L2
  <1> HIDE DEF r2
  <1>12. Aims(r3, L3, n)  BY <1>4, <1>6, <1>11, AimsJoin DEF L3
  <1> HIDE DEF r3
  <1>13. Aims(r4, L4, n)  BY <1>4, <1>6, <1>12, AimsJoin DEF L4
  <1> HIDE DEF r4
  <1>14. Aims(r5, L5, n)  BY <1>4, <1>6, <1>13, AimsJoin DEF L5
  <1> HIDE DEF r5
  <1>15. Aims(r5 \o Status, L6, n)  BY <1>4, <1>6, <1>14, AimsJoin DEF L6
  <1>16. MiniReads = r5 \o Status  BY <1>5 DEF r5, r4, r3, r2, r1
  <1> QED  BY <1>7, <1>15, <1>16, AimsWider

\* The same of the parsers of the modules with outputs.
LEMMA OutputKindsAim ==
  ASSUME type \in Types, NEW n
  PROVE  /\ Is("out")  => Aims(OutReads, KindLists, n)
         /\ Is("io2")  => Aims(Io2Reads, KindLists, n)
         /\ Is("dimm") => Aims(DimmReads, KindLists, n)
  <1> DEFINE a == Row("outputs", "OUT", 0)  b == Row("dimmers", "DIM", 0)
  <1>1. Aims(a, {"outputs"}, n) /\ Aims(b, {"dimmers"}, n)
        /\ Aims(CoverReads, {"covers", "tilt"}, n) /\ Aims(InputReads, {"inputs"}, n)
    BY RowAims, CoverAims, InputAims DEF StaticLists, ConfiguredLists
  <1>2. Size("diags") = 1 => Aims(Status, {"diags"}, n)  BY StatusAims
  <1>3. {"outputs", "dimmers", "covers", "tilt", "inputs", "diags"} \subseteq KindLists
    BY DEF KindLists, StaticLists, ConfiguredLists
  <1> HIDE DEF a, b
  <1>4. ASSUME Is("out")  PROVE Aims(OutReads, KindLists, n)
    <2> DEFINE r1 == a \o CoverReads
               L1 == {"outputs"} \cup {"covers", "tilt"}  L2 == L1 \cup {"diags"}
    <2>1. {"outputs"} \cap {"covers", "tilt"} = {} /\ L1 \cap {"diags"} = {}  OBVIOUS
    <2>2. L2 \subseteq KindLists  BY <1>3
    <2> HIDE DEF L1, L2
    <2>3. Aims(r1, L1, n)  BY <1>1, <2>1, AimsJoin DEF L1
    <2>4. OutReads = r1 \o Status  BY DEF OutReads, a
    <2> HIDE DEF r1
    <2>5. Aims(Status, {"diags"}, n)  BY <1>2, <1>4, SizesByKind
    <2>6. Aims(r1 \o Status, L2, n)  BY <2>1, <2>3, <2>5, AimsJoin DEF L2
    <2> QED  BY <2>2, <2>4, <2>6, AimsWider
  <1>5. ASSUME Is("io2")  PROVE Aims(Io2Reads, KindLists, n)
    <2> DEFINE r1 == InputReads \o a  r2 == r1 \o CoverReads
               L1 == {"inputs"} \cup {"outputs"}  L2 == L1 \cup {"covers", "tilt"}  L3 == L2 \cup {"diags"}
    <2>1. {"inputs"} \cap {"outputs"} = {} /\ L1 \cap {"covers", "tilt"} = {} /\ L2 \cap {"diags"} = {}
      OBVIOUS
    <2>2. L3 \subseteq KindLists  BY <1>3
    <2> HIDE DEF L1, L2, L3
    <2>3. Aims(r1, L1, n)  BY <1>1, <2>1, AimsJoin DEF L1
    <2>4. Io2Reads = r2 \o Status  BY DEF Io2Reads, a
    <2> HIDE DEF r1
    <2>5. Aims(r2, L2, n)  BY <1>1, <2>1, <2>3, AimsJoin DEF L2
    <2> HIDE DEF r2
    <2>6. Aims(Status, {"diags"}, n)  BY <1>2, <1>5, SizesByKind
    <2>7. Aims(r2 \o Status, L3, n)  BY <2>1, <2>5, <2>6, AimsJoin DEF L3
    <2> QED  BY <2>2, <2>4, <2>7, AimsWider
  <1>6. ASSUME Is("dimm")  PROVE Aims(DimmReads, KindLists, n)
    <2> DEFINE r1 == a \o b
               L1 == {"outputs"} \cup {"dimmers"}  L2 == L1 \cup {"diags"}
    <2>1. {"outputs"} \cap {"dimmers"} = {} /\ "diags" \notin L1  OBVIOUS
    <2>2. L2 \subseteq KindLists  BY <1>3
    <2> HIDE DEF L1, L2
    <2>3. Aims(r1, L1, n)  BY <1>1, <2>1, AimsJoin DEF L1
    <2>4. DimmReads = (r1 \o Status) \o PowerTemp  BY DEF DimmReads, a, b
    <2> HIDE DEF r1
    <2>5. Size("diags") = 2  BY <1>6, SizesByKind
    <2>6. Aims((r1 \o Status) \o PowerTemp, L2, n)  BY <2>1, <2>3, <2>5, PowerAims DEF L2
    <2> QED  BY <2>2, <2>4, <2>6, AimsWider
  <1> QED  BY <1>4, <1>5, <1>6

\* The same of the parsers of the modules with inputs or sensors only.
LEMMA SensorKindsAim ==
  ASSUME type \in Types, NEW n
  PROVE  /\ Is("in")     => Aims(InReads, KindLists, n)
         /\ Is("detect") => Aims(DetectReads, KindLists, n)
         /\ Is("sensor") => Aims(SensorReads, KindLists, n)
  <1>1. {"inputs", "analogins", "sensors", "setvalues", "diags"} \subseteq KindLists
    BY DEF KindLists, StaticLists, ConfiguredLists
  <1>2. Size("diags") = 1 => Aims(Status, {"diags"}, n)  BY StatusAims
  <1>3. "sensors" \in StaticLists /\ "analogins" \in StaticLists  BY DEF StaticLists, ConfiguredLists
  <1>4. ASSUME Is("in")  PROVE Aims(InReads, KindLists, n)
    <2> DEFINE all == <<"AD_1", "AD_2", "GEN_1", "GEN_2", "GEN_3", "GEN_4">>
               len == Size("analogins")
               fields == SubSeq(all, 1, len)
               a == Column("analogins", fields)
               r1 == InputReads \o a
               L1 == {"inputs"} \cup {"analogins"}  L2 == L1 \cup {"diags"}
    <2>1. len \in {0, 6}  BY <1>4, SizesByKind
    <2>2. \A i \in 1..len : all[i] \in {all[j] : j \in 1..6}
      <3> HIDE DEF all
      <3> QED  BY <2>1
    <2>3. Len(fields) = IF 1 <= len THEN len - 1 + 1 ELSE 0
      <3> DEFINE X == {all[j] : j \in 1..6}  from == 1
      <3>1. len \in Int /\ from \in Int /\ \A i \in from..len : all[i] \in X  BY <2>1, <2>2
      <3>2. fields = SubSeq(all, from, len)  OBVIOUS
      <3> HIDE DEF X, all, len, fields
      <3>3. Len(fields) = IF from <= len THEN len - from + 1 ELSE 0  BY <3>1, <3>2, SubSeqProperties
      <3> QED  BY <3>3
    <2>4. Len(fields) = len  BY <2>1, <2>3
    <2> HIDE DEF fields
    <2>5. Aims(a, {"analogins"}, n)  BY <1>3, <2>4, ColumnFills
    <2>6. InReads = r1 \o Status  BY DEF InReads, fields
    <2> HIDE DEF a, len
    <2>7. {"inputs"} \cap {"analogins"} = {} /\ L1 \cap {"diags"} = {}  OBVIOUS
    <2>8. L2 \subseteq KindLists  BY <1>1
    <2> HIDE DEF L1, L2
    <2>9. Aims(r1, L1, n)  BY <2>5, <2>7, InputAims, AimsJoin DEF L1
    <2> HIDE DEF r1
    <2>10. Aims(Status, {"diags"}, n)  BY <1>2, <1>4, SizesByKind
    <2>11. Aims(r1 \o Status, L2, n)  BY <2>7, <2>9, <2>10, AimsJoin DEF L2
    <2> QED  BY <2>6, <2>8, <2>11, AimsWider
  <1>5. ASSUME Is("detect")  PROVE Aims(DetectReads, KindLists, n)
    <2> DEFINE a == Column("sensors", <<"MOV", "LUM">>)
    <2>1. Size("sensors") = 2 /\ Size("diags") = 1  BY <1>5, SizesByKind
    <2>2. Len(<<"MOV", "LUM">>) = 2  OBVIOUS
    <2>3. Aims(a, {"sensors"}, n)  BY <1>3, <2>1, <2>2, ColumnFills
    <2>4. DetectReads = a \o Status  BY DEF DetectReads
    <2>5. {"sensors"} \cap {"diags"} = {}  OBVIOUS
    <2> HIDE DEF a
    <2>6. Aims(a \o Status, {"sensors"} \cup {"diags"}, n)  BY <1>2, <2>1, <2>3, <2>5, AimsJoin
    <2>7. {"sensors"} \cup {"diags"} \subseteq KindLists  BY <1>1
    <2> QED  BY <2>4, <2>6, <2>7, AimsWider
  <1>6. ASSUME Is("sensor")  PROVE Aims(SensorReads, KindLists, n)
    <2> DEFINE a == Column("sensors", <<"TEMP_ROOM">>)
               r1 == a \o Setpoints
               L1 == {"sensors"} \cup {"setvalues"}  L2 == L1 \cup {"diags"}
    <2>1. Size("sensors") = 1 /\ Size("setvalues") = 1 /\ Size("diags") = 1  BY <1>6, SizesByKind
    <2>2. Len(<<"TEMP_ROOM">>) = 1  OBVIOUS
    <2>3. Aims(a, {"sensors"}, n)  BY <1>3, <2>1, <2>2, ColumnFills
    <2>4. SensorReads = r1 \o Status  BY DEF SensorReads
    <2> HIDE DEF a
    <2>5. {"sensors"} \cap {"setvalues"} = {} /\ L1 \cap {"diags"} = {}  OBVIOUS
    <2>6. L2 \subseteq KindLists  BY <1>1
    <2> HIDE DEF L1, L2
    <2>7. Aims(Setpoints, {"setvalues"}, n)  BY <2>1, SetpointsAims
    <2>8. Aims(r1, L1, n)  BY <2>3, <2>5, <2>7, AimsJoin DEF L1
    <2> HIDE DEF r1
    <2>9. Aims(r1 \o Status, L2, n)  BY <1>2, <2>1, <2>5, <2>8, AimsJoin DEF L2
    <2> QED  BY <2>4, <2>6, <2>9, AimsWider
  <1> QED  BY <1>4, <1>5, <1>6

\* The reads of the parser of the module's kind.
KindReads ==
    CASE Is("controller") -> ControllerReads
      [] Is("mini")   -> MiniReads
      [] Is("out")    -> OutReads
      [] Is("dimm")   -> DimmReads
      [] Is("io2")    -> Io2Reads
      [] Is("in")     -> InReads
      [] Is("detect") -> DetectReads
      [] Is("nature") -> NatureReads
      [] Is("sensor") -> SensorReads
      [] Is("ekey")   -> EkeyReads
      [] Is("gsm")    -> <<>>

\* One parser for each kind.
LEMMA KindReadsAre ==
  ASSUME type \in Types
  PROVE  /\ Is("controller") => KindReads = ControllerReads
         /\ Is("mini")   => KindReads = MiniReads
         /\ Is("out")    => KindReads = OutReads
         /\ Is("dimm")   => KindReads = DimmReads
         /\ Is("io2")    => KindReads = Io2Reads
         /\ Is("in")     => KindReads = InReads
         /\ Is("detect") => KindReads = DetectReads
         /\ Is("nature") => KindReads = NatureReads
         /\ Is("sensor") => KindReads = SensorReads
         /\ Is("ekey")   => KindReads = EkeyReads
         /\ Is("gsm")    => KindReads = <<>>
  BY DEF KindReads, Is

\* No kind's parser reads an attribute twice, or one the module lacks.
LEMMA KindAims ==
  ASSUME type \in Types, Len(flags) \in Nat, NEW n
  PROVE  Aims(KindReads, KindLists, n)
  <1>1. Is("controller") \/ Is("dimm") \/ Is("io2") \/ Is("out") \/ Is("mini") \/ Is("in")
        \/ Is("detect") \/ Is("nature") \/ Is("sensor") \/ Is("ekey") \/ Is("gsm")
    BY KindOf DEF Is, Kinds
  <1>2. CASE Is("controller")
    <2> DEFINE L == {"sensors", "setvalues", "outputs", "analog_outputs", "dimmers", "leds",
              "color_leds", "rgb", "covers", "tilt", "inputs", "flags", "analogins", "diags"}
    <2>1. Aims(ControllerReads, L, n)  BY <1>2, ControllerAims
    <2>2. L \subseteq KindLists  BY DEF KindLists, StaticLists, ConfiguredLists
    <2>3. KindReads = ControllerReads  BY <1>2, KindReadsAre
    <2> HIDE DEF L
    <2> QED  BY <2>1, <2>2, <2>3, AimsWider
  <1>3. CASE Is("mini")  BY <1>3, KindReadsAre, MiniAims
  <1>4. CASE Is("out") \/ Is("io2") \/ Is("dimm")  BY <1>4, KindReadsAre, OutputKindsAim
  <1>5. CASE Is("in") \/ Is("detect") \/ Is("sensor")  BY <1>5, KindReadsAre, SensorKindsAim
  <1>6. {"sensors", "diags"} \subseteq KindLists  BY DEF KindLists, StaticLists
  <1>7. CASE Is("nature")
    <2>1. Aims(NatureReads, {"sensors", "diags"}, n)  BY <1>7, NatureAims
    <2> QED  BY <1>6, <1>7, <2>1, KindReadsAre, AimsWider
  <1>8. CASE Is("ekey")
    <2>1. Aims(EkeyReads, {"sensors", "diags"}, n)  BY <1>8, EkeyAims
    <2> QED  BY <1>6, <1>8, <2>1, KindReadsAre, AimsWider
  <1>9. CASE Is("gsm")  BY <1>9, KindReadsAre, NothingAims
  <1> QED  BY <1>1, <1>2, <1>3, <1>4, <1>5, <1>7, <1>8, <1>9

\* A list of counters: none is found twice, one stands in if there are none.
Found(list) ==
    /\ list \in Seq(Nat) /\ list # <<>>
    /\ \A i, j \in 1..Len(list) : list[i] = list[j] => i = j

\* The first status finds each counter once, and no later one finds any.
LEMMA DiscoveredIs ==
  ASSUME logic = <<>> \/ Found(logic)
  PROVE  Found(Discovered) /\ (logic # <<>> => Discovered = logic)
  <1> DEFINE units == [i \in 1..10 |-> i - 1]
             places == {i \in 1..10 : i - 1 \in counters}
             found == Entries(units, places)
  <1>1. Discovered = IF logic # <<>> THEN logic ELSE IF found = <<>> THEN <<0>> ELSE found
    BY DEF Discovered, IsFirstStatus
  <1>2. units \in Seq(Nat) /\ Len(units) = 10  OBVIOUS
  <1>3. \A i \in 1..10 : units[i] = i - 1  OBVIOUS
  <1> HIDE DEF units, places
  <1>4. found \in Seq(Nat) /\ \E f : Picks(f, found, units, places, 10)
    BY <1>2, EntriesPick
  <1>5. PICK f : Picks(f, found, units, places, 10)  BY <1>4
  <1> HIDE DEF found
  <1>6. /\ f \in [1..Len(found) -> 1..10]
        /\ \A k \in 1..Len(found) : found[k] = units[f[k]]
        /\ \A j, k \in 1..Len(found) : j < k => f[j] < f[k]
    BY <1>5 DEF Picks
  <1>7. \A k \in 1..Len(found) : f[k] \in 1..10 /\ found[k] = f[k] - 1  BY <1>3, <1>6
  <1>8. \A j, k \in 1..Len(found) : found[j] = found[k] => j = k
    <2> TAKE j, k \in 1..Len(found)
    <2>1. Len(found) \in Nat  BY <1>4
    <2>20. f[j] \in Int /\ f[k] \in Int /\ found[j] = f[j] - 1 /\ found[k] = f[k] - 1  BY <1>7
    <2>2. found[j] = found[k] => f[j] = f[k]  BY <2>20
    <2>3. f[j] = f[k] => ~(j < k) /\ ~(k < j)  BY <1>6, <1>7
    <2> QED  BY <2>1, <2>2, <2>3
  <1>9. found # <<>> => Found(found)  BY <1>4, <1>8 DEF Found
  <1>10. Found(<<0>>)
    <2>1. <<0>> \in Seq(Nat) /\ Len(<<0>>) = 1 /\ <<0>> # <<>>  OBVIOUS
    <2>2. \A i, j \in 1..1 : i = j  OBVIOUS
    <2> QED  BY <2>1, <2>2 DEF Found
  <1> QED  BY <1>1, <1>9, <1>10

\* apply_status: every read is for an attribute the module has when its counters are
\* discovered, all of these among them, and none for an attribute twice.
LEMMA ReadsAim ==
  ASSUME type \in Types, Len(flags) \in Nat, Found(Discovered)
  PROVE  /\ Aims(Reads, {"mode", "logic"} \cup KindLists, Len(Discovered))
         /\ \A i \in 1..Len(Discovered) : \E k \in 1..Len(Reads) : Reads[k].to = <<"logic", i>>
  <1> DEFINE n == Len(Discovered)
             mode == <<Read("mode", 0, "MODE", 0)>>
             units == [i \in 1..n |-> Read("logic", i, "COUNTER_VAL", Discovered[i])]
  <1>0. n \in Nat  BY DEF Found
  <1>1. Reads = (mode \o units) \o KindReads  BY DEF Reads, KindReads
  <1> HIDE DEF n
  <1>2. Aims(mode, {"mode"}, n) /\ Len(mode) = 1
    <2> DEFINE one == Read("mode", 0, "MODE", 0)
    <2>1. one.to = <<"mode", 0>>  BY DEF Read
    <2> HIDE DEF one
    <2>2. mode \in Seq({one}) /\ Len(mode) = 1 /\ mode[1] = one  BY DEF one
    <2>3. 0 \in Places("mode", n)  BY PlacesAre
    <2>4. <<"mode", 0>> \in Reach(n)  BY <2>3, PlacesAre
    <2> HIDE DEF mode
    <2>5. \A k \in 1..Len(mode) : k = 1  BY <2>2
    <2>6. \A k \in 1..Len(mode) : mode[k].to \in Reach(n) /\ mode[k].to[1] \in {"mode"}
      BY <2>1, <2>2, <2>4, <2>5
    <2>7. \A j, k \in 1..Len(mode) : j = k  BY <2>5
    <2> QED  BY <2>2, <2>6, <2>7 DEF Aims
  <1>3. Len(units) = n /\ \E X : units \in Seq(X)
    <2> DEFINE s == units
    <2>1. s = [k \in 1..n |-> s[k]]  OBVIOUS
    <2> HIDE DEF s
    <2>2. Len(s) = n /\ \E X : s \in Seq(X)  BY <1>0, <2>1, IsList
    <2> QED  BY <2>2 DEF s
  <1>4. \A k \in 1..n : units[k].to = <<"logic", k>>
    <2> TAKE k \in 1..n
    <2>1. units[k] = Read("logic", k, "COUNTER_VAL", Discovered[k])  OBVIOUS
    <2> QED  BY <2>1 DEF Read
  <1> HIDE DEF units, mode
  <1>5. Aims(units, {"logic"}, n)
    <2> DEFINE list == "logic"  from == 0
    <2>1. Places("logic", n) = 1..n  BY PlacesAre
    <2>2. \A k \in 1..n : units[k].to = <<list, from + k>> /\ from + k \in Places(list, n)
      <3> TAKE k \in 1..n
      <3>1. 0 + k = k  OBVIOUS
      <3> QED  BY <1>4, <2>1, <3>1
    <2>3. from \in Int  OBVIOUS
    <2> HIDE DEF list, from
    <2>4. Aims(units, {list}, n)  BY <1>0, <1>3, <2>2, <2>3, AimsRun
    <2> QED  BY <2>4 DEF list
  <1>6. Aims(KindReads, KindLists, n)  BY KindAims
  <1>7. {"mode"} \cap {"logic"} = {} /\ ({"mode"} \cup {"logic"}) \cap KindLists = {}
        /\ {"mode", "logic"} \cup KindLists = ({"mode"} \cup {"logic"}) \cup KindLists
    BY DEF KindLists, StaticLists, ConfiguredLists
  <1> DEFINE head == mode \o units  heads == {"mode"} \cup {"logic"}
  <1>8. Aims(head, heads, n)  BY <1>2, <1>5, <1>7, AimsJoin
  <1>9. /\ Len(head) = 1 + n
        /\ \A i \in 1..n : head[1 + i] = units[i]
    <2>1. PICK X : mode \in Seq(X)  BY <1>2 DEF Aims
    <2>2. PICK Y : units \in Seq(Y)  BY <1>3
    <2> DEFINE Z == X \cup Y
    <2>3. mode \in Seq(Z) /\ units \in Seq(Z)  BY <2>1, <2>2
    <2> HIDE DEF Z
    <2>31. /\ Len(head) = Len(mode) + Len(units)
           /\ \A i \in 1..(Len(mode) + Len(units)) :
                head[i] = IF i <= Len(mode) THEN mode[i] ELSE units[i - Len(mode)]
      BY <2>3, ConcatProperties
    <2>4. /\ Len(head) = 1 + n
          /\ \A i \in 1..(1 + n) : head[i] = IF i <= 1 THEN mode[i] ELSE units[i - 1]
      <3> HIDE DEF head
      <3>1. Len(mode) = 1 /\ Len(units) = n  BY <1>2, <1>3
      <3> QED  BY <2>31, <3>1
    <2> HIDE DEF head
    <2>5. \A i \in 1..n : 1 + i \in 1..(1 + n) /\ ~(1 + i <= 1) /\ 1 + i - 1 = i  BY <1>0
    <2> QED  BY <2>4, <2>5
  <1> HIDE DEF head, heads
  <1>10. Aims(head \o KindReads, heads \cup KindLists, n)
    <2>1. heads \cap KindLists = {}  BY <1>7 DEF heads
    <2> QED  BY <1>6, <1>8, <2>1, AimsJoin
  <1>11. Reads = head \o KindReads  BY <1>1 DEF head
  <1>12. \A i \in 1..n : \E k \in 1..Len(Reads) : Reads[k].to = <<"logic", i>>
    <2> TAKE i \in 1..n
    <2>1. PICK X : head \in Seq(X)  BY <1>8 DEF Aims
    <2>2. PICK Y : KindReads \in Seq(Y)  BY <1>6 DEF Aims
    <2> DEFINE Z == X \cup Y
    <2>3. head \in Seq(Z) /\ KindReads \in Seq(Z)  BY <2>1, <2>2
    <2> HIDE DEF Z
    <2>4. /\ Len(Reads) = Len(head) + Len(KindReads) /\ Len(KindReads) \in Nat
          /\ \A k \in 1..(Len(head) + Len(KindReads)) :
                Reads[k] = IF k <= Len(head) THEN head[k] ELSE KindReads[k - Len(head)]
      BY <1>11, <2>3, ConcatProperties, LenProperties
    <2>5. 1 + i \in 1..Len(Reads) /\ 1 + i \in 1..(Len(head) + Len(KindReads)) /\ 1 + i <= Len(head)
      BY <1>0, <1>9, <2>4
    <2>6. Reads[1 + i] = units[i]  BY <1>9, <2>4, <2>5
    <2> QED  BY <1>4, <2>5, <2>6
  <1> QED  BY <1>7, <1>10, <1>11, <1>12 DEF heads, n

-------------------------------------------------------------------------------
(***************************************************************************)
(* The steps of a status or an event: each notifies the member whose       *)
(* attributes it sets.                                                     *)
(***************************************************************************)
IsHonest(step) == \A a \in DOMAIN step.set : (\E l, i : a = <<l, i>>) /\ MemberOf(a) = step.who

\* Every step of a list is honest.
Honest(steps) ==
    /\ \E X : steps \in Seq(X)
    /\ \A k \in 1..Len(steps) : IsHonest(steps[k])

\* The list whose members hear of the values of another.
Base(l) ==
    CASE l = "tilt" -> "covers"
      [] l = "rgb"  -> "color_leds"
      [] l = "user" -> "fingers"
      [] OTHER -> l

\* The listeners an attribute belongs to, by its list.
LEMMA MemberOfIs ==
  ASSUME NEW l, NEW i
  PROVE  MemberOf(<<l, i>>) = <<Base(l), i>>
  BY DEF MemberOf, Base

\* An attribute of a member the module has is an attribute the module has.
LEMMA TwinsAreThere ==
  ASSUME NEW n, NEW a, NEW b \in Reach(n), MemberOf(a) = MemberOf(b), \E l, i : a = <<l, i>>
  PROVE  a \in Reach(n)
  <1>1. PICK l, i : a = <<l, i>>  OBVIOUS
  <1>2. PICK m : \E j \in Places(m, n) : b = <<m, j>>  BY ReachIs
  <1>3. PICK j \in Places(m, n) : b = <<m, j>>  BY <1>2
  <1>4. Base(l) = Base(m) /\ i = j
    <2>1. <<Base(l), i>> = <<Base(m), j>>  BY <1>1, <1>3, MemberOfIs
    <2> QED  BY <2>1
  <1>5. \A x : Places(Base(x), n) = Places(x, n)
    <2> TAKE x
    <2>1. "covers" \in StaticLists /\ "color_leds" \in StaticLists /\ "fingers" \in StaticLists
      BY DEF StaticLists, ConfiguredLists
    <2>2. /\ Places("covers", n) = Places("tilt", n) /\ Places("color_leds", n) = Places("rgb", n)
          /\ Places("fingers", n) = Places("user", n)
      BY <2>1, PlacesAre
    <2> QED  BY <2>2 DEF Base
  <1>6. Places(l, n) = Places(m, n)  BY <1>4, <1>5
  <1> QED  BY <1>1, <1>3, <1>4, <1>6, PlacesAre

\* A single honest step.
LEMMA HonestOne ==
  ASSUME NEW x, IsHonest(x)  PROVE Honest(<<x>>)
  <1> DEFINE s == <<x>>
  <1>1. s \in Seq({x}) /\ Len(s) = 1 /\ s[1] = x  OBVIOUS
  <1> HIDE DEF s
  <1>2. \A k \in 1..Len(s) : k = 1  BY <1>1
  <1>3. Honest(s)  BY <1>1, <1>2 DEF Honest
  <1> QED  BY <1>3 DEF s

\* Two honest steps.
LEMMA HonestTwo ==
  ASSUME NEW x, IsHonest(x), NEW y, IsHonest(y)  PROVE Honest(<<x, y>>)
  <1> DEFINE s == <<x, y>>
  <1>1. s \in Seq({x, y}) /\ Len(s) = 2 /\ s[1] = x /\ s[2] = y  OBVIOUS
  <1> HIDE DEF s
  <1>2. \A k \in 1..Len(s) : k = 1 \/ k = 2  BY <1>1
  <1>3. Honest(s)  BY <1>1, <1>2 DEF Honest
  <1> QED  BY <1>3 DEF s

\* A step after a step.
LEMMA JoinedAre ==
  ASSUME NEW x, NEW y
  PROVE  /\ <<x>> \o <<y>> \in Seq({x, y}) /\ Len(<<x>> \o <<y>>) = 2
         /\ (<<x>> \o <<y>>)[1] = x /\ (<<x>> \o <<y>>)[2] = y
  <1> DEFINE s == <<x>> \o <<y>>
  <1>1. <<x>> \in Seq({x, y}) /\ <<y>> \in Seq({x, y})
        /\ Len(<<x>>) = 1 /\ Len(<<y>>) = 1 /\ <<x>>[1] = x /\ <<y>>[1] = y
    OBVIOUS
  <1>2. /\ s \in Seq({x, y}) /\ Len(s) = 1 + 1
        /\ \A i \in 1..(1 + 1) : s[i] = IF i <= 1 THEN <<x>>[i] ELSE <<y>>[i - 1]
    BY <1>1, ConcatProperties
  <1> HIDE DEF s
  <1>3. Len(s) = 2 /\ s[1] = x /\ s[2] = y  BY <1>1, <1>2
  <1> QED  BY <1>2, <1>3 DEF s

\* A list of an honest step after another.
LEMMA HonestJoined ==
  ASSUME NEW x, IsHonest(x), NEW y, IsHonest(y)  PROVE Honest(<<x>> \o <<y>>)
  <1> DEFINE s == <<x>> \o <<y>>
  <1>1. s \in Seq({x, y}) /\ Len(s) = 2 /\ s[1] = x /\ s[2] = y  BY JoinedAre
  <1> HIDE DEF s
  <1>2. \A k \in 1..Len(s) : k = 1 \/ k = 2  BY <1>1
  <1>3. Honest(s)  BY <1>1, <1>2 DEF Honest
  <1> QED  BY <1>3 DEF s

\* Three honest steps.
LEMMA HonestThree ==
  ASSUME NEW x, IsHonest(x), NEW y, IsHonest(y), NEW z, IsHonest(z)  PROVE Honest(<<x, y, z>>)
  <1> DEFINE s == <<x, y, z>>
  <1>1. s \in Seq({x, y, z}) /\ Len(s) = 3 /\ s[1] = x /\ s[2] = y /\ s[3] = z  OBVIOUS
  <1> HIDE DEF s
  <1>2. \A k \in 1..Len(s) : k = 1 \/ k = 2 \/ k = 3  BY <1>1
  <1>3. Honest(s)  BY <1>1, <1>2 DEF Honest
  <1> QED  BY <1>3 DEF s

\* No step at all.
LEMMA HonestNone == Honest(<<>>)
  <1>1. <<>> \in Seq({}) /\ Len(<<>>) = 0  BY EmptySeq
  <1> QED  BY <1>1 DEF Honest

\* The first steps, when a listener that raises ends them.
LEMMA HonestFirst ==
  ASSUME NEW steps, Honest(steps), NEW m \in 0..Len(steps)
  PROVE  /\ Honest(SubSeq(steps, 1, m)) /\ Len(SubSeq(steps, 1, m)) = m
         /\ \A k \in 1..m : SubSeq(steps, 1, m)[k] = steps[k] /\ k \in 1..Len(steps)
  <1>1. PICK X : steps \in Seq(X)  BY DEF Honest
  <1>2. Len(steps) \in Nat  BY <1>1
  <1> DEFINE s == SubSeq(steps, 1, m)  from == 1
  <1>3. m \in Int /\ from \in Int /\ \A i \in from..m : steps[i] \in X  BY <1>1, <1>2
  <1>4. s = SubSeq(steps, from, m)  OBVIOUS
  <1> HIDE DEF s, from
  <1>5. /\ s \in Seq(X) /\ Len(s) = (IF from <= m THEN m - from + 1 ELSE 0)
        /\ \A i \in 1..(m - from + 1) : s[i] = steps[from + i - 1]
    BY <1>3, <1>4, SubSeqProperties
  <1>6. Len(s) = m  BY <1>2, <1>5 DEF from
  <1>7. \A k \in 1..m : s[k] = steps[k] /\ k \in 1..Len(steps)  BY <1>2, <1>5 DEF from
  <1>8. Honest(s)  BY <1>5, <1>6, <1>7 DEF Honest
  <1> QED  BY <1>6, <1>7, <1>8 DEF s

\* A status has one step for each read, for that read's attribute and its member.
LEMMA HonestStatus ==
  ASSUME NEW n, NEW reads, NEW L, Aims(reads, L, n)
  PROVE  /\ Honest(StatusSteps(reads)) /\ Len(StatusSteps(reads)) = Len(reads)
         /\ \A k \in 1..Len(reads) : /\ DOMAIN StatusSteps(reads)[k].set = {reads[k].to}
                                     /\ StatusSteps(reads)[k].who = MemberOf(reads[k].to)
                                     /\ StatusSteps(reads)[k].set[reads[k].to] = reads[k].is
  <1> DEFINE s == StatusSteps(reads)  len == Len(reads)
  <1>1. len \in Nat  BY DEF Aims
  <1>2. s = [k \in 1..len |-> [who |-> MemberOf(reads[k].to), set |-> [a \in {reads[k].to} |-> reads[k].is]]]
    BY DEF StatusSteps
  <1>3. \A k \in 1..len : \E l, i : reads[k].to = <<l, i>>
    <2> TAKE k \in 1..len
    <2>1. reads[k].to \in Reach(n)  BY DEF Aims
    <2> QED  BY <2>1, ReachIs
  <1> HIDE DEF s, len
  <1>4. s = [k \in 1..len |-> s[k]]  BY <1>2
  <1>5. Len(s) = len /\ \E X : s \in Seq(X)  BY <1>1, <1>4, IsList
  <1>6. ASSUME NEW k \in 1..len
        PROVE  /\ DOMAIN s[k].set = {reads[k].to} /\ s[k].who = MemberOf(reads[k].to)
               /\ s[k].set[reads[k].to] = reads[k].is
    <2> DEFINE to == reads[k].to  is == reads[k].is
    <2>1. s[k] = [who |-> MemberOf(to), set |-> [a \in {to} |-> is]]  BY <1>2
    <2> HIDE DEF to, is
    <2>2. s[k].who = MemberOf(to) /\ s[k].set = [a \in {to} |-> is]  BY <2>1
    <2>3. DOMAIN s[k].set = {to} /\ s[k].set[to] = is  BY <2>2
    <2> QED  BY <2>2, <2>3 DEF to, is
  <1>7. \A k \in 1..len : IsHonest(s[k])  BY <1>3, <1>6 DEF IsHonest
  <1>8. Honest(s)  BY <1>5, <1>7 DEF Honest
  <1> QED  BY <1>5, <1>6, <1>8 DEF s, len

\* The events _apply_module_event knows.
EventKinds == {"BUTTON", "SWITCH", "OUTPUT", "RGB", "FINGER", "DIM_VAL", "COV_VAL", "BLD_VAL",
               "MOVE", "FLAG", "CNT_VAL", "SYS_ERR"}

\* _apply_module_event: every update notifies the member it updates.
LEMMA HonestEvent ==
  ASSUME NEW e, e.kind \in EventKinds
  PROVE  Honest(EventSteps(e))
  <1> DEFINE plain == {"inputs", "outputs", "leds", "color_leds", "dimmers", "covers", "sensors",
                       "fingers", "flags", "logic", "health"}
  <1>1. ASSUME NEW list \in plain, NEW i, NEW v  PROVE IsHonest(Sets(list, i, v))
    <2> DEFINE st == Sets(list, i, v)  m == <<list, i>>
    <2>1. st = [who |-> m, set |-> [a \in {m} |-> v]]  BY DEF Sets, Step
    <2>2. MemberOf(m) = m  BY MemberOfIs DEF Base
    <2>3. \E l, j : m = <<l, j>>  OBVIOUS
    <2> HIDE DEF m, st
    <2>4. st.who = m /\ DOMAIN st.set = {m}  BY <2>1
    <2>5. IsHonest(st)  BY <2>2, <2>3, <2>4 DEF IsHonest
    <2> QED  BY <2>5 DEF st
  <1>2. ASSUME NEW m  PROVE IsHonest(Step(m, <<>>))
    <2>1. DOMAIN <<>> = {}  OBVIOUS
    <2> QED  BY <2>1 DEF IsHonest, Step
  <1>3. \A n, code : Honest(ButtonSteps(n, code))
    <2> TAKE n, code
    <2>1. \A v : IsHonest(Sets("inputs", n - 1, v))  BY <1>1
    <2> QED  BY <2>1, HonestOne, HonestTwo DEF ButtonSteps
  <1>4. \A n, v : Honest(OutputSteps(n, v))
    <2> TAKE n, v
    <2> DEFINE x == Sets("outputs", n - 1, v)  y == Step(<<"covers", CoverIndex(n)>>, <<>>)
    <2>1. IsHonest(x) /\ IsHonest(y)  BY <1>1, <1>2
    <2>2. IsHonest(Sets("leds", n - 16, v))  BY <1>1
    <2>3. IsHonest(Step(<<"leds", n - 3>>, <<>>))  BY <1>2
    <2>4. OutputSteps(n, v) \in {<<Sets("leds", n - 16, v)>>, <<Step(<<"leds", n - 3>>, <<>>)>>,
                                 <<x>> \o <<y>>, <<x>> \o <<>>}
      BY DEF OutputSteps
    <2> HIDE DEF x, y
    <2>5. <<x>> \o <<>> = <<x>>
      <3>1. <<x>> \in Seq({x})  OBVIOUS
      <3> QED  BY <3>1, ConcatEmptySeq
    <2>6. Honest(<<Sets("leds", n - 16, v)>>)  BY <2>2, HonestOne
    <2>7. Honest(<<Step(<<"leds", n - 3>>, <<>>)>>)  BY <2>3, HonestOne
    <2>8. Honest(<<x>>) /\ Honest(<<x>> \o <<y>>)  BY <2>1, HonestOne, HonestJoined
    <2> QED  BY <2>4, <2>5, <2>6, <2>7, <2>8
  <1>5. ASSUME NEW l, NEW i, NEW k, k = Base(l), k = Base(k), NEW f, DOMAIN f \subseteq {<<k, i>>, <<l, i>>}
        PROVE  IsHonest(Step(<<k, i>>, f))
    <2>1. MemberOf(<<k, i>>) = <<k, i>> /\ MemberOf(<<l, i>>) = <<k, i>>  BY <1>5, MemberOfIs
    <2> DEFINE st == Step(<<k, i>>, f)
    <2>2. st.who = <<k, i>> /\ st.set = f  BY DEF Step
    <2> HIDE DEF st
    <2>3. \A a \in DOMAIN st.set : a = <<k, i>> \/ a = <<l, i>>  BY <1>5, <2>2
    <2>4. IsHonest(st)
      <3> SUFFICES ASSUME NEW a \in DOMAIN st.set
                   PROVE  (\E x, y : a = <<x, y>>) /\ MemberOf(a) = st.who
        BY DEF IsHonest
      <3>1. a = <<k, i>> \/ a = <<l, i>>  BY <2>3
      <3>2. \E x, y : a = <<x, y>>  BY <3>1
      <3> QED  BY <2>1, <2>2, <3>1, <3>2
    <2> QED  BY <2>4 DEF st
  <1>6. \A n, mode, colour : Honest(RgbSteps(n, mode, colour))
    <2> TAKE n, mode, colour
    <2> DEFINE f == [a \in {<<"color_leds", n>>, <<"rgb", n>>} |-> IF a[1] = "rgb" THEN colour ELSE 1]
               x == Step(<<"color_leds", n>>, f)
    <2>1. IsHonest(Sets("color_leds", n, mode))  BY <1>1
    <2>2. IsHonest(x)
      <3>1. DOMAIN f \subseteq {<<"color_leds", n>>, <<"rgb", n>>}  OBVIOUS
      <3> HIDE DEF f
      <3>2. Base("rgb") = "color_leds" /\ Base("color_leds") = "color_leds"  BY DEF Base
      <3> QED  BY <1>5, <3>1, <3>2
    <2>3. RgbSteps(n, mode, colour) = IF mode # 2 THEN <<Sets("color_leds", n, mode)>> ELSE <<x>>
      BY DEF RgbSteps
    <2> HIDE DEF x
    <2> QED  BY <2>1, <2>2, <2>3, HonestOne
  <1>7. \A user, finger : Honest(FingerSteps(user, finger))
    <2> TAKE user, finger
    <2> DEFINE f == [a \in {<<"user", 0>>, <<"fingers", 0>>} |-> IF a[1] = "user" THEN user ELSE finger]
               u == IF finger <= 10 THEN user ELSE -user
               w == IF finger <= 10 THEN finger ELSE finger - 128
               x == Sets("sensors", 0, u)  y == Sets("sensors", 1, w)
               z == Step(<<"fingers", 0>>, f)
    <2>1. FingerSteps(user, finger) = <<x, y, z>>  BY DEF FingerSteps
    <2>2. IsHonest(z)
      <3>1. DOMAIN f \subseteq {<<"fingers", 0>>, <<"user", 0>>}  OBVIOUS
      <3> HIDE DEF f
      <3>2. Base("user") = "fingers" /\ Base("fingers") = "fingers"  BY DEF Base
      <3> QED  BY <1>5, <3>1, <3>2
    <2> HIDE DEF u, w
    <2>3. IsHonest(x) /\ IsHonest(y)  BY <1>1
    <2> HIDE DEF x, y, z
    <2> QED  BY <2>1, <2>2, <2>3, HonestThree
  <1>8. \A n, v : Honest(FlagSteps(n, v))
    <2> TAKE n, v
    <2> DEFINE of == {i \in 1..Len(flags) : flags[i] = n}
               first == CHOOSE i \in of : \A j \in of : i <= j
    <2>1. FlagSteps(n, v) = IF of = {} THEN <<>> ELSE <<Sets("flags", first, v)>>  BY DEF FlagSteps
    <2> HIDE DEF of, first
    <2>2. IsHonest(Sets("flags", first, v))  BY <1>1
    <2> QED  BY <2>1, <2>2, HonestOne, HonestNone
  <1>9. \A i, v : Honest(<<Step(<<"covers", i>>, [x \in {<<"tilt", i>>} |-> v])>>)
    <2> TAKE i, v
    <2> DEFINE f == [x \in {<<"tilt", i>>} |-> v]
    <2>1. DOMAIN f \subseteq {<<"covers", i>>, <<"tilt", i>>}  OBVIOUS
    <2> HIDE DEF f
    <2>2. Base("tilt") = "covers" /\ Base("covers") = "covers"  BY DEF Base
    <2>3. IsHonest(Step(<<"covers", i>>, f))  BY <1>5, <2>1, <2>2
    <2> QED  BY <2>3, HonestOne DEF f
  <1>10. \A list \in plain : \A i, v : Honest(<<Sets(list, i, v)>>)  BY <1>1, HonestOne
  <1> DEFINE a == e.args  s == EventSteps(e)
             v1 == IF a[2] > 0 THEN 1 ELSE 0
  <1>11. /\ e.kind = "BUTTON"  => s = ButtonSteps(a[1], a[2])
         /\ e.kind = "SWITCH"  => s = <<Sets("inputs", a[1] - 1, a[2])>>
         /\ e.kind = "OUTPUT"  => s = OutputSteps(a[1], a[2])
         /\ e.kind = "RGB"     => s = RgbSteps(a[1], a[2], a[3])
         /\ e.kind = "FINGER"  => s = FingerSteps(a[1], a[2])
         /\ e.kind = "DIM_VAL" => s = <<Sets("dimmers", a[1], a[2])>>
         /\ e.kind = "COV_VAL" => s = <<Sets("covers", a[1], a[2])>>
         /\ e.kind = "BLD_VAL" => s = <<Step(<<"covers", a[1]>>, [x \in {<<"tilt", a[1]>>} |-> a[2]])>>
         /\ e.kind = "MOVE"    => s = <<Sets("sensors", a[1], v1)>>
         /\ e.kind = "FLAG"    => s = FlagSteps(a[1], a[2])
         /\ e.kind = "CNT_VAL" => s = <<Sets("logic", a[1] + 1, a[2])>>
         /\ e.kind = "SYS_ERR" => s = <<Sets("health", 0, a[1])>>
    BY DEF EventSteps
  <1> HIDE DEF s, v1
  <1>12. e.kind \in {"BUTTON", "OUTPUT", "RGB", "FINGER", "BLD_VAL", "FLAG"} => Honest(s)
    BY <1>3, <1>4, <1>6, <1>7, <1>8, <1>9, <1>11
  <1>13. e.kind \in {"SWITCH", "DIM_VAL", "COV_VAL", "MOVE", "CNT_VAL", "SYS_ERR"} => Honest(s)
    BY <1>10, <1>11
  <1> QED  BY <1>12, <1>13 DEF EventKinds, s

\* What the steps leave: new values only of attributes they set.
LEMMA AppliedIs ==
  ASSUME NEW old, NEW steps
  PROVE  /\ \A a : a \in DOMAIN Applied(old, steps)
                    <=> a \in DOMAIN old \/ \E i \in 1..Len(steps) : a \in DOMAIN steps[i].set
         /\ \A a \in DOMAIN old :
                (\A i \in 1..Len(steps) : a \notin DOMAIN steps[i].set) => Applied(old, steps)[a] = old[a]
         /\ \A i \in 1..Len(steps) : \A a \in DOMAIN steps[i].set :
                (\A j \in 1..Len(steps) : a \in DOMAIN steps[j].set => j = i)
                    => Applied(old, steps)[a] = steps[i].set[a]
  <1> DEFINE setting(a) == {i \in 1..Len(steps) : a \in DOMAIN steps[i].set}
             last(a) == CHOOSE i \in setting(a) : \A j \in setting(a) : j <= i
             dom == DOMAIN old \cup UNION {DOMAIN steps[i].set : i \in 1..Len(steps)}
             new == Applied(old, steps)
  <1>1. new = [a \in dom |-> IF setting(a) = {} THEN old[a] ELSE steps[last(a)].set[a]]
    BY DEF Applied
  <1> HIDE DEF new
  <1>2. DOMAIN new = dom  BY <1>1
  <1>21. \A a : a \in dom <=> a \in DOMAIN old \/ \E i \in 1..Len(steps) : a \in DOMAIN steps[i].set
    OBVIOUS
  <1>3. ASSUME NEW a \in DOMAIN old, \A i \in 1..Len(steps) : a \notin DOMAIN steps[i].set
        PROVE  new[a] = old[a]
    <2>1. setting(a) = {} /\ a \in dom  BY <1>3
    <2> HIDE DEF setting, last, dom
    <2> QED  BY <1>1, <2>1
  <1>4. ASSUME NEW i \in 1..Len(steps), NEW a \in DOMAIN steps[i].set,
               \A j \in 1..Len(steps) : a \in DOMAIN steps[j].set => j = i
        PROVE  new[a] = steps[i].set[a]
    <2>1. setting(a) = {i} /\ a \in dom  BY <1>4
    <2>2. i <= i  OBVIOUS
    <2> HIDE DEF setting, dom
    <2>3. last(a) = i  BY <2>1, <2>2
    <2> HIDE DEF last
    <2> QED  BY <1>1, <2>1, <2>3
  <1> HIDE DEF dom
  <1> QED  BY <1>2, <1>21, <1>3, <1>4 DEF new

\* The steps run up to the end or up to a listener that raises: the values they change
\* are values of members they notify.
LEMMA RunTells ==
  ASSUME NEW old, NEW steps, Honest(steps), Run(old, steps),
         \A k \in 1..Len(steps) :
            DOMAIN steps[k].set \subseteq DOMAIN old /\ \E b \in DOMAIN old : steps[k].who = MemberOf(b)
  PROVE  /\ DOMAIN value' = DOMAIN old
         /\ fired' \cup deaf' \subseteq {MemberOf(b) : b \in DOMAIN old}
         /\ \A a \in DOMAIN old : value'[a] # old[a] => MemberOf(a) \in fired' \cup deaf'
  <1>1. ASSUME NEW m \in 0..Len(steps), value' = Applied(old, SubSeq(steps, 1, m))
        PROVE  /\ DOMAIN value' = DOMAIN old
               /\ \A a \in DOMAIN old :
                    value'[a] # old[a] => \E k \in 1..m : steps[k].who = MemberOf(a)
    <2> DEFINE s == SubSeq(steps, 1, m)
    <2>1. Honest(s) /\ Len(s) = m /\ \A k \in 1..m : s[k] = steps[k] /\ k \in 1..Len(steps)
      BY HonestFirst
    <2>2. value' = Applied(old, s)  BY <1>1
    <2> HIDE DEF s
    <2>3. /\ \A a : a \in DOMAIN value' <=> a \in DOMAIN old \/ \E i \in 1..m : a \in DOMAIN s[i].set
          /\ \A a \in DOMAIN old : (\A i \in 1..m : a \notin DOMAIN s[i].set) => value'[a] = old[a]
      BY <2>1, <2>2, AppliedIs
    <2>4. \A k \in 1..m : DOMAIN s[k].set \subseteq DOMAIN old  BY <2>1
    <2>5. DOMAIN value' = DOMAIN old  BY <2>3, <2>4
    <2>6. \A k \in 1..m : \A a \in DOMAIN s[k].set : steps[k].who = MemberOf(a)
      BY <2>1 DEF Honest, IsHonest
    <2> QED  BY <2>3, <2>5, <2>6
  <1>2. Len(steps) \in Nat  BY DEF Honest
  <1>3. CASE value' = Applied(old, steps) /\ fired' = Members(steps) /\ deaf' = {}
    <2> DEFINE m == Len(steps)
    <2>1. SubSeq(steps, 1, m) = steps
      <3>1. PICK X : steps \in Seq(X)  BY DEF Honest
      <3> QED  BY <3>1, SubSeqFull
    <2>20. m \in 0..Len(steps)  BY <1>2
    <2>21. value' = Applied(old, SubSeq(steps, 1, m))
      <3> HIDE DEF m
      <3> QED  BY <1>3, <2>1
    <2>2. m \in 0..Len(steps) /\ value' = Applied(old, SubSeq(steps, 1, m))  BY <2>20, <2>21
    <2>3. fired' = {steps[i].who : i \in 1..m} /\ deaf' = {}  BY <1>3 DEF Members
    <2>4. /\ DOMAIN value' = DOMAIN old
          /\ \A a \in DOMAIN old : value'[a] # old[a] => \E k \in 1..m : steps[k].who = MemberOf(a)
      BY <1>1, <2>2
    <2>5. fired' \cup deaf' \subseteq {MemberOf(b) : b \in DOMAIN old}  BY <2>3
    <2> QED  BY <2>3, <2>4, <2>5
  <1>4. CASE \E k \in 1..Len(steps) : /\ value' = Applied(old, SubSeq(steps, 1, k))
                                      /\ fired' = Members(SubSeq(steps, 1, k - 1))
                                      /\ deaf' = {steps[k].who}
    <2>1. PICK k \in 1..Len(steps) : /\ value' = Applied(old, SubSeq(steps, 1, k))
                                     /\ fired' = Members(SubSeq(steps, 1, k - 1))
                                     /\ deaf' = {steps[k].who}
      BY <1>4
    <2> DEFINE n == k - 1
    <2>2. k \in 0..Len(steps) /\ n \in 0..Len(steps) /\ \A j \in 1..k : j \in 1..n \/ j = k
      BY <1>2
    <2>3. /\ DOMAIN value' = DOMAIN old
          /\ \A a \in DOMAIN old : value'[a] # old[a] => \E j \in 1..k : steps[j].who = MemberOf(a)
      BY <1>1, <2>1, <2>2
    <2>4. /\ Len(SubSeq(steps, 1, n)) = n
          /\ \A j \in 1..n : SubSeq(steps, 1, n)[j] = steps[j] /\ j \in 1..Len(steps)
      BY <2>2, HonestFirst
    <2>5. fired' = {steps[j].who : j \in 1..n}
      <3>1. fired' = {SubSeq(steps, 1, n)[j].who : j \in 1..n}  BY <2>1, <2>4 DEF Members
      <3> QED  BY <2>4, <3>1
    <2> HIDE DEF n
    <2>6. fired' \cup deaf' \subseteq {MemberOf(b) : b \in DOMAIN old}  BY <2>1, <2>4, <2>5
    <2>7. \A j \in 1..k : steps[j].who \in fired' \cup deaf'  BY <2>1, <2>2, <2>5
    <2> QED  BY <2>3, <2>6, <2>7
  <1> QED  BY <1>3, <1>4 DEF Run

-------------------------------------------------------------------------------
(***************************************************************************)
(* The values, the counters and the events, step by step.                  *)
(***************************************************************************)
ValuesInv ==
    /\ type \in Types /\ stage \in {"built", "named", "configured", "live", "failed"}
    /\ Len(flags) \in Nat /\ (stage = "built" => flags = <<>>)
    /\ stage # "live" => logic = <<>> /\ fired = {} /\ deaf = {} /\ ~clean
    /\ stage = "live" => Found(logic)
    /\ DOMAIN value = Reach(Len(logic))
    /\ fired \cup deaf \subseteq {MemberOf(a) : a \in Reach(Len(logic))}
    /\ \E X : events \in Seq(X)
    /\ \A i \in 1..Len(events) : events[i].kind \in EventKinds

\* A module just built fulfils ValuesInv.
LEMMA ValuesAtFirst == Init => ValuesInv
  <1> SUFFICES ASSUME Init  PROVE ValuesInv  OBVIOUS
  <1>1. /\ type \in Types /\ stage = "built" /\ flags = <<>> /\ logic = <<>> /\ events = <<>>
        /\ fired = {} /\ deaf = {} /\ clean = FALSE /\ DOMAIN value = StaticAttributes
    BY DEF Init
  <1>2. <<>> \in Seq({}) /\ Len(<<>>) = 0 /\ 1..0 = {} /\ 0 \in Nat  BY EmptySeq
  <1>3. Reach(Len(logic)) = StaticAttributes  BY <1>1, <1>2 DEF Reach
  <1>4. \A i \in 1..Len(events) : events[i].kind \in EventKinds  BY <1>1, <1>2
  <1>5. \E X : events \in Seq(X)  BY <1>1, <1>2
  <1> QED  BY <1>1, <1>2, <1>3, <1>4, <1>5 DEF ValuesInv

\* With the type the attributes every module of it has stay.
LEMMA SameStatic ==
  ASSUME type' = type
  PROVE  StaticAttributes' = StaticAttributes
  <1>1. Size("covers")' = Size("covers") /\ Size("color_leds")' = Size("color_leds")
        /\ Size("fingers")' = Size("fingers") /\ Configured' = Configured
    BY SameShape
  <1>2. MembersOf({"leds", "color_leds", "sensors", "setvalues", "fingers", "diags"})'
        = MembersOf({"leds", "color_leds", "sensors", "setvalues", "fingers", "diags"})
    <2>1. \A list : Size(list)' = Size(list)  BY SameShape
    <2> QED  BY <2>1 DEF MembersOf
  <1> QED  BY <1>1, <1>2 DEF StaticAttributes

\* With the type and the flags the attributes stay, but for counters to be discovered.
LEMMA SameReach ==
  ASSUME type' = type, flags' = flags, NEW n
  PROVE  Reach(n)' = Reach(n)
  BY SameStatic DEF Reach

\* The counters are discovered once: a later status adds no attribute.
LEMMA ExtendedIs ==
  ASSUME NEW list, NEW n
  PROVE  /\ DOMAIN Extended(list, n) = DOMAIN value \cup {<<list, i>> : i \in 1..n}
         /\ \A a \in DOMAIN value : Extended(list, n)[a] = value[a]
  BY DEF Extended

\* A polled status.
LEMMA PollTells ==
  ASSUME ValuesInv, PollStatus
  PROVE  /\ logic' = logic /\ Found(logic) /\ DOMAIN value' = DOMAIN value
         /\ fired' \cup deaf' \subseteq {MemberOf(a) : a \in DOMAIN value}
         /\ \A a \in DOMAIN value : value'[a] # value[a] => MemberOf(a) \in fired' \cup deaf'
  <1> DEFINE old == Extended("logic", Len(logic'))
             news == {i \in 1..Len(Reads) : old[Reads[i].to] # Reads[i].is}
             some == Entries(Reads, news)
             L == {"mode", "logic"} \cup KindLists
  <1>1. stage = "live" /\ logic' = Discovered /\ type \in Types /\ Len(flags) \in Nat
    BY DEF ValuesInv, PollStatus
  <1>2. Found(logic) /\ Found(Discovered) /\ Discovered = logic
    <2>1. Found(logic)  BY <1>1 DEF ValuesInv
    <2>2. logic # <<>>  BY <2>1 DEF Found
    <2> QED  BY <2>1, <2>2, DiscoveredIs
  <1>3. logic' = logic  BY <1>1, <1>2
  <1>4. Run(old, StatusSteps(some))  BY DEF PollStatus
  <1>5. Aims(Reads, L, Len(logic))  BY <1>1, <1>2, ReadsAim
  <1>6. DOMAIN value = Reach(Len(logic))  BY DEF ValuesInv
  <1>7. DOMAIN old = DOMAIN value /\ \A a \in DOMAIN value : old[a] = value[a]
    <2>1. {<<"logic", i>> : i \in 1..Len(logic)} \subseteq Reach(Len(logic))  BY DEF Reach
    <2>2. /\ DOMAIN old = DOMAIN value \cup {<<"logic", i>> : i \in 1..Len(logic)}
          /\ \A a \in DOMAIN value : old[a] = value[a]
      BY <1>3, ExtendedIs
    <2> HIDE DEF old
    <2> QED  BY <1>6, <2>1, <2>2
  <1> HIDE DEF old, news, L
  <1>8. Aims(some, L, Len(logic))  BY <1>5, AimsSome
  <1> HIDE DEF some
  <1> DEFINE steps == StatusSteps(some)
  <1>9. /\ Honest(steps) /\ Len(steps) = Len(some)
        /\ \A k \in 1..Len(some) : /\ DOMAIN steps[k].set = {some[k].to}
                                   /\ steps[k].who = MemberOf(some[k].to)
    BY <1>8, HonestStatus
  <1>10. \A k \in 1..Len(some) : some[k].to \in DOMAIN old  BY <1>6, <1>7, <1>8 DEF Aims
  <1>11. Run(old, steps)  BY <1>4
  <1> HIDE DEF steps
  <1>12. \A k \in 1..Len(steps) :
            DOMAIN steps[k].set \subseteq DOMAIN old /\ \E b \in DOMAIN old : steps[k].who = MemberOf(b)
    BY <1>9, <1>10
  <1>13. /\ DOMAIN value' = DOMAIN old
         /\ fired' \cup deaf' \subseteq {MemberOf(b) : b \in DOMAIN old}
         /\ \A a \in DOMAIN old : value'[a] # old[a] => MemberOf(a) \in fired' \cup deaf'
    BY <1>9, <1>11, <1>12, RunTells
  <1> QED  BY <1>2, <1>3, <1>7, <1>13

\* An event: a member that does not exist ends its steps before they set anything of it.
LEMMA EventTells ==
  ASSUME ValuesInv, ApplyEvent
  PROVE  /\ DOMAIN value' = DOMAIN value
         /\ fired' \cup deaf' \subseteq {MemberOf(a) : a \in DOMAIN value}
         /\ \A a \in DOMAIN value : value'[a] # value[a] => MemberOf(a) \in fired' \cup deaf'
  <1> DEFINE steps == EventSteps(Head(events))
             found(i) == \E a \in DOMAIN value : MemberOf(a) = steps[i].who
  <1>1. Head(events).kind \in EventKinds
    <2>1. events # <<>>  BY DEF ApplyEvent
    <2>2. PICK X : events \in Seq(X)  BY DEF ValuesInv
    <2>3. 1 \in 1..Len(events) /\ Head(events) = events[1]  BY <2>1, <2>2
    <2> QED  BY <2>3 DEF ValuesInv
  <1>2. Honest(steps)  BY <1>1, HonestEvent
  <1>3. PICK n \in 0..Len(steps) : (\A i \in 1..n : found(i)) /\ Run(value, SubSeq(steps, 1, n))
    BY DEF ApplyEvent
  <1> HIDE DEF steps
  <1> DEFINE s == SubSeq(steps, 1, n)
  <1>4. Honest(s) /\ Len(s) = n /\ \A k \in 1..n : s[k] = steps[k]  BY <1>2, HonestFirst
  <1>5. Run(value, s)  BY <1>3
  <1>6. DOMAIN value = Reach(Len(logic))  BY DEF ValuesInv
  <1> HIDE DEF s
  <1>7. \A k \in 1..n : \E b \in DOMAIN value : s[k].who = MemberOf(b)  BY <1>3, <1>4
  <1>8. ASSUME NEW k \in 1..n, NEW a \in DOMAIN s[k].set  PROVE a \in DOMAIN value
    <2>1. (\E l, i : a = <<l, i>>) /\ MemberOf(a) = s[k].who  BY <1>4, <1>8 DEF Honest, IsHonest
    <2>2. PICK b \in DOMAIN value : s[k].who = MemberOf(b)  BY <1>7
    <2>3. b \in Reach(Len(logic)) /\ MemberOf(a) = MemberOf(b)  BY <1>6, <2>1, <2>2
    <2> QED  BY <1>6, <2>1, <2>3, TwinsAreThere
  <1>9. \A k \in 1..Len(s) :
            DOMAIN s[k].set \subseteq DOMAIN value /\ \E b \in DOMAIN value : s[k].who = MemberOf(b)
    BY <1>4, <1>7, <1>8
  <1> QED  BY <1>4, <1>5, <1>9, RunTells

\* The labels of a book give a number of flags.
LEMMA FlagsAre ==
  ASSUME type \in Types, NEW book \in Books[type]
  PROVE  Len(FlagsOf(book)) \in Nat
  <1> DEFINE mine == Entries(book, {i \in 1..Len(book) : book[i].code \in 120..135})
             made == FlagsOf(book)
  <1>1. book \in Seq([code : Nat, text : STRING])  BY DeviceAssumption
  <1>2. mine \in Seq([code : Nat, text : STRING])  BY <1>1, EntriesPick
  <1> DEFINE len == Len(mine)
  <1>3. len \in Nat  BY <1>2
  <1>4. made = [i \in 1..len |-> mine[i].code - 119]  BY DEF FlagsOf
  <1> HIDE DEF len, mine, made
  <1>5. made = [i \in 1..len |-> made[i]]  BY <1>4
  <1>6. Len(made) = len  BY <1>3, <1>5, IsList
  <1> QED  BY <1>3, <1>6 DEF made

\* The event that tells of a change is of a kind _apply_module_event knows.
LEMMA EventsAreKnown ==
  ASSUME NEW c, NEW v, NEW e \in EventOf(c, v)
  PROVE  e.kind \in EventKinds
  <1>1. ASSUME NEW kind \in EventKinds, NEW args, e \in Event(kind, args, c)
        PROVE  e.kind \in EventKinds
    BY <1>1 DEF Event
  <1> DEFINE n == c[2]
  <1>2. \/ \E args : e \in Event("SWITCH", args, c) \/ e \in Event("BUTTON", args, c)
                     \/ e \in Event("OUTPUT", args, c) \/ e \in Event("DIM_VAL", args, c)
                     \/ e \in Event("MOVE", args, c) \/ e \in Event("COV_VAL", args, c)
                     \/ e \in Event("BLD_VAL", args, c) \/ e \in Event("RGB", args, c)
                     \/ e \in Event("FINGER", args, c) \/ e \in Event("FLAG", args, c)
                     \/ e \in Event("CNT_VAL", args, c) \/ e \in Event("SYS_ERR", args, c)
        \/ e \in {}
    BY DEF EventOf
  <1> QED  BY <1>1, <1>2 DEF EventKinds

\* The hub pushes an event of a known kind behind the others.
LEMMA EventsGrow ==
  ASSUME \E X : events \in Seq(X), \A i \in 1..Len(events) : events[i].kind \in EventKinds,
         NEW e, e.kind \in EventKinds, events' = Append(events, e)
  PROVE  /\ \E X : events' \in Seq(X)
         /\ \A i \in 1..Len(events') : events'[i].kind \in EventKinds
         /\ Len(events') = Len(events) + 1
  <1>1. PICK X : events \in Seq(X)  OBVIOUS
  <1> DEFINE Z == X \cup {e}
  <1>2. events \in Seq(Z) /\ e \in Z  BY <1>1
  <1> HIDE DEF Z
  <1>3. /\ events' \in Seq(Z) /\ Len(events') = Len(events) + 1
        /\ \A i \in 1..Len(events) : events'[i] = events[i]
        /\ events'[Len(events) + 1] = e
    BY <1>2, AppendProperties
  <1>4. Len(events) \in Nat  BY <1>1
  <1>5. \A i \in 1..Len(events') : i \in 1..Len(events) \/ i = Len(events) + 1  BY <1>3, <1>4
  <1> QED  BY <1>3, <1>5

\* An event is applied from the front.
LEMMA EventsShrink ==
  ASSUME \E X : events \in Seq(X), \A i \in 1..Len(events) : events[i].kind \in EventKinds,
         events # <<>>, events' = Tail(events)
  PROVE  /\ \E X : events' \in Seq(X)
         /\ \A i \in 1..Len(events') : events'[i].kind \in EventKinds
  <1>1. PICK X : events \in Seq(X)  OBVIOUS
  <1>2. /\ events' \in Seq(X) /\ Len(events') = Len(events) - 1
        /\ \A i \in 1..Len(events') : events'[i] = events[i + 1]
    BY <1>1, HeadTailProperties
  <1>3. Len(events) \in Nat  BY <1>1
  <1>4. \A i \in 1..Len(events') : i + 1 \in 1..Len(events)  BY <1>2, <1>3
  <1> QED  BY <1>2, <1>4

\* What the hub does only adds an event.
LEMMA HubTells ==
  ASSUME ValuesInv, NEW c, HubChange(c) \/ ShortPress(c)
  PROVE  /\ UNCHANGED <<type, stage, flags, logic, value, member>> /\ stage = "live"
         /\ fired' = {} /\ deaf' = {} /\ clean' = FALSE
         /\ \E X : events' \in Seq(X)
         /\ \A i \in 1..Len(events') : events'[i].kind \in EventKinds
         /\ Len(events') >= Len(events)
  <1>0. /\ \E X : events \in Seq(X)
        /\ \A i \in 1..Len(events) : events[i].kind \in EventKinds
    BY DEF ValuesInv
  <1>1. UNCHANGED <<type, stage, flags, logic, value, member>> /\ stage = "live"
        /\ fired' = {} /\ deaf' = {} /\ clean' = FALSE
    BY DEF HubChange, ShortPress, config, Quiet
  <1>2. Len(events) \in Nat  BY <1>0
  <1>3. events' = events \/ \E e : e.kind \in EventKinds /\ events' = Append(events, e)
    <2>1. ASSUME HubChange(c)
          PROVE  events' = events \/ \E e : e.kind \in EventKinds /\ events' = Append(events, e)
      <3>1. events' = events \/ \E v : \E e \in EventOf(c, v) : events' = Append(events, e)
        BY <2>1 DEF HubChange
      <3> QED  BY <3>1, EventsAreKnown
    <2>2. ASSUME ShortPress(c)
          PROVE  \E e : e.kind \in EventKinds /\ events' = Append(events, e)
      <3>1. PICK e \in Event("BUTTON", <<c[2] + 1, 1>>, c) : events' = Append(events, e)
        BY <2>2 DEF ShortPress
      <3>2. e.kind = "BUTTON"  BY DEF Event
      <3> QED  BY <3>1, <3>2 DEF EventKinds
    <2> QED  BY <2>1, <2>2
  <1>4. /\ \E X : events' \in Seq(X)
        /\ \A i \in 1..Len(events') : events'[i].kind \in EventKinds
        /\ Len(events') >= Len(events)
    <2>1. CASE events' = events  BY <1>0, <1>2, <2>1
    <2>2. CASE \E e : e.kind \in EventKinds /\ events' = Append(events, e)
      <3>1. PICK e : e.kind \in EventKinds /\ events' = Append(events, e)  BY <2>2
      <3>2. Len(events') = Len(events) + 1  BY <1>0, <3>1, EventsGrow
      <3>3. /\ \E X : events' \in Seq(X)
            /\ \A i \in 1..Len(events') : events'[i].kind \in EventKinds
        BY <1>0, <3>1, EventsGrow
      <3> QED  BY <1>2, <3>2, <3>3
    <2> QED  BY <1>3, <2>1, <2>2
  <1> QED  BY <1>1, <1>4

\* ValuesInv is kept.
LEMMA ValuesStay == ValuesInv /\ [Next]_vars => ValuesInv'
  <1> SUFFICES ASSUME ValuesInv, [Next]_vars  PROVE ValuesInv'  OBVIOUS
  <1>0. /\ type \in Types /\ stage \in {"built", "named", "configured", "live", "failed"}
        /\ Len(flags) \in Nat /\ (stage = "built" => flags = <<>>)
        /\ stage # "live" => logic = <<>> /\ fired = {} /\ deaf = {} /\ ~clean
        /\ stage = "live" => Found(logic)
        /\ DOMAIN value = Reach(Len(logic))
        /\ fired \cup deaf \subseteq {MemberOf(a) : a \in Reach(Len(logic))}
        /\ \E X : events \in Seq(X)
        /\ \A i \in 1..Len(events) : events[i].kind \in EventKinds
    BY DEF ValuesInv
  <1>1. ASSUME type' = type, flags' = flags, logic' = logic,
               stage' \in {stage, "named", "configured", "live", "failed"}, stage' = "live" <=> stage = "live",
               stage' = "built" => stage = "built",
               DOMAIN value' = DOMAIN value,
               \/ fired' \cup deaf' \subseteq {MemberOf(a) : a \in DOMAIN value} /\ stage = "live"
               \/ fired' = fired /\ deaf' = deaf /\ clean' = clean,
               \E X : events' \in Seq(X), \A i \in 1..Len(events') : events'[i].kind \in EventKinds
        PROVE  ValuesInv'
    <2> DEFINE n == Len(logic)
    <2>1. Reach(Len(logic))' = Reach(Len(logic))
      <3>1. \A k : Reach(k)' = Reach(k)  BY <1>1, SameReach
      <3> QED  BY <1>1, <3>1 DEF Reach
    <2>2. \A l : Found(l)' <=> Found(l)  BY DEF Found
    <2>3. Found(logic)' <=> Found(logic)  BY <1>1 DEF Found
    <2>4. (fired \cup deaf \subseteq {MemberOf(a) : a \in Reach(Len(logic))})'
      <3>1. fired' \cup deaf' \subseteq {MemberOf(a) : a \in Reach(Len(logic))}  BY <1>0, <1>1
      <3> QED  BY <2>1, <3>1 DEF MemberOf
    <2>5. stage' \in {"built", "named", "configured", "live", "failed"}  BY <1>0, <1>1
    <2>6. stage' # "live" => logic' = <<>> /\ fired' = {} /\ deaf' = {} /\ ~clean'  BY <1>0, <1>1
    <2>7. DOMAIN value' = Reach(Len(logic))'  BY <1>0, <1>1, <2>1
    <2>8. type' \in Types /\ Len(flags') \in Nat /\ (stage' = "built" => flags' = <<>>)
          /\ (stage' = "live" => Found(logic)')
      BY <1>0, <1>1, <2>3
    <2> QED  BY <1>1, <2>4, <2>5, <2>6, <2>7, <2>8 DEF ValuesInv
  <1>2. ASSUME ReadDefinitions  PROVE ValuesInv'
    <2>1. /\ stage = "built" /\ stage' = "named" /\ type' = type /\ logic' = logic
          /\ UNCHANGED <<fired, deaf, clean, events>>
          /\ value' = Extended("flags", Len(flags'))
          /\ flags' = flags \/ \E book \in Books[type] : flags' = FlagsOf(book)
      BY <1>2 DEF ReadDefinitions, heard
    <2>2. Len(flags') \in Nat  BY <1>0, <2>1, FlagsAre
    <2>3. flags = <<>> /\ logic = <<>> /\ fired = {} /\ deaf = {} /\ ~clean  BY <1>0, <2>1
    <2>4. DOMAIN value' = Reach(Len(logic))'
      <3>1. DOMAIN value' = DOMAIN value \cup {<<"flags", i>> : i \in 1..Len(flags')}
        BY <2>1, ExtendedIs
      <3>2. Len(<<>>) = 0 /\ 1..0 = {}  BY EmptySeq
      <3>3. DOMAIN value = StaticAttributes  BY <1>0, <2>3, <3>2 DEF Reach
      <3>4. StaticAttributes' = StaticAttributes  BY <2>1, SameStatic
      <3> QED  BY <2>1, <2>3, <3>1, <3>2, <3>3, <3>4 DEF Reach
    <2> QED  BY <1>0, <2>1, <2>2, <2>3, <2>4 DEF ValuesInv
  <1>3. ASSUME ReadSettings  PROVE ValuesInv'
    <2>1. /\ stage = "named" /\ stage' = "configured"
          /\ UNCHANGED <<type, flags, logic, value, events, fired, deaf, clean>>
      BY <1>3 DEF ReadSettings, heard
    <2> QED  BY <1>0, <1>1, <2>1
  <1>4. ASSUME BuildStatus  PROVE ValuesInv'
    <2>1. /\ stage = "configured" /\ stage' = "live" /\ logic' = Discovered
          /\ value' = Applied(value, StatusSteps(Reads))
          /\ UNCHANGED <<type, flags, events, fired, deaf, clean>>
      BY <1>4 DEF BuildStatus, heard
    <2>2. logic = <<>> /\ fired = {} /\ deaf = {} /\ Found(Discovered)  BY <1>0, <2>1, DiscoveredIs
    <2> DEFINE n == Len(Discovered)  L == {"mode", "logic"} \cup KindLists  steps == StatusSteps(Reads)
    <2>3. Aims(Reads, L, n) /\ \A i \in 1..n : \E k \in 1..Len(Reads) : Reads[k].to = <<"logic", i>>
      BY <1>0, <2>2, ReadsAim
    <2>4. /\ Len(steps) = Len(Reads)
          /\ \A k \in 1..Len(Reads) : DOMAIN steps[k].set = {Reads[k].to}
      BY <2>3, HonestStatus
    <2>5. value' = Applied(value, steps)  BY <2>1
    <2> HIDE DEF steps, L
    <2>6. \A a : a \in DOMAIN value'
                    <=> a \in DOMAIN value \/ \E k \in 1..Len(Reads) : a = Reads[k].to
      BY <2>4, <2>5, AppliedIs
    <2>7. \A k \in 1..Len(Reads) : Reads[k].to \in Reach(n)  BY <2>3 DEF Aims
    <2>8. DOMAIN value = Reach(0)
      <3>1. Len(<<>>) = 0  BY EmptySeq
      <3> QED  BY <1>0, <2>2, <3>1
    <2>9. \A a : a \in Reach(n) <=> a \in Reach(0) \/ \E i \in 1..n : a = <<"logic", i>>
      <3>1. 1..0 = {}  OBVIOUS
      <3> QED  BY <3>1 DEF Reach
    <2>10. DOMAIN value' = Reach(n)
      <3>1. \A a : a \in DOMAIN value' <=> a \in Reach(n)
        <4> HIDE DEF n
        <4>1. ASSUME NEW a \in DOMAIN value'  PROVE a \in Reach(n)
          <5>1. CASE a \in DOMAIN value  BY <2>8, <2>9, <5>1
          <5>2. CASE \E k \in 1..Len(Reads) : a = Reads[k].to  BY <2>7, <5>2
          <5> QED  BY <2>6, <4>1, <5>1, <5>2
        <4>2. ASSUME NEW a \in Reach(n)  PROVE a \in DOMAIN value'
          <5>1. CASE a \in Reach(0)  BY <2>6, <2>8, <5>1
          <5>2. CASE \E i \in 1..n : a = <<"logic", i>>
            <6>1. PICK i \in 1..n : a = <<"logic", i>>  BY <5>2
            <6>2. PICK k \in 1..Len(Reads) : Reads[k].to = <<"logic", i>>  BY <2>3
            <6> QED  BY <2>6, <6>1, <6>2
          <5> QED  BY <2>9, <4>2, <5>1, <5>2
        <4> QED  BY <4>1, <4>2
      <3>2. \E f : f = value'  OBVIOUS
      <3> QED  BY <3>1
    <2>11. Reach(n) = Reach(Len(logic))'
      <3>1. StaticAttributes' = StaticAttributes  BY <2>1, SameStatic
      <3> QED  BY <2>1, <3>1 DEF Reach
    <2>12. Found(logic)'  BY <2>1, <2>2 DEF Found
    <2>13. ~clean  BY <1>0, <2>1
    <2> QED  BY <1>0, <2>1, <2>2, <2>10, <2>11, <2>12 DEF ValuesInv
  <1>5. ASSUME PollStatus  PROVE ValuesInv'
    <2>1. stage = "live" /\ UNCHANGED <<type, flags, stage, events>>  BY <1>5 DEF PollStatus, config
    <2> QED  BY <1>0, <1>1, <1>5, <2>1, PollTells
  <1>6. ASSUME ApplyEvent  PROVE ValuesInv'
    <2>1. stage = "live" /\ UNCHANGED <<type, flags, stage, logic>> /\ events # <<>> /\ events' = Tail(events)
      BY <1>6 DEF ApplyEvent, config
    <2>2. /\ \E X : events' \in Seq(X)
          /\ \A i \in 1..Len(events') : events'[i].kind \in EventKinds
      BY <1>0, <2>1, EventsShrink
    <2>3. DOMAIN value' = DOMAIN value /\ fired' \cup deaf' \subseteq {MemberOf(a) : a \in DOMAIN value}
      BY <1>6, EventTells
    <2> QED  BY <1>0, <1>1, <2>1, <2>2, <2>3
  <1>7. ASSUME NEW c, HubChange(c) \/ ShortPress(c)  PROVE ValuesInv'
    <2>1. /\ UNCHANGED <<type, stage, flags, logic, value>> /\ stage = "live"
          /\ fired' = {} /\ deaf' = {}
          /\ \E X : events' \in Seq(X)
          /\ \A i \in 1..Len(events') : events'[i].kind \in EventKinds
      BY <1>7, HubTells
    <2> QED  BY <1>0, <1>1, <2>1
  <1>8. ASSUME UNCHANGED vars  PROVE ValuesInv'
    <2>1. UNCHANGED <<type, stage, flags, logic, value, events, fired, deaf, clean>>
      BY <1>8 DEF vars, config, heard
    <2> QED  BY <1>0, <1>1, <2>1
  <1>9. ASSUME BuildFails  PROVE ValuesInv'
    <2>1. /\ stage = "configured" /\ stage' = "failed"
          /\ UNCHANGED <<type, flags, logic, value, events, fired, deaf, clean>>
      BY <1>9 DEF BuildFails, config, heard
    <2> QED  BY <1>0, <1>1, <2>1
  <1> QED  BY <1>2, <1>3, <1>4, <1>5, <1>6, <1>7, <1>8, <1>9 DEF Next

\* Every attribute has a value, a member of a module in use keeps its place whatever its
\* labels (a wrapped one fails the build), a counter is discovered once, and only members the module has are notified.
THEOREM TypeCorrect == Spec => []TypeOK
  <1>1. ConfigurationInv /\ ValuesInv => TypeOK
    <2> SUFFICES ASSUME ConfigurationInv, ValuesInv  PROVE TypeOK  OBVIOUS
    <2>1. Attributes = Reach(Len(logic))  BY DEF Attributes, Reach
    <2>2. \A i, j \in 1..Len(logic) : logic[i] = logic[j] => i = j
      <3>1. CASE stage = "live"  BY <3>1 DEF ValuesInv, Found
      <3>2. CASE stage # "live"
        <4>1. Len(logic) = 0  BY <3>2, EmptySeq DEF ValuesInv
        <4> QED  BY <4>1
      <3> QED  BY <3>1, <3>2
    <2>3. ASSUME NEW m \in Configured, stage = "live", IsWrapped(m, member[m].nmbr)
          PROVE  FALSE
      <3>1. type \in Types /\ Shiftable  BY <2>3 DEF ConfigurationInv
      <3>2. Is("out") /\ m \in Outputs /\ member[m].nmbr = m[2] - 8  BY <2>3, OutputsAre DEF IsWrapped
      <3>3. Size("outputs") = 8  BY <3>1, <3>2, SizesOfOutputs
      <3>4. m[2] \in 0..7  BY <3>2, <3>3, MembersOfOne DEF Outputs
      <3>5. member[m].nmbr >= 0  BY <3>1, <3>2 DEF Shiftable, Outputs
      <3> QED  BY <3>2, <3>4, <3>5
    <2> QED  BY <2>1, <2>2, <2>3 DEF ConfigurationInv, ValuesInv, Placed, TypeOK
  <1> QED  BY <1>1, ConfigurationAtFirst, ConfigurationStays, ValuesAtFirst, ValuesStay, PTL DEF Spec

\* No value changes behind its listeners' backs, even when a listener raises halfway.
THEOREM EveryChangeHeard == Spec => EveryChangeIsHeard
  <1> DEFINE Heard == stage = "live" =>
                \A a \in DOMAIN value : value'[a] # value[a] => MemberOf(a) \in fired' \cup deaf'
  <1>1. ValuesInv /\ [Next]_vars => [Heard]_vars
    <2> SUFFICES ASSUME ValuesInv, Next, stage = "live", NEW a \in DOMAIN value, value'[a] # value[a]
                 PROVE  MemberOf(a) \in fired' \cup deaf'
      OBVIOUS
    <2>1. CASE PollStatus  BY <2>1, PollTells
    <2>2. CASE ApplyEvent  BY <2>2, EventTells
    <2>3. CASE ReadDefinitions \/ ReadSettings \/ BuildStatus \/ BuildFails
      BY <2>3 DEF ReadDefinitions, ReadSettings, BuildStatus, BuildFails
    <2>4. CASE \E c \in Hot[type] : HubChange(c) \/ ShortPress(c)
      BY <2>4 DEF HubChange, ShortPress
    <2> QED  BY <2>1, <2>2, <2>3, <2>4 DEF Next
  <1>2. EveryChangeIsHeard <=> [][Heard]_vars  BY DEF EveryChangeIsHeard
  <1> QED  BY <1>1, <1>2, ValuesAtFirst, ValuesStay, PTL DEF Spec

\* A cover's two outputs exist, and neither is the analogue output.
LEMMA OutputsOfCover ==
  ASSUME type \in Types, NEW k \in Nat, k \div 2 \in 0..(Size("covers") - 1)
  PROVE  k < Size("outputs") /\ k # 15
  <1>1. CASE Is("controller")
    <2>1. Size("covers") = 5 /\ Size("outputs") = 16  BY <1>1, SizesOfOutputs
    <2> QED  BY <2>1
  <1>2. CASE Is("io2")
    <2>1. Size("covers") = 1 /\ Size("outputs") = 2  BY <1>2, SizesOfOutputs
    <2> QED  BY <2>1
  <1>3. CASE Is("out")
    <2>1. Size("covers") = 4 /\ Size("outputs") = 8  BY <1>3, SizesOfOutputs
    <2> QED  BY <2>1
  <1>4. CASE ~Is("controller") /\ ~Is("io2") /\ ~Is("out")
    <2>1. Size("covers") = 0  BY <1>4, SizesOfOutputs
    <2> QED  BY <2>1
  <1> QED  BY <1>1, <1>2, <1>3, <1>4

\* The cover an output's event looks for is the configured one behind it.
LEMMA CoverIndexIs ==
  ASSUME ConfigurationInv, stage = "live", NEW n \in 1..15
  PROVE  /\ CoverIndex(n) >= 0 => /\ CoverIndex(n) = (n - 1) \div 2 /\ n - 1 < Size("outputs")
                                  /\ (n - 1) \div 2 \in 0..(Size("covers") - 1)
         /\ \A c \in 0..(Size("covers") - 1) :
                (n - 1) \div 2 = c /\ member[<<"covers", c>>].nmbr = c <=> CoverIndex(n) = c
  <1> DEFINE k == n - 1  q == k \div 2  o == <<"outputs", k>>
  <1>1. type \in Types /\ Hidden(member, shutters)  BY DEF ConfigurationInv
  <1>2. k \in Nat /\ k # 15 /\ ((n + 1) \div 2) - 1 = q /\ q \in Nat  OBVIOUS
  <1>3. Size("outputs") \in Nat /\ Size("covers") \in Nat  BY <1>1, SizeIsNat
  <1>4. CoverIndex(n) = IF k < Size("outputs") /\ member[o].type = -10 THEN q ELSE -1
    BY <1>2 DEF CoverIndex
  <1>5. o[2] = k /\ o[1] = "outputs"  OBVIOUS
  <1>6. k < Size("outputs") => Plain(o)
    <2>1. k < Size("outputs") => k \in 0..(Size("outputs") - 1)  BY <1>2, <1>3
    <2>2. o # <<"outputs", 15>>  BY <1>2
    <2> HIDE DEF k
    <2>3. k \in 0..(Size("outputs") - 1) => o \in Outputs  BY MembersOfOne DEF Outputs
    <2> HIDE DEF o
    <2> QED  BY <2>1, <2>2, <2>3 DEF Plain
  <1> HIDE DEF o
  <1>7. Plain(o) => (member[o].type = -10 <=> q \in 0..(Size("covers") - 1) /\ SettingsPlace(q) \in shutters)
    <2>1. o[2] \div 2 = q  BY <1>5
    <2> HIDE DEF q
    <2> QED  BY <1>1, <2>1 DEF Hidden
  <1>8. \A c \in 0..(Size("covers") - 1) : member[<<"covers", c>>].nmbr = c <=> SettingsPlace(c) \in shutters
    BY <1>1 DEF Hidden
  <1>9. q \in 0..(Size("covers") - 1) => k < Size("outputs")
    <2> HIDE DEF k
    <2> QED  BY <1>1, <1>2, OutputsOfCover
  <1> HIDE DEF q, k
  <1>10. CoverIndex(n) >= 0 => CoverIndex(n) = q /\ k < Size("outputs") /\ q \in 0..(Size("covers") - 1)
    <2>1. ~(-1 >= 0)  OBVIOUS
    <2> QED  BY <1>4, <1>6, <1>7, <2>1
  <1>11. ASSUME NEW c \in 0..(Size("covers") - 1)
         PROVE  q = c /\ member[<<"covers", c>>].nmbr = c <=> CoverIndex(n) = c
    <2>1. c # -1  BY <1>3
    <2>2. ASSUME q = c, member[<<"covers", c>>].nmbr = c  PROVE CoverIndex(n) = c
      <3>1. k < Size("outputs") /\ SettingsPlace(q) \in shutters  BY <1>8, <1>9, <2>2
      <3> QED  BY <1>4, <1>6, <1>7, <2>2, <3>1
    <2>3. ASSUME CoverIndex(n) = c  PROVE q = c /\ member[<<"covers", c>>].nmbr = c
      <3>1. k < Size("outputs") /\ member[o].type = -10 /\ q = c  BY <1>4, <2>1, <2>3
      <3> QED  BY <1>6, <1>7, <1>8, <3>1
    <2> QED  BY <2>2, <2>3
  <1> QED  BY <1>10, <1>11 DEF q, k

\* An event for an output notifies the configured cover behind it, and no other.
THEOREM OutputsReachTheirCover == Spec => CoverHearsItsOutputs
  <1> DEFINE Hears == stage = "live" /\ Len(events') < Len(events) /\ deaf' = {} =>
                \A n \in 1..15 :
                    /\ Head(events).kind = "OUTPUT" /\ Head(events).args[1] = n
                    /\ ~(Is("mini") /\ n > 2)
                    => \A c \in 0..(Size("covers") - 1) :
                        <<"covers", c>> \in fired'
                            <=> (n - 1) \div 2 = c /\ member[<<"covers", c>>].nmbr = c
  <1>1. ConfigurationInv /\ ValuesInv /\ [Next]_vars => [Hears]_vars
    <2> SUFFICES ASSUME ConfigurationInv, ValuesInv, Next,
                        stage = "live", Len(events') < Len(events), deaf' = {},
                        NEW n \in 1..15, Head(events).kind = "OUTPUT", Head(events).args[1] = n,
                        ~(Is("mini") /\ n > 2), NEW c \in 0..(Size("covers") - 1)
                 PROVE  <<"covers", c>> \in fired'
                            <=> (n - 1) \div 2 = c /\ member[<<"covers", c>>].nmbr = c
      OBVIOUS
    <2>1. Len(events) \in Nat  BY DEF ValuesInv
    <2>2. ApplyEvent
      <3>1. ~PollStatus  BY <2>1 DEF PollStatus
      <3>2. ~(ReadDefinitions \/ ReadSettings \/ BuildStatus \/ BuildFails)
        BY DEF ReadDefinitions, ReadSettings, BuildStatus, BuildFails
      <3>3. ~(\E d \in Hot[type] : HubChange(d) \/ ShortPress(d))
        <4> SUFFICES ASSUME NEW d, HubChange(d) \/ ShortPress(d)  PROVE FALSE  OBVIOUS
        <4>1. Len(events') >= Len(events) /\ \E X : events' \in Seq(X)  BY HubTells
        <4>2. Len(events') \in Nat  BY <4>1
        <4> QED  BY <2>1, <4>1, <4>2
      <3> QED  BY <3>1, <3>2, <3>3 DEF Next
    <2> DEFINE v == Head(events).args[2]
               steps == EventSteps(Head(events))
               x == Sets("outputs", n - 1, v)  y == Step(<<"covers", CoverIndex(n)>>, <<>>)
               found(i) == \E a \in DOMAIN value : MemberOf(a) = steps[i].who
    <2>3. steps = <<x>> \o (IF CoverIndex(n) >= 0 THEN <<y>> ELSE <<>>)
      <3>1. steps = OutputSteps(n, v)  BY DEF EventSteps
      <3>2. ~(n > 15)  OBVIOUS
      <3> QED  BY <3>1, <3>2 DEF OutputSteps
    <2>4. x.who = <<"outputs", n - 1>> /\ y.who = <<"covers", CoverIndex(n)>>  BY DEF Sets, Step
    <2>5. Honest(steps)
      <3>1. "OUTPUT" \in EventKinds  BY DEF EventKinds
      <3> QED  BY <3>1, HonestEvent
    <2>6. PICK m \in 0..Len(steps) :
            /\ m < Len(steps) => ~found(m + 1)
            /\ Run(value, SubSeq(steps, 1, m))
      BY <2>2 DEF ApplyEvent
    <2> HIDE DEF steps, x, y
    <2>7. fired' = {steps[i].who : i \in 1..m}
      <3>1. fired' = Members(SubSeq(steps, 1, m))
        <4> HIDE DEF found
        <4> QED  BY <2>6 DEF Run
      <3>2. /\ Len(SubSeq(steps, 1, m)) = m
            /\ \A k \in 1..m : SubSeq(steps, 1, m)[k] = steps[k]
        BY <2>5, HonestFirst
      <3>3. fired' = {SubSeq(steps, 1, m)[i].who : i \in 1..m}  BY <3>1, <3>2 DEF Members
      <3> QED  BY <3>2, <3>3
    <2>8. /\ CoverIndex(n) >= 0 => /\ CoverIndex(n) = (n - 1) \div 2 /\ n - 1 < Size("outputs")
                                   /\ (n - 1) \div 2 \in 0..(Size("covers") - 1)
          /\ (n - 1) \div 2 = c /\ member[<<"covers", c>>].nmbr = c <=> CoverIndex(n) = c
      BY CoverIndexIs
    <2>9. type \in Types /\ DOMAIN value = Reach(Len(logic))  BY DEF ValuesInv
    <2>10. "outputs" # "covers"  OBVIOUS
    <2>11. c >= 0  BY <2>9, SizeIsNat
    <2>12. CASE CoverIndex(n) >= 0
      <3> DEFINE q == CoverIndex(n)
      <3>1. Len(steps) = 2 /\ steps[1] = x /\ steps[2] = y  BY <2>3, <2>12, JoinedAre
      <3>2. \A list \in {"outputs", "covers"} : \A i \in 0..(Size(list) - 1) :
                <<list, i>> \in DOMAIN value /\ MemberOf(<<list, i>>) = <<list, i>>
        <4> TAKE list \in {"outputs", "covers"}
        <4> TAKE i \in 0..(Size(list) - 1)
        <4>1. list \in StaticLists /\ Base(list) = list  BY DEF StaticLists, ConfiguredLists, Base
        <4>2. i \in Places(list, Len(logic))  BY <4>1, PlacesAre
        <4>3. <<list, i>> \in Reach(Len(logic))  BY <4>1, <4>2, PlacesAre
        <4>4. MemberOf(<<list, i>>) = <<Base(list), i>>  BY MemberOfIs
        <4> QED  BY <2>9, <4>1, <4>3, <4>4
      <3>3. found(1)
        <4> DEFINE most == Size("outputs")
        <4>0. most \in Nat /\ n - 1 < most  BY <2>8, <2>9, <2>12, SizeIsNat
        <4> HIDE DEF most
        <4>1. n - 1 \in 0..(most - 1)  BY <4>0
        <4> USE DEF most
        <4> QED  BY <2>4, <3>1, <3>2, <4>1
      <3>4. found(2)
        <4>1. q \in 0..(Size("covers") - 1)  BY <2>8, <2>12
        <4> QED  BY <2>4, <3>1, <3>2, <4>1
      <3>5. m = 2
        <4> HIDE DEF found
        <4>1. m \in 0..2  BY <3>1
        <4>2. m # 0 /\ m # 1
          <5>1. 0 + 1 = 1 /\ 1 + 1 = 2 /\ 0 < 2 /\ 1 < 2  OBVIOUS
          <5> QED  BY <2>6, <3>1, <3>3, <3>4, <5>1
        <4> QED  BY <4>1, <4>2
      <3>6. fired' = {<<"outputs", n - 1>>, <<"covers", q>>}
        <4>1. 1..2 = {1, 2}  OBVIOUS
        <4>2. fired' = {steps[1].who, steps[2].who}  BY <2>7, <3>5, <4>1
        <4> QED  BY <2>4, <3>1, <4>2
      <3> HIDE DEF q
      <3>7. <<"covers", c>> \in fired' <=> q = c  BY <2>10, <3>6
      <3> QED  BY <2>8, <3>7 DEF q
    <2>13. CASE ~(CoverIndex(n) >= 0)
      <3>1. steps = <<x>> \o <<>>  BY <2>3, <2>13
      <3>2. <<x>> \in Seq({x}) /\ Len(<<x>>) = 1 /\ <<x>>[1] = x  OBVIOUS
      <3>3. steps = <<x>>  BY <3>1, <3>2, ConcatEmptySeq
      <3>4. \A i \in 1..m : i = 1
        <4>1. m \in 0..1  BY <3>2, <3>3
        <4> QED  BY <4>1
      <3>5. fired' \subseteq {<<"outputs", n - 1>>}  BY <2>4, <2>7, <3>2, <3>3, <3>4
      <3>6. <<"covers", c>> \notin fired'  BY <2>10, <3>5
      <3>7. CoverIndex(n) # c  BY <2>11, <2>13
      <3> QED  BY <2>8, <3>6, <3>7
    <2> QED  BY <2>12, <2>13
  <1>2. CoverHearsItsOutputs <=> [][Hears]_vars  BY DEF CoverHearsItsOutputs
  <1> QED  BY <1>1, <1>2, ConfigurationAtFirst, ConfigurationStays, ValuesAtFirst, ValuesStay, PTL DEF Spec

-------------------------------------------------------------------------------
(***************************************************************************)
(* A status read again: what its reads depend on is what the hub says, and *)
(* for the smoothed wind the reading before.                               *)
(***************************************************************************)
\* The shapes of reads, as long as the configuration and the cells stay.
LEMMA SamePieces ==
  ASSUME type' = type, flags' = flags, member' = member, cell' = cell
  PROVE  /\ \A list, i, field, n : Read(list, i, field, n)' = Read(list, i, field, n)
         /\ \A list, fields : Column(list, fields)' = Column(list, fields)
         /\ \A list, field, off : Row(list, field, off)' = Row(list, field, off)
         /\ Setpoints' = Setpoints /\ Status' = Status /\ PowerTemp' = PowerTemp
         /\ FlagReads' = FlagReads /\ ColourReads' = ColourReads
         /\ InputReads' = InputReads /\ CoverReads' = CoverReads
         /\ \A kind : Is(kind)' <=> Is(kind)
         /\ HasAnalogPins' <=> HasAnalogPins
  <1>1. \A field, n : Cell(field, n)' = Cell(field, n)  BY DEF Cell
  <1>2. \A list, i, field, n : Read(list, i, field, n)' = Read(list, i, field, n)  BY <1>1 DEF Read
  <1>3. \A list, fields : Column(list, fields)' = Column(list, fields)  BY <1>2 DEF Column
  <1>4. \A list : Size(list)' = Size(list)  BY SameShape
  <1>5. \A list, field, off : Row(list, field, off)' = Row(list, field, off)  BY <1>2, <1>4 DEF Row
  <1>6. Setpoints' = Setpoints  BY <1>3, <1>4 DEF Setpoints
  <1>7. Status' = Status /\ PowerTemp' = PowerTemp  BY <1>2 DEF Status, PowerTemp
  <1>8. FlagReads' = FlagReads  BY <1>2 DEF FlagReads
  <1>9. ColourReads' = ColourReads  BY <1>2, <1>4 DEF ColourReads
  <1>10. InputReads' = InputReads
    <2> DEFINE row == Row("inputs", "INP", 0)
               some == {i \in 1..Len(row) : member[row[i].to].type # 3}
    <2>1. row' = row  BY <1>5
    <2> HIDE DEF row
    <2>2. some' = some  BY <2>1
    <2>3. InputReads = Entries(row, some)  BY DEF InputReads, row
    <2>4. InputReads' = Entries(row', some')  BY DEF InputReads, row
    <2> HIDE DEF some
    <2> QED  BY <2>1, <2>2, <2>3, <2>4
  <1>11. \A kind : Is(kind)' <=> Is(kind)  BY DEF Is
  <1>12. CoverReads' = CoverReads
    <2> DEFINE reads == [k \in 1..(2 * Size("covers")) |->
                          LET c == (k - 1) \div 2
                          IN  IF k % 2 = 1 THEN Read("covers", c, "ROLL_POS", StatusPlace(c))
                                           ELSE Read("tilt", c, "BLAD_POS", StatusPlace(c))]
               some == {k \in 1..Len(reads) : member[<<"covers", (k - 1) \div 2>>].nmbr >= 0}
    <2>1. \A c : StatusPlace(c)' = StatusPlace(c)  BY <1>11 DEF StatusPlace
    <2>2. reads' = reads  BY <1>2, <1>4, <2>1
    <2> HIDE DEF reads
    <2>3. some' = some  BY <2>2
    <2>4. CoverReads = Entries(reads, some)  BY DEF CoverReads, reads
    <2>5. CoverReads' = Entries(reads', some')  BY DEF CoverReads, reads
    <2> HIDE DEF some
    <2> QED  BY <2>2, <2>3, <2>4, <2>5
  <1>13. HasAnalogPins' <=> HasAnalogPins  BY DEF HasAnalogPins
  <1> QED  BY <1>2, <1>3, <1>5, <1>6, <1>7, <1>8, <1>9, <1>10, <1>11, <1>12, <1>13

\* The parser of every kind but nature's reads the same again.
LEMMA SameKindReads ==
  ASSUME type \in Types, type' = type, flags' = flags, member' = member, cell' = cell, ~Is("nature")
  PROVE  KindReads' = KindReads
  <1>1. ControllerReads' = ControllerReads  BY SamePieces DEF ControllerReads, Front
  <1>2. MiniReads' = MiniReads  BY SamePieces DEF MiniReads
  <1>3. OutReads' = OutReads  BY SamePieces DEF OutReads
  <1>4. DimmReads' = DimmReads  BY SamePieces DEF DimmReads
  <1>5. Io2Reads' = Io2Reads  BY SamePieces DEF Io2Reads
  <1>6. InReads' = InReads
    <2>1. Size("analogins")' = Size("analogins")  BY SameShape
    <2> QED  BY <2>1, SamePieces DEF InReads
  <1>7. DetectReads' = DetectReads  BY SamePieces DEF DetectReads
  <1>8. SensorReads' = SensorReads  BY SamePieces DEF SensorReads
  <1>9. EkeyReads' = EkeyReads
    <2>1. Status' = Status  BY SamePieces
    <2> QED  BY <2>1 DEF EkeyReads
  <1>10. \A kind : Is(kind)' <=> Is(kind)  BY SamePieces
  <1>11. Kind[type] \in Kinds /\ Kind[type'] = Kind[type]  BY KindOf
  <1> DEFINE kind == Kind[type]
  <1>12. KindReads =
            CASE kind = "controller" -> ControllerReads
              [] kind = "mini"   -> MiniReads
              [] kind = "out"    -> OutReads
              [] kind = "dimm"   -> DimmReads
              [] kind = "io2"    -> Io2Reads
              [] kind = "in"     -> InReads
              [] kind = "detect" -> DetectReads
              [] kind = "nature" -> NatureReads
              [] kind = "sensor" -> SensorReads
              [] kind = "ekey"   -> EkeyReads
              [] kind = "gsm"    -> <<>>
    BY DEF KindReads, Is
  <1>13. KindReads' =
            CASE kind = "controller" -> ControllerReads'
              [] kind = "mini"   -> MiniReads'
              [] kind = "out"    -> OutReads'
              [] kind = "dimm"   -> DimmReads'
              [] kind = "io2"    -> Io2Reads'
              [] kind = "in"     -> InReads'
              [] kind = "detect" -> DetectReads'
              [] kind = "nature" -> NatureReads'
              [] kind = "sensor" -> SensorReads'
              [] kind = "ekey"   -> EkeyReads'
              [] kind = "gsm"    -> <<>>
    BY <1>11 DEF KindReads, Is
  <1>14. kind # "nature"  BY DEF Is
  <1> HIDE DEF kind
  <1> QED
    BY <1>1, <1>2, <1>3, <1>4, <1>5, <1>6, <1>7, <1>8, <1>9, <1>12, <1>13, <1>14

\* Two readings of a status that differ at most in what they say of the smoothed wind.
Wind == <<"sensors", 3>>

\* (They are lists of one length, alike but where both read the wind.)
Calm(r, s) ==
    /\ (\E X : r \in Seq(X)) /\ (\E X : s \in Seq(X))
    /\ Len(r) = Len(s)
    /\ \A k \in 1..Len(r) : r[k] = s[k] \/ (r[k].to = Wind /\ s[k].to = Wind)

\* A list is calm beside itself.
LEMMA CalmSame ==
  ASSUME NEW r, \E X : r \in Seq(X)
  PROVE  Calm(r, r)
  BY DEF Calm

\* One part of a status after the other.
LEMMA CalmJoin ==
  ASSUME NEW r, NEW s, NEW t, NEW u, Calm(r, s), Calm(t, u)
  PROVE  Calm(r \o t, s \o u)
  <1>1. PICK R : r \in Seq(R)  BY DEF Calm
  <1>2. PICK S : s \in Seq(S)  BY DEF Calm
  <1>3. PICK T : t \in Seq(T)  BY DEF Calm
  <1>4. PICK U : u \in Seq(U)  BY DEF Calm
  <1> DEFINE Z == R \cup S \cup T \cup U  x == r \o t  y == s \o u
  <1>5. r \in Seq(Z) /\ s \in Seq(Z) /\ t \in Seq(Z) /\ u \in Seq(Z)  BY <1>1, <1>2, <1>3, <1>4
  <1> HIDE DEF Z
  <1>6. /\ x \in Seq(Z) /\ Len(x) = Len(r) + Len(t) /\ Len(r) \in Nat /\ Len(t) \in Nat
        /\ \A k \in 1..(Len(r) + Len(t)) : x[k] = IF k <= Len(r) THEN r[k] ELSE t[k - Len(r)]
    BY <1>5, ConcatProperties
  <1>7. /\ y \in Seq(Z) /\ Len(y) = Len(s) + Len(u)
        /\ \A k \in 1..(Len(s) + Len(u)) : y[k] = IF k <= Len(s) THEN s[k] ELSE u[k - Len(s)]
    BY <1>5, ConcatProperties
  <1> HIDE DEF x, y
  <1>8. Len(r) = Len(s) /\ Len(t) = Len(u)  BY DEF Calm
  <1>9. ASSUME NEW k \in 1..Len(x)  PROVE x[k] = y[k] \/ (x[k].to = Wind /\ y[k].to = Wind)
    <2>1. CASE k <= Len(r)
      <3>1. x[k] = r[k] /\ y[k] = s[k] /\ k \in 1..Len(r)  BY <1>6, <1>7, <1>8, <2>1
      <3> QED  BY <3>1 DEF Calm
    <2>2. CASE ~(k <= Len(r))
      <3> DEFINE j == k - Len(r)
      <3>1. x[k] = t[j] /\ y[k] = u[j] /\ j \in 1..Len(t)  BY <1>6, <1>7, <1>8, <2>2
      <3> HIDE DEF j
      <3> QED  BY <3>1 DEF Calm
    <2> QED  BY <2>1, <2>2
  <1> QED  BY <1>6, <1>7, <1>8, <1>9 DEF Calm, x, y

\* Nature's parser reads everything but the wind the same again.
LEMMA NatureAgain ==
  ASSUME type \in Types, type' = type, flags' = flags, member' = member, cell' = cell, Is("nature")
  PROVE  Calm(NatureReads', NatureReads)
  <1> DEFINE fields == <<"TEMP_ROOM", "HUM", "LUM", "WIND", "RAIN", "WINDP">>
             reads == Column("sensors", fields)
             wind == Smoothed(value[Wind], reads[4].is)
             new == [reads EXCEPT ![4].is = wind]
  <1>1. NatureReads = new \o Status  BY DEF NatureReads, Wind
  <1>2. NatureReads' = new' \o Status'  BY DEF NatureReads, Wind
  <1>3. reads' = reads /\ Status' = Status  BY SamePieces
  <1>4. reads = [k \in 1..6 |-> Read("sensors", k - 1, fields[k], 0)]  BY DEF Column
  <1> HIDE DEF wind, fields
  <1>5. reads[4] = [to |-> Wind, from |-> reads[4].from, is |-> reads[4].is]
    <2>1. 4 - 1 = 3  OBVIOUS
    <2>2. reads[4] = Read("sensors", 3, fields[4], 0)  BY <1>4, <2>1
    <2> QED  BY <2>2 DEF Read, Wind
  <1> HIDE DEF reads
  <1>6. ASSUME NEW w  PROVE /\ [reads EXCEPT ![4].is = w]
                                = [k \in 1..6 |-> IF k = 4 THEN [reads[4] EXCEPT !.is = w] ELSE reads[k]]
                            /\ [reads[4] EXCEPT !.is = w].to = Wind
    BY <1>4, <1>5
  <1>7. new = [k \in 1..6 |-> IF k = 4 THEN [reads[4] EXCEPT !.is = wind] ELSE reads[k]]
        /\ [reads[4] EXCEPT !.is = wind].to = Wind
    BY <1>6
  <1>8. new' = [k \in 1..6 |-> IF k = 4 THEN [reads[4] EXCEPT !.is = wind'] ELSE reads[k]]
        /\ [reads[4] EXCEPT !.is = wind'].to = Wind
    BY <1>3, <1>6
  <1> HIDE DEF new
  <1>9. \A k \in 1..6 : new'[k] = new[k] \/ (new'[k].to = Wind /\ new[k].to = Wind)  BY <1>7, <1>8
  <1>10. new = [k \in 1..6 |-> new[k]] /\ new' = [k \in 1..6 |-> new'[k]]  BY <1>7, <1>8
  <1>11. Len(new) = 6 /\ Len(new') = 6 /\ (\E X : new \in Seq(X)) /\ (\E X : new' \in Seq(X))
    BY <1>10, IsList
  <1>12. Calm(new', new)  BY <1>9, <1>11 DEF Calm
  <1>13. Calm(Status, Status)
    <2>1. Aims(Status, {"diags"}, 0)  BY SizesByKind, StatusAims
    <2>2. \E X : Status \in Seq(X)  BY <2>1 DEF Aims
    <2> QED  BY <2>2, CalmSame
  <1> QED  BY <1>1, <1>2, <1>3, <1>12, <1>13, CalmJoin

\* The next status reads what this one did, the wind excepted.
LEMMA ReadsAgain ==
  ASSUME type \in Types, Len(flags) \in Nat, Found(logic), type' = type, flags' = flags,
         member' = member, cell' = cell, logic' = logic
  PROVE  Calm(Reads', Reads) /\ (~Is("nature") => Reads' = Reads)
  <1> DEFINE mode == <<Read("mode", 0, "MODE", 0)>>
             units == [i \in 1..Len(Discovered) |-> Read("logic", i, "COUNTER_VAL", Discovered[i])]
             head == mode \o units
  <1>1. Discovered = logic /\ Discovered' = logic
    <2>1. logic # <<>>  BY DEF Found
    <2> QED  BY <2>1 DEF Discovered, IsFirstStatus
  <1>2. Reads = head \o KindReads /\ Reads' = head' \o KindReads'  BY DEF Reads, KindReads
  <1>3. head' = head
    <2>1. mode' = mode  BY SamePieces
    <2>2. units' = units  BY <1>1, SamePieces
    <2> QED  BY <2>1, <2>2
  <1>4. \E X : head \in Seq(X)
    <2>2. mode \in Seq({Read("mode", 0, "MODE", 0)})  OBVIOUS
    <2> DEFINE n == Len(Discovered)
    <2>3. n \in Nat  BY <1>1 DEF Found
    <2>4. units = [k \in 1..n |-> units[k]]  OBVIOUS
    <2> HIDE DEF n
    <2>5. \E X : units \in Seq(X)
      <3> DEFINE s == units
      <3>1. s = [k \in 1..n |-> s[k]]  BY <2>4
      <3> HIDE DEF s
      <3>2. \E X : s \in Seq(X)  BY <2>3, <3>1, IsList
      <3> QED  BY <3>2 DEF s
    <2> HIDE DEF mode, units
    <2>6. PICK X, Y : mode \in Seq(X) /\ units \in Seq(Y)  BY <2>2, <2>5 DEF mode
    <2> DEFINE Z == X \cup Y
    <2>7. mode \in Seq(Z) /\ units \in Seq(Z)  BY <2>6
    <2> HIDE DEF Z
    <2> QED  BY <2>7, ConcatProperties
  <1> HIDE DEF head
  <1>5. CASE ~Is("nature")
    <2>1. KindReads' = KindReads  BY <1>5, SameKindReads
    <2>2. Reads' = Reads  BY <1>2, <1>3, <2>1
    <2>3. \E X : Reads \in Seq(X)  BY <1>1, ReadsAim DEF Aims
    <2> QED  BY <2>2, <2>3, CalmSame
  <1>6. CASE Is("nature")
    <2>1. KindReads = NatureReads  BY <1>6, KindReadsAre
    <2>2. KindReads' = NatureReads'
      <3>1. Kind[type'] = "nature"  BY <1>6 DEF Is
      <3> QED  BY <3>1 DEF KindReads, Is
    <2>3. Calm(NatureReads', NatureReads)  BY <1>6, NatureAgain
    <2>4. Calm(head, head)  BY <1>4, CalmSame
    <2> QED  BY <1>2, <1>3, <1>6, <2>1, <2>2, <2>3, <2>4, CalmJoin
  <1> QED  BY <1>5, <1>6

\* A step calls the listeners of members its steps name.
LEMMA RunCalls ==
  ASSUME NEW old, NEW steps, Honest(steps), Run(old, steps)
  PROVE  fired' \cup deaf' \subseteq {steps[k].who : k \in 1..Len(steps)}
  <1>1. Len(steps) \in Nat  BY DEF Honest
  <1>2. CASE fired' = Members(steps) /\ deaf' = {}  BY <1>2 DEF Members
  <1>3. CASE \E k \in 1..Len(steps) : /\ fired' = Members(SubSeq(steps, 1, k - 1))
                                      /\ deaf' = {steps[k].who}
    <2>1. PICK k \in 1..Len(steps) : /\ fired' = Members(SubSeq(steps, 1, k - 1))
                                     /\ deaf' = {steps[k].who}
      BY <1>3
    <2> DEFINE n == k - 1
    <2>2. n \in 0..Len(steps)  BY <1>1
    <2>3. fired' = Members(SubSeq(steps, 1, n))  BY <2>1
    <2> HIDE DEF n
    <2>4. /\ Len(SubSeq(steps, 1, n)) = n
          /\ \A j \in 1..n : SubSeq(steps, 1, n)[j] = steps[j] /\ j \in 1..Len(steps)
      BY <2>2, HonestFirst
    <2>5. fired' = {SubSeq(steps, 1, n)[j].who : j \in 1..n}  BY <2>3, <2>4 DEF Members
    <2> QED  BY <2>1, <2>4, <2>5
  <1> QED  BY <1>2, <1>3 DEF Run

\* Nothing happened since the last complete status: the values are the ones it read,
\* but for the wind, which is on its way to it.
Settled(reads, values) ==
    \A k \in 1..Len(reads) :
        \/ values[reads[k].to] = reads[k].is
        \/ Is("nature") /\ reads[k].to = Wind

\* It is so as long as nothing happens: the invariant behind a quiet second reading.
CleanInv == clean => stage = "live" /\ Settled(Reads, value)

\* What a poll announces: the reads that differ from the values, and no others.
LEMMA PollNews ==
  ASSUME ValuesInv, PollStatus
  PROVE  \E old, steps :
            /\ DOMAIN old = DOMAIN value /\ \A a \in DOMAIN value : old[a] = value[a]
            /\ Honest(steps) /\ Run(old, steps) /\ Len(steps) \in Nat
            /\ \A j \in 1..Len(steps) : \E k \in 1..Len(Reads) :
                /\ value[Reads[k].to] # Reads[k].is
                /\ steps[j].who = MemberOf(Reads[k].to)
                /\ DOMAIN steps[j].set = {Reads[k].to}
            /\ \A k \in 1..Len(Reads) : value[Reads[k].to] # Reads[k].is =>
                \E j \in 1..Len(steps) :
                    /\ Reads[k].to \in DOMAIN steps[j].set /\ steps[j].set[Reads[k].to] = Reads[k].is
                    /\ \A i \in 1..Len(steps) : Reads[k].to \in DOMAIN steps[i].set => i = j
            /\ \A k \in 1..Len(Reads) : Reads[k].to \in DOMAIN value
            /\ \A j, k \in 1..Len(Reads) : Reads[j].to = Reads[k].to => j = k
  <1> DEFINE old == Extended("logic", Len(logic'))
             news == {i \in 1..Len(Reads) : old[Reads[i].to] # Reads[i].is}
             some == Entries(Reads, news)
             L == {"mode", "logic"} \cup KindLists
  <1>1. stage = "live" /\ logic' = logic /\ Found(logic) /\ Found(Discovered) /\ Discovered = logic
        /\ type \in Types /\ Len(flags) \in Nat /\ DOMAIN value = Reach(Len(logic))
    <2>1. stage = "live"  BY DEF PollStatus
    <2>2. Found(logic)  BY <2>1 DEF ValuesInv
    <2>3. logic # <<>>  BY <2>2 DEF Found
    <2>4. Discovered = logic  BY <2>2, <2>3, DiscoveredIs
    <2> QED  BY <2>1, <2>2, <2>4 DEF ValuesInv, PollStatus
  <1>2. Run(old, StatusSteps(some))  BY DEF PollStatus
  <1>3. Aims(Reads, L, Len(logic))  BY <1>1, ReadsAim
  <1>4. DOMAIN old = DOMAIN value /\ \A a \in DOMAIN value : old[a] = value[a]
    <2>1. {<<"logic", i>> : i \in 1..Len(logic)} \subseteq DOMAIN value  BY <1>1 DEF Reach
    <2> QED  BY <1>1, <2>1 DEF Extended
  <1>5. PICK X : Reads \in Seq(X)  BY <1>3 DEF Aims
  <1>6. some \in Seq(X) /\ \E f : Picks(f, some, Reads, news, Len(Reads))  BY <1>5, EntriesPick
  <1>7. PICK f : Picks(f, some, Reads, news, Len(Reads))  BY <1>6
  <1>8. Aims(some, L, Len(logic))  BY <1>3, AimsSome
  <1>9. \A k \in 1..Len(Reads) : k \in news <=> old[Reads[k].to] # Reads[k].is  OBVIOUS
  <1> HIDE DEF old, news, some, L
  <1> DEFINE steps == StatusSteps(some)
  <1>10. /\ Honest(steps) /\ Len(steps) = Len(some)
         /\ \A j \in 1..Len(some) : /\ DOMAIN steps[j].set = {some[j].to}
                                    /\ steps[j].who = MemberOf(some[j].to)
                                    /\ steps[j].set[some[j].to] = some[j].is
    BY <1>8, HonestStatus
  <1>11. Run(old, steps) /\ Len(steps) \in Nat  BY <1>2, <1>6, <1>10
  <1> HIDE DEF steps
  <1>12. /\ \A k \in 1..Len(Reads) : Reads[k].to \in DOMAIN value
         /\ \A j, k \in 1..Len(Reads) : Reads[j].to = Reads[k].to => j = k
    BY <1>1, <1>3 DEF Aims
  <1>13. \A k \in 1..Len(Reads) : k \in news <=> value[Reads[k].to] # Reads[k].is
    BY <1>4, <1>9, <1>12
  <1>14. ASSUME NEW j \in 1..Len(steps)
         PROVE  \E k \in 1..Len(Reads) :
                    /\ value[Reads[k].to] # Reads[k].is
                    /\ steps[j].who = MemberOf(Reads[k].to)
                    /\ DOMAIN steps[j].set = {Reads[k].to}
    <2>1. f[j] \in 1..Len(Reads) /\ f[j] \in news /\ some[j] = Reads[f[j]]
      BY <1>7, <1>10 DEF Picks
    <2> QED  BY <1>10, <1>13, <2>1
  <1>15. ASSUME NEW k \in 1..Len(Reads), value[Reads[k].to] # Reads[k].is
         PROVE  \E j \in 1..Len(steps) :
                    /\ Reads[k].to \in DOMAIN steps[j].set /\ steps[j].set[Reads[k].to] = Reads[k].is
                    /\ \A i \in 1..Len(steps) : Reads[k].to \in DOMAIN steps[i].set => i = j
    <2>1. PICK j \in 1..Len(some) : f[j] = k  BY <1>7, <1>13, <1>15 DEF Picks
    <2>2. some[j] = Reads[k]  BY <1>7, <2>1 DEF Picks
    <2>3. \A i \in 1..Len(some) : some[i].to = some[j].to => i = j  BY <1>8 DEF Aims
    <2> QED  BY <1>10, <2>1, <2>2, <2>3
  <1> QED  BY <1>4, <1>10, <1>11, <1>12, <1>14, <1>15

\* A complete status leaves the values it read.
LEMMA PollSettles ==
  ASSUME ValuesInv, PollStatus, deaf' = {}
  PROVE  \A k \in 1..Len(Reads) : value'[Reads[k].to] = Reads[k].is
  <1>1. PICK old, steps :
            /\ DOMAIN old = DOMAIN value /\ \A a \in DOMAIN value : old[a] = value[a]
            /\ Honest(steps) /\ Run(old, steps) /\ Len(steps) \in Nat
            /\ \A j \in 1..Len(steps) : \E k \in 1..Len(Reads) :
                /\ value[Reads[k].to] # Reads[k].is
                /\ steps[j].who = MemberOf(Reads[k].to)
                /\ DOMAIN steps[j].set = {Reads[k].to}
            /\ \A k \in 1..Len(Reads) : value[Reads[k].to] # Reads[k].is =>
                \E j \in 1..Len(steps) :
                    /\ Reads[k].to \in DOMAIN steps[j].set /\ steps[j].set[Reads[k].to] = Reads[k].is
                    /\ \A i \in 1..Len(steps) : Reads[k].to \in DOMAIN steps[i].set => i = j
            /\ \A k \in 1..Len(Reads) : Reads[k].to \in DOMAIN value
            /\ \A j, k \in 1..Len(Reads) : Reads[j].to = Reads[k].to => j = k
    BY PollNews
  <1>2. value' = Applied(old, steps)  BY <1>1 DEF Run
  <1> SUFFICES ASSUME NEW k \in 1..Len(Reads)  PROVE value'[Reads[k].to] = Reads[k].is  OBVIOUS
  <1>3. CASE value[Reads[k].to] # Reads[k].is
    <2>1. PICK j \in 1..Len(steps) :
            /\ Reads[k].to \in DOMAIN steps[j].set /\ steps[j].set[Reads[k].to] = Reads[k].is
            /\ \A i \in 1..Len(steps) : Reads[k].to \in DOMAIN steps[i].set => i = j
      BY <1>1, <1>3
    <2>2. Applied(old, steps)[Reads[k].to] = steps[j].set[Reads[k].to]  BY <2>1, AppliedIs
    <2> QED  BY <1>2, <2>1, <2>2
  <1>4. CASE value[Reads[k].to] = Reads[k].is
    <2> DEFINE a == Reads[k].to
    <2>1. ASSUME NEW i \in 1..Len(steps), a \in DOMAIN steps[i].set  PROVE FALSE
      <3>1. PICK j \in 1..Len(Reads) : value[Reads[j].to] # Reads[j].is /\ DOMAIN steps[i].set = {Reads[j].to}
        BY <1>1
      <3>2. Reads[j].to = Reads[k].to  BY <2>1, <3>1
      <3>3. j = k  BY <1>1, <3>2
      <3> QED  BY <1>4, <3>1, <3>3
    <2>2. a \in DOMAIN old /\ old[a] = value[a]  BY <1>1
    <2>3. value[a] = Reads[k].is  BY <1>4
    <2> HIDE DEF a
    <2>4. Applied(old, steps)[a] = old[a]  BY <2>1, <2>2, AppliedIs
    <2>5. value'[a] = Reads[k].is  BY <1>2, <2>2, <2>3, <2>4
    <2> QED  BY <2>5 DEF a
  <1> QED  BY <1>3, <1>4

\* Before anything happens there was no status.
LEMMA CleanAtFirst == Init => CleanInv
  BY DEF Init, CleanInv

\* Only a complete status settles the values, and what could unsettle them ends that.
LEMMA CleanStays == ValuesInv /\ CleanInv /\ [Next]_vars => CleanInv'
  <1> SUFFICES ASSUME ValuesInv, CleanInv, [Next]_vars, clean'  PROVE stage' = "live" /\ Settled(Reads, value)'
    BY DEF CleanInv
  <1>0. type \in Types /\ Len(flags) \in Nat /\ (stage # "live" => ~clean) /\ (stage = "live" => Found(logic))
    BY DEF ValuesInv
  <1>1. ASSUME stage = "live", UNCHANGED <<stage, type, flags, member, cell, logic>>,
               Settled(Reads, value')
        PROVE  stage' = "live" /\ Settled(Reads, value)'
    <2>1. Calm(Reads', Reads) /\ (~Is("nature") => Reads' = Reads)  BY <1>0, <1>1, ReadsAgain
    <2>2. Is("nature")' <=> Is("nature")  BY <1>1 DEF Is
    <2>3. ASSUME NEW k \in 1..Len(Reads')
          PROVE  \/ value'[Reads'[k].to] = Reads'[k].is
                 \/ Is("nature")' /\ Reads'[k].to = Wind
      <3>1. k \in 1..Len(Reads) /\ (Reads'[k] = Reads[k] \/ (Reads'[k].to = Wind /\ Reads[k].to = Wind))
        BY <2>1 DEF Calm
      <3> QED  BY <1>1, <2>1, <2>2, <3>1 DEF Settled
    <2> QED  BY <1>1, <2>3 DEF Settled
  <1>2. CASE ReadDefinitions \/ ReadSettings \/ BuildStatus \/ BuildFails
    BY <1>0, <1>2 DEF ReadDefinitions, ReadSettings, BuildStatus, BuildFails, heard
  <1>3. CASE PollStatus
    <2>1. stage = "live" /\ UNCHANGED <<stage, type, flags, member, cell>> /\ deaf' = {}
      BY <1>3 DEF PollStatus, config
    <2>2. logic' = logic  BY <1>3, PollTells
    <2>3. Settled(Reads, value')  BY <1>3, <2>1, PollSettles DEF Settled
    <2> QED  BY <1>1, <2>1, <2>2, <2>3
  <1>4. CASE ApplyEvent  BY <1>4 DEF ApplyEvent
  <1>5. CASE \E c \in Hot[type] : HubChange(c) \/ ShortPress(c)
    BY <1>5 DEF HubChange, ShortPress, Quiet
  <1>6. CASE UNCHANGED vars
    <2>1. UNCHANGED <<stage, type, flags, member, cell, logic, value, clean>>
      BY <1>6 DEF vars, config, heard
    <2>2. Settled(Reads, value) /\ stage = "live"  BY <2>1 DEF CleanInv
    <2> QED  BY <1>1, <2>1, <2>2
  <1> QED  BY <1>2, <1>3, <1>4, <1>5, <1>6 DEF Next

\* A status that says nothing new notifies nobody, the smoothed wind excepted.
THEOREM UnchangedStatusIsQuiet == Spec => ReparseIsQuiet
  <1> DEFINE Silent == Polled /\ clean =>
                fired' \cup deaf' \subseteq (IF Is("nature") THEN {<<"sensors", 3>>} ELSE {})
  <1>1. ValuesInv /\ CleanInv /\ [Next]_vars => [Silent]_vars
    <2> SUFFICES ASSUME ValuesInv, CleanInv, Next, Polled, clean
                 PROVE  fired' \cup deaf' \subseteq (IF Is("nature") THEN {<<"sensors", 3>>} ELSE {})
      OBVIOUS
    <2>1. stage = "live" /\ events' = events /\ changes' = changes  BY DEF Polled
    <2>2. CASE PollStatus
      <3>1. PICK old, steps :
                /\ Honest(steps) /\ Run(old, steps)
                /\ \A j \in 1..Len(steps) : \E k \in 1..Len(Reads) :
                    /\ value[Reads[k].to] # Reads[k].is
                    /\ steps[j].who = MemberOf(Reads[k].to)
        BY <2>2, PollNews
      <3>2. fired' \cup deaf' \subseteq {steps[j].who : j \in 1..Len(steps)}  BY <3>1, RunCalls
      <3>3. ASSUME NEW j \in 1..Len(steps)  PROVE Is("nature") /\ steps[j].who = <<"sensors", 3>>
        <4>1. PICK k \in 1..Len(Reads) :
                value[Reads[k].to] # Reads[k].is /\ steps[j].who = MemberOf(Reads[k].to)
          BY <3>1
        <4>2. Is("nature") /\ Reads[k].to = Wind  BY <4>1 DEF CleanInv, Settled
        <4>3. MemberOf(Wind) = Wind  BY DEF MemberOf, Wind
        <4> QED  BY <4>1, <4>2, <4>3 DEF Wind
      <3> QED  BY <3>2, <3>3
    <2>3. CASE ApplyEvent
      <3>1. PICK X : events \in Seq(X)  BY DEF ValuesInv
      <3>2. events # <<>> /\ events' = Tail(events)  BY <2>3 DEF ApplyEvent
      <3>3. Len(events') = Len(events) - 1 /\ Len(events) \in Nat  BY <3>1, <3>2, HeadTailProperties
      <3> QED  BY <2>1, <3>3
    <2>4. CASE ReadDefinitions \/ ReadSettings \/ BuildStatus \/ BuildFails
      BY <2>1, <2>4 DEF ReadDefinitions, ReadSettings, BuildStatus, BuildFails
    <2>5. CASE \E c \in Hot[type] : HubChange(c) \/ ShortPress(c)
      BY <2>5 DEF HubChange, ShortPress, Quiet
    <2> QED  BY <2>2, <2>3, <2>4, <2>5 DEF Next
  <1>2. ReparseIsQuiet <=> [][Silent]_vars  BY DEF ReparseIsQuiet
  <1> QED  BY <1>1, <1>2, ValuesAtFirst, ValuesStay, CleanAtFirst, CleanStays, PTL DEF Spec
===============================================================================
