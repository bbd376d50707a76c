-------------------------- MODULE UnitObjectProofs --------------------------
(***************************************************************************)
(* The object of a unit: the linker finds all of it in the file            *)
(* (UnitReadsBack), and every name the unit defines is in it once, with    *)
(* the place, the size and the linkage C gives it (UnitKeepsDefinitions),  *)
(* whatever the unit declares and however much of it there is. UnitProofs  *)
(* has what these rest on: the file, the folds, and the unit's invariant.  *)
(***************************************************************************)
EXTENDS UnitProofs

-----------------------------------------------------------------------------
(* What keeps an object readable *)

\* The names the compiler makes up.
OwnName(x) == \E n \in Nat : x = Private(n) \/ x = Literal(n)

\* The sections ir_encoder_create makes.
Fixed(b) ==
  /\ \A s \in 1..3 : b.sections[s].name = SectionNames[s]
  /\ b.sections[TextSection].kind = Text /\ b.sections[TextSection].align = 16
  /\ b.sections[DataSection].kind = Data /\ b.sections[DataSection].align = 8
  /\ b.sections[BssSection].kind = Bss /\ b.sections[BssSection].align = 8

\* Every relocation is of something there is a record of.
HasOwner(b, reloc) == \E i \in 1..Len(b.records) : Owns(b.records[i], reloc.source, reloc.name)

\* The builder is made of the three sections, with relocations of what has a record,
\* each within the room its section has or is about to have.
Frame(b, room) ==
  /\ Fixed(b)
  /\ \A s \in 1..3 : \A r \in 1..Len(b.sections[s].relocs) :
       /\ HasOwner(b, b.sections[s].relocs[r])
       /\ b.sections[s].relocs[r].offset + Width(b.sections[s].relocs[r].type) <= room[s]

Sizes(b) == [s \in 1..3 |-> b.sections[s].size]
Rooms == [1..3 -> Nat]

\* c has what b has, but for sizes and what is said of a symbol.
Keeps(b, c) ==
  /\ \A s \in 1..3 :
       /\ c.sections[s].name = b.sections[s].name /\ c.sections[s].kind = b.sections[s].kind
       /\ c.sections[s].align = b.sections[s].align
       /\ c.sections[s].relocs = b.sections[s].relocs
  /\ \A i \in 1..Len(b.records) :
       /\ i \in 1..Len(c.records)
       /\ c.records[i].source = b.records[i].source /\ c.records[i].name = b.records[i].name

LEMMA FrameKept ==
  ASSUME NEW b, NEW c, NEW room, Frame(b, room), Keeps(b, c)
  PROVE  Frame(c, room)
<1>1. Fixed(c)
  BY DEF Frame, Keeps, Fixed, TextSection, DataSection, BssSection
<1>2. ASSUME NEW s \in 1..3, NEW r \in 1..Len(c.sections[s].relocs)
      PROVE  /\ HasOwner(c, c.sections[s].relocs[r])
             /\ c.sections[s].relocs[r].offset + Width(c.sections[s].relocs[r].type) <= room[s]
  <2> DEFINE reloc == b.sections[s].relocs[r]
  <2>1. c.sections[s].relocs[r] = reloc /\ r \in 1..Len(b.sections[s].relocs)
    BY DEF Keeps
  <2>2. HasOwner(b, reloc) /\ reloc.offset + Width(reloc.type) <= room[s]
    BY <2>1 DEF Frame
  <2> HIDE DEF reloc
  <2>3. HasOwner(c, reloc)
    BY <2>2 DEF HasOwner, Keeps, Owns
  <2> QED
    BY <2>1, <2>2, <2>3
<1> QED
  BY <1>1, <1>2 DEF Frame

\* More room is enough too.
LEMMA FrameRoom ==
  ASSUME NEW n, NEW b \in BuilderType(n), NEW room \in Rooms, NEW more \in Rooms, Frame(b, room),
         \A s \in 1..3 : room[s] <= more[s]
  PROVE  Frame(b, more)
<1>1. ASSUME NEW s \in 1..3, NEW r \in 1..Len(b.sections[s].relocs)
      PROVE  b.sections[s].relocs[r].offset + Width(b.sections[s].relocs[r].type) <= more[s]
  <2> DEFINE reloc == b.sections[s].relocs[r]
             end == reloc.offset + Width(reloc.type)
  <2>1. reloc \in RelocType
    <3>1. b.sections[s] \in SectionType
      BY SectionsTyped
    <3>2. b.sections[s].relocs \in Seq(RelocType)
      BY <3>1 DEF SectionType
    <3> QED
      BY <3>2
  <2> HIDE DEF reloc
  <2>2. end \in Nat
    BY <2>1 DEF RelocType, Width
  <2>3. end <= room[s]
    BY DEF Frame, reloc
  <2> HIDE DEF end
  <2>4. end <= more[s]
    BY <2>2, <2>3 DEF Rooms
  <2> QED
    BY <2>4 DEF end, reloc
<1> QED
  BY <1>1 DEF Frame

\* object_symbol_index finds the record it makes.
LEMMA IndexedParts ==
  ASSUME NEW n \in Nat, NEW b \in BuilderType(n), NEW all, Table(all, n), NEW symbol \in 1..n
  PROVE  LET c == Indexed(b, symbol, all)
             i == Index(c, symbol, all)
         IN  /\ c.sections = b.sections
             /\ i \in 1..Len(c.records) /\ Owns(c.records[i], symbol, all[symbol].name)
             /\ \A j \in 1..Len(b.records) : j \in 1..Len(c.records) /\ c.records[j] = b.records[j]
             /\ \A j \in 1..Len(c.records) :
                  \/ j \in 1..Len(b.records)
                  \/ c.records[j] = Blank(symbol, all)
             /\ Keeps(b, c)
<1> DEFINE c == Indexed(b, symbol, all)
           name == all[symbol].name
           blank == Blank(symbol, all)
           T == RecordType(n)
<1>1. c \in BuilderType(n)
  BY IndexedType
<1>2. b.records \in Seq(T) /\ c.records \in Seq(T)
  BY <1>1, SectionsTyped
<1>3. blank.source = symbol
  BY DEF Blank
<1> HIDE DEF blank, name
<1>4. CASE Has(b, symbol, all)
  <2>1. c = b
    BY <1>4 DEF Indexed
  <2>2. \E j \in 1..Len(b.records) : Owns(b.records[j], symbol, name)
    BY <1>2, <1>4 DEF Has, Find, SelectInSeq, name
  <2>3. Index(b, symbol, all) \in 1..Len(b.records)
        /\ Owns(b.records[Index(b, symbol, all)], symbol, name)
    <3> HIDE DEF T
    <3> QED
      BY <1>2, <2>2, FindOwner DEF Index, name
  <2> QED
    BY <1>1, <2>1, <2>3 DEF name, Keeps
<1>5. CASE ~Has(b, symbol, all)
  <2>1. c.sections = b.sections /\ c.records = Append(b.records, blank)
    <3>1. c = [b EXCEPT !.records = Append(b.records, blank)]
      BY <1>5 DEF Indexed, blank
    <3> QED
      BY <3>1 DEF BuilderType
  <2> HIDE DEF c
  <2> DEFINE l == Len(b.records)
  <2>2. /\ l \in Nat /\ Len(c.records) = l + 1 /\ c.records[l + 1] = blank
        /\ \A j \in 1..l : c.records[j] = b.records[j] /\ j \in 1..(l + 1)
    BY <1>2, <2>1
  <2> HIDE DEF l
  <2>3. l + 1 \in 1..Len(c.records) /\ Owns(c.records[l + 1], symbol, name)
    BY <1>3, <2>2 DEF Owns
  <2>4. Index(c, symbol, all) \in 1..Len(c.records)
        /\ Owns(c.records[Index(c, symbol, all)], symbol, name)
    <3> HIDE DEF T
    <3> QED
      BY <1>2, <2>3, FindOwner DEF Index, name
  <2>5. \A j \in 1..Len(c.records) : j \in 1..l \/ c.records[j] = blank
    <3>1. \A j \in 1..(l + 1) : j \in 1..l \/ j = l + 1
      BY <2>2
    <3> QED
      BY <2>2, <3>1
  <2>6. Keeps(b, c)
    BY <2>1, <2>2 DEF Keeps, l
  <2> QED
    BY <1>1, <2>1, <2>2, <2>4, <2>5, <2>6 DEF c, blank, name, l
<1> QED
  BY <1>4, <1>5

\* All records of a builder are among some.
Holds(b, S) == \A i \in 1..Len(b.records) : b.records[i] \in S

LEMMA IndexedHolds ==
  ASSUME NEW n \in Nat, NEW b \in BuilderType(n), NEW all, Table(all, n), NEW symbol \in 1..n,
         NEW S, Holds(b, S), Blank(symbol, all) \in S
  PROVE  Holds(Indexed(b, symbol, all), S)
<1> DEFINE c == Indexed(b, symbol, all)
<1>1. \A j \in 1..Len(b.records) : c.records[j] = b.records[j]
  BY IndexedParts
<1>2. \A j \in 1..Len(c.records) : j \in 1..Len(b.records) \/ c.records[j] = Blank(symbol, all)
  BY IndexedParts
<1> HIDE DEF c
<1>3. \A j \in 1..Len(c.records) : c.records[j] \in S
  BY <1>1, <1>2 DEF Holds
<1> QED
  BY <1>3 DEF Holds, c

\* object_add_relocation makes a record at most, and needs room for its bytes.
LEMMA RelocatedParts ==
  ASSUME NEW n \in Nat, NEW b \in BuilderType(n), NEW all, Table(all, n), NEW symbol \in 1..n,
         NEW s \in 1..3, NEW offset \in Nat, NEW type \in {Pc32, Data64}
  PROVE  LET c == Relocated(b, s, offset, symbol, type, all)
         IN  /\ \A S : Holds(b, S) /\ Blank(symbol, all) \in S => Holds(c, S)
             /\ \A room : Frame(b, room) /\ offset + Width(type) <= room[s] => Frame(c, room)
<1> DEFINE i == Indexed(b, symbol, all)
           reloc == [offset |-> offset, source |-> symbol, name |-> all[symbol].name, type |-> type]
           c == Relocated(b, s, offset, symbol, type, all)
           k == Index(i, symbol, all)
           relocs == <<reloc>> \o i.sections[s].relocs
<1>1. i \in BuilderType(n)
  BY IndexedType
<1>2. /\ i.sections = b.sections /\ Keeps(b, i)
      /\ k \in 1..Len(i.records) /\ Owns(i.records[k], symbol, all[symbol].name)
  BY IndexedParts
<1>3. /\ reloc.offset = offset /\ reloc.source = symbol /\ reloc.name = all[symbol].name
      /\ reloc.type = type
  OBVIOUS
<1>4. c = [i EXCEPT !.sections[s].relocs = <<reloc>> \o @]
  BY DEF Relocated
<1> HIDE DEF i, reloc, c, k
<1>5. i.sections \in [1..3 -> SectionType] /\ i.sections[s] \in SectionType
      /\ i.sections[s].relocs \in Seq(RelocType)
  <2>1. i.sections \in [1..3 -> SectionType] /\ i.sections[s] \in SectionType
    BY <1>1, SectionsTyped
  <2> QED
    BY <2>1 DEF SectionType
<1>6. c = [i EXCEPT !.sections = [i.sections EXCEPT ![s] = [i.sections[s] EXCEPT !.relocs = relocs]]]
  BY <1>1, <1>4, <1>5 DEF BuilderType, SectionType
<1> DEFINE l == Len(i.sections[s].relocs)
<1>7. /\ l \in Nat /\ Len(relocs) = l + 1 /\ relocs[1] = reloc
      /\ \A r \in 1..l : relocs[r + 1] = i.sections[s].relocs[r]
  <2> DEFINE old == i.sections[s].relocs
  <2>1. old \in Seq(RelocType)
    BY <1>5
  <2> HIDE DEF old
  <2>2. /\ Len(old) \in Nat /\ Len(<<reloc>> \o old) = Len(old) + 1 /\ (<<reloc>> \o old)[1] = reloc
        /\ \A r \in 1..Len(old) : (<<reloc>> \o old)[r + 1] = old[r]
    BY <2>1
  <2> QED
    BY <2>2 DEF old
<1> HIDE DEF relocs, l
<1>8. /\ c.records = i.records /\ c.sections[s] = [i.sections[s] EXCEPT !.relocs = relocs]
      /\ \A t \in 1..3 : t # s => c.sections[t] = i.sections[t]
  BY <1>1, <1>5, <1>6 DEF BuilderType
<1>9. /\ c.sections[s].relocs = relocs /\ c.sections[s].name = i.sections[s].name
      /\ c.sections[s].kind = i.sections[s].kind /\ c.sections[s].align = i.sections[s].align
  BY <1>5, <1>8 DEF SectionType
<1>10. ASSUME NEW room, Frame(b, room), offset + Width(type) <= room[s] PROVE Frame(c, room)
  <2>1. Frame(i, room)
    BY <1>2, <1>10, FrameKept
  <2>2. Fixed(c)
    <3>1. \A t \in 1..3 :
            /\ c.sections[t].name = i.sections[t].name /\ c.sections[t].kind = i.sections[t].kind
            /\ c.sections[t].align = i.sections[t].align
      BY <1>8, <1>9
    <3>2. Fixed(i)
      BY <2>1 DEF Frame
    <3> QED
      BY <3>1, <3>2 DEF Fixed, TextSection, DataSection, BssSection
  <2>3. \A x : HasOwner(i, x) => HasOwner(c, x)
    BY <1>8 DEF HasOwner
  <2>4. HasOwner(c, reloc)
    BY <1>2, <1>3, <1>8 DEF HasOwner
  <2>5. ASSUME NEW t \in 1..3, NEW r \in 1..Len(c.sections[t].relocs)
        PROVE  /\ HasOwner(c, c.sections[t].relocs[r])
               /\ c.sections[t].relocs[r].offset + Width(c.sections[t].relocs[r].type) <= room[t]
    <3>1. CASE t # s
      <4>1. c.sections[t].relocs = i.sections[t].relocs
        BY <1>8, <3>1
      <4> QED
        BY <2>1, <2>3, <2>5, <4>1 DEF Frame
    <3>2. CASE t = s /\ r = 1
      <4>1. c.sections[t].relocs[r] = reloc
        BY <1>7, <1>9, <3>2
      <4> QED
        BY <1>3, <1>10, <2>4, <3>2, <4>1
    <3>3. CASE t = s /\ r # 1
      <4>1. r - 1 \in 1..l /\ (r - 1) + 1 = r
        BY <1>7, <1>9, <2>5, <3>3
      <4>2. c.sections[t].relocs[r] = i.sections[s].relocs[r - 1]
        BY <1>7, <1>9, <3>3, <4>1
      <4>3. /\ HasOwner(i, i.sections[s].relocs[r - 1])
            /\ i.sections[s].relocs[r - 1].offset + Width(i.sections[s].relocs[r - 1].type) <= room[s]
        BY <2>1, <4>1 DEF Frame, l
      <4> QED
        BY <2>3, <3>3, <4>2, <4>3
    <3> QED
      BY <3>1, <3>2, <3>3
  <2> QED
    BY <2>2, <2>5 DEF Frame
<1>11. ASSUME NEW S, Holds(b, S), Blank(symbol, all) \in S PROVE Holds(c, S)
  <2>1. Holds(i, S)
    BY <1>11, IndexedHolds DEF i
  <2> QED
    BY <1>8, <2>1 DEF Holds
<1> QED
  BY <1>10, <1>11 DEF c

\* What is said of a symbol: where it is, what it is, and how large.
Says(r, o, section, kind, value, size) ==
  /\ r.section = section /\ r.kind = kind /\ r.value = value /\ r.size = size
  /\ r.name = o.name /\ r.source = o.source

LEMMA PlacingType ==
  ASSUME NEW n, NEW o \in RecordType(n), NEW section \in 0..3, NEW kind \in Nat,
         NEW global \in BOOLEAN
  PROVE  [o EXCEPT !.section = section, !.kind = kind, !.global = global] \in RecordType(n)
BY DEF RecordType

LEMMA Placing ==
  ASSUME NEW n, NEW o \in RecordType(n), NEW section, NEW kind, NEW global
  PROVE  Says([o EXCEPT !.section = section, !.kind = kind, !.global = global], o, section, kind,
              o.value, o.size)
BY DEF RecordType, Says

LEMMA ValuingType ==
  ASSUME NEW n, NEW o \in RecordType(n), NEW value \in Nat, NEW size \in Nat
  PROVE  [o EXCEPT !.value = value, !.size = size] \in RecordType(n)
BY DEF RecordType

LEMMA Valuing ==
  ASSUME NEW n, NEW o \in RecordType(n), NEW value, NEW size
  PROVE  Says([o EXCEPT !.value = value, !.size = size], o, o.section, o.kind, value, size)
BY DEF RecordType, Says

\* A change of one record that leaves its name and its Symbol.
LEMMA RecordSet ==
  ASSUME NEW n \in Nat, NEW b \in BuilderType(n), NEW i \in 1..Len(b.records),
         NEW r \in RecordType(n), r.name = b.records[i].name, r.source = b.records[i].source
  PROVE  LET c == [b EXCEPT !.records = [b.records EXCEPT ![i] = r]]
         IN  /\ c.sections = b.sections /\ Len(c.records) = Len(b.records)
             /\ c.records[i] = r
             /\ \A j \in 1..Len(b.records) : j # i => c.records[j] = b.records[j]
             /\ Keeps(b, c)
             /\ \A S : r \in S /\ (\A j \in 1..Len(b.records) : j # i => b.records[j] \in S)
                  => Holds(c, S)
<1> DEFINE c == [b EXCEPT !.records = [b.records EXCEPT ![i] = r]]
           records == [b.records EXCEPT ![i] = r]
<1>1. b.records \in Seq(RecordType(n)) /\ Len(b.records) \in Nat
  BY SectionsTyped
<1>2. c.sections = b.sections /\ c.records = records
  BY DEF BuilderType
<1>3. /\ Len(records) = Len(b.records) /\ records[i] = r
      /\ \A j \in 1..Len(b.records) : j # i => records[j] = b.records[j]
  BY <1>1
<1> HIDE DEF c, records
<1>5. Keeps(b, c)
  BY <1>2, <1>3 DEF Keeps
<1>6. \A S : r \in S /\ (\A j \in 1..Len(b.records) : j # i => b.records[j] \in S) => Holds(c, S)
  BY <1>2, <1>3 DEF Holds
<1> QED
  BY <1>2, <1>3, <1>5, <1>6 DEF c

LEMMA RecordKept ==
  ASSUME NEW n \in Nat, NEW b \in BuilderType(n), NEW i \in 1..Len(b.records),
         NEW r \in RecordType(n), r.name = b.records[i].name, r.source = b.records[i].source
  PROVE  LET c == [b EXCEPT !.records = [b.records EXCEPT ![i] = r]]
         IN  /\ Keeps(b, c)
             /\ \A S : Holds(b, S) /\ r \in S => Holds(c, S)
<1> DEFINE c == [b EXCEPT !.records = [b.records EXCEPT ![i] = r]]
<1>1. /\ Keeps(b, c)
      /\ \A S : r \in S /\ (\A j \in 1..Len(b.records) : j # i => b.records[j] \in S)
           => Holds(c, S)
  BY RecordSet
<1> HIDE DEF c
<1>2. \A S : Holds(b, S) /\ r \in S => Holds(c, S)
  BY <1>1 DEF Holds
<1> QED
  BY <1>1, <1>2 DEF c

\* The first record of a name, if there is one.
LEMMA FirstNamedIs ==
  ASSUME NEW T, NEW records \in Seq(T), NEW name
  PROVE  LET i == FirstNamed(records, name)
         IN  i = 0 \/ (i \in 1..Len(records) /\ records[i].name = name)
<1> DEFINE I == {j \in 1..Len(records) : records[j].name = name}
<1>1. FirstNamed(records, name) = IF I # {} THEN Min(I) ELSE 0
  BY DEF FirstNamed, SelectInSeq
<1>2. I \subseteq Nat
  OBVIOUS
<1>3. I # {} => Min(I) \in I
  <2> HIDE DEF I
  <2> QED
    BY <1>2, Least
<1> QED
  BY <1>1, <1>3

\* A symbol that gets its value: it is the first of its name.
RowValued(old, row, name, value, size) ==
  \/ row = old
  \/ old.name = name /\ row = [old EXCEPT !.value = value, !.size = size]

RowsValued(b, c, name, value, size) ==
  /\ Len(c.records) = Len(b.records)
  /\ \A j \in 1..Len(b.records) : RowValued(b.records[j], c.records[j], name, value, size)

LEMMA ValuedParts ==
  ASSUME NEW n \in Nat, NEW b \in BuilderType(n), NEW name, NEW value \in Nat, NEW size \in Nat
  PROVE  LET c == Valued(b, name, value, size)
         IN  Keeps(b, c) /\ RowsValued(b, c, name, value, size)
<1> DEFINE c == Valued(b, name, value, size)
           i == FirstNamed(b.records, name)
           old == b.records[i]
           r == [b.records[i] EXCEPT !.value = value]
           d == [b EXCEPT !.records = [b.records EXCEPT ![i] = r]]
           q == [d.records[i] EXCEPT !.size = size]
           e == [d EXCEPT !.records = [d.records EXCEPT ![i] = q]]
<1>1. b.records \in Seq(RecordType(n)) /\ Len(b.records) \in Nat
  BY SectionsTyped
<1>2. i = 0 \/ (i \in 1..Len(b.records) /\ old.name = name)
  BY <1>1, FirstNamedIs
<1>3. c = e
  <2> HIDE DEF i
  <2> QED
    BY DEF Valued, BuilderType, i
<1> HIDE DEF i, c
<1>5. CASE i = 0
  <2>1. i \notin 1..Len(b.records)
    BY <1>5
  <2>2. [b.records EXCEPT ![i] = r] = b.records
    BY <1>1, <2>1
  <2>3. d = b
    BY <2>2 DEF BuilderType
  <2> HIDE DEF d
  <2>4. [d.records EXCEPT ![i] = q] = d.records
    BY <1>1, <2>1, <2>3
  <2>5. e = b
    BY <2>3, <2>4 DEF BuilderType
  <2> QED
    BY <1>3, <2>5 DEF Keeps, RowsValued, RowValued, c
<1>6. CASE i \in 1..Len(b.records)
  <2>1. old \in RecordType(n) /\ old.name = name
    BY <1>1, <1>2, <1>6
  <2> HIDE DEF old
  <2>2. r \in RecordType(n) /\ r.name = old.name /\ r.source = old.source
        /\ r = [old EXCEPT !.value = value]
    BY <2>1 DEF RecordType, old
  <2> HIDE DEF r
  <2>8. d \in BuilderType(n)
    BY <2>2, RecordChanged
  <2>3. /\ d.sections = b.sections /\ Len(d.records) = Len(b.records)
        /\ d.records[i] = r /\ \A j \in 1..Len(b.records) : j # i => d.records[j] = b.records[j]
        /\ Keeps(b, d)
    <3>1. r.name = b.records[i].name /\ r.source = b.records[i].source /\ r \in RecordType(n)
      BY <2>2 DEF old
    <3> QED
      BY <1>6, <3>1, RecordSet, SMTT(30)
  <2> HIDE DEF d
  <2>4. /\ q \in RecordType(n) /\ q.name = old.name /\ q.source = old.source
        /\ q = [old EXCEPT !.value = value, !.size = size]
    BY <2>1, <2>2, <2>3 DEF RecordType
  <2> HIDE DEF q
  <2>5. /\ e.sections = d.sections /\ Len(e.records) = Len(d.records)
        /\ e.records[i] = q /\ \A j \in 1..Len(d.records) : j # i => e.records[j] = d.records[j]
        /\ Keeps(d, e)
    <3>1. /\ q.name = d.records[i].name /\ q.source = d.records[i].source /\ q \in RecordType(n)
          /\ i \in 1..Len(d.records) /\ d \in BuilderType(n)
      BY <1>6, <2>2, <2>3, <2>4, <2>8
    <3> QED
      BY <3>1, RecordSet
  <2> HIDE DEF e
  <2>6. ASSUME NEW j \in 1..Len(b.records)
        PROVE  RowValued(b.records[j], e.records[j], name, value, size)
    BY <1>6, <2>1, <2>3, <2>4, <2>5 DEF old, RowValued
  <2>7. Keeps(b, e)
    BY <2>3, <2>5 DEF Keeps
  <2> QED
    BY <1>3, <2>3, <2>5, <2>6, <2>7 DEF c, RowsValued
<1> QED
  BY <1>2, <1>5, <1>6

\* Bytes that are added to a section.
LEMMA AppendedParts ==
  ASSUME NEW n \in Nat, NEW b \in BuilderType(n), NEW s \in 1..3, NEW size \in Nat
  PROVE  LET c == Appended(b, s, size)
         IN  Keeps(b, c) /\ \A S : Holds(b, S) => Holds(c, S)
<1> DEFINE c == Appended(b, s, size)
           section == [b.sections[s] EXCEPT !.size = b.sections[s].size + size]
<1>1. b.sections \in [1..3 -> SectionType] /\ b.sections[s] \in SectionType
  BY DEF BuilderType
<1>2. c = [b EXCEPT !.sections = [b.sections EXCEPT ![s] = section]]
  BY <1>1 DEF Appended, BuilderType, SectionType
<1>5. /\ section.name = b.sections[s].name /\ section.kind = b.sections[s].kind
      /\ section.align = b.sections[s].align /\ section.relocs = b.sections[s].relocs
  BY <1>1 DEF SectionType
<1> HIDE DEF c, section
<1>6. /\ c.records = b.records /\ c.sections[s] = section
      /\ \A t \in 1..3 : t # s => c.sections[t] = b.sections[t]
  BY <1>1, <1>2 DEF BuilderType
<1>7. Keeps(b, c)
  BY <1>5, <1>6 DEF Keeps
<1> QED
  BY <1>6, <1>7 DEF c, Holds
-----------------------------------------------------------------------------
(* Functions *)

\* A record before the end of the unit: of a Symbol there is, and with a place in .text
\* or a value only if it has the name of a function.
Early(all, functions, room) ==
  {r \in RecordType(Len(all)) :
     /\ r.source \in 1..Len(all) /\ r.name = all[r.source].name
     /\ r.kind \in {Function, Object} /\ r.section \in {0, TextSection}
     /\ r.value + r.size <= room
     /\ r.value # 0 \/ r.section # 0 => r.name \in functions}

LEMMA BlankEarly ==
  ASSUME NEW n \in Nat, NEW all, Table(all, n), NEW symbol \in 1..n, NEW functions,
         NEW room \in Nat
  PROVE  Blank(symbol, all) \in Early(all, functions, room)
<1> DEFINE blank == Blank(symbol, all)
<1>1. all[symbol] \in SymbolType /\ Len(all) = n
  BY DEF Table
<1>2. blank \in RecordType(n)
  BY <1>1 DEF Blank, SymbolType, RecordType, Function, Object
<1>3. /\ blank.source = symbol /\ blank.name = all[symbol].name /\ blank.section = 0
      /\ blank.value = 0 /\ blank.size = 0 /\ blank.kind \in {Function, Object}
  BY DEF Blank
<1> HIDE DEF blank
<1>4. blank.value + blank.size <= room
  BY <1>3
<1> QED
  BY <1>1, <1>2, <1>3, <1>4 DEF Early, blank

\* Records stay as they are when there are more Symbols, functions or code.
LEMMA EarlyMore ==
  ASSUME NEW all \in Seq(SymbolType), NEW more \in Seq(SymbolType), Len(all) <= Len(more),
         \A i \in 1..Len(all) : more[i].name = all[i].name,
         NEW functions, NEW others, functions \subseteq others,
         NEW room \in Nat, NEW large \in Nat, room <= large
  PROVE  Early(all, functions, room) \subseteq Early(more, others, large)
<1> SUFFICES ASSUME NEW r \in Early(all, functions, room) PROVE r \in Early(more, others, large)
  OBVIOUS
<1>1. /\ r \in RecordType(Len(all)) /\ r.source \in 1..Len(all) /\ r.name = all[r.source].name
      /\ r.kind \in {Function, Object} /\ r.section \in {0, TextSection}
      /\ r.value + r.size <= room
      /\ r.value # 0 \/ r.section # 0 => r.name \in functions
  BY DEF Early
<1>2. Len(all) \in Nat /\ Len(more) \in Nat
  OBVIOUS
<1>3. r \in RecordType(Len(more)) /\ r.value \in Nat /\ r.size \in Nat
  BY <1>1, <1>2 DEF RecordType
<1>4. r.source \in 1..Len(more) /\ r.name = more[r.source].name
  BY <1>1, <1>2
<1>5. r.value + r.size <= large
  BY <1>1, <1>3
<1> QED
  BY <1>1, <1>3, <1>4, <1>5 DEF Early

\* So do they when a function gets the code that is added.
LEMMA ValuedEarly ==
  ASSUME NEW n \in Nat, NEW all, Table(all, n), NEW functions, NEW name \in functions,
         NEW start \in Nat, NEW size \in Nat, NEW o \in Early(all, functions, start), NEW q,
         RowValued(o, q, name, start, size)
  PROVE  q \in Early(all, functions, start + size)
<1>1. all \in Seq(SymbolType) /\ Len(all) = n
  BY DEF Table
<1>2. /\ o \in RecordType(n) /\ o.source \in 1..n /\ o.name = all[o.source].name
      /\ o.kind \in {Function, Object} /\ o.section \in {0, TextSection}
      /\ o.value + o.size <= start
      /\ o.value # 0 \/ o.section # 0 => o.name \in functions
  BY <1>1 DEF Early
<1>3. CASE q = o
  <2>1. o.value \in Nat /\ o.size \in Nat
    BY <1>2 DEF RecordType
  <2>2. o.value + o.size <= start + size
    BY <1>2, <2>1
  <2>3. o \in Early(all, functions, start + size)
    BY <1>1, <1>2, <2>2 DEF Early
  <2> QED
    BY <1>3, <2>3, Zenon
<1>4. CASE o.name = name /\ q = [o EXCEPT !.value = start, !.size = size]
  <2>1. q \in RecordType(n)
    BY <1>2, <1>4, ValuingType
  <2>2. Says(q, o, o.section, o.kind, start, size)
    BY <1>2, <1>4, Valuing
  <2>3. o.name = name
    BY <1>4
  <2>4. /\ q.section = o.section /\ q.kind = o.kind /\ q.value = start /\ q.size = size
        /\ q.name = o.name /\ q.source = o.source
    BY <2>2 DEF Says
  <2>5. /\ q.source \in 1..Len(all) /\ q.name = all[q.source].name
        /\ q.kind \in {Function, Object} /\ q.section \in {0, TextSection}
    BY <1>1, <1>2, <2>4
  <2>6. q.name \in functions
    BY <2>3, <2>4, Zenon
  <2>7. q.value + q.size <= start + size
    BY <2>4
  <2> QED
    BY <1>1, <2>1, <2>5, <2>6, <2>7 DEF Early
<1> QED
  BY <1>3, <1>4 DEF RowValued

\* The builder between two declarations.
EarlyBuilder(b, all, functions) ==
  /\ Frame(b, Sizes(b))
  /\ Holds(b, Early(all, functions, b.sections[TextSection].size))

\* ir_encoder_add_function and encode_function leave it so.
LEMMA EncodedEarly ==
  ASSUME NEW n \in Nat, builder \in BuilderType(n), NEW all, Table(all, n),
         NEW function \in 1..n, NEW uses \in Seq(1..n), NEW functions,
         all[function].name \in functions, EarlyBuilder(builder, all, functions)
  PROVE  EarlyBuilder(Encoded(function, uses, all), all, functions)
<1> DEFINE start == builder.sections[TextSection].size
           size == CodeSize(uses)
           old == Sizes(builder)
           room == [t \in 1..3 |-> IF t = TextSection THEN start + size ELSE old[t]]
           S == Early(all, functions, start)
           T == Early(all, functions, start + size)
           indexed == Indexed(builder, function, all)
           k == Index(indexed, function, all)
           global == ~all[function].internal
           r == [indexed.records[k] EXCEPT !.section = TextSection, !.kind = Function,
                                           !.global = global]
           begun == Begun(builder, function, all)
           referred == Referred(begun, start, uses, all)
           filled == Appended(referred, TextSection, size)
           done == Valued(filled, all[function].name, start, size)
           V == {b \in BuilderType(n) : SameSizes(builder, b) /\ Frame(b, room) /\ Holds(b, S)}
<1>1. /\ TextSection \in 1..3 /\ TextSection # 0 /\ Len(uses) \in Nat /\ size \in Nat
      /\ size = 4 * Len(uses) + 1
  BY DEF TextSection, CodeSize, ReferenceSize
<1>2. start \in Nat /\ \A t \in 1..3 : builder.sections[t].size \in Nat
  BY <1>1, SectionsTyped
<1>3. all \in Seq(SymbolType) /\ Len(all) = n
  BY DEF Table
<1>4. old \in Rooms /\ room \in Rooms /\ \A t \in 1..3 : old[t] <= room[t]
  <2>1. old \in Rooms /\ \A t \in 1..3 : old[t] = builder.sections[t].size
    BY <1>2 DEF Rooms, Sizes
  <2> HIDE DEF old, size, start
  <2>2. ASSUME NEW t \in 1..3 PROVE room[t] \in Nat /\ old[t] <= room[t]
    <3>1. old[t] \in Nat /\ (t = TextSection => old[t] = start)
      BY <1>2, <2>1 DEF start
    <3>2. room[t] = IF t = TextSection THEN start + size ELSE old[t]
      OBVIOUS
    <3> HIDE DEF room
    <3> QED
      BY <1>1, <1>2, <3>1, <3>2
  <2>3. room = [t \in 1..3 |-> room[t]]
    OBVIOUS
  <2> HIDE DEF room
  <2> QED
    BY <2>1, <2>2, <2>3 DEF Rooms
<1>5. Frame(builder, room) /\ Holds(builder, S)
  <2>1. Frame(builder, old) /\ Holds(builder, S)
    BY DEF EarlyBuilder
  <2> HIDE DEF old, room
  <2> QED
    BY <1>4, <2>1, FrameRoom
<1>6. room[TextSection] = start + size
  BY <1>1
<1> HIDE DEF old, room, size, start, S, T
<1>7. Blank(function, all) \in S /\ \A symbol \in 1..n : Blank(symbol, all) \in S
  BY <1>2, BlankEarly DEF S
<1>28. indexed \in BuilderType(n)
  BY IndexedType
<1>8. /\ indexed.sections = builder.sections
      /\ k \in 1..Len(indexed.records)
      /\ Owns(indexed.records[k], function, all[function].name) /\ Keeps(builder, indexed)
  BY IndexedParts
<1>9. Holds(indexed, S) /\ Frame(indexed, room)
  <2> HIDE DEF indexed
  <2>1. Frame(indexed, room)
    BY <1>5, <1>8, FrameKept
  <2> QED
    BY <1>5, <1>7, <2>1, IndexedHolds DEF indexed
<1>10. begun = [indexed EXCEPT !.records = [indexed.records EXCEPT ![k] = r]]
  <2> HIDE DEF k
  <2> QED
    BY <1>28 DEF Begun, BuilderType, k
<1> HIDE DEF begun, indexed, k
<1>11. global \in BOOLEAN
  OBVIOUS
<1> HIDE DEF global
<1>12. /\ r \in RecordType(n) /\ r.name = indexed.records[k].name
       /\ r.source = indexed.records[k].source /\ r \in S
  <2> DEFINE o == indexed.records[k]
  <2>1. o \in S
    BY <1>8, <1>9 DEF Holds
  <2> HIDE DEF o
  <2>2. /\ o \in RecordType(n) /\ o.source \in 1..n /\ o.name = all[o.source].name
        /\ o.value + o.size <= start
    BY <1>3, <2>1 DEF Early, S
  <2>3. r = [o EXCEPT !.section = TextSection, !.kind = Function, !.global = global]
    BY DEF o
  <2>4. o.source = function
    BY <1>8, <2>2 DEF Owns, o
  <2> HIDE DEF r
  <2>5. /\ r \in RecordType(n) /\ r.section = TextSection /\ r.kind = Function
        /\ r.name = o.name /\ r.source = o.source /\ r.value = o.value /\ r.size = o.size
    <3>1. TextSection \in 0..3 /\ Function \in Nat
      BY DEF TextSection, Function
    <3>2. r \in RecordType(n)
      BY <1>11, <2>2, <2>3, <3>1, PlacingType
    <3>3. Says(r, o, TextSection, Function, o.value, o.size)
      BY <2>2, <2>3, Placing
    <3> QED
      BY <3>2, <3>3 DEF Says
  <2>6. r \in S
    BY <1>3, <2>2, <2>4, <2>5 DEF Early, S
  <2> QED
    BY <2>5, <2>6 DEF o
<1> HIDE DEF r
<1>29. begun \in BuilderType(n) /\ SameSizes(indexed, begun)
  BY <1>10, <1>12, <1>28, RecordChanged
<1>13. Keeps(indexed, begun) /\ Holds(begun, S)
  BY <1>8, <1>9, <1>10, <1>12, <1>28, RecordKept
<1>14. begun \in V
  <2>1. Frame(begun, room)
    BY <1>9, <1>13, FrameKept
  <2> QED
    BY <1>8, <1>13, <1>29, <2>1 DEF SameSizes
<1>15. ASSUME NEW v \in V, NEW i \in 1..Len(uses)
       PROVE  Relocated(v, TextSection, start + ReferenceSize * (i - 1), uses[i], Pc32, all) \in V
  <2> DEFINE offset == start + ReferenceSize * (i - 1)
             symbol == uses[i]
             c == Relocated(v, TextSection, offset, symbol, Pc32, all)
  <2>1. /\ offset \in Nat /\ symbol \in 1..n /\ Width(Pc32) = 4
        /\ offset + Width(Pc32) <= room[TextSection]
    <3>1. Width(Pc32) = 4
      BY DEF Width, Pc32, Abs64, Data64
    <3>2. offset = start + 4 * (i - 1) /\ symbol \in 1..n
      BY DEF ReferenceSize
    <3> HIDE DEF offset, symbol
    <3>3. i \in 1..Len(uses) /\ offset \in Nat /\ offset + 4 <= start + size
      BY <1>1, <1>2, <3>2
    <3> QED
      BY <1>6, <3>1, <3>2, <3>3
  <2>2. v \in BuilderType(n) /\ SameSizes(builder, v) /\ Frame(v, room) /\ Holds(v, S)
    OBVIOUS
  <2>6. Pc32 \in {Pc32, Data64}
    OBVIOUS
  <2> HIDE DEF offset, symbol
  <2>7. c \in BuilderType(n) /\ SameSizes(v, c)
    BY <1>1, <2>1, <2>2, RelocatedType
  <2>3. Holds(c, S) /\ Frame(c, room)
    BY <1>1, <1>7, <2>1, <2>2, <2>6, RelocatedParts
  <2> HIDE DEF c
  <2>5. c \in V
    BY <2>2, <2>3, <2>7 DEF SameSizes
  <2> QED
    BY <2>5 DEF c, offset, symbol
<1>16. referred \in V
  <2> HIDE DEF V
  <2> QED
    BY <1>1, <1>14, <1>15, ReferredIn
<1>17. referred \in BuilderType(n) /\ SameSizes(builder, referred) /\ Frame(referred, room)
       /\ Holds(referred, S)
  BY <1>16
<1> HIDE DEF referred, V
<1>30. /\ filled \in BuilderType(n)
       /\ \A t \in 1..3 : filled.sections[t].size =
            IF t = TextSection THEN referred.sections[t].size + size ELSE referred.sections[t].size
  BY <1>1, <1>17, AppendedType, AppendedSize
<1>18. Keeps(referred, filled) /\ Holds(filled, S)
  BY <1>1, <1>17, AppendedParts
<1> HIDE DEF filled
<1>31. done \in BuilderType(n) /\ SameSizes(filled, done)
  BY <1>1, <1>2, <1>30, ValuedType
<1>19. Keeps(filled, done) /\ RowsValued(filled, done, all[function].name, start, size)
  BY <1>1, <1>2, <1>30, ValuedParts
<1> HIDE DEF done
<1>20. \A t \in 1..3 : done.sections[t].size = room[t]
  BY <1>1, <1>17, <1>30, <1>31 DEF SameSizes, room, old, start, Sizes
<1>21. Sizes(done) = room
  BY <1>4, <1>20 DEF Sizes, Rooms
<1>22. Frame(done, Sizes(done))
  <2>1. Frame(filled, room)
    BY <1>17, <1>18, FrameKept
  <2> QED
    BY <1>19, <1>21, <2>1, FrameKept
<1>23. S \subseteq T
  <2>1. start + size \in Nat /\ start <= start + size /\ Len(all) <= Len(all)
    BY <1>1, <1>2, <1>3
  <2> QED
    BY <1>2, <1>3, <2>1, EarlyMore DEF S, T
<1>24. ASSUME NEW j \in 1..Len(done.records) PROVE done.records[j] \in T
  <2> DEFINE o == filled.records[j]
             q == done.records[j]
  <2>1. o \in S /\ RowValued(o, q, all[function].name, start, size)
    BY <1>18, <1>19, <1>24 DEF Holds, RowsValued
  <2> HIDE DEF o, q
  <2>4. q \in T
    BY <1>1, <1>2, <2>1, ValuedEarly DEF S, T
  <2> QED
    BY <2>4 DEF q
<1>25. Holds(done, T)
  BY <1>24 DEF Holds
<1>26. T = Early(all, functions, done.sections[TextSection].size)
  <2>1. done.sections[TextSection].size = start + size
    BY <1>1, <1>6, <1>20
  <2> QED
    BY <2>1 DEF T
<1>27. Encoded(function, uses, all) = done
  BY DEF Encoded, done, filled, referred, begun, size, start
<1> QED
  BY <1>22, <1>25, <1>26, <1>27 DEF EarlyBuilder
-----------------------------------------------------------------------------
(* The end of the unit *)

\* The objects with an initializer.
DataObjects == {g \in ToSet(globals) : symbols[g].initializer.set}
DataNames == {symbols[g].name : g \in DataObjects}

\* A record that lies within its section.
Final(room) ==
  {r \in RecordType(Len(symbols)) :
     /\ r.kind \in {Function, Object}
     /\ \A s \in 1..3 : r.section = s => r.value + r.size <= room[s]}

\* While objects are emitted, one in .data may still be without its value, and what
\* is elsewhere has another name than they.
Settled(room) ==
  {r \in RecordType(Len(symbols)) :
     /\ r.kind \in {Function, Object}
     /\ \A s \in {TextSection, BssSection} :
          r.section = s => r.value + r.size <= room[s] /\ r.name \notin DataNames
     /\ r.section = DataSection =>
          \/ r.value + r.size <= room[DataSection]
          \/ r.value = 0 /\ \E g \in DataObjects : r.size = symbols[g].size}

\* While they are prepared none of them has its value.
Ready(room) ==
  {r \in Settled(room) :
     /\ r.source \in 1..Len(symbols) /\ r.name = symbols[r.source].name
     /\ r.name \in DataNames => r.value = 0}

ReadyBuilder(b) == Frame(b, Sizes(b)) /\ Holds(b, Ready(Sizes(b)))
SettledBuilder(b) == Frame(b, Sizes(b)) /\ Holds(b, Settled(Sizes(b)))
FinalBuilder(b) == Frame(b, Sizes(b)) /\ Holds(b, Final(Sizes(b)))

\* No two objects with storage have the same name, and none that of a function.
GlobalsApart(functions) ==
  /\ \A g, h \in ToSet(globals) : symbols[g].name = symbols[h].name => g = h
  /\ \A g \in ToSet(globals) : symbols[g].name \notin functions

\* Sections have sizes.
LEMMA SizesAre ==
  ASSUME NEW n, NEW b \in BuilderType(n)
  PROVE  /\ Sizes(b) \in Rooms
         /\ \A s \in 1..3 : Sizes(b)[s] = b.sections[s].size /\ Sizes(b)[s] \in Nat
<1>1. \A s \in 1..3 : b.sections[s].size \in Nat
  BY SectionsTyped
<1> QED
  BY <1>1 DEF Sizes, Rooms

\* More room is enough, for each kind of records.
LEMMA MoreRoom ==
  ASSUME NEW room \in Rooms, NEW more \in Rooms, \A s \in 1..3 : room[s] <= more[s]
  PROVE  /\ Ready(room) \subseteq Ready(more)
         /\ Settled(room) \subseteq Settled(more)
         /\ Final(room) \subseteq Final(more)
<1>1. \A s \in 1..3 : room[s] \in Nat /\ more[s] \in Nat
  BY DEF Rooms
<1>2. /\ TextSection \in 1..3 /\ DataSection \in 1..3 /\ BssSection \in 1..3
  BY DEF TextSection, DataSection, BssSection
<1>3. ASSUME NEW r \in RecordType(Len(symbols)), NEW s \in 1..3, r.value + r.size <= room[s]
      PROVE  r.value + r.size <= more[s]
  <2>1. r.value \in Nat /\ r.size \in Nat
    BY DEF RecordType
  <2> QED
    BY <1>1, <1>3, <2>1
<1>4. Settled(room) \subseteq Settled(more)
  BY <1>2, <1>3 DEF Settled
<1>5. Final(room) \subseteq Final(more)
  BY <1>3 DEF Final
<1>6. Ready(room) \subseteq Ready(more)
  BY <1>4 DEF Ready
<1> QED
  BY <1>4, <1>5, <1>6

\* A builder that keeps what there was and has grown.
LEMMA FrameGrown ==
  ASSUME NEW n, NEW b \in BuilderType(n), NEW c \in BuilderType(n), Frame(b, Sizes(b)),
         Keeps(b, c), Grown(b, c)
  PROVE  Frame(c, Sizes(c))
<1>1. /\ Sizes(b) \in Rooms /\ Sizes(c) \in Rooms
      /\ \A s \in 1..3 : Sizes(b)[s] <= Sizes(c)[s]
  BY SizesAre DEF Grown
<1>2. Frame(b, Sizes(c))
  BY <1>1, FrameRoom
<1> QED
  BY <1>2, FrameKept

\* So are its records, if none has changed.
LEMMA RoomGrown ==
  ASSUME NEW n, NEW b \in BuilderType(n), NEW c \in BuilderType(n), Grown(b, c)
  PROVE  /\ Ready(Sizes(b)) \subseteq Ready(Sizes(c))
         /\ Settled(Sizes(b)) \subseteq Settled(Sizes(c))
         /\ Final(Sizes(b)) \subseteq Final(Sizes(c))
<1>1. /\ Sizes(b) \in Rooms /\ Sizes(c) \in Rooms
      /\ \A s \in 1..3 : Sizes(b)[s] <= Sizes(c)[s]
  BY SizesAre DEF Grown
<1> QED
  BY <1>1, MoreRoom

\* A section that is given another size is otherwise what it was.
LEMMA SizedParts ==
  ASSUME NEW n, NEW b \in BuilderType(n), NEW s \in 1..3, NEW k \in Nat
  PROVE  LET c == [b EXCEPT !.sections = [b.sections EXCEPT ![s] = [b.sections[s] EXCEPT !.size = k]]]
         IN  Keeps(b, c) /\ c.records = b.records
<1> DEFINE section == [b.sections[s] EXCEPT !.size = k]
           c == [b EXCEPT !.sections = [b.sections EXCEPT ![s] = section]]
<1>1. b.sections \in [1..3 -> SectionType] /\ b.sections[s] \in SectionType
  BY DEF BuilderType
<1>2. /\ section.name = b.sections[s].name /\ section.kind = b.sections[s].kind
      /\ section.align = b.sections[s].align /\ section.relocs = b.sections[s].relocs
  BY <1>1 DEF SectionType
<1> HIDE DEF section
<1>3. /\ c.records = b.records /\ c.sections[s] = section
      /\ \A t \in 1..3 : t # s => c.sections[t] = b.sections[t]
  BY <1>1 DEF BuilderType
<1> HIDE DEF c
<1>4. Keeps(b, c)
  BY <1>2, <1>3 DEF Keeps
<1> QED
  BY <1>3, <1>4 DEF c, section

LEMMA MarkingType ==
  ASSUME NEW n, NEW o \in RecordType(n), NEW section \in 0..3, NEW kind \in Nat,
         NEW global \in BOOLEAN, NEW size \in Nat
  PROVE  [o EXCEPT !.section = section, !.kind = kind, !.global = global, !.size = size]
           \in RecordType(n)
BY DEF RecordType

LEMMA Marking ==
  ASSUME NEW n, NEW o \in RecordType(n), NEW section, NEW kind, NEW global, NEW size
  PROVE  Says([o EXCEPT !.section = section, !.kind = kind, !.global = global, !.size = size],
              o, section, kind, o.value, size)
BY DEF RecordType, Says

LEMMA PuttingType ==
  ASSUME NEW n, NEW o \in RecordType(n), NEW value \in Nat
  PROVE  [o EXCEPT !.value = value] \in RecordType(n)
BY DEF RecordType

LEMMA Putting ==
  ASSUME NEW n, NEW o \in RecordType(n), NEW value
  PROVE  Says([o EXCEPT !.value = value], o, o.section, o.kind, value, o.size)
BY DEF RecordType, Says

\* A record of a Symbol alone.
LEMMA BlankReady ==
  ASSUME NEW n \in Nat, Table(symbols, n), NEW symbol \in 1..n, NEW room
  PROVE  /\ Blank(symbol, symbols) \in Ready(room)
         /\ Blank(symbol, symbols) \in Settled(room)
         /\ Blank(symbol, symbols) \in Final(room)
<1> DEFINE blank == Blank(symbol, symbols)
<1>1. symbols[symbol] \in SymbolType /\ Len(symbols) = n
  BY DEF Table
<1>2. blank \in RecordType(n)
  BY <1>1 DEF Blank, SymbolType, RecordType, Function, Object
<1>3. /\ blank.source = symbol /\ blank.name = symbols[symbol].name /\ blank.section = 0
      /\ blank.value = 0 /\ blank.kind \in {Function, Object}
  BY DEF Blank
<1> HIDE DEF blank
<1>4. blank \in Settled(room)
  BY <1>1, <1>2, <1>3 DEF Settled, TextSection, DataSection, BssSection
<1>5. blank \in Final(room)
  BY <1>1, <1>2, <1>3 DEF Final
<1>6. blank \in Ready(room)
  BY <1>1, <1>3, <1>4 DEF Ready
<1> QED
  BY <1>4, <1>5, <1>6 DEF blank

\* The records between two declarations are ready.
LEMMA EarlyReady ==
  ASSUME NEW n \in Nat, Table(symbols, n), NEW functions, GlobalsApart(functions),
         NEW b \in BuilderType(n), EarlyBuilder(b, symbols, functions)
  PROVE  ReadyBuilder(b)
<1> DEFINE size == b.sections[TextSection].size
<1>1. Len(symbols) = n
  BY DEF Table
<1>2. size = Sizes(b)[TextSection]
  BY SizesAre DEF TextSection
<1>3. DataNames \cap functions = {}
  BY DEF DataNames, DataObjects, GlobalsApart
<1>4. ASSUME NEW r \in Early(symbols, functions, size) PROVE r \in Ready(Sizes(b))
  <2>1. /\ r \in RecordType(n) /\ r.source \in 1..n /\ r.name = symbols[r.source].name
        /\ r.kind \in {Function, Object} /\ r.section \in {0, TextSection}
        /\ r.value + r.size <= size
        /\ r.value # 0 \/ r.section # 0 => r.name \in functions
    BY <1>1 DEF Early
  <2> HIDE DEF size
  <2>2. TextSection # BssSection /\ TextSection # DataSection /\ TextSection # 0
        /\ BssSection # 0 /\ DataSection # 0
    BY DEF TextSection, DataSection, BssSection
  <2>3. r.section = TextSection => r.value + r.size <= Sizes(b)[TextSection] /\ r.name \notin DataNames
    BY <1>2, <1>3, <2>1, <2>2
  <2>4. r.section # BssSection /\ r.section # DataSection
    BY <2>1, <2>2
  <2>5. r \in Settled(Sizes(b))
    BY <1>1, <2>1, <2>3, <2>4 DEF Settled
  <2>6. r.name \in DataNames => r.value = 0
    BY <1>3, <2>1
  <2> QED
    BY <1>1, <2>1, <2>5, <2>6 DEF Ready
<1> QED
  BY <1>4 DEF EarlyBuilder, ReadyBuilder, Holds

\* prepare_global_symbol gives an object its section, and one without an initializer
\* its place.
LEMMA PrepareReady ==
  ASSUME NEW n \in Nat, Table(symbols, n), NEW work \in Works(n), NEW symbol \in ToSet(globals),
         symbol \in 1..n, NEW functions, GlobalsApart(functions), ReadyBuilder(work.builder)
  PROVE  ReadyBuilder(Prepare(work, symbol).builder)
<1> DEFINE s == symbols[symbol]
           old == work.builder
           b == Indexed(old, symbol, symbols)
           i == Index(b, symbol, symbols)
           section == IF s.initializer.set THEN DataSection ELSE BssSection
           global == ~s.internal
           o == b.records[i]
           r == [o EXCEPT !.section = section, !.kind = Object, !.global = global, !.size = s.size]
           marked == [b EXCEPT !.records = [b.records EXCEPT ![i] = r]]
           offset == AlignTo(b.sections[BssSection].size, s.align)
           q == [marked.records[i] EXCEPT !.value = offset]
           valued == [marked EXCEPT !.records = [marked.records EXCEPT ![i] = q]]
           done == [valued EXCEPT !.sections = [valued.sections EXCEPT ![BssSection] =
                     [valued.sections[BssSection] EXCEPT !.size = offset + s.size]]]
           S == Ready(Sizes(old))
<1>1. s \in SymbolType
  BY DEF Table
<1>2. /\ s.internal \in BOOLEAN /\ s.align \in Positive /\ s.size \in Nat /\ s.size # 0
  BY <1>1 DEF SymbolType, Positive
<1>3. work = [builder |-> old, placed |-> work.placed] /\ old \in BuilderType(n)
  BY WorksDef
<1>4. Frame(old, Sizes(old)) /\ Holds(old, S)
  BY DEF ReadyBuilder
<1>5. Blank(symbol, symbols) \in S
  BY BlankReady
<1>6. Len(symbols) = n
  BY DEF Table
<1>7. symbol \in DataObjects <=> s.initializer.set
  BY DEF DataObjects
<1>8. ~s.initializer.set => s.name \notin DataNames
  BY <1>7 DEF DataNames, DataObjects, GlobalsApart
<1>9. s.initializer.set => s.name \in DataNames
  BY <1>7 DEF DataNames
<1>10. TextSection = 1 /\ DataSection = 2 /\ BssSection = 3
  BY DEF TextSection, DataSection, BssSection
<1> HIDE DEF old
<1>11. b \in BuilderType(n) /\ SameSizes(old, b)
  BY <1>3, IndexedType
<1>12. /\ i \in 1..Len(b.records) /\ Owns(o, symbol, s.name) /\ Keeps(old, b)
  BY <1>3, IndexedParts
<1>13. Holds(b, S)
  <2> HIDE DEF S
  <2> QED
    BY <1>3, <1>4, <1>5, IndexedHolds
<1>14. section \in 0..3 /\ global \in BOOLEAN /\ Object \in Nat
  BY <1>10 DEF Object
<1>15. section = IF s.initializer.set THEN DataSection ELSE BssSection
  OBVIOUS
<1>16. Prepare(work, symbol).builder =
         IF Announced(symbol) THEN b ELSE IF s.initializer.set THEN marked ELSE done
  <2>1. marked = [b EXCEPT !.records[i] =
                    [@ EXCEPT !.section = section, !.kind = Object, !.global = global,
                              !.size = s.size]]
    <3> HIDE DEF b, i, section, global, s
    <3> QED
      BY <1>11 DEF BuilderType
  <2>2. marked \in BuilderType(n)
    <3> HIDE DEF b, i, section, global, s, o
    <3>1. i \in 1..Len(b.records) => r \in RecordType(n)
      <4>1. i \in 1..Len(b.records) => o \in RecordType(n)
        BY <1>11 DEF BuilderType, o
      <4> QED
        BY <1>2, <1>14, <4>1, MarkingType
    <3> HIDE DEF r
    <3> QED
      BY <1>11, <3>1, RecordChanged
  <2> HIDE DEF marked
  <2>3. done = [marked EXCEPT !.records[i].value = offset,
                              !.sections[BssSection].size = offset + s.size]
    <3> HIDE DEF i, offset, s
    <3> QED
      BY <2>2 DEF BuilderType
  <2> HIDE DEF done
  <2>4. Prepare(work, symbol) =
          IF Announced(symbol) THEN [work EXCEPT !.builder = b]
          ELSE IF s.initializer.set THEN [work EXCEPT !.builder = marked]
          ELSE [builder |-> done,
                placed |-> Put(work.placed, s.name, At(BssSection, offset, s.size))]
    BY <2>1, <2>3, Zenon DEF Prepare, s, b, i, section, global, offset, old
  <2> HIDE DEF b, s, offset
  <2> QED
    BY <1>3, <2>4
<1> HIDE DEF b, i, s, section, global, S
<1>17. ReadyBuilder(b)
  <2>1. Grown(old, b)
    BY <1>3, <1>11, GrownSame
  <2> QED
    BY <1>3, <1>4, <1>11, <1>12, <1>13, <2>1, FrameGrown, RoomGrown DEF ReadyBuilder, Holds, S
<1>18. /\ o \in RecordType(n) /\ o.source = symbol /\ o.name = s.name
       /\ (s.initializer.set => o.value = 0) /\ o \in S
  <2>1. o \in S
    BY <1>12, <1>13 DEF Holds
  <2>2. o \in RecordType(n) /\ o.source \in 1..n /\ o.name = symbols[o.source].name
        /\ (o.name \in DataNames => o.value = 0)
    BY <1>6, <2>1 DEF S, Ready, Settled
  <2>3. o.source = symbol
    BY <1>12, <2>2 DEF Owns
  <2> QED
    BY <1>9, <2>1, <2>2, <2>3 DEF s
<1> HIDE DEF o
<1>19. r \in RecordType(n)
  BY <1>2, <1>14, <1>18, MarkingType
<1>20. Says(r, o, section, Object, o.value, s.size)
  BY <1>18, Marking
<1> HIDE DEF r
<1>21. /\ r.section = section /\ r.kind = Object /\ r.value = o.value /\ r.size = s.size
       /\ r.name = o.name /\ r.source = o.source
  BY <1>20 DEF Says
<1>22. marked \in BuilderType(n) /\ SameSizes(b, marked)
  BY <1>11, <1>19, RecordChanged
<1>23. /\ marked.sections = b.sections /\ Len(marked.records) = Len(b.records)
       /\ marked.records[i] = r
       /\ \A j \in 1..Len(b.records) : j # i => marked.records[j] = b.records[j]
       /\ Keeps(b, marked)
  BY <1>11, <1>12, <1>19, <1>21, RecordSet DEF o
<1> HIDE DEF marked
<1>24. Grown(b, marked) /\ Frame(marked, Sizes(marked))
  <2>1. Grown(b, marked)
    BY <1>11, <1>22, GrownSame
  <2> QED
    BY <1>11, <1>17, <1>22, <1>23, <2>1, FrameGrown DEF ReadyBuilder
<1>25. \A j \in 1..Len(marked.records) : j # i => marked.records[j] \in Ready(Sizes(marked))
  BY <1>11, <1>17, <1>22, <1>23, <1>24, RoomGrown DEF ReadyBuilder, Holds
<1>26. ASSUME s.initializer.set PROVE ReadyBuilder(marked)
  <2>1. r.section = DataSection /\ r.value = 0
    BY <1>15, <1>18, <1>21, <1>26
  <2>2. r.size = symbols[symbol].size /\ symbol \in DataObjects
    BY <1>7, <1>21, <1>26 DEF s
  <2>3. r \in Settled(Sizes(marked))
    BY <1>6, <1>10, <1>19, <1>21, <2>1, <2>2 DEF Settled
  <2>4. r \in Ready(Sizes(marked))
    BY <1>6, <1>18, <1>21, <2>1, <2>3 DEF Ready, s
  <2> QED
    BY <1>23, <1>24, <1>25, <2>4 DEF ReadyBuilder, Holds
<1>27. ASSUME ~s.initializer.set PROVE ReadyBuilder(done)
  <2> DEFINE bss == b.sections[BssSection].size
             m == Len(marked.records)
  <2>1. offset \in Nat /\ bss \in Nat /\ bss <= offset
    <3>1. bss \in Nat
      BY <1>10, <1>11, SectionsTyped
    <3> HIDE DEF bss
    <3>2. offset = AlignTo(bss, s.align)
      BY DEF bss
    <3> QED
      BY <1>2, <3>1, <3>2, AlignToBounds
  <2> HIDE DEF offset
  <2>2. q = [r EXCEPT !.value = offset]
    BY <1>23
  <2>3. q \in RecordType(n)
    BY <1>19, <2>1, <2>2, PuttingType
  <2>4. Says(q, r, r.section, r.kind, offset, r.size)
    BY <1>19, <2>2, Putting
  <2> HIDE DEF q
  <2>5. /\ q.section = BssSection /\ q.kind = Object /\ q.value = offset /\ q.size = s.size
        /\ q.name = s.name /\ q.source = symbol /\ q.name = marked.records[i].name
        /\ q.source = marked.records[i].source
    BY <1>15, <1>18, <1>21, <1>23, <1>27, <2>4 DEF Says
  <2>6. valued \in BuilderType(n) /\ SameSizes(marked, valued)
    BY <1>22, <2>3, RecordChanged
  <2>7. /\ valued.sections = marked.sections /\ Len(valued.records) = m
        /\ valued.records[i] = q
        /\ \A j \in 1..m : j # i => valued.records[j] = marked.records[j]
        /\ Keeps(marked, valued)
    <3>1. i \in 1..Len(marked.records)
      BY <1>12, <1>23
    <3> QED
      BY <1>22, <2>3, <2>5, <3>1, RecordSet, SMTT(30)
  <2> HIDE DEF valued
  <2>8. offset + s.size \in Nat /\ BssSection \in 1..3
    BY <1>2, <1>10, <2>1
  <2>9. /\ done \in BuilderType(n)
        /\ \A t \in 1..3 : done.sections[t].size =
             IF t = BssSection THEN offset + s.size ELSE valued.sections[t].size
    BY <2>6, <2>8, SectionSet
  <2>10. Keeps(valued, done) /\ done.records = valued.records
    BY <2>6, <2>8, SizedParts
  <2> HIDE DEF done
  <2>11. Grown(marked, done)
    <3>1. \A t \in 1..3 : marked.sections[t].size \in Nat
      BY <1>22, SectionsTyped
    <3>2. marked.sections[BssSection].size = bss
      BY <1>23
    <3>3. ASSUME NEW t \in 1..3 PROVE marked.sections[t].size <= done.sections[t].size
      <4>1. CASE t = BssSection
        <5>1. done.sections[t].size = offset + s.size /\ marked.sections[t].size = bss
          BY <2>9, <3>2, <4>1
        <5> HIDE DEF bss
        <5> QED
          BY <1>2, <2>1, <5>1
      <4>2. CASE t # BssSection
        <5>1. done.sections[t].size = marked.sections[t].size
          BY <2>7, <2>9, <4>2
        <5> QED
          BY <3>1, <5>1
      <4> QED
        BY <4>1, <4>2
    <3> QED
      BY <3>3 DEF Grown
  <2>12. Keeps(marked, done)
    BY <2>7, <2>10 DEF Keeps
  <2>13. Frame(done, Sizes(done))
    BY <1>22, <1>24, <2>9, <2>11, <2>12, FrameGrown
  <2>14. \A j \in 1..m : j # i => done.records[j] \in Ready(Sizes(done))
    BY <1>22, <1>25, <2>7, <2>9, <2>10, <2>11, RoomGrown
  <2>15. q \in Ready(Sizes(done))
    <3>1. Sizes(done)[BssSection] = offset + s.size
      BY <2>8, <2>9, SizesAre
    <3>2. q.value + q.size <= Sizes(done)[BssSection]
      BY <2>1, <2>5, <2>8, <3>1
    <3>3. q.name \notin DataNames
      BY <1>8, <1>27, <2>5
    <3>4. q \in Settled(Sizes(done))
      BY <1>6, <1>10, <2>3, <2>5, <3>2, <3>3 DEF Settled
    <3> QED
      BY <1>6, <2>5, <3>3, <3>4 DEF Ready, s
  <2> QED
    BY <1>12, <1>23, <2>7, <2>10, <2>13, <2>14, <2>15 DEF ReadyBuilder, Holds
<1> QED
  BY <1>16, <1>17, <1>26, <1>27

\* What is initialized with an address has the size of one.
PointersWide(all) ==
  \A i \in 1..Len(all) : all[i].initializer.target # 0 => PointerSize <= all[i].size

\* The record of a name of .data gets its value.
LEMMA ValuedSettled ==
  ASSUME NEW n \in Nat, Len(symbols) = n, NEW room \in Rooms, NEW name \in DataNames,
         NEW value \in Nat, NEW size \in Nat, value + size <= room[DataSection],
         NEW o \in Settled(room), NEW q, RowValued(o, q, name, value, size)
  PROVE  q \in Settled(room)
<1>1. CASE q = o
  BY <1>1, Zenon
<1>2. CASE o.name = name /\ q = [o EXCEPT !.value = value, !.size = size]
  <2>1. /\ o \in RecordType(n) /\ o.kind \in {Function, Object}
        /\ \A s \in {TextSection, BssSection} : o.section = s => o.name \notin DataNames
    BY DEF Settled
  <2>2. q \in RecordType(n)
    BY <1>2, <2>1, ValuingType
  <2>3. Says(q, o, o.section, o.kind, value, size)
    BY <1>2, <2>1, Valuing
  <2>4. /\ q.section = o.section /\ q.kind = o.kind /\ q.value = value /\ q.size = size
    BY <2>3 DEF Says
  <2>5. o.name = name
    BY <1>2
  <2>6. q.section # TextSection /\ q.section # BssSection
    BY <2>1, <2>4, <2>5
  <2>7. q.value + q.size <= room[DataSection]
    BY <2>4
  <2> QED
    BY <2>1, <2>2, <2>4, <2>6, <2>7 DEF Settled
<1> QED
  BY <1>1, <1>2 DEF RowValued

\* append_global_data gives it to an object's, and relocates only what there is room for.
LEMMA EmitSettled ==
  ASSUME NEW n \in Nat, Table(symbols, n), NEW work \in Works(n), NEW symbol \in ToSet(globals),
         symbol \in 1..n, PointersWide(symbols), SettledBuilder(work.builder)
  PROVE  LET c == Emit(work, symbol).builder
         IN  /\ SettledBuilder(c) /\ Grown(work.builder, c)
             /\ symbol \in DataObjects => symbols[symbol].size <= c.sections[DataSection].size
<1> DEFINE s == symbols[symbol]
           b == work.builder
           old == b.sections[DataSection].size
           offset == AlignTo(old, DataAlign(symbol))
           gap == offset - old
           size == s.size
           target == s.initializer.target
           padded == Appended(b, DataSection, gap)
           referred == IF target = 0 THEN padded
                       ELSE Relocated(padded, DataSection, offset, target, Data64, symbols)
           filled == Appended(referred, DataSection, size)
           done == Valued(filled, s.name, offset, size)
           R == Sizes(done)
           S == Settled(R)
<1>1. /\ size \in Nat /\ target \in 0..n /\ DataAlign(symbol) \in Positive
      /\ (target # 0 => PointerSize <= size)
  <2>1. s \in SymbolType /\ target \in 0..n /\ symbol \in 1..Len(symbols)
    BY DEF Table
  <2>2. s.size \in Positive /\ s.align \in Positive
    BY <2>1 DEF SymbolType
  <2>3. target # 0 => PointerSize <= size
    BY <2>1 DEF PointersWide
  <2> HIDE DEF target
  <2> QED
    BY <2>1, <2>2, <2>3 DEF DataAlign, Positive
<1>2. b \in BuilderType(n) /\ work = [builder |-> b, placed |-> work.placed]
  BY WorksDef
<1>3. DataSection \in 1..3 /\ Len(symbols) = n
  BY DEF DataSection, Table
<1>4. \A t \in 1..3 : b.sections[t].size \in Nat
  BY <1>2, SectionsTyped
<1>5. old \in Nat /\ offset \in Nat /\ old <= offset /\ gap \in Nat /\ old + gap = offset
  <2>1. old \in Nat
    BY <1>3, <1>4
  <2> HIDE DEF old
  <2>2. offset \in Nat /\ old <= offset
    BY <1>1, <2>1, AlignToBounds
  <2> HIDE DEF offset
  <2> QED
    BY <2>1, <2>2
<1>6. Frame(b, Sizes(b)) /\ Holds(b, Settled(Sizes(b)))
  BY DEF SettledBuilder
<1>7. symbol \in DataObjects <=> s.initializer.set
  BY DEF DataObjects
<1>8. s.initializer.set => s.name \in DataNames
  BY <1>7 DEF DataNames
<1>9. b.sections[DataSection].size = old
  OBVIOUS
<1>10. Emit(work, symbol) =
         IF ~s.initializer.set THEN work
         ELSE [builder |-> done, placed |-> Put(work.placed, s.name, At(DataSection, offset, size))]
  BY DEF Emit
<1> HIDE DEF b, gap, size, offset, old, target, s
<1>11. /\ padded \in BuilderType(n)
       /\ \A t \in 1..3 : padded.sections[t].size =
            IF t = DataSection THEN b.sections[t].size + gap ELSE b.sections[t].size
  <2>1. n \in Nat /\ b \in BuilderType(n) /\ DataSection \in 1..3 /\ gap \in Nat
    BY <1>2, <1>3, <1>5
  <2>2. Appended(b, DataSection, gap) \in BuilderType(n)
    BY <2>1, AppendedType
  <2>3. \A t \in 1..3 : Appended(b, DataSection, gap).sections[t].size =
          IF t = DataSection THEN b.sections[t].size + gap ELSE b.sections[t].size
    BY <2>1, AppendedSize
  <2> QED
    BY <2>2, <2>3
<1>12. Keeps(b, padded) /\ \A T : Holds(b, T) => Holds(padded, T)
  BY <1>2, <1>3, <1>5, AppendedParts
<1> HIDE DEF padded
<1>13. referred \in BuilderType(n) /\ SameSizes(padded, referred)
  <2>1. CASE target = 0
    BY <1>11, <2>1 DEF SameSizes
  <2>2. CASE target # 0
    <3>1. target \in 1..n /\ Data64 \in {Pc32, Data64}
      BY <1>1, <2>2
    <3> QED
      BY <1>3, <1>5, <1>11, <2>2, <3>1, RelocatedType
  <2> QED
    BY <2>1, <2>2
<1>14. /\ \A T : Holds(padded, T) /\ (\A x \in 1..n : Blank(x, symbols) \in T) => Holds(referred, T)
       /\ \A room : Frame(padded, room) /\ (target # 0 => offset + 8 <= room[DataSection])
                      => Frame(referred, room)
  <2>1. CASE target = 0
    BY <2>1
  <2>2. CASE target # 0
    <3> DEFINE c == Relocated(padded, DataSection, offset, target, Data64, symbols)
    <3>1. target \in 1..n /\ Data64 \in {Pc32, Data64} /\ Width(Data64) = 8
      BY <1>1, <2>2 DEF Width, Data64
    <3>2. /\ \A T : Holds(padded, T) /\ Blank(target, symbols) \in T => Holds(c, T)
          /\ \A room : Frame(padded, room) /\ offset + Width(Data64) <= room[DataSection]
               => Frame(c, room)
      BY <1>3, <1>5, <1>11, <3>1, RelocatedParts
    <3>3. referred = c
      BY <2>2
    <3> HIDE DEF c, referred
    <3> QED
      BY <2>2, <3>1, <3>2, <3>3
  <2> QED
    BY <2>1, <2>2
<1> HIDE DEF referred
<1>15. /\ filled \in BuilderType(n)
       /\ \A t \in 1..3 : filled.sections[t].size =
            IF t = DataSection THEN referred.sections[t].size + size ELSE referred.sections[t].size
  BY <1>1, <1>3, <1>13, AppendedType, AppendedSize
<1>16. Keeps(referred, filled) /\ \A T : Holds(referred, T) => Holds(filled, T)
  BY <1>1, <1>3, <1>13, AppendedParts
<1> HIDE DEF filled
<1>17. done \in BuilderType(n) /\ SameSizes(filled, done)
  BY <1>1, <1>5, <1>15, ValuedType
<1>18. Keeps(filled, done) /\ RowsValued(filled, done, s.name, offset, size)
  BY <1>1, <1>5, <1>15, ValuedParts
<1> HIDE DEF done
<1>19. done.sections[DataSection].size = offset + size
  <2>1. done.sections[DataSection].size = (old + gap) + size
    BY <1>3, <1>9, <1>11, <1>13, <1>15, <1>17 DEF SameSizes
  <2> QED
    BY <1>5, <2>1
<1>20. Grown(b, done)
  <2>1. ASSUME NEW t \in 1..3 PROVE b.sections[t].size <= done.sections[t].size
    <3>1. CASE t = DataSection
      BY <1>1, <1>5, <1>9, <1>19, <3>1
    <3>2. CASE t # DataSection
      <4>1. done.sections[t].size = b.sections[t].size
        BY <1>11, <1>13, <1>15, <1>17, <3>2 DEF SameSizes
      <4> QED
        BY <1>4, <4>1
    <3> QED
      BY <3>1, <3>2
  <2> QED
    BY <2>1 DEF Grown
<1>21. Sizes(done) \in Rooms /\ Sizes(done)[DataSection] = offset + size
  BY <1>3, <1>17, <1>19, SizesAre
<1>22. Frame(b, R) /\ Holds(b, S)
  <2>1. Sizes(b) \in Rooms /\ \A t \in 1..3 : Sizes(b)[t] <= R[t]
    BY <1>2, <1>17, <1>20, SizesAre DEF Grown
  <2>2. Frame(b, R)
    BY <1>2, <1>6, <1>21, <2>1, FrameRoom
  <2>3. Settled(Sizes(b)) \subseteq S
    BY <1>2, <1>17, <1>20, RoomGrown
  <2> QED
    BY <1>6, <2>2, <2>3 DEF Holds
<1>23. \A x \in 1..n : Blank(x, symbols) \in S
  BY BlankReady
<1> HIDE DEF S
<1>24. Frame(padded, R) /\ Holds(padded, S)
  BY <1>12, <1>22, FrameKept
<1>25. target # 0 => offset + 8 <= R[DataSection]
  BY <1>1, <1>5, <1>21 DEF PointerSize
<1> HIDE DEF R
<1>26. Frame(referred, R) /\ Holds(referred, S)
  BY <1>14, <1>23, <1>24, <1>25
<1>27. Frame(filled, R) /\ Holds(filled, S)
  BY <1>16, <1>26, FrameKept
<1>28. Frame(done, R)
  BY <1>18, <1>27, FrameKept
<1>29. ASSUME s.initializer.set PROVE Holds(done, S)
  <2>1. ASSUME NEW j \in 1..Len(done.records) PROVE done.records[j] \in S
    <3>1. /\ filled.records[j] \in S
          /\ RowValued(filled.records[j], done.records[j], s.name, offset, size)
      BY <1>18, <1>27, <2>1 DEF Holds, RowsValued
    <3>2. offset + size <= R[DataSection]
      BY <1>1, <1>5, <1>21 DEF R
    <3>3. R \in Rooms
      BY <1>21 DEF R
    <3> QED
      BY <1>1, <1>3, <1>5, <1>8, <1>29, <3>1, <3>2, <3>3, ValuedSettled DEF S
  <2> QED
    BY <2>1 DEF Holds
<1>30. CASE ~s.initializer.set
  <2>1. Emit(work, symbol) = work
    BY <1>10, <1>30
  <2>2. Grown(b, b)
    BY <1>4 DEF Grown
  <2> QED
    BY <1>7, <1>30, <2>1, <2>2 DEF b
<1>31. CASE s.initializer.set
  <2>1. Emit(work, symbol).builder = done
    BY <1>10, <1>31
  <2>2. SettledBuilder(done)
    BY <1>28, <1>29, <1>31 DEF SettledBuilder, R, S
  <2>3. size <= done.sections[DataSection].size
    BY <1>1, <1>5, <1>19
  <2> QED
    BY <1>20, <2>1, <2>2, <2>3 DEF b, size, s
<1> QED
  BY <1>30, <1>31

LEMMA ServingType ==
  ASSUME NEW n, NEW o \in RecordType(n), NEW section \in 0..3, NEW value \in Nat, NEW size \in Nat
  PROVE  [o EXCEPT !.section = section, !.value = value, !.size = size] \in RecordType(n)
BY DEF RecordType

LEMMA Serving ==
  ASSUME NEW n, NEW o \in RecordType(n), NEW section, NEW value, NEW size
  PROVE  Says([o EXCEPT !.section = section, !.value = value, !.size = size],
              o, section, o.kind, value, size)
BY DEF RecordType, Says

\* A record at the end, whoever it is of.
LEMMA AddedParts ==
  ASSUME NEW n \in Nat, NEW b \in BuilderType(n), NEW r \in RecordType(n)
  PROVE  LET c == [b EXCEPT !.records = Append(b.records, r)]
         IN  /\ c \in BuilderType(n) /\ SameSizes(b, c) /\ Keeps(b, c)
             /\ \A S : Holds(b, S) /\ r \in S => Holds(c, S)
<1> DEFINE c == [b EXCEPT !.records = Append(b.records, r)]
           l == Len(b.records)
<1>1. b.records \in Seq(RecordType(n)) /\ l \in Nat
  BY SectionsTyped
<1>2. Append(b.records, r) \in Seq(RecordType(n))
  BY <1>1
<1>3. c \in BuilderType(n) /\ c.sections = b.sections /\ c.records = Append(b.records, r)
  BY <1>2 DEF BuilderType
<1> HIDE DEF c
<1>4. /\ Len(c.records) = l + 1 /\ c.records[l + 1] = r
      /\ \A j \in 1..l : c.records[j] = b.records[j] /\ j \in 1..(l + 1)
      /\ \A j \in 1..(l + 1) : j \in 1..l \/ j = l + 1
  BY <1>1, <1>3
<1> HIDE DEF l
<1>5. Keeps(b, c)
  BY <1>3, <1>4 DEF Keeps, l
<1>6. \A S : Holds(b, S) /\ r \in S => Holds(c, S)
  BY <1>4 DEF Holds, l
<1> QED
  BY <1>3, <1>5, <1>6 DEF c, SameSizes

\* append_runtime_functions gives a service its place in .text.
LEMMA ProvideFinal ==
  ASSUME NEW n \in Nat, Table(symbols, n), main \in 0..n, NEW work \in Works(n),
         NEW service \in Names, FinalBuilder(work.builder)
  PROVE  FinalBuilder(Provide(work, service).builder)
<1> DEFINE startUp == service = StartUp /\ main # 0
           old == work.builder
           blank == [name |-> service, value |-> 0, section |-> 0, global |-> TRUE,
                     kind |-> Function, size |-> 0, source |-> 0]
           made == IF FirstNamed(old.records, service) = 0 /\ startUp
                   THEN [old EXCEPT !.records = Append(old.records, blank)]
                   ELSE old
           i == FirstNamed(made.records, service)
           offset == made.sections[TextSection].size
           code == IF startUp THEN Relocated(made, TextSection, offset, main, Pc32, symbols)
                   ELSE made
           size == IF startUp THEN ReferenceSize ELSE ServiceSize
           filled == Appended(code, TextSection, size)
           o == filled.records[i]
           r == [o EXCEPT !.section = TextSection, !.value = offset, !.size = size]
           done == [filled EXCEPT !.records = [filled.records EXCEPT ![i] = r]]
           R == Sizes(done)
           S == Final(R)
<1>1. old \in BuilderType(n) /\ work = [builder |-> old, placed |-> work.placed]
  BY WorksDef
<1>2. TextSection \in 1..3 /\ TextSection \in 0..3 /\ size \in Nat
      /\ (startUp => size = 4) /\ Len(symbols) = n
  BY UnitAssumption DEF TextSection, ReferenceSize, Table
<1>3. Frame(old, Sizes(old)) /\ Holds(old, Final(Sizes(old)))
  BY DEF FinalBuilder
<1>4. blank \in RecordType(n) /\ \A room : blank \in Final(room)
  <2>1. blank \in RecordType(n)
    BY DEF RecordType, Function
  <2>2. blank.section = 0 /\ blank.kind \in {Function, Object}
    OBVIOUS
  <2> HIDE DEF blank
  <2> QED
    BY <1>2, <2>1, <2>2 DEF Final
<1> HIDE DEF startUp, old, blank
<1>5. /\ made \in BuilderType(n) /\ SameSizes(old, made) /\ Keeps(old, made)
      /\ \A T : Holds(old, T) /\ blank \in T => Holds(made, T)
  <2> DEFINE c == [old EXCEPT !.records = Append(old.records, blank)]
  <2>1. /\ c \in BuilderType(n) /\ SameSizes(old, c) /\ Keeps(old, c)
        /\ \A T : Holds(old, T) /\ blank \in T => Holds(c, T)
    BY <1>1, <1>4, AddedParts
  <2>2. made = c \/ made = old
    OBVIOUS
  <2> HIDE DEF c, made
  <2>3. SameSizes(old, old)
    BY DEF SameSizes
  <2>4. old.records \in Seq(RecordType(n))
    BY <1>1, SectionsTyped
  <2>5. Keeps(old, old)
    BY DEF Keeps
  <2> QED
    BY <1>1, <2>1, <2>2, <2>3, <2>5
<1> HIDE DEF made, i, size
<1>6. offset \in Nat /\ offset = old.sections[TextSection].size
  BY <1>2, <1>5, SectionsTyped DEF SameSizes
<1> HIDE DEF offset
<1>7. code \in BuilderType(n) /\ SameSizes(made, code)
  <2>1. CASE startUp
    <3>1. main \in 1..n
      BY <2>1 DEF startUp
    <3>2. code = Relocated(made, TextSection, offset, main, Pc32, symbols)
      BY <2>1
    <3> HIDE DEF code
    <3> QED
      BY <1>2, <1>5, <1>6, <3>1, <3>2, RelocatedType
  <2>2. CASE ~startUp
    BY <1>5, <2>2 DEF SameSizes
  <2> QED
    BY <2>1, <2>2
<1>8. /\ \A T : Holds(made, T) /\ (\A x \in 1..n : Blank(x, symbols) \in T) => Holds(code, T)
      /\ \A room : Frame(made, room) /\ (startUp => offset + 4 <= room[TextSection])
                     => Frame(code, room)
  <2>1. CASE startUp
    <3> DEFINE c == Relocated(made, TextSection, offset, main, Pc32, symbols)
    <3>1. main \in 1..n /\ Pc32 \in {Pc32, Data64} /\ Width(Pc32) = 4
      BY <2>1 DEF startUp, Width, Pc32, Abs64, Data64
    <3>2. /\ \A T : Holds(made, T) /\ Blank(main, symbols) \in T => Holds(c, T)
          /\ \A room : Frame(made, room) /\ offset + Width(Pc32) <= room[TextSection]
               => Frame(c, room)
      BY <1>2, <1>5, <1>6, <3>1, RelocatedParts
    <3>3. code = c
      BY <2>1
    <3> HIDE DEF c, code
    <3> QED
      BY <2>1, <3>1, <3>2, <3>3
  <2>2. CASE ~startUp
    BY <2>2
  <2> QED
    BY <2>1, <2>2
<1> HIDE DEF code
<1>9. /\ filled \in BuilderType(n)
      /\ \A t \in 1..3 : filled.sections[t].size =
           IF t = TextSection THEN code.sections[t].size + size ELSE code.sections[t].size
  <2>1. n \in Nat /\ code \in BuilderType(n) /\ TextSection \in 1..3 /\ size \in Nat
    BY <1>2, <1>7
  <2>2. Appended(code, TextSection, size) \in BuilderType(n)
    BY <2>1, AppendedType
  <2>3. \A t \in 1..3 : Appended(code, TextSection, size).sections[t].size =
          IF t = TextSection THEN code.sections[t].size + size ELSE code.sections[t].size
    BY <2>1, AppendedSize
  <2> QED
    BY <2>2, <2>3
<1>10. Keeps(code, filled) /\ \A T : Holds(code, T) => Holds(filled, T)
  BY <1>2, <1>7, AppendedParts
<1>11. i = 0 \/ i \in 1..Len(filled.records)
  <2>1. made.records \in Seq(RecordType(n))
    BY <1>5, SectionsTyped
  <2>2. i = 0 \/ i \in 1..Len(made.records)
    BY <2>1, FirstNamedIs DEF i
  <2>3. \A j \in 1..Len(made.records) : j \in 1..Len(code.records)
    <3>1. CASE startUp
      <4> DEFINE c == Relocated(made, TextSection, offset, main, Pc32, symbols)
                 d == Indexed(made, main, symbols)
      <4>1. main \in 1..n /\ code = c
        BY <3>1 DEF startUp, code
      <4>2. \A j \in 1..Len(made.records) : j \in 1..Len(d.records)
        BY <1>5, <4>1, IndexedParts
      <4>3. d \in BuilderType(n)
        BY <1>5, <4>1, IndexedType
      <4>4. c.records = d.records
        <5> HIDE DEF d
        <5>1. c = [d EXCEPT !.sections[TextSection].relocs =
                    <<[offset |-> offset, source |-> main, name |-> symbols[main].name,
                       type |-> Pc32]>> \o @]
          BY DEF Relocated, d
        <5> QED
          BY <4>3, <5>1 DEF BuilderType
      <4> QED
        BY <4>1, <4>2, <4>4
    <3>2. CASE ~startUp
      BY <3>2 DEF code
    <3> QED
      BY <3>1, <3>2
  <2> QED
    BY <1>10, <2>2, <2>3 DEF Keeps
<1> HIDE DEF filled
<1>12. filled.records \in Seq(RecordType(n))
  BY <1>9, SectionsTyped
<1>13. i \in 1..Len(filled.records) => o \in RecordType(n)
  BY <1>12
<1>14. i \in 1..Len(filled.records) =>
         r \in RecordType(n) /\ Says(r, o, TextSection, o.kind, offset, size)
  <2> HIDE DEF o
  <2> QED
    BY <1>2, <1>6, <1>13, ServingType, Serving
<1> HIDE DEF r
<1>15. done \in BuilderType(n) /\ SameSizes(filled, done)
  BY <1>9, <1>14, RecordChanged
<1>16. Keeps(filled, done) /\ \A T : Holds(filled, T) /\ (i # 0 => r \in T) => Holds(done, T)
  <2>1. CASE i \in 1..Len(filled.records)
    <3>1. r \in RecordType(n) /\ r.name = filled.records[i].name
          /\ r.source = filled.records[i].source /\ i # 0
      BY <1>14, <2>1 DEF Says, o
    <3>2. Keeps(filled, done) /\ \A T : Holds(filled, T) /\ r \in T => Holds(done, T)
      BY <1>9, <2>1, <3>1, RecordKept
    <3> QED
      BY <3>1, <3>2
  <2>2. CASE i \notin 1..Len(filled.records)
    <3>1. [filled.records EXCEPT ![i] = r] = filled.records
      BY <1>12, <2>2
    <3>2. done = filled
      BY <1>9, <3>1 DEF BuilderType
    <3> HIDE DEF done
    <3>3. Keeps(filled, filled)
      BY DEF Keeps
    <3> QED
      BY <3>2, <3>3
  <2> QED
    BY <2>1, <2>2
<1> HIDE DEF done, o
<1>17. done.sections[TextSection].size = offset + size
  BY <1>2, <1>5, <1>6, <1>7, <1>9, <1>15 DEF SameSizes
<1>18. Grown(old, done)
  <2>1. ASSUME NEW t \in 1..3 PROVE old.sections[t].size <= done.sections[t].size
    <3>1. CASE t = TextSection
      BY <1>2, <1>6, <1>17, <3>1
    <3>2. CASE t # TextSection
      <4>1. done.sections[t].size = old.sections[t].size
        BY <1>5, <1>7, <1>9, <1>15, <3>2 DEF SameSizes
      <4>2. old.sections[t].size \in Nat
        BY <1>1, SectionsTyped
      <4> QED
        BY <4>1, <4>2
    <3> QED
      BY <3>1, <3>2
  <2> QED
    BY <2>1 DEF Grown
<1>19. R \in Rooms /\ R[TextSection] = offset + size
  BY <1>2, <1>15, <1>17, SizesAre
<1>20. Frame(old, R) /\ Holds(old, S)
  <2>1. Sizes(old) \in Rooms /\ \A t \in 1..3 : Sizes(old)[t] <= R[t]
    BY <1>1, <1>15, <1>18, SizesAre DEF Grown
  <2>2. Frame(old, R)
    BY <1>1, <1>3, <1>19, <2>1, FrameRoom
  <2>3. Final(Sizes(old)) \subseteq S
    BY <1>1, <1>15, <1>18, RoomGrown
  <2> QED
    BY <1>3, <2>2, <2>3 DEF Holds
<1>21. blank \in S /\ \A x \in 1..n : Blank(x, symbols) \in S
  BY <1>4, BlankReady
<1> HIDE DEF S, R
<1>22. Frame(code, R) /\ Holds(code, S)
  <2>1. Frame(made, R) /\ Holds(made, S)
    BY <1>5, <1>20, <1>21, FrameKept
  <2>2. startUp => offset + 4 <= R[TextSection]
    BY <1>2, <1>6, <1>19
  <2> QED
    BY <1>8, <1>21, <2>1, <2>2
<1>23. Frame(filled, R) /\ Holds(filled, S)
  BY <1>10, <1>22, FrameKept
<1>24. i # 0 => r \in S
  <2> SUFFICES ASSUME i # 0 PROVE r \in S
    OBVIOUS
  <2>1. /\ r \in RecordType(n) /\ r.section = TextSection /\ r.kind = o.kind
        /\ r.value = offset /\ r.size = size
    BY <1>11, <1>14 DEF Says
  <2>2. o.kind \in {Function, Object}
    BY <1>11, <1>23 DEF Holds, S, Final, o
  <2>3. \A s \in 1..3 : r.section = s => r.value + r.size <= R[s]
    BY <1>2, <1>6, <1>19, <2>1
  <2> QED
    BY <1>2, <2>1, <2>2, <2>3 DEF S, Final
<1>25. FinalBuilder(done)
  BY <1>16, <1>23, <1>24, FrameKept DEF FinalBuilder, S, R
<1>26. Provide(work, service).builder \in {old, done}
  <2>1. done = [filled EXCEPT !.records[i] = [@ EXCEPT !.section = TextSection, !.value = offset,
                                                       !.size = size]]
    BY <1>9 DEF done, r, o, BuilderType
  <2>2. Provide(work, service) \in
          {work, [builder |-> done, placed |-> Put(work.placed, service, At(TextSection, offset, size))]}
    BY <2>1, Zenon DEF Provide, startUp, old, blank, made, i, offset, code, size, filled
  <2> QED
    BY <1>1, <2>2
<1> QED
  BY <1>25, <1>26 DEF old

\* Once every object of .data has its bytes, each of their records lies within it.
LEMMA SettledFinal ==
  ASSUME NEW n \in Nat, Table(symbols, n), NEW b \in BuilderType(n), SettledBuilder(b),
         \A g \in DataObjects : symbols[g].size <= b.sections[DataSection].size
  PROVE  FinalBuilder(b)
<1>1. \A s \in 1..3 : Sizes(b)[s] = b.sections[s].size
  BY SizesAre
<1>2. TextSection = 1 /\ DataSection = 2 /\ BssSection = 3
  BY DEF TextSection, DataSection, BssSection
<1>3. ASSUME NEW r \in Settled(Sizes(b)) PROVE r \in Final(Sizes(b))
  <2>1. /\ r \in RecordType(Len(symbols)) /\ r.kind \in {Function, Object}
        /\ r.section = 1 => r.value + r.size <= Sizes(b)[1]
        /\ r.section = 3 => r.value + r.size <= Sizes(b)[3]
        /\ r.section = 2 => \/ r.value + r.size <= Sizes(b)[2]
                            \/ r.value = 0 /\ \E g \in DataObjects : r.size = symbols[g].size
    BY <1>2 DEF Settled
  <2>2. r.size \in Nat
    BY <2>1 DEF RecordType
  <2>3. r.section = 2 => r.value + r.size <= Sizes(b)[2]
    BY <1>1, <1>2, <2>1, <2>2
  <2>4. \A s \in 1..3 : r.section = s => r.value + r.size <= Sizes(b)[s]
    <3>1. \A s \in 1..3 : s = 1 \/ s = 2 \/ s = 3
      OBVIOUS
    <3> QED
      BY <2>1, <2>3, <3>1
  <2> QED
    BY <2>1, <2>4 DEF Final
<1> QED
  BY <1>3 DEF SettledBuilder, FinalBuilder, Holds

\* Emitting visits every object with storage, in their order.
LEMMA EmittedThrough ==
  ASSUME NEW W, globals \in Seq(Nat), Prepared \in W,
         \A v \in W, i \in 1..Len(globals) : Emit(v, globals[i]) \in W
  PROVE  \E h \in [0..Len(globals) -> W] :
           /\ h[0] = Prepared /\ Emitted(Prepared) = h[Len(globals)]
           /\ \A k \in 1..Len(globals) : h[k] = Emit(h[k - 1], globals[k])
<1> DEFINE w == Prepared
<1>1. w \in W
  OBVIOUS
<1>2. w = Prepared
  OBVIOUS
<1> HIDE DEF w
<1>3. \E h \in [0..Len(globals) -> W] :
        /\ h[0] = w /\ Emitted(w) = h[Len(globals)]
        /\ \A k \in 1..Len(globals) : h[k] = Emit(h[k - 1], globals[k])
  BY <1>1, EmittedStages
<1> QED
  BY <1>2, <1>3

\* ir_encoder_finish leaves every symbol within its section, and every relocation.
LEMMA FinishedFinal ==
  ASSUME NEW n \in Nat, Table(symbols, n), main \in 0..n, globals \in Seq(1..n),
         builder \in BuilderType(n), claims.placed \in Partial(PlaceType),
         PlacedIn(builder, claims.placed), PointersWide(symbols),
         NEW functions, GlobalsApart(functions), EarlyBuilder(builder, symbols, functions)
  PROVE  FinalBuilder(Provided(Emitted(Prepared)).builder)
<1> DEFINE V1 == {w \in Works(n) : ReadyBuilder(w.builder)}
           V2 == {w \in Works(n) : SettledBuilder(w.builder)}
           V3 == {w \in Works(n) : FinalBuilder(w.builder)}
           l == Len(globals)
<1>1. Work \in V1
  <2>1. Work \in Works(n)
    BY WorksDef DEF Work
  <2>2. Work.builder = builder
    BY DEF Work
  <2>3. ReadyBuilder(builder)
    BY EarlyReady
  <2> QED
    BY <2>1, <2>2, <2>3
<1>2. /\ l \in Nat /\ globals \in Seq(Nat)
      /\ \A i \in 1..l : globals[i] \in 1..n /\ globals[i] \in ToSet(globals)
  BY DEF ToSet
<1>3. \A v \in V1, i \in 1..Len(globals) : Prepare(v, globals[i]) \in V1
  BY <1>2, PrepareIn, PrepareReady
<1>4. \A v \in V2, i \in 1..Len(globals) :
        /\ Emit(v, globals[i]) \in V2
        /\ Grown(v.builder, Emit(v, globals[i]).builder)
        /\ globals[i] \in DataObjects =>
             symbols[globals[i]].size <= Emit(v, globals[i]).builder.sections[DataSection].size
  BY <1>2, EmitIn, EmitSettled
<1>5. \A v \in V3, i \in 1..Len(Services) : Provide(v, Services[i]) \in V3
  <2>1. \A i \in 1..Len(Services) : Services[i] \in Names
    <3>1. ASSUME NEW x \in ToSet(Services) PROVE x \in Names
      BY DEF Names
    <3>2. Services \in Seq(ToSet(Services))
      BY UnitAssumption
    <3> QED
      BY <3>1, <3>2
  <2> QED
    BY <2>1, ProvideIn, ProvideFinal
<1> HIDE DEF V1
<1>6. Prepared \in V1
  BY <1>1, <1>2, <1>3, PreparedIn
<1>7. Prepared \in V2
  <2>1. Prepared \in Works(n) /\ ReadyBuilder(Prepared.builder)
    BY <1>6 DEF V1
  <2>2. SettledBuilder(Prepared.builder)
    BY <2>1 DEF ReadyBuilder, SettledBuilder, Holds, Ready
  <2> QED
    BY <2>1, <2>2
<1> HIDE DEF V2
<1>8. PICK h \in [0..l -> V2] :
        /\ h[0] = Prepared /\ Emitted(Prepared) = h[l]
        /\ \A k \in 1..l : h[k] = Emit(h[k - 1], globals[k])
  <2>1. l \in Nat /\ globals \in Seq(Nat) /\ l = Len(globals)
    BY <1>2
  <2>2. \A v \in V2, i \in 1..Len(globals) : Emit(v, globals[i]) \in V2
    BY <1>4
  <2>3. \E h \in [0..Len(globals) -> V2] :
          /\ h[0] = Prepared /\ Emitted(Prepared) = h[Len(globals)]
          /\ \A k \in 1..Len(globals) : h[k] = Emit(h[k - 1], globals[k])
    <3> HIDE DEF l
    <3> QED
      BY <2>1, <2>2, <1>7, EmittedThrough
  <2> QED
    BY <2>3
<1> DEFINE Bytes(k) == h[k].builder.sections[DataSection].size
           K == {k \in Nat : k <= l => \A j \in 1..k : globals[j] \in DataObjects =>
                                         symbols[globals[j]].size <= Bytes(k)}
<1>9. \A g \in DataObjects : symbols[g].size \in Nat
  <2>1. \A g \in DataObjects : g \in 1..n
    BY DEF DataObjects, ToSet
  <2>2. \A g \in 1..n : symbols[g] \in SymbolType
    BY DEF Table
  <2> QED
    BY <2>1, <2>2 DEF SymbolType, Positive
<1>10. \A k \in 0..l : h[k].builder \in BuilderType(n) /\ Bytes(k) \in Nat
  <2>1. \A k \in 0..l : h[k] \in Works(n)
    BY <1>8 DEF V2
  <2>2. \A k \in 0..l : h[k].builder \in BuilderType(n)
    BY <2>1, WorksDef
  <2>3. DataSection \in 1..3
    BY DEF DataSection
  <2> QED
    BY <2>2, <2>3, SectionsTyped
<1>11. ASSUME NEW k \in 1..l
       PROVE  /\ k - 1 \in 0..l /\ Bytes(k - 1) <= Bytes(k)
              /\ globals[k] \in DataObjects => symbols[globals[k]].size <= Bytes(k)
  <2>1. k - 1 \in 0..l
    BY <1>2
  <2>2. h[k] = Emit(h[k - 1], globals[k]) /\ h[k - 1] \in V2 /\ DataSection \in 1..3
    <3>1. h[k] = Emit(h[k - 1], globals[k])
      BY <1>8
    <3>2. h[k - 1] \in V2
      BY <1>8, <2>1
    <3> QED
      BY <3>1, <3>2 DEF DataSection
  <2> DEFINE v == h[k - 1]
             g == globals[k]
             e == Emit(v, g)
  <2>3. /\ e \in V2 /\ Grown(v.builder, e.builder)
        /\ g \in DataObjects => symbols[g].size <= e.builder.sections[DataSection].size
    BY <1>4, <2>2
  <2>4. e = h[k]
    BY <2>2
  <2>5. Grown(h[k - 1].builder, h[k].builder)
    BY <2>3, <2>4
  <2>6. h[k - 1].builder.sections[DataSection].size <= h[k].builder.sections[DataSection].size
    BY <2>2, <2>5 DEF Grown
  <2>7. g \in DataObjects => symbols[g].size <= h[k].builder.sections[DataSection].size
    BY <2>3, <2>4
  <2> QED
    BY <2>1, <2>6, <2>7
<1> HIDE DEF Bytes
<1>12. 0 \in K
  OBVIOUS
<1>13. ASSUME NEW k \in Nat, k \in K PROVE k + 1 \in K
  <2> SUFFICES ASSUME k + 1 <= l, NEW j \in 1..(k + 1), globals[j] \in DataObjects
               PROVE  symbols[globals[j]].size <= Bytes(k + 1)
    BY SMTT(30)
  <2>1. k + 1 \in 1..l /\ (k + 1) - 1 = k /\ k \in 0..l /\ k + 1 \in 0..l
    BY <1>2
  <2>2. Bytes(k) <= Bytes(k + 1) /\ Bytes(k) \in Nat /\ Bytes(k + 1) \in Nat
    BY <1>10, <1>11, <2>1
  <2>3. CASE j = k + 1
    BY <1>11, <2>1, <2>3
  <2>4. CASE j # k + 1
    <3>1. j \in 1..k
      BY <2>4
    <3>2. symbols[globals[j]].size <= Bytes(k)
      BY <1>2, <1>13, <2>1, <3>1
    <3>3. symbols[globals[j]].size \in Nat
      BY <1>9
    <3> QED
      BY <2>2, <3>2, <3>3
  <2> QED
    BY <2>3, <2>4
<1> HIDE DEF K
<1>14. l \in K
  BY <1>2, <1>12, <1>13, Counting
<1>15. Emitted(Prepared) \in V3
  <2>1. l \in 0..l /\ h[l] \in V2
    BY <1>2, <1>8
  <2>2. h[l] \in Works(n) /\ SettledBuilder(h[l].builder) /\ h[l].builder \in BuilderType(n)
    BY <1>10, <2>1 DEF V2
  <2>3. \A g \in DataObjects : symbols[g].size <= h[l].builder.sections[DataSection].size
    <3>1. \A g \in DataObjects : \E j \in 1..l : globals[j] = g
      BY <1>2 DEF DataObjects, ToSet
    <3> QED
      BY <1>2, <1>14, <3>1 DEF K, Bytes
  <2>4. FinalBuilder(h[l].builder)
    BY <2>2, <2>3, SettledFinal
  <2> QED
    BY <1>8, <2>2, <2>4
<1> HIDE DEF V3
<1>16. Provided(Emitted(Prepared)) \in V3
  BY <1>5, <1>15, UnitAssumption, ProvidedIn
<1> QED
  BY <1>16 DEF V3
-----------------------------------------------------------------------------
(* The names of storage without a name in the source *)

\* The lexer reads no identifier that starts with a dot: the names the compiler makes
\* up differ from each other and from those of the source.
OwnNamesApart ==
  /\ \A m, n \in Nat : /\ Private(m) = Private(n) => m = n
                       /\ Literal(m) = Literal(n) => m = n
                       /\ Private(m) # Literal(n)
  /\ \A d \in Declarations :
       /\ ~OwnName(d.name)
       /\ d.kind = "function" =>
            \A i \in 1..Len(d.body) : d.body[i].kind = "extern" => ~OwnName(d.body[i].name)

\* The compiler's own names so far have numbers below its counters.
Numbered(name, counts) ==
  \A n \in Nat : /\ name = Private(n) => n < counts.static
                 /\ name = Literal(n) => n < counts.literal

\* No two Symbols share a name of the compiler's own, and no pointer is too small.
Sound(all, counts) ==
  /\ PointersWide(all)
  /\ \A i \in 1..Len(all) : Numbered(all[i].name, counts)
  /\ \A i, j \in 1..Len(all) : all[i].name = all[j].name /\ OwnName(all[i].name) => i = j

\* One more Symbol, whose name is of the source or has the next number.
LEMMA SoundMore ==
  ASSUME NEW all \in Seq(SymbolType), NEW counts \in CountersType, Sound(all, counts),
         NEW more \in CountersType, counts.static <= more.static, counts.literal <= more.literal,
         NEW s \in SymbolType, s.initializer.target = 0, Numbered(s.name, more),
         ~OwnName(s.name) \/ \E n \in Nat :
           \/ s.name = Private(n) /\ counts.static <= n
           \/ s.name = Literal(n) /\ counts.literal <= n
  PROVE  Sound(Append(all, s), more)
<1> DEFINE new == Append(all, s)
           n == Len(all)
<1>1. n \in Nat /\ Len(new) = n + 1 /\ new[n + 1] = s /\ \A i \in 1..n : new[i] = all[i]
  OBVIOUS
<1>2. /\ PointersWide(all) /\ \A i \in 1..n : Numbered(all[i].name, counts)
      /\ \A i, j \in 1..n : all[i].name = all[j].name /\ OwnName(all[i].name) => i = j
  BY DEF Sound
<1> HIDE DEF new, n
<1>3. \A i \in 1..(n + 1) : i \in 1..n \/ i = n + 1
  BY <1>1
<1>4. PointersWide(new)
  <2>1. \A i \in 1..n : all[i].initializer.target # 0 => PointerSize <= all[i].size
    BY <1>2 DEF PointersWide, n
  <2>2. ASSUME NEW i \in 1..(n + 1), new[i].initializer.target # 0
        PROVE  PointerSize <= new[i].size
    <3>1. i # n + 1
      BY <1>1, <2>2
    <3>2. i \in 1..n /\ new[i] = all[i]
      BY <1>1, <1>3, <3>1
    <3> QED
      BY <2>1, <2>2, <3>2
  <2> QED
    BY <1>1, <2>2 DEF PointersWide
<1>5. ASSUME NEW name, Numbered(name, counts) PROVE Numbered(name, more)
  <2>1. /\ counts.static \in Nat /\ counts.literal \in Nat
        /\ more.static \in Nat /\ more.literal \in Nat
    BY DEF CountersType
  <2> QED
    BY <1>5, <2>1 DEF Numbered
<1>6. \A i \in 1..(n + 1) : Numbered(new[i].name, more)
  BY <1>1, <1>2, <1>3, <1>5
<1>7. ASSUME OwnName(s.name) PROVE \A i \in 1..n : all[i].name # s.name
  <2>1. PICK m \in Nat : \/ s.name = Private(m) /\ counts.static <= m
                         \/ s.name = Literal(m) /\ counts.literal <= m
    BY <1>7
  <2>2. counts.static \in Nat /\ counts.literal \in Nat
    BY DEF CountersType
  <2>3. ~Numbered(s.name, counts)
    BY <2>1, <2>2 DEF Numbered
  <2> QED
    BY <1>2, <2>3
<1>8. ASSUME NEW i \in 1..(n + 1), NEW j \in 1..(n + 1), new[i].name = new[j].name,
             OwnName(new[i].name)
      PROVE  i = j
  BY <1>1, <1>2, <1>3, <1>7, <1>8
<1> QED
  BY <1>1, <1>4, <1>6, <1>8 DEF Sound, new

\* A body whose Symbols are sound, and whose storage has names of the compiler's own.
OwnAll(all, list) == \A i \in 1..Len(list) : OwnName(all[list[i]].name)
SoundBody(body) ==
  /\ Sound(body.symbols, body.counters)
  /\ OwnAll(body.symbols, body.statics) /\ OwnAll(body.symbols, body.literals)

\* Lists of a body's storage, when there is one more Symbol.
LEMMA OwnMore ==
  ASSUME NEW all \in Seq(SymbolType), NEW s, NEW list \in Seq(1..Len(all)), OwnAll(all, list)
  PROVE  /\ OwnAll(Append(all, s), list)
         /\ OwnName(s.name) => OwnAll(Append(all, s), Append(list, Len(all) + 1))
<1> DEFINE new == Append(all, s)
           n == Len(all)
           k == Len(list)
           longer == Append(list, n + 1)
<1>1. n \in Nat /\ new[n + 1] = s /\ \A i \in 1..n : new[i] = all[i]
  OBVIOUS
<1>2. /\ k \in Nat /\ Len(longer) = k + 1 /\ longer[k + 1] = n + 1
      /\ \A i \in 1..k : longer[i] = list[i] /\ list[i] \in 1..n
  OBVIOUS
<1>3. \A i \in 1..k : OwnName(all[list[i]].name)
  BY DEF OwnAll
<1> HIDE DEF new, longer, n, k
<1>4. \A i \in 1..k : OwnName(new[list[i]].name)
  BY <1>1, <1>2, <1>3
<1>5. ASSUME OwnName(s.name), NEW i \in 1..(k + 1) PROVE OwnName(new[longer[i]].name)
  <2>1. CASE i = k + 1
    BY <1>1, <1>2, <1>5, <2>1
  <2>2. CASE i # k + 1
    <3>1. i \in 1..k
      BY <1>2, <2>2
    <3> QED
      BY <1>2, <1>4, <3>1
  <2> QED
    BY <2>1, <2>2
<1>6. OwnAll(new, list)
  BY <1>4 DEF OwnAll, k
<1>7. OwnName(s.name) => OwnAll(new, longer)
  BY <1>2, <1>5 DEF OwnAll
<1> QED
  BY <1>6, <1>7 DEF new, longer, n

\* The names that static objects and literals get are the next ones.
LEMMA StaticNext ==
  ASSUME OwnNamesApart, NEW counts \in CountersType
  PROVE  LET more == [counts EXCEPT !.static = @ + 1]
             x == Private(counts.static)
         IN  /\ more \in CountersType /\ Numbered(x, more) /\ OwnName(x)
             /\ counts.static <= more.static /\ counts.literal <= more.literal
             /\ \E n \in Nat : \/ x = Private(n) /\ counts.static <= n
                               \/ x = Literal(n) /\ counts.literal <= n
<1> DEFINE more == [counts EXCEPT !.static = @ + 1]
           x == Private(counts.static)
<1>1. /\ counts.static \in Nat /\ counts.literal \in Nat /\ more \in CountersType
      /\ more.static = counts.static + 1 /\ more.literal = counts.literal
  BY DEF CountersType
<1> HIDE DEF more
<1>2. Numbered(x, more)
  <2>1. \A n \in Nat : (x = Private(n) => n = counts.static) /\ x # Literal(n)
    BY <1>1 DEF OwnNamesApart
  <2> HIDE DEF x
  <2> QED
    BY <1>1, <2>1 DEF Numbered
<1>3. \E n \in Nat : x = Private(n) /\ counts.static <= n
  BY <1>1
<1>4. OwnName(x)
  BY <1>1 DEF OwnName
<1> QED
  BY <1>1, <1>2, <1>3, <1>4 DEF more

LEMMA LiteralNext ==
  ASSUME OwnNamesApart, NEW counts \in CountersType
  PROVE  LET more == [counts EXCEPT !.literal = @ + 1]
             x == Literal(counts.literal)
         IN  /\ more \in CountersType /\ Numbered(x, more) /\ OwnName(x)
             /\ counts.static <= more.static /\ counts.literal <= more.literal
             /\ \E n \in Nat : \/ x = Private(n) /\ counts.static <= n
                               \/ x = Literal(n) /\ counts.literal <= n
<1> DEFINE more == [counts EXCEPT !.literal = @ + 1]
           x == Literal(counts.literal)
<1>1. /\ counts.static \in Nat /\ counts.literal \in Nat /\ more \in CountersType
      /\ more.static = counts.static /\ more.literal = counts.literal + 1
  BY DEF CountersType
<1> HIDE DEF more
<1>2. Numbered(x, more)
  <2>1. \A n \in Nat : (x = Literal(n) => n = counts.literal) /\ x # Private(n)
    BY <1>1 DEF OwnNamesApart
  <2> HIDE DEF x
  <2> QED
    BY <1>1, <2>1 DEF Numbered
<1>3. \E n \in Nat : x = Literal(n) /\ counts.literal <= n
  BY <1>1
<1>4. OwnName(x)
  BY <1>1 DEF OwnName
<1> QED
  BY <1>1, <1>2, <1>3, <1>4 DEF more

\* The Symbol of storage has the name it is given.
LEMMA StorageNamed ==
  ASSUME NEW name, NEW initializer, NEW size, NEW align
  PROVE  Storage(name, initializer, size, align).name = name
<1> DEFINE s == NewSymbol(name, FALSE, "static", size)
<1>1. s.name = name /\ Storage(name, initializer, size, align) =
                         [s EXCEPT !.initializer = initializer, !.align = align]
  BY DEF NewSymbol, Storage
<1> HIDE DEF s
<1> QED
  BY <1>1

\* Every item keeps a body sound.
LEMMA SoundStep ==
  ASSUME OwnNamesApart, NEW items, ItemsTyped(items), NEW k \in 1..Len(items),
         items[k].kind = "extern" => ~OwnName(items[k].name),
         NEW v \in BodyType(Nat), v.statics \in Seq(1..Len(v.symbols)),
         v.literals \in Seq(1..Len(v.symbols)), SoundBody(v)
  PROVE  SoundBody(ReadItem(v, items[k]))
<1> DEFINE item == items[k]
           R == ReadItem(v, item)
           all == v.symbols
           m == Len(all) + 1
           counts == v.counters
<1>1. /\ item.kind \in {"use", "extern", "static", "literal"}
      /\ item.kind = "extern" => item.name \in Names /\ SizeOf(item.name) \in Positive
  BY DEF ItemsTyped
<1>2. /\ all \in Seq(SymbolType) /\ counts \in CountersType
      /\ v.statics \in Seq(1..Len(all)) /\ v.literals \in Seq(1..Len(all))
  BY DEF BodyType
<1>3. Sound(all, counts) /\ OwnAll(all, v.statics) /\ OwnAll(all, v.literals)
  BY DEF SoundBody
<1>4. v \in BodyType(Nat) /\ (item.kind = "extern" => ~OwnName(item.name))
  OBVIOUS
<1>5. counts.static \in Nat /\ counts.literal \in Nat
  BY <1>2 DEF CountersType
<1>13. \A s : Len(Append(all, s)) = m
  BY <1>2
<1> HIDE DEF all, m, counts, item
<1>6. ASSUME NEW s \in SymbolType
      PROVE  /\ OwnAll(Append(all, s), v.statics) /\ OwnAll(Append(all, s), v.literals)
             /\ OwnName(s.name) => /\ OwnAll(Append(all, s), Append(v.statics, m))
                                   /\ OwnAll(Append(all, s), Append(v.literals, m))
  BY <1>2, <1>3, OwnMore DEF m
<1>7. CASE item.kind = "use"
  <2> DEFINE symbol == v.bound[item.name]
  <2>1. R = Uses(v, symbol)
    BY <1>7 DEF ReadItem
  <2> HIDE DEF symbol, R
  <2>4. R = [symbols |-> v.symbols, bound |-> v.bound, counters |-> v.counters,
             uses |-> Append(v.uses, symbol), statics |-> v.statics, literals |-> v.literals]
    BY <1>4, <2>1, BodyParts
  <2>2. /\ R.symbols = v.symbols /\ R.counters = v.counters
        /\ R.statics = v.statics /\ R.literals = v.literals
    BY <2>4
  <2>3. SoundBody(R)
    BY <2>2 DEF SoundBody
  <2> QED
    BY <2>3 DEF R, item
<1>8. CASE item.kind = "extern"
  <2> DEFINE s == NewSymbol(item.name, FALSE, "extern", SizeOf(item.name))
             more == Append(all, s)
  <2>1. s \in SymbolType /\ s.name = item.name /\ s.initializer.target = 0
    <3>1. FALSE \in BOOLEAN /\ "extern" \in Storages
      BY DEF Storages
    <3>2. s \in SymbolType /\ s.name = item.name /\ s.initializer = NoInitializer
      BY <1>1, <1>8, <3>1, NewSymbolType
    <3> HIDE DEF s
    <3>3. NoInitializer.target = 0
      BY DEF NoInitializer
    <3> QED
      BY <3>2, <3>3
  <2>2. R = AddExtern(v, item.name)
    BY <1>8 DEF ReadItem
  <2>3. R = [symbols |-> more, bound |-> Put(v.bound, item.name, Len(more)),
             counters |-> counts, uses |-> v.uses,
             statics |-> v.statics, literals |-> v.literals]
    BY <1>4, <2>2, BodyParts DEF all, counts
  <2> HIDE DEF s
  <2>4. ~OwnName(s.name) /\ Numbered(s.name, counts)
    <3>1. ~OwnName(s.name)
      BY <1>4, <1>8, <2>1
    <3> QED
      BY <3>1 DEF OwnName, Numbered
  <2>5. Sound(more, counts)
    <3>1. counts.static <= counts.static /\ counts.literal <= counts.literal
      BY <1>5
    <3> QED
      BY <1>2, <1>3, <2>1, <2>4, <3>1, SoundMore
  <2>6. OwnAll(more, v.statics) /\ OwnAll(more, v.literals)
    BY <1>6, <2>1
  <2> HIDE DEF R, more
  <2>7. /\ R.symbols = more /\ R.counters = counts
        /\ R.statics = v.statics /\ R.literals = v.literals
    BY <2>3
  <2>8. SoundBody(R)
    BY <2>5, <2>6, <2>7 DEF SoundBody
  <2> QED
    BY <2>8 DEF R, item
<1>9. CASE item.kind = "static"
  <2> DEFINE initializer == IF item.set THEN Plain ELSE NoInitializer
             name == Private(counts.static)
             s == Storage(name, initializer, 4, 4)
             more == Append(all, s)
             next == [counts EXCEPT !.static = @ + 1]
             kept == Append(v.statics, m)
  <2>1. R = AddStatic(v, initializer)
    BY <1>9 DEF ReadItem
  <2>2. /\ next \in CountersType /\ Numbered(name, next) /\ OwnName(name)
        /\ counts.static <= next.static /\ counts.literal <= next.literal
        /\ \E n \in Nat : \/ name = Private(n) /\ counts.static <= n
                          \/ name = Literal(n) /\ counts.literal <= n
    BY <1>2, StaticNext
  <2>3. s \in SymbolType /\ s.initializer.target = 0 /\ s.name = name
    <3>1. name \in Names /\ 4 \in Positive
      BY <1>5 DEF Names, Positive
    <3>2. initializer \in {Plain, NoInitializer}
      OBVIOUS
    <3> HIDE DEF initializer, name
    <3> QED
      BY <3>1, <3>2, StorageType, StorageNamed
  <2>4. R = [symbols |-> Append(all, s), bound |-> v.bound, counters |-> next,
             uses |-> Append(v.uses, Len(Append(all, s))),
             statics |-> Append(v.statics, Len(Append(all, s))), literals |-> v.literals]
    <3> HIDE DEF initializer
    <3> QED
      BY <1>4, <2>1, BodyParts DEF all, counts
  <2> HIDE DEF initializer, s, next, name
  <2>5. Sound(more, next)
    BY <1>2, <1>3, <2>2, <2>3, SoundMore
  <2>6. OwnAll(more, kept) /\ OwnAll(more, v.literals)
    BY <1>6, <2>2, <2>3
  <2>7. Len(Append(all, s)) = m
    BY <1>13
  <2> HIDE DEF R
  <2>8. /\ R.symbols = more /\ R.counters = next
        /\ R.statics = kept /\ R.literals = v.literals
    BY <2>4, <2>7
  <2> HIDE DEF more, kept
  <2>9. SoundBody(R)
    BY <2>5, <2>6, <2>8 DEF SoundBody
  <2> QED
    BY <2>9 DEF R, item
<1>10. CASE item.kind = "literal"
  <2> DEFINE name == Literal(counts.literal)
             s == Storage(name, Plain, 2, 1)
             more == Append(all, s)
             next == [counts EXCEPT !.literal = @ + 1]
             kept == Append(v.literals, m)
  <2>1. R = AddLiteral(v)
    <3>1. item.kind # "use" /\ item.kind # "extern" /\ item.kind # "static"
      BY <1>10
    <3> QED
      BY <1>10, <3>1, Zenon DEF ReadItem
  <2>2. /\ next \in CountersType /\ Numbered(name, next) /\ OwnName(name)
        /\ counts.static <= next.static /\ counts.literal <= next.literal
        /\ \E n \in Nat : \/ name = Private(n) /\ counts.static <= n
                          \/ name = Literal(n) /\ counts.literal <= n
    BY <1>2, LiteralNext
  <2>3. s \in SymbolType /\ s.initializer.target = 0 /\ s.name = name
    <3>1. name \in Names /\ 2 \in Positive /\ 1 \in Positive
      BY <1>5 DEF Names, Positive
    <3> HIDE DEF name
    <3> QED
      BY <3>1, StorageType, StorageNamed
  <2>4. R = [symbols |-> Append(all, s), bound |-> v.bound, counters |-> next,
             uses |-> Append(v.uses, Len(Append(all, s))),
             statics |-> v.statics, literals |-> Append(v.literals, Len(Append(all, s)))]
    BY <1>4, <2>1, BodyParts DEF all, counts
  <2> HIDE DEF s, next, name
  <2>5. Sound(more, next)
    BY <1>2, <1>3, <2>2, <2>3, SoundMore
  <2>6. OwnAll(more, v.statics) /\ OwnAll(more, kept)
    BY <1>6, <2>2, <2>3
  <2>7. Len(Append(all, s)) = m
    BY <1>13
  <2> HIDE DEF R
  <2>8. /\ R.symbols = more /\ R.counters = next
        /\ R.statics = v.statics /\ R.literals = kept
    BY <2>4, <2>7
  <2> HIDE DEF more, kept
  <2>9. SoundBody(R)
    BY <2>5, <2>6, <2>8 DEF SoundBody
  <2> QED
    BY <2>9 DEF R, item
<1> QED
  BY <1>1, <1>7, <1>8, <1>9, <1>10

\* ReadBody keeps the Symbols sound, and gives storage names of the compiler's own.
LEMMA ReadBodySound ==
  ASSUME OwnNamesApart, NEW d \in Declarations, d.kind = "function",
         ItemsTyped(d.body), counters \in CountersType,
         NEW n \in Nat, NEW all, Table(all, n), NEW known \in Partial(1..n), Resolves(d.body, known),
         Sound(all, counters)
  PROVE  SoundBody(ReadBody(d, all, known))
<1> DEFINE items == d.body
           self == WithSymbol(Body(all, known, [counters EXCEPT !.static = @ + 1]),
                              Storage(Private(counters.static), Plain, 2, 1))
           read == ReadItems(self, items)
           last == Len(items)
           V == BodyType(Meanings(items))
           name == Private(counters.static)
           s == Storage(name, Plain, 2, 1)
           counts == [counters EXCEPT !.static = @ + 1]
           more == Append(all, s)
           W == [k \in 0..last |-> {v \in BodyType(Nat) : GoodBody(v, more, known, items, k)
                                                            /\ SoundBody(v)}]
<1>1. /\ counts \in CountersType /\ Numbered(name, counts) /\ OwnName(name)
      /\ counters.static <= counts.static /\ counters.literal <= counts.literal
      /\ \E i \in Nat : \/ name = Private(i) /\ counters.static <= i
                        \/ name = Literal(i) /\ counters.literal <= i
  BY StaticNext
<1>2. s \in SymbolType /\ s.initializer.target = 0 /\ s.name = name
  <2>1. counters.static \in Nat
    BY DEF CountersType
  <2>2. name \in Names /\ 2 \in Positive /\ 1 \in Positive
    BY <2>1 DEF Names, Positive
  <2> HIDE DEF name
  <2> QED
    BY <2>2, StorageType, StorageNamed
<1>3. self = [symbols |-> more, bound |-> known, counters |-> counts,
              uses |-> <<>>, statics |-> <<>>, literals |-> <<>>]
  <2> DEFINE b == [symbols |-> all, bound |-> known, counters |-> counts,
                   uses |-> <<>>, statics |-> <<>>, literals |-> <<>>]
  <2>1. b = Body(all, known, counts)
    BY Zenon DEF Body
  <2>2. self = WithSymbol(Body(all, known, counts), s)
    OBVIOUS
  <2> HIDE DEF s, counts
  <2>3. b.symbols = all
    OBVIOUS
  <2>4. b = [symbols |-> all, bound |-> known, counters |-> counts,
             uses |-> <<>>, statics |-> <<>>, literals |-> <<>>]
    OBVIOUS
  <2> HIDE DEF self, b, more
  <2>5. self = [b EXCEPT !.symbols = Append(b.symbols, s)]
    BY <2>1, <2>2 DEF WithSymbol
  <2>6. self = [b EXCEPT !.symbols = more]
    BY <2>3, <2>5 DEF more
  <2> QED
    BY <2>4, <2>6
<1> HIDE DEF s, counts, name
<1>4. /\ Table(more, n + 1) /\ Len(more) = n + 1 /\ \A i \in 1..n : more[i] = all[i]
      /\ 1..n \subseteq 1..(n + 1) /\ n + 1 \in 1..(n + 1)
  BY <1>2, TableMore
<1>5. /\ Len(all) = n /\ all \in Seq(SymbolType) /\ more \in Seq(SymbolType)
      /\ more[n + 1] = s
  <2>1. Len(all) = n /\ all \in Seq(SymbolType)
    BY DEF Table
  <2> QED
    BY <1>2, <2>1
<1>6. known \in Partial(Nat) /\ \A y \in DOMAIN known : known[y] \in 1..n
  BY PartialDef
<1>16. Sound(more, counts)
  BY <1>1, <1>2, <1>5, SoundMore
<1> HIDE DEF more, self
<1>7. self \in BodyType(Nat) /\ self \in V
  BY <1>1, <1>3, <1>5, <1>6 DEF BodyType
<1>8. GoodBody(self, more, known, items, 0) /\ SoundBody(self)
  <2>1. /\ self.symbols = more /\ self.bound = known /\ self.uses = <<>>
        /\ self.statics = <<>> /\ self.literals = <<>> /\ self.counters = counts
    BY <1>3
  <2>2. GoodBody(self, more, known, items, 0)
    BY <1>4, <1>5, <1>6, <1>7, <2>1 DEF GoodBody
  <2>3. SoundBody(self)
    BY <1>16, <2>1 DEF SoundBody, OwnAll
  <2> QED
    BY <2>2, <2>3
<1>9. last \in Nat /\ 0 \in 0..last /\ last \in 0..last
  BY DEF ItemsTyped
<1>10. self \in W[0]
  BY <1>7, <1>8, <1>9
<1>11. ASSUME NEW k \in 1..last, NEW v \in W[k - 1] PROVE ReadItem(v, items[k]) \in W[k]
  <2>1. k - 1 \in 0..last /\ k \in 0..last
    BY <1>9
  <2>2. GoodBody(v, more, known, items, k - 1) /\ SoundBody(v) /\ v \in BodyType(Nat)
    BY <2>1
  <2>3. GoodBody(ReadItem(v, items[k]), more, known, items, k)
    BY <1>5, <2>2, GoodStep
  <2>4. ReadItem(v, items[k]) \in BodyType(Nat)
    BY <2>3 DEF GoodBody
  <2>5. SoundBody(ReadItem(v, items[k]))
    <3>1. v.statics \in Seq(1..Len(v.symbols)) /\ v.literals \in Seq(1..Len(v.symbols))
      BY <2>2 DEF GoodBody
    <3>2. items[k].kind = "extern" => ~OwnName(items[k].name)
      BY DEF OwnNamesApart
    <3> QED
      BY <2>2, <3>1, <3>2, SoundStep
  <2> QED
    BY <2>1, <2>3, <2>4, <2>5
<1>12. \A v \in V, i \in 1..Len(items) : ReadItem(v, items[i]) \in V
  BY ReadItemTyped
<1> HIDE DEF V, W
<1>13. read \in W[last]
  BY <1>7, <1>10, <1>11, <1>12, Reading DEF ItemsTyped
<1>14. GoodBody(read, more, known, items, last) /\ read \in BodyType(Nat) /\ SoundBody(read)
  BY <1>9, <1>13 DEF W
<1>15. ReadBody(d, all, known) = [read EXCEPT !.statics = Append(@, n + 1)]
  <2>1. ReadBody(d, all, known) = [read EXCEPT !.statics = Append(@, Latest(self))]
    BY DEF ReadBody, read, self, s, name
  <2>2. Latest(self) = n + 1
    BY <1>3, <1>4 DEF Latest
  <2> QED
    BY <2>1, <2>2
<1> HIDE DEF read
<1> DEFINE statics == Append(read.statics, n + 1)
           R == [read EXCEPT !.statics = statics]
<1>17. R.symbols = read.symbols /\ R.statics = statics /\ R.literals = read.literals
       /\ R.counters = read.counters
  BY <1>14 DEF BodyType
<1>18. /\ read.symbols[n + 1] = s /\ read.statics \in Seq(Nat)
       /\ Sound(read.symbols, read.counters)
       /\ OwnAll(read.symbols, read.statics) /\ OwnAll(read.symbols, read.literals)
  <2>1. \A i \in 1..(n + 1) : read.symbols[i] = more[i]
    BY <1>4, <1>14 DEF GoodBody
  <2> QED
    BY <1>4, <1>5, <1>14, <2>1 DEF SoundBody, BodyType
<1>19. OwnAll(read.symbols, statics)
  <2> DEFINE k == Len(read.statics)
  <2>1. /\ k \in Nat /\ Len(statics) = k + 1 /\ statics[k + 1] = n + 1
        /\ \A i \in 1..k : statics[i] = read.statics[i]
    BY <1>18
  <2> HIDE DEF statics
  <2>2. \A i \in 1..k : OwnName(read.symbols[statics[i]].name)
    BY <1>18, <2>1 DEF OwnAll
  <2> HIDE DEF k
  <2>3. OwnName(read.symbols[statics[k + 1]].name)
    BY <1>1, <1>2, <1>18, <2>1
  <2>4. \A i \in 1..(k + 1) : i \in 1..k \/ i = k + 1
    BY <2>1
  <2> QED
    BY <2>1, <2>2, <2>3, <2>4 DEF OwnAll
<1> HIDE DEF R, statics
<1>20. SoundBody(R)
  BY <1>17, <1>18, <1>19 DEF SoundBody
<1>21. ReadBody(d, all, known) = R
  BY <1>15 DEF R, statics
<1> QED
  BY <1>20, <1>21
-----------------------------------------------------------------------------
(* The names in scope *)

\* The names in scope are of the source, and objects of a name have the size of it.
ScopeSound(known, all) ==
  \A x \in DOMAIN known : ~OwnName(x) /\ all[known[x]].size = SizeOf(x)

\* An object with storage has a name of the compiler's own, or is in scope by its name.
Origin(g, known, all) ==
  LET x == all[g].name IN
  OwnName(x) \/ (x \in DOMAIN known /\ known[x] = g /\ ~all[g].function)
Origins(list, known, all) == \A i \in 1..Len(list) : Origin(list[i], known, all)

FunctionNames(known, all) == {x \in DOMAIN known : all[known[x]].function}

\* What a declaration of a name makes of scope and Symbols.
Alike(s, t) == s.name = t.name /\ s.function = t.function /\ s.size = t.size
Declares(name, function, known, all) ==
  LET n == Len(symbols) k == Number(name) IN
  /\ Len(all) \in Nat /\ \A i \in 1..n : i \in 1..Len(all) /\ Alike(all[i], symbols[i])
  /\ k \in 1..Len(all) /\ all[k].name = name /\ all[k].function = function
  /\ all[k].size = SizeOf(name)
  /\ \A i \in 1..Len(all) : i \in 1..n \/ i = k
  /\ DOMAIN known = DOMAIN scope \cup {name} /\ known[name] = k
  /\ \A y \in DOMAIN scope : y # name => known[y] = scope[y]
  /\ name \in DOMAIN scope => k = scope[name]

\* define_symbol: another kind of thing is a conflict.
LEMMA DefinedParts ==
  ASSUME NEW n \in Nat, Table(symbols, n), Scoped(scope, symbols), ScopeSound(scope, symbols),
         NEW name \in Names,
         SizeOf(name) \in Positive, NEW function \in BOOLEAN, NEW storage \in Storages,
         NEW initialized \in BOOLEAN, ~Conflict(name, function, initialized),
         PointersWide(symbols)
  PROVE  LET all == Defined(name, function, storage, initialized)
             known == Put(scope, name, Number(name))
         IN  /\ Declares(name, function, known, all)
             /\ PointersWide(all)
<1> DEFINE new == NewSymbol(name, function, storage, SizeOf(name))
           grown == IF Known(name) THEN symbols ELSE Append(symbols, new)
           k == Number(name)
           m == Len(grown)
           inner == storage = "static"
           named == grown[k].initialized \/ initialized
           r == [grown[k] EXCEPT !.storage = storage, !.internal = inner, !.initialized = named]
           all == [grown EXCEPT ![k] = r]
           known == Put(scope, name, k)
<1>1. /\ symbols \in Seq(SymbolType) /\ Len(symbols) = n
      /\ \A x \in DOMAIN scope : scope[x] \in 1..n /\ symbols[scope[x]].name = x
      /\ \A x \in DOMAIN scope : symbols[scope[x]].size = SizeOf(x)
      /\ \A i \in 1..n : symbols[i].initializer.target # 0 => PointerSize <= symbols[i].size
  BY PartialDef DEF Table, Scoped, ScopeSound, PointersWide
<1>2. /\ new \in SymbolType /\ new.name = name /\ new.initializer.target = 0
      /\ new.function = function /\ new.size = SizeOf(name)
  <2>1. /\ new \in SymbolType /\ new.name = name /\ new.initializer = NoInitializer
    BY NewSymbolType
  <2>2. NoInitializer.target = 0
    BY DEF NoInitializer
  <2>3. new.function = function /\ new.size = SizeOf(name)
    BY DEF NewSymbol
  <2> HIDE DEF new
  <2> QED
    BY <2>1, <2>2, <2>3
<1> HIDE DEF new
<1>3. /\ m \in Nat /\ grown \in Seq(SymbolType)
      /\ k \in 1..m /\ grown[k].name = name /\ grown[k].function = function
      /\ grown[k].size = SizeOf(name)
      /\ \A i \in 1..n : i \in 1..m /\ grown[i] = symbols[i]
      /\ \A i \in 1..m : i \in 1..n \/ i = k
      /\ \A i \in 1..m : grown[i].initializer.target # 0 => PointerSize <= grown[i].size
      /\ name \in DOMAIN scope => k = scope[name]
  <2>1. CASE Known(name)
    <3>1. grown = symbols /\ m = n
      BY <1>1, <2>1
    <3>2. /\ k \in 1..n /\ symbols[k].name = name /\ symbols[k].function = function
          /\ k = scope[name] /\ symbols[k].size = SizeOf(name)
      BY <1>1, <2>1 DEF Number, Known, Conflict
    <3> HIDE DEF grown, k, m
    <3> QED
      BY <1>1, <3>1, <3>2
  <2>2. CASE ~Known(name)
    <3> DEFINE longer == Append(symbols, new)
    <3>1. grown = longer /\ k = n + 1 /\ name \notin DOMAIN scope
      BY <1>1, <2>2 DEF Number, Known
    <3>2. /\ longer \in Seq(SymbolType) /\ Len(longer) = n + 1 /\ longer[n + 1] = new
          /\ \A i \in 1..n : longer[i] = symbols[i]
      BY <1>1, <1>2
    <3>4. m = n + 1
      BY <3>1, <3>2
    <3> HIDE DEF grown, k, m, longer
    <3>5. /\ n + 1 \in Nat /\ n + 1 \in 1..(n + 1) /\ \A i \in 1..n : i \in 1..(n + 1)
          /\ \A i \in 1..(n + 1) : i \in 1..n \/ i = n + 1
      OBVIOUS
    <3>6. \A i \in 1..(n + 1) : grown[i].initializer.target # 0 => PointerSize <= grown[i].size
      BY <1>1, <1>2, <3>1, <3>2, <3>5
    <3> QED
      BY <1>1, <1>2, <3>1, <3>2, <3>4, <3>5, <3>6
  <2> QED
    BY <2>1, <2>2
<1> HIDE DEF grown, k, m
<1>4. grown[k] \in SymbolType
  BY <1>3 DEF m
<1>5. inner \in BOOLEAN /\ named \in BOOLEAN
  <2>1. grown[k].initialized \in BOOLEAN
    BY <1>4 DEF SymbolType
  <2> QED
    OBVIOUS
<1> HIDE DEF inner, named
<1>6. /\ r \in SymbolType /\ r.name = name /\ r.initializer = grown[k].initializer
      /\ r.function = function /\ r.size = SizeOf(name)
  BY <1>3, <1>4, <1>5 DEF SymbolType
<1> HIDE DEF r
<1>7. Len(all) = m /\ all[k] = r /\ \A i \in 1..m : i # k => all[i] = grown[i]
  BY <1>3 DEF m
<1> HIDE DEF all
<1>8. \A i \in 1..n : i \in 1..m /\ Alike(all[i], symbols[i])
  <2>1. ASSUME NEW i \in 1..n PROVE i \in 1..m /\ Alike(all[i], symbols[i])
    <3>1. i \in 1..m /\ grown[i] = symbols[i]
      BY <1>3
    <3>2. CASE i = k
      <4>1. /\ all[i].name = name /\ all[i].function = function /\ all[i].size = SizeOf(name)
            /\ symbols[i].name = name /\ symbols[i].function = function
            /\ symbols[i].size = SizeOf(name)
        BY <1>3, <1>6, <1>7, <3>1, <3>2
      <4> QED
        BY <3>1, <4>1 DEF Alike
    <3>3. CASE i # k
      BY <1>7, <3>1, <3>3 DEF Alike
    <3> QED
      BY <3>1, <3>2, <3>3
  <2> QED
    BY <2>1
<1>9. \A i \in 1..m : all[i].initializer.target # 0 => PointerSize <= all[i].size
  <2>1. ASSUME NEW i \in 1..m, all[i].initializer.target # 0 PROVE PointerSize <= all[i].size
    <3>1. CASE i = k
      <4>1. grown[k].initializer.target # 0 /\ all[i].size = grown[k].size
        BY <1>3, <1>6, <1>7, <2>1, <3>1
      <4> QED
        BY <1>3, <4>1
    <3>2. CASE i # k
      BY <1>3, <1>7, <2>1, <3>2
    <3> QED
      BY <3>1, <3>2
  <2> QED
    BY <2>1
<1>10. /\ DOMAIN known = DOMAIN scope \cup {name} /\ known[name] = k
       /\ \A y \in DOMAIN scope : y # name => known[y] = scope[y]
  BY DEF Put
<1> HIDE DEF known
<1>11. Declares(name, function, known, all)
  BY <1>1, <1>3, <1>6, <1>7, <1>8, <1>10 DEF Declares, k
<1>12. PointersWide(all)
  BY <1>7, <1>9 DEF PointersWide
<1>13. Defined(name, function, storage, initialized) = all
  <2>1. Redeclared(grown[k], storage, initialized) = r
    BY Zenon DEF Redeclared, r, inner, named
  <2>2. Defined(name, function, storage, initialized) =
          [grown EXCEPT ![k] = Redeclared(grown[k], storage, initialized)]
    BY Zenon DEF Defined, grown, k, new
  <2> QED
    BY <2>1, <2>2, Zenon DEF all
<1> QED
  BY <1>11, <1>12, <1>13 DEF known, k

\* The declared name is one of the source: Symbols and scope stay sound.
LEMMA DeclaredSound ==
  ASSUME NEW n \in Nat, Table(symbols, n), Scoped(scope, symbols), ScopeSound(scope, symbols),
         NEW counts, Sound(symbols, counts), NEW name, ~OwnName(name), NEW function \in BOOLEAN,
         NEW known, NEW all, Declares(name, function, known, all), PointersWide(all)
  PROVE  /\ Sound(all, counts) /\ ScopeSound(known, all)
         /\ FunctionNames(scope, symbols) \subseteq FunctionNames(known, all)
         /\ function => name \in FunctionNames(known, all)
         /\ ~function => Origin(Number(name), known, all)
         /\ \A g \in 1..n : Origin(g, scope, symbols) => Origin(g, known, all)
<1> DEFINE k == Number(name)
           m == Len(all)
<1>1. /\ Len(symbols) = n /\ \A x \in DOMAIN scope : scope[x] \in 1..n /\ symbols[scope[x]].name = x
      /\ \A x \in DOMAIN scope : ~OwnName(x) /\ symbols[scope[x]].size = SizeOf(x)
  BY PartialDef DEF Table, Scoped, ScopeSound
<1>2. /\ m \in Nat /\ \A i \in 1..n : i \in 1..m /\ Alike(all[i], symbols[i])
      /\ k \in 1..m /\ all[k].name = name /\ all[k].function = function
      /\ all[k].size = SizeOf(name)
      /\ \A i \in 1..m : i \in 1..n \/ i = k
      /\ DOMAIN known = DOMAIN scope \cup {name} /\ known[name] = k
      /\ \A y \in DOMAIN scope : y # name => known[y] = scope[y]
      /\ name \in DOMAIN scope => k = scope[name]
  BY <1>1 DEF Declares
<1>3. /\ \A i \in 1..n : Numbered(symbols[i].name, counts)
      /\ \A i, j \in 1..n : symbols[i].name = symbols[j].name /\ OwnName(symbols[i].name) => i = j
  BY <1>1 DEF Sound
<1> HIDE DEF k, m
<1>4. Numbered(name, counts)
  BY DEF OwnName, Numbered
<1>5. \A i \in 1..n : all[i].name = symbols[i].name
  BY <1>2 DEF Alike
<1>6. Sound(all, counts)
  <2>1. \A i \in 1..m : Numbered(all[i].name, counts)
    BY <1>2, <1>3, <1>4, <1>5
  <2>2. ASSUME NEW i \in 1..m, NEW j \in 1..m, all[i].name = all[j].name, OwnName(all[i].name)
        PROVE  i = j
    <3>1. i # k /\ j # k
      BY <1>2, <2>2
    <3>2. i \in 1..n /\ j \in 1..n
      BY <1>2, <3>1
    <3> QED
      BY <1>3, <1>5, <2>2, <3>2
  <2> QED
    BY <2>1, <2>2 DEF Sound, m
<1>7. \A x \in DOMAIN scope : known[x] = scope[x]
  BY <1>2
<1>8. ScopeSound(known, all)
  <2>1. ASSUME NEW x \in DOMAIN known PROVE ~OwnName(x) /\ all[known[x]].size = SizeOf(x)
    <3>1. CASE x = name
      BY <1>2, <3>1
    <3>2. CASE x # name
      <4>1. x \in DOMAIN scope /\ known[x] = scope[x] /\ scope[x] \in 1..n
        BY <1>1, <1>2, <3>2
      <4>2. all[scope[x]].size = symbols[scope[x]].size
        BY <1>2, <4>1 DEF Alike
      <4> QED
        BY <1>1, <4>1, <4>2
    <3> QED
      BY <3>1, <3>2
  <2> QED
    BY <2>1 DEF ScopeSound
<1>9. FunctionNames(scope, symbols) \subseteq FunctionNames(known, all)
  BY <1>1, <1>2, <1>7 DEF FunctionNames, Alike
<1>10. function => name \in FunctionNames(known, all)
  BY <1>2 DEF FunctionNames
<1>11. ~function => Origin(k, known, all)
  BY <1>2 DEF Origin
<1>12. ASSUME NEW g \in 1..n, Origin(g, scope, symbols) PROVE Origin(g, known, all)
  <2>1. all[g].name = symbols[g].name /\ all[g].function = symbols[g].function
    BY <1>2 DEF Alike
  <2> QED
    BY <1>2, <1>7, <1>12, <2>1 DEF Origin
<1> QED
  BY <1>6, <1>8, <1>9, <1>10, <1>11, <1>12 DEF k

\* Objects with storage have names of their own, other than those of functions.
LEMMA ApartGlobals ==
  ASSUME Scoped(scope, symbols), ScopeSound(scope, symbols), NEW counts, Sound(symbols, counts),
         globals \in Seq(1..Len(symbols)), Origins(globals, scope, symbols)
  PROVE  GlobalsApart(FunctionNames(scope, symbols))
<1>1. \A g \in ToSet(globals) : g \in 1..Len(symbols) /\ Origin(g, scope, symbols)
  BY DEF ToSet, Origins
<1>2. \A x \in DOMAIN scope : ~OwnName(x)
  BY DEF ScopeSound
<1>3. \A i, j \in 1..Len(symbols) :
        symbols[i].name = symbols[j].name /\ OwnName(symbols[i].name) => i = j
  BY DEF Sound
<1>4. ASSUME NEW g \in ToSet(globals), NEW h \in ToSet(globals), symbols[g].name = symbols[h].name
      PROVE  g = h
  BY <1>1, <1>2, <1>3, <1>4 DEF Origin
<1>5. ASSUME NEW g \in ToSet(globals) PROVE symbols[g].name \notin FunctionNames(scope, symbols)
  BY <1>1, <1>2 DEF Origin, FunctionNames
<1> QED
  BY <1>4, <1>5 DEF GlobalsApart
-----------------------------------------------------------------------------
(* The unit, and what keeps its object readable *)

MoreInv ==
  /\ Sound(symbols, counters) /\ ScopeSound(scope, symbols) /\ Origins(globals, scope, symbols)
  /\ stage = "declarations" => EarlyBuilder(builder, symbols, FunctionNames(scope, symbols))
  /\ stage \in {"encoded", "written"} => FinalBuilder(builder)
  /\ stage = "written" => file = Written(builder) /\ Writable(builder)

\* The builder between declarations, when there are more Symbols and functions.
LEMMA EarlyCarried ==
  ASSUME NEW all \in Seq(SymbolType), builder \in BuilderType(Len(symbols)),
         symbols \in Seq(SymbolType),
         \A i \in 1..Len(symbols) : i \in 1..Len(all) /\ all[i].name = symbols[i].name,
         NEW functions, NEW others, functions \subseteq others,
         EarlyBuilder(builder, symbols, functions)
  PROVE  EarlyBuilder(builder, all, others)
<1>1. Len(symbols) <= Len(all)
  <2>1. Len(symbols) \in Nat /\ Len(all) \in Nat
    OBVIOUS
  <2>2. CASE Len(symbols) = 0
    BY <2>1, <2>2
  <2>3. CASE Len(symbols) # 0
    <3>1. Len(symbols) \in 1..Len(symbols)
      BY <2>1, <2>3
    <3> QED
      BY <2>1, <3>1
  <2> QED
    BY <2>2, <2>3
<1>2. builder.sections[TextSection].size \in Nat
  BY SectionsTyped DEF TextSection
<1> DEFINE size == builder.sections[TextSection].size
<1>3. size \in Nat /\ size <= size
  BY <1>2
<1> HIDE DEF size
<1>4. Early(symbols, functions, size) \subseteq Early(all, others, size)
  BY <1>1, <1>3, EarlyMore
<1>5. Holds(builder, Early(symbols, functions, size)) /\ Frame(builder, Sizes(builder))
  BY DEF EarlyBuilder, size
<1>6. Holds(builder, Early(all, others, size))
  BY <1>4, <1>5 DEF Holds
<1> QED
  BY <1>5, <1>6 DEF EarlyBuilder, size

\* A new global, with its origin.
LEMMA OriginsAdd ==
  ASSUME NEW m, NEW list \in Seq(1..m), NEW g \in 1..m, NEW known, NEW all,
         Origins(list, known, all), Origin(g, known, all)
  PROVE  Origins(AddGlobal(list, g), known, all)
<1> DEFINE longer == Append(list, g)
           k == Len(list)
<1>1. /\ k \in Nat /\ Len(longer) = k + 1 /\ longer[k + 1] = g
      /\ \A i \in 1..k : longer[i] = list[i]
  OBVIOUS
<1>2. \A i \in 1..k : Origin(list[i], known, all)
  BY DEF Origins
<1> HIDE DEF longer, k
<1>3. \A i \in 1..(k + 1) : i \in 1..k \/ i = k + 1
  BY <1>1
<1>4. Origins(longer, known, all)
  BY <1>1, <1>2, <1>3 DEF Origins
<1> QED
  BY <1>4 DEF AddGlobal, longer

LEMMA OriginsAddAll ==
  ASSUME NEW m \in Nat, NEW list \in Seq(1..m), NEW added \in Seq(1..m), NEW known, NEW all,
         Origins(list, known, all), Origins(added, known, all)
  PROVE  Origins(AddGlobals(list, added), known, all)
<1> DEFINE V == {v \in Seq(1..m) : Origins(v, known, all)}
<1>1. ASSUME NEW v \in V, NEW i \in 1..Len(added) PROVE AddGlobal(v, added[i]) \in V
  <2>1. added[i] \in 1..m /\ Origin(added[i], known, all)
    BY DEF Origins
  <2>2. v \in Seq(1..m) /\ Origins(v, known, all)
    OBVIOUS
  <2>3. AddGlobal(v, added[i]) \in Seq(1..m)
    BY <2>1, <2>2, AddGlobalType
  <2>4. Origins(AddGlobal(v, added[i]), known, all)
    BY <2>1, <2>2, OriginsAdd
  <2> QED
    BY <2>3, <2>4
<1>2. list \in V
  OBVIOUS
<1> HIDE DEF V
<1>3. AddGlobals(list, added) \in V
  BY <1>1, <1>2, AddGlobalsIn
<1> QED
  BY <1>3 DEF V

\* A new unit.
LEMMA MoreInit == Init => MoreInv
<1> SUFFICES ASSUME Init PROVE MoreInv
  OBVIOUS
<1>1. /\ symbols = <<>> /\ globals = <<>> /\ DOMAIN scope = {} /\ stage = "declarations"
      /\ Len(symbols) = 0 /\ Len(globals) = 0
  BY DEF Init
<1>2. /\ Sound(symbols, counters) /\ ScopeSound(scope, symbols)
      /\ Origins(globals, scope, symbols)
  BY <1>1 DEF Sound, PointersWide, ScopeSound, Origins
<1> DEFINE a == SectionOf(SectionNames[1], Text, 16)
           b == SectionOf(SectionNames[2], Data, 8)
           c == SectionOf(SectionNames[3], Bss, 8)
<1>3. builder = [sections |-> <<a, b, c>>, records |-> <<>>]
  BY DEF Init
<1>4. /\ a.name = SectionNames[1] /\ a.kind = Text /\ a.align = 16 /\ a.relocs = <<>>
      /\ b.name = SectionNames[2] /\ b.kind = Data /\ b.align = 8 /\ b.relocs = <<>>
      /\ c.name = SectionNames[3] /\ c.kind = Bss /\ c.align = 8 /\ c.relocs = <<>>
  BY DEF SectionOf
<1> HIDE DEF a, b, c
<1>5. Len(builder.records) = 0 /\ \A s \in 1..3 : Len(builder.sections[s].relocs) = 0
  BY <1>3, <1>4
<1>6. Fixed(builder)
  BY <1>3, <1>4 DEF Fixed, TextSection, DataSection, BssSection
<1>7. Frame(builder, Sizes(builder))
  BY <1>5, <1>6 DEF Frame
<1>8. EarlyBuilder(builder, symbols, FunctionNames(scope, symbols))
  BY <1>5, <1>7 DEF EarlyBuilder, Holds
<1> QED
  BY <1>1, <1>2, <1>8 DEF MoreInv

\* What UnitInv and MoreInv say between two declarations.
LEMMA Between ==
  ASSUME UnitInv, MoreInv, stage = "declarations"
  PROVE  /\ Len(symbols) \in Nat /\ Table(symbols, Len(symbols)) /\ Scoped(scope, symbols)
         /\ symbols \in Seq(SymbolType) /\ globals \in Seq(1..Len(symbols))
         /\ counters \in CountersType /\ main \in 0..Len(symbols)
         /\ builder \in BuilderType(Len(symbols))
         /\ ScopeSound(scope, symbols) /\ Sound(symbols, counters) /\ PointersWide(symbols)
         /\ Origins(globals, scope, symbols)
         /\ EarlyBuilder(builder, symbols, FunctionNames(scope, symbols))
<1>1. symbols \in Seq(SymbolType)
  BY DEF UnitInv, Table
<1>2. Len(symbols) \in Nat
  BY <1>1
<1> QED
  BY <1>1, <1>2 DEF UnitInv, MoreInv, Sound

\* What is so after a declaration that leaves the builder alone.
LEMMA MoreDeclared ==
  ASSUME UnitInv, UnitInv', MoreInv, stage = "declarations", stage' = stage, counters' = counters,
         builder' = builder, NEW d \in Declarations, ~OwnName(d.name), NEW function \in BOOLEAN,
         Declares(d.name, function, scope', symbols'), PointersWide(symbols'),
         \/ globals' = globals
         \/ ~function /\ globals' = AddGlobal(globals, Number(d.name))
  PROVE  MoreInv'
<1> DEFINE n == Len(symbols)
           known == scope'
           all == symbols'
           name == d.name
           m == Len(all)
           k == Number(name)
<1>1. /\ n \in Nat /\ Table(symbols, n) /\ Scoped(scope, symbols)
      /\ symbols \in Seq(SymbolType) /\ globals \in Seq(1..n) /\ builder \in BuilderType(n)
      /\ ScopeSound(scope, symbols) /\ Sound(symbols, counters)
      /\ Origins(globals, scope, symbols)
      /\ EarlyBuilder(builder, symbols, FunctionNames(scope, symbols))
  BY Between
<1>2. all \in Seq(SymbolType) /\ m \in Nat
  <2>1. all \in Seq(SymbolType)
    BY DEF UnitInv, Table
  <2> QED
    BY <2>1
<1>3. Declares(name, function, known, all) /\ PointersWide(all) /\ ~OwnName(name)
  OBVIOUS
<1>4. /\ \A i \in 1..n : i \in 1..m /\ all[i].name = symbols[i].name
      /\ k \in 1..m
  BY <1>3 DEF Declares, Alike
<1> HIDE DEF n, m, known, all, name, k
<1>5. /\ Sound(all, counters) /\ ScopeSound(known, all)
      /\ FunctionNames(scope, symbols) \subseteq FunctionNames(known, all)
      /\ ~function => Origin(k, known, all)
      /\ \A g \in 1..n : Origin(g, scope, symbols) => Origin(g, known, all)
  BY <1>1, <1>3, DeclaredSound DEF k
<1>6. EarlyBuilder(builder, all, FunctionNames(known, all))
  BY <1>1, <1>2, <1>4, <1>5, EarlyCarried DEF n, m
<1>7. Origins(globals, known, all) /\ globals \in Seq(1..m)
  <2> DEFINE list == globals
  <2>1. list \in Seq(1..n)
    BY <1>1
  <2>3. \A i \in 1..n : i \in 1..m
    BY <1>4
  <2> HIDE DEF list
  <2>4. list \in Seq(1..m) /\ \A i \in 1..Len(list) : list[i] \in 1..n
    <3> DEFINE S == 1..n
               T == 1..m
    <3>1. list \in Seq(S) /\ S \subseteq T
      BY <2>1, <2>3
    <3> HIDE DEF S, T
    <3>2. list \in Seq(T)
      BY <3>1
    <3>3. \A i \in 1..Len(list) : list[i] \in S
      BY <3>1
    <3> QED
      BY <3>2, <3>3 DEF S, T
  <2>2. globals \in Seq(1..m) /\ \A i \in 1..Len(globals) : globals[i] \in 1..n
    BY <2>4 DEF list
  <2> QED
    BY <1>1, <1>5, <2>2 DEF Origins
<1>8. ~function => Origins(AddGlobal(globals, k), known, all)
  BY <1>4, <1>5, <1>7, OriginsAdd
<1>9. Origins(globals', known, all)
  BY <1>7, <1>8 DEF k, name
<1>10. /\ Sound(symbols', counters') /\ ScopeSound(scope', symbols')
       /\ Origins(globals', scope', symbols')
       /\ EarlyBuilder(builder', symbols', FunctionNames(scope', symbols'))
  BY <1>5, <1>6, <1>9 DEF known, all
<1>11. stage' = "declarations"
  OBVIOUS
<1> QED
  BY <1>10, <1>11 DEF MoreInv

\* An object.
LEMMA MoreObject ==
  ASSUME OwnNamesApart, UnitInv, UnitInv', MoreInv, stage = "declarations", stage' = stage,
         NEW d \in Declarations, DeclareObject(d)
  PROVE  MoreInv'
<1> DEFINE n == Len(symbols)
           initialized == d.init # "none"
           tentative == ~initialized /\ d.storage # "extern"
           symbol == Number(d.name)
           known == Put(scope, d.name, symbol)
           all == Defined(d.name, FALSE, d.storage, initialized)
           m == Len(all)
           old == all[symbol].initializer
           new == CASE d.init = "none" -> old
                    [] d.init = "plain" -> Plain
                    [] d.init = "address" -> AddressOf(known[d.of])
           s == [all[symbol] EXCEPT !.initializer = new]
<1>1. /\ d.kind = "object" /\ scope' = known /\ ~Conflict(d.name, FALSE, initialized)
      /\ globals' = IF initialized \/ tentative THEN AddGlobal(globals, symbol) ELSE globals
      /\ counters' = counters /\ builder' = builder
  BY DEF DeclareObject
<1>2. symbols' = [all EXCEPT ![symbol] = s]
  BY DEF DeclareObject
<1>3. /\ n \in Nat /\ Table(symbols, n) /\ Scoped(scope, symbols) /\ ScopeSound(scope, symbols)
      /\ PointersWide(symbols)
  BY Between
<1>4. /\ d.name \in Names /\ SizeOf(d.name) \in Positive /\ d.storage \in Storages
      /\ d.init \in {"none", "plain", "address"} /\ FALSE \in BOOLEAN /\ initialized \in BOOLEAN
      /\ ~OwnName(d.name)
  BY <1>1, DeclarationTyped DEF OwnNamesApart
<1>5. d.init = "address" => PointerSize <= SizeOf(d.name)
  <2>1. d.init = "address" => SizeOf(d.name) >= PointerSize
    BY <1>1, UnitAssumption
  <2> QED
    BY <1>4, <2>1 DEF Positive, PointerSize
<1> HIDE DEF initialized, n
<1>6. /\ m \in Nat /\ Table(all, m) /\ symbol \in 1..m
  BY <1>3, <1>4, DefinedTable
<1>7. Declares(d.name, FALSE, known, all) /\ PointersWide(all)
  BY <1>1, <1>3, <1>4, DefinedParts
<1> HIDE DEF known, all, symbol
<1>8. /\ all \in Seq(SymbolType) /\ Len(all) = m /\ all[symbol] \in SymbolType
  BY <1>6 DEF Table
<1>9. all[symbol].size = SizeOf(d.name)
  BY <1>7 DEF Declares, symbol
<1>10. new.target # 0 => PointerSize <= SizeOf(d.name)
  <2>1. CASE d.init = "none"
    <3>1. new = all[symbol].initializer
      BY <2>1
    <3> HIDE DEF new
    <3> QED
      BY <1>6, <1>7, <1>9, <3>1 DEF PointersWide
  <2>2. CASE d.init = "plain"
    <3>1. new = Plain
      BY <2>2
    <3> HIDE DEF new
    <3> QED
      BY <3>1 DEF Plain
  <2>3. CASE d.init = "address"
    BY <1>5, <2>3
  <2> QED
    BY <1>4, <2>1, <2>2, <2>3
<1> HIDE DEF new
<1>11. /\ s.name = all[symbol].name /\ s.function = all[symbol].function
       /\ s.size = all[symbol].size /\ s.initializer = new
  BY <1>8 DEF SymbolType
<1> HIDE DEF s
<1>12. /\ Len(symbols') = m /\ symbols'[symbol] = s
       /\ \A i \in 1..m : i # symbol => symbols'[i] = all[i]
  BY <1>2, <1>6, <1>8
<1>13. \A i \in 1..m : Alike(symbols'[i], all[i])
  BY <1>11, <1>12 DEF Alike
<1>14. Declares(d.name, FALSE, known, symbols')
  <2>1. \A i \in 1..m : symbols'[i].name = all[i].name /\ symbols'[i].function = all[i].function
                          /\ symbols'[i].size = all[i].size
    BY <1>13 DEF Alike
  <2>2. \A i \in 1..Len(symbols) : i \in 1..m /\ Alike(all[i], symbols[i])
    BY <1>7 DEF Declares
  <2>3. \A i \in 1..Len(symbols) : i \in 1..m /\ Alike(symbols'[i], symbols[i])
    BY <2>1, <2>2 DEF Alike
  <2> HIDE DEF m
  <2> QED
    BY <1>6, <1>7, <1>12, <2>1, <2>3 DEF Declares, m, symbol
<1>15. PointersWide(symbols')
  <2>1. ASSUME NEW i \in 1..m, symbols'[i].initializer.target # 0
        PROVE  PointerSize <= symbols'[i].size
    <3>1. CASE i = symbol
      <4>1. symbols'[i] = s
        BY <1>12, <3>1
      <4>2. new.target # 0
        BY <1>11, <2>1, <4>1
      <4> QED
        BY <1>9, <1>10, <1>11, <4>1, <4>2
    <3>2. CASE i # symbol
      BY <1>7, <1>12, <2>1, <3>2 DEF PointersWide
    <3> QED
      BY <3>1, <3>2
  <2> QED
    BY <1>12, <2>1 DEF PointersWide
<1>16. \/ globals' = globals
       \/ ~FALSE /\ globals' = AddGlobal(globals, Number(d.name))
  BY <1>1 DEF symbol
<1> QED
  BY <1>1, <1>4, <1>14, <1>15, <1>16, MoreDeclared

\* A prototype.
LEMMA MorePrototype ==
  ASSUME OwnNamesApart, UnitInv, UnitInv', MoreInv, stage = "declarations", stage' = stage,
         NEW d \in Declarations, DeclareFunction(d)
  PROVE  MoreInv'
<1>1. /\ symbols' = Defined(d.name, TRUE, d.storage, FALSE)
      /\ scope' = Put(scope, d.name, Number(d.name))
      /\ ~Conflict(d.name, TRUE, FALSE)
      /\ globals' = globals /\ counters' = counters /\ builder' = builder
  BY DEF DeclareFunction
<1>2. /\ Len(symbols) \in Nat /\ Table(symbols, Len(symbols)) /\ Scoped(scope, symbols)
      /\ ScopeSound(scope, symbols) /\ PointersWide(symbols)
  BY Between
<1>3. /\ d.name \in Names /\ SizeOf(d.name) \in Positive /\ d.storage \in Storages
      /\ FALSE \in BOOLEAN /\ TRUE \in BOOLEAN /\ ~OwnName(d.name)
  BY DeclarationTyped DEF OwnNamesApart
<1>4. Declares(d.name, TRUE, scope', symbols') /\ PointersWide(symbols')
  BY <1>1, <1>2, <1>3, DefinedParts
<1> QED
  BY <1>1, <1>3, <1>4, MoreDeclared

\* A function, with its code.
LEMMA MoreFunction ==
  ASSUME OwnNamesApart, UnitInv, MoreInv, stage = "declarations", stage' = stage,
         NEW d \in Declarations, DefineFunction(d)
  PROVE  MoreInv'
<1> DEFINE n == Len(symbols)
           name == d.name
           function == Number(name)
           known == Put(scope, name, function)
           all == Defined(name, TRUE, d.storage, TRUE)
           k == Len(all)
           read == ReadBody(d, all, known)
           more == read.symbols
           m == Len(more)
           added == read.statics \o read.literals
<1>1. /\ d.kind = "function" /\ Resolves(d.body, known) /\ ~Conflict(name, TRUE, TRUE)
      /\ scope' = known /\ symbols' = more /\ counters' = read.counters
      /\ globals' = AddGlobals(globals, added)
      /\ builder' = Encoded(function, read.uses, more)
  BY DEF DefineFunction
<1>2. /\ n \in Nat /\ Table(symbols, n) /\ Scoped(scope, symbols) /\ symbols \in Seq(SymbolType)
      /\ globals \in Seq(1..n) /\ counters \in CountersType /\ main \in 0..n
      /\ builder \in BuilderType(n) /\ ScopeSound(scope, symbols) /\ Sound(symbols, counters)
      /\ PointersWide(symbols) /\ Origins(globals, scope, symbols)
      /\ EarlyBuilder(builder, symbols, FunctionNames(scope, symbols))
  BY Between
<1>3. /\ name \in Names /\ SizeOf(name) \in Positive /\ d.storage \in Storages
      /\ ItemsTyped(d.body) /\ TRUE \in BOOLEAN /\ ~OwnName(name)
  BY <1>1, DeclarationTyped DEF OwnNamesApart
<1> HIDE DEF n, name
<1>4. /\ k \in Nat /\ n <= k /\ Table(all, k) /\ function \in 1..k /\ Scoped(known, all)
  BY <1>2, <1>3, DefinedTable
<1>5. Declares(name, TRUE, known, all) /\ PointersWide(all)
  BY <1>1, <1>2, <1>3, DefinedParts
<1> HIDE DEF known, all
<1>6. /\ Sound(all, counters) /\ ScopeSound(known, all)
      /\ FunctionNames(scope, symbols) \subseteq FunctionNames(known, all)
      /\ name \in FunctionNames(known, all)
      /\ \A g \in 1..n : Origin(g, scope, symbols) => Origin(g, known, all)
  BY <1>2, <1>3, <1>5, DeclaredSound
<1>7. \A i \in 1..n : i \in 1..k /\ all[i].name = symbols[i].name
  BY <1>5 DEF Declares, Alike, n
<1> HIDE DEF function, k
<1>8. /\ known \in Partial(1..k) /\ \A x \in DOMAIN known : known[x] \in 1..k
      /\ \A x \in DOMAIN known : all[known[x]].name = x
  BY <1>4, PartialDef DEF Scoped, k
<1>9. GoodBody(read, all, known, d.body, Len(d.body)) /\ read.counters \in CountersType
  BY <1>1, <1>2, <1>3, <1>4, <1>8, ReadBodyGood
<1>10. SoundBody(read)
  BY <1>1, <1>2, <1>3, <1>4, <1>6, <1>8, ReadBodySound
<1> HIDE DEF read
<1>11. /\ m \in Nat /\ k <= m /\ Table(more, m) /\ \A i \in 1..k : more[i] = all[i]
       /\ read.uses \in Seq(1..m) /\ read.statics \in Seq(1..m) /\ read.literals \in Seq(1..m)
       /\ more \in Seq(SymbolType)
  <2>1. m \in Nat /\ more \in Seq(SymbolType)
    BY <1>9 DEF GoodBody, BodyType
  <2> QED
    BY <1>9, <2>1 DEF GoodBody, k
<1>12. /\ Sound(more, read.counters) /\ OwnAll(more, read.statics) /\ OwnAll(more, read.literals)
  BY <1>10 DEF SoundBody
<1> HIDE DEF more, m
<1>13. /\ ScopeSound(known, more) /\ FunctionNames(known, more) = FunctionNames(known, all)
       /\ \A g \in 1..k : Origin(g, known, all) => Origin(g, known, more)
  <2>1. /\ k \in Nat /\ \A i \in 1..k : more[i] = all[i]
        /\ \A x \in DOMAIN known : known[x] \in 1..k
        /\ ScopeSound(known, all)
    BY <1>4, <1>6, <1>8, <1>11
  <2>2. ScopeSound(known, more)
    BY <2>1 DEF ScopeSound
  <2>3. FunctionNames(known, more) = FunctionNames(known, all)
    BY <2>1 DEF FunctionNames
  <2>4. \A g \in 1..k : Origin(g, known, all) => Origin(g, known, more)
    BY <2>1 DEF Origin
  <2> QED
    BY <2>2, <2>3, <2>4
<1>14. \A i \in 1..n : i \in 1..m /\ i \in 1..k /\ more[i].name = symbols[i].name
  <2> SUFFICES ASSUME NEW i \in 1..n
               PROVE  i \in 1..m /\ i \in 1..k /\ more[i].name = symbols[i].name
    OBVIOUS
  <2>1. i \in 1..k /\ all[i].name = symbols[i].name
    BY <1>7
  <2>2. more[i] = all[i] /\ i \in 1..m
    BY <1>4, <1>11, <2>1
  <2> QED
    BY <2>1, <2>2
<1>15. EarlyBuilder(builder, more, FunctionNames(known, more))
  BY <1>2, <1>6, <1>11, <1>13, <1>14, EarlyCarried DEF n, m
<1>16. builder \in BuilderType(m)
  <2>1. n <= m
    BY <1>2, <1>4, <1>11
  <2> QED
    BY <1>2, <1>11, <2>1, BuilderMore
<1>17. function \in 1..m /\ more[function].name = name
  <2>1. all[function].name = name
    BY <1>5 DEF Declares, function
  <2> QED
    BY <1>4, <1>11, <2>1
<1>18. EarlyBuilder(Encoded(function, read.uses, more), more, FunctionNames(known, more))
  <2>1. more[function].name \in FunctionNames(known, more)
    BY <1>6, <1>13, <1>17
  <2> QED
    BY <1>11, <1>15, <1>16, <1>17, <2>1, EncodedEarly
<1>19. Origins(globals, known, more) /\ globals \in Seq(1..m)
  <2> DEFINE list == globals
             S == 1..n
             T == 1..m
  <2>1. list \in Seq(S) /\ S \subseteq T
    BY <1>2, <1>14
  <2> HIDE DEF list, S, T
  <2>2. list \in Seq(T)
    BY <2>1
  <2>3. \A i \in 1..Len(list) : list[i] \in S
    BY <2>1
  <2>4. \A i \in 1..Len(globals) : globals[i] \in 1..n /\ globals[i] \in 1..k
    BY <1>14, <2>3 DEF list, S
  <2>5. Origins(globals, known, more)
    BY <1>2, <1>6, <1>13, <2>4 DEF Origins
  <2> QED
    BY <2>2, <2>5 DEF list, T
<1>20. Origins(added, known, more) /\ added \in Seq(1..m)
  <2> DEFINE a == read.statics
             b == read.literals
             T == 1..m
  <2>1. a \in Seq(T) /\ b \in Seq(T) /\ added = a \o b
    BY <1>11
  <2>2. OwnAll(more, a) /\ OwnAll(more, b)
    BY <1>12
  <2> HIDE DEF a, b, T, added
  <2>3. /\ added \in Seq(T) /\ Len(added) = Len(a) + Len(b)
        /\ \A i \in 1..Len(added) : added[i] = IF i <= Len(a) THEN a[i] ELSE b[i - Len(a)]
    BY <2>1
  <2>4. ASSUME NEW i \in 1..Len(added) PROVE OwnName(more[added[i]].name)
    <3>1. Len(a) \in Nat /\ Len(b) \in Nat
      BY <2>1
    <3>2. CASE i <= Len(a)
      <4>1. i \in 1..Len(a) /\ added[i] = a[i]
        BY <2>3, <3>1, <3>2
      <4> QED
        BY <2>2, <4>1 DEF OwnAll
    <3>3. CASE ~(i <= Len(a))
      <4>1. i - Len(a) \in 1..Len(b) /\ added[i] = b[i - Len(a)]
        BY <2>3, <3>1, <3>3
      <4> QED
        BY <2>2, <4>1 DEF OwnAll
    <3> QED
      BY <3>2, <3>3
  <2>5. Origins(added, known, more)
    BY <2>4 DEF Origins, Origin
  <2> QED
    BY <2>3, <2>5 DEF T
<1> HIDE DEF added
<1>21. Origins(AddGlobals(globals, added), known, more)
  BY <1>11, <1>19, <1>20, OriginsAddAll
<1>22. /\ Sound(symbols', counters') /\ ScopeSound(scope', symbols')
       /\ Origins(globals', scope', symbols')
       /\ EarlyBuilder(builder', symbols', FunctionNames(scope', symbols'))
  BY <1>1, <1>12, <1>13, <1>18, <1>21
<1>23. stage' = "declarations"
  OBVIOUS
<1> QED
  BY <1>22, <1>23 DEF MoreInv

\* The end of the unit.
LEMMA MoreFinish ==
  ASSUME UnitInv, MoreInv, Finish
  PROVE  MoreInv'
<1>1. CASE Refuse
  BY <1>1 DEF Refuse, MoreInv
<1>2. CASE /\ stage' = "encoded" /\ builder' = Provided(Emitted(Prepared)).builder
           /\ UNCHANGED <<symbols, scope, globals, counters>>
  <2>1. stage = "declarations"
    BY DEF Finish
  <2>2. /\ Len(symbols) \in Nat /\ Table(symbols, Len(symbols)) /\ Scoped(scope, symbols)
        /\ globals \in Seq(1..Len(symbols)) /\ main \in 0..Len(symbols)
        /\ builder \in BuilderType(Len(symbols))
        /\ ScopeSound(scope, symbols) /\ Sound(symbols, counters) /\ PointersWide(symbols)
        /\ Origins(globals, scope, symbols)
        /\ EarlyBuilder(builder, symbols, FunctionNames(scope, symbols))
    BY <2>1, Between
  <2>3. claims.placed \in Partial(PlaceType) /\ PlacedIn(builder, claims.placed)
    BY DEF UnitInv, Placed
  <2>4. GlobalsApart(FunctionNames(scope, symbols))
    BY <2>2, ApartGlobals
  <2>5. FinalBuilder(Provided(Emitted(Prepared)).builder)
    BY <2>2, <2>3, <2>4, FinishedFinal
  <2> DEFINE b == Provided(Emitted(Prepared)).builder
  <2>6. FinalBuilder(b) /\ builder' = b
    BY <1>2, <2>5
  <2> HIDE DEF b
  <2>7. FinalBuilder(builder)' 
    BY <1>2, <2>6 DEF FinalBuilder, Final
  <2>8. /\ Sound(symbols', counters') /\ ScopeSound(scope', symbols')
        /\ Origins(globals', scope', symbols')
    BY <1>2, <2>2
  <2>9. stage' = "encoded"
    BY <1>2
  <2> QED
    BY <2>7, <2>8, <2>9 DEF MoreInv
<1> QED
  BY <1>1, <1>2 DEF Finish

\* Each declaration, the end of the unit, and the file.
LEMMA MoreStep ==
  ASSUME OwnNamesApart
  PROVE  UnitInv /\ UnitInv' /\ MoreInv /\ [Next]_vars => MoreInv'
<1> SUFFICES ASSUME UnitInv, UnitInv', MoreInv, [Next]_vars PROVE MoreInv'
  OBVIOUS
<1>1. CASE Declare
  <2>1. PICK d \in Declarations :
          \/ /\ DeclareObject(d) \/ DeclareFunction(d) \/ DefineFunction(d)
             /\ declared' = declared + 1
             /\ UNCHANGED <<stage, file>>
          \/ Refused(d) /\ Refuse
    BY <1>1 DEF Declare
  <2>2. CASE Refuse
    BY <2>2 DEF Refuse, MoreInv
  <2>3. CASE /\ DeclareObject(d) \/ DeclareFunction(d) \/ DefineFunction(d)
             /\ declared' = declared + 1 /\ UNCHANGED <<stage, file>>
    <3>1. stage = "declarations" /\ stage' = stage
      BY <1>1, <2>3 DEF Declare
    <3> QED
      BY <2>3, <3>1, MoreObject, MorePrototype, MoreFunction
  <2> QED
    BY <2>1, <2>2, <2>3
<1>2. CASE Finish
  BY <1>2, MoreFinish
<1>3. CASE Write
  <2>1. CASE Refuse
    BY <2>1 DEF Refuse, MoreInv
  <2>2. CASE /\ stage = "encoded" /\ Writable(builder)
             /\ stage' = "written" /\ file' = Written(builder)
             /\ UNCHANGED <<declared, symbols, scope, globals, counters, main, builder, claims>>
    <3>1. FinalBuilder(builder)
      BY <2>2 DEF MoreInv
    <3>2. FinalBuilder(builder)'
      BY <2>2, <3>1 DEF FinalBuilder, Final
    <3> QED
      BY <2>2, <3>2 DEF MoreInv
  <2> QED
    BY <1>3, <2>1, <2>2 DEF Write
<1>4. CASE UNCHANGED vars
  <2>1. FinalBuilder(builder) => FinalBuilder(builder)'
    BY <1>4 DEF vars, FinalBuilder, Final
  <2> QED
    BY <1>4, <2>1 DEF vars, MoreInv
<1> QED
  BY <1>1, <1>2, <1>3, <1>4 DEF Next
-----------------------------------------------------------------------------
(* The object that is read *)

\* Every name the compiler writes is a string.
NamesSpelled == Names \cup ToSet(SectionNames) \cup {Empty, Triple} \subseteq Spelled

\* A function of three places is a sequence of length three.
LEMMA ThreeLong ==
  ASSUME NEW S, NEW f \in [1..3 -> S]
  PROVE  f \in Seq(S) /\ Len(f) = 3
<1>1. f \in Seq(S)
  BY SeqDef
<1>2. DOMAIN f = 1..Len(f) /\ Len(f) \in Nat
  BY <1>1, LenProperties
<1>3. DOMAIN f = 1..3
  OBVIOUS
<1>4. 1..Len(f) = 1..3
  BY <1>2, <1>3
<1> DEFINE k == Len(f)
<1>5. k \in Nat /\ 1..k = 1..3
  BY <1>2, <1>4
<1> HIDE DEF k
<1>6. k = 3
  <2>1. \A j : j \in 1..k <=> j \in 1..3
    BY <1>5
  <2>2. 3 \in 1..k /\ ~(4 \in 1..k)
    BY <2>1
  <2> QED
    BY <1>5, <2>2
<1> QED
  BY <1>1, <1>6 DEF k

\* A finished builder fits its file, if its sections do.
LEMMA FinalFits ==
  ASSUME NamesSpelled, NEW n \in Nat, NEW b \in BuilderType(n), Fixed(b),
         b.sections[TextSection].size <= MaxPayload, b.sections[DataSection].size <= MaxPayload,
         b.sections[BssSection].size <= WordMax
  PROVE  Fitting(b)
<1>1. /\ b.sections \in [1..3 -> SectionType] /\ b.records \in Seq(RecordType(n))
      /\ \A s \in 1..3 : b.sections[s] \in SectionType /\ b.sections[s].size \in Nat
  BY SectionsTyped
<1>2. SectionType \subseteq FileSections
  <2>1. RelocType \subseteq FileRelocs
    BY DEF RelocType, FileRelocs, NamesSpelled, Pc32, Data64
  <2>2. Seq(RelocType) \subseteq Seq(FileRelocs)
    BY <2>1
  <2>3. ToSet(SectionNames) \subseteq Spelled /\ Kinds \subseteq Nat
    BY DEF NamesSpelled, Kinds
  <2> QED
    BY <2>2, <2>3 DEF SectionType, FileSections
<1>3. RecordType(n) \subseteq FileRecords(3)
  BY DEF RecordType, FileRecords, NamesSpelled
<1>4. b.sections \in Seq(FileSections) /\ Len(b.sections) = 3
  <2> DEFINE sections == b.sections
  <2>1. sections \in [1..3 -> SectionType]
    BY <1>1
  <2> HIDE DEF sections
  <2>2. sections \in [1..3 -> FileSections]
    <3>1. \A s \in 1..3 : sections[s] \in SectionType
      BY <2>1
    <3>2. \A s \in 1..3 : sections[s] \in FileSections
      BY <1>2, <3>1
    <3>3. sections = [s \in 1..3 |-> sections[s]]
      BY <2>1
    <3> QED
      BY <3>2, <3>3
  <2>3. sections \in Seq(FileSections) /\ Len(sections) = 3
    BY <2>2, ThreeLong
  <2> QED
    BY <2>3 DEF sections
<1>5. b.records \in Seq(FileRecords(3))
  BY <1>1, <1>3
<1>6. 3 \in 1..WordMax /\ WordMax \in Nat /\ MaxPayload \in Nat /\ MaxPayload <= WordMax
  BY UnitAssumption, ObjectFileAssumption
<1>7. ASSUME NEW s \in 1..3
      PROVE  /\ b.sections[s].size <= WordMax
             /\ HasPayload(b.sections[s]) => b.sections[s].size <= MaxPayload
  <2>1. /\ b.sections[1].size <= MaxPayload /\ b.sections[2].size <= MaxPayload
        /\ b.sections[3].size <= WordMax /\ b.sections[3].kind = Bss
    BY DEF Fixed, TextSection, DataSection, BssSection
  <2>2. s = 1 \/ s = 2 \/ s = 3
    OBVIOUS
  <2>3. b.sections[s].size \in Nat
    BY <1>1
  <2> QED
    BY <1>6, <2>1, <2>2, <2>3 DEF HasPayload
<1>8. {Empty, Triple} \subseteq Spelled
  BY DEF NamesSpelled
<1> QED
  BY <1>4, <1>5, <1>6, <1>7, <1>8 DEF Fitting

\* The linker's checks find nothing in what is read of it.
LEMMA FinalAccepted ==
  ASSUME NEW n \in Nat, NEW b \in BuilderType(n), Len(b.sections) = 3, FinalBuilder(b),
         NEW object, ReadAs(b, object)
  PROVE  Accepted(object)
<1> DEFINE sections == object.sections
           marks == object.symbols
           k == Len(b.records)
<1>1. /\ k \in Nat /\ \A s \in 1..3 : b.sections[s] \in SectionType /\ b.sections[s].size \in Nat
      /\ \A i \in 1..k : b.records[i] \in RecordType(n) /\ b.records[i] \in Final(Sizes(b))
  BY SectionsTyped DEF FinalBuilder, Holds
<1>2. /\ Fixed(b)
      /\ \A s \in 1..3 : \A r \in 1..Len(b.sections[s].relocs) :
           /\ HasOwner(b, b.sections[s].relocs[r])
           /\ b.sections[s].relocs[r].offset + Width(b.sections[s].relocs[r].type)
                <= b.sections[s].size
  BY SizesAre DEF FinalBuilder, Frame
<1>3. PICK p : Permutes(p, k) /\ Len(marks) = k
               /\ \A i \in 1..k : SymbolRead(b.records[p[i]], marks[i])
  BY DEF ReadAs, SymbolsMatch
<1>4. \A i \in 1..k : p[i] \in 1..k
  BY <1>3 DEF Permutes, Bijection, Injection, Surjection, IsInjective
<1>5. Len(sections) = 3 /\ \A s \in 1..3 : SectionMatches(b, object, s)
  BY DEF ReadAs
<1>6. \A s \in 1..3 : /\ sections[s].name = b.sections[s].name
                      /\ sections[s].kind = b.sections[s].kind
                      /\ sections[s].align = b.sections[s].align
                      /\ sections[s].size = b.sections[s].size
                      /\ \E q : RelocsMatch(b, object, s, q)
  BY <1>5 DEF SectionMatches
<1>7. ASSUME NEW s \in 1..3
      PROVE  /\ SectionAccepted(sections[s])
             /\ \A t \in 1..(s - 1) : sections[t].name # sections[s].name
             /\ \A r \in 1..Len(sections[s].relocs) :
                  RelocAccepted(object, sections[s], sections[s].relocs[r])
  <2>1. SectionAccepted(sections[s])
    <3>1. /\ b.sections[1].kind = 0 /\ b.sections[1].align = 16
          /\ b.sections[2].kind = 2 /\ b.sections[2].align = 8
          /\ b.sections[3].kind = 3 /\ b.sections[3].align = 8
      BY <1>2 DEF Fixed, TextSection, DataSection, BssSection, Text, Data, Bss
    <3>2. s = 1 \/ s = 2 \/ s = 3
      OBVIOUS
    <3>3. /\ sections[s].kind \in {0, 2, 3} /\ sections[s].align \in {8, 16}
          /\ sections[s].kind = 0 => sections[s].align = 16
      BY <1>6, <3>1, <3>2
    <3> QED
      BY <3>3 DEF SectionAccepted, Kinds, Alignments, Text, ReadOnly
  <2>2. \A t \in 1..(s - 1) : sections[t].name # sections[s].name
    <3>1. \A t \in 1..(s - 1) : t \in 1..3 /\ t # s
      OBVIOUS
    <3>2. \A t, u \in 1..3 : t # u => SectionNames[t] # SectionNames[u]
      BY UnitAssumption
    <3>3. \A t \in 1..3 : sections[t].name = SectionNames[t]
      BY <1>2, <1>6 DEF Fixed
    <3> QED
      BY <3>1, <3>2, <3>3
  <2>3. ASSUME NEW r \in 1..Len(sections[s].relocs)
        PROVE  RelocAccepted(object, sections[s], sections[s].relocs[r])
    <3> DEFINE m == Len(b.sections[s].relocs)
    <3>1. PICK q : RelocsMatch(b, object, s, q)
      BY <1>6
    <3>2. /\ Permutes(q, m) /\ Len(sections[s].relocs) = m
          /\ \A i \in 1..m : RelocRead(b, b.sections[s].relocs[q[i]], object, sections[s].relocs[i])
      BY <3>1 DEF RelocsMatch
    <3>3. r \in 1..m /\ q[r] \in 1..m
      BY <3>2 DEF Permutes, Bijection, Injection, Surjection, IsInjective
    <3> DEFINE reloc == b.sections[s].relocs[q[r]]
               entry == sections[s].relocs[r]
    <3>4. /\ RelocRead(b, reloc, object, entry) /\ HasOwner(b, reloc)
          /\ reloc.offset + Width(reloc.type) <= b.sections[s].size
      BY <1>2, <3>2, <3>3
    <3>5. reloc.type \in {Pc32, Data64}
      <4> DEFINE relocs == b.sections[s].relocs
      <4>1. relocs \in Seq(RelocType)
        BY <1>1 DEF SectionType
      <4>2. q[r] \in 1..Len(relocs)
        BY <3>3
      <4> HIDE DEF relocs
      <4>3. relocs[q[r]] \in RelocType
        BY <4>1, <4>2
      <4> QED
        BY <4>3 DEF relocs, RelocType
    <3> HIDE DEF reloc, entry, m
    <3>6. /\ entry.offset = reloc.offset /\ entry.type = reloc.type
          /\ entry.symbol \in 1..Len(object.symbols)
      BY <3>4 DEF RelocRead, HasOwner
    <3>7. entry.type \in Abs32..Data64
      BY <3>5, <3>6 DEF Abs32, Pc32, Data64
    <3>8. entry.offset + Width(entry.type) <= sections[s].size
      BY <1>6, <3>4, <3>6
    <3>9. RelocAccepted(object, sections[s], entry)
      BY <3>6, <3>7, <3>8 DEF RelocAccepted
    <3> QED
      BY <3>9 DEF entry
  <2> QED
    BY <2>1, <2>2, <2>3
<1>8. ASSUME NEW i \in 1..k PROVE SymbolAccepted(object, marks[i])
  <2> DEFINE record == b.records[p[i]]
             symbol == marks[i]
  <2>1. record \in RecordType(n) /\ record \in Final(Sizes(b)) /\ SymbolRead(record, symbol)
    BY <1>1, <1>3, <1>4
  <2> HIDE DEF record, symbol
  <2>2. /\ record.value \in Nat /\ record.size \in Nat /\ record.section \in 0..3
        /\ record.kind \in {Function, Object}
        /\ \A s \in 1..3 : record.section = s => record.value + record.size <= Sizes(b)[s]
    BY <2>1 DEF Final, RecordType
  <2>3. /\ symbol.value = record.value /\ symbol.section = record.section
        /\ symbol.kind = record.kind /\ symbol.size = record.size
    BY <2>1 DEF SymbolRead
  <2>4. ASSUME symbol.section # 0
        PROVE  /\ sections[symbol.section].size - symbol.value >= 0
               /\ symbol.size <= sections[symbol.section].size - symbol.value
    <3> DEFINE size == sections[symbol.section].size
    <3>1. symbol.section \in 1..3 /\ symbol.section = record.section
      BY <2>2, <2>3, <2>4
    <3>2. /\ record.value + record.size <= Sizes(b)[symbol.section]
          /\ Sizes(b)[symbol.section] = b.sections[symbol.section].size
          /\ size = b.sections[symbol.section].size
      BY <1>6, <2>2, <3>1, SizesAre
    <3>3. size \in Nat
      BY <1>1, <3>1, <3>2
    <3>4. record.value + record.size <= size
      BY <3>2
    <3> HIDE DEF size
    <3>5. size - symbol.value >= 0 /\ symbol.size <= size - symbol.value
      BY <2>2, <2>3, <3>3, <3>4
    <3> QED
      BY <3>5 DEF size
  <2>5. symbol.kind \in NoType..Common /\ symbol.section \in 0..3
    BY <2>2, <2>3 DEF NoType, Common, Function, Object
  <2>6. SymbolAccepted(object, symbol)
    BY <1>5, <2>4, <2>5 DEF SymbolAccepted
  <2> QED
    BY <2>6 DEF symbol
<1> QED
  BY <1>3, <1>5, <1>7, <1>8 DEF Accepted
-----------------------------------------------------------------------------
(* ReadBack *)

\* Where the records, and where the symbols that are read, say this.
RecordsOf(b, symbol) == {i \in 1..Len(b.records) : Record(b.records[i]) = symbol}
MarksOf(object, symbol) == {i \in 1..Len(object.symbols) : Record(object.symbols[i]) = symbol}

\* As many symbols are read that say a thing as there are records that say it.
LEMMA AsMany ==
  ASSUME NEW b, NEW object, NEW p, SymbolsMatch(b, object, p), Len(b.records) \in Nat, NEW symbol
  PROVE  Cardinality(RecordsOf(b, symbol)) = Cardinality(MarksOf(object, symbol))
<1> DEFINE n == Len(b.records)
           A == RecordsOf(b, symbol)
           B == MarksOf(object, symbol)
           f == [i \in B |-> p[i]]
<1>1. /\ p \in [1..n -> 1..n] /\ Len(object.symbols) = n
      /\ \A i, j \in 1..n : p[i] = p[j] => i = j
      /\ \A j \in 1..n : \E i \in 1..n : p[i] = j
  BY DEF SymbolsMatch, Permutes, Bijection, Injection, Surjection, IsInjective
<1>2. \A i \in 1..n : Record(b.records[p[i]]) = Record(object.symbols[i])
  BY DEF SymbolsMatch, SymbolRead, Record
<1>3. /\ B \subseteq 1..n /\ A \subseteq 1..n
      /\ \A i \in 1..n : i \in B <=> p[i] \in A
  BY <1>1, <1>2 DEF RecordsOf, MarksOf
<1> HIDE DEF A, B
<1>4. f \in Bijection(B, A)
  <2>1. f \in [B -> A]
    BY <1>1, <1>3
  <2>2. \A i, j \in B : f[i] = f[j] => i = j
    BY <1>1, <1>3
  <2>3. \A j \in A : \E i \in B : f[i] = j
    BY <1>1, <1>3
  <2> QED
    BY <2>1, <2>2, <2>3 DEF Bijection, Injection, Surjection, IsInjective
<1>5. ExistsBijection(B, A)
  BY <1>4 DEF ExistsBijection
<1>6. IsFiniteSet(B)
  <2>1. IsFiniteSet(1..n)
    BY FS_Interval
  <2> QED
    BY <1>3, <2>1, FS_Subset
<1>7. Cardinality(A) = Cardinality(B)
  BY <1>5, <1>6, FS_Bijection
<1> QED
  BY <1>7 DEF A, B

\* A finished builder that was written is read back.
LEMMA FinalReadsBack ==
  ASSUME NamesSpelled, UnitInv, MoreInv, builder.sections[BssSection].size <= WordMax
  PROVE  ReadBack
<1> SUFFICES ASSUME stage = "written" PROVE ReadBack
  BY DEF ReadBack
<1> DEFINE n == Len(symbols)
           object == Read(file)
<1>1. n \in Nat /\ builder \in BuilderType(n) /\ Bounded
  BY DEF UnitInv, Table
<1>2. FinalBuilder(builder) /\ file = Written(builder) /\ Writable(builder)
  BY DEF MoreInv
<1>3. Fixed(builder)
  BY <1>2 DEF FinalBuilder, Frame
<1>4. Fitting(builder)
  BY <1>1, <1>3, FinalFits DEF Bounded
<1>5. Readable(file) /\ ReadAs(builder, object)
  BY <1>2, <1>4, FileReadsBack
<1>6. Len(builder.sections) = 3 /\ Len(builder.records) \in Nat
  <2>1. builder.sections \in [1..3 -> SectionType] /\ builder.records \in Seq(RecordType(n))
    BY <1>1, SectionsTyped
  <2>2. Len(builder.sections) = 3
    BY <2>1, ThreeLong
  <2> QED
    BY <2>1, <2>2
<1> HIDE DEF object, n
<1>7. Accepted(object)
  BY <1>1, <1>2, <1>5, <1>6, FinalAccepted
<1>8. \A s \in 1..Len(builder.sections) :
        /\ object.sections[s].name = builder.sections[s].name
        /\ object.sections[s].kind = builder.sections[s].kind
        /\ object.sections[s].size = builder.sections[s].size
  BY <1>5 DEF ReadAs, SectionMatches
<1>9. \A symbol : Cardinality(RecordsOf(builder, symbol)) = Cardinality(MarksOf(object, symbol))
  <2>1. PICK p : SymbolsMatch(builder, object, p)
    BY <1>5 DEF ReadAs
  <2> QED
    BY <1>6, <2>1, AsMany
<1> QED
  BY <1>5, <1>7, <1>8, <1>9 DEF ReadBack, RecordsOf, MarksOf, object

\* What the compiler writes the linker reads, whatever the unit declares and however
\* much of it there is: the file passes every check of read_object_file and has the
\* sections and the symbols of the unit. It is so when the names the compiler makes
\* up for statics and literals are its own, and while .bss, whose size
\* object_write_cc64o takes to the width of the field unchecked, fits it: ReadBack.
THEOREM UnitReadsBack ==
  ASSUME NamesSpelled, OwnNamesApart
  PROVE  Spec => [](builder.sections[BssSection].size <= WordMax => ReadBack)
<1> DEFINE Both == UnitInv /\ MoreInv
<1>1. Init => Both
  BY UnitInit, MoreInit
<1>2. Both /\ [Next]_vars => Both'
  BY UnitStep, MoreStep
<1>3. Both => (builder.sections[BssSection].size <= WordMax => ReadBack)
  BY FinalReadsBack
<1> HIDE DEF Both
<1> QED
  BY <1>1, <1>2, <1>3, PTL DEF Spec
-----------------------------------------------------------------------------
(* What a unit keeps of its definitions *)

Tentative(d) == d.kind = "object" /\ d.init = "none" /\ d.storage # "extern"
Defining(d) == d.kind = "function" \/ (d.kind = "object" /\ d.init # "none") \/ Tentative(d)

\* What C allows and the compiler gets right: a name keeps to one linkage, one that
\* is announced has no tentative definition, and what a block announces is defined
\* in another unit.
Coherent ==
  \A d, e \in Declarations :
    /\ d.name = e.name => (d.storage = "static" <=> e.storage = "static")
    /\ d.name = e.name /\ Tentative(d) => e.storage # "extern"
    /\ Defining(d) /\ e.kind = "function" => d.name \notin ExternNames(e)

\* Names that only one Symbol may have, and those with internal linkage.
Lone(x) == OwnName(x) \/ \E d \in Declarations : Defining(d) /\ d.name = x
StaticName(x) == \E d \in Declarations : d.name = x /\ d.storage = "static"

\* A Symbol of such a name is the one in scope.
Only(all, known) ==
  \A i \in 1..Len(all) :
    LET x == all[i].name IN
    Lone(x) => OwnName(x) \/ (x \in DOMAIN known /\ known[x] = i)

\* What C makes of linkage is what the Symbols say.
Linked(all, known, c) ==
  /\ c.seen = DOMAIN known
  /\ \A x \in DOMAIN known :
       /\ all[known[x]].internal = StaticName(x) /\ (x \in c.internal <=> StaticName(x))
       /\ \E d \in Declarations : d.name = x /\ d.storage = all[known[x]].storage
  /\ \A x \in c.internal : x \in DOMAIN known \/ OwnName(x)

\* What has storage was defined, and not only announced.
StoredAt(g, all, c) ==
  LET s == all[g] IN
  /\ s.name \in c.owed
  /\ OwnName(s.name) => s.name \in c.internal
  /\ \/ s.initializer.set \/ OwnName(s.name)
     \/ \E d \in Declarations : Tentative(d) /\ d.name = s.name
Stored(list, all, c) == \A g \in ToSet(list) : StoredAt(g, all, c)

\* Objects of the compiler's own are seen by no other unit.
OwnStatic(all) ==
  \A i \in 1..Len(all) :
    OwnName(all[i].name) => all[i].internal /\ all[i].storage = "static"

\* Such a name has one record at most.
Ones(b) ==
  \A i, j \in 1..Len(b.records) :
    b.records[i].name = b.records[j].name /\ Lone(b.records[i].name) => i = j

\* A record is of a Symbol of its name, or of none.
Sourced(b, all) ==
  \A i \in 1..Len(b.records) :
    LET r == b.records[i] IN
    r.source = 0 \/ (r.source \in 1..Len(all) /\ r.name = all[r.source].name)

\* What is said of a definition is right: where it was put and who may see it.
RowRight(r, placed, c) ==
  /\ r.name \in c.owed /\ r.global = (r.name \notin c.internal)
  /\ r.name \in DOMAIN placed /\ At(r.section, r.value, r.size) = placed[r.name]
RowsRight(b, placed, c) ==
  \A i \in 1..Len(b.records) : b.records[i].section # 0 => RowRight(b.records[i], placed, c)

HasDefinition(b, x) ==
  \E i \in 1..Len(b.records) : b.records[i].name = x /\ b.records[i].section # 0

Owing(b, list, all, c) ==
  \A x \in c.owed :
    Lone(x) /\ (x \in {all[g].name : g \in ToSet(list)} \/ HasDefinition(b, x))

\* A finished builder has one right definition of each name the unit owes.
Kept(b, placed, c) ==
  /\ \A x \in c.owed : \E i \in 1..Len(b.records) :
       /\ b.records[i].name = x /\ b.records[i].section # 0
       /\ RowRight(b.records[i], placed, c)
       /\ \A j \in 1..Len(b.records) : b.records[j].name = x => j = i
  /\ \A i \in 1..Len(b.records) :
       b.records[i].section # 0 => b.records[i].name \in c.owed \cup ToSet(Services)

KeptInv ==
  /\ Only(symbols, scope) /\ Linked(symbols, scope, claims) /\ Stored(globals, symbols, claims)
  /\ OwnStatic(symbols)
  /\ stage = "declarations" =>
       /\ Ones(builder) /\ RowsRight(builder, claims.placed, claims)
       /\ Owing(builder, globals, symbols, claims)
  /\ stage \in {"encoded", "written"} => Kept(builder, claims.placed, claims)
-----------------------------------------------------------------------------
\* No two Symbols share such a name.
OneEach(all) ==
  \A i, j \in 1..Len(all) : all[i].name = all[j].name /\ Lone(all[i].name) => i = j

LEMMA OneSymbol ==
  ASSUME NEW all, NEW known, NEW counts, Only(all, known), Sound(all, counts)
  PROVE  OneEach(all)
<1> SUFFICES ASSUME NEW i \in 1..Len(all), NEW j \in 1..Len(all), all[i].name = all[j].name,
                    Lone(all[i].name)
             PROVE  i = j
  BY DEF OneEach
<1>1. CASE OwnName(all[i].name)
  BY <1>1 DEF Sound
<1>2. CASE ~OwnName(all[i].name)
  BY <1>2 DEF Only
<1> QED
  BY <1>1, <1>2

\* c has the records of b, and perhaps others without a place.
Extended(b, c) ==
  /\ \A j \in 1..Len(b.records) : j \in 1..Len(c.records) /\ c.records[j] = b.records[j]
  /\ \A j \in 1..Len(c.records) : j \in 1..Len(b.records) \/ c.records[j].section = 0

LEMMA ExtendedTwice ==
  ASSUME NEW a, NEW b, NEW c, Extended(a, b), Extended(b, c)
  PROVE  Extended(a, c)
BY DEF Extended

\* What was right stays right when there are more records.
LEMMA ExtendedRight ==
  ASSUME NEW b, NEW c, Extended(b, c)
  PROVE  /\ \A placed, k : RowsRight(b, placed, k) => RowsRight(c, placed, k)
         /\ \A x : HasDefinition(b, x) => HasDefinition(c, x)
<1>1. ASSUME NEW placed, NEW k, RowsRight(b, placed, k) PROVE RowsRight(c, placed, k)
  BY <1>1 DEF Extended, RowsRight
<1>2. ASSUME NEW x, HasDefinition(b, x) PROVE HasDefinition(c, x)
  BY <1>2 DEF Extended, HasDefinition
<1> QED
  BY <1>1, <1>2

\* object_symbol_index makes no second record of a name that has one Symbol.
LEMMA IndexedOnes ==
  ASSUME NEW n \in Nat, NEW b \in BuilderType(n), NEW all, Table(all, n), NEW symbol \in 1..n,
         OneEach(all), Ones(b), Sourced(b, all)
  PROVE  LET c == Indexed(b, symbol, all)
         IN  Ones(c) /\ Sourced(c, all) /\ Extended(b, c)
<1> DEFINE c == Indexed(b, symbol, all)
           name == all[symbol].name
           blank == Blank(symbol, all)
           T == RecordType(n)
           l == Len(b.records)
<1>1. b.records \in Seq(T) /\ Len(all) = n
  BY SectionsTyped DEF Table
<1>2. blank.source = symbol /\ blank.name = name /\ blank.section = 0
  BY DEF Blank
<1> HIDE DEF blank, T
<1>3. CASE Has(b, symbol, all)
  <2>1. c = b
    BY <1>3 DEF Indexed
  <2> HIDE DEF c
  <2>2. Extended(b, c)
    BY <2>1 DEF Extended
  <2> QED
    BY <2>1, <2>2 DEF c
<1>4. CASE ~Has(b, symbol, all)
  <2>1. c.records = Append(b.records, blank)
    <3>1. c = [b EXCEPT !.records = Append(b.records, blank)]
      BY <1>4 DEF Indexed, blank
    <3> QED
      BY <3>1 DEF BuilderType
  <2>2. \A j \in 1..l : ~Owns(b.records[j], symbol, name)
    <3> SUFFICES ASSUME \E j \in 1..l : Owns(b.records[j], symbol, name) PROVE FALSE
      OBVIOUS
    <3>1. Find(b.records, symbol, name) \in 1..l
      BY <1>1, FindOwner
    <3>2. Find(b.records, symbol, name) = 0
      BY <1>4 DEF Has
    <3> QED
      BY <3>1, <3>2
  <2> HIDE DEF c, l
  <2>3. /\ l \in Nat /\ Len(c.records) = l + 1 /\ c.records[l + 1] = blank
        /\ \A j \in 1..l : c.records[j] = b.records[j] /\ j \in 1..(l + 1)
        /\ \A j \in 1..(l + 1) : j \in 1..l \/ j = l + 1
    <3>1. l \in Nat /\ Len(c.records) = l + 1
      BY <1>1, <2>1 DEF l
    <3>2. c.records[l + 1] = blank /\ \A j \in 1..l : c.records[j] = b.records[j]
      BY <1>1, <2>1, <3>1 DEF l
    <3> QED
      BY <3>1, <3>2
  <2>4. Sourced(c, all)
    <3>1. ASSUME NEW j \in 1..Len(c.records)
          PROVE  c.records[j].source = 0
                 \/ (c.records[j].source \in 1..Len(all)
                     /\ c.records[j].name = all[c.records[j].source].name)
      BY <1>1, <1>2, <2>3 DEF Sourced, l, name
    <3> QED
      BY <3>1 DEF Sourced
  <2>5. \A j \in 1..l : Lone(name) => b.records[j].name # name
    <3> SUFFICES ASSUME NEW j \in 1..l, Lone(name), b.records[j].name = name PROVE FALSE
      OBVIOUS
    <3>1. b.records[j].source # symbol /\ b.records[j].source # 0
      BY <2>2 DEF Owns
    <3>2. b.records[j].source \in 1..Len(all) /\ all[b.records[j].source].name = name
      BY <3>1 DEF Sourced, l
    <3> QED
      BY <1>1, <3>1, <3>2 DEF OneEach, name
  <2>6. Ones(c)
    <3> SUFFICES ASSUME NEW i \in 1..Len(c.records), NEW j \in 1..Len(c.records),
                        c.records[i].name = c.records[j].name, Lone(c.records[i].name)
                 PROVE  i = j
      BY DEF Ones
    <3>1. CASE i \in 1..l /\ j \in 1..l
      BY <2>3, <3>1 DEF Ones, l
    <3>2. CASE i = l + 1 /\ j \in 1..l
      BY <1>2, <2>3, <2>5, <3>2
    <3>3. CASE i \in 1..l /\ j = l + 1
      BY <1>2, <2>3, <2>5, <3>3
    <3> QED
      BY <2>3, <3>1, <3>2, <3>3
  <2>7. Extended(b, c)
    BY <1>2, <2>3 DEF Extended, l
  <2> QED
    BY <2>4, <2>6, <2>7 DEF c
<1> QED
  BY <1>3, <1>4

\* Nor does object_add_relocation.
LEMMA RelocatedOnes ==
  ASSUME NEW n \in Nat, NEW b \in BuilderType(n), NEW all, Table(all, n), NEW symbol \in 1..n,
         OneEach(all), Ones(b), Sourced(b, all), NEW s, NEW offset, NEW type
  PROVE  LET c == Relocated(b, s, offset, symbol, type, all)
         IN  Ones(c) /\ Sourced(c, all) /\ Extended(b, c)
<1> DEFINE i == Indexed(b, symbol, all)
           c == Relocated(b, s, offset, symbol, type, all)
<1>1. Ones(i) /\ Sourced(i, all) /\ Extended(b, i)
  BY IndexedOnes
<1>2. c.records = i.records
  <2>1. i \in BuilderType(n)
    BY IndexedType
  <2> HIDE DEF i
  <2> QED
    BY <2>1 DEF Relocated, BuilderType, i
<1> HIDE DEF i, c
<1> QED
  BY <1>1, <1>2 DEF Ones, Sourced, Extended, c

\* Bytes that are added say nothing of a symbol.
LEMMA AppendedRecords ==
  ASSUME NEW n, NEW b \in BuilderType(n), NEW s, NEW size
  PROVE  Appended(b, s, size).records = b.records
BY DEF Appended, BuilderType
-----------------------------------------------------------------------------
\* c has the records of b but for one, which keeps its name and its Symbol.
Rewritten(b, c, i, r) ==
  /\ Len(c.records) = Len(b.records) /\ c.records[i] = r
  /\ \A j \in 1..Len(b.records) : j # i => c.records[j] = b.records[j]
  /\ r.name = b.records[i].name /\ r.source = b.records[i].source

LEMMA RewrittenOnes ==
  ASSUME NEW b, NEW c, NEW i \in 1..Len(b.records), NEW r, Rewritten(b, c, i, r), NEW all,
         Ones(b), Sourced(b, all)
  PROVE  Ones(c) /\ Sourced(c, all)
<1>1. /\ Len(c.records) = Len(b.records)
      /\ \A j \in 1..Len(b.records) : /\ c.records[j].name = b.records[j].name
                                      /\ c.records[j].source = b.records[j].source
  BY DEF Rewritten
<1> QED
  BY <1>1 DEF Ones, Sourced

LEMMA RecordRewritten ==
  ASSUME NEW n \in Nat, NEW b \in BuilderType(n), NEW i \in 1..Len(b.records),
         NEW r \in RecordType(n), r.name = b.records[i].name, r.source = b.records[i].source
  PROVE  Rewritten(b, [b EXCEPT !.records = [b.records EXCEPT ![i] = r]], i, r)
<1> DEFINE c == [b EXCEPT !.records = [b.records EXCEPT ![i] = r]]
<1>1. /\ Len(c.records) = Len(b.records) /\ c.records[i] = r
      /\ \A j \in 1..Len(b.records) : j # i => c.records[j] = b.records[j]
  BY RecordSet
<1> QED
  BY <1>1 DEF Rewritten

\* The first record of a name is found, if there is any.
LEMMA FirstNamedFound ==
  ASSUME NEW T, NEW records \in Seq(T), NEW name, \E j \in 1..Len(records) : records[j].name = name
  PROVE  LET i == FirstNamed(records, name)
         IN  i \in 1..Len(records) /\ records[i].name = name
<1> DEFINE I == {j \in 1..Len(records) : records[j].name = name}
<1>1. FirstNamed(records, name) = IF I # {} THEN Min(I) ELSE 0
  BY DEF FirstNamed, SelectInSeq
<1>2. I # {} /\ I \subseteq Nat
  OBVIOUS
<1>3. Min(I) \in I
  <2> HIDE DEF I
  <2> QED
    BY <1>2, Least
<1> QED
  BY <1>1, <1>2, <1>3

\* ir_symbol_set_value writes to the one record there is.
OneValued(b, c, i, value, size) ==
  LET o == b.records[i] IN
  \E r : /\ Rewritten(b, c, i, r) /\ r.global = o.global
         /\ Says(r, o, o.section, o.kind, value, size)

LEMMA ValuedOne ==
  ASSUME NEW n \in Nat, NEW b \in BuilderType(n), NEW i \in 1..Len(b.records), Ones(b),
         Lone(b.records[i].name), NEW value \in Nat, NEW size \in Nat
  PROVE  OneValued(b, Valued(b, b.records[i].name, value, size), i, value, size)
<1> DEFINE o == b.records[i]
           name == o.name
           r == [o EXCEPT !.value = value, !.size = size]
           k == FirstNamed(b.records, name)
           T == RecordType(n)
<1>1. b.records \in Seq(T) /\ o \in T
  <2>1. b.records \in Seq(T)
    BY SectionsTyped
  <2> HIDE DEF T
  <2> QED
    BY <2>1
<1>2. r \in T /\ Says(r, o, o.section, o.kind, value, size) /\ r.global = o.global
  <2> HIDE DEF o
  <2>1. r \in T
    BY <1>1, ValuingType
  <2>2. Says(r, o, o.section, o.kind, value, size)
    BY <1>1, Valuing
  <2>3. r.global = o.global
    BY <1>1 DEF RecordType
  <2> QED
    BY <2>1, <2>2, <2>3
<1>3. k = i
  <2>1. k \in 1..Len(b.records) /\ b.records[k].name = name
    <3> HIDE DEF T
    <3> QED
      BY <1>1, FirstNamedFound
  <2> QED
    BY <2>1 DEF Ones
<1>4. Valued(b, name, value, size) = [b EXCEPT !.records = [b.records EXCEPT ![i] = r]]
  <2> DEFINE q == [b.records[k] EXCEPT !.value = value]
             p == [q EXCEPT !.size = size]
             d == [b EXCEPT !.records = [b.records EXCEPT ![k] = q]]
  <2>1. Valued(b, name, value, size) = [d EXCEPT !.records = [d.records EXCEPT ![k] = p]]
    <3>1. b.records = [j \in 1..Len(b.records) |-> b.records[j]]
      BY <1>1
    <3> QED
      BY <1>1, <1>3, <3>1 DEF Valued, BuilderType
  <2>2. d.records = [b.records EXCEPT ![k] = q]
    BY DEF BuilderType
  <2>3. p = r
    BY <1>1, <1>3 DEF RecordType
  <2>4. [d.records EXCEPT ![k] = p] = [b.records EXCEPT ![i] = r]
    BY <1>1, <1>3, <2>2, <2>3
  <2>5. [d EXCEPT !.records = [b.records EXCEPT ![i] = r]]
          = [b EXCEPT !.records = [b.records EXCEPT ![i] = r]]
    BY DEF BuilderType
  <2> QED
    BY <2>1, <2>4, <2>5
<1>5. r.name = o.name /\ r.source = o.source
  BY <1>2 DEF Says
<1> HIDE DEF r
<1>6. Rewritten(b, [b EXCEPT !.records = [b.records EXCEPT ![i] = r]], i, r)
  BY <1>2, <1>5, RecordRewritten
<1>7. Rewritten(b, Valued(b, name, value, size), i, r)
  BY <1>4, <1>6
<1>8. OneValued(b, Valued(b, name, value, size), i, value, size)
  BY <1>2, <1>7 DEF OneValued
<1> QED
  BY <1>8
-----------------------------------------------------------------------------
\* A function that is encoded has the one record of its name, with the place and the
\* size of its code, and every other definition is what it was.
LEMMA EncodedKept ==
  ASSUME NEW n \in Nat, builder \in BuilderType(n), NEW all, Table(all, n), OneEach(all),
         Ones(builder), Sourced(builder, all),
         NEW function \in 1..n, Lone(all[function].name), NEW uses \in Seq(1..n),
         NEW placed, NEW c,
         \A i \in 1..Len(builder.records) :
           builder.records[i].section # 0 /\ builder.records[i].name # all[function].name
             => RowRight(builder.records[i], placed, c),
         all[function].name \in c.owed,
         all[function].internal = (all[function].name \in c.internal),
         all[function].name \in DOMAIN placed,
         placed[all[function].name] =
           At(TextSection, builder.sections[TextSection].size, CodeSize(uses))
  PROVE  LET e == Encoded(function, uses, all)
         IN  /\ Ones(e) /\ RowsRight(e, placed, c) /\ HasDefinition(e, all[function].name)
             /\ \A y : HasDefinition(builder, y) => HasDefinition(e, y)
<1> DEFINE name == all[function].name
           start == builder.sections[TextSection].size
           size == CodeSize(uses)
           indexed == Indexed(builder, function, all)
           k == Index(indexed, function, all)
           global == ~all[function].internal
           r == [indexed.records[k] EXCEPT !.section = TextSection, !.kind = Function,
                                           !.global = global]
           begun == Begun(builder, function, all)
           referred == Referred(begun, start, uses, all)
           filled == Appended(referred, TextSection, size)
           done == Valued(filled, name, start, size)
           V == {v \in BuilderType(n) : Ones(v) /\ Sourced(v, all) /\ Extended(begun, v)}
<1>1. /\ TextSection \in 1..3 /\ TextSection # 0 /\ Len(uses) \in Nat /\ size \in Nat
  BY DEF TextSection, CodeSize, ReferenceSize
<1>2. start \in Nat
  BY <1>1, SectionsTyped
<1>3. all \in Seq(SymbolType) /\ Len(all) = n /\ global \in BOOLEAN
  BY DEF Table
<1>4. indexed \in BuilderType(n)
  BY IndexedType
<1>5. k \in 1..Len(indexed.records) /\ Owns(indexed.records[k], function, name)
  BY IndexedParts
<1>6. Ones(indexed) /\ Sourced(indexed, all) /\ Extended(builder, indexed)
  BY IndexedOnes
<1>7. global = (name \notin c.internal)
  OBVIOUS
<1> HIDE DEF start, size, global
<1>8. begun = [indexed EXCEPT !.records = [indexed.records EXCEPT ![k] = r]]
  <2> HIDE DEF k
  <2> QED
    BY <1>4 DEF Begun, BuilderType, k, global
<1> HIDE DEF begun, indexed, k
<1>9. /\ r \in RecordType(n) /\ r.name = name /\ r.section = TextSection /\ r.global = global
      /\ r.name = indexed.records[k].name /\ r.source = indexed.records[k].source
  <2> DEFINE o == indexed.records[k]
  <2>1. o.name = name
    <3>1. o.source = 0 \/ o.name = all[o.source].name
      BY <1>5, <1>6 DEF Sourced
    <3>2. o.source = function \/ (o.source = 0 /\ o.name = name)
      BY <1>5 DEF Owns
    <3>3. function # 0
      OBVIOUS
    <3> QED
      BY <3>1, <3>2, <3>3
  <2>2. o \in RecordType(n)
    <3>1. indexed.records \in Seq(RecordType(n))
      BY <1>4, SectionsTyped
    <3> QED
      BY <1>5, <3>1
  <2> HIDE DEF o
  <2>3. r = [o EXCEPT !.section = TextSection, !.kind = Function, !.global = global]
    BY DEF o
  <2> HIDE DEF r
  <2>4. r \in RecordType(n)
    <3>1. TextSection \in 0..3 /\ Function \in Nat
      BY DEF TextSection, Function
    <3> QED
      BY <1>3, <2>2, <2>3, <3>1, PlacingType
  <2>5. Says(r, o, TextSection, Function, o.value, o.size)
    BY <2>2, <2>3, Placing
  <2>6. r.global = global
    BY <2>2, <2>3 DEF RecordType
  <2> QED
    BY <2>1, <2>4, <2>5, <2>6 DEF Says, o
<1> HIDE DEF r
<1>10. begun \in BuilderType(n)
  BY <1>4, <1>8, <1>9, RecordChanged
<1>11. Rewritten(indexed, begun, k, r)
  BY <1>4, <1>5, <1>8, <1>9, RecordRewritten
<1>12. Ones(begun) /\ Sourced(begun, all)
  BY <1>5, <1>6, <1>11, RewrittenOnes
<1>13. begun \in V
  <2>1. Extended(begun, begun)
    BY DEF Extended
  <2> QED
    BY <1>10, <1>12, <2>1
<1>14. ASSUME NEW v \in V, NEW i \in 1..Len(uses)
       PROVE  Relocated(v, TextSection, start + ReferenceSize * (i - 1), uses[i], Pc32, all) \in V
  <2> DEFINE offset == start + ReferenceSize * (i - 1)
             symbol == uses[i]
             w == Relocated(v, TextSection, offset, symbol, Pc32, all)
  <2>1. offset \in Nat /\ symbol \in 1..n /\ Pc32 \in {Pc32, Data64}
    <3>1. offset = start + 4 * (i - 1) /\ symbol \in 1..n
      BY DEF ReferenceSize
    <3> HIDE DEF offset
    <3> QED
      BY <1>1, <1>2, <3>1
  <2>2. v \in BuilderType(n) /\ Ones(v) /\ Sourced(v, all) /\ Extended(begun, v)
    OBVIOUS
  <2> HIDE DEF offset, symbol
  <2>3. w \in BuilderType(n)
    BY <1>1, <2>1, <2>2, RelocatedType
  <2>4. Ones(w) /\ Sourced(w, all) /\ Extended(v, w)
    BY <2>1, <2>2, RelocatedOnes
  <2> HIDE DEF w
  <2>5. Extended(begun, w)
    BY <2>2, <2>4, ExtendedTwice
  <2>6. w \in V
    BY <2>3, <2>4, <2>5
  <2> QED
    BY <2>6 DEF w, offset, symbol
<1>15. referred \in V
  <2> HIDE DEF V
  <2> QED
    BY <1>1, <1>13, <1>14, ReferredIn
<1>16. referred \in BuilderType(n) /\ Ones(referred) /\ Sourced(referred, all)
       /\ Extended(begun, referred)
  BY <1>15
<1> HIDE DEF referred, V
<1>17. filled \in BuilderType(n) /\ filled.records = referred.records
  BY <1>1, <1>16, AppendedType, AppendedRecords
<1> HIDE DEF filled
<1>18. Ones(filled) /\ Sourced(filled, all) /\ Extended(begun, filled)
  BY <1>16, <1>17 DEF Ones, Sourced, Extended
<1>19. k \in 1..Len(filled.records) /\ filled.records[k] = r
  BY <1>5, <1>11, <1>18 DEF Rewritten, Extended
<1>32. OneValued(filled, done, k, start, size)
  <2>1. Lone(filled.records[k].name) /\ filled.records[k].name = name
    BY <1>9, <1>19
  <2> HIDE DEF name
  <2>2. OneValued(filled, Valued(filled, filled.records[k].name, start, size), k, start, size)
    BY <1>1, <1>2, <1>17, <1>18, <1>19, <2>1, ValuedOne
  <2> QED
    BY <2>1, <2>2
<1> HIDE DEF done
<1>20. PICK q : /\ Rewritten(filled, done, k, q) /\ q.global = r.global
                /\ q.name = name /\ q.section = TextSection /\ q.value = start /\ q.size = size
  BY <1>9, <1>19, <1>32 DEF OneValued, Says
<1>21. Ones(done) /\ Sourced(done, all)
  BY <1>18, <1>19, <1>20, RewrittenOnes
<1>22. k \in 1..Len(done.records) /\ done.records[k] = q
  BY <1>19, <1>20 DEF Rewritten
<1>23. HasDefinition(done, name)
  BY <1>1, <1>20, <1>22 DEF HasDefinition
<1>24. RowRight(q, placed, c)
  <2>1. name \in DOMAIN placed /\ placed[name] = At(TextSection, start, size)
    BY DEF start, size
  <2> QED
    BY <1>7, <1>9, <1>20, <2>1 DEF RowRight
<1>25. \A j \in 1..Len(done.records) : j # k => done.records[j].name # name
  BY <1>20, <1>21, <1>22 DEF Ones
<1>26. ASSUME NEW j \in 1..Len(done.records), j # k, done.records[j].section # 0
       PROVE  j \in 1..Len(builder.records) /\ done.records[j] = builder.records[j]
  <2>1. j \in 1..Len(filled.records) /\ done.records[j] = filled.records[j]
    BY <1>20, <1>26 DEF Rewritten
  <2>2. j \in 1..Len(begun.records) /\ filled.records[j] = begun.records[j]
    BY <1>18, <1>26, <2>1 DEF Extended
  <2>3. j \in 1..Len(indexed.records) /\ begun.records[j] = indexed.records[j]
    BY <1>11, <1>26, <2>2 DEF Rewritten
  <2>4. j \in 1..Len(builder.records) /\ indexed.records[j] = builder.records[j]
    BY <1>6, <1>26, <2>1, <2>2, <2>3 DEF Extended
  <2> QED
    BY <2>1, <2>2, <2>3, <2>4
<1>27. RowsRight(done, placed, c)
  <2>1. ASSUME NEW j \in 1..Len(done.records), done.records[j].section # 0
        PROVE  RowRight(done.records[j], placed, c)
    <3>1. CASE j = k
      BY <1>22, <1>24, <3>1
    <3>2. CASE j # k
      BY <1>25, <1>26, <2>1, <3>2
    <3> QED
      BY <3>1, <3>2
  <2> QED
    BY <2>1 DEF RowsRight
<1>28. ASSUME NEW y, HasDefinition(builder, y) PROVE HasDefinition(done, y)
  <2>1. PICK j \in 1..Len(builder.records) :
          builder.records[j].name = y /\ builder.records[j].section # 0
    BY <1>28 DEF HasDefinition
  <2>2. j \in 1..Len(indexed.records) /\ indexed.records[j] = builder.records[j]
    BY <1>6 DEF Extended
  <2>3. CASE j = k
    BY <1>9, <1>23, <2>1, <2>2, <2>3
  <2>4. CASE j # k
    <3>1. j \in 1..Len(begun.records) /\ begun.records[j] = indexed.records[j]
      BY <1>11, <2>2, <2>4 DEF Rewritten
    <3>2. j \in 1..Len(filled.records) /\ filled.records[j] = begun.records[j]
      BY <1>18, <3>1 DEF Extended
    <3>3. j \in 1..Len(done.records) /\ done.records[j] = filled.records[j]
      BY <1>20, <2>4, <3>2 DEF Rewritten
    <3> QED
      BY <2>1, <2>2, <3>1, <3>2, <3>3 DEF HasDefinition
  <2> QED
    BY <2>3, <2>4
<1>29. Encoded(function, uses, all) = done
  BY DEF Encoded, done, filled, referred, begun, size, start
<1> QED
  BY <1>21, <1>23, <1>27, <1>28, <1>29
-----------------------------------------------------------------------------
(* Declarations *)

\* What the declaration d makes of scope and Symbols.
DeclaredAs(d, known, all) ==
  LET n == Len(symbols) k == Number(d.name) IN
  /\ Len(all) \in Nat /\ k \in 1..Len(all)
  /\ \A i \in 1..n : i \in 1..Len(all) /\ all[i].name = symbols[i].name
                     /\ (i # k => all[i] = symbols[i])
  /\ \A i \in 1..Len(all) : i \in 1..n \/ i = k
  /\ all[k].name = d.name /\ all[k].storage = d.storage
  /\ all[k].internal = (d.storage = "static")
  /\ k \in 1..n /\ symbols[k].initializer.set => all[k].initializer.set
  /\ d.kind = "object" /\ d.init # "none" => all[k].initializer.set
  /\ DOMAIN known = DOMAIN scope \cup {d.name} /\ known[d.name] = k
  /\ \A y \in DOMAIN scope : y # d.name => known[y] = scope[y]
  /\ d.name \in DOMAIN scope => k = scope[d.name]
  /\ d.name \notin DOMAIN scope => k \notin 1..n

\* What C makes of it.
ClaimedAs(d, c) ==
  /\ c.owed = IF Defining(d) THEN claims.owed \cup {d.name} ELSE claims.owed
  /\ c.seen = claims.seen \cup {d.name}
  /\ c.internal = IF d.storage = "static" /\ d.name \notin claims.seen
                  THEN claims.internal \cup {d.name} ELSE claims.internal

\* The Symbols after define_symbol: the one of the name has what was declared of it.
DefinedAs(name, storage, all) ==
  LET n == Len(symbols) k == Number(name) IN
  /\ Len(all) \in Nat /\ k \in 1..Len(all) /\ all \in Seq(SymbolType)
  /\ \A i \in 1..n : i \in 1..Len(all) /\ all[i].name = symbols[i].name
                     /\ (i # k => all[i] = symbols[i])
  /\ \A i \in 1..Len(all) : i \in 1..n \/ i = k
  /\ all[k].name = name /\ all[k].storage = storage
  /\ all[k].internal = (storage = "static")
  /\ k \in 1..n => all[k].initializer = symbols[k].initializer
  /\ name \in DOMAIN scope => k = scope[name]
  /\ name \notin DOMAIN scope => k \notin 1..n

LEMMA DefinedSays ==
  ASSUME NEW n \in Nat, Table(symbols, n), Scoped(scope, symbols), NEW name \in Names,
         SizeOf(name) \in Positive, NEW function \in BOOLEAN, NEW storage \in Storages,
         NEW initialized \in BOOLEAN
  PROVE  DefinedAs(name, storage, Defined(name, function, storage, initialized))
<1> DEFINE new == NewSymbol(name, function, storage, SizeOf(name))
           grown == IF Known(name) THEN symbols ELSE Append(symbols, new)
           k == Number(name)
           m == Len(grown)
           inner == storage = "static"
           named == grown[k].initialized \/ initialized
           r == [grown[k] EXCEPT !.storage = storage, !.internal = inner, !.initialized = named]
           all == [grown EXCEPT ![k] = r]
<1>1. /\ symbols \in Seq(SymbolType) /\ Len(symbols) = n
      /\ \A x \in DOMAIN scope : scope[x] \in 1..n /\ symbols[scope[x]].name = x
  BY PartialDef DEF Table, Scoped
<1>2. new \in SymbolType /\ new.name = name
  BY NewSymbolType
<1> HIDE DEF new
<1>3. /\ m \in Nat /\ grown \in Seq(SymbolType)
      /\ k \in 1..m /\ grown[k].name = name
      /\ \A i \in 1..n : i \in 1..m /\ grown[i] = symbols[i]
      /\ \A i \in 1..m : i \in 1..n \/ i = k
      /\ name \in DOMAIN scope => k = scope[name]
      /\ name \notin DOMAIN scope => k \notin 1..n
  <2>1. CASE Known(name)
    <3>1. grown = symbols /\ m = n
      BY <1>1, <2>1
    <3>2. k \in 1..n /\ symbols[k].name = name /\ k = scope[name] /\ name \in DOMAIN scope
      BY <1>1, <2>1 DEF Number, Known
    <3> HIDE DEF grown, k, m
    <3> QED
      BY <1>1, <3>1, <3>2
  <2>2. CASE ~Known(name)
    <3> DEFINE longer == Append(symbols, new)
    <3>1. grown = longer /\ k = n + 1 /\ name \notin DOMAIN scope
      BY <1>1, <2>2 DEF Number, Known
    <3>2. /\ longer \in Seq(SymbolType) /\ Len(longer) = n + 1 /\ longer[n + 1] = new
          /\ \A i \in 1..n : longer[i] = symbols[i]
      BY <1>1, <1>2
    <3>4. m = n + 1
      BY <3>1, <3>2
    <3> HIDE DEF grown, k, m, longer
    <3>5. /\ n + 1 \in Nat /\ n + 1 \in 1..(n + 1) /\ \A i \in 1..n : i \in 1..(n + 1)
          /\ \A i \in 1..(n + 1) : i \in 1..n \/ i = n + 1
          /\ n + 1 \notin 1..n
      OBVIOUS
    <3> QED
      BY <1>1, <1>2, <3>1, <3>2, <3>4, <3>5
  <2> QED
    BY <2>1, <2>2
<1> HIDE DEF grown, k, m
<1>4. grown[k] \in SymbolType
  BY <1>3 DEF m
<1>5. inner \in BOOLEAN /\ named \in BOOLEAN
  <2>1. grown[k].initialized \in BOOLEAN
    BY <1>4 DEF SymbolType
  <2> QED
    OBVIOUS
<1>11. inner = (storage = "static")
  OBVIOUS
<1> HIDE DEF inner, named
<1>6. /\ r \in SymbolType /\ r.name = name /\ r.initializer = grown[k].initializer
      /\ r.storage = storage /\ r.internal = inner
  BY <1>3, <1>4, <1>5 DEF SymbolType
<1> HIDE DEF r
<1>7. all \in Seq(SymbolType) /\ Len(all) = m /\ all[k] = r
      /\ \A i \in 1..m : i # k => all[i] = grown[i]
  BY <1>3, <1>6 DEF m
<1> HIDE DEF all
<1>8. \A i \in 1..n : i \in 1..m /\ all[i].name = symbols[i].name /\ (i # k => all[i] = symbols[i])
  BY <1>3, <1>6, <1>7
<1>9. Defined(name, function, storage, initialized) = all
  <2>1. Redeclared(grown[k], storage, initialized) = r
    BY Zenon DEF Redeclared, r, inner, named
  <2>2. Defined(name, function, storage, initialized) =
          [grown EXCEPT ![k] = Redeclared(grown[k], storage, initialized)]
    BY Zenon DEF Defined, grown, k, new
  <2> QED
    BY <2>1, <2>2, Zenon DEF all
<1>10. k \in 1..n => all[k].initializer = symbols[k].initializer
  BY <1>3, <1>6, <1>7
<1>12. n = Len(symbols)
  BY <1>1
<1>13. DefinedAs(name, storage, all)
  BY <1>3, <1>6, <1>7, <1>8, <1>10, <1>11, <1>12 DEF k, DefinedAs
<1> QED
  BY <1>9, <1>13

LEMMA OnlyDeclared ==
  ASSUME NEW d \in Declarations, NEW known, NEW all, Only(symbols, scope), DeclaredAs(d, known, all)
  PROVE  Only(all, known)
<1> SUFFICES ASSUME NEW i \in 1..Len(all), Lone(all[i].name), ~OwnName(all[i].name)
             PROVE  all[i].name \in DOMAIN known /\ known[all[i].name] = i
  BY DEF Only
<1>1. CASE i = Number(d.name)
  BY <1>1 DEF DeclaredAs
<1>2. CASE i # Number(d.name)
  <2>1. i \in 1..Len(symbols) /\ all[i].name = symbols[i].name
    BY <1>2 DEF DeclaredAs
  <2>2. symbols[i].name \in DOMAIN scope /\ scope[symbols[i].name] = i
    BY <2>1 DEF Only
  <2> QED
    BY <1>2, <2>1, <2>2 DEF DeclaredAs
<1> QED
  BY <1>1, <1>2

LEMMA LinkedDeclared ==
  ASSUME Coherent, NEW d \in Declarations, NEW known, NEW all, NEW c, Linked(symbols, scope, claims),
         Scoped(scope, symbols), ~OwnName(d.name), DeclaredAs(d, known, all), ClaimedAs(d, c)
  PROVE  /\ Linked(all, known, c)
         /\ \A x \in DOMAIN scope : x \in c.internal <=> x \in claims.internal
<1> DEFINE name == d.name
           n == Len(symbols)
<1>1. \A x \in DOMAIN scope : scope[x] \in 1..n /\ symbols[scope[x]].name = x
  BY PartialDef DEF Scoped
<1>2. (d.storage = "static") = StaticName(name)
  BY DEF Coherent, StaticName
<1>3. claims.seen = DOMAIN scope
  BY DEF Linked
<1>4. \A x \in DOMAIN scope : x \in c.internal <=> x \in claims.internal
  BY <1>3 DEF ClaimedAs
<1>5. c.seen = DOMAIN known
  BY <1>3 DEF ClaimedAs, DeclaredAs
<1>6. name \in c.internal <=> StaticName(name)
  <2>1. CASE name \in DOMAIN scope
    BY <1>4, <2>1 DEF Linked
  <2>2. CASE name \notin DOMAIN scope
    <3>1. name \notin claims.internal
      BY <2>2 DEF Linked
    <3> QED
      BY <1>2, <1>3, <2>2, <3>1 DEF ClaimedAs
  <2> QED
    BY <2>1, <2>2
<1>7. ASSUME NEW x \in DOMAIN known
      PROVE  /\ all[known[x]].internal = StaticName(x) /\ (x \in c.internal <=> StaticName(x))
             /\ \E e \in Declarations : e.name = x /\ e.storage = all[known[x]].storage
  <2>1. CASE x = name
    <3>1. /\ all[known[x]].internal = (d.storage = "static")
          /\ all[known[x]].storage = d.storage
      BY <2>1 DEF DeclaredAs
    <3> QED
      BY <1>2, <1>6, <2>1, <3>1
  <2>2. CASE x # name
    <3>1. x \in DOMAIN scope /\ known[x] = scope[x]
      BY <2>2 DEF DeclaredAs
    <3>2. scope[x] # Number(name)
      BY <1>1, <2>2, <3>1 DEF DeclaredAs
    <3>3. all[known[x]] = symbols[scope[x]]
      BY <1>1, <3>1, <3>2 DEF DeclaredAs
    <3> QED
      BY <1>4, <3>1, <3>3 DEF Linked
  <2> QED
    BY <2>1, <2>2
<1>8. \A x \in c.internal : x \in DOMAIN known \/ OwnName(x)
  BY DEF Linked, ClaimedAs, DeclaredAs
<1> QED
  BY <1>4, <1>5, <1>7, <1>8 DEF Linked
-----------------------------------------------------------------------------
LEMMA SeqMore ==
  ASSUME NEW S, NEW T, S \subseteq T, NEW list \in Seq(S)
  PROVE  list \in Seq(T)
OBVIOUS

\* program_add_global keeps what there is, and the symbol is there.
LEMMA AddGlobalSet ==
  ASSUME NEW S, NEW list \in Seq(S), NEW g \in S
  PROVE  /\ AddGlobal(list, g) \in Seq(S)
         /\ ToSet(AddGlobal(list, g)) = ToSet(list) \cup {g}
<1> DEFINE longer == Append(list, g)
           k == Len(list)
<1>1. /\ k \in Nat /\ longer \in Seq(S) /\ Len(longer) = k + 1 /\ longer[k + 1] = g
      /\ \A i \in 1..k : longer[i] = list[i]
  OBVIOUS
<1>2. ToSet(longer) = {longer[i] : i \in 1..(k + 1)} /\ ToSet(list) = {list[i] : i \in 1..k}
  BY <1>1 DEF ToSet
<1>3. AddGlobal(list, g) = IF g \in ToSet(list) THEN list ELSE longer
  BY DEF AddGlobal
<1> HIDE DEF longer, k
<1>4. 1..(k + 1) = (1..k) \cup {k + 1}
  BY <1>1
<1>5. ToSet(longer) = ToSet(list) \cup {g}
  BY <1>1, <1>2, <1>4
<1> QED
  BY <1>1, <1>3, <1>5

\* Of many symbols, too.
LEMMA AddGlobalsSet ==
  ASSUME NEW S, NEW list \in Seq(S), NEW added \in Seq(S)
  PROVE  /\ AddGlobals(list, added) \in Seq(S)
         /\ ToSet(AddGlobals(list, added)) = ToSet(list) \cup ToSet(added)
<1> DEFINE n == Len(added)
           Some(k) == {added[i] : i \in 1..k}
<1>1. n \in Nat /\ \A i \in 1..n : added[i] \in S
  OBVIOUS
<1>2. \A v \in Seq(S), i \in 1..n : AddGlobal(v, added[i]) \in Seq(S)
  BY <1>1, AddGlobalSet
<1>3. PICK h : GlobalsRun(h, Seq(S), list, added)
  BY <1>2, AddGlobalsStages
<1>4. /\ h \in [0..n -> Seq(S)] /\ h[0] = list /\ AddGlobals(list, added) = h[n]
      /\ \A k \in 1..n : h[k] = AddGlobal(h[k - 1], added[k])
  BY <1>3 DEF GlobalsRun
<1>10. ToSet(added) = Some(n)
  BY DEF ToSet
<1> HIDE DEF n
<1> DEFINE Right(k) == ToSet(h[k]) = ToSet(list) \cup Some(k)
           T == {k \in Nat : k <= n => Right(k)}
<1>5. 0 \in T
  <2>1. Some(0) = {}
    OBVIOUS
  <2> QED
    BY <1>4, <2>1
<1>6. ASSUME NEW k \in Nat, k \in T PROVE k + 1 \in T
  <2> SUFFICES ASSUME k + 1 <= n PROVE Right(k + 1)
    OBVIOUS
  <2>1. k \in 0..n /\ k + 1 \in 1..n /\ (k + 1) - 1 = k /\ 1..(k + 1) = (1..k) \cup {k + 1}
    BY <1>1
  <2>2. ToSet(h[k]) = ToSet(list) \cup Some(k)
    <3>1. k <= n
      BY <1>1, <2>1
    <3> HIDE DEF Right
    <3>2. Right(k)
      BY <1>6, <3>1
    <3> QED
      BY <3>2 DEF Right
  <2>3. h[k + 1] = AddGlobal(h[k], added[k + 1]) /\ h[k] \in Seq(S) /\ added[k + 1] \in S
    BY <1>1, <1>4, <2>1
  <2>4. ToSet(h[k + 1]) = ToSet(h[k]) \cup {added[k + 1]}
    <3> DEFINE u == h[k]
               g == added[k + 1]
    <3>1. u \in Seq(S) /\ g \in S
      BY <2>3
    <3> HIDE DEF u, g
    <3>2. ToSet(AddGlobal(u, g)) = ToSet(u) \cup {g}
      BY <3>1, AddGlobalSet
    <3> QED
      BY <2>3, <3>2 DEF u, g
  <2>5. Some(k + 1) = Some(k) \cup {added[k + 1]}
    BY <2>1
  <2> QED
    BY <2>2, <2>4, <2>5
<1> HIDE DEF Right, T
<1>7. n \in T
  BY <1>1, <1>5, <1>6, Counting
<1>8. ToSet(h[n]) = ToSet(list) \cup Some(n)
  BY <1>1, <1>7 DEF Right, T
<1>9. h[n] \in Seq(S)
  BY <1>1, <1>4
<1> QED
  BY <1>4, <1>8, <1>9, <1>10

\* What has storage stays defined when more is declared.
LEMMA StoredDeclared ==
  ASSUME NEW d \in Declarations, ~OwnName(d.name), NEW known, NEW all, NEW c,
         globals \in Seq(1..Len(symbols)),
         Stored(globals, symbols, claims), DeclaredAs(d, known, all), ClaimedAs(d, c)
  PROVE  /\ Stored(globals, all, c)
         /\ d.kind = "object" /\ Defining(d) => StoredAt(Number(d.name), all, c)
<1> DEFINE k == Number(d.name)
<1>1. /\ claims.owed \subseteq c.owed /\ claims.internal \subseteq c.internal
      /\ Defining(d) => d.name \in c.owed
  BY DEF ClaimedAs
<1>2. ASSUME NEW g \in ToSet(globals) PROVE StoredAt(g, all, c)
  <2>1. g \in 1..Len(symbols) /\ StoredAt(g, symbols, claims)
    BY DEF Stored, ToSet
  <2>2. all[g].name = symbols[g].name /\ (g # k => all[g] = symbols[g])
    BY <2>1 DEF DeclaredAs
  <2>3. OwnName(all[g].name) => g # k
    BY DEF DeclaredAs
  <2>4. symbols[g].initializer.set => all[g].initializer.set
    BY <2>1, <2>2 DEF DeclaredAs
  <2> HIDE DEF k
  <2> QED
    BY <1>1, <2>1, <2>2, <2>3, <2>4 DEF StoredAt
<1>3. ASSUME d.kind = "object", Defining(d) PROVE StoredAt(k, all, c)
  <2>1. all[k].name = d.name /\ (d.init # "none" => all[k].initializer.set)
    BY <1>3 DEF DeclaredAs
  <2>2. d.init # "none" \/ Tentative(d)
    BY <1>3 DEF Defining
  <2> HIDE DEF k
  <2> QED
    BY <1>1, <1>3, <2>1, <2>2 DEF StoredAt
<1> QED
  BY <1>2, <1>3 DEF Stored

\* Names of functions are in scope, and a definition so far is of one.
LEMMA DefinedInScope ==
  ASSUME NEW all, NEW known, NEW b, EarlyBuilder(b, all, FunctionNames(known, all)),
         NEW i \in 1..Len(b.records), b.records[i].section # 0
  PROVE  b.records[i].name \in DOMAIN known
<1>1. b.records[i] \in Early(all, FunctionNames(known, all), b.sections[TextSection].size)
  BY DEF EarlyBuilder, Holds
<1>2. b.records[i].name \in FunctionNames(known, all)
  BY <1>1 DEF Early
<1> QED
  BY <1>2 DEF FunctionNames

LEMMA OwnDeclared ==
  ASSUME OwnStatic(symbols), NEW d, ~OwnName(d.name), NEW known, NEW all, DeclaredAs(d, known, all)
  PROVE  OwnStatic(all)
<1> SUFFICES ASSUME NEW i \in 1..Len(all), OwnName(all[i].name)
             PROVE  all[i].internal /\ all[i].storage = "static"
  BY DEF OwnStatic
<1>1. i # Number(d.name)
  BY DEF DeclaredAs
<1>2. i \in 1..Len(symbols) /\ all[i] = symbols[i]
  BY <1>1 DEF DeclaredAs
<1> QED
  BY <1>2 DEF OwnStatic

\* A declaration without code keeps what there is.
LEMMA KeptDeclared ==
  ASSUME Coherent, UnitInv, MoreInv, KeptInv, stage = "declarations", stage' = stage,
         builder' = builder, claims'.placed = claims.placed,
         NEW d \in Declarations, ~OwnName(d.name), d.kind # "function",
         DeclaredAs(d, scope', symbols'), ClaimedAs(d, claims'),
         globals' = IF Defining(d) THEN AddGlobal(globals, Number(d.name)) ELSE globals
  PROVE  KeptInv'
<1> DEFINE known == scope'
           all == symbols'
           c == claims'
           list == globals'
           k == Number(d.name)
           n == Len(symbols)
<1>1. /\ Scoped(scope, symbols) /\ globals \in Seq(1..n)
      /\ EarlyBuilder(builder, symbols, FunctionNames(scope, symbols))
  BY Between
<1>2. /\ Only(symbols, scope) /\ Linked(symbols, scope, claims) /\ Stored(globals, symbols, claims)
      /\ Ones(builder) /\ RowsRight(builder, claims.placed, claims)
      /\ Owing(builder, globals, symbols, claims) /\ OwnStatic(symbols)
  BY DEF KeptInv
<1>3. /\ DeclaredAs(d, known, all) /\ ClaimedAs(d, c)
      /\ list = IF Defining(d) THEN AddGlobal(globals, k) ELSE globals
  OBVIOUS
<1> HIDE DEF known, all, c, list
<1>4. Only(all, known)
  BY <1>2, <1>3, OnlyDeclared
<1>5. /\ Linked(all, known, c)
      /\ \A x \in DOMAIN scope : x \in c.internal <=> x \in claims.internal
  BY <1>1, <1>2, <1>3, LinkedDeclared
<1>6. Defining(d) => d.kind = "object"
  BY DEF Defining, Tentative
<1>7. ToSet(list) = ToSet(globals) \cup (IF Defining(d) THEN {k} ELSE {})
  <2>1. globals \in Seq(Nat)
    <3>1. 1..n \subseteq Nat
      OBVIOUS
    <3> QED
      BY <1>1, <3>1, SeqMore
  <2>2. k \in Nat
    BY <1>3 DEF DeclaredAs
  <2> HIDE DEF k
  <2>3. ToSet(AddGlobal(globals, k)) = ToSet(globals) \cup {k}
    BY <2>1, <2>2, AddGlobalSet
  <2> QED
    BY <1>3, <2>3
<1>8. Stored(list, all, c)
  <2>1. /\ Stored(globals, all, c)
        /\ d.kind = "object" /\ Defining(d) => StoredAt(k, all, c)
    BY <1>1, <1>2, <1>3, StoredDeclared
  <2> HIDE DEF k
  <2> QED
    BY <1>6, <1>7, <2>1 DEF Stored
<1>9. RowsRight(builder, claims.placed, c)
  <2>1. ASSUME NEW i \in 1..Len(builder.records), builder.records[i].section # 0
        PROVE  RowRight(builder.records[i], claims.placed, c)
    <3>1. RowRight(builder.records[i], claims.placed, claims)
      BY <1>2, <2>1 DEF RowsRight
    <3>2. builder.records[i].name \in DOMAIN scope
      BY <1>1, <2>1, DefinedInScope
    <3>3. claims.owed \subseteq c.owed
      BY <1>3 DEF ClaimedAs
    <3> QED
      BY <1>5, <3>1, <3>2, <3>3 DEF RowRight
  <2> QED
    BY <2>1 DEF RowsRight
<1>10. Owing(builder, list, all, c)
  <2>1. ASSUME NEW x \in c.owed
        PROVE  Lone(x) /\ (x \in {all[g].name : g \in ToSet(list)} \/ HasDefinition(builder, x))
    <3>1. CASE x \in claims.owed
      <4>1. /\ Lone(x)
            /\ x \in {symbols[g].name : g \in ToSet(globals)} \/ HasDefinition(builder, x)
        BY <1>2, <3>1 DEF Owing
      <4>2. ASSUME NEW g \in ToSet(globals)
            PROVE  g \in ToSet(list) /\ all[g].name = symbols[g].name
        <5>1. g \in 1..n
          BY <1>1 DEF ToSet
        <5> QED
          BY <1>3, <1>7, <5>1 DEF DeclaredAs
      <4> QED
        BY <4>1, <4>2
    <3>2. CASE x \notin claims.owed
      <4>1. x = d.name /\ Defining(d)
        BY <1>3, <3>2 DEF ClaimedAs
      <4>2. all[k].name = x /\ k \in ToSet(list)
        BY <1>3, <1>7, <4>1 DEF DeclaredAs
      <4>3. Lone(x)
        BY <4>1 DEF Lone
      <4> QED
        BY <4>2, <4>3
    <3> QED
      BY <3>1, <3>2
  <2> QED
    BY <2>1 DEF Owing
<1>11. RowsRight(builder, c.placed, c)
  BY <1>9 DEF c
<1>12. /\ Only(symbols', scope') /\ Linked(symbols', scope', claims')
       /\ Stored(globals', symbols', claims')
       /\ RowsRight(builder', claims'.placed, claims')
       /\ Owing(builder', globals', symbols', claims')
  BY <1>4, <1>5, <1>8, <1>10, <1>11 DEF known, all, c, list
<1>13. Ones(builder')
  BY <1>2
<1>14. stage' = "declarations"
  OBVIOUS
<1>15. OwnStatic(symbols')
  <2>1. OwnStatic(all)
    BY <1>2, <1>3, OwnDeclared
  <2> QED
    BY <2>1 DEF all
<1> QED
  BY <1>12, <1>13, <1>14, <1>15 DEF KeptInv, Ones, RowsRight, Owing, HasDefinition
-----------------------------------------------------------------------------
LEMMA ClaimSays ==
  ASSUME Parts(claims), NEW d, NEW defines \in BOOLEAN, defines = Defining(d)
  PROVE  /\ ClaimedAs(d, Claim(d.name, defines, d.storage = "static"))
         /\ Claim(d.name, defines, d.storage = "static").placed = claims.placed
         /\ Parts(Claim(d.name, defines, d.storage = "static"))
<1> DEFINE static == d.storage = "static"
           owed == IF defines THEN claims.owed \cup {d.name} ELSE claims.owed
           internal == IF static /\ d.name \notin claims.seen THEN claims.internal \cup {d.name}
                       ELSE claims.internal
           seen == claims.seen \cup {d.name}
           c == Claim(d.name, defines, static)
<1>1. c = [claims EXCEPT !.owed = owed, !.seen = seen, !.internal = internal]
  BY DEF Claim
<1>2. /\ owed = IF Defining(d) THEN claims.owed \cup {d.name} ELSE claims.owed
      /\ seen = claims.seen \cup {d.name}
      /\ internal = IF d.storage = "static" /\ d.name \notin claims.seen
                    THEN claims.internal \cup {d.name} ELSE claims.internal
  BY Zenon
<1> HIDE DEF owed, internal, seen, c
<1>3. c = [owed |-> owed, seen |-> seen, internal |-> internal, meant |-> claims.meant,
           placed |-> claims.placed]
  BY <1>1 DEF Parts
<1>4. c.owed = owed /\ c.seen = seen /\ c.internal = internal /\ c.placed = claims.placed
  BY <1>3
<1>5. Parts(c)
  BY <1>3 DEF Parts
<1>6. ClaimedAs(d, c)
  BY <1>2, <1>4 DEF ClaimedAs
<1> QED
  BY <1>4, <1>5, <1>6 DEF c, static

\* parse_global_declaration, of a function.
LEMMA KeptPrototype ==
  ASSUME OwnNamesApart, Coherent, UnitInv, MoreInv, KeptInv, stage = "declarations",
         stage' = stage, NEW d \in Declarations, DeclareFunction(d)
  PROVE  KeptInv'
<1> DEFINE n == Len(symbols)
           k == Number(d.name)
           all == Defined(d.name, TRUE, d.storage, FALSE)
<1>1. /\ d.kind = "prototype" /\ symbols' = all /\ scope' = Put(scope, d.name, k)
      /\ claims' = Claim(d.name, FALSE, d.storage = "static")
      /\ globals' = globals /\ builder' = builder
  BY DEF DeclareFunction
<1>2. n \in Nat /\ Table(symbols, n) /\ Scoped(scope, symbols) /\ Parts(claims)
  BY Between DEF UnitInv
<1>3. /\ d.name \in Names /\ SizeOf(d.name) \in Positive /\ d.storage \in Storages
      /\ FALSE \in BOOLEAN /\ TRUE \in BOOLEAN /\ ~OwnName(d.name)
  BY DeclarationTyped DEF OwnNamesApart
<1>4. ~Defining(d)
  BY <1>1 DEF Defining, Tentative
<1>5. /\ Len(all) \in Nat /\ k \in 1..Len(all)
      /\ \A i \in 1..n : i \in 1..Len(all) /\ all[i].name = symbols[i].name
                         /\ (i # k => all[i] = symbols[i])
      /\ \A i \in 1..Len(all) : i \in 1..n \/ i = k
      /\ all[k].name = d.name /\ all[k].storage = d.storage
      /\ all[k].internal = (d.storage = "static")
      /\ k \in 1..n => all[k].initializer = symbols[k].initializer
      /\ d.name \in DOMAIN scope => k = scope[d.name]
      /\ d.name \notin DOMAIN scope => k \notin 1..n
  <2>1. DefinedAs(d.name, d.storage, all)
    BY <1>2, <1>3, DefinedSays
  <2> HIDE DEF all
  <2> QED
    BY <2>1 DEF DefinedAs
<1>6. /\ DOMAIN scope' = DOMAIN scope \cup {d.name} /\ scope'[d.name] = k
      /\ \A y \in DOMAIN scope : y # d.name => scope'[y] = scope[y]
  BY <1>1 DEF Put
<1>7. k \in 1..n /\ symbols[k].initializer.set => all[k].initializer.set
  BY <1>5
<1>8. ~(d.kind = "object" /\ d.init # "none")
  BY <1>1
<1> HIDE DEF all, k, n
<1>9. DeclaredAs(d, scope', symbols')
  BY <1>1, <1>5, <1>6, <1>7, <1>8 DEF DeclaredAs, k, n
<1>10. FALSE = Defining(d)
  BY <1>4
<1>11. /\ ClaimedAs(d, Claim(d.name, FALSE, d.storage = "static"))
       /\ Claim(d.name, FALSE, d.storage = "static").placed = claims.placed
  BY <1>2, <1>3, <1>10, ClaimSays
<1> DEFINE q == Claim(d.name, FALSE, d.storage = "static")
<1>12. ClaimedAs(d, q) /\ q.placed = claims.placed /\ claims' = q
  BY <1>1, <1>11
<1> HIDE DEF q
<1>13. ClaimedAs(d, claims') /\ claims'.placed = claims.placed
  BY <1>12
<1>14. d.kind # "function"
  BY <1>1
<1>15. globals' = IF Defining(d) THEN AddGlobal(globals, Number(d.name)) ELSE globals
  BY <1>1, <1>4
<1> QED
  BY <1>1, <1>3, <1>9, <1>13, <1>14, <1>15, KeptDeclared

\* parse_global_declaration, of an object.
LEMMA KeptObject ==
  ASSUME OwnNamesApart, Coherent, UnitInv, MoreInv, KeptInv, stage = "declarations",
         stage' = stage, NEW d \in Declarations, DeclareObject(d)
  PROVE  KeptInv'
<1> DEFINE n == Len(symbols)
           initialized == d.init # "none"
           tentative == ~initialized /\ d.storage # "extern"
           defines == initialized \/ tentative
           k == Number(d.name)
           known == Put(scope, d.name, k)
           all == Defined(d.name, FALSE, d.storage, initialized)
           m == Len(all)
           old == all[k].initializer
           new == CASE d.init = "none" -> old
                    [] d.init = "plain" -> Plain
                    [] d.init = "address" -> AddressOf(known[d.of])
           s == [all[k] EXCEPT !.initializer = new]
           q == Claim(d.name, defines, d.storage = "static")
<1>1. /\ d.kind = "object" /\ scope' = known
      /\ globals' = IF defines THEN AddGlobal(globals, k) ELSE globals
      /\ claims' = q /\ builder' = builder
  BY DEF DeclareObject
<1>2. symbols' = [all EXCEPT ![k] = s]
  BY DEF DeclareObject
<1>3. n \in Nat /\ Table(symbols, n) /\ Scoped(scope, symbols) /\ Parts(claims)
  BY Between DEF UnitInv
<1>4. /\ d.name \in Names /\ SizeOf(d.name) \in Positive /\ d.storage \in Storages
      /\ d.init \in {"none", "plain", "address"} /\ FALSE \in BOOLEAN /\ initialized \in BOOLEAN
      /\ ~OwnName(d.name) /\ defines \in BOOLEAN
  BY <1>1, DeclarationTyped DEF OwnNamesApart
<1>5. defines = Defining(d) /\ (d.init # "none" <=> initialized)
  BY <1>1 DEF Defining, Tentative
<1> HIDE DEF initialized, n, defines
<1>6. /\ m \in Nat /\ k \in 1..m /\ all \in Seq(SymbolType)
      /\ \A i \in 1..n : i \in 1..m /\ all[i].name = symbols[i].name
                         /\ (i # k => all[i] = symbols[i])
      /\ \A i \in 1..m : i \in 1..n \/ i = k
      /\ all[k].name = d.name /\ all[k].storage = d.storage
      /\ all[k].internal = (d.storage = "static")
      /\ k \in 1..n => all[k].initializer = symbols[k].initializer
      /\ d.name \in DOMAIN scope => k = scope[d.name]
      /\ d.name \notin DOMAIN scope => k \notin 1..n
  <2>1. DefinedAs(d.name, d.storage, all)
    BY <1>3, <1>4, DefinedSays
  <2> HIDE DEF all
  <2> QED
    BY <2>1 DEF DefinedAs, n
<1>7. /\ DOMAIN known = DOMAIN scope \cup {d.name} /\ known[d.name] = k
      /\ \A y \in DOMAIN scope : y # d.name => known[y] = scope[y]
  BY DEF Put
<1> HIDE DEF known, all, k
<1>8. all[k] \in SymbolType
  BY <1>6 DEF m
<1>9. /\ d.init = "none" => new = old
      /\ d.init # "none" => new.set
  <2>1. CASE d.init = "none"
    BY <2>1
  <2>2. CASE d.init = "plain"
    BY <2>2 DEF Plain
  <2>3. CASE d.init = "address"
    BY <2>3 DEF AddressOf
  <2> QED
    BY <1>4, <2>1, <2>2, <2>3
<1> HIDE DEF new
<1>10. /\ s.name = all[k].name /\ s.storage = all[k].storage /\ s.internal = all[k].internal
       /\ s.initializer = new
  BY <1>8 DEF SymbolType
<1> HIDE DEF s
<1>11. /\ Len(symbols') = m /\ symbols'[k] = s
       /\ \A i \in 1..m : i # k => symbols'[i] = all[i]
  BY <1>2, <1>6
<1> HIDE DEF m
<1>12. \A i \in 1..n : i \in 1..m /\ symbols'[i].name = symbols[i].name
                       /\ (i # k => symbols'[i] = symbols[i])
  BY <1>6, <1>10, <1>11
<1>13. k \in 1..n /\ symbols[k].initializer.set => symbols'[k].initializer.set
  BY <1>6, <1>9, <1>10, <1>11
<1>14. d.init # "none" => symbols'[k].initializer.set
  BY <1>9, <1>10, <1>11
<1>15. DeclaredAs(d, scope', symbols')
  BY <1>1, <1>6, <1>7, <1>10, <1>11, <1>12, <1>13, <1>14 DEF DeclaredAs, k, n
<1>16. ClaimedAs(d, q) /\ q.placed = claims.placed
  BY <1>3, <1>4, <1>5, ClaimSays
<1> HIDE DEF q
<1>17. ClaimedAs(d, claims') /\ claims'.placed = claims.placed
  BY <1>1, <1>16
<1>18. d.kind # "function" /\ builder' = builder
  BY <1>1
<1>19. globals' = IF Defining(d) THEN AddGlobal(globals, Number(d.name)) ELSE globals
  BY <1>1, <1>5 DEF k
<1> QED
  BY <1>4, <1>15, <1>17, <1>18, <1>19, KeptDeclared
-----------------------------------------------------------------------------
(* Functions *)

\* What a body adds to the Symbols: storage of its own, or what it announces.
Made(s, names) == IF OwnName(s.name) THEN s.internal /\ s.storage = "static" ELSE s.name \in names
MadeTable(t, n, names) == \A i \in 1..Len(t) : i \in 1..n \/ Made(t[i], names)

LEMMA MadeMore ==
  ASSUME NEW t \in Seq(SymbolType), NEW n, NEW names, MadeTable(t, n, names), NEW s, Made(s, names)
  PROVE  MadeTable(Append(t, s), n, names)
<1> DEFINE new == Append(t, s)
           k == Len(t)
<1>1. k \in Nat /\ Len(new) = k + 1 /\ new[k + 1] = s /\ \A i \in 1..k : new[i] = t[i]
  OBVIOUS
<1>2. \A i \in 1..k : i \in 1..n \/ Made(t[i], names)
  BY DEF MadeTable
<1> HIDE DEF new, k
<1>3. \A i \in 1..(k + 1) : i \in 1..k \/ i = k + 1
  BY <1>1
<1>4. ASSUME NEW i \in 1..(k + 1) PROVE i \in 1..n \/ Made(new[i], names)
  BY <1>1, <1>2, <1>3
<1> QED
  BY <1>1, <1>4 DEF MadeTable, new

LEMMA StorageSays ==
  ASSUME NEW name, NEW initializer, NEW size, NEW align
  PROVE  LET s == Storage(name, initializer, size, align)
         IN  s.name = name /\ s.internal /\ s.storage = "static"
<1> DEFINE s == NewSymbol(name, FALSE, "static", size)
           t == [s EXCEPT !.initializer = initializer, !.align = align]
<1>1. Storage(name, initializer, size, align) = t
  BY DEF Storage
<1>2. /\ s.name = name /\ s.internal = ("static" = "static") /\ s.storage = "static"
      /\ "name" \in DOMAIN s /\ "internal" \in DOMAIN s /\ "storage" \in DOMAIN s
  BY DEF NewSymbol
<1> HIDE DEF s
<1>3. t.name = name /\ t.internal = ("static" = "static") /\ t.storage = "static"
  BY <1>2
<1> QED
  BY <1>1, <1>3

\* Every item adds such a Symbol, or none.
LEMMA ItemMade ==
  ASSUME NEW items, ItemsTyped(items), NEW k \in 1..Len(items), NEW v \in BodyType(Nat),
         NEW names, items[k].kind = "extern" => items[k].name \in names /\ ~OwnName(items[k].name)
  PROVE  \/ ReadItem(v, items[k]).symbols = v.symbols
         \/ \E s : Made(s, names) /\ ReadItem(v, items[k]).symbols = Append(v.symbols, s)
<1> DEFINE item == items[k]
           R == ReadItem(v, item)
           counts == v.counters
<1>1. item.kind \in {"use", "extern", "static", "literal"}
  BY DEF ItemsTyped
<1>2. counts.static \in Nat /\ counts.literal \in Nat
  BY DEF BodyType, CountersType
<1>3. item.kind = "extern" => item.name \in names /\ ~OwnName(item.name)
  OBVIOUS
<1> HIDE DEF item, counts
<1>4. CASE item.kind = "use"
  <2> DEFINE symbol == v.bound[item.name]
  <2>1. R = Uses(v, symbol)
    BY <1>4 DEF ReadItem
  <2> HIDE DEF symbol, R
  <2>2. R = [symbols |-> v.symbols, bound |-> v.bound, counters |-> v.counters,
             uses |-> Append(v.uses, symbol), statics |-> v.statics, literals |-> v.literals]
    BY <2>1, BodyParts
  <2>3. R.symbols = v.symbols
    BY <2>2
  <2> QED
    BY <2>3 DEF R, item
<1>5. CASE item.kind = "extern"
  <2> DEFINE s == NewSymbol(item.name, FALSE, "extern", SizeOf(item.name))
             more == Append(v.symbols, s)
  <2>1. R = AddExtern(v, item.name)
    BY <1>5 DEF ReadItem
  <2>2. R = [symbols |-> more, bound |-> Put(v.bound, item.name, Len(more)),
             counters |-> v.counters, uses |-> v.uses,
             statics |-> v.statics, literals |-> v.literals]
    BY <2>1, BodyParts
  <2>3. s.name = item.name
    BY DEF NewSymbol
  <2> HIDE DEF s, R
  <2>4. R.symbols = Append(v.symbols, s)
    BY <2>2
  <2>5. Made(s, names)
    BY <1>3, <1>5, <2>3 DEF Made
  <2> QED
    BY <2>4, <2>5 DEF R, item
<1>6. CASE item.kind = "static"
  <2> DEFINE initializer == IF item.set THEN Plain ELSE NoInitializer
             name == Private(counts.static)
             s == Storage(name, initializer, 4, 4)
  <2>1. R = AddStatic(v, initializer)
    BY <1>6 DEF ReadItem
  <2> HIDE DEF initializer
  <2>2. AddStatic(v, initializer).symbols = Append(v.symbols, s)
    <3>1. AddStatic(v, initializer) =
            [symbols |-> Append(v.symbols, s), bound |-> v.bound,
             counters |-> [v.counters EXCEPT !.static = @ + 1],
             uses |-> Append(v.uses, Len(Append(v.symbols, s))),
             statics |-> Append(v.statics, Len(Append(v.symbols, s))), literals |-> v.literals]
      BY BodyParts DEF counts
    <3> HIDE DEF s
    <3> QED
      BY <3>1
  <2>3. s.name = name /\ s.internal /\ s.storage = "static"
    BY StorageSays
  <2>4. OwnName(name)
    BY <1>2 DEF OwnName
  <2> HIDE DEF s, name, R
  <2>5. Made(s, names)
    BY <2>3, <2>4 DEF Made
  <2>6. R.symbols = Append(v.symbols, s)
    BY <2>1, <2>2
  <2> QED
    BY <2>5, <2>6 DEF R, item
<1>7. CASE item.kind = "literal"
  <2> DEFINE name == Literal(counts.literal)
             s == Storage(name, Plain, 2, 1)
  <2>1. R = AddLiteral(v)
    <3>1. item.kind # "use" /\ item.kind # "extern" /\ item.kind # "static"
      BY <1>7
    <3> QED
      BY <1>7, <3>1, Zenon DEF ReadItem
  <2>2. AddLiteral(v).symbols = Append(v.symbols, s)
    <3>1. AddLiteral(v) =
            [symbols |-> Append(v.symbols, s), bound |-> v.bound,
             counters |-> [v.counters EXCEPT !.literal = @ + 1],
             uses |-> Append(v.uses, Len(Append(v.symbols, s))),
             statics |-> v.statics, literals |-> Append(v.literals, Len(Append(v.symbols, s)))]
      BY BodyParts DEF counts
    <3> HIDE DEF s
    <3> QED
      BY <3>1
  <2>3. s.name = name /\ s.internal /\ s.storage = "static"
    BY StorageSays
  <2>4. OwnName(name)
    BY <1>2 DEF OwnName
  <2> HIDE DEF s, name, R
  <2>5. Made(s, names)
    BY <2>3, <2>4 DEF Made
  <2>6. R.symbols = Append(v.symbols, s)
    BY <2>1, <2>2
  <2> QED
    BY <2>5, <2>6 DEF R, item
<1> QED
  BY <1>1, <1>4, <1>5, <1>6, <1>7

\* What every item keeps of the Symbols, the body does.
LEMMA ReadBodyIn ==
  ASSUME NEW d, ItemsTyped(d.body), counters \in CountersType, NEW n \in Nat, NEW all,
         Table(all, n), NEW known \in Partial(1..n), Resolves(d.body, known), NEW S,
         Append(all, Storage(Private(counters.static), Plain, 2, 1)) \in S,
         \A v \in BodyType(Nat), i \in 1..Len(d.body) :
           v.symbols \in S /\ ReadItem(v, d.body[i]) \in BodyType(Nat)
             => ReadItem(v, d.body[i]).symbols \in S
  PROVE  ReadBody(d, all, known).symbols \in S
<1> DEFINE items == d.body
           counts == [counters EXCEPT !.static = @ + 1]
           s == Storage(Private(counters.static), Plain, 2, 1)
           self == WithSymbol(Body(all, known, counts), s)
           read == ReadItems(self, items)
           last == Len(items)
           more == Append(all, s)
           V == BodyType(Meanings(items))
           W == [k \in 0..last |-> {v \in BodyType(Nat) : GoodBody(v, more, known, items, k)
                                                            /\ v.symbols \in S}]
<1>1. counters.static \in Nat /\ counts \in CountersType
  BY DEF CountersType
<1>2. s \in SymbolType /\ s.initializer.target = 0
  <2>1. Private(counters.static) \in Names /\ 2 \in Positive /\ 1 \in Positive
    BY <1>1 DEF Names, Positive
  <2> QED
    BY <2>1, StorageType
<1> HIDE DEF s, counts
<1>3. self = [symbols |-> more, bound |-> known, counters |-> counts,
              uses |-> <<>>, statics |-> <<>>, literals |-> <<>>]
  <2> DEFINE b == [symbols |-> all, bound |-> known, counters |-> counts,
                   uses |-> <<>>, statics |-> <<>>, literals |-> <<>>]
  <2>1. b = Body(all, known, counts)
    BY Zenon DEF Body
  <2>2. self = WithSymbol(Body(all, known, counts), s)
    OBVIOUS
  <2>3. b.symbols = all
    OBVIOUS
  <2>4. b = [symbols |-> all, bound |-> known, counters |-> counts,
             uses |-> <<>>, statics |-> <<>>, literals |-> <<>>]
    OBVIOUS
  <2> HIDE DEF self, b, more
  <2>5. self = [b EXCEPT !.symbols = Append(b.symbols, s)]
    BY <2>1, <2>2 DEF WithSymbol
  <2>6. self = [b EXCEPT !.symbols = more]
    BY <2>3, <2>5 DEF more
  <2> QED
    BY <2>4, <2>6
<1>4. /\ Table(more, n + 1) /\ Len(more) = n + 1 /\ \A i \in 1..n : more[i] = all[i]
      /\ 1..n \subseteq 1..(n + 1) /\ n + 1 \in 1..(n + 1)
  BY <1>2, TableMore
<1>5. Len(all) = n /\ all \in Seq(SymbolType) /\ more \in Seq(SymbolType)
  <2>1. Len(all) = n /\ all \in Seq(SymbolType)
    BY DEF Table
  <2> QED
    BY <1>2, <2>1
<1>6. known \in Partial(Nat) /\ \A y \in DOMAIN known : known[y] \in 1..n
  BY PartialDef
<1>7. more \in S
  BY DEF s
<1> HIDE DEF more, self
<1>8. self \in BodyType(Nat) /\ self \in V
  BY <1>1, <1>3, <1>5, <1>6 DEF BodyType
<1>9. GoodBody(self, more, known, items, 0) /\ self.symbols \in S
  <2>1. /\ self.symbols = more /\ self.bound = known /\ self.uses = <<>>
        /\ self.statics = <<>> /\ self.literals = <<>>
    BY <1>3
  <2> QED
    BY <1>4, <1>5, <1>6, <1>7, <1>8, <2>1 DEF GoodBody
<1>10. last \in Nat /\ 0 \in 0..last /\ last \in 0..last
  BY DEF ItemsTyped
<1>11. self \in W[0]
  BY <1>8, <1>9, <1>10
<1>12. ASSUME NEW k \in 1..last, NEW v \in W[k - 1] PROVE ReadItem(v, items[k]) \in W[k]
  <2>1. k - 1 \in 0..last /\ k \in 0..last
    BY <1>10
  <2>2. GoodBody(v, more, known, items, k - 1) /\ v.symbols \in S /\ v \in BodyType(Nat)
    BY <2>1
  <2>3. GoodBody(ReadItem(v, items[k]), more, known, items, k)
    BY <1>5, <2>2, GoodStep
  <2>4. ReadItem(v, items[k]) \in BodyType(Nat)
    BY <2>3 DEF GoodBody
  <2>5. ReadItem(v, items[k]).symbols \in S
    BY <2>2, <2>4
  <2> QED
    BY <2>1, <2>3, <2>4, <2>5
<1>13. \A v \in V, i \in 1..Len(items) : ReadItem(v, items[i]) \in V
  BY ReadItemTyped
<1> HIDE DEF V, W
<1>14. read \in W[last]
  BY <1>8, <1>11, <1>12, <1>13, Reading DEF ItemsTyped
<1>15. read \in BodyType(Nat) /\ read.symbols \in S
  BY <1>10, <1>14 DEF W
<1>16. ReadBody(d, all, known) = [read EXCEPT !.statics = Append(@, Latest(self))]
  BY DEF ReadBody, read, self, s, counts
<1> HIDE DEF read
<1>17. ReadBody(d, all, known).symbols = read.symbols
  BY <1>15, <1>16 DEF BodyType
<1> QED
  BY <1>15, <1>17

\* The Symbols a function adds.
LEMMA ReadBodyMade ==
  ASSUME OwnNamesApart, NEW d \in Declarations, d.kind = "function", ItemsTyped(d.body),
         counters \in CountersType, NEW n \in Nat, NEW all, Table(all, n),
         NEW known \in Partial(1..n), Resolves(d.body, known)
  PROVE  MadeTable(ReadBody(d, all, known).symbols, n, ExternNames(d))
<1> DEFINE names == ExternNames(d)
           S == {t \in Seq(SymbolType) : MadeTable(t, n, names)}
           s == Storage(Private(counters.static), Plain, 2, 1)
           items == d.body
<1>1. all \in Seq(SymbolType) /\ Len(all) = n /\ counters.static \in Nat
  BY DEF Table, CountersType
<1>2. s.name = Private(counters.static) /\ s.internal /\ s.storage = "static"
  BY StorageSays
<1>3. s \in SymbolType
  <2>1. Private(counters.static) \in Names /\ 2 \in Positive /\ 1 \in Positive
    BY <1>1 DEF Names, Positive
  <2> QED
    BY <2>1, StorageType
<1> HIDE DEF s
<1>4. Append(all, s) \in S
  <2>1. OwnName(s.name)
    BY <1>1, <1>2 DEF OwnName
  <2>2. Made(s, names)
    BY <1>2, <2>1 DEF Made
  <2>3. MadeTable(all, n, names)
    BY <1>1 DEF MadeTable
  <2> HIDE DEF names
  <2>4. MadeTable(Append(all, s), n, names) /\ Append(all, s) \in Seq(SymbolType)
    BY <1>1, <1>3, <2>2, <2>3, MadeMore
  <2> QED
    BY <2>4
<1>5. \A i \in 1..Len(items) :
        items[i].kind = "extern" => items[i].name \in names /\ ~OwnName(items[i].name)
  <2>1. ASSUME NEW i \in 1..Len(items), items[i].kind = "extern" PROVE items[i].name \in names
    <3>1. items[i] \in ToSet(items)
      BY DEF ToSet
    <3> QED
      BY <2>1, <3>1 DEF ExternNames, Externs
  <2>2. \A i \in 1..Len(items) : items[i].kind = "extern" => ~OwnName(items[i].name)
    BY DEF OwnNamesApart
  <2> QED
    BY <2>1, <2>2
<1>6. ASSUME NEW v \in BodyType(Nat), NEW i \in 1..Len(items), v.symbols \in S,
             ReadItem(v, items[i]) \in BodyType(Nat)
      PROVE  ReadItem(v, items[i]).symbols \in S
  <2> DEFINE R == ReadItem(v, items[i])
  <2>1. v.symbols \in Seq(SymbolType) /\ MadeTable(v.symbols, n, names)
    BY <1>6
  <2>2. R.symbols = v.symbols \/ \E t : Made(t, names) /\ R.symbols = Append(v.symbols, t)
    <3> HIDE DEF names
    <3> QED
      BY <1>5, ItemMade
  <2>3. R.symbols \in Seq(SymbolType)
    <3>1. R \in BodyType(Nat)
      BY <1>6
    <3> QED
      BY <3>1 DEF BodyType
  <2> HIDE DEF R, names
  <2>4. MadeTable(R.symbols, n, names)
    BY <2>1, <2>2, MadeMore
  <2>5. R.symbols \in S
    BY <2>3, <2>4
  <2> QED
    BY <2>5 DEF R
<1> HIDE DEF S, names
<1>7. ReadBody(d, all, known).symbols \in S
  BY <1>4, <1>6, ReadBodyIn DEF s
<1> QED
  BY <1>7 DEF S, names
-----------------------------------------------------------------------------
\* A function keeps what there is: its Symbols, and what its body adds to them.
LEMMA OnlyMade ==
  ASSUME Coherent, NEW d \in Declarations, d.kind = "function", NEW known, NEW all, NEW more,
         Only(all, known), Len(all) \in Nat, \A i \in 1..Len(all) : more[i] = all[i],
         MadeTable(more, Len(all), ExternNames(d))
  PROVE  Only(more, known)
<1> SUFFICES ASSUME NEW i \in 1..Len(more), Lone(more[i].name), ~OwnName(more[i].name)
             PROVE  more[i].name \in DOMAIN known /\ known[more[i].name] = i
  BY DEF Only
<1>1. CASE i \in 1..Len(all)
  BY <1>1 DEF Only
<1>2. CASE i \notin 1..Len(all)
  <2>1. more[i].name \in ExternNames(d)
    BY <1>2 DEF MadeTable, Made
  <2>2. PICK e \in Declarations : Defining(e) /\ e.name = more[i].name
    BY DEF Lone
  <2> QED
    BY <2>1, <2>2 DEF Coherent
<1> QED
  BY <1>1, <1>2

LEMMA OwnMade ==
  ASSUME OwnNamesApart, NEW d \in Declarations, d.kind = "function", ItemsTyped(d.body),
         NEW all, NEW more, OwnStatic(all), \A i \in 1..Len(all) : more[i] = all[i],
         MadeTable(more, Len(all), ExternNames(d))
  PROVE  OwnStatic(more)
<1>1. \A i \in 1..Len(more) : i \in 1..Len(all) \/ Made(more[i], ExternNames(d))
  BY DEF MadeTable
<1> QED
  BY <1>1 DEF OwnStatic, Made

LEMMA LinkedMade ==
  ASSUME NEW known, NEW all, NEW more, NEW c, NEW e, Linked(all, known, c),
         \A x \in DOMAIN known : ~OwnName(x) /\ more[known[x]] = all[known[x]],
         NEW kept, \A x \in kept : OwnName(x),
         e.seen = c.seen, e.internal = c.internal \cup kept
  PROVE  Linked(more, known, e)
BY DEF Linked

\* What was right of a function is right after another one.
LEMMA RowCarried ==
  ASSUME NEW r, NEW placed, NEW c, RowRight(r, placed, c), NEW next, NEW e,
         c.owed \subseteq e.owed, r.name \in c.internal <=> r.name \in e.internal,
         r.name \in DOMAIN next, next[r.name] = placed[r.name]
  PROVE  RowRight(r, next, e)
BY DEF RowRight

LEMMA KeptFunction ==
  ASSUME OwnNamesApart, Coherent, UnitInv, MoreInv, KeptInv, stage = "declarations",
         stage' = stage, NEW d \in Declarations, DefineFunction(d)
  PROVE  KeptInv'
<1> DEFINE n == Len(symbols)
           name == d.name
           function == Number(name)
           known == Put(scope, name, function)
           all == Defined(name, TRUE, d.storage, TRUE)
           k == Len(all)
           read == ReadBody(d, all, known)
           more == read.symbols
           m == Len(more)
           added == read.statics \o read.literals
           kept == {more[s].name : s \in ToSet(added)}
           start == builder.sections[TextSection].size
           size == CodeSize(read.uses)
           place == At(TextSection, start, size)
           claim == Claim(name, TRUE, d.storage = "static")
           Meant(i) == [section |-> TextSection, offset |-> start + ReferenceSize * (i - 1),
                        name |-> more[read.uses[i]].name]
           meant == claim.meant \cup {Meant(i) : i \in 1..Len(read.uses)}
           placed == Put(claims.placed, name, place)
           c == claims'
<1>1. /\ d.kind = "function" /\ Resolves(d.body, known) /\ ~Conflict(name, TRUE, TRUE)
      /\ scope' = known /\ symbols' = more
      /\ globals' = AddGlobals(globals, added)
      /\ builder' = Encoded(function, read.uses, more)
  BY DEF DefineFunction
<1>2. claims' = [claim EXCEPT !.meant = meant, !.owed = claim.owed \cup kept,
                              !.internal = claim.internal \cup kept,
                              !.placed = Put(claim.placed, name, place)]
  BY DEF DefineFunction
<1>3. /\ n \in Nat /\ Table(symbols, n) /\ Scoped(scope, symbols) /\ symbols \in Seq(SymbolType)
      /\ globals \in Seq(1..n) /\ counters \in CountersType
      /\ builder \in BuilderType(n) /\ ScopeSound(scope, symbols) /\ Sound(symbols, counters)
      /\ EarlyBuilder(builder, symbols, FunctionNames(scope, symbols))
      /\ PointersWide(symbols) /\ Parts(claims)
  BY Between DEF UnitInv
<1>4. /\ name \in Names /\ SizeOf(name) \in Positive /\ d.storage \in Storages
      /\ ItemsTyped(d.body) /\ TRUE \in BOOLEAN /\ ~OwnName(name)
  BY <1>1, DeclarationTyped DEF OwnNamesApart
<1>5. /\ Only(symbols, scope) /\ Linked(symbols, scope, claims) /\ Stored(globals, symbols, claims)
      /\ Ones(builder) /\ RowsRight(builder, claims.placed, claims)
      /\ Owing(builder, globals, symbols, claims) /\ OwnStatic(symbols)
  BY DEF KeptInv
<1>6. Defining(d) /\ TRUE = Defining(d) /\ Lone(name)
  BY <1>1 DEF Defining, Lone
<1> HIDE DEF n
<1>7. /\ k \in Nat /\ n <= k /\ Table(all, k) /\ function \in 1..k /\ Scoped(known, all)
  BY <1>3, <1>4, DefinedTable
<1>8. DefinedAs(name, d.storage, all)
  BY <1>3, <1>4, DefinedSays
<1>9. /\ DOMAIN known = DOMAIN scope \cup {name} /\ known[name] = function
      /\ \A y \in DOMAIN scope : y # name => known[y] = scope[y]
  BY DEF Put
<1>30. Declares(name, TRUE, known, all) /\ PointersWide(all)
  BY <1>1, <1>3, <1>4, DefinedParts
<1> HIDE DEF known, all
<1>10. DeclaredAs(d, known, all)
  <2>1. ~(d.kind = "object" /\ d.init # "none")
    BY <1>1
  <2>2. function \in 1..Len(symbols) /\ symbols[function].initializer.set
          => all[function].initializer.set
    BY <1>8 DEF DefinedAs
  <2> QED
    BY <1>8, <1>9, <2>1, <2>2 DEF DefinedAs, DeclaredAs
<1>11. /\ ClaimedAs(d, claim) /\ claim.placed = claims.placed /\ Parts(claim)
  BY <1>3, <1>4, <1>6, ClaimSays
<1> HIDE DEF claim, function, k, meant
<1>12. /\ known \in Partial(1..k) /\ \A x \in DOMAIN known : known[x] \in 1..k
       /\ \A x \in DOMAIN known : all[known[x]].name = x
  BY <1>7, PartialDef DEF Scoped, k
<1>13. GoodBody(read, all, known, d.body, Len(d.body))
  BY <1>1, <1>3, <1>4, <1>7, <1>12, ReadBodyGood
<1>14. MadeTable(more, k, ExternNames(d))
  BY <1>1, <1>3, <1>4, <1>7, <1>12, ReadBodyMade
<1>15. SoundBody(read) /\ ScopeSound(known, all)
  <2>1. Sound(all, counters) /\ ScopeSound(known, all)
    BY <1>3, <1>4, <1>30, DeclaredSound
  <2> QED
    BY <1>1, <1>3, <1>4, <1>7, <1>12, <2>1, ReadBodySound
<1> HIDE DEF read
<1>16. /\ m \in Nat /\ k <= m /\ Table(more, m) /\ \A i \in 1..k : more[i] = all[i]
       /\ read.uses \in Seq(1..m) /\ read.statics \in Seq(1..m) /\ read.literals \in Seq(1..m)
  <2>1. m \in Nat
    BY <1>13 DEF GoodBody, BodyType
  <2> QED
    BY <1>13, <2>1 DEF GoodBody, k
<1>17. /\ Sound(more, read.counters) /\ OwnAll(more, read.statics) /\ OwnAll(more, read.literals)
  BY <1>15 DEF SoundBody
<1>18. \A g \in ToSet(added) : g \in 1..m /\ OwnName(more[g].name)
  <2> DEFINE a == read.statics
             b == read.literals
             T == 1..m
  <2>1. a \in Seq(T) /\ b \in Seq(T) /\ added = a \o b
    BY <1>16
  <2>2. OwnAll(more, a) /\ OwnAll(more, b)
    BY <1>17
  <2> HIDE DEF a, b, T, added
  <2>3. /\ added \in Seq(T) /\ Len(added) = Len(a) + Len(b)
        /\ \A i \in 1..Len(added) : added[i] = IF i <= Len(a) THEN a[i] ELSE b[i - Len(a)]
    BY <2>1
  <2>4. ASSUME NEW i \in 1..Len(added) PROVE OwnName(more[added[i]].name)
    <3>1. Len(a) \in Nat /\ Len(b) \in Nat
      BY <2>1
    <3>2. CASE i <= Len(a)
      <4>1. i \in 1..Len(a) /\ added[i] = a[i]
        BY <2>3, <3>1, <3>2
      <4> QED
        BY <2>2, <4>1 DEF OwnAll
    <3>3. CASE ~(i <= Len(a))
      <4>1. i - Len(a) \in 1..Len(b) /\ added[i] = b[i - Len(a)]
        BY <2>3, <3>1, <3>3
      <4> QED
        BY <2>2, <4>1 DEF OwnAll
    <3> QED
      BY <3>2, <3>3
  <2>5. \A i \in 1..Len(added) : added[i] \in T
    BY <2>3
  <2> QED
    BY <2>4, <2>5 DEF ToSet, T
<1>19. added \in Seq(1..m)
  BY <1>16
<1> HIDE DEF more, added, m
<1>20. /\ c.owed = claim.owed \cup kept /\ c.internal = claim.internal \cup kept
       /\ c.seen = claim.seen /\ c.placed = placed
  <2> HIDE DEF kept, place
  <2>1. claims' = [owed |-> claim.owed \cup kept, seen |-> claim.seen,
                   internal |-> claim.internal \cup kept, meant |-> meant, placed |-> placed]
    BY <1>2, <1>11 DEF Parts
  <2> QED
    BY <2>1
<1> HIDE DEF c
<1>21. \A x \in kept : OwnName(x)
  BY <1>18
<1>22. /\ claims.owed \subseteq claim.owed /\ name \in claim.owed
       /\ \A x \in claim.owed : x \in claims.owed \/ x = name
  BY <1>6, <1>11 DEF ClaimedAs
<1>23. /\ \A i \in 1..n : i \in 1..k /\ all[i].name = symbols[i].name
       /\ \A i \in 1..n : i \in 1..m /\ more[i].name = symbols[i].name
  <2>1. \A i \in 1..n : i \in 1..k /\ all[i].name = symbols[i].name
    BY <1>8 DEF DefinedAs, n, k
  <2>2. \A i \in 1..k : i \in 1..m
    BY <1>7, <1>16
  <2> QED
    BY <1>16, <2>1, <2>2
<1>24. \A x \in DOMAIN known : ~OwnName(x) /\ more[known[x]] = all[known[x]]
  BY <1>12, <1>15, <1>16 DEF ScopeSound
<1>25. Only(more, known) /\ OwnStatic(more)
  <2>1. Only(all, known) /\ OwnStatic(all)
    BY <1>4, <1>5, <1>10, OnlyDeclared, OwnDeclared
  <2>2. \A i \in 1..Len(all) : more[i] = all[i]
    BY <1>16 DEF k
  <2>3. MadeTable(more, Len(all), ExternNames(d)) /\ Len(all) \in Nat
    BY <1>7, <1>14 DEF k
  <2> QED
    BY <1>1, <1>4, <2>1, <2>2, <2>3, OnlyMade, OwnMade
<1>26. /\ Linked(all, known, claim)
       /\ \A x \in DOMAIN scope : x \in claim.internal <=> x \in claims.internal
  BY <1>3, <1>4, <1>5, <1>10, <1>11, LinkedDeclared
<1>27. Linked(more, known, c)
  <2> HIDE DEF kept
  <2> QED
    BY <1>20, <1>21, <1>24, <1>26, LinkedMade
<1>28. /\ ToSet(globals') = ToSet(globals) \cup ToSet(added)
       /\ \A g \in ToSet(globals) : g \in 1..n
  <2>1. globals \in Seq(1..m)
    <3>1. 1..n \subseteq 1..m
      BY <1>23
    <3> QED
      BY <1>3, <3>1, SeqMore
  <2>2. ToSet(AddGlobals(globals, added)) = ToSet(globals) \cup ToSet(added)
    BY <1>19, <2>1, AddGlobalsSet
  <2>3. \A g \in ToSet(globals) : g \in 1..n
    BY <1>3 DEF ToSet
  <2> QED
    BY <1>1, <2>2, <2>3
<1>29. Stored(globals', more, c)
  <2>1. Stored(globals, all, claim)
    BY <1>3, <1>4, <1>5, <1>10, <1>11, StoredDeclared DEF n
  <2>2. ASSUME NEW g \in ToSet(globals) PROVE StoredAt(g, more, c)
    <3>1. StoredAt(g, all, claim)
      BY <2>1 DEF Stored
    <3>2. more[g] = all[g]
      BY <1>16, <1>23, <1>28
    <3> QED
      BY <1>20, <3>1, <3>2 DEF StoredAt
  <2>3. ASSUME NEW g \in ToSet(added) PROVE StoredAt(g, more, c)
    <3>1. more[g].name \in kept /\ OwnName(more[g].name)
      BY <1>18
    <3> HIDE DEF kept
    <3> QED
      BY <1>20, <3>1 DEF StoredAt
  <2> QED
    BY <1>28, <2>2, <2>3 DEF Stored
<1>31. OneEach(more)
  BY <1>17, <1>25, OneSymbol
<1>32. builder \in BuilderType(m)
  <2>1. n <= m
    BY <1>3, <1>7, <1>16
  <2> QED
    BY <1>3, <1>16, <2>1, BuilderMore
<1>33. Sourced(builder, more)
  <2>1. ASSUME NEW i \in 1..Len(builder.records)
        PROVE  builder.records[i].source \in 1..Len(more)
               /\ builder.records[i].name = more[builder.records[i].source].name
    <3>1. builder.records[i] \in Early(symbols, FunctionNames(scope, symbols),
                                       builder.sections[TextSection].size)
      BY <1>3 DEF EarlyBuilder, Holds
    <3>2. /\ builder.records[i].source \in 1..n
          /\ builder.records[i].name = symbols[builder.records[i].source].name
      BY <3>1 DEF Early, n
    <3> QED
      BY <1>23, <3>2 DEF m
  <2> QED
    BY <2>1 DEF Sourced
<1>34. function \in 1..m /\ more[function].name = name
       /\ more[function].internal = (name \in c.internal)
  <2>1. name \in DOMAIN known /\ known[name] = function /\ function \in 1..k
    BY <1>7, <1>9
  <2>2. more[function].internal = StaticName(name) /\ (name \in c.internal <=> StaticName(name))
    BY <1>27, <2>1 DEF Linked
  <2>3. more[function].name = name
    BY <1>12, <1>16, <2>1
  <2>4. more[function].internal \in BOOLEAN
    <3>1. more[function] \in SymbolType
      BY <1>7, <1>16, <2>1 DEF Table
    <3> QED
      BY <3>1 DEF SymbolType
  <2>5. function \in 1..m
    BY <1>7, <1>16
  <2> QED
    BY <2>2, <2>3, <2>4, <2>5
<1>35. /\ DOMAIN placed = DOMAIN claims.placed \cup {name} /\ placed[name] = place
       /\ \A y \in DOMAIN claims.placed : y # name => placed[y] = claims.placed[y]
  BY DEF Put
<1> HIDE DEF placed, kept
<1>36. ASSUME NEW i \in 1..Len(builder.records), builder.records[i].section # 0,
              builder.records[i].name # name
       PROVE  RowRight(builder.records[i], placed, c)
  <2> DEFINE r == builder.records[i]
  <2>1. RowRight(r, claims.placed, claims) /\ r.name # name
    BY <1>5, <1>36 DEF RowsRight
  <2>2. r.name \in DOMAIN scope
    BY <1>3, <1>36, DefinedInScope
  <2> HIDE DEF r
  <2>3. r.name \in DOMAIN known
    BY <1>9, <2>2
  <2>4. r.name \in claims.internal <=> r.name \in c.internal
    BY <1>20, <1>21, <1>24, <1>26, <2>2, <2>3
  <2>5. r.name \in DOMAIN placed /\ placed[r.name] = claims.placed[r.name]
    BY <1>35, <2>1 DEF RowRight
  <2>6. claims.owed \subseteq c.owed
    BY <1>20, <1>22
  <2>7. RowRight(r, placed, c)
    BY <2>1, <2>4, <2>5, <2>6, RowCarried
  <2> QED
    BY <2>7 DEF r
<1>37. LET e == Encoded(function, read.uses, more)
       IN  /\ Ones(e) /\ RowsRight(e, placed, c) /\ HasDefinition(e, name)
           /\ \A y : HasDefinition(builder, y) => HasDefinition(e, y)
  <2>1. name \in c.owed /\ name \in DOMAIN placed
        /\ placed[name] = At(TextSection, builder.sections[TextSection].size, CodeSize(read.uses))
    BY <1>20, <1>22, <1>35
  <2> DEFINE x == more[function].name
             uses == read.uses
  <2>2. x = name
    BY <1>34
  <2>3. /\ \A i \in 1..Len(builder.records) :
             builder.records[i].section # 0 /\ builder.records[i].name # x
               => RowRight(builder.records[i], placed, c)
        /\ Lone(x) /\ x \in c.owed /\ more[function].internal = (x \in c.internal)
        /\ x \in DOMAIN placed
        /\ placed[x] = At(TextSection, builder.sections[TextSection].size, CodeSize(uses))
        /\ uses \in Seq(1..m)
    BY <1>6, <1>16, <1>34, <1>36, <2>1, <2>2
  <2> HIDE DEF uses, name
  <2>4. LET e == Encoded(function, uses, more)
        IN  /\ Ones(e) /\ RowsRight(e, placed, c) /\ HasDefinition(e, more[function].name)
            /\ \A y : HasDefinition(builder, y) => HasDefinition(e, y)
    BY <1>16, <1>31, <1>32, <1>33, <1>34, <1>5, <2>3, EncodedKept
  <2> QED
    BY <2>2, <2>4 DEF uses
<1>38. /\ Ones(builder') /\ RowsRight(builder', placed, c) /\ HasDefinition(builder', name)
       /\ \A y : HasDefinition(builder, y) => HasDefinition(builder', y)
  BY <1>1, <1>37
<1>39. Owing(builder', globals', more, c)
  <2>1. ASSUME NEW x \in c.owed
        PROVE  Lone(x) /\ (x \in {more[g].name : g \in ToSet(globals')} \/ HasDefinition(builder', x))
    <3>1. CASE x \in claims.owed
      <4>1. /\ Lone(x)
            /\ x \in {symbols[g].name : g \in ToSet(globals)} \/ HasDefinition(builder, x)
        BY <1>5, <3>1 DEF Owing
      <4>2. \A g \in ToSet(globals) : g \in ToSet(globals') /\ more[g].name = symbols[g].name
        BY <1>23, <1>28
      <4> QED
        BY <1>38, <4>1, <4>2
    <3>2. CASE x = name
      BY <1>6, <1>38, <3>2
    <3>3. CASE x \in kept
      <4>1. PICK g \in ToSet(added) : x = more[g].name
        BY <3>3 DEF kept
      <4>2. Lone(x)
        BY <1>21, <3>3 DEF Lone
      <4> QED
        BY <1>28, <4>1, <4>2
    <3> QED
      BY <1>20, <1>22, <3>1, <3>2, <3>3
  <2> QED
    BY <2>1 DEF Owing
<1>40. RowsRight(builder', c.placed, c)
  BY <1>20, <1>38
<1>41. /\ Only(symbols', scope') /\ Linked(symbols', scope', claims')
       /\ Stored(globals', symbols', claims') /\ OwnStatic(symbols')
       /\ RowsRight(builder', claims'.placed, claims')
       /\ Owing(builder', globals', symbols', claims')
  BY <1>1, <1>25, <1>27, <1>29, <1>39, <1>40 DEF c
<1>42. Ones(builder')
  BY <1>38
<1>43. stage' = "declarations"
  OBVIOUS
<1> QED
  BY <1>41, <1>42, <1>43 DEF KeptInv, Ones, RowsRight, Owing, HasDefinition
-----------------------------------------------------------------------------
\* What is known of an object with storage when the unit ends.
Storing(g) ==
  LET s == symbols[g] IN
  /\ ~Announced(g) /\ Lone(s.name) /\ s.name \in claims.owed
  /\ s.internal = (s.name \in claims.internal)

\* Halfway what is said is right, or it is an object's in .data that has no value yet.
RowHalf(r, placed) ==
  /\ r.name \in claims.owed /\ r.global = (r.name \notin claims.internal)
  /\ IF r.name \in DataNames THEN r.section = DataSection ELSE RowRight(r, placed, claims)

Half(b, placed) ==
  /\ Ones(b) /\ Sourced(b, symbols)
  /\ \A i \in 1..Len(b.records) : b.records[i].section # 0 => RowHalf(b.records[i], placed)

\* What is said of a name is right.
NamedRight(b, placed, x) ==
  \A i \in 1..Len(b.records) :
    b.records[i].name = x /\ b.records[i].section # 0 => RowRight(b.records[i], placed, claims)

\* More is placed, but of what was placed no more than x is placed elsewhere.
PlacesBut(placed, more, x) ==
  \A y \in DOMAIN placed : y # x => y \in DOMAIN more /\ more[y] = placed[y]

\* c says of x what it should, and of the others what b did.
Improves(b, c, placed, more, x) ==
  /\ Half(c, more) /\ HasDefinition(c, x)
  /\ \A y : HasDefinition(b, y) => HasDefinition(c, y)

LEMMA PutPlaces ==
  ASSUME NEW placed, NEW x, NEW place
  PROVE  /\ PlacesBut(placed, Put(placed, x, place), x)
         /\ x \in DOMAIN Put(placed, x, place) /\ Put(placed, x, place)[x] = place
BY DEF PlacesBut, Put

LEMMA ExtendedHalf ==
  ASSUME NEW b, NEW c, Extended(b, c), NEW placed, Half(b, placed), Ones(c), Sourced(c, symbols)
  PROVE  /\ Half(c, placed) /\ \A y : HasDefinition(b, y) => HasDefinition(c, y)
         /\ \A x : NamedRight(b, placed, x) => NamedRight(c, placed, x)
<1>1. \A y : HasDefinition(b, y) => HasDefinition(c, y)
  BY ExtendedRight
<1>2. Half(c, placed)
  <2>1. ASSUME NEW i \in 1..Len(c.records), c.records[i].section # 0
        PROVE  RowHalf(c.records[i], placed)
    BY <2>1 DEF Extended, Half
  <2> QED
    BY <2>1 DEF Half
<1>3. ASSUME NEW x, NamedRight(b, placed, x) PROVE NamedRight(c, placed, x)
  BY <1>3 DEF Extended, NamedRight
<1> QED
  BY <1>1, <1>2, <1>3

\* A record of such a name is rewritten, and right then.
LEMMA RowImproved ==
  ASSUME NEW b, NEW c, NEW i \in 1..Len(b.records), NEW r, Rewritten(b, c, i, r),
         NEW placed, NEW more, PlacesBut(placed, more, r.name),
         Half(b, placed), Lone(r.name), r.section # 0, RowHalf(r, more)
  PROVE  /\ Improves(b, c, placed, more, r.name)
         /\ RowRight(r, more, claims) =>
              /\ NamedRight(c, more, r.name)
              /\ \A x : NamedRight(b, placed, x) => NamedRight(c, more, x)
<1>1. /\ Len(c.records) = Len(b.records) /\ c.records[i] = r /\ r.name = b.records[i].name
      /\ \A j \in 1..Len(b.records) : j # i => c.records[j] = b.records[j]
  BY DEF Rewritten
<1>2. Ones(b) /\ Sourced(b, symbols)
  BY DEF Half
<1>3. Ones(c) /\ Sourced(c, symbols)
  BY <1>2, RewrittenOnes
<1>4. \A j \in 1..Len(b.records) : j # i => b.records[j].name # r.name
  BY <1>1, <1>2 DEF Ones
<1>5. ASSUME NEW o, o.name # r.name, RowRight(o, placed, claims) PROVE RowRight(o, more, claims)
  BY <1>5 DEF RowRight, PlacesBut
<1>6. Half(c, more)
  <2>1. ASSUME NEW j \in 1..Len(c.records), c.records[j].section # 0
        PROVE  RowHalf(c.records[j], more)
    <3>1. CASE j = i
      BY <1>1, <3>1
    <3>2. CASE j # i
      <4>1. /\ c.records[j] = b.records[j] /\ b.records[j].name # r.name
            /\ RowHalf(b.records[j], placed)
        BY <1>1, <1>4, <2>1, <3>2 DEF Half
      <4> DEFINE o == b.records[j]
      <4>2. o.name # r.name /\ RowHalf(o, placed) /\ c.records[j] = o
        BY <4>1
      <4> HIDE DEF o
      <4> QED
        BY <1>5, <4>2 DEF RowHalf
    <3> QED
      BY <3>1, <3>2
  <2> QED
    BY <1>3, <2>1 DEF Half
<1>7. HasDefinition(c, r.name)
  BY <1>1 DEF HasDefinition
<1>8. ASSUME NEW y, HasDefinition(b, y) PROVE HasDefinition(c, y)
  <2>1. PICK j \in 1..Len(b.records) : b.records[j].name = y /\ b.records[j].section # 0
    BY <1>8 DEF HasDefinition
  <2>2. CASE j = i
    BY <1>1, <1>7, <2>1, <2>2
  <2>3. CASE j # i
    BY <1>1, <2>1, <2>3 DEF HasDefinition
  <2> QED
    BY <2>2, <2>3
<1>9. ASSUME RowRight(r, more, claims) PROVE NamedRight(c, more, r.name)
  <2>1. ASSUME NEW j \in 1..Len(c.records), c.records[j].name = r.name
        PROVE  RowRight(c.records[j], more, claims)
    <3>1. j = i
      BY <1>1, <1>4, <2>1
    <3> QED
      BY <1>1, <1>9, <3>1
  <2> QED
    BY <2>1 DEF NamedRight
<1>10. ASSUME RowRight(r, more, claims), NEW x, NamedRight(b, placed, x)
       PROVE  NamedRight(c, more, x)
  <2>1. ASSUME NEW j \in 1..Len(c.records), c.records[j].name = x, c.records[j].section # 0
        PROVE  RowRight(c.records[j], more, claims)
    <3>1. CASE j = i
      BY <1>1, <1>10, <3>1
    <3>2. CASE j # i
      <4>1. /\ c.records[j] = b.records[j] /\ b.records[j].name # r.name
        BY <1>1, <1>4, <3>2
      <4>2. RowRight(b.records[j], placed, claims)
        BY <1>1, <1>10, <2>1, <4>1 DEF NamedRight
      <4> DEFINE o == b.records[j]
      <4>3. o.name # r.name /\ RowRight(o, placed, claims) /\ c.records[j] = o
        BY <4>1, <4>2
      <4> HIDE DEF o
      <4> QED
        BY <1>5, <4>3
    <3> QED
      BY <3>1, <3>2
  <2> QED
    BY <2>1 DEF NamedRight
<1> QED
  BY <1>6, <1>7, <1>8, <1>9, <1>10 DEF Improves

\* What Indexed finds or makes is of the Symbol and has its name.
LEMMA IndexedNamed ==
  ASSUME NEW n \in Nat, NEW b \in BuilderType(n), NEW all, Table(all, n), NEW symbol \in 1..n,
         NEW i \in 1..Len(b.records), Sourced(b, all), Owns(b.records[i], symbol, all[symbol].name)
  PROVE  b.records[i].name = all[symbol].name
<1> DEFINE o == b.records[i]
<1>1. o.source = 0 \/ o.name = all[o.source].name
  BY DEF Sourced
<1>2. o.source = symbol \/ (o.source = 0 /\ o.name = all[symbol].name)
  BY DEF Owns
<1>3. symbol # 0
  OBVIOUS
<1> QED
  BY <1>1, <1>2, <1>3

\* prepare_global_symbol says of an object what it should.
LEMMA PrepareHalf ==
  ASSUME NEW n \in Nat, Table(symbols, n), OneEach(symbols), NEW work \in Works(n),
         NEW symbol \in ToSet(globals), symbol \in 1..n, NEW functions, GlobalsApart(functions),
         Storing(symbol), Half(work.builder, work.placed)
  PROVE  LET w == Prepare(work, symbol)
         IN  Improves(work.builder, w.builder, work.placed, w.placed, symbols[symbol].name)
<1> DEFINE s == symbols[symbol]
           old == work.builder
           b == Indexed(old, symbol, symbols)
           i == Index(b, symbol, symbols)
           section == IF s.initializer.set THEN DataSection ELSE BssSection
           global == ~s.internal
           o == b.records[i]
           r == [o EXCEPT !.section = section, !.kind = Object, !.global = global, !.size = s.size]
           marked == [b EXCEPT !.records = [b.records EXCEPT ![i] = r]]
           offset == AlignTo(b.sections[BssSection].size, s.align)
           q == [marked.records[i] EXCEPT !.value = offset]
           valued == [marked EXCEPT !.records = [marked.records EXCEPT ![i] = q]]
           done == [valued EXCEPT !.sections = [valued.sections EXCEPT ![BssSection] =
                     [valued.sections[BssSection] EXCEPT !.size = offset + s.size]]]
           more == Put(work.placed, s.name, At(BssSection, offset, s.size))
           w == Prepare(work, symbol)
<1>1. s \in SymbolType
  BY DEF Table
<1>2. /\ s.internal \in BOOLEAN /\ s.align \in Positive /\ s.size \in Nat
  BY <1>1 DEF SymbolType, Positive
<1>3. work = [builder |-> old, placed |-> work.placed] /\ old \in BuilderType(n)
  BY WorksDef
<1>4. /\ ~Announced(symbol) /\ Lone(s.name) /\ s.name \in claims.owed
      /\ global = (s.name \notin claims.internal)
  BY <1>2 DEF Storing
<1>5. Half(old, work.placed) /\ Ones(old) /\ Sourced(old, symbols)
  BY DEF Half
<1>6. s.name \in DataNames <=> s.initializer.set
  <2>1. symbol \in DataObjects <=> s.initializer.set
    BY DEF DataObjects
  <2> QED
    BY <2>1 DEF DataNames, DataObjects, GlobalsApart
<1>7. TextSection = 1 /\ DataSection = 2 /\ BssSection = 3
  BY DEF TextSection, DataSection, BssSection
<1> HIDE DEF old
<1>8. b \in BuilderType(n)
  BY <1>3, IndexedType
<1>9. i \in 1..Len(b.records) /\ Owns(o, symbol, s.name)
  BY <1>3, IndexedParts
<1>10. Ones(b) /\ Sourced(b, symbols) /\ Extended(old, b)
  BY <1>3, <1>5, IndexedOnes
<1>11. section \in 0..3 /\ section # 0 /\ global \in BOOLEAN /\ Object \in Nat
       /\ section = IF s.initializer.set THEN DataSection ELSE BssSection
  BY <1>7 DEF Object
<1>12. w = IF s.initializer.set THEN [builder |-> marked, placed |-> work.placed]
           ELSE [builder |-> done, placed |-> more]
  <2>1. marked = [b EXCEPT !.records[i] =
                    [@ EXCEPT !.section = section, !.kind = Object, !.global = global,
                              !.size = s.size]]
    <3> HIDE DEF b, i, section, global, s
    <3> QED
      BY <1>8 DEF BuilderType
  <2>2. marked \in BuilderType(n)
    <3> HIDE DEF b, i, section, global, s, o
    <3>1. i \in 1..Len(b.records) => r \in RecordType(n)
      <4>1. i \in 1..Len(b.records) => o \in RecordType(n)
        BY <1>8 DEF BuilderType, o
      <4> QED
        BY <1>2, <1>11, <4>1, MarkingType
    <3> HIDE DEF r
    <3> QED
      BY <1>8, <3>1, RecordChanged
  <2> HIDE DEF marked
  <2>3. done = [marked EXCEPT !.records[i].value = offset,
                              !.sections[BssSection].size = offset + s.size]
    <3> HIDE DEF i, offset, s
    <3> QED
      BY <2>2 DEF BuilderType
  <2> HIDE DEF done
  <2>4. w = IF Announced(symbol) THEN [work EXCEPT !.builder = b]
            ELSE IF s.initializer.set THEN [work EXCEPT !.builder = marked]
            ELSE [builder |-> done, placed |-> more]
    BY <2>1, <2>3, Zenon DEF Prepare, s, b, i, section, global, offset, old
  <2> HIDE DEF b, s, offset, w, more
  <2> QED
    BY <1>3, <1>4, <2>4
<1> HIDE DEF b, i, s, section, global, w
<1>13. /\ Half(b, work.placed) /\ \A y : HasDefinition(old, y) => HasDefinition(b, y)
  BY <1>5, <1>10, ExtendedHalf
<1>14. o \in RecordType(n) /\ o.name = s.name
  <2>1. b.records \in Seq(RecordType(n))
    BY <1>8, SectionsTyped
  <2>2. b.records[i].name = symbols[symbol].name
    <3>1. Owns(b.records[i], symbol, symbols[symbol].name)
      BY <1>9 DEF s
    <3> QED
      BY <1>8, <1>9, <1>10, <3>1, IndexedNamed
  <2> QED
    BY <1>9, <2>1, <2>2 DEF s
<1> HIDE DEF o
<1>15. r \in RecordType(n)
  BY <1>2, <1>11, <1>14, MarkingType
<1>16. Says(r, o, section, Object, o.value, s.size) /\ r.global = global
  <2>1. r.global = global
    BY <1>14 DEF RecordType
  <2> QED
    BY <1>14, <2>1, Marking
<1> HIDE DEF r
<1>17. /\ r.section = section /\ r.size = s.size /\ r.name = s.name
       /\ r.name = b.records[i].name /\ r.source = b.records[i].source
  BY <1>14, <1>16 DEF Says, o
<1>18. marked \in BuilderType(n) /\ Rewritten(b, marked, i, r)
  BY <1>8, <1>9, <1>15, <1>17, RecordChanged, RecordRewritten
<1> HIDE DEF marked
<1>19. CASE s.initializer.set
  <2>1. RowHalf(r, work.placed)
    BY <1>4, <1>6, <1>11, <1>16, <1>17, <1>19 DEF RowHalf
  <2>2. PlacesBut(work.placed, work.placed, r.name)
    BY DEF PlacesBut
  <2>3. r.section # 0 /\ Lone(r.name)
    BY <1>4, <1>11, <1>17
  <2>4. Improves(b, marked, work.placed, work.placed, r.name)
    BY <1>9, <1>13, <1>18, <2>1, <2>2, <2>3, RowImproved
  <2>5. w.builder = marked /\ w.placed = work.placed
    <3> HIDE DEF done, more
    <3> QED
      BY <1>12, <1>19
  <2> QED
    BY <1>13, <1>17, <2>4, <2>5 DEF Improves, w, old, s
<1>20. CASE ~s.initializer.set
  <2>1. offset \in Nat
    <3>1. b.sections[BssSection].size \in Nat
      BY <1>7, <1>8, SectionsTyped
    <3> QED
      BY <1>2, <3>1, AlignToBounds
  <2> HIDE DEF offset
  <2>2. q = [r EXCEPT !.value = offset]
    BY <1>18 DEF Rewritten
  <2>3. q \in RecordType(n)
    BY <1>15, <2>1, <2>2, PuttingType
  <2>4. Says(q, r, r.section, r.kind, offset, r.size) /\ q.global = r.global
    <3>1. q.global = r.global
      BY <1>15, <2>2 DEF RecordType
    <3> QED
      BY <1>15, <2>2, <3>1, Putting
  <2> HIDE DEF q
  <2>5. /\ q.section = BssSection /\ q.value = offset /\ q.size = s.size /\ q.name = s.name
        /\ q.name = r.name /\ q.source = r.source /\ q.global = global
    BY <1>11, <1>16, <1>17, <1>20, <2>4 DEF Says
  <2>6. i \in 1..Len(marked.records) /\ marked.records[i] = r
    BY <1>9, <1>18 DEF Rewritten
  <2>7. valued \in BuilderType(n) /\ Rewritten(marked, valued, i, q)
    BY <1>18, <2>3, <2>5, <2>6, RecordChanged, RecordRewritten
  <2> HIDE DEF valued
  <2>8. done.records = valued.records
    BY <2>7 DEF BuilderType
  <2> HIDE DEF done
  <2>9. Rewritten(b, done, i, q)
    <3>1. /\ Len(marked.records) = Len(b.records) /\ Len(valued.records) = Len(marked.records)
          /\ valued.records[i] = q /\ q.name = b.records[i].name /\ q.source = b.records[i].source
          /\ \A j \in 1..Len(b.records) : j # i => marked.records[j] = b.records[j]
          /\ \A j \in 1..Len(marked.records) : j # i => valued.records[j] = marked.records[j]
      BY <1>17, <1>18, <2>5, <2>7 DEF Rewritten
    <3>2. \A j \in 1..Len(b.records) : j # i => valued.records[j] = b.records[j]
      BY <3>1
    <3> QED
      BY <2>8, <3>1, <3>2 DEF Rewritten
  <2>10. /\ PlacesBut(work.placed, more, s.name) /\ s.name \in DOMAIN more
         /\ more[s.name] = At(BssSection, offset, s.size)
    BY PutPlaces
  <2> HIDE DEF more
  <2>11. RowRight(q, more, claims)
    BY <1>4, <2>5, <2>10 DEF RowRight
  <2>12. RowHalf(q, more)
    BY <1>4, <1>6, <1>20, <2>5, <2>11 DEF RowHalf
  <2>13. q.section # 0 /\ Lone(q.name) /\ PlacesBut(work.placed, more, q.name)
    BY <1>4, <1>7, <2>5, <2>10
  <2>14. Improves(b, done, work.placed, more, q.name)
    BY <1>9, <1>13, <2>9, <2>12, <2>13, RowImproved
  <2>15. w.builder = done /\ w.placed = more
    BY <1>12, <1>20
  <2> QED
    BY <1>13, <2>5, <2>14, <2>15 DEF Improves, w, old, s
<1> QED
  BY <1>19, <1>20
-----------------------------------------------------------------------------
\* append_global_data writes where the bytes are to the one record of the name.
LEMMA EmitHalf ==
  ASSUME NEW n \in Nat, Table(symbols, n), OneEach(symbols), NEW work \in Works(n),
         NEW symbol \in ToSet(globals), symbol \in 1..n, Storing(symbol),
         Half(work.builder, work.placed), HasDefinition(work.builder, symbols[symbol].name)
  PROVE  LET w == Emit(work, symbol)
         IN  /\ Half(w.builder, w.placed)
             /\ \A y : HasDefinition(work.builder, y) => HasDefinition(w.builder, y)
             /\ \A x : NamedRight(work.builder, work.placed, x)
                         => NamedRight(w.builder, w.placed, x)
             /\ symbol \in DataObjects => NamedRight(w.builder, w.placed, symbols[symbol].name)
<1> DEFINE s == symbols[symbol]
           b == work.builder
           old == b.sections[DataSection].size
           offset == AlignTo(old, DataAlign(symbol))
           gap == offset - old
           size == s.size
           target == s.initializer.target
           padded == Appended(b, DataSection, gap)
           referred == IF target = 0 THEN padded
                       ELSE Relocated(padded, DataSection, offset, target, Data64, symbols)
           filled == Appended(referred, DataSection, size)
           done == Valued(filled, s.name, offset, size)
           more == Put(work.placed, s.name, At(DataSection, offset, size))
           w == Emit(work, symbol)
<1>1. /\ size \in Nat /\ target \in 0..n /\ DataAlign(symbol) \in Positive
  <2>1. s \in SymbolType /\ target \in 0..n
    BY DEF Table
  <2>2. s.size \in Positive /\ s.align \in Positive
    BY <2>1 DEF SymbolType
  <2> HIDE DEF target
  <2> QED
    BY <2>1, <2>2 DEF DataAlign, Positive
<1>2. b \in BuilderType(n) /\ work = [builder |-> b, placed |-> work.placed]
  BY WorksDef
<1>3. DataSection \in 1..3 /\ DataSection # 0
  BY DEF DataSection
<1>4. old \in Nat /\ offset \in Nat /\ gap \in Nat
  <2>1. old \in Nat
    BY <1>2, <1>3, SectionsTyped
  <2> HIDE DEF old
  <2>2. offset \in Nat /\ old <= offset
    BY <1>1, <2>1, AlignToBounds
  <2> HIDE DEF offset
  <2> QED
    BY <2>1, <2>2
<1>5. symbol \in DataObjects <=> s.initializer.set
  BY DEF DataObjects
<1>6. s.initializer.set => s.name \in DataNames
  BY <1>5 DEF DataNames
<1>7. Lone(s.name) /\ Half(b, work.placed) /\ Ones(b) /\ Sourced(b, symbols)
      /\ HasDefinition(b, s.name)
  BY DEF Storing, Half
<1>8. w = IF ~s.initializer.set THEN work ELSE [builder |-> done, placed |-> more]
  BY DEF Emit
<1> HIDE DEF b, gap, size, offset, old, target, s, w, more
<1>9. padded \in BuilderType(n) /\ padded.records = b.records
  BY <1>2, <1>3, <1>4, AppendedType, AppendedRecords
<1> HIDE DEF padded
<1>10. Ones(padded) /\ Sourced(padded, symbols) /\ Extended(b, padded)
  BY <1>7, <1>9 DEF Ones, Sourced, Extended
<1>11. /\ referred \in BuilderType(n) /\ Ones(referred) /\ Sourced(referred, symbols)
       /\ Extended(padded, referred)
  <2>1. CASE target = 0
    <3>1. Extended(padded, padded)
      BY DEF Extended
    <3> QED
      BY <1>9, <1>10, <2>1, <3>1
  <2>2. CASE target # 0
    <3> DEFINE c == Relocated(padded, DataSection, offset, target, Data64, symbols)
    <3>1. target \in 1..n /\ Data64 \in {Pc32, Data64}
      BY <1>1, <2>2
    <3>2. c \in BuilderType(n)
      BY <1>3, <1>4, <1>9, <3>1, RelocatedType
    <3>3. Ones(c) /\ Sourced(c, symbols) /\ Extended(padded, c)
      BY <1>9, <1>10, <3>1, RelocatedOnes
    <3>4. referred = c
      BY <2>2
    <3> HIDE DEF c, referred
    <3> QED
      BY <3>2, <3>3, <3>4
  <2> QED
    BY <2>1, <2>2
<1> HIDE DEF referred
<1>12. filled \in BuilderType(n) /\ filled.records = referred.records
  BY <1>1, <1>3, <1>11, AppendedType, AppendedRecords
<1> HIDE DEF filled
<1>13. Ones(filled) /\ Sourced(filled, symbols) /\ Extended(b, filled)
  <2>1. Extended(b, referred)
    BY <1>10, <1>11, ExtendedTwice
  <2> QED
    BY <1>11, <1>12, <2>1 DEF Ones, Sourced, Extended
<1>14. /\ Half(filled, work.placed)
       /\ \A y : HasDefinition(b, y) => HasDefinition(filled, y)
       /\ \A x : NamedRight(b, work.placed, x) => NamedRight(filled, work.placed, x)
  BY <1>7, <1>13, ExtendedHalf
<1>15. PICK i \in 1..Len(filled.records) :
         filled.records[i].name = s.name /\ filled.records[i].section # 0
  BY <1>7, <1>14 DEF HasDefinition
<1>16. RowHalf(filled.records[i], work.placed)
  BY <1>14, <1>15 DEF Half
<1>17. OneValued(filled, done, i, offset, size)
  <2>1. OneValued(filled, Valued(filled, filled.records[i].name, offset, size), i, offset, size)
    BY <1>1, <1>4, <1>7, <1>12, <1>13, <1>15, ValuedOne
  <2> QED
    BY <1>15, <2>1
<1> HIDE DEF done
<1>18. PICK q : /\ Rewritten(filled, done, i, q) /\ q.global = filled.records[i].global
                /\ q.section = filled.records[i].section
                /\ q.name = s.name /\ q.value = offset /\ q.size = size
  BY <1>15, <1>17 DEF OneValued, Says
<1>19. CASE s.initializer.set
  <2>1. /\ q.section = DataSection /\ s.name \in claims.owed
        /\ q.global = (s.name \notin claims.internal)
    BY <1>6, <1>15, <1>16, <1>18, <1>19 DEF RowHalf
  <2>2. /\ PlacesBut(work.placed, more, s.name) /\ s.name \in DOMAIN more
        /\ more[s.name] = At(DataSection, offset, size)
    BY PutPlaces DEF more
  <2>3. RowRight(q, more, claims)
    BY <1>18, <2>1, <2>2 DEF RowRight
  <2>4. RowHalf(q, more)
    BY <1>6, <1>18, <1>19, <2>1 DEF RowHalf
  <2>5. q.section # 0 /\ Lone(q.name) /\ PlacesBut(work.placed, more, q.name)
    BY <1>3, <1>7, <1>18, <2>1, <2>2
  <2>6. /\ Improves(filled, done, work.placed, more, q.name)
        /\ NamedRight(done, more, q.name)
        /\ \A x : NamedRight(filled, work.placed, x) => NamedRight(done, more, x)
    BY <1>14, <1>15, <1>18, <2>3, <2>4, <2>5, RowImproved
  <2>7. w.builder = done /\ w.placed = more
    BY <1>8, <1>19
  <2> QED
    BY <1>14, <1>18, <2>6, <2>7 DEF Improves, w, b, s
<1>20. CASE ~s.initializer.set
  <2>1. w.builder = b /\ w.placed = work.placed
    BY <1>8, <1>20 DEF b
  <2> QED
    BY <1>5, <1>7, <1>20, <2>1 DEF w, b, s
<1> QED
  BY <1>19, <1>20
-----------------------------------------------------------------------------
\* What is defined is right, and there is all of it; the rest is runtime services.
Nearly(b, placed) ==
  /\ Ones(b) /\ Sourced(b, symbols)
  /\ \A i \in 1..Len(b.records) : b.records[i].section # 0 =>
       IF b.records[i].name \in claims.owed THEN RowRight(b.records[i], placed, claims)
       ELSE b.records[i].name \in ToSet(Services)
  /\ \A x \in claims.owed : Lone(x) /\ HasDefinition(b, x)

LEMMA ExtendedNearly ==
  ASSUME NEW b, NEW c, Extended(b, c), NEW placed, Nearly(b, placed), Ones(c), Sourced(c, symbols)
  PROVE  Nearly(c, placed)
<1>1. \A y : HasDefinition(b, y) => HasDefinition(c, y)
  BY ExtendedRight
<1>2. ASSUME NEW i \in 1..Len(c.records), c.records[i].section # 0
      PROVE  IF c.records[i].name \in claims.owed THEN RowRight(c.records[i], placed, claims)
             ELSE c.records[i].name \in ToSet(Services)
  BY <1>2 DEF Extended, Nearly
<1> QED
  BY <1>1, <1>2 DEF Nearly

\* A service that the unit does not define is.
LEMMA ServedNearly ==
  ASSUME NEW b, NEW c, NEW i \in 1..Len(b.records), NEW r, Rewritten(b, c, i, r),
         r.name \in ToSet(Services) \ claims.owed, NEW placed, NEW more,
         PlacesBut(placed, more, r.name), Nearly(b, placed)
  PROVE  Nearly(c, more)
<1>1. /\ Len(c.records) = Len(b.records) /\ c.records[i] = r /\ r.name = b.records[i].name
      /\ \A j \in 1..Len(b.records) : j # i => c.records[j] = b.records[j]
  BY DEF Rewritten
<1>2. Ones(c) /\ Sourced(c, symbols)
  <2>1. Ones(b) /\ Sourced(b, symbols)
    BY DEF Nearly
  <2> QED
    BY <2>1, RewrittenOnes
<1>3. ASSUME NEW o, o.name # r.name, RowRight(o, placed, claims) PROVE RowRight(o, more, claims)
  BY <1>3 DEF RowRight, PlacesBut
<1>4. ASSUME NEW j \in 1..Len(c.records), c.records[j].section # 0
      PROVE  IF c.records[j].name \in claims.owed THEN RowRight(c.records[j], more, claims)
             ELSE c.records[j].name \in ToSet(Services)
  <2>1. CASE j = i
    BY <1>1, <2>1
  <2>2. CASE j # i
    <3> DEFINE o == b.records[j]
    <3>1. /\ c.records[j] = o /\ o.section # 0
          /\ IF o.name \in claims.owed THEN RowRight(o, placed, claims)
             ELSE o.name \in ToSet(Services)
      BY <1>1, <1>4, <2>2 DEF Nearly
    <3> HIDE DEF o
    <3> QED
      BY <1>3, <3>1
  <2> QED
    BY <2>1, <2>2
<1>5. ASSUME NEW x \in claims.owed PROVE Lone(x) /\ HasDefinition(c, x)
  <2>1. Lone(x) /\ HasDefinition(b, x)
    BY DEF Nearly
  <2>2. PICK j \in 1..Len(b.records) : b.records[j].name = x /\ b.records[j].section # 0
    BY <2>1 DEF HasDefinition
  <2>3. j # i
    BY <1>1, <2>2
  <2> QED
    BY <1>1, <2>1, <2>2, <2>3 DEF HasDefinition
<1> QED
  BY <1>2, <1>4, <1>5 DEF Nearly

\* append_runtime_functions makes no record of a service there is one of.
LEMMA MadeOnes ==
  ASSUME NEW n, NEW b \in BuilderType(n), NEW blank, blank.source = 0, blank.section = 0,
         FirstNamed(b.records, blank.name) = 0, Ones(b), Sourced(b, symbols)
  PROVE  LET c == [b EXCEPT !.records = Append(b.records, blank)]
         IN  Ones(c) /\ Sourced(c, symbols) /\ Extended(b, c)
<1> DEFINE c == [b EXCEPT !.records = Append(b.records, blank)]
           l == Len(b.records)
           T == RecordType(n)
<1>1. b.records \in Seq(T) /\ l \in Nat
  BY SectionsTyped
<1>2. c.records = Append(b.records, blank)
  BY DEF BuilderType
<1> HIDE DEF c, T
<1>3. \A j \in 1..l : b.records[j].name # blank.name
  <2> SUFFICES ASSUME \E j \in 1..l : b.records[j].name = blank.name PROVE FALSE
    OBVIOUS
  <2>1. FirstNamed(b.records, blank.name) \in 1..Len(b.records)
    BY <1>1, FirstNamedFound
  <2> QED
    BY <2>1
<1>4. /\ Len(c.records) = l + 1 /\ c.records[l + 1] = blank
      /\ \A j \in 1..l : c.records[j] = b.records[j] /\ j \in 1..(l + 1)
      /\ \A j \in 1..(l + 1) : j \in 1..l \/ j = l + 1
  BY <1>1, <1>2
<1> HIDE DEF l
<1>5. Sourced(c, symbols)
  <2>1. ASSUME NEW j \in 1..Len(c.records)
        PROVE  c.records[j].source = 0
               \/ (c.records[j].source \in 1..Len(symbols)
                   /\ c.records[j].name = symbols[c.records[j].source].name)
    BY <1>4 DEF Sourced, l
  <2> QED
    BY <2>1 DEF Sourced
<1>6. Ones(c)
  <2> SUFFICES ASSUME NEW i \in 1..Len(c.records), NEW j \in 1..Len(c.records),
                      c.records[i].name = c.records[j].name, Lone(c.records[i].name)
               PROVE  i = j
    BY DEF Ones
  <2>1. CASE i \in 1..l /\ j \in 1..l
    BY <1>4, <2>1 DEF Ones, l
  <2>2. CASE i = l + 1 /\ j \in 1..l
    BY <1>3, <1>4, <2>2
  <2>3. CASE i \in 1..l /\ j = l + 1
    BY <1>3, <1>4, <2>3
  <2> QED
    BY <1>4, <2>1, <2>2, <2>3
<1>7. Extended(b, c)
  BY <1>4 DEF Extended, l
<1> QED
  BY <1>5, <1>6, <1>7 DEF c

\* append_runtime_functions leaves what the unit defines alone.
LEMMA ProvideNearly ==
  ASSUME NEW n \in Nat, Table(symbols, n), OneEach(symbols), main \in 0..n,
         NEW work \in Works(n), NEW service \in Names, service \in ToSet(Services),
         Nearly(work.builder, work.placed)
  PROVE  LET w == Provide(work, service) IN Nearly(w.builder, w.placed)
<1> DEFINE startUp == service = StartUp /\ main # 0
           old == work.builder
           blank == [name |-> service, value |-> 0, section |-> 0, global |-> TRUE,
                     kind |-> Function, size |-> 0, source |-> 0]
           made == IF FirstNamed(old.records, service) = 0 /\ startUp
                   THEN [old EXCEPT !.records = Append(old.records, blank)]
                   ELSE old
           i == FirstNamed(made.records, service)
           offset == made.sections[TextSection].size
           code == IF startUp THEN Relocated(made, TextSection, offset, main, Pc32, symbols)
                   ELSE made
           size == IF startUp THEN ReferenceSize ELSE ServiceSize
           filled == Appended(code, TextSection, size)
           o == filled.records[i]
           r == [o EXCEPT !.section = TextSection, !.value = offset, !.size = size]
           done == [filled EXCEPT !.records = [filled.records EXCEPT ![i] = r]]
           more == Put(work.placed, service, At(TextSection, offset, size))
           w == Provide(work, service)
<1>1. old \in BuilderType(n) /\ work = [builder |-> old, placed |-> work.placed]
  BY WorksDef
<1>2. TextSection \in 1..3 /\ TextSection \in 0..3 /\ size \in Nat
  BY UnitAssumption DEF TextSection, ReferenceSize
<1>3. Nearly(old, work.placed) /\ Ones(old) /\ Sourced(old, symbols)
  BY DEF Nearly
<1>4. /\ blank \in RecordType(n) /\ blank.source = 0 /\ blank.section = 0 /\ blank.name = service
  BY DEF RecordType, Function
<1>5. w = IF i = 0 \/ (service = StartUp /\ main = 0) THEN work
          ELSE IF made.records[i].section # 0 THEN work
          ELSE [builder |-> [filled EXCEPT !.records[i] =
                               [@ EXCEPT !.section = TextSection, !.value = offset,
                                         !.size = size]],
                placed |-> more]
  BY Zenon DEF Provide
<1> HIDE DEF startUp, old, blank
<1>6. made \in BuilderType(n) /\ Ones(made) /\ Sourced(made, symbols) /\ Extended(old, made)
  <2> DEFINE c == [old EXCEPT !.records = Append(old.records, blank)]
  <2>1. CASE FirstNamed(old.records, service) = 0 /\ startUp
    <3>1. made = c
      BY <2>1
    <3>2. c \in BuilderType(n)
      BY <1>1, <1>4, AddedParts
    <3>3. FirstNamed(old.records, blank.name) = 0
      BY <1>4, <2>1
    <3>4. Ones(c) /\ Sourced(c, symbols) /\ Extended(old, c)
      BY <1>1, <1>3, <1>4, <3>3, MadeOnes
    <3> HIDE DEF c, made
    <3> QED
      BY <3>1, <3>2, <3>4
  <2>2. CASE ~(FirstNamed(old.records, service) = 0 /\ startUp)
    <3>1. made = old
      BY <2>2
    <3>2. Extended(old, old)
      BY DEF Extended
    <3> HIDE DEF made
    <3> QED
      BY <1>1, <1>3, <3>1, <3>2
  <2> QED
    BY <2>1, <2>2
<1>7. made.records \in Seq(RecordType(n))
  BY <1>6, SectionsTyped
<1> HIDE DEF made
<1>8. i = 0 \/ (i \in 1..Len(made.records) /\ made.records[i].name = service)
  BY <1>7, FirstNamedIs
<1>9. Nearly(made, work.placed)
  BY <1>3, <1>6, ExtendedNearly
<1> HIDE DEF i, size
<1>10. offset \in Nat
  BY <1>2, <1>6, SectionsTyped
<1> HIDE DEF offset
<1>11. CASE service \in claims.owed
  <2>1. Lone(service) /\ HasDefinition(made, service)
    BY <1>9, <1>11 DEF Nearly
  <2>2. PICK j \in 1..Len(made.records) :
          made.records[j].name = service /\ made.records[j].section # 0
    BY <2>1 DEF HasDefinition
  <2>3. i \in 1..Len(made.records) /\ made.records[i].name = service
    BY <1>7, <2>2, FirstNamedFound DEF i
  <2>4. i = j
    BY <1>6, <2>1, <2>2, <2>3 DEF Ones
  <2>5. w = work
    <3> HIDE DEF w, filled, more
    <3> QED
      BY <1>5, <2>2, <2>4
  <2> QED
    BY <1>3, <2>5 DEF old
<1>12. CASE service \notin claims.owed
  <2>1. CASE i = 0 \/ (service = StartUp /\ main = 0) \/ made.records[i].section # 0
    <3>1. w = work
      <4> HIDE DEF w, filled, more
      <4> QED
        BY <1>5, <2>1
    <3> QED
      BY <1>3, <3>1 DEF old
  <2>2. CASE ~(i = 0 \/ (service = StartUp /\ main = 0) \/ made.records[i].section # 0)
    <3>1. i \in 1..Len(made.records) /\ made.records[i].name = service
      BY <1>8, <2>2
    <3>2. code \in BuilderType(n) /\ Ones(code) /\ Sourced(code, symbols) /\ Extended(made, code)
      <4>1. CASE startUp
        <5> DEFINE c == Relocated(made, TextSection, offset, main, Pc32, symbols)
        <5>1. main \in 1..n /\ Pc32 \in {Pc32, Data64}
          BY <4>1 DEF startUp
        <5>2. c \in BuilderType(n)
          BY <1>2, <1>6, <1>10, <5>1, RelocatedType
        <5>3. Ones(c) /\ Sourced(c, symbols) /\ Extended(made, c)
          BY <1>6, <5>1, RelocatedOnes
        <5>4. code = c
          BY <4>1
        <5> HIDE DEF c, code
        <5> QED
          BY <5>2, <5>3, <5>4
      <4>2. CASE ~startUp
        <5>1. code = made
          BY <4>2
        <5>2. Extended(made, made)
          BY DEF Extended
        <5> HIDE DEF code
        <5> QED
          BY <1>6, <5>1, <5>2
      <4> QED
        BY <4>1, <4>2
    <3> HIDE DEF code
    <3>3. filled \in BuilderType(n) /\ filled.records = code.records
      BY <1>2, <3>2, AppendedType, AppendedRecords
    <3> HIDE DEF filled
    <3>4. /\ i \in 1..Len(filled.records) /\ o.name = service
          /\ Ones(filled) /\ Sourced(filled, symbols) /\ Extended(made, filled)
      <4>1. Ones(filled) /\ Sourced(filled, symbols) /\ Extended(made, filled)
        BY <3>2, <3>3 DEF Ones, Sourced, Extended
      <4> QED
        BY <3>1, <4>1 DEF Extended
    <3>5. Nearly(filled, work.placed)
      BY <1>9, <3>4, ExtendedNearly
    <3>6. o \in RecordType(n)
      BY <3>3, <3>4, SectionsTyped
    <3>7. done = [filled EXCEPT !.records[i] =
                    [@ EXCEPT !.section = TextSection, !.value = offset, !.size = size]]
      BY <3>3 DEF BuilderType
    <3> HIDE DEF o
    <3>8. r \in RecordType(n) /\ Says(r, o, TextSection, o.kind, offset, size)
      BY <1>2, <1>10, <3>6, ServingType, Serving
    <3> HIDE DEF r
    <3>9. r.name = service /\ r.name = filled.records[i].name
          /\ r.source = filled.records[i].source
      BY <3>4, <3>8 DEF Says, o
    <3>10. Rewritten(filled, done, i, r)
      BY <3>3, <3>4, <3>8, <3>9, RecordRewritten
    <3> HIDE DEF done
    <3>11. PlacesBut(work.placed, more, r.name)
      BY <3>9, PutPlaces
    <3> HIDE DEF more
    <3>12. r.name \in ToSet(Services) \ claims.owed
      BY <1>12, <3>9
    <3>13. Nearly(done, more)
      BY <3>4, <3>5, <3>10, <3>11, <3>12, ServedNearly
    <3>14. w.builder = done /\ w.placed = more
      <4> HIDE DEF w
      <4>1. w = [builder |-> done, placed |-> more]
        BY <1>5, <2>2, <3>7
      <4> QED
        BY <4>1
    <3> QED
      BY <3>13, <3>14
  <2> QED
    BY <2>1, <2>2
<1> QED
  BY <1>11, <1>12
-----------------------------------------------------------------------------
\* What each step brings and no later one takes is there at the end. R has <<j, k>>
\* when what step j brings is there after step k.
LEMMA Gathered ==
  ASSUME NEW l \in Nat, NEW R, \A k \in 1..l : <<k, k>> \in R,
         \A k \in 1..l, j \in 1..l : <<j, k - 1>> \in R => <<j, k>> \in R
  PROVE  \A j \in 1..l : <<j, l>> \in R
<1> DEFINE K == {k \in Nat : k <= l => \A j \in 1..k : <<j, k>> \in R}
<1>1. 0 \in K
  OBVIOUS
<1>2. ASSUME NEW k \in Nat, k \in K PROVE k + 1 \in K
  <2> SUFFICES ASSUME k + 1 <= l, NEW j \in 1..(k + 1) PROVE <<j, k + 1>> \in R
    OBVIOUS
  <2>1. k + 1 \in 1..l /\ (k + 1) - 1 = k /\ j \in 1..l
    OBVIOUS
  <2>2. CASE j = k + 1
    BY <2>1, <2>2
  <2>3. CASE j # k + 1
    <3>1. j \in 1..k /\ k <= l
      BY <2>1, <2>3
    <3>2. <<j, k>> \in R
      BY <1>2, <3>1
    <3>3. <<j, (k + 1) - 1>> \in R
      BY <2>1, <3>2
    <3> QED
      BY <2>1, <3>3
  <2> QED
    BY <2>2, <2>3
<1> HIDE DEF K
<1>3. l \in K
  BY <1>1, <1>2, Counting
<1> QED
  BY <1>3 DEF K

\* Once prepared, every name that is owed has a definition.
LEMMA PreparedHalf ==
  ASSUME NEW n \in Nat, Table(symbols, n), OneEach(symbols), globals \in Seq(1..n),
         Work \in Works(n), NEW functions, GlobalsApart(functions),
         \A g \in ToSet(globals) : Storing(g), Half(builder, claims.placed)
  PROVE  /\ Prepared \in Works(n) /\ Half(Prepared.builder, Prepared.placed)
         /\ \A y : HasDefinition(builder, y) => HasDefinition(Prepared.builder, y)
         /\ \A g \in ToSet(globals) : HasDefinition(Prepared.builder, symbols[g].name)
<1> DEFINE l == Len(globals)
           V == {w \in Works(n) : /\ Half(w.builder, w.placed)
                                  /\ \A y : HasDefinition(builder, y) => HasDefinition(w.builder, y)}
           Steps(v, g) ==
             Improves(v.builder, Prepare(v, g).builder, v.placed, Prepare(v, g).placed,
                      symbols[g].name)
<1>1. /\ l \in Nat /\ globals \in Seq(Nat)
      /\ \A i \in 1..l : globals[i] \in 1..n /\ globals[i] \in ToSet(globals)
      /\ \A g \in ToSet(globals) : \E i \in 1..l : globals[i] = g
  <2>1. /\ l \in Nat /\ \A i \in 1..l : globals[i] \in 1..n
        /\ ToSet(globals) = {globals[i] : i \in 1..l}
    BY DEF ToSet
  <2>2. globals \in Seq(Nat)
    OBVIOUS
  <2> QED
    BY <2>1, <2>2
<1>2. Work \in V
  <2>1. /\ Half(Work.builder, Work.placed)
        /\ \A y : HasDefinition(builder, y) => HasDefinition(Work.builder, y)
    BY DEF Work
  <2> QED
    BY <2>1
<1>3. \A v \in V, g \in ToSet(globals) : g \in 1..n => Prepare(v, g) \in V /\ Steps(v, g)
  <2> SUFFICES ASSUME NEW v \in V, NEW g \in ToSet(globals), g \in 1..n
               PROVE  Prepare(v, g) \in V /\ Steps(v, g)
    OBVIOUS
  <2>1. v \in Works(n) /\ Half(v.builder, v.placed)
        /\ \A y : HasDefinition(builder, y) => HasDefinition(v.builder, y)
    OBVIOUS
  <2>2. Prepare(v, g) \in Works(n)
    BY <2>1, PrepareIn
  <2>3. Steps(v, g)
    BY <2>1, PrepareHalf
  <2> QED
    BY <2>1, <2>2, <2>3 DEF Improves
<1> HIDE DEF V, Steps
<1>4. PICK h \in [0..l -> V] :
        /\ h[0] = Work /\ Prepared = h[l]
        /\ \A k \in 1..l : h[k] = Prepare(h[k - 1], globals[k])
  <2>1. \A v \in V, i \in 1..Len(globals) : Prepare(v, globals[i]) \in V
    BY <1>1, <1>3
  <2> QED
    BY <1>1, <1>2, <2>1, PreparedStages
<1>5. ASSUME NEW k \in 1..l
      PROVE  /\ HasDefinition(h[k].builder, symbols[globals[k]].name)
             /\ \A y : HasDefinition(h[k - 1].builder, y) => HasDefinition(h[k].builder, y)
  <2> DEFINE u == h[k - 1]
             v == h[k]
             g == globals[k]
  <2>1. u \in V /\ v = Prepare(u, g) /\ g \in 1..n /\ g \in ToSet(globals)
    <3>1. k - 1 \in 0..l
      BY <1>1
    <3> QED
      BY <1>1, <1>4, <3>1
  <2> HIDE DEF u, v, g
  <2>2. HasDefinition(v.builder, symbols[g].name)
        /\ \A y : HasDefinition(u.builder, y) => HasDefinition(v.builder, y)
    BY <1>3, <2>1 DEF Steps, Improves
  <2> QED
    BY <2>2 DEF u, v, g
<1> DEFINE R == {p \in (1..l) \X (0..l) :
                   HasDefinition(h[p[2]].builder, symbols[globals[p[1]]].name)}
<1>6. \A k \in 1..l : <<k, k>> \in R
  BY <1>1, <1>5
<1>7. \A k \in 1..l, j \in 1..l : <<j, k - 1>> \in R => <<j, k>> \in R
  <2> SUFFICES ASSUME NEW k \in 1..l, NEW j \in 1..l, <<j, k - 1>> \in R PROVE <<j, k>> \in R
    OBVIOUS
  <2>1. HasDefinition(h[k - 1].builder, symbols[globals[j]].name)
    OBVIOUS
  <2>2. HasDefinition(h[k].builder, symbols[globals[j]].name)
    BY <1>5, <2>1
  <2>3. <<j, k>> \in (1..l) \X (0..l)
    BY <1>1
  <2> QED
    BY <2>2, <2>3
<1>8. \A j \in 1..l : HasDefinition(h[l].builder, symbols[globals[j]].name)
  <2> HIDE DEF R
  <2>1. \A j \in 1..l : <<j, l>> \in R
    BY <1>1, <1>6, <1>7, Gathered
  <2> QED
    BY <2>1 DEF R
<1>9. l \in 0..l /\ h[l] \in V
  BY <1>1, <1>4
<1> QED
  BY <1>1, <1>4, <1>8, <1>9 DEF V

\* Once emitted, everything that is said is right.
LEMMA EmittedNearly ==
  ASSUME NEW n \in Nat, Table(symbols, n), OneEach(symbols), globals \in Seq(1..n),
         Prepared \in Works(n), Half(Prepared.builder, Prepared.placed),
         \A g \in ToSet(globals) : Storing(g),
         \A x \in claims.owed : Lone(x) /\ HasDefinition(Prepared.builder, x)
  PROVE  /\ Emitted(Prepared) \in Works(n)
         /\ Nearly(Emitted(Prepared).builder, Emitted(Prepared).placed)
<1> DEFINE l == Len(globals)
           Owed(b) == \A x \in claims.owed : Lone(x) /\ HasDefinition(b, x)
           V == {w \in Works(n) : Half(w.builder, w.placed) /\ Owed(w.builder)}
           Right(w, x) == NamedRight(w.builder, w.placed, x)
           Steps(v, g) ==
             /\ \A x : Right(v, x) => Right(Emit(v, g), x)
             /\ g \in DataObjects => Right(Emit(v, g), symbols[g].name)
<1>1. /\ l \in Nat /\ globals \in Seq(Nat)
      /\ \A i \in 1..l : globals[i] \in 1..n /\ globals[i] \in ToSet(globals)
      /\ \A g \in ToSet(globals) : \E i \in 1..l : globals[i] = g
  <2>1. /\ l \in Nat /\ \A i \in 1..l : globals[i] \in 1..n
        /\ ToSet(globals) = {globals[i] : i \in 1..l}
    BY DEF ToSet
  <2>2. globals \in Seq(Nat)
    OBVIOUS
  <2> QED
    BY <2>1, <2>2
<1>2. Prepared \in V
  OBVIOUS
<1>3. \A v \in V, g \in ToSet(globals) : g \in 1..n => Emit(v, g) \in V /\ Steps(v, g)
  <2> SUFFICES ASSUME NEW v \in V, NEW g \in ToSet(globals), g \in 1..n
               PROVE  Emit(v, g) \in V /\ Steps(v, g)
    OBVIOUS
  <2>1. v \in Works(n) /\ Half(v.builder, v.placed) /\ Owed(v.builder)
    OBVIOUS
  <2>2. Emit(v, g) \in Works(n)
    BY <2>1, EmitIn
  <2>3. HasDefinition(v.builder, symbols[g].name)
    BY <2>1 DEF Storing
  <2>4. /\ Half(Emit(v, g).builder, Emit(v, g).placed)
        /\ \A y : HasDefinition(v.builder, y) => HasDefinition(Emit(v, g).builder, y)
        /\ Steps(v, g)
    BY <2>1, <2>3, EmitHalf
  <2> QED
    BY <2>1, <2>2, <2>4
<1> HIDE DEF V, Steps, Owed, Right
<1>4. PICK h \in [0..l -> V] :
        /\ h[0] = Prepared /\ Emitted(Prepared) = h[l]
        /\ \A k \in 1..l : h[k] = Emit(h[k - 1], globals[k])
  <2>1. \A v \in V, i \in 1..Len(globals) : Emit(v, globals[i]) \in V
    BY <1>1, <1>3
  <2> QED
    BY <1>1, <1>2, <2>1, EmittedThrough
<1>5. ASSUME NEW k \in 1..l
      PROVE  /\ globals[k] \in DataObjects => Right(h[k], symbols[globals[k]].name)
             /\ \A x : Right(h[k - 1], x) => Right(h[k], x)
  <2> DEFINE u == h[k - 1]
             v == h[k]
             g == globals[k]
  <2>1. u \in V /\ v = Emit(u, g) /\ g \in 1..n /\ g \in ToSet(globals)
    <3>1. k - 1 \in 0..l
      BY <1>1
    <3> QED
      BY <1>1, <1>4, <3>1
  <2> HIDE DEF u, v, g
  <2>2. /\ g \in DataObjects => Right(v, symbols[g].name)
        /\ \A x : Right(u, x) => Right(v, x)
    BY <1>3, <2>1 DEF Steps
  <2> QED
    BY <2>2 DEF u, v, g
<1> DEFINE R == {p \in (1..l) \X (0..l) :
                   globals[p[1]] \in DataObjects => Right(h[p[2]], symbols[globals[p[1]]].name)}
<1>6. \A k \in 1..l : <<k, k>> \in R
  BY <1>1, <1>5
<1>7. \A k \in 1..l, j \in 1..l : <<j, k - 1>> \in R => <<j, k>> \in R
  <2> SUFFICES ASSUME NEW k \in 1..l, NEW j \in 1..l, <<j, k - 1>> \in R PROVE <<j, k>> \in R
    OBVIOUS
  <2>1. globals[j] \in DataObjects => Right(h[k - 1], symbols[globals[j]].name)
    OBVIOUS
  <2>2. globals[j] \in DataObjects => Right(h[k], symbols[globals[j]].name)
    BY <1>5, <2>1
  <2>3. <<j, k>> \in (1..l) \X (0..l)
    BY <1>1
  <2> QED
    BY <2>2, <2>3
<1>8. \A j \in 1..l : globals[j] \in DataObjects => Right(h[l], symbols[globals[j]].name)
  <2> HIDE DEF R
  <2>1. \A j \in 1..l : <<j, l>> \in R
    BY <1>1, <1>6, <1>7, Gathered
  <2> QED
    BY <2>1 DEF R
<1> DEFINE w == Emitted(Prepared)
<1>9. w \in V /\ w = h[l]
  BY <1>1, <1>4
<1> HIDE DEF w
<1>10. \A x \in DataNames : Right(w, x)
  <2>1. ASSUME NEW g \in DataObjects PROVE Right(w, symbols[g].name)
    <3>1. \E j \in 1..l : globals[j] = g
      BY <1>1 DEF DataObjects
    <3> QED
      BY <1>8, <1>9, <3>1
  <2> QED
    BY <2>1 DEF DataNames
<1>11. w \in Works(n) /\ Half(w.builder, w.placed) /\ Owed(w.builder)
  BY <1>9 DEF V
<1>12. ASSUME NEW i \in 1..Len(w.builder.records), w.builder.records[i].section # 0
       PROVE  /\ w.builder.records[i].name \in claims.owed
              /\ RowRight(w.builder.records[i], w.placed, claims)
  <2> DEFINE o == w.builder.records[i]
  <2>1. RowHalf(o, w.placed)
    BY <1>11, <1>12 DEF Half
  <2>2. o.name \in DataNames => RowRight(o, w.placed, claims)
    BY <1>10, <1>12 DEF Right, NamedRight
  <2> HIDE DEF o
  <2>3. o.name \in claims.owed /\ RowRight(o, w.placed, claims)
    BY <2>1, <2>2 DEF RowHalf
  <2> QED
    BY <2>3 DEF o
<1>13. Ones(w.builder) /\ Sourced(w.builder, symbols)
  BY <1>11 DEF Half
<1>14. Nearly(w.builder, w.placed)
  BY <1>11, <1>12, <1>13 DEF Nearly, Owed
<1> QED
  BY <1>11, <1>14 DEF w

\* ir_encoder_finish leaves one right definition of each name the unit owes.
LEMMA FinishedKept ==
  ASSUME NEW n \in Nat, Table(symbols, n), OneEach(symbols), main \in 0..n,
         globals \in Seq(1..n), builder \in BuilderType(n),
         claims.placed \in Partial(PlaceType), PlacedIn(builder, claims.placed),
         NEW functions, GlobalsApart(functions), EarlyBuilder(builder, symbols, functions),
         \A g \in ToSet(globals) : Storing(g), Ones(builder),
         RowsRight(builder, claims.placed, claims), Owing(builder, globals, symbols, claims)
  PROVE  LET done == Provided(Emitted(Prepared)) IN Kept(done.builder, done.placed, claims)
<1> DEFINE done == Provided(Emitted(Prepared))
           V == {w \in Works(n) : Nearly(w.builder, w.placed)}
<1>1. Work \in Works(n)
  BY WorksDef DEF Work
<1>2. \A i \in 1..Len(builder.records) :
        LET r == builder.records[i] IN
        /\ r.source \in 1..Len(symbols) /\ r.name = symbols[r.source].name
        /\ r.section # 0 => r.name \in functions
  BY DEF EarlyBuilder, Holds, Early
<1>3. Half(builder, claims.placed)
  <2>1. Sourced(builder, symbols)
    BY <1>2 DEF Sourced
  <2>2. ASSUME NEW x \in functions PROVE x \notin DataNames
    BY DEF GlobalsApart, DataNames, DataObjects
  <2>3. ASSUME NEW i \in 1..Len(builder.records), builder.records[i].section # 0
        PROVE  RowHalf(builder.records[i], claims.placed)
    BY <1>2, <2>2, <2>3 DEF RowsRight, RowHalf, RowRight
  <2> QED
    BY <2>1, <2>3 DEF Half
<1>4. /\ Prepared \in Works(n) /\ Half(Prepared.builder, Prepared.placed)
      /\ \A y : HasDefinition(builder, y) => HasDefinition(Prepared.builder, y)
      /\ \A g \in ToSet(globals) : HasDefinition(Prepared.builder, symbols[g].name)
  BY <1>1, <1>3, PreparedHalf
<1>5. \A x \in claims.owed : Lone(x) /\ HasDefinition(Prepared.builder, x)
  BY <1>4 DEF Owing
<1>6. Emitted(Prepared) \in V
  BY <1>4, <1>5, EmittedNearly
<1>7. \A v \in V, i \in 1..Len(Services) : Provide(v, Services[i]) \in V
  <2>1. \A i \in 1..Len(Services) : Services[i] \in Names /\ Services[i] \in ToSet(Services)
    <3>1. ASSUME NEW x \in ToSet(Services) PROVE x \in Names
      BY DEF Names
    <3>2. Services \in Seq(ToSet(Services))
      BY UnitAssumption
    <3> QED
      BY <3>1, <3>2
  <2> QED
    BY <2>1, ProvideIn, ProvideNearly
<1> HIDE DEF V
<1>8. done \in V
  BY <1>6, <1>7, UnitAssumption, ProvidedIn
<1> HIDE DEF done
<1>9. Nearly(done.builder, done.placed)
  BY <1>8 DEF V
<1> DEFINE b == done.builder
           placed == done.placed
<1>10. Nearly(b, placed)
  BY <1>9
<1> HIDE DEF b, placed
<1>11. ASSUME NEW x \in claims.owed
       PROVE  \E i \in 1..Len(b.records) :
                /\ b.records[i].name = x /\ b.records[i].section # 0
                /\ RowRight(b.records[i], placed, claims)
                /\ \A j \in 1..Len(b.records) : b.records[j].name = x => j = i
  <2>1. Lone(x) /\ HasDefinition(b, x)
    BY <1>10 DEF Nearly
  <2>2. PICK i \in 1..Len(b.records) : b.records[i].name = x /\ b.records[i].section # 0
    BY <2>1 DEF HasDefinition
  <2>3. RowRight(b.records[i], placed, claims)
    BY <1>10, <2>2 DEF Nearly
  <2>4. \A j \in 1..Len(b.records) : b.records[j].name = x => j = i
    BY <1>10, <2>1, <2>2 DEF Nearly, Ones
  <2> QED
    BY <2>2, <2>3, <2>4
<1>12. \A i \in 1..Len(b.records) :
         b.records[i].section # 0 => b.records[i].name \in claims.owed \cup ToSet(Services)
  BY <1>10 DEF Nearly
<1>13. Kept(b, placed, claims)
  BY <1>11, <1>12 DEF Kept
<1> QED
  BY <1>13 DEF b, placed, done
-----------------------------------------------------------------------------
\* An object with storage is defined, has the linkage C gives it, and one Symbol.
LEMMA StoringAll ==
  ASSUME Coherent, Len(symbols) \in Nat, globals \in Seq(1..Len(symbols)),
         Origins(globals, scope, symbols), Linked(symbols, scope, claims),
         Stored(globals, symbols, claims), OwnStatic(symbols),
         Owing(builder, globals, symbols, claims)
  PROVE  \A g \in ToSet(globals) : Storing(g)
<1> SUFFICES ASSUME NEW g \in ToSet(globals) PROVE Storing(g)
  OBVIOUS
<1> DEFINE s == symbols[g]
<1>1. g \in 1..Len(symbols) /\ Origin(g, scope, symbols)
  <2>1. PICK i \in 1..Len(globals) : globals[i] = g
    BY DEF ToSet
  <2> QED
    BY <2>1 DEF Origins
<1>2. StoredAt(g, symbols, claims)
  BY DEF Stored
<1>3. s.name \in claims.owed
  BY <1>2 DEF StoredAt
<1>4. Lone(s.name)
  BY <1>3 DEF Owing
<1>5. CASE OwnName(s.name)
  <2>1. s.internal /\ s.storage = "static" /\ s.name \in claims.internal
    BY <1>1, <1>2, <1>5 DEF OwnStatic, StoredAt
  <2>2. s.internal = (s.name \in claims.internal)
    <3>1. symbols[g].internal = TRUE
      BY <1>1, <1>5 DEF OwnStatic
    <3> QED
      BY <2>1, <3>1
  <2> QED
    BY <1>3, <1>4, <2>1, <2>2 DEF Storing, Announced
<1>6. CASE ~OwnName(s.name)
  <2>1. s.name \in DOMAIN scope /\ scope[s.name] = g
    BY <1>1, <1>6 DEF Origin
  <2>2. /\ s.internal = StaticName(s.name)
        /\ s.name \in claims.internal <=> StaticName(s.name)
        /\ \E d \in Declarations : d.name = s.name /\ d.storage = s.storage
    BY <2>1 DEF Linked
  <2>3. s.initializer.set \/ \E d \in Declarations : Tentative(d) /\ d.name = s.name
    BY <1>2, <1>6 DEF StoredAt
  <2>4. ~Announced(g)
    <3>1. CASE s.initializer.set
      BY <3>1 DEF Announced
    <3>2. CASE \E d \in Declarations : Tentative(d) /\ d.name = s.name
      <4>1. PICK d \in Declarations : Tentative(d) /\ d.name = s.name
        BY <3>2
      <4>2. PICK e \in Declarations : e.name = s.name /\ e.storage = s.storage
        BY <2>2
      <4>3. e.storage # "extern"
        <5>1. d.name = e.name
          BY <4>1, <4>2
        <5> QED
          BY <4>1, <5>1, Zenon DEF Coherent
      <4>4. symbols[g].storage # "extern"
        BY <4>2, <4>3
      <4> QED
        BY <4>4, Zenon DEF Announced
    <3> QED
      BY <2>3, <3>1, <3>2
  <2>5. s.internal = (s.name \in claims.internal)
    <3>1. CASE s.name \in claims.internal
      <4>1. StaticName(s.name) = TRUE
        BY <2>2, <3>1 DEF StaticName
      <4>2. s.internal = TRUE
        BY <2>2, <4>1
      <4> QED
        BY <3>1, <4>2
    <3>2. CASE s.name \notin claims.internal
      <4>1. StaticName(s.name) = FALSE
        BY <2>2, <3>2 DEF StaticName
      <4>2. s.internal = FALSE
        BY <2>2, <4>1
      <4>3. (s.name \in claims.internal) = FALSE
        BY <3>2
      <4> QED
        BY <4>2, <4>3
    <3> QED
      BY <3>1, <3>2
  <2> QED
    BY <1>3, <1>4, <2>4, <2>5 DEF Storing
<1> QED
  BY <1>5, <1>6

\* A new unit owes nothing.
LEMMA KeptInit == Init => KeptInv
<1> SUFFICES ASSUME Init PROVE KeptInv
  OBVIOUS
<1>1. /\ Len(symbols) = 0 /\ Len(globals) = 0 /\ DOMAIN scope = {} /\ stage = "declarations"
      /\ Len(builder.records) = 0
      /\ claims.owed = {} /\ claims.seen = {} /\ claims.internal = {}
  BY DEF Init
<1>2. ToSet(globals) = {}
  BY DEF Init, ToSet
<1>3. Only(symbols, scope) /\ OwnStatic(symbols)
  BY <1>1 DEF Only, OwnStatic
<1>4. Linked(symbols, scope, claims) /\ Stored(globals, symbols, claims)
  BY <1>1, <1>2 DEF Linked, Stored
<1>5. /\ Ones(builder) /\ RowsRight(builder, claims.placed, claims)
      /\ Owing(builder, globals, symbols, claims)
  BY <1>1 DEF Ones, RowsRight, Owing
<1> QED
  BY <1>1, <1>3, <1>4, <1>5 DEF KeptInv

\* Kept looks at what is owed and at linkage only.
LEMMA KeptAs ==
  ASSUME NEW b, NEW placed, NEW c, NEW k, Kept(b, placed, c),
         k.owed = c.owed, k.internal = c.internal
  PROVE  Kept(b, placed, k)
<1>1. \A r : RowRight(r, placed, c) => RowRight(r, placed, k)
  BY DEF RowRight
<1> HIDE DEF RowRight
<1> QED
  BY <1>1 DEF Kept

\* So do the Symbols and the scope.
LEMMA LinkedAs ==
  ASSUME NEW c, NEW k, k.owed = c.owed, k.internal = c.internal, k.seen = c.seen,
         NEW all, NEW known, NEW list
  PROVE  /\ Linked(all, known, c) => Linked(all, known, k)
         /\ Stored(list, all, c) => Stored(list, all, k)
BY DEF Linked, Stored, StoredAt

\* The end of the unit.
LEMMA KeptFinish ==
  ASSUME OwnNamesApart, Coherent, UnitInv, MoreInv, KeptInv, Finish
  PROVE  KeptInv'
<1> DEFINE n == Len(symbols)
           done == Provided(Emitted(Prepared))
<1>1. CASE Refuse
  BY <1>1 DEF Refuse, KeptInv
<1>2. CASE /\ stage' = "encoded" /\ builder' = done.builder
           /\ UNCHANGED <<symbols, scope, globals, counters>>
           /\ claims' = [claims EXCEPT
                !.placed = done.placed,
                !.meant = @ \cup Pointers(done.placed) \cup
                          {[section |-> TextSection, offset |-> done.placed[StartUp].offset,
                            name |-> Main] : s \in {StartUp} \cap DOMAIN done.placed}]
  <2>1. stage = "declarations"
    BY DEF Finish
  <2>2. /\ n \in Nat /\ Table(symbols, n) /\ Scoped(scope, symbols)
        /\ globals \in Seq(1..n) /\ main \in 0..n
        /\ builder \in BuilderType(n)
        /\ ScopeSound(scope, symbols) /\ Sound(symbols, counters)
        /\ Origins(globals, scope, symbols)
        /\ EarlyBuilder(builder, symbols, FunctionNames(scope, symbols))
    BY <2>1, Between
  <2>3. /\ Only(symbols, scope) /\ Linked(symbols, scope, claims)
        /\ Stored(globals, symbols, claims) /\ OwnStatic(symbols)
        /\ Ones(builder) /\ RowsRight(builder, claims.placed, claims)
        /\ Owing(builder, globals, symbols, claims)
    BY <2>1 DEF KeptInv
  <2>4. claims.placed \in Partial(PlaceType) /\ PlacedIn(builder, claims.placed) /\ Parts(claims)
    BY DEF UnitInv, Placed
  <2>5. GlobalsApart(FunctionNames(scope, symbols))
    BY <2>2, ApartGlobals
  <2>6. OneEach(symbols)
    BY <2>2, <2>3, OneSymbol
  <2>7. \A g \in ToSet(globals) : Storing(g)
    BY <2>2, <2>3, StoringAll
  <2>8. Kept(done.builder, done.placed, claims)
    BY <2>2, <2>3, <2>4, <2>5, <2>6, <2>7, FinishedKept
  <2> DEFINE b == done.builder
             placed == done.placed
             meant == claims.meant \cup Pointers(placed) \cup
                        {[section |-> TextSection, offset |-> placed[StartUp].offset,
                          name |-> Main] : s \in {StartUp} \cap DOMAIN placed}
  <2>9. claims' = [claims EXCEPT !.placed = placed, !.meant = meant]
    BY <1>2
  <2>10. Kept(b, placed, claims) /\ builder' = b
    BY <1>2, <2>8
  <2> HIDE DEF b, placed, meant, done
  <2>11. /\ claims'.owed = claims.owed /\ claims'.internal = claims.internal
         /\ claims'.seen = claims.seen /\ claims'.placed = placed
    BY <2>4, <2>9 DEF Parts
  <2>12. Kept(b, placed, claims')
    BY <2>10, <2>11, KeptAs
  <2>13. Kept(builder', claims'.placed, claims')
    BY <2>10, <2>11, <2>12
  <2>14. Linked(symbols, scope, claims') /\ Stored(globals, symbols, claims')
    BY <2>3, <2>11, LinkedAs
  <2>15. /\ Only(symbols', scope') /\ Linked(symbols', scope', claims')
         /\ Stored(globals', symbols', claims') /\ OwnStatic(symbols') /\ stage' = "encoded"
    BY <1>2, <2>3, <2>14
  <2> QED
    BY <2>13, <2>15 DEF KeptInv
<1> QED
  BY <1>1, <1>2 DEF Finish

\* Each declaration, the end of the unit, and the file.
LEMMA KeptStep ==
  ASSUME OwnNamesApart, Coherent
  PROVE  UnitInv /\ UnitInv' /\ MoreInv /\ KeptInv /\ [Next]_vars => KeptInv'
<1> SUFFICES ASSUME UnitInv, UnitInv', MoreInv, KeptInv, [Next]_vars PROVE KeptInv'
  OBVIOUS
<1>1. CASE Declare
  <2>1. PICK d \in Declarations :
          \/ /\ DeclareObject(d) \/ DeclareFunction(d) \/ DefineFunction(d)
             /\ declared' = declared + 1
             /\ UNCHANGED <<stage, file>>
          \/ Refused(d) /\ Refuse
    BY <1>1 DEF Declare
  <2>2. CASE Refuse
    BY <2>2 DEF Refuse, KeptInv
  <2>3. CASE /\ DeclareObject(d) \/ DeclareFunction(d) \/ DefineFunction(d)
             /\ declared' = declared + 1 /\ UNCHANGED <<stage, file>>
    <3>1. stage = "declarations" /\ stage' = stage
      BY <1>1, <2>3 DEF Declare
    <3> QED
      BY <2>3, <3>1, KeptObject, KeptPrototype, KeptFunction
  <2> QED
    BY <2>1, <2>2, <2>3
<1>2. CASE Finish
  BY <1>2, KeptFinish
<1>3. CASE Write
  <2>1. CASE Refuse
    BY <2>1 DEF Refuse, KeptInv
  <2>2. CASE /\ stage = "encoded" /\ stage' = "written"
             /\ UNCHANGED <<symbols, scope, globals, builder, claims>>
    BY <2>2 DEF KeptInv
  <2> QED
    BY <1>3, <2>1, <2>2 DEF Write
<1>4. CASE UNCHANGED vars
  BY <1>4 DEF vars, KeptInv
<1> QED
  BY <1>1, <1>2, <1>3, <1>4 DEF Next

-----------------------------------------------------------------------------
\* What the linker finds of a name is what the builder has of it.
LEMMA OneRead ==
  ASSUME NEW b, NEW object, NEW p, SymbolsMatch(b, object, p), Len(b.records) \in Nat,
         NEW x, NEW i \in 1..Len(b.records), b.records[i].name = x, b.records[i].section # 0,
         \A j \in 1..Len(b.records) : b.records[j].name = x => j = i
  PROVE  /\ Cardinality(Definitions(object, x)) = 1
         /\ \A k \in Definitions(object, x) : SymbolRead(b.records[i], object.symbols[k])
<1> DEFINE n == Len(b.records)
           D == Definitions(object, x)
<1>1. /\ p \in [1..n -> 1..n] /\ Len(object.symbols) = n
      /\ \A k, l \in 1..n : p[k] = p[l] => k = l
      /\ \A j \in 1..n : \E k \in 1..n : p[k] = j
      /\ \A k \in 1..n : SymbolRead(b.records[p[k]], object.symbols[k])
  BY DEF SymbolsMatch, Permutes, Bijection, Injection, Surjection, IsInjective
<1>2. PICK m \in 1..n : p[m] = i
  BY <1>1
<1>3. \A k \in 1..n : k \in D <=> k = m
  <2>1. ASSUME NEW k \in 1..n, k \in D PROVE k = m
    <3>1. object.symbols[k].name = x
      BY <2>1 DEF Definitions
    <3>2. SymbolRead(b.records[p[k]], object.symbols[k]) /\ p[k] \in 1..n
      BY <1>1
    <3>3. b.records[p[k]].name = x
      BY <3>1, <3>2 DEF SymbolRead
    <3> QED
      BY <1>1, <1>2, <3>2, <3>3
  <2>2. m \in D
    <3>1. SymbolRead(b.records[i], object.symbols[m])
      BY <1>1, <1>2
    <3> QED
      BY <1>1, <3>1 DEF SymbolRead, Definitions
  <2> QED
    BY <2>1, <2>2
<1>4. D \subseteq 1..n
  BY <1>1 DEF Definitions
<1>5. D = {m}
  BY <1>3, <1>4
<1>6. Cardinality(D) = 1
  BY <1>5, FS_Singleton
<1>7. SymbolRead(b.records[i], object.symbols[m])
  BY <1>1, <1>2
<1> QED
  BY <1>5, <1>6, <1>7

\* A builder that has each definition once is written with each definition once.
LEMMA KeptReads ==
  ASSUME NamesSpelled, UnitInv, MoreInv, KeptInv, builder.sections[BssSection].size <= WordMax
  PROVE  DefinitionsKept
<1> SUFFICES ASSUME stage = "written" PROVE DefinitionsKept
  BY DEF DefinitionsKept
<1> DEFINE n == Len(symbols)
           object == Read(file)
<1>1. n \in Nat /\ builder \in BuilderType(n) /\ Bounded
  BY DEF UnitInv, Table
<1>2. FinalBuilder(builder) /\ file = Written(builder) /\ Writable(builder)
  BY DEF MoreInv
<1>3. Fixed(builder)
  BY <1>2 DEF FinalBuilder, Frame
<1>4. Fitting(builder)
  BY <1>1, <1>3, FinalFits DEF Bounded
<1>5. ReadAs(builder, object)
  BY <1>2, <1>4, FileReadsBack
<1>6. Len(builder.records) \in Nat
  BY <1>1, SectionsTyped
<1>7. Kept(builder, claims.placed, claims)
  BY DEF KeptInv
<1>8. PICK p : SymbolsMatch(builder, object, p)
  BY <1>5 DEF ReadAs
<1> HIDE DEF object, n
<1>9. ASSUME NEW name \in claims.owed
      PROVE  /\ Cardinality(Definitions(object, name)) = 1
             /\ \A k \in Definitions(object, name) :
                  LET symbol == object.symbols[k] IN
                  /\ symbol.global = (name \notin claims.internal)
                  /\ At(symbol.section, symbol.value, symbol.size) = claims.placed[name]
  <2>1. PICK i \in 1..Len(builder.records) :
          /\ builder.records[i].name = name /\ builder.records[i].section # 0
          /\ RowRight(builder.records[i], claims.placed, claims)
          /\ \A j \in 1..Len(builder.records) : builder.records[j].name = name => j = i
    BY <1>7 DEF Kept
  <2>2. /\ Cardinality(Definitions(object, name)) = 1
        /\ \A k \in Definitions(object, name) :
             SymbolRead(builder.records[i], object.symbols[k])
    BY <1>6, <1>8, <2>1, OneRead
  <2> QED
    BY <2>1, <2>2 DEF SymbolRead, RowRight
<1>10. ASSUME NEW k \in 1..Len(object.symbols), object.symbols[k].section # 0
       PROVE  object.symbols[k].name \in claims.owed \cup ToSet(Services)
  <2>1. /\ p[k] \in 1..Len(builder.records)
        /\ SymbolRead(builder.records[p[k]], object.symbols[k])
    BY <1>8 DEF SymbolsMatch, Permutes, Bijection, Injection
  <2> DEFINE j == p[k]
  <2>2. j \in 1..Len(builder.records) /\ SymbolRead(builder.records[j], object.symbols[k])
    BY <2>1
  <2> HIDE DEF j
  <2>3. /\ builder.records[j].section # 0
        /\ object.symbols[k].name = builder.records[j].name
    BY <1>10, <2>2 DEF SymbolRead
  <2> QED
    BY <1>7, <2>2, <2>3 DEF Kept
<1> QED
  BY <1>9, <1>10 DEF DefinitionsKept, object

\* What a unit defines is there, once and for the right readers, whatever it declares
\* and however much of it: DefinitionsKept. It is so when the names the compiler makes
\* up are its own, when each name keeps to one linkage, none that is announced has a
\* tentative definition and none that a block announces is defined in the same unit
\* (Coherent: where C allows more, define_symbol and object_symbol_index make another
\* file), and while .bss fits its field.
THEOREM UnitKeepsDefinitions ==
  ASSUME NamesSpelled, OwnNamesApart, Coherent
  PROVE  Spec => [](builder.sections[BssSection].size <= WordMax => DefinitionsKept)
<1> DEFINE All == UnitInv /\ MoreInv /\ KeptInv
<1>1. Init => All
  BY UnitInit, MoreInit, KeptInit
<1>2. All /\ [Next]_vars => All'
  BY UnitStep, MoreStep, KeptStep
<1>3. All => (builder.sections[BssSection].size <= WordMax => DefinitionsKept)
  BY KeptReads
<1> HIDE DEF All
<1> QED
  BY <1>1, <1>2, <1>3, PTL DEF Spec
=============================================================================
