---------------------------- MODULE LinkerProofs ----------------------------
(***************************************************************************)
(* For every set of objects and every order in which they are linked, the  *)
(* linker gives each section and each common symbol bytes of its own, and  *)
(* keeps the promise of LinkPromise: a link that ends well publishes an    *)
(* image in which every name means what C says and every reference reaches *)
(* it. LinkInv is the inductive invariant of storage; MeaningInv adds, loop *)
(* by loop, what has been read, what the names seen so far mean, and what  *)
(* the relocations applied so far have written.                            *)
(***************************************************************************)
EXTENDS Linker, SequenceTheorems, WellFoundedInduction, TLAPS

LinkInv == TypeOK /\ LoopInv /\ LayoutInv

\* align_output and output_align_to never move an offset back.
LEMMA AlignUpBounds ==
  ASSUME NEW n \in Nat, NEW align \in Nat \ {0}
  PROVE  AlignUp(n, align) \in Nat /\ n <= AlignUp(n, align)
<1> DEFINE m == n + align - 1
           q == m \div align
<1>1. m \in Nat /\ align \in Nat /\ align > 0
  OBVIOUS
<1> HIDE DEF m
<1>2. q \in Nat /\ m % align \in 0..(align - 1) /\ m = align * q + (m % align)
  BY <1>1
<1> HIDE DEF q
<1>3. align * q \in Nat /\ align * q >= m - (align - 1) /\ q * align = align * q
  BY <1>1, <1>2
<1> QED
  BY <1>1, <1>3 DEF AlignUp, m, q

\* What an accepted object says of its sections and of its symbols.
LEMMA AcceptedSection ==
  ASSUME NEW obj \in ObjectType, Accepted(obj), NEW s \in 1..Len(obj.sections)
  PROVE  /\ obj.sections[s] \in SectionType
         /\ obj.sections[s].kind \in Kinds
         /\ obj.sections[s].align \in Nat \ {0}
         /\ obj.sections[s].size \in Nat
<1>1. obj.sections \in Seq(SectionType)
  BY DEF ObjectType
<1>2. obj.sections[s] \in SectionType
  BY <1>1
<1>3. SectionAccepted(obj.sections[s])
  BY DEF Accepted
<1> QED
  BY SMTT(20), <1>2, <1>3 DEF SectionAccepted, SectionType, Alignments

LEMMA AcceptedSymbol ==
  ASSUME NEW obj \in ObjectType, Accepted(obj), NEW i \in 1..Len(obj.symbols)
  PROVE  /\ obj.symbols[i] \in SymbolType
         /\ obj.symbols[i].section \in 0..Len(obj.sections)
         /\ obj.symbols[i].value \in Nat /\ obj.symbols[i].size \in Nat
<1>1. obj.symbols \in Seq(SymbolType)
  BY DEF ObjectType
<1>2. obj.symbols[i] \in SymbolType
  BY <1>1
<1>3. SymbolAccepted(obj, obj.symbols[i])
  BY DEF Accepted
<1> QED
  BY <1>2, <1>3 DEF SymbolAccepted, SymbolType

\* The sections that have been placed are sections of the objects read.
LEMMA PlacedSection ==
  ASSUME TypeOK, NEW p \in DOMAIN place
  PROVE  /\ place[p] \in Nat /\ SizeOf(p) \in Nat /\ KindOf(p) \in Kinds
         /\ size[KindOf(p)] \in Nat /\ base[KindOf(p)] \in Nat
         /\ Start(p[1], p[2]) = base[KindOf(p)] + place[p]
<1>1. PlacedType(p) /\ place[p] \in Nat
  BY DEF TypeOK
<1>2. loaded[p[1]] \in ObjectType /\ Accepted(loaded[p[1]])
  BY <1>1 DEF TypeOK, PlacedType
<1>3. SizeOf(p) \in Nat /\ KindOf(p) \in Kinds
  BY <1>1, <1>2, AcceptedSection DEF PlacedType, SizeOf, KindOf
<1>4. size[KindOf(p)] \in Nat /\ base[KindOf(p)] \in Nat
  BY <1>3 DEF TypeOK
<1> QED
  BY <1>1, <1>3, <1>4 DEF Start, KindOf, PlacedType

LEMMA ReservedSymbol ==
  ASSUME TypeOK, NEW c \in Reserved
  PROVE  address[c] \in Nat /\ StorageOf(c) \in Nat
<1>1. ResolvedType(c) /\ address[c] \in Nat
  BY DEF TypeOK, Reserved
<1>2. loaded[c[1]] \in ObjectType /\ Accepted(loaded[c[1]])
  BY <1>1 DEF TypeOK, ResolvedType
<1> QED
  BY <1>1, <1>2, AcceptedSymbol DEF ResolvedType, StorageOf

LEMMA InitInv == Init => LinkInv
<1> SUFFICES ASSUME Init PROVE LinkInv
  OBVIOUS
<1>1. /\ stage = "read" /\ todo = ObjectItems /\ loaded = <<>>
      /\ DOMAIN place = {} /\ DOMAIN address = {}
  BY DEF Init
<1>2. TypeOK
  BY <1>1 DEF Init, TypeOK, Kinds
<1>3. LoopInv
  BY <1>1 DEF LoopInv, LaidOut
<1>4. LayoutInv
  BY <1>1 DEF LayoutInv, LaidOut
<1> QED
  BY <1>2, <1>3, <1>4 DEF LinkInv

\* A step that neither reads, places nor resolves anything, and does not go back
\* to an earlier loop.
LEMMA FrameInv ==
  ASSUME LinkInv,
         UNCHANGED <<job, volume, removed, loaded, size, base, place, address>>,
         output' \in {"previous", "partial", "image"},
         stage' \in {"relocate", "write", "linked", "refused", "exited"}
           \/ UNCHANGED <<stage, todo>>,
         LaidOut' => LaidOut
  PROVE  LinkInv'
<1>1. TypeOK'
  BY DEF LinkInv, TypeOK, PlacedType, ResolvedType
<1>2. LoopInv'
  BY DEF LinkInv, LoopInv, LaidOut, SectionItems, SymbolItems, ObjectItems
<1>3. LayoutInv'
  BY DEF LinkInv, LayoutInv, LaidOut, KindOf, SizeOf, StorageOf, Reserved, IsCommon
<1> QED
  BY <1>1, <1>2, <1>3 DEF LinkInv

LEMMA RefuseInv ==
  ASSUME LinkInv, NEW id, Refuse(id)
  PROVE  LinkInv'
BY FrameInv DEF Refuse, LaidOut, LinkInv, TypeOK

\* read_object_file adds an object it accepts; nothing is placed yet.
LEMMA ReadInv ==
  ASSUME LinkInv, ReadObject
  PROVE  LinkInv'
<1>1. PICK p \in todo : ReadObject!(p)
  BY DEF ReadObject
<1> DEFINE name == job.objects[p[1]]
<1>2. CASE ~Readable(name) /\ Refuse(ReadError)
  BY <1>2, RefuseInv
<1>3. CASE /\ Readable(name)
           /\ loaded' = Append(loaded, volume[name])
           /\ IF job.release THEN stage' = "release" /\ UNCHANGED todo
                             ELSE stage' = "read" /\ Visit(p)
           /\ UNCHANGED <<job, volume, removed, output, error, size, base, place,
                          address, globals, fields, fixups>>
  <2>1. stage = "read" /\ stage' \in {"read", "release"} /\ p \in ObjectItems
    BY <1>1, <1>3 DEF LinkInv, LoopInv
  <2>2. TypeOK /\ TypeOK!1
    BY DEF LinkInv, TypeOK
  <2>3. job \in Jobs /\ volume \in [Names -> ObjectType \cup {Missing, Damaged}]
    BY <2>2, LinkerAssumption
  <2>4. name \in Names
    <3>1. p[1] \in 1..Len(job.objects)
      BY <2>1 DEF ObjectItems
    <3>2. job.objects \in Seq(Names)
      BY <2>3, LinkerAssumption
    <3> QED
      BY <3>1, <3>2
  <2>5. volume[name] \in ObjectType /\ Accepted(volume[name])
    BY <1>3, <2>3, <2>4 DEF Readable
  <2>6. loaded \in Seq(ObjectType) /\ \A o \in 1..Len(loaded) : Accepted(loaded[o])
    BY DEF LinkInv, TypeOK
  <2>7. /\ loaded' \in Seq(ObjectType)
        /\ Len(loaded') = Len(loaded) + 1
        /\ \A o \in 1..Len(loaded') :
             loaded'[o] = IF o = Len(loaded) + 1 THEN volume[name] ELSE loaded[o]
    BY <1>3, <2>5, <2>6
  <2>8. \A o \in 1..Len(loaded') : Accepted(loaded'[o])
    BY <2>5, <2>6, <2>7
  <2>9. DOMAIN place = {} /\ DOMAIN address = {}
    BY <2>1 DEF LinkInv, LayoutInv
  <2>10. TypeOK'
    <3>1. \A o \in 1..Len(loaded') : Accepted(loaded[o])'
      BY <2>8
    <3>2. /\ stage' \in {"read", "release", "place", "resolve", "relocate", "write",
                         "linked", "refused", "exited"}
          /\ output' \in {"previous", "partial", "image"}
          /\ size' \in [Kinds -> Nat] /\ base' \in [Kinds -> Nat]
          /\ job' \in Jobs /\ volume' \in Volumes /\ removed' \subseteq Names
      BY <1>3, <2>1 DEF LinkInv, TypeOK
    <3> QED
      BY <1>3, <2>7, <2>9, <3>1, <3>2 DEF TypeOK
  <2>11. LoopInv'
    <3>1. todo' \subseteq ObjectItems'
      BY <1>3, <2>1 DEF LinkInv, LoopInv, Visit, ObjectItems
    <3> QED
      BY <2>1, <3>1 DEF LoopInv, LaidOut
  <2>12. LayoutInv'
    BY <1>3, <2>1, <2>9 DEF LayoutInv, LaidOut
  <2> QED
    BY <2>10, <2>11, <2>12 DEF LinkInv
<1> QED
  BY <1>1, <1>2, <1>3

LEMMA ReleaseInv ==
  ASSUME LinkInv, ReleaseObject
  PROVE  LinkInv'
<1>1. PICK p \in todo : ReleaseObject!(p)
  BY DEF ReleaseObject
<1>2. CASE Refuse(5043)
  BY <1>2, RefuseInv
<1>3. CASE /\ removed' = removed \cup {job.objects[p[1]]}
           /\ stage' = "read"
           /\ Visit(p)
           /\ UNCHANGED <<job, volume, output, error, loaded, size, base, place,
                          address, globals, fields, fixups>>
  <2>1. stage = "release" /\ p \in ObjectItems
    BY <1>1 DEF LinkInv, LoopInv
  <2>2. job.objects[p[1]] \in Names
    <3>1. p[1] \in 1..Len(job.objects)
      BY <2>1 DEF ObjectItems
    <3>2. job.objects \in Seq(Names)
      BY LinkerAssumption DEF LinkInv, TypeOK
    <3> QED
      BY <3>1, <3>2
  <2>3. removed' \subseteq Names
    BY <1>3, <2>2 DEF LinkInv, TypeOK
  <2>4. TypeOK'
    BY <1>3, <2>3 DEF LinkInv, TypeOK, PlacedType, ResolvedType
  <2>5. LoopInv'
    BY <1>3, <2>1 DEF LinkInv, LoopInv, LaidOut, Visit, ObjectItems
  <2>6. LayoutInv'
    BY <1>3, <2>1 DEF LinkInv, LayoutInv, LaidOut
  <2> QED
    BY <2>4, <2>5, <2>6 DEF LinkInv
<1> QED
  BY <1>1, <1>2, <1>3

LEMMA PlaceStubInv ==
  ASSUME LinkInv, PlaceStub
  PROVE  LinkInv'
<1>1. /\ stage = "read" /\ stage' = "place"
      /\ size' = [size EXCEPT ![Text] = StubSize]
      /\ todo' = SectionItems
      /\ UNCHANGED <<job, volume, removed, output, loaded, base, place, address>>
  BY DEF PlaceStub
<1>2. DOMAIN place = {} /\ DOMAIN address = {}
  BY <1>1 DEF LinkInv, LayoutInv
<1>3. size' \in [Kinds -> Nat] /\ size'[Text] = StubSize
  BY <1>1 DEF LinkInv, TypeOK, Kinds, Text, StubSize
<1>4. TypeOK'
  <2>1. \A o \in 1..Len(loaded') : Accepted(loaded[o])'
    BY <1>1 DEF LinkInv, TypeOK
  <2> QED
    BY <1>1, <1>2, <1>3, <2>1 DEF LinkInv, TypeOK
<1>5. LoopInv'
  BY <1>1 DEF LoopInv, LaidOut, SectionItems
<1>6. LayoutInv'
  BY <1>1, <1>2, <1>3 DEF LayoutInv, LaidOut, StubSize
<1> QED
  BY <1>4, <1>5, <1>6 DEF LinkInv

\* A section goes after everything its output holds.
LEMMA PlaceSectionInv ==
  ASSUME LinkInv, PlaceSection
  PROVE  LinkInv'
<1>1. PICK p \in todo : PlaceSection!(p)
  BY DEF PlaceSection
<1> DEFINE s == <<p[1], p[2]>>
           section == SectionAt(p)
           k == section.kind
           offset == Aligned(k, section.align)
<1>2. /\ stage = "place"
      /\ place' = Extend(place, s, offset)
      /\ size' = [size EXCEPT ![k] = offset + section.size]
      /\ todo' = todo \ {p}
      /\ UNCHANGED <<job, volume, removed, output, stage, loaded, base, address>>
  BY <1>1 DEF Visit
<1>3. TypeOK /\ LoopInv /\ LayoutInv
  BY DEF LinkInv
<1>4. p \in SectionItems
  BY <1>2, <1>3 DEF LoopInv
<1>5. /\ p[1] \in 1..Len(loaded) /\ p[2] \in 1..Len(loaded[p[1]].sections)
      /\ p = <<p[1], p[2], 0>>
  BY <1>4 DEF SectionItems
<1>6. loaded[p[1]] \in ObjectType /\ Accepted(loaded[p[1]])
  BY <1>3, <1>5 DEF TypeOK
<1>7. k \in Kinds /\ section.align \in Nat \ {0} /\ section.size \in Nat
  BY <1>5, <1>6, AcceptedSection DEF SectionAt
<1>8. size[k] \in Nat
  BY <1>3, <1>7 DEF TypeOK
<1>9. offset \in Nat /\ size[k] <= offset
  BY <1>7, <1>8, AlignUpBounds DEF Aligned
<1>10. SizeOf(s) = section.size /\ KindOf(s) = k /\ s[1] = p[1] /\ s[2] = p[2]
       /\ s = <<s[1], s[2]>>
  BY DEF SizeOf, KindOf, SectionAt
<1> HIDE DEF s, section, k, offset
<1>11. /\ DOMAIN place' = DOMAIN place \cup {s}
       /\ place'[s] = offset
       /\ \A q \in DOMAIN place : q # s => place'[q] = place[q]
  BY <1>2 DEF Extend
<1>12. /\ size' \in [Kinds -> Nat]
       /\ size'[k] = offset + section.size
       /\ \A j \in Kinds : size[j] <= size'[j]
  BY <1>2, <1>3, <1>7, <1>8, <1>9 DEF TypeOK
<1>13. TypeOK'
  <2>1. \A o \in 1..Len(loaded') : Accepted(loaded[o])'
    BY <1>2, <1>3 DEF TypeOK
  <2>2. \A q \in DOMAIN place' : PlacedType(q)' /\ place'[q] \in Nat
    BY <1>2, <1>3, <1>5, <1>9, <1>10, <1>11 DEF TypeOK, PlacedType
  <2>3. \A q \in DOMAIN address' : ResolvedType(q)' /\ address'[q] \in Nat
    BY <1>2, <1>3 DEF TypeOK, ResolvedType
  <2> QED
    BY <1>2, <1>3, <1>12, <2>1, <2>2, <2>3 DEF TypeOK
<1>14. LoopInv'
  <2>1. todo' \subseteq SectionItems' /\ SectionItems' = SectionItems
    BY <1>2, <1>3 DEF LoopInv, SectionItems
  <2>2. \A q \in SectionItems : q \in todo' \/ <<q[1], q[2]>> \in DOMAIN place'
    BY <1>2, <1>3, <1>11 DEF LoopInv, s
  <2> QED
    BY <1>2, <2>1, <2>2 DEF LoopInv, LaidOut
<1>15. LayoutInv'
  <2>1. \A q : KindOf(q)' = KindOf(q) /\ SizeOf(q)' = SizeOf(q)
    BY <1>2 DEF KindOf, SizeOf
  <2>2. ASSUME NEW q \in DOMAIN place, q # s
        PROVE  /\ place'[q] = place[q] /\ place[q] \in Nat /\ SizeOf(q) \in Nat
               /\ KindOf(q) \in Kinds
               /\ KindOf(q) = Text => StubSize <= place[q]
               /\ place[q] + SizeOf(q) <= size[KindOf(q)]
               /\ place[q] + SizeOf(q) <= size'[KindOf(q)]
    <3>1. /\ place[q] \in Nat /\ SizeOf(q) \in Nat /\ KindOf(q) \in Kinds
          /\ size[KindOf(q)] \in Nat
      BY <1>3, PlacedSection
    <3>2. size'[KindOf(q)] \in Nat /\ size[KindOf(q)] <= size'[KindOf(q)]
      BY <1>12, <3>1
    <3>3. /\ KindOf(q) = Text => StubSize <= place[q]
          /\ place[q] + SizeOf(q) <= size[KindOf(q)]
      BY <1>3 DEF LayoutInv
    <3> QED
      BY <1>11, <2>2, <3>1, <3>2, <3>3
  <2>3. k = Text => StubSize <= offset
    BY <1>2, <1>3, <1>8, <1>9 DEF LayoutInv, StubSize
  <2>4. \A q \in DOMAIN place' : /\ KindOf(q) = Text => StubSize <= place'[q]
                                /\ place'[q] + SizeOf(q) <= size'[KindOf(q)]
    BY <1>7, <1>9, <1>10, <1>11, <1>12, <2>2, <2>3
  <2>5. \A q, r \in DOMAIN place' :
          q # r /\ KindOf(q) = KindOf(r) =>
            Apart(place'[q], SizeOf(q), place'[r], SizeOf(r))
    <3> SUFFICES ASSUME NEW q \in DOMAIN place', NEW r \in DOMAIN place',
                        q # r, KindOf(q) = KindOf(r)
                 PROVE  Apart(place'[q], SizeOf(q), place'[r], SizeOf(r))
      OBVIOUS
    <3>1. CASE q # s /\ r # s
      <4>1. q \in DOMAIN place /\ r \in DOMAIN place
        BY <1>11, <3>1
      <4> QED
        BY <1>3, <2>2, <3>1, <4>1 DEF LayoutInv
    <3>2. CASE q = s
      <4>1. r \in DOMAIN place /\ r # s
        BY <1>11, <3>2
      <4>2. place'[r] + SizeOf(r) <= size[k] /\ place'[r] \in Nat /\ SizeOf(r) \in Nat
        BY <1>10, <2>2, <3>2, <4>1
      <4> QED
        BY <1>8, <1>9, <1>11, <3>2, <4>2 DEF Apart
    <3>3. CASE r = s
      <4>1. q \in DOMAIN place /\ q # s
        BY <1>11, <3>3
      <4>2. place'[q] + SizeOf(q) <= size[k] /\ place'[q] \in Nat /\ SizeOf(q) \in Nat
        BY <1>10, <2>2, <3>3, <4>1
      <4> QED
        BY <1>8, <1>9, <1>11, <3>3, <4>2 DEF Apart
    <3> QED
      BY <3>1, <3>2, <3>3
  <2>6. StubSize <= size'[Text]
    BY <1>2, <1>3, <1>12 DEF LayoutInv, TypeOK, Kinds, Text, StubSize
  <2>7. DOMAIN address' = {}
    BY <1>2, <1>3 DEF LayoutInv
  <2> QED
    BY <1>2, <2>1, <2>4, <2>5, <2>6, <2>7 DEF LayoutInv, LaidOut
<1> QED
  BY <1>13, <1>14, <1>15 DEF LinkInv

\* The outputs are placed one past the other.
LEMMA LayOutInv ==
  ASSUME LinkInv, LayOut
  PROVE  LinkInv'
<1> DEFINE readOnly == AlignUp(size[Text], OutputAlign(ReadOnly))
           data == AlignUp(readOnly + size[ReadOnly], OutputAlign(Data))
           bss == AlignUp(data + size[Data], OutputAlign(Bss))
<1>1. TypeOK /\ LoopInv /\ LayoutInv
  BY DEF LinkInv
<1>2. /\ stage = "place" /\ todo = {} /\ stage' = "resolve"
      /\ base' = [j \in Kinds |-> CASE j = Text -> 0
                                    [] j = ReadOnly -> readOnly
                                    [] j = Data -> data
                                    [] j = Bss -> bss]
      /\ todo' = SymbolItems
      /\ UNCHANGED <<job, volume, removed, output, loaded, size, place, address>>
  BY DEF LayOut
<1>3. \A k \in Kinds : size[k] \in Nat /\ OutputAlign(k) \in Nat \ {0}
  BY <1>1 DEF TypeOK, OutputAlign
<1>4. {Text, ReadOnly, Data, Bss} \subseteq Kinds
  BY DEF Kinds, Text, ReadOnly, Data, Bss
<1>5. readOnly \in Nat /\ size[Text] <= readOnly
  BY <1>3, <1>4, AlignUpBounds
<1> HIDE DEF readOnly
<1>6. data \in Nat /\ readOnly + size[ReadOnly] <= data
  BY <1>3, <1>4, <1>5, AlignUpBounds
<1> HIDE DEF data
<1>7. bss \in Nat /\ data + size[Data] <= bss
  BY <1>3, <1>4, <1>6, AlignUpBounds
<1> HIDE DEF bss
<1>8. /\ base' \in [Kinds -> Nat]
      /\ base'[Text] = 0 /\ base'[ReadOnly] = readOnly
      /\ base'[Data] = data /\ base'[Bss] = bss
  BY <1>2, <1>5, <1>6, <1>7 DEF Kinds, Text, ReadOnly, Data, Bss
<1>9. DOMAIN address = {} /\ StubSize <= size[Text]
  BY <1>1, <1>2 DEF LayoutInv
<1>10. TypeOK'
  BY <1>1, <1>2, <1>8 DEF TypeOK, PlacedType, ResolvedType
<1>11. LoopInv'
  BY <1>1, <1>2 DEF LoopInv, LaidOut, SectionItems, SymbolItems
<1>12. LayoutInv'
  <2>1. \A q : KindOf(q)' = KindOf(q) /\ SizeOf(q)' = SizeOf(q)
    BY <1>2 DEF KindOf, SizeOf
  <2>2. Reserved' = {}
    BY <1>2, <1>9 DEF Reserved
  <2> QED
    BY <1>1, <1>2, <1>5, <1>6, <1>7, <1>8, <1>9, <2>1, <2>2 DEF LayoutInv, LaidOut
<1> QED
  BY <1>10, <1>11, <1>12 DEF LinkInv

\* The value of a symbol of an accepted object is a number.
LEMMA LocatedType ==
  ASSUME TypeOK, LoopInv, stage = "resolve", NEW p \in todo
  PROVE  /\ ResolvedType(<<p[1], p[2]>>)
         /\ SymbolAt(p) \in SymbolType
         /\ SymbolAt(p) = loaded[p[1]].symbols[p[2]]
         /\ Located(p[1], SymbolAt(p)) \in Nat
<1>1. p \in SymbolItems
  BY DEF LoopInv
<1>2. p[1] \in 1..Len(loaded) /\ p[2] \in 1..Len(loaded[p[1]].symbols)
  BY <1>1 DEF SymbolItems
<1>3. loaded[p[1]] \in ObjectType /\ Accepted(loaded[p[1]])
  BY <1>2 DEF TypeOK
<1>4. /\ SymbolAt(p) \in SymbolType /\ SymbolAt(p).value \in Nat
      /\ SymbolAt(p).section \in 0..Len(loaded[p[1]].sections)
  BY <1>2, <1>3, AcceptedSymbol DEF SymbolAt
<1>5. ASSUME SymbolAt(p).section # 0
      PROVE  Start(p[1], SymbolAt(p).section) \in Nat
  <2> DEFINE n == SymbolAt(p).section
             s == <<p[1], n>>
  <2>1. n \in 1..Len(loaded[p[1]].sections)
    <3>1. loaded[p[1]].sections \in Seq(SectionType)
      BY <1>3 DEF ObjectType
    <3>2. Len(loaded[p[1]].sections) \in Nat
      BY <3>1
    <3> QED
      BY <1>4, <1>5, <3>2
  <2>2. <<p[1], n, 0>> \in SectionItems
    BY <1>2, <2>1 DEF SectionItems
  <2>3. s \in DOMAIN place
    BY <2>2 DEF LoopInv, LaidOut
  <2> QED
    BY <2>3, PlacedSection
<1> QED
  BY SMTT(20), <1>2, <1>4, <1>5 DEF Located, ResolvedType, SymbolAt

\* A symbol that needs no storage of its own: only its address is recorded.
LEMMA ResolvedInv ==
  ASSUME LinkInv, stage = "resolve", NEW p \in todo, UNCHANGED size,
         ~(SymbolAt(p).global /\ IsCommon(SymbolAt(p))),
         Resolved(p, Located(p[1], SymbolAt(p)))
  PROVE  LinkInv'
<1> DEFINE s == <<p[1], p[2]>>
           value == Located(p[1], SymbolAt(p))
<1>1. TypeOK /\ LoopInv /\ LayoutInv
  BY DEF LinkInv
<1>2. /\ address' = Extend(address, s, value)
      /\ todo' = todo \ {p}
      /\ UNCHANGED <<job, volume, removed, output, stage, loaded, base, place, size>>
  BY DEF Resolved, Visit
<1>3. /\ ResolvedType(s) /\ value \in Nat
      /\ SymbolAt(p) = loaded[s[1]].symbols[s[2]]
  BY <1>1, LocatedType
<1> HIDE DEF s, value
<1>4. /\ DOMAIN address' = DOMAIN address \cup {s}
      /\ address'[s] = value
      /\ \A c \in DOMAIN address : c # s => address'[c] = address[c]
  BY <1>2 DEF Extend
<1>5. TypeOK'
  <2>1. \A c \in DOMAIN address' : ResolvedType(c)' /\ address'[c] \in Nat
    BY <1>1, <1>2, <1>3, <1>4 DEF TypeOK, ResolvedType
  <2> QED
    BY <1>1, <1>2, <2>1 DEF TypeOK, PlacedType
<1>6. LoopInv'
  BY <1>1, <1>2 DEF LoopInv, LaidOut, SectionItems, SymbolItems
<1>7. \A c \in Reserved' : c \in Reserved /\ address'[c] = address[c]
  <2> SUFFICES ASSUME NEW c \in Reserved'
               PROVE  c \in Reserved /\ address'[c] = address[c]
    OBVIOUS
  <2>1. /\ c \in DOMAIN address'
        /\ loaded[c[1]].symbols[c[2]].global /\ IsCommon(loaded[c[1]].symbols[c[2]])
    BY <1>2 DEF Reserved, IsCommon
  <2>2. c # s
    BY <1>3, <2>1
  <2> QED
    BY <1>4, <2>1, <2>2 DEF Reserved
<1>8. LayoutInv'
  <2>1. \A q : /\ KindOf(q)' = KindOf(q) /\ SizeOf(q)' = SizeOf(q)
               /\ StorageOf(q)' = StorageOf(q)
    BY <1>2 DEF KindOf, SizeOf, StorageOf
  <2> QED
    BY <1>1, <1>2, <1>7, <2>1 DEF LayoutInv, LaidOut
<1> QED
  BY <1>5, <1>6, <1>8 DEF LinkInv

LEMMA ResolveLocalInv ==
  ASSUME LinkInv, ResolveLocal
  PROVE  LinkInv'
BY ResolvedInv DEF ResolveLocal

LEMMA ResolveReferenceInv ==
  ASSUME LinkInv, ResolveReference
  PROVE  LinkInv'
BY ResolvedInv DEF ResolveReference

LEMMA ResolveDefinitionInv ==
  ASSUME LinkInv, ResolveDefinition
  PROVE  LinkInv'
<1>1. PICK p \in todo : ResolveDefinition!(p)
  BY DEF ResolveDefinition
<1>2. CASE Refuse(5020)
  BY <1>2, RefuseInv
<1>3. CASE ~Refuse(5020)
  BY <1>1, <1>3, ResolvedInv DEF IsCommon
<1> QED
  BY <1>2, <1>3

\* A common symbol's storage starts at the end of BSS, past every section and
\* past the commons before it.
LEMMA ResolveCommonInv ==
  ASSUME LinkInv, ResolveCommon
  PROVE  LinkInv'
<1>1. PICK p \in todo : ResolveCommon!(p)
  BY DEF ResolveCommon
<1>2. CASE Refuse(5020)
  BY <1>2, RefuseInv
<1>3. CASE ~Refuse(5020)
  <2> DEFINE s == <<p[1], p[2]>>
             symbol == SymbolAt(p)
             offset == AlignUp(size[Bss], CommonAlign)
             value == base[Bss] + offset
  <2>1. TypeOK /\ LoopInv /\ LayoutInv /\ stage = "resolve" /\ LaidOut
    BY <1>1 DEF LinkInv, LaidOut
  <2>2. /\ size' = [size EXCEPT ![Bss] = offset + symbol.size]
        /\ address' = Extend(address, s, value)
        /\ todo' = todo \ {p}
        /\ UNCHANGED <<job, volume, removed, output, stage, loaded, base, place>>
    BY <1>1, <1>3 DEF Resolved, Visit
  <2>3. ResolvedType(s) /\ symbol \in SymbolType /\ symbol = loaded[s[1]].symbols[s[2]]
    BY <2>1, LocatedType
  <2>4. symbol.size \in Nat /\ StorageOf(s) = symbol.size
    BY <2>3 DEF SymbolType, StorageOf
  <2>5. Bss \in Kinds /\ size[Bss] \in Nat /\ base[Bss] \in Nat
    BY <2>1 DEF TypeOK, Kinds, Bss
  <2>6. offset \in Nat /\ size[Bss] <= offset
    BY <2>5, AlignUpBounds DEF CommonAlign
  <2> HIDE DEF s, symbol, offset
  <2>7. value \in Nat /\ base[Bss] + size[Bss] <= value
    BY <2>5, <2>6
  <2> HIDE DEF value
  <2>8. /\ size' \in [Kinds -> Nat]
        /\ base[Bss] + size'[Bss] = value + StorageOf(s)
        /\ \A k \in Kinds : size[k] <= size'[k] /\ (k # Bss => size'[k] = size[k])
    BY <2>1, <2>2, <2>4, <2>5, <2>6 DEF TypeOK, value
  <2>9. /\ DOMAIN address' = DOMAIN address \cup {s}
        /\ address'[s] = value
        /\ \A c \in DOMAIN address : c # s => address'[c] = address[c]
    BY <2>2 DEF Extend
  <2>10. TypeOK'
    <3>1. \A c \in DOMAIN address' : ResolvedType(c)' /\ address'[c] \in Nat
      BY <2>1, <2>2, <2>3, <2>7, <2>9 DEF TypeOK, ResolvedType
    <3> QED
      BY <2>1, <2>2, <2>8, <3>1 DEF TypeOK, PlacedType
  <2>11. LoopInv'
    BY <2>1, <2>2 DEF LoopInv, LaidOut, SectionItems, SymbolItems
  <2>12. LayoutInv'
    <3>1. \A q : /\ KindOf(q)' = KindOf(q) /\ SizeOf(q)' = SizeOf(q)
                 /\ StorageOf(q)' = StorageOf(q)
      BY <2>2 DEF KindOf, SizeOf, StorageOf
    <3>2. \A c \in Reserved' : c = s \/ (c \in Reserved /\ address'[c] = address[c])
      BY <2>2, <2>9 DEF Reserved, IsCommon
    <3>3. ASSUME NEW c \in Reserved
          PROVE  /\ base[Bss] <= address[c] /\ address[c] \in Nat /\ StorageOf(c) \in Nat
                 /\ address[c] + StorageOf(c) <= base[Bss] + size[Bss]
      BY <2>1, ReservedSymbol DEF LayoutInv
    <3>4. ASSUME NEW q \in DOMAIN place
          PROVE  /\ place[q] + SizeOf(q) <= size'[KindOf(q)]
                 /\ KindOf(q) = Bss => base[Bss] + place[q] + SizeOf(q) <= value
      <4>1. /\ place[q] \in Nat /\ SizeOf(q) \in Nat /\ KindOf(q) \in Kinds
            /\ size[KindOf(q)] \in Nat
        BY <2>1, PlacedSection
      <4>2. place[q] + SizeOf(q) <= size[KindOf(q)]
        BY <2>1 DEF LayoutInv
      <4>3. size'[KindOf(q)] \in Nat /\ size[KindOf(q)] <= size'[KindOf(q)]
        BY <2>8, <4>1
      <4> QED
        BY <2>5, <2>7, <4>1, <4>2, <4>3
    <3>5. ASSUME NEW c \in Reserved'
          PROVE  /\ base[Bss] <= address'[c]
                 /\ address'[c] + StorageOf(c) <= base[Bss] + size'[Bss]
                 /\ \A q \in DOMAIN place :
                      KindOf(q) = Bss => base[Bss] + place[q] + SizeOf(q) <= address'[c]
      <4>1. CASE c = s
        BY <2>4, <2>5, <2>7, <2>8, <2>9, <3>4, <4>1
      <4>2. CASE c \in Reserved /\ address'[c] = address[c]
        BY <2>1, <2>4, <2>5, <2>7, <2>8, <3>3, <4>2 DEF LayoutInv
      <4> QED
        BY <3>2, <4>1, <4>2
    <3>6. \A c, d \in Reserved' :
            c # d => Apart(address'[c], StorageOf(c), address'[d], StorageOf(d))
      <4> SUFFICES ASSUME NEW c \in Reserved', NEW d \in Reserved', c # d
                   PROVE  Apart(address'[c], StorageOf(c), address'[d], StorageOf(d))
        OBVIOUS
      <4>1. CASE c # s /\ d # s
        BY <2>1, <3>2, <4>1 DEF LayoutInv
      <4>2. CASE c = s
        BY <2>5, <2>7, <2>9, <3>2, <3>3, <4>2 DEF Apart
      <4>3. CASE d = s
        BY <2>5, <2>7, <2>9, <3>2, <3>3, <4>3 DEF Apart
      <4> QED
        BY <4>1, <4>2, <4>3
    <3>7. size'[Text] = size[Text] /\ size'[ReadOnly] = size[ReadOnly]
          /\ size'[Data] = size[Data]
      BY <2>8 DEF Kinds, Text, ReadOnly, Data, Bss
    <3>8. /\ StubSize <= size[Text]
          /\ base[Text] = 0
          /\ size[Text] <= base[ReadOnly]
          /\ base[ReadOnly] + size[ReadOnly] <= base[Data]
          /\ base[Data] + size[Data] <= base[Bss]
      BY <2>1 DEF LayoutInv
    <3>9. \A q \in DOMAIN place :
            /\ KindOf(q) = Text => StubSize <= place[q]
            /\ place[q] + SizeOf(q) <= size'[KindOf(q)]
            /\ \A r \in DOMAIN place :
                 q # r /\ KindOf(q) = KindOf(r) =>
                   Apart(place[q], SizeOf(q), place[r], SizeOf(r))
      BY <2>1, <3>4 DEF LayoutInv
    <3> QED
      BY <2>1, <2>2, <3>1, <3>5, <3>6, <3>7, <3>8, <3>9 DEF LayoutInv, LaidOut
  <2> QED
    BY <2>10, <2>11, <2>12 DEF LinkInv
<1> QED
  BY <1>2, <1>3

\* One turn of apply_relocations refuses the link or writes one field.
LEMMA RelocateTurn ==
  ASSUME Relocate
  PROVE  /\ stage = "relocate"
         /\ \/ \E id : Refuse(id)
            \/ \E p, position, value : Wrote(p, position, value)
<1> DEFINE Turned == \/ \E id : Refuse(id)
                     \/ \E p, position, value : Wrote(p, position, value)
<1>1. \A p, reloc, value : ApplyData64(p, reloc, value) => Turned
  BY DEF ApplyData64
<1>2. \A p, reloc, value : ApplyPc32(p, reloc, value) => Turned
  BY DEF ApplyPc32
<1>3. \A p, reloc, symbol : ApplySection32(p, reloc, symbol) => Turned
  BY DEF ApplySection32
<1>4. \A id : Refuse(id) => Turned
  OBVIOUS
<1> HIDE DEF Turned
<1>5. \A p, reloc, symbol, value : ApplyReloc(p, reloc, symbol, value) => Turned
  BY <1>1, <1>2, <1>3, <1>4 DEF ApplyReloc
<1>6. stage = "relocate" /\ Turned
  BY <1>5 DEF Relocate
<1> QED
  BY <1>6 DEF Turned

\* LinkInv holds in every reachable state of every link.
THEOREM Inductive == Spec => []LinkInv
<1>1. LinkInv /\ [Next]_vars => LinkInv'
  <2> SUFFICES ASSUME LinkInv, [Next]_vars PROVE LinkInv'
    OBVIOUS
  <2>1. CASE ReadObject
    BY <2>1, ReadInv
  <2>2. CASE ReleaseObject
    BY <2>2, ReleaseInv
  <2>3. CASE PlaceStub
    BY <2>3, PlaceStubInv
  <2>4. CASE PlaceSection
    BY <2>4, PlaceSectionInv
  <2>5. CASE LayOut
    BY <2>5, LayOutInv
  <2>6. CASE ResolveLocal \/ ResolveReference
    BY <2>6, ResolveLocalInv, ResolveReferenceInv
  <2>7. CASE ResolveCommon \/ ResolveDefinition
    BY <2>7, ResolveCommonInv, ResolveDefinitionInv
  <2>8. CASE Flatten
    BY <2>8, FrameInv DEF Flatten, LaidOut, LinkInv, TypeOK
  <2>9. CASE Relocate
    <3>1. /\ stage = "relocate"
          /\ (\E id : Refuse(id)) \/ (\E p, position, value : Wrote(p, position, value))
      BY <2>9, RelocateTurn
    <3>2. CASE \E id : Refuse(id)
      BY <3>2, RefuseInv
    <3>3. CASE \E p, position, value : Wrote(p, position, value)
      <4>1. UNCHANGED <<job, volume, removed, output, stage, loaded, size, base,
                        place, address>>
        BY <3>3 DEF Wrote
      <4> QED
        BY <3>1, <4>1, FrameInv DEF LaidOut, LinkInv, TypeOK
    <3> QED
      BY <3>1, <3>2, <3>3
  <2>10. CASE PatchEntry
    <3>1. CASE \E id : Refuse(id)
      BY <3>1, RefuseInv
    <3>2. CASE ~\E id : Refuse(id)
      <4>1. /\ UNCHANGED <<job, volume, removed, output, loaded, size, base, place,
                           address>>
            /\ stage = "relocate" /\ stage' = "write"
        BY <2>10, <3>2 DEF PatchEntry
      <4> QED
        BY <4>1, FrameInv DEF LaidOut, LinkInv, TypeOK
    <3> QED
      BY <3>1, <3>2
  <2>11. CASE WriteImage
    <3>1. CASE \E id : Refuse(id)
      BY <3>1, RefuseInv
    <3>2. CASE ~\E id : Refuse(id)
      <4>1. /\ UNCHANGED <<job, volume, removed, loaded, size, base, place, address>>
            /\ output' \in {"image", "partial"}
            /\ stage = "write" /\ stage' \in {"linked", "refused"}
        BY <2>11, <3>2 DEF WriteImage
      <4> QED
        BY <4>1, FrameInv DEF LaidOut
    <3> QED
      BY <3>1, <3>2
  <2>12. CASE OutOfMemory
    BY <2>12, FrameInv DEF OutOfMemory, LaidOut, LinkInv, TypeOK
  <2>13. CASE UNCHANGED vars
    BY <2>13, FrameInv DEF vars, LaidOut, LinkInv, TypeOK
  <2>14. CASE Ended
    BY <2>13, <2>14 DEF Ended
  <2> QED
    BY <2>1, <2>2, <2>3, <2>4, <2>5, <2>6, <2>7, <2>8, <2>9, <2>10, <2>11, <2>12,
       <2>13, <2>14 DEF Next
<1> QED
  BY InitInv, <1>1, PTL DEF Spec

LEMMA DisjointFromInv == LinkInv => StorageDisjoint
<1> SUFFICES ASSUME LinkInv, LaidOut
             PROVE  StorageDisjoint
  BY DEF StorageDisjoint
<1>1. TypeOK /\ LayoutInv
  BY DEF LinkInv
<1>2. \A k \in Kinds : base[k] \in Nat /\ size[k] \in Nat
  BY <1>1 DEF TypeOK
<1>3. \A j, k \in Kinds : j < k => base[j] + size[j] <= base[k]
  <2>1. /\ base[0] + size[0] <= base[1]
        /\ base[1] + size[1] <= base[2]
        /\ base[2] + size[2] <= base[3]
    BY <1>1, <1>2 DEF LayoutInv, Kinds, Text, ReadOnly, Data, Bss
  <2>2. \A k \in {0, 1, 2, 3} : base[k] \in Nat /\ size[k] \in Nat
    BY <1>2 DEF Kinds
  <2>3. Kinds = {0, 1, 2, 3}
    BY DEF Kinds
  <2>4. \A j, k \in {0, 1, 2, 3} : j < k => base[j] + size[j] <= base[k]
    BY <2>1, <2>2
  <2> QED
    BY <2>3, <2>4
<1>4. \A k \in Kinds : k # Text => StubSize <= base[k]
  BY SMTT(20), <1>1, <1>2 DEF LayoutInv, Kinds, Text, ReadOnly, Data, Bss, StubSize
<1>5. ASSUME NEW p \in DOMAIN place
      PROVE  /\ Start(p[1], p[2]) = base[KindOf(p)] + place[p]
             /\ place[p] \in Nat /\ SizeOf(p) \in Nat /\ KindOf(p) \in Kinds
             /\ place[p] + SizeOf(p) <= size[KindOf(p)]
             /\ KindOf(p) = Text => StubSize <= place[p]
  BY <1>1, PlacedSection DEF LayoutInv
<1>6. \A p \in DOMAIN place : StubSize <= Start(p[1], p[2])
  BY <1>2, <1>4, <1>5 DEF StubSize
<1>7. ASSUME NEW p \in DOMAIN place, NEW q \in DOMAIN place, p # q
      PROVE  Apart(Start(p[1], p[2]), SizeOf(p), Start(q[1], q[2]), SizeOf(q))
  <2>1. CASE KindOf(p) = KindOf(q)
    <3>1. Apart(place[p], SizeOf(p), place[q], SizeOf(q))
      BY <1>1, <1>7, <2>1 DEF LayoutInv
    <3> QED
      BY <1>2, <1>5, <2>1, <3>1 DEF Apart
  <2>2. CASE KindOf(p) < KindOf(q)
    <3>1. base[KindOf(p)] + size[KindOf(p)] <= base[KindOf(q)]
      BY <1>3, <1>5, <2>2
    <3> QED
      BY <1>2, <1>5, <3>1 DEF Apart
  <2>3. CASE KindOf(q) < KindOf(p)
    <3>1. base[KindOf(q)] + size[KindOf(q)] <= base[KindOf(p)]
      BY <1>3, <1>5, <2>3
    <3> QED
      BY <1>2, <1>5, <3>1 DEF Apart
  <2> QED
    BY <1>5, <2>1, <2>2, <2>3 DEF Kinds
<1>8. ASSUME NEW c \in Reserved
      PROVE  /\ address[c] \in Nat /\ StorageOf(c) \in Nat
             /\ base[Bss] <= address[c]
             /\ \A p \in DOMAIN place :
                  KindOf(p) = Bss => base[Bss] + place[p] + SizeOf(p) <= address[c]
  BY <1>1, ReservedSymbol DEF LayoutInv
<1>9. ASSUME NEW p \in DOMAIN place, NEW c \in Reserved
      PROVE  Apart(Start(p[1], p[2]), SizeOf(p), address[c], StorageOf(c))
  <2>1. CASE KindOf(p) = Bss
    BY <1>2, <1>5, <1>8, <2>1 DEF Apart
  <2>2. CASE KindOf(p) # Bss
    <3>1. base[KindOf(p)] + size[KindOf(p)] <= base[Bss]
      BY <1>3, <1>5, <2>2 DEF Kinds, Bss
    <3> QED
      BY <1>2, <1>5, <1>8, <3>1 DEF Apart, Kinds, Bss
  <2> QED
    BY <2>1, <2>2
<1>10. ASSUME NEW c \in Reserved
       PROVE  /\ StubSize <= address[c]
              /\ \A d \in Reserved :
                   c # d => Apart(address[c], StorageOf(c), address[d], StorageOf(d))
  <2>1. StubSize <= base[Bss] /\ base[Bss] \in Nat
    BY <1>2, <1>4 DEF Kinds, Bss, Text
  <2> QED
    BY <1>1, <1>8, <2>1 DEF LayoutInv, StubSize
<1> QED
  BY <1>6, <1>7, <1>9, <1>10 DEF StorageDisjoint

\* The tables the linker keeps stay consistent with one another: every placed
\* section and every resolved symbol is one of an object that was read and
\* accepted.
THEOREM TypeCorrect == Spec => []TypeOK
<1>1. LinkInv => TypeOK
  BY DEF LinkInv
<1> QED
  BY <1>1, Inductive, PTL

\* Whatever objects are linked, and in whatever order, no two sections, no two
\* common symbols, and no section and common symbol share a byte of the image,
\* and none of them lies over the entry trampoline.
THEOREM ImageStorageDisjoint == Spec => []StorageDisjoint
BY Inductive, DisjointFromInv, PTL

-----------------------------------------------------------------------------
(* What the tables mean *)

\* The objects read are the first of those asked for, and what is left to read
\* is the rest; an object is released when it was the last one read.
InputsInv ==
  /\ Len(loaded) <= Len(job.objects)
  /\ \A o \in 1..Len(loaded) : loaded[o] = volume[job.objects[o]]
  /\ stage = "read" => todo = {p \in ObjectItems : p[1] > Len(loaded)}
  /\ stage = "release" => /\ job.release /\ Len(loaded) > 0
                          /\ todo = {p \in ObjectItems : p[1] >= Len(loaded)}
  /\ stage = "place" \/ LaidOut => Len(loaded) = Len(job.objects)

\* The symbols resolved are those the loop has visited, and one that is not a
\* common symbol has the address its object and the layout give it.
SymbolsInv ==
  LaidOut =>
    /\ \A p \in SymbolItems :
         <<p[1], p[2]>> \in DOMAIN address <=> ~(stage = "resolve" /\ p \in todo)
    /\ \A p \in DOMAIN address :
         /\ p = <<p[1], p[2]>>
         /\ ~(SymbolAt(p).global /\ IsCommon(SymbolAt(p)))
              => address[p] = Located(p[1], SymbolAt(p))

\* The symbols of a name resolved so far.
Seen(name) == {p \in DOMAIN address : SymbolAt(p).global /\ SymbolAt(p).name = name}
Defining(name) == {p \in Seen(name) : SymbolAt(p).section # 0}
Tentative(name) == {p \in Seen(name) : IsCommon(SymbolAt(p))}

\* A name that is not defined has been referred to only.
UndefinedName(name) == Defining(name) = {} /\ Tentative(name) = {}

\* A common name is the largest of its common symbols, and nothing defines it.
CommonName(name, global) ==
  /\ Defining(name) = {}
  /\ \E c \in Tentative(name) :
       global.address = address[c] /\ global.size = SymbolAt(c).size
  /\ \A c \in Tentative(name) : SymbolAt(c).size <= global.size

\* A defined name is one of its definitions, and of the size of each.
DefinedName(name, global) ==
  /\ \E d \in Defining(name) : global.address = address[d]
  /\ name \in RuntimeNames \/ \A d \in Defining(name) : SymbolAt(d).size = global.size

NameMeant(name, global) ==
  /\ ~global.defined => ~global.common /\ UndefinedName(name)
  /\ global.defined /\ global.common => CommonName(name, global)
  /\ global.defined /\ ~global.common => DefinedName(name, global)

\* Two definitions of a name may stand side by side.
Compatible(name) ==
  \A p, q \in Defining(name) :
    p # q => \/ name \in RuntimeNames
             \/ /\ SymbolAt(p).size = SymbolAt(q).size
                /\ \E d \in {p, q} : KindOf(<<d[1], SymbolAt(d).section>>) = Bss

GlobalType == [address : Nat, size : Nat, defined : BOOLEAN, common : BOOLEAN]

\* What the GlobalSymbols say is true of the symbols seen so far.
NamesInv ==
  /\ stage \in {"read", "release", "place"} => DOMAIN globals = {}
  /\ \A name \in DOMAIN globals : globals[name] \in GlobalType
  /\ LaidOut =>
       /\ \A p \in DOMAIN address : SymbolAt(p).global => SymbolAt(p).name \in DOMAIN globals
       /\ \A name \in DOMAIN globals : NameMeant(name, globals[name]) /\ Compatible(name)

\* The field of a relocation is not written by another one of its section.
AloneAt(p) ==
  \A t \in 1..Len(SectionAt(p).relocs) :
    t # p[3] =>
      Apart(SectionAt(p).relocs[p[3]].offset, Width(SectionAt(p).relocs[p[3]].type),
            SectionAt(p).relocs[t].offset, Width(SectionAt(p).relocs[t].type))

\* What an applied relocation has left in the image.
Applied(p) ==
  LET reloc == SectionAt(p).relocs[p[3]]
      symbol == loaded[p[1]].symbols[reloc.symbol]
      value == Value(p[1], reloc.symbol)
  IN
  /\ Position(p) \in DOMAIN fields
  /\ ~Unresolved(symbol)
  /\ \/ /\ reloc.type = Pc32
        /\ fields[Position(p)] = Displacement(value, reloc, Position(p))
     \/ /\ reloc.type = Section32
        /\ fields[Position(p)] = symbol.value + reloc.addend
     \/ /\ reloc.type = Data64
        /\ job.format = "MZ64" /\ Position(p) % 8 = 0
        /\ fields[Position(p)] = 0
        /\ \E f \in 1..Len(fixups) :
             fixups[f] = [destination |-> Position(p), addend |-> value + reloc.addend]

RelocsInv ==
  /\ stage = "relocate" => todo \subseteq RelocItems
  /\ stage \in {"relocate", "write", "linked"} =>
       \A p \in RelocItems : (stage = "relocate" /\ p \in todo) \/ (AloneAt(p) => Applied(p))

FixupType == [destination : Nat, addend : Int]

FixupsInv ==
  /\ fixups \in Seq(FixupType)
  /\ \A i, j \in 1..Len(fixups) : i <= j => fixups[i].destination <= fixups[j].destination

EntryInv ==
  /\ stage \in {"write", "linked"} =>
       /\ Defined("main") /\ Defined("cc64_start")
       /\ EntryField \in DOMAIN fields
       /\ fields[EntryField] = globals["cc64_start"].address - (EntryField + 4)
  /\ stage = "linked" => MemorySize <= ImageLimit

MeaningInv ==
  InputsInv /\ SymbolsInv /\ NamesInv /\ RelocsInv /\ FixupsInv /\ EntryInv

-----------------------------------------------------------------------------
(* Reading *)

LEMMA Items ==
  ASSUME NEW p \in ObjectItems
  PROVE  p = <<p[1], 0, 0>> /\ p[1] \in 1..Len(job.objects) /\ p[1] \in Int
BY DEF ObjectItems

LEMMA FirstItem ==
  ASSUME LinkInv, InputsInv, stage \in {"read", "release"}, NEW p \in todo, IsFirst(p)
  PROVE  /\ p \in ObjectItems
         /\ p[1] = IF stage = "read" THEN Len(loaded) + 1 ELSE Len(loaded)
<1> DEFINE n == Len(loaded)
           m == Len(job.objects)
           last == IF stage = "read" THEN n + 1 ELSE n
<1>1. n \in Nat /\ m \in Nat
  BY LinkerAssumption DEF LinkInv, TypeOK
<1>2. /\ p \in ObjectItems /\ p[1] \in 1..m /\ p[1] \in Int
      /\ last \in Nat /\ last > 0 /\ p[1] >= last
  BY <1>1, Items DEF InputsInv
<1> HIDE DEF n, m
<1>3. last \in 1..m /\ <<last, 0, 0>>[1] = last
  BY <1>1, <1>2
<1>4. <<last, 0, 0>> \in ObjectItems
  BY <1>3 DEF ObjectItems, m
<1>5. <<last, 0, 0>> \in todo
  BY <1>1, <1>3, <1>4 DEF InputsInv, n
<1>6. Before(p, <<last, 0, 0>>)
  BY <1>5 DEF IsFirst
<1> HIDE DEF last
<1>7. p[1] <= last
  BY <1>2, <1>6 DEF Before
<1>8. p[1] = last
  BY <1>2, <1>7
<1> QED
  BY <1>2, <1>8 DEF last, n

LEMMA InputsKept ==
  ASSUME InputsInv, UNCHANGED <<job, volume, loaded>>, stage' \notin {"read", "release"},
         (stage' = "place" \/ LaidOut') => (stage = "place" \/ LaidOut)
  PROVE  InputsInv'
BY DEF InputsInv

LEMMA ReadInputs ==
  ASSUME LinkInv, InputsInv, ReadObject
  PROVE  InputsInv'
<1>1. PICK p \in todo : ReadObject!(p)
  BY DEF ReadObject
<1>2. CASE Refuse(ReadError)
  BY <1>2, InputsKept DEF Refuse, LaidOut
<1> DEFINE name == job.objects[p[1]]
           n == Len(loaded)
<1>3. CASE /\ loaded' = Append(loaded, volume[name])
           /\ IF job.release THEN stage' = "release" /\ UNCHANGED todo
                             ELSE stage' = "read" /\ Visit(p)
           /\ UNCHANGED <<job, volume>>
  <2>1. /\ p \in ObjectItems /\ p[1] = n + 1 /\ p[1] \in 1..Len(job.objects)
        /\ stage = "read" /\ n \in Nat /\ loaded \in Seq(ObjectType)
    BY <1>1, FirstItem, Items DEF LinkInv, TypeOK
  <2>2. /\ Len(loaded') = n + 1
        /\ \A o \in 1..(n + 1) : loaded'[o] = IF o = n + 1 THEN volume[name] ELSE loaded[o]
    BY <1>3, <2>1
  <2>3. \A o \in 1..(n + 1) : loaded'[o] = volume[job.objects[o]]
    <3>1. \A o \in 1..(n + 1) : o = n + 1 \/ o \in 1..n
      BY <2>1
    <3> QED
      BY <2>1, <2>2, <3>1 DEF InputsInv
  <2>4. stage' = "release" \/ stage' = "read"
    BY <1>3
  <2>5. todo = {q \in ObjectItems : q[1] > n} /\ ObjectItems' = ObjectItems
    BY <1>3, <2>1 DEF InputsInv, ObjectItems
  <2>6. \A q \in ObjectItems : q[1] > n <=> q[1] >= n + 1
    BY <2>1, Items
  <2>7. n + 1 <= Len(job.objects)
    BY <2>1
  <2>8. CASE stage' = "release"
    <3>1. job.release /\ todo' = todo
      BY <1>3, <2>8
    <3>2. todo' = {q \in ObjectItems : q[1] >= n + 1}
      BY <2>5, <2>6, <3>1
    <3>3. n + 1 > 0
      BY <2>1
    <3> HIDE DEF n
    <3> QED
      BY <1>3, <2>2, <2>3, <2>5, <2>7, <2>8, <3>1, <3>2, <3>3 DEF InputsInv, LaidOut
  <2>9. CASE stage' = "read"
    <3>1. todo' = todo \ {p}
      BY <1>3, <2>9 DEF Visit
    <3>2. \A q \in ObjectItems : q[1] > n /\ q # p <=> q[1] > n + 1
      <4>1. \A q \in ObjectItems : q = p <=> q[1] = n + 1
        BY <2>1, Items
      <4> QED
        BY <2>1, <4>1, Items
    <3>3. todo' = {q \in ObjectItems : q[1] > n + 1}
      BY <2>5, <3>1, <3>2
    <3> HIDE DEF n
    <3> QED
      BY <1>3, <2>2, <2>3, <2>5, <2>7, <2>9, <3>3 DEF InputsInv, LaidOut
  <2> QED
    BY <2>4, <2>8, <2>9
<1> QED
  BY <1>1, <1>2, <1>3

LEMMA ReleaseInputs ==
  ASSUME LinkInv, InputsInv, ReleaseObject
  PROVE  InputsInv'
<1>1. PICK p \in todo : ReleaseObject!(p)
  BY DEF ReleaseObject
<1>2. CASE Refuse(5043)
  BY <1>2, InputsKept DEF Refuse, LaidOut
<1> DEFINE n == Len(loaded)
<1>3. CASE /\ stage' = "read" /\ todo' = todo \ {p}
           /\ UNCHANGED <<job, volume, loaded>>
  <2>1. /\ p \in ObjectItems /\ p[1] = n /\ stage = "release" /\ n \in Nat
        /\ todo = {q \in ObjectItems : q[1] >= n} /\ ObjectItems' = ObjectItems
    BY <1>1, <1>3, FirstItem, Items DEF LinkInv, TypeOK, InputsInv, ObjectItems
  <2>2. \A q \in ObjectItems : q[1] >= n /\ q # p <=> q[1] > n
    <3>1. \A q \in ObjectItems : q = p <=> q[1] = n
      BY <2>1, Items
    <3> QED
      BY <2>1, <3>1, Items
  <2>3. todo' = {q \in ObjectItems : q[1] > n}
    BY <1>3, <2>1, <2>2
  <2> HIDE DEF n
  <2> QED
    BY <1>3, <2>1, <2>3 DEF InputsInv, LaidOut, n
<1> QED
  BY <1>1, <1>2, <1>3 DEF Visit

LEMMA PlaceStubInputs ==
  ASSUME LinkInv, InputsInv, PlaceStub
  PROVE  InputsInv'
<1>1. /\ stage = "read" /\ todo = {} /\ stage' = "place"
      /\ UNCHANGED <<job, volume, loaded>>
  BY DEF PlaceStub
<1>2. loaded \in Seq(ObjectType) /\ job.objects \in Seq(Names)
  BY LinkerAssumption DEF LinkInv, TypeOK
<1> DEFINE n == Len(loaded)
           m == Len(job.objects)
<1>3. n \in Nat /\ m \in Nat /\ n <= m
  BY <1>2 DEF InputsInv
<1>4. ~(n < m)
  <2> SUFFICES ASSUME n < m
               PROVE  FALSE
    OBVIOUS
  <2>1. m \in 1..m /\ <<m, 0, 0>>[1] = m
    BY <1>3
  <2>2. <<m, 0, 0>> \in ObjectItems
    BY <2>1 DEF ObjectItems
  <2> QED
    BY <1>1, <2>1, <2>2 DEF InputsInv
<1>5. n = m
  BY <1>3, <1>4
<1> QED
  BY <1>1, <1>5 DEF InputsInv, LaidOut

-----------------------------------------------------------------------------
(* Resolution *)

LEMMA SymbolsKept ==
  ASSUME SymbolsInv, UNCHANGED <<loaded, base, place, address>>, LaidOut' => LaidOut,
         stage' # "resolve", stage = "resolve" => todo = {}
  PROVE  SymbolsInv'
<1>1. SymbolItems' = SymbolItems
  BY DEF SymbolItems
<1>2. \A q : /\ Located(q[1], SymbolAt(q))' = Located(q[1], SymbolAt(q))
             /\ SymbolAt(q)' = SymbolAt(q)
             /\ IsCommon(SymbolAt(q))' <=> IsCommon(SymbolAt(q))
  BY DEF Located, Start, SymbolAt, IsCommon
<1>3. LaidOut => \A p \in SymbolItems : <<p[1], p[2]>> \in DOMAIN address
  BY DEF SymbolsInv
<1> QED
  BY <1>1, <1>2, <1>3 DEF SymbolsInv

LEMMA NamesKept ==
  ASSUME NamesInv, UNCHANGED <<loaded, address, globals>>, LaidOut' => LaidOut,
         stage' \in {"read", "release", "place"} => stage \in {"read", "release", "place"}
  PROVE  NamesInv'
<1>1. \A name : /\ Seen(name)' = Seen(name)
                /\ Defining(name)' = Defining(name)
                /\ Tentative(name)' = Tentative(name)
  BY DEF Seen, Defining, Tentative, SymbolAt, IsCommon
<1>2. \A name, global : NameMeant(name, global) =>
        /\ ~global.defined => ~global.common /\ UndefinedName(name)'
        /\ global.defined /\ global.common => CommonName(name, global)
        /\ global.defined /\ ~global.common => DefinedName(name, global)
  BY <1>1 DEF NameMeant, UndefinedName
<1>3. \A name : globals'[name] = globals[name] /\ SymbolAt(name)' = SymbolAt(name)
  BY DEF SymbolAt
<1>4. \A name : Compatible(name) => Compatible(name)'
  <2>1. \A name : KindOf(name)' = KindOf(name)
    BY DEF KindOf
  <2> QED
    BY <1>1, <1>3, <2>1 DEF Compatible
<1>5. \A name : CommonName(name, globals[name]) => CommonName(name, globals[name])'
  BY <1>1, <1>3 DEF CommonName
<1>6. \A name : DefinedName(name, globals[name]) => DefinedName(name, globals[name])'
  BY <1>1, <1>3 DEF DefinedName
<1>7. \A name : NameMeant(name, globals[name]) => NameMeant(name, globals[name])'
  BY <1>2, <1>3, <1>5, <1>6 DEF NameMeant
<1> QED
  BY <1>3, <1>4, <1>7 DEF NamesInv

\* Nothing is resolved yet.
LEMMA EmptyNames ==
  ASSUME DOMAIN address' = {}, DOMAIN globals' = {}
  PROVE  NamesInv'
BY DEF NamesInv

LEMMA LayOutSymbols ==
  ASSUME LinkInv, NamesInv, LayOut
  PROVE  SymbolsInv' /\ NamesInv'
<1>1. /\ stage = "place" /\ stage' = "resolve" /\ todo' = SymbolItems
      /\ UNCHANGED <<loaded, address, globals>>
  BY DEF LayOut
<1>2. DOMAIN address' = {} /\ DOMAIN globals' = {} /\ SymbolItems' = SymbolItems
  BY <1>1 DEF LinkInv, LayoutInv, NamesInv, SymbolItems
<1> QED
  BY <1>1, <1>2, EmptyNames DEF SymbolsInv

\* One turn of the loop adds one symbol to those resolved.
LEMMA OneMoreSymbol ==
  ASSUME LinkInv, SymbolsInv, stage = "resolve", NEW p \in todo, NEW value,
         Resolved(p, value)
  PROVE  /\ p \in SymbolItems /\ p = <<p[1], p[2], 0>>
         /\ <<p[1], p[2]>> \notin DOMAIN address
         /\ DOMAIN address' = DOMAIN address \cup {<<p[1], p[2]>>}
         /\ address'[<<p[1], p[2]>>] = value
         /\ \A q \in DOMAIN address : q # <<p[1], p[2]>> /\ address'[q] = address[q]
         /\ \A q : SymbolAt(q)' = SymbolAt(q) /\ KindOf(q)' = KindOf(q)
         /\ SymbolAt(<<p[1], p[2]>>) = SymbolAt(p)
<1>1. p \in SymbolItems
  BY DEF LinkInv, LoopInv
<1>2. p = <<p[1], p[2], 0>>
  BY <1>1 DEF SymbolItems
<1>3. <<p[1], p[2]>> \notin DOMAIN address
  BY <1>1 DEF SymbolsInv, LaidOut
<1>4. /\ DOMAIN address' = DOMAIN address \cup {<<p[1], p[2]>>}
      /\ address'[<<p[1], p[2]>>] = value
      /\ \A q \in DOMAIN address : q # <<p[1], p[2]>> /\ address'[q] = address[q]
  BY <1>3 DEF Resolved, Extend
<1>5. \A q : SymbolAt(q)' = SymbolAt(q) /\ KindOf(q)' = KindOf(q)
  BY DEF Resolved, SymbolAt, KindOf
<1>6. SymbolAt(<<p[1], p[2]>>) = SymbolAt(p)
  BY DEF SymbolAt
<1> QED
  BY <1>1, <1>2, <1>3, <1>4, <1>5, <1>6

LEMMA ResolvedSymbols ==
  ASSUME LinkInv, SymbolsInv, stage = "resolve", NEW p \in todo, NEW value,
         Resolved(p, value),
         ~(SymbolAt(p).global /\ IsCommon(SymbolAt(p))) => value = Located(p[1], SymbolAt(p))
  PROVE  SymbolsInv'
<1> DEFINE s == <<p[1], p[2]>>
<1>1. /\ p \in SymbolItems /\ p = <<p[1], p[2], 0>> /\ s \notin DOMAIN address
      /\ DOMAIN address' = DOMAIN address \cup {s} /\ address'[s] = value
      /\ \A q \in DOMAIN address : q # s /\ address'[q] = address[q]
      /\ \A q : SymbolAt(q)' = SymbolAt(q)
      /\ SymbolAt(s) = SymbolAt(p)
  BY OneMoreSymbol
<1>2. /\ todo' = todo \ {p} /\ UNCHANGED <<stage, loaded, base, place>>
      /\ SymbolItems' = SymbolItems
  BY DEF Resolved, Visit, SymbolItems
<1>3. \A q \in SymbolItems : q = <<q[1], q[2], 0>>
  BY DEF SymbolItems
<1>4. \A q \in SymbolItems : <<q[1], q[2]>> \in DOMAIN address <=> q \notin todo
  BY DEF SymbolsInv, LaidOut
<1>5. \A q \in SymbolItems : <<q[1], q[2]>> = s <=> q = p
  BY <1>1, <1>3
<1> HIDE DEF s
<1>6. \A q \in SymbolItems : <<q[1], q[2]>> \in DOMAIN address' <=> q \notin todo'
  BY <1>1, <1>2, <1>4, <1>5
<1>7. \A q : /\ Located(q[1], SymbolAt(q))' = Located(q[1], SymbolAt(q))
             /\ IsCommon(SymbolAt(q))' <=> IsCommon(SymbolAt(q))
  BY <1>2 DEF Located, Start, SymbolAt, IsCommon
<1>8. s[1] = p[1] /\ s = <<s[1], s[2]>>
  BY DEF s
<1>9. ASSUME NEW q \in DOMAIN address'
      PROVE  /\ q = <<q[1], q[2]>>
             /\ ~(SymbolAt(q).global /\ IsCommon(SymbolAt(q)))
                  => address'[q] = Located(q[1], SymbolAt(q))
  <2>1. CASE q = s
    BY <1>1, <1>8, <2>1
  <2>2. CASE q \in DOMAIN address
    BY <1>1, <2>2 DEF SymbolsInv, LaidOut
  <2> QED
    BY <1>1, <2>1, <2>2
<1>10. \A q \in DOMAIN address' :
         (q = <<q[1], q[2]>> /\ (~(SymbolAt(q).global /\ IsCommon(SymbolAt(q)))
                                  => address[q] = Located(q[1], SymbolAt(q))))'
  BY <1>1, <1>7, <1>9
<1> QED
  BY <1>2, <1>6, <1>10 DEF SymbolsInv, LaidOut

\* What the entry of a name says, the one a new name is given included.
LEMMA GlobalMeant ==
  ASSUME NamesInv, LaidOut, NEW name
  PROVE  /\ Global(name) \in GlobalType
         /\ NameMeant(name, Global(name)) /\ Compatible(name)
<1>1. CASE name \in DOMAIN globals
  BY <1>1 DEF NamesInv, Global
<1>2. CASE name \notin DOMAIN globals
  <2>1. Seen(name) = {}
    BY <1>2 DEF NamesInv, Seen
  <2>2. Defining(name) = {} /\ Tentative(name) = {}
    BY <2>1 DEF Defining, Tentative
  <2>3. Global(name) = [address |-> 0, size |-> 0, defined |-> FALSE, common |-> FALSE]
    BY <1>2 DEF Global
  <2>4. Global(name) \in GlobalType
    BY <2>3 DEF GlobalType
  <2> QED
    BY <2>2, <2>3, <2>4 DEF NameMeant, UndefinedName, Compatible
<1> QED
  BY <1>1, <1>2

\* Only the name of the symbol just resolved has one more symbol.
LEMMA SeenStep ==
  ASSUME LinkInv, SymbolsInv, stage = "resolve", NEW p \in todo, NEW value,
         Resolved(p, value), NEW name
  PROVE  LET s == <<p[1], p[2]>>
             mine == SymbolAt(p).global /\ SymbolAt(p).name = name
         IN
         /\ Defining(name)' = Defining(name) \cup
              {q \in {s} : mine /\ SymbolAt(p).section # 0}
         /\ Tentative(name)' = Tentative(name) \cup
              {q \in {s} : mine /\ IsCommon(SymbolAt(p))}
         /\ \A q \in Seen(name) : q \in DOMAIN address /\ q # s /\ address'[q] = address[q]
<1> DEFINE s == <<p[1], p[2]>>
<1>1. /\ DOMAIN address' = DOMAIN address \cup {s}
      /\ \A q \in DOMAIN address : q # s /\ address'[q] = address[q]
      /\ \A q : SymbolAt(q)' = SymbolAt(q)
      /\ SymbolAt(s) = SymbolAt(p)
  BY OneMoreSymbol
<1> HIDE DEF s
<1>2. Seen(name)' = Seen(name) \cup
        {q \in {s} : SymbolAt(p).global /\ SymbolAt(p).name = name}
  BY <1>1 DEF Seen
<1>3. \A q : IsCommon(SymbolAt(q))' <=> IsCommon(SymbolAt(q))
  BY <1>1 DEF IsCommon
<1>4. Defining(name)' = Defining(name) \cup
        {q \in {s} : (SymbolAt(p).global /\ SymbolAt(p).name = name) /\ SymbolAt(p).section # 0}
  BY <1>1, <1>2 DEF Defining
<1>5. Tentative(name)' = Tentative(name) \cup
        {q \in {s} : (SymbolAt(p).global /\ SymbolAt(p).name = name) /\ IsCommon(SymbolAt(p))}
  BY <1>1, <1>2, <1>3 DEF Tentative
<1> QED
  BY <1>1, <1>4, <1>5 DEF Seen, s

\* A name that gets no new symbol keeps its meaning.
LEMMA OtherName ==
  ASSUME LinkInv, SymbolsInv, NamesInv, stage = "resolve", NEW p \in todo, NEW value,
         Resolved(p, value), NEW name \in DOMAIN globals,
         ~(SymbolAt(p).global /\ SymbolAt(p).name = name),
         globals'[name] = globals[name]
  PROVE  (NameMeant(name, globals[name]) /\ Compatible(name))'
<1>1. /\ Defining(name)' = Defining(name) /\ Tentative(name)' = Tentative(name)
      /\ \A q \in Seen(name) : address'[q] = address[q]
  BY SeenStep
<1>2. \A q : SymbolAt(q)' = SymbolAt(q) /\ KindOf(q)' = KindOf(q)
  BY OneMoreSymbol
<1>3. Defining(name) \subseteq Seen(name) /\ Tentative(name) \subseteq Seen(name)
  BY DEF Defining, Tentative
<1>4. NameMeant(name, globals[name]) /\ Compatible(name)
  BY DEF NamesInv, LaidOut
<1>5. UndefinedName(name) => UndefinedName(name)'
  BY <1>1 DEF UndefinedName
<1>6. CommonName(name, globals[name]) => CommonName(name, globals[name])'
  BY <1>1, <1>2, <1>3 DEF CommonName
<1>7. DefinedName(name, globals[name]) => DefinedName(name, globals[name])'
  BY <1>1, <1>2, <1>3 DEF DefinedName
<1>8. Compatible(name)'
  BY <1>1, <1>2, <1>4 DEF Compatible
<1> QED
  BY <1>4, <1>5, <1>6, <1>7, <1>8 DEF NameMeant

LEMMA LocalNames ==
  ASSUME LinkInv, SymbolsInv, NamesInv, ResolveLocal
  PROVE  NamesInv'
<1>1. PICK p \in todo : ResolveLocal!(p)
  BY DEF ResolveLocal
<1> DEFINE value == Located(p[1], SymbolAt(p))
           s == <<p[1], p[2]>>
<1>2. /\ stage = "resolve" /\ stage' = stage /\ Resolved(p, value)
      /\ ~SymbolAt(p).global /\ globals' = globals
  BY <1>1 DEF Resolved
<1> HIDE DEF value
<1>3. /\ DOMAIN address' = DOMAIN address \cup {s}
      /\ \A q : SymbolAt(q)' = SymbolAt(q)
      /\ SymbolAt(s) = SymbolAt(p)
  BY <1>2, OneMoreSymbol
<1> HIDE DEF s
<1>4. \A q \in DOMAIN address' :
        (SymbolAt(q).global => SymbolAt(q).name \in DOMAIN globals)'
  BY <1>2, <1>3 DEF NamesInv, LaidOut
<1>5. \A name \in DOMAIN globals : (NameMeant(name, globals[name]) /\ Compatible(name))'
  BY <1>2, OtherName
<1> QED
  BY <1>2, <1>4, <1>5 DEF NamesInv

\* A global symbol: its name is entered, and its entry must be right.
LEMMA NamedSymbol ==
  ASSUME LinkInv, SymbolsInv, NamesInv, stage = "resolve", NEW p \in todo, NEW value,
         Resolved(p, value), NEW name, SymbolAt(p).global, SymbolAt(p).name = name,
         NEW global \in GlobalType, globals' = Extend(globals, name, global),
         (NameMeant(name, global) /\ Compatible(name))'
  PROVE  NamesInv'
<1> DEFINE s == <<p[1], p[2]>>
<1>1. /\ DOMAIN globals' = DOMAIN globals \cup {name}
      /\ globals'[name] = global
      /\ \A other \in DOMAIN globals : other # name => globals'[other] = globals[other]
  BY DEF Extend
<1>2. /\ DOMAIN address' = DOMAIN address \cup {s}
      /\ \A q : SymbolAt(q)' = SymbolAt(q)
      /\ SymbolAt(s) = SymbolAt(p)
  BY OneMoreSymbol
<1>3. stage' = "resolve"
  BY DEF Resolved
<1> HIDE DEF s
<1>4. \A q \in DOMAIN address' :
        (SymbolAt(q).global => SymbolAt(q).name \in DOMAIN globals)'
  BY <1>1, <1>2 DEF NamesInv, LaidOut
<1>5. ASSUME NEW other \in DOMAIN globals'
      PROVE  (NameMeant(other, globals[other]) /\ Compatible(other))'
  <2>1. CASE other = name
    BY <1>1, <2>1
  <2>2. CASE other # name
    BY <1>1, <2>2, OtherName
  <2> QED
    BY <2>1, <2>2
<1>6. \A other \in DOMAIN globals' : globals'[other] \in GlobalType
  BY <1>1 DEF NamesInv
<1> QED
  BY <1>3, <1>4, <1>5, <1>6 DEF NamesInv

LEMMA ReferenceNames ==
  ASSUME LinkInv, SymbolsInv, NamesInv, ResolveReference
  PROVE  NamesInv'
<1>1. PICK p \in todo : ResolveReference!(p)
  BY DEF ResolveReference
<1>2. PICK name : name = SymbolAt(p).name
  OBVIOUS
<1>3. PICK global : global = Global(name)
  OBVIOUS
<1>4. PICK value : value = Located(p[1], SymbolAt(p))
  OBVIOUS
<1>5. /\ stage = "resolve" /\ SymbolAt(p).global
      /\ SymbolAt(p).section = 0 /\ ~IsCommon(SymbolAt(p))
      /\ globals' = Extend(globals, name, global)
      /\ Resolved(p, value)
  BY <1>1, <1>2, <1>3, <1>4
<1>6. global \in GlobalType /\ NameMeant(name, global) /\ Compatible(name)
  BY <1>3, <1>5, GlobalMeant DEF LaidOut
<1>7. /\ Defining(name)' = Defining(name) /\ Tentative(name)' = Tentative(name)
      /\ \A q \in Seen(name) : address'[q] = address[q]
  BY <1>5, SeenStep
<1>8. \A q : SymbolAt(q)' = SymbolAt(q) /\ KindOf(q)' = KindOf(q)
  BY <1>5, OneMoreSymbol
<1>9. Defining(name) \subseteq Seen(name) /\ Tentative(name) \subseteq Seen(name)
  BY DEF Defining, Tentative
<1>10. UndefinedName(name) => UndefinedName(name)'
  BY <1>7 DEF UndefinedName
<1>11. CommonName(name, global) => CommonName(name, global)'
  BY <1>7, <1>8, <1>9 DEF CommonName
<1>12. DefinedName(name, global) => DefinedName(name, global)'
  BY <1>7, <1>8, <1>9 DEF DefinedName
<1>13. NameMeant(name, global)'
  BY <1>6, <1>10, <1>11, <1>12 DEF NameMeant
<1>14. Compatible(name)'
  BY <1>6, <1>7, <1>8 DEF Compatible
<1> QED
  BY <1>2, <1>5, <1>6, <1>13, <1>14, NamedSymbol

\* The largest of the common symbols keeps the name, a definition refuses them.
LEMMA CommonNames ==
  ASSUME LinkInv, SymbolsInv, NamesInv, ResolveCommon, stage' = "resolve"
  PROVE  SymbolsInv' /\ NamesInv'
<1>1. PICK p \in todo : ResolveCommon!(p)
  BY DEF ResolveCommon
<1>2. PICK name : name = SymbolAt(p).name
  OBVIOUS
<1>3. PICK global : global = Global(name)
  OBVIOUS
<1>4. PICK value : value = base[Bss] + AlignUp(size[Bss], CommonAlign)
  OBVIOUS
<1> DEFINE symbol == SymbolAt(p)
           s == <<p[1], p[2]>>
           chosen == IF TakesName(global, symbol)
                     THEN [address |-> value, size |-> symbol.size,
                           defined |-> TRUE, common |-> TRUE]
                     ELSE [global EXCEPT !.common = TRUE]
<1> HIDE DEF chosen
<1>5. PICK entry : entry = chosen
  OBVIOUS
<1> USE DEF chosen
<1>6. /\ stage = "resolve" /\ symbol.global /\ IsCommon(symbol)
      /\ ~(global.defined /\ ~global.common)
      /\ globals' = Extend(globals, name, entry)
      /\ Resolved(p, value)
  BY <1>1, <1>2, <1>3, <1>4, <1>5 DEF Refuse
<1>7. global \in GlobalType /\ NameMeant(name, global)
  BY <1>3, <1>6, GlobalMeant DEF LaidOut
<1>8. symbol.section = 0 /\ symbol.size \in Nat /\ value \in Nat
  <2>1. symbol \in SymbolType
    BY <1>6, LocatedType DEF LinkInv
  <2>2. Bss \in Kinds
    BY DEF Bss, Kinds
  <2>3. size[Bss] \in Nat /\ base[Bss] \in Nat /\ CommonAlign \in Nat \ {0}
    BY <2>2 DEF LinkInv, TypeOK, CommonAlign
  <2>4. AlignUp(size[Bss], CommonAlign) \in Nat
    BY <2>3, AlignUpBounds
  <2> QED
    BY <1>4, <1>6, <2>1, <2>3, <2>4 DEF SymbolType, IsCommon
<1>9. Defining(name) = {}
  BY <1>6, <1>7 DEF NameMeant, UndefinedName, CommonName, GlobalType
<1>10. /\ Defining(name)' = {} /\ Tentative(name)' = Tentative(name) \cup {s}
       /\ \A q \in Seen(name) : q \in DOMAIN address /\ q # s /\ address'[q] = address[q]
  BY <1>2, <1>6, <1>8, <1>9, SeenStep
<1>11. /\ \A q : SymbolAt(q)' = SymbolAt(q)
       /\ SymbolAt(s) = symbol /\ address'[s] = value
  BY <1>6, OneMoreSymbol
<1>12. Tentative(name) \subseteq Seen(name) /\ Compatible(name)'
  BY <1>10 DEF Tentative, Compatible
<1>13. \A c \in Tentative(name) : SymbolAt(c).size \in Nat
  <2> SUFFICES ASSUME NEW c \in Tentative(name)
               PROVE  SymbolAt(c).size \in Nat
    OBVIOUS
  <2>1. c \in DOMAIN address
    BY <1>10, <1>12
  <2>2. loaded[c[1]] \in ObjectType /\ Accepted(loaded[c[1]]) /\ ResolvedType(c)
    BY <2>1 DEF LinkInv, TypeOK, ResolvedType
  <2> QED
    BY <2>2, AcceptedSymbol DEF ResolvedType, SymbolAt
<1> HIDE DEF symbol, s
<1>14. entry \in GlobalType /\ entry.defined /\ entry.common
  BY <1>5, <1>6, <1>7, <1>8 DEF GlobalType, TakesName
<1>15. CommonName(name, entry)'
  <2>1. CASE ~global.defined
    <3>1. /\ Tentative(name)' = {s} /\ entry.address = value /\ entry.size = symbol.size
      BY <1>5, <1>7, <1>10, <2>1 DEF NameMeant, UndefinedName, TakesName
    <3> QED
      BY <1>8, <1>10, <1>11, <3>1 DEF CommonName
  <2>2. CASE global.defined /\ symbol.size > global.size
    <3>1. entry.address = value /\ entry.size = symbol.size
      BY <1>5, <2>2 DEF TakesName
    <3>2. \A c \in Tentative(name) : SymbolAt(c).size <= entry.size
      BY <1>6, <1>7, <1>8, <1>13, <2>2, <3>1 DEF NameMeant, CommonName, GlobalType
    <3> QED
      BY <1>8, <1>10, <1>11, <3>1, <3>2 DEF CommonName
  <2>3. CASE global.defined /\ ~(symbol.size > global.size)
    <3>1. entry.address = global.address /\ entry.size = global.size
      BY <1>5, <1>7, <2>3 DEF TakesName, GlobalType
    <3>2. CommonName(name, global)
      BY <1>6, <1>7, <2>3 DEF NameMeant
    <3>3. symbol.size <= entry.size
      BY <1>7, <1>8, <2>3, <3>1 DEF GlobalType
    <3>4. PICK c \in Tentative(name) :
            global.address = address[c] /\ global.size = SymbolAt(c).size
      BY <3>2 DEF CommonName
    <3>5. /\ c \in Tentative(name)' /\ entry.address = address'[c]
          /\ entry.size = SymbolAt(c)'.size
      BY <1>10, <1>11, <1>12, <3>1, <3>4
    <3>6. \A d \in Tentative(name)' : SymbolAt(d).size <= entry.size
      BY <1>10, <1>11, <3>1, <3>2, <3>3 DEF CommonName
    <3> QED
      BY <1>10, <1>11, <3>5, <3>6 DEF CommonName
  <2> QED
    BY <2>1, <2>2, <2>3
<1>16. NameMeant(name, entry)'
  BY <1>14, <1>15 DEF NameMeant
<1>17. NamesInv'
  BY <1>2, <1>6, <1>12, <1>14, <1>16, NamedSymbol DEF symbol
<1>18. SymbolsInv'
  BY <1>6, ResolvedSymbols DEF symbol
<1> QED
  BY <1>17, <1>18

\* A definition takes the name of the commons before it, and stands beside an
\* earlier one only when it may repeat it.
LEMMA DefinitionNames ==
  ASSUME LinkInv, SymbolsInv, NamesInv, ResolveDefinition, stage' = "resolve"
  PROVE  SymbolsInv' /\ NamesInv'
<1>1. PICK p \in todo : ResolveDefinition!(p)
  BY DEF ResolveDefinition
<1>2. PICK name : name = SymbolAt(p).name
  OBVIOUS
<1>3. PICK global : global = Global(name)
  OBVIOUS
<1>4. PICK value : value = Located(p[1], SymbolAt(p))
  OBVIOUS
<1> DEFINE symbol == SymbolAt(p)
           s == <<p[1], p[2]>>
           second == global.defined /\ ~global.common
           chosen == IF second THEN global
                     ELSE [address |-> value, size |-> symbol.size,
                           defined |-> TRUE, common |-> FALSE]
<1> HIDE DEF chosen
<1>5. PICK entry : entry = chosen
  OBVIOUS
<1> USE DEF chosen
<1>6. /\ stage = "resolve" /\ symbol.global /\ symbol.section # 0
      /\ second => MayRepeat(p[1], symbol, global)
      /\ globals' = Extend(globals, name, entry)
      /\ Resolved(p, value)
  BY <1>1, <1>2, <1>3, <1>4, <1>5 DEF Refuse
<1>7. global \in GlobalType /\ NameMeant(name, global) /\ Compatible(name)
  BY <1>3, <1>6, GlobalMeant DEF LaidOut
<1>8. symbol.size \in Nat /\ value \in Nat /\ ~IsCommon(symbol)
  <2>1. symbol \in SymbolType /\ value \in Nat
    BY <1>4, <1>6, LocatedType DEF LinkInv
  <2> QED
    BY <1>6, <2>1 DEF SymbolType, IsCommon
<1>9. /\ Defining(name)' = Defining(name) \cup {s}
      /\ \A q \in Seen(name) : q \in DOMAIN address /\ q # s /\ address'[q] = address[q]
  BY <1>2, <1>6, SeenStep
<1>10. /\ \A q : SymbolAt(q)' = SymbolAt(q) /\ KindOf(q)' = KindOf(q)
       /\ SymbolAt(s) = symbol /\ address'[s] = value
  BY <1>6, OneMoreSymbol
<1>11. Defining(name) \subseteq Seen(name)
  BY DEF Defining
<1>12. s[1] = p[1] /\ KindOf(<<p[1], symbol.section>>) = loaded[p[1]].sections[symbol.section].kind
  BY DEF KindOf
<1>13. entry \in GlobalType /\ entry.defined /\ ~entry.common
  BY <1>5, <1>7, <1>8 DEF GlobalType
<1> HIDE DEF symbol, s
<1>14. CASE second
  <2>1. entry = global /\ DefinedName(name, global) /\ MayRepeat(p[1], symbol, global)
    BY <1>5, <1>6, <1>7, <1>14 DEF NameMeant
  <2>2. name \in RuntimeNames
          \/ (symbol.size = global.size /\ KindOf(<<p[1], symbol.section>>) = Bss)
    BY <1>2, <1>12, <2>1 DEF MayRepeat, symbol
  <2>3. DefinedName(name, entry)'
    BY <1>9, <1>10, <1>11, <2>1, <2>2 DEF DefinedName
  <2>4. ASSUME NEW a \in Defining(name)', NEW b \in Defining(name)', a # b,
               name \notin RuntimeNames
        PROVE  /\ SymbolAt(a).size = SymbolAt(b).size
               /\ \E d \in {a, b} : KindOf(<<d[1], SymbolAt(d).section>>) = Bss
    <3>1. SymbolAt(a).size = global.size /\ SymbolAt(b).size = global.size
      BY <1>9, <1>10, <2>1, <2>2, <2>4 DEF DefinedName
    <3>2. CASE a # s /\ b # s
      BY <1>7, <1>9, <2>4, <3>2 DEF Compatible
    <3>3. CASE a = s \/ b = s
      <4>1. s \in {a, b} /\ KindOf(<<s[1], SymbolAt(s).section>>) = Bss
        BY <1>10, <1>12, <2>2, <2>4, <3>3
      <4> QED
        BY <3>1, <4>1
    <3> QED
      BY <3>2, <3>3
  <2>5. Compatible(name)'
    BY <1>10, <2>4 DEF Compatible
  <2>6. NameMeant(name, entry)'
    BY <1>13, <2>3 DEF NameMeant
  <2> QED
    BY <1>2, <1>4, <1>6, <1>8, <1>13, <2>5, <2>6, NamedSymbol, ResolvedSymbols DEF symbol
<1>15. CASE ~second
  <2>1. Defining(name) = {} /\ entry.address = value /\ entry.size = symbol.size
    BY <1>5, <1>7, <1>15 DEF NameMeant, UndefinedName, CommonName, GlobalType
  <2>2. Defining(name)' = {s}
    BY <1>9, <2>1
  <2>3. DefinedName(name, entry)'
    BY <1>10, <2>1, <2>2 DEF DefinedName
  <2>4. Compatible(name)'
    BY <2>2 DEF Compatible
  <2>5. NameMeant(name, entry)'
    BY <1>13, <2>3 DEF NameMeant
  <2> QED
    BY <1>2, <1>4, <1>6, <1>8, <1>13, <2>4, <2>5, NamedSymbol, ResolvedSymbols DEF symbol
<1> QED
  BY <1>14, <1>15

-----------------------------------------------------------------------------
(* Relocation *)

\* A set of positions that is not empty has a last one.
LEMMA LastOf ==
  ASSUME NEW n \in Nat, NEW S, S \subseteq 1..n, S # {}
  PROVE  \E m \in S : \A x \in S : x <= m
<1> DEFINE T == {n - x : x \in S}
<1>1. T \subseteq Nat /\ T # {}
  <2>1. \A x \in S : x \in Int /\ x <= n
    OBVIOUS
  <2>2. \A x \in S : n - x \in Nat
    BY <2>1
  <2> QED
    BY <2>2, Zenon
<1>2. PICK t \in T : \A y \in T : ~(<<y, t>> \in OpToRel(<, Nat))
  BY <1>1, NatLessThanWellFounded, WFMin
<1>3. PICK m \in S : t = n - m
  OBVIOUS
<1>4. \A x \in S : x <= m
  <2> SUFFICES ASSUME NEW x \in S, x > m
               PROVE  FALSE
    OBVIOUS
  <2>1. n - x \in T /\ n - x \in Nat /\ n - x < t /\ t \in Nat
    BY <1>3
  <2>2. <<n - x, t>> \in OpToRel(<, Nat)
    BY <2>1 DEF OpToRel
  <2> QED
    BY <1>2, <2>1, <2>2
<1> QED
  BY <1>4

Ascending(list) ==
  \A i, j \in 1..Len(list) : i <= j => list[i].destination <= list[j].destination

\* append_image_relocation adds one entry, drops none and keeps the order.
LEMMA InsertedKeepsOrder ==
  ASSUME NEW list \in Seq(FixupType), Ascending(list), NEW fixup \in FixupType
  PROVE  /\ Inserted(list, fixup) \in Seq(FixupType)
         /\ Ascending(Inserted(list, fixup))
         /\ \E g \in 1..Len(Inserted(list, fixup)) : Inserted(list, fixup)[g] = fixup
         /\ \A f \in 1..Len(list) :
              \E g \in 1..Len(Inserted(list, fixup)) : Inserted(list, fixup)[g] = list[f]
<1> DEFINE n == Len(list)
           before == {i \in 1..n : list[i].destination <= fixup.destination}
           here == IF before = {} THEN 0 ELSE CHOOSE i \in before : \A j \in before : j <= i
           left == SubSeq(list, 1, here)
           right == SubSeq(list, here + 1, n)
           result == left \o <<fixup>> \o right
<1>1. n \in Nat /\ \A i \in 1..n : list[i] \in FixupType /\ list[i].destination \in Nat
  <2>1. n \in Nat /\ \A i \in 1..n : list[i] \in FixupType
    OBVIOUS
  <2>2. \A x \in FixupType : x.destination \in Nat
    BY DEF FixupType
  <2> HIDE DEF n
  <2> QED
    BY <2>1, <2>2
<1>2. fixup.destination \in Nat
  BY DEF FixupType
<1>3. /\ here \in 0..n
      /\ \A i \in 1..n : i <= here <=> list[i].destination <= fixup.destination
  <2>1. CASE before = {}
    <3>1. here = 0
      BY <2>1
    <3>2. \A i \in 1..n : ~(i <= 0) /\ ~(list[i].destination <= fixup.destination)
      BY <1>1, <2>1
    <3> QED
      BY <1>1, <3>1, <3>2
  <2>2. CASE before # {}
    <3>1. \E m \in before : \A x \in before : x <= m
      BY <1>1, <2>2, LastOf
    <3>2. here \in before /\ \A x \in before : x <= here
      BY <2>2, <3>1
    <3> HIDE DEF here
    <3>3. here \in 1..n /\ list[here].destination <= fixup.destination
      BY <3>2
    <3>4. ASSUME NEW i \in 1..n
          PROVE  i <= here <=> list[i].destination <= fixup.destination
      <4>1. i <= here => list[i].destination <= list[here].destination
        BY <3>3 DEF Ascending
      <4>2. list[i].destination <= fixup.destination => i <= here
        BY <3>2
      <4>3. list[i].destination \in Nat /\ list[here].destination \in Nat
        BY <1>1, <3>3
      <4> QED
        BY <1>2, <3>3, <4>1, <4>2, <4>3
    <3> QED
      BY <3>3, <3>4
  <2> QED
    BY <2>1, <2>2
<1> HIDE DEF before, here
<1>4. /\ left \in Seq(FixupType) /\ Len(left) = here
      /\ \A i \in 1..here : left[i] = list[i]
  BY <1>1, <1>3
<1>5. /\ right \in Seq(FixupType) /\ Len(right) = n - here
      /\ \A i \in 1..(n - here) : right[i] = list[here + i]
  BY <1>1, <1>3
<1> HIDE DEF left, right
<1>6. /\ result \in Seq(FixupType) /\ Len(result) = n + 1
      /\ \A i \in 1..(n + 1) :
           result[i] = IF i <= here THEN left[i]
                       ELSE IF i = here + 1 THEN fixup ELSE right[i - (here + 1)]
  <2> DEFINE front == left \o <<fixup>>
             h == here + 1
  <2>1. /\ front \in Seq(FixupType) /\ Len(front) = h /\ h \in Nat
        /\ \A i \in 1..h : front[i] = IF i <= here THEN left[i] ELSE fixup
    BY <1>3, <1>4
  <2> HIDE DEF front
  <2>2. result = front \o right
    BY DEF front
  <2>3. h + Len(right) = n + 1
    BY <1>1, <1>3, <1>5
  <2> HIDE DEF h, result
  <2>4. /\ result \in Seq(FixupType) /\ Len(result) = h + Len(right)
        /\ \A i \in 1..(h + Len(right)) :
             result[i] = IF i <= h THEN front[i] ELSE right[i - h]
    <3>1. \A a, b \in Seq(FixupType) :
            /\ a \o b \in Seq(FixupType) /\ Len(a \o b) = Len(a) + Len(b)
            /\ \A i \in 1..(Len(a) + Len(b)) :
                 (a \o b)[i] = IF i <= Len(a) THEN a[i] ELSE b[i - Len(a)]
      OBVIOUS
    <3> QED
      BY <1>5, <2>1, <2>2, <3>1
  <2>5. \A i \in 1..(n + 1) :
          result[i] = IF i <= h THEN front[i] ELSE right[i - h]
    BY <2>3, <2>4
  <2>6. \A i \in 1..(n + 1) : i <= h => i \in 1..h
    BY <2>1
  <2>7. \A i \in 1..(n + 1) : (i <= here => i <= h) /\ (i <= h <=> i <= here \/ i = h)
    BY <1>3 DEF h
  <2>8. \A i \in 1..(n + 1) :
          result[i] = IF i <= here THEN left[i] ELSE IF i = h THEN fixup ELSE right[i - h]
    BY <1>3, <2>1, <2>5, <2>6, <2>7
  <2> QED
    BY <2>3, <2>4, <2>8 DEF h
<1>7. \A i \in 1..(n + 1) :
        result[i] = IF i <= here THEN list[i]
                    ELSE IF i = here + 1 THEN fixup ELSE list[i - 1]
  <2> SUFFICES ASSUME NEW i \in 1..(n + 1)
               PROVE  result[i] = IF i <= here THEN list[i]
                                  ELSE IF i = here + 1 THEN fixup ELSE list[i - 1]
    OBVIOUS
  <2>1. CASE i <= here + 1
    BY <1>3, <1>4, <1>6, <2>1
  <2>2. CASE i > here + 1
    <3> DEFINE k == i - (here + 1)
    <3>1. k \in 1..(n - here) /\ here + k = i - 1 /\ ~(i <= here) /\ i # here + 1
      BY <1>1, <1>3, <2>2
    <3>2. result[i] = right[k]
      BY <1>6, <3>1
    <3> HIDE DEF k
    <3>3. right[k] = list[here + k]
      BY <1>5, <3>1
    <3> QED
      BY <3>1, <3>2, <3>3
  <2>3. i <= here + 1 \/ i > here + 1
    BY <1>1, <1>3
  <2> QED
    BY <2>1, <2>2, <2>3
<1>8. result = Inserted(list, fixup)
  BY DEF Inserted, before, here, left, right
<1> HIDE DEF result
<1>9. ASSUME NEW i \in 1..(n + 1), NEW j \in 1..(n + 1), i <= j
      PROVE  result[i].destination <= result[j].destination
  <2> DEFINE a == IF i <= here THEN i ELSE i - 1
             b == IF j <= here THEN j ELSE j - 1
  <2>1. CASE i = here + 1 /\ j = here + 1
    BY <1>2, <1>3, <1>7, <2>1
  <2>2. CASE i = here + 1 /\ j > here + 1
    <3>1. j - 1 \in 1..n /\ ~(j - 1 <= here) /\ result[i] = fixup /\ result[j] = list[j - 1]
      BY <1>1, <1>3, <1>7, <2>2
    <3> QED
      BY <1>1, <1>2, <1>3, <3>1
  <2>3. CASE j = here + 1 /\ i <= here
    <3>1. i \in 1..n /\ result[i] = list[i] /\ result[j] = fixup
      BY <1>1, <1>3, <1>7, <2>3
    <3> QED
      BY <1>1, <1>2, <1>3, <2>3, <3>1
  <2>4. CASE i # here + 1 /\ j # here + 1
    <3>1. /\ a \in 1..n /\ b \in 1..n /\ a <= b
          /\ result[i] = list[a] /\ result[j] = list[b]
      BY <1>1, <1>3, <1>7, <1>9, <2>4
    <3> QED
      BY <3>1 DEF Ascending
  <2> QED
    BY <1>3, <1>9, <2>1, <2>2, <2>3, <2>4
<1>10. here + 1 \in 1..(n + 1) /\ result[here + 1] = fixup
  BY <1>1, <1>3, <1>7
<1>11. ASSUME NEW f \in 1..n
       PROVE  \E g \in 1..(n + 1) : result[g] = list[f]
  <2>1. CASE f <= here
    <3>1. f \in 1..(n + 1) /\ result[f] = list[f]
      BY <1>1, <1>3, <1>7, <2>1
    <3> QED
      BY <3>1
  <2>2. CASE ~(f <= here)
    <3>1. f + 1 \in 1..(n + 1) /\ result[f + 1] = list[f]
      BY <1>1, <1>3, <1>7, <2>2
    <3> QED
      BY <3>1
  <2> QED
    BY <2>1, <2>2
<1>12. Ascending(result)
  BY <1>6, <1>9 DEF Ascending
<1> QED
  BY <1>6, <1>8, <1>10, <1>11, <1>12

RelocAt(p) == SectionAt(p).relocs[p[3]]

\* What an accepted object says of its relocations.
LEMMA RelocItem ==
  ASSUME LinkInv, LaidOut, NEW p \in RelocItems
  PROVE  /\ p = <<p[1], p[2], p[3]>> /\ p[1] \in 1..Len(loaded)
         /\ p[2] \in 1..Len(loaded[p[1]].sections)
         /\ p[3] \in 1..Len(SectionAt(p).relocs)
         /\ <<p[1], p[2]>> \in DOMAIN place
         /\ Start(p[1], p[2]) \in Nat
         /\ SizeOf(<<p[1], p[2]>>) \in Nat
         /\ RelocAt(p).offset \in Nat /\ RelocAt(p).addend \in Int
         /\ RelocAt(p).type \in 1..5
         /\ Width(RelocAt(p).type) \in Nat \ {0}
         /\ RelocAt(p).symbol \in 1..Len(loaded[p[1]].symbols)
         /\ RelocAt(p).offset + Width(RelocAt(p).type) <= SizeOf(<<p[1], p[2]>>)
<1>1. PICK x \in SectionItems :
        \E r \in 1..Len(loaded[x[1]].sections[x[2]].relocs) : p = <<x[1], x[2], r>>
  BY DEF RelocItems
<1>2. /\ x[1] \in 1..Len(loaded) /\ x[2] \in 1..Len(loaded[x[1]].sections)
      /\ x = <<x[1], x[2], 0>>
  BY DEF SectionItems
<1>3. /\ p = <<p[1], p[2], p[3]>> /\ p[1] = x[1] /\ p[2] = x[2]
      /\ p[3] \in 1..Len(SectionAt(p).relocs)
  BY <1>1 DEF SectionAt
<1>4. <<p[1], p[2]>> \in DOMAIN place
  BY <1>3 DEF LinkInv, LoopInv
<1>5. PICK obj : obj = loaded[p[1]]
  OBVIOUS
<1>6. obj \in ObjectType /\ Accepted(obj)
  BY <1>2, <1>3, <1>5 DEF LinkInv, TypeOK
<1>7. PICK s : s = p[2]
  OBVIOUS
<1>8. PICK r : r = p[3]
  OBVIOUS
<1>9. s \in 1..Len(obj.sections) /\ r \in 1..Len(obj.sections[s].relocs)
  BY <1>2, <1>3, <1>5, <1>7, <1>8 DEF SectionAt
<1>10. PICK reloc : reloc = obj.sections[s].relocs[r]
  OBVIOUS
<1>11. RelocAt(p) = reloc /\ SizeOf(<<p[1], p[2]>>) = obj.sections[s].size
  BY <1>5, <1>7, <1>8, <1>10 DEF RelocAt, SectionAt, SizeOf
<1>12. RelocAccepted(obj, obj.sections[s], reloc)
  BY <1>6, <1>9, <1>10 DEF Accepted
<1>13. obj.sections[s] \in SectionType /\ obj.sections[s].size \in Nat
  BY <1>6, <1>9, AcceptedSection
<1>14. reloc \in RelocType
  <2>1. obj.sections[s].relocs \in Seq(RelocType)
    BY <1>13 DEF SectionType
  <2> QED
    BY <1>9, <1>10, <2>1
<1>15. \A t : Width(t) \in Nat \ {0}
  BY DEF Width
<1>16. /\ reloc.offset \in Nat /\ reloc.addend \in Int
  BY <1>14 DEF RelocType
<1>17. /\ reloc.symbol \in 1..Len(obj.symbols)
       /\ reloc.type \in 1..5
       /\ reloc.offset + Width(reloc.type) <= obj.sections[s].size
  BY <1>12 DEF RelocAccepted, Abs32, Data64
<1>18. Start(p[1], p[2]) \in Nat
  <2>1. PICK w : w = <<p[1], p[2]>>
    OBVIOUS
  <2>2. w[1] = p[1] /\ w[2] = p[2]
    BY <2>1
  <2>3. /\ place[w] \in Nat /\ base[KindOf(w)] \in Nat
        /\ Start(w[1], w[2]) = base[KindOf(w)] + place[w]
    BY <1>4, <2>1, PlacedSection DEF LinkInv
  <2> QED
    BY <2>2, <2>3
<1> QED
  BY <1>2, <1>3, <1>4, <1>5, <1>11, <1>13, <1>15, <1>16, <1>17, <1>18

LEMMA WhereWritten ==
  ASSUME LinkInv, LaidOut, NEW p \in RelocItems
  PROVE  /\ Position(p) = Start(p[1], p[2]) + RelocAt(p).offset
         /\ Position(p) \in Nat /\ StubSize <= Position(p)
<1>1. /\ Start(p[1], p[2]) \in Nat /\ RelocAt(p).offset \in Nat
      /\ <<p[1], p[2]>> \in DOMAIN place
  BY RelocItem
<1>2. StubSize <= Start(p[1], p[2])
  <2>1. PICK w : w = <<p[1], p[2]>>
    OBVIOUS
  <2>2. w[1] = p[1] /\ w[2] = p[2] /\ w \in DOMAIN place
    BY <1>1, <2>1
  <2>3. StubSize <= Start(w[1], w[2])
    BY <2>2, DisjointFromInv DEF StorageDisjoint
  <2> QED
    BY <2>2, <2>3
<1>3. Position(p) = Start(p[1], p[2]) + RelocAt(p).offset
  BY DEF Position, RelocAt
<1> QED
  BY <1>1, <1>2, <1>3 DEF StubSize

\* No other relocation writes the field of one that is alone in its section.
LEMMA DistinctPositions ==
  ASSUME LinkInv, LaidOut, NEW p \in RelocItems, NEW q \in RelocItems, p # q, AloneAt(q)
  PROVE  Position(p) # Position(q)
<1> DEFINE v == <<p[1], p[2]>>
           w == <<q[1], q[2]>>
<1>1. PICK a : a = RelocAt(p).offset
  OBVIOUS
<1>2. PICK b : b = RelocAt(q).offset
  OBVIOUS
<1>3. PICK m : m = Width(RelocAt(p).type)
  OBVIOUS
<1>4. PICK n : n = Width(RelocAt(q).type)
  OBVIOUS
<1>5. /\ p = <<p[1], p[2], p[3]>> /\ q = <<q[1], q[2], q[3]>>
      /\ p[3] \in 1..Len(SectionAt(p).relocs)
      /\ v \in DOMAIN place /\ w \in DOMAIN place
      /\ v[1] = p[1] /\ v[2] = p[2] /\ w[1] = q[1] /\ w[2] = q[2]
  BY RelocItem
<1>6. /\ a \in Nat /\ m \in Nat \ {0} /\ a + m <= SizeOf(v) /\ SizeOf(v) \in Nat
      /\ Start(v[1], v[2]) \in Nat /\ Position(p) = Start(v[1], v[2]) + a
  BY <1>1, <1>3, <1>5, RelocItem, WhereWritten
<1>7. /\ b \in Nat /\ n \in Nat \ {0} /\ b + n <= SizeOf(w) /\ SizeOf(w) \in Nat
      /\ Start(w[1], w[2]) \in Nat /\ Position(q) = Start(w[1], w[2]) + b
  BY <1>2, <1>4, <1>5, RelocItem, WhereWritten
<1>8. CASE v = w
  <2>1. p[3] # q[3] /\ SectionAt(p) = SectionAt(q)
    BY <1>5, <1>8 DEF SectionAt
  <2>2. Apart(b, n, a, m)
    BY <1>1, <1>2, <1>3, <1>4, <1>5, <2>1 DEF AloneAt, RelocAt
  <2>3. a # b
    BY <1>6, <1>7, <2>2 DEF Apart
  <2> QED
    BY <1>6, <1>7, <1>8, <2>3
<1>9. CASE v # w
  <2>1. Apart(Start(v[1], v[2]), SizeOf(v), Start(w[1], w[2]), SizeOf(w))
    BY <1>5, <1>9, DisjointFromInv DEF StorageDisjoint
  <2>2. PICK x : x = Start(v[1], v[2])
    OBVIOUS
  <2>3. PICK y : y = Start(w[1], w[2])
    OBVIOUS
  <2>4. PICK j : j = SizeOf(v)
    OBVIOUS
  <2>5. PICK k : k = SizeOf(w)
    OBVIOUS
  <2> HIDE DEF v, w
  <2>6. /\ x \in Nat /\ j \in Nat /\ a + m <= j /\ Position(p) = x + a
        /\ y \in Nat /\ k \in Nat /\ b + n <= k /\ Position(q) = y + b
        /\ Apart(x, j, y, k)
    BY <1>6, <1>7, <2>1, <2>2, <2>3, <2>4, <2>5
  <2> QED
    BY <1>6, <1>7, <2>6 DEF Apart
<1> QED
  BY <1>8, <1>9

\* Where a relocation writes and what it refers to are settled by the layout and
\* the names.
LEMMA TargetsKept ==
  ASSUME UNCHANGED <<job, loaded, base, place, address, globals>>
  PROVE  /\ RelocItems' = RelocItems
         /\ \A q : /\ Position(q)' = Position(q) /\ RelocAt(q)' = RelocAt(q)
                   /\ AloneAt(q)' <=> AloneAt(q)
         /\ \A o, i : Value(o, i)' = Value(o, i)
         /\ \A symbol : Unresolved(symbol)' <=> Unresolved(symbol)
         /\ \A o, i : loaded'[o].symbols[i] = loaded[o].symbols[i]
<1>1. SectionItems' = SectionItems
  BY DEF SectionItems
<1>2. RelocItems' = RelocItems
  BY <1>1 DEF RelocItems
<1>3. \A q : SectionAt(q)' = SectionAt(q)
  BY DEF SectionAt
<1>4. \A q : Position(q)' = Position(q) /\ RelocAt(q)' = RelocAt(q)
  BY <1>3 DEF Position, RelocAt, Start
<1>5. \A q : AloneAt(q)' <=> AloneAt(q)
  BY <1>3 DEF AloneAt
<1>6. \A o, i : Value(o, i)' = Value(o, i)
  BY DEF Value
<1>7. \A symbol : Unresolved(symbol)' <=> Unresolved(symbol)
  BY DEF Unresolved
<1> QED
  BY <1>2, <1>4, <1>5, <1>6, <1>7

LEMMA AppliedKept ==
  ASSUME UNCHANGED <<job, loaded, base, place, address, globals>>, NEW q, Applied(q),
         Position(q) \in DOMAIN fields'
           /\ fields'[Position(q)] = fields[Position(q)],
         \A f \in 1..Len(fixups) : \E g \in 1..Len(fixups') : fixups'[g] = fixups[f]
  PROVE  Applied(q)'
<1>1. PICK reloc : reloc = RelocAt(q)
  OBVIOUS
<1>2. PICK symbol : symbol = loaded[q[1]].symbols[reloc.symbol]
  OBVIOUS
<1>3. PICK value : value = Value(q[1], reloc.symbol)
  OBVIOUS
<1>4. PICK position : position = Position(q)
  OBVIOUS
<1>5. /\ reloc = RelocAt(q)' /\ symbol = loaded'[q[1]].symbols[reloc.symbol]
      /\ value = Value(q[1], reloc.symbol)' /\ position = Position(q)'
      /\ Unresolved(symbol)' <=> Unresolved(symbol)
      /\ job' = job
  BY <1>1, <1>2, <1>3, <1>4, TargetsKept
<1> DEFINE Held(written, table) ==
             /\ position \in DOMAIN written
             /\ ~Unresolved(symbol)
             /\ \/ /\ reloc.type = Pc32
                   /\ written[position] = Displacement(value, reloc, position)
                \/ /\ reloc.type = Section32
                   /\ written[position] = symbol.value + reloc.addend
                \/ /\ reloc.type = Data64
                   /\ job.format = "MZ64" /\ position % 8 = 0
                   /\ written[position] = 0
                   /\ \E f \in 1..Len(table) :
                        table[f] = [destination |-> position, addend |-> value + reloc.addend]
<1>6. Applied(q) <=> Held(fields, fixups)
  BY <1>1, <1>2, <1>3, <1>4 DEF Applied, RelocAt
<1>7. Applied(q)' <=> Held(fields', fixups')
  BY <1>5 DEF Applied, RelocAt, Displacement
<1>8. /\ Held(fields, fixups)
      /\ position \in DOMAIN fields' /\ fields'[position] = fields[position]
  BY <1>4, <1>6
<1>9. Held(fields', fixups')
  BY <1>8
<1> QED
  BY <1>7, <1>9

LEMMA WroteOne ==
  ASSUME LinkInv, RelocsInv, stage = "relocate", NEW p \in todo, NEW value,
         Wrote(p, Position(p), value), Applied(p)',
         \A f \in 1..Len(fixups) : \E g \in 1..Len(fixups') : fixups'[g] = fixups[f]
  PROVE  RelocsInv'
<1>1. /\ todo' = todo \ {p} /\ stage' = "relocate"
      /\ fields' = Extend(fields, Position(p), value)
      /\ UNCHANGED <<job, loaded, base, place, address, globals>>
  BY DEF Wrote, Visit
<1>2. p \in RelocItems /\ todo \subseteq RelocItems
  BY DEF RelocsInv
<1>3. RelocItems' = RelocItems /\ \A q : AloneAt(q)' <=> AloneAt(q)
  BY <1>1, TargetsKept
<1>4. ASSUME NEW q \in RelocItems, q \notin todo', AloneAt(q)
      PROVE  Applied(q)'
  <2>1. CASE q = p
    BY <2>1
  <2>2. CASE q # p
    <3>1. Applied(q)
      BY <1>1, <1>4, <2>2 DEF RelocsInv
    <3>2. Position(q) # Position(p) /\ Position(q) \in DOMAIN fields
      BY <1>2, <1>4, <2>2, <3>1, DistinctPositions DEF Applied, LaidOut
    <3>3. Position(q) \in DOMAIN fields' /\ fields'[Position(q)] = fields[Position(q)]
      BY <1>1, <3>2 DEF Extend
    <3> QED
      BY <1>1, <3>1, <3>3, AppliedKept
  <2> QED
    BY <2>1, <2>2
<1> QED
  BY <1>1, <1>2, <1>3, <1>4 DEF RelocsInv

LEMMA RelocateApplies ==
  ASSUME LinkInv, RelocsInv, FixupsInv, Relocate, stage' = "relocate"
  PROVE  RelocsInv' /\ FixupsInv'
<1>1. PICK p \in todo :
        /\ stage = "relocate"
        /\ ApplyReloc(p, RelocAt(p), loaded[p[1]].symbols[RelocAt(p).symbol],
                      Value(p[1], RelocAt(p).symbol))
  BY DEF Relocate, RelocAt
<1>2. PICK reloc : reloc = RelocAt(p)
  OBVIOUS
<1>3. PICK symbol : symbol = loaded[p[1]].symbols[reloc.symbol]
  OBVIOUS
<1>4. PICK value : value = Value(p[1], reloc.symbol)
  OBVIOUS
<1>5. PICK position : position = Position(p)
  OBVIOUS
<1>6. /\ stage = "relocate" /\ ~Unresolved(symbol)
      /\ \/ reloc.type = Data64 /\ ApplyData64(p, reloc, value)
         \/ reloc.type = Pc32 /\ ApplyPc32(p, reloc, value)
         \/ reloc.type = Section32 /\ ApplySection32(p, reloc, symbol)
  <2>1. stage = "relocate" /\ ApplyReloc(p, reloc, symbol, value)
    BY <1>1, <1>2, <1>3, <1>4
  <2>2. ~\E id : Refuse(id)
    BY DEF Refuse
  <2> QED
    BY <2>1, <2>2 DEF ApplyReloc
<1>7. p \in RelocItems /\ LaidOut
  BY <1>6 DEF RelocsInv, LaidOut
<1>8. PICK written : Wrote(p, Position(p), written)
  BY <1>6 DEF ApplyData64, ApplyPc32, ApplySection32, Refuse
<1>9. /\ UNCHANGED <<job, loaded, base, place, address, globals>>
      /\ fields' = Extend(fields, position, written)
  BY <1>5, <1>8 DEF Wrote
<1>10. /\ reloc = RelocAt(p)' /\ symbol = loaded'[p[1]].symbols[reloc.symbol]
       /\ value = Value(p[1], reloc.symbol)' /\ position = Position(p)'
       /\ ~Unresolved(symbol)' /\ job' = job
  BY <1>2, <1>3, <1>4, <1>5, <1>6, <1>9, TargetsKept
<1>11. position \in DOMAIN fields' /\ fields'[position] = written
  BY <1>9 DEF Extend
<1>12. ASSUME \/ /\ reloc.type = Pc32
                 /\ written = Displacement(value, reloc, position)
              \/ /\ reloc.type = Section32
                 /\ written = symbol.value + reloc.addend
              \/ /\ reloc.type = Data64
                 /\ job.format = "MZ64" /\ position % 8 = 0
                 /\ written = 0
                 /\ \E f \in 1..Len(fixups') :
                      fixups'[f] = [destination |-> position, addend |-> value + reloc.addend]
       PROVE  Applied(p)'
  BY <1>10, <1>11, <1>12 DEF Applied, RelocAt, Displacement
<1>13. CASE reloc.type = Pc32
  <2>1. ApplyPc32(p, reloc, value)
    BY <1>6, <1>13 DEF Pc32, Data64, Section32
  <2>2. fixups' = fixups /\ fields' = Extend(fields, position, Displacement(value, reloc, position))
    BY <1>5, <1>6, <2>1 DEF ApplyPc32, Refuse, Wrote
  <2>3. written = Displacement(value, reloc, position)
    BY <1>11, <2>2 DEF Extend
  <2> QED
    BY <1>6, <1>8, <1>12, <1>13, <2>2, <2>3, WroteOne DEF FixupsInv
<1>14. CASE reloc.type = Section32
  <2>1. ApplySection32(p, reloc, symbol)
    BY <1>6, <1>14 DEF Pc32, Data64, Section32
  <2>2. fixups' = fixups /\ fields' = Extend(fields, position, symbol.value + reloc.addend)
    BY <1>5, <1>6, <2>1 DEF ApplySection32, Refuse, Wrote
  <2>3. written = symbol.value + reloc.addend
    BY <1>11, <2>2 DEF Extend
  <2> QED
    BY <1>6, <1>8, <1>12, <1>14, <2>2, <2>3, WroteOne DEF FixupsInv
<1>15. CASE reloc.type = Data64
  <2> DEFINE fixup == [destination |-> position, addend |-> value + reloc.addend]
  <2>1. ApplyData64(p, reloc, value)
    BY <1>6, <1>15 DEF Pc32, Data64, Section32
  <2>2. /\ job.format # "COM" /\ position % 8 = 0 /\ Addable(value, reloc.addend)
        /\ fixups' = Inserted(fixups, fixup)
        /\ fields' = Extend(fields, position, 0)
    BY <1>5, <1>6, <2>1 DEF ApplyData64, Refuse, Wrote
  <2>3. written = 0
    BY <1>11, <2>2 DEF Extend
  <2>4. job.format = "MZ64"
    BY <2>2, LinkerAssumption DEF LinkInv, TypeOK
  <2>5. fixup \in FixupType
    BY <1>5, <1>7, <2>2, WhereWritten, LinkerAssumption DEF FixupType, Addable
  <2>6. fixups \in Seq(FixupType) /\ Ascending(fixups)
    BY DEF FixupsInv, Ascending
  <2> HIDE DEF fixup
  <2>7. /\ fixups' \in Seq(FixupType) /\ Ascending(fixups')
        /\ \E g \in 1..Len(fixups') : fixups'[g] = fixup
        /\ \A f \in 1..Len(fixups) : \E g \in 1..Len(fixups') : fixups'[g] = fixups[f]
    BY <2>2, <2>5, <2>6, InsertedKeepsOrder
  <2>8. FixupsInv'
    BY <2>7 DEF FixupsInv, Ascending
  <2>9. Applied(p)'
    BY <1>12, <1>15, <2>2, <2>3, <2>4, <2>7 DEF fixup
  <2> QED
    BY <1>6, <1>8, <2>7, <2>8, <2>9, WroteOne
<1> QED
  BY <1>6, <1>13, <1>14, <1>15

-----------------------------------------------------------------------------
(* The invariant *)

LEMMA NothingApplied ==
  ASSUME stage' \notin {"relocate", "write", "linked"}
  PROVE  RelocsInv' /\ EntryInv'
BY DEF RelocsInv, EntryInv

\* Before the layout nothing is resolved, and after a link has failed nothing is
\* said of what was.
LEMMA NotLaidOut ==
  ASSUME LinkInv, NamesInv, FixupsInv, ~LaidOut', UNCHANGED <<globals, fixups>>,
         stage' \in {"read", "release", "place"} => stage \in {"read", "release", "place"}
  PROVE  SymbolsInv' /\ NamesInv' /\ RelocsInv' /\ FixupsInv' /\ EntryInv'
<1>1. SymbolsInv'
  BY DEF SymbolsInv
<1>2. NamesInv'
  BY DEF NamesInv
<1>3. RelocsInv' /\ EntryInv'
  BY NothingApplied DEF LaidOut
<1>4. FixupsInv'
  BY DEF FixupsInv
<1> QED
  BY <1>1, <1>2, <1>3, <1>4

LEMMA EndsBadly ==
  ASSUME LinkInv, MeaningInv, UNCHANGED <<job, volume, loaded, globals, fixups>>,
         stage' \in {"refused", "exited"}
  PROVE  MeaningInv'
<1>1. ~LaidOut' /\ stage' \notin {"read", "release", "place"}
  BY DEF LaidOut
<1>2. InputsInv'
  BY <1>1, InputsKept DEF MeaningInv
<1> QED
  BY <1>1, <1>2, NotLaidOut DEF MeaningInv

LEMMA RefuseMeaning ==
  ASSUME LinkInv, MeaningInv, NEW id, Refuse(id)
  PROVE  MeaningInv'
BY EndsBadly DEF Refuse

LEMMA ReadMeaning ==
  ASSUME LinkInv, MeaningInv, ReadObject \/ ReleaseObject
  PROVE  MeaningInv'
<1>1. InputsInv'
  BY ReadInputs, ReleaseInputs DEF MeaningInv
<1>2. /\ stage \in {"read", "release"} /\ ~LaidOut'
      /\ UNCHANGED <<globals, fixups>>
  <2>1. CASE ReadObject
    BY <2>1 DEF ReadObject, Refuse, LaidOut
  <2>2. CASE ReleaseObject
    BY <2>2 DEF ReleaseObject, Refuse, LaidOut
  <2> QED
    BY <2>1, <2>2
<1> QED
  BY <1>1, <1>2, NotLaidOut DEF MeaningInv

LEMMA LayoutMeaning ==
  ASSUME LinkInv, MeaningInv, PlaceStub \/ PlaceSection \/ LayOut
  PROVE  MeaningInv'
<1>1. CASE PlaceStub
  <2>1. /\ stage = "read" /\ ~LaidOut' /\ UNCHANGED <<globals, fixups>>
    BY <1>1 DEF PlaceStub, LaidOut
  <2> QED
    BY <1>1, <2>1, NotLaidOut, PlaceStubInputs DEF MeaningInv
<1>2. CASE PlaceSection
  <2>1. /\ stage = "place" /\ stage' = "place" /\ ~LaidOut'
        /\ UNCHANGED <<job, volume, loaded, globals, fixups>>
    BY <1>2 DEF PlaceSection, LaidOut
  <2>2. InputsInv'
    BY <2>1, InputsKept DEF MeaningInv
  <2> QED
    BY <2>1, <2>2, NotLaidOut DEF MeaningInv
<1>3. CASE LayOut
  <2>1. /\ stage = "place" /\ stage' = "resolve"
        /\ UNCHANGED <<job, volume, loaded, globals, fixups>>
    BY <1>3 DEF LayOut
  <2>2. InputsInv'
    BY <2>1, InputsKept DEF MeaningInv
  <2>3. RelocsInv' /\ EntryInv' /\ FixupsInv'
    BY <2>1, NothingApplied DEF MeaningInv, FixupsInv
  <2> QED
    BY <1>3, <2>2, <2>3, LayOutSymbols DEF MeaningInv
<1> QED
  BY <1>1, <1>2, <1>3

LEMMA ResolveMeaning ==
  ASSUME LinkInv, MeaningInv,
         ResolveLocal \/ ResolveReference \/ ResolveCommon \/ ResolveDefinition
  PROVE  MeaningInv'
<1>1. CASE \E id : Refuse(id)
  BY <1>1, RefuseMeaning
<1>2. CASE ~\E id : Refuse(id)
  <2>1. /\ stage = "resolve" /\ stage' = "resolve"
        /\ UNCHANGED <<job, volume, loaded, fixups>>
    <3>1. CASE ResolveLocal \/ ResolveReference
      BY <3>1 DEF ResolveLocal, ResolveReference, Resolved
    <3>2. CASE ResolveCommon
      BY <1>2, <3>2 DEF ResolveCommon, Resolved
    <3>3. CASE ResolveDefinition
      BY <1>2, <3>3 DEF ResolveDefinition, Resolved
    <3> QED
      BY <3>1, <3>2, <3>3
  <2>2. InputsInv'
    BY <2>1, InputsKept DEF MeaningInv, LaidOut
  <2>3. RelocsInv' /\ EntryInv' /\ FixupsInv'
    BY <2>1, NothingApplied DEF MeaningInv, FixupsInv
  <2>4. SymbolsInv' /\ NamesInv'
    <3>1. CASE ResolveLocal
      <4>1. SymbolsInv'
        BY <3>1, ResolvedSymbols DEF ResolveLocal, MeaningInv
      <4> QED
        BY <3>1, <4>1, LocalNames DEF MeaningInv
    <3>2. CASE ResolveReference
      <4>1. SymbolsInv'
        BY <3>2, ResolvedSymbols DEF ResolveReference, MeaningInv
      <4> QED
        BY <3>2, <4>1, ReferenceNames DEF MeaningInv
    <3>3. CASE ResolveCommon
      BY <2>1, <3>3, CommonNames DEF MeaningInv
    <3>4. CASE ResolveDefinition
      BY <2>1, <3>4, DefinitionNames DEF MeaningInv
    <3> QED
      BY <3>1, <3>2, <3>3, <3>4
  <2> QED
    BY <2>2, <2>3, <2>4 DEF MeaningInv
<1> QED
  BY <1>1, <1>2

\* Every symbol is resolved, and all relocations are still to come.
LEMMA FlattenMeaning ==
  ASSUME LinkInv, MeaningInv, Flatten
  PROVE  MeaningInv'
<1>1. /\ stage = "resolve" /\ todo = {} /\ stage' = "relocate" /\ todo' = RelocItems
      /\ UNCHANGED <<job, volume, loaded, base, place, address, globals, fixups>>
      /\ LaidOut
  BY DEF Flatten, LaidOut
<1>2. InputsInv'
  BY <1>1, InputsKept DEF MeaningInv
<1>3. SymbolsInv' /\ NamesInv'
  BY <1>1, SymbolsKept, NamesKept DEF MeaningInv
<1>4. RelocItems' = RelocItems
  BY <1>1, TargetsKept
<1>5. RelocsInv' /\ FixupsInv' /\ EntryInv'
  BY <1>1, <1>4 DEF MeaningInv, RelocsInv, FixupsInv, EntryInv
<1> QED
  BY <1>2, <1>3, <1>5 DEF MeaningInv

LEMMA RelocateMeaning ==
  ASSUME LinkInv, MeaningInv, Relocate
  PROVE  MeaningInv'
<1>1. /\ stage = "relocate"
      /\ (\E id : Refuse(id)) \/ (\E p, position, value : Wrote(p, position, value))
  BY RelocateTurn
<1>2. CASE \E id : Refuse(id)
  BY <1>2, RefuseMeaning
<1>3. CASE \E p, position, value : Wrote(p, position, value)
  <2>1. /\ stage' = "relocate"
        /\ UNCHANGED <<job, volume, loaded, base, place, address, globals>>
    BY <1>1, <1>3 DEF Wrote
  <2>2. InputsInv' /\ SymbolsInv' /\ NamesInv'
    BY <1>1, <2>1, InputsKept, SymbolsKept, NamesKept DEF MeaningInv, LaidOut
  <2>3. RelocsInv' /\ FixupsInv'
    BY <2>1, RelocateApplies DEF MeaningInv
  <2>4. EntryInv'
    BY <2>1 DEF EntryInv
  <2> QED
    BY <2>2, <2>3, <2>4 DEF MeaningInv
<1> QED
  BY <1>1, <1>2, <1>3

\* The trampoline's field lies before every section.
LEMMA PatchMeaning ==
  ASSUME LinkInv, MeaningInv, PatchEntry
  PROVE  MeaningInv'
<1>1. CASE \E id : Refuse(id)
  BY <1>1, RefuseMeaning
<1>2. CASE ~\E id : Refuse(id)
  <2> DEFINE end == EntryField + 4
             start == globals["cc64_start"].address
  <2>1. /\ stage = "relocate" /\ todo = {} /\ stage' = "write"
        /\ Defined("main") /\ Defined("cc64_start")
        /\ fields' = Extend(fields, EntryField, start - end)
        /\ UNCHANGED <<job, volume, loaded, base, place, address, globals, fixups>>
        /\ LaidOut
    BY <1>2 DEF PatchEntry, LaidOut
  <2>2. InputsInv' /\ SymbolsInv' /\ NamesInv' /\ FixupsInv'
    BY <2>1, InputsKept, SymbolsKept, NamesKept DEF MeaningInv, FixupsInv
  <2>3. /\ EntryField \in DOMAIN fields' /\ fields'[EntryField] = start - end
        /\ \A x \in DOMAIN fields : x # EntryField =>
             x \in DOMAIN fields' /\ fields'[x] = fields[x]
    BY <2>1 DEF Extend
  <2>4. EntryInv'
    BY <2>1, <2>3 DEF EntryInv, Defined
  <2>5. RelocItems' = RelocItems /\ \A q : AloneAt(q)' <=> AloneAt(q)
    BY <2>1, TargetsKept
  <2>6. ASSUME NEW q \in RelocItems, AloneAt(q)
        PROVE  Applied(q)'
    <3>1. Applied(q)
      BY <2>1, <2>6 DEF MeaningInv, RelocsInv
    <3>2. Position(q) # EntryField
      BY <2>1, WhereWritten DEF StubSize, EntryField
    <3>3. Position(q) \in DOMAIN fields' /\ fields'[Position(q)] = fields[Position(q)]
      BY <2>3, <3>1, <3>2 DEF Applied
    <3> QED
      BY <2>1, <3>1, <3>3, AppliedKept
  <2>7. RelocsInv'
    BY <2>1, <2>5, <2>6 DEF RelocsInv
  <2> QED
    BY <2>2, <2>4, <2>7 DEF MeaningInv
<1> QED
  BY <1>1, <1>2

LEMMA WriteMeaning ==
  ASSUME LinkInv, MeaningInv, WriteImage
  PROVE  MeaningInv'
<1>1. CASE stage' = "linked"
  <2>1. /\ stage = "write" /\ LaidOut /\ MemorySize <= ImageLimit
        /\ UNCHANGED <<job, volume, loaded, size, base, place, address, globals, fields,
                       fixups>>
    BY <1>1 DEF WriteImage, Refuse, LaidOut
  <2>2. InputsInv' /\ SymbolsInv' /\ NamesInv' /\ FixupsInv'
    BY <1>1, <2>1, InputsKept, SymbolsKept, NamesKept DEF MeaningInv, FixupsInv
  <2>3. EntryInv'
    BY <1>1, <2>1 DEF MeaningInv, EntryInv, Defined, MemorySize
  <2>4. RelocItems' = RelocItems /\ \A q : AloneAt(q)' <=> AloneAt(q)
    BY <2>1, TargetsKept
  <2>5. \A q \in RelocItems : AloneAt(q) => Applied(q)
    BY <2>1 DEF MeaningInv, RelocsInv
  <2>6. \A q : Applied(q) => Applied(q)'
    <3> SUFFICES ASSUME NEW q, Applied(q)
                 PROVE  Applied(q)'
      OBVIOUS
    <3>1. Position(q) \in DOMAIN fields' /\ fields'[Position(q)] = fields[Position(q)]
      BY <2>1 DEF Applied
    <3> QED
      BY <2>1, <3>1, AppliedKept
  <2>7. RelocsInv'
    BY <1>1, <2>4, <2>5, <2>6 DEF RelocsInv
  <2> QED
    BY <2>2, <2>3, <2>7 DEF MeaningInv
<1>2. CASE stage' # "linked"
  <2>1. /\ stage' \in {"refused", "exited"}
        /\ UNCHANGED <<job, volume, loaded, globals, fixups>>
    BY <1>2 DEF WriteImage, Refuse
  <2> QED
    BY <2>1, EndsBadly
<1> QED
  BY <1>1, <1>2

LEMMA InitMeaning == Init => MeaningInv
<1> SUFFICES ASSUME Init PROVE MeaningInv
  OBVIOUS
<1>1. /\ stage = "read" /\ todo = ObjectItems /\ loaded = <<>> /\ fixups = <<>>
      /\ DOMAIN globals = {} /\ DOMAIN address = {} /\ job \in Jobs
  BY DEF Init
<1>2. InputsInv
  <2>1. Len(loaded) = 0 /\ job.objects \in Seq(Names)
    BY <1>1, LinkerAssumption
  <2>2. \A p \in ObjectItems : p[1] > 0
    BY <2>1, Items
  <2> QED
    BY <1>1, <2>1, <2>2 DEF InputsInv, LaidOut
<1>3. SymbolsInv /\ NamesInv /\ RelocsInv /\ EntryInv
  BY <1>1 DEF SymbolsInv, NamesInv, RelocsInv, EntryInv, LaidOut
<1>4. FixupsInv
  BY <1>1 DEF FixupsInv
<1> QED
  BY <1>2, <1>3, <1>4 DEF MeaningInv

LEMMA StutterMeaning ==
  ASSUME MeaningInv, UNCHANGED vars
  PROVE  MeaningInv'
<1>1. InputsInv' /\ EntryInv' /\ FixupsInv'
  BY DEF MeaningInv, vars, InputsInv, EntryInv, FixupsInv, LaidOut, ObjectItems, Defined,
         MemorySize
<1>2. LaidOut' <=> LaidOut
  BY DEF vars, LaidOut
<1>3. NamesInv'
  BY <1>2, NamesKept DEF MeaningInv, vars
<1>4. SymbolsInv'
  <2>1. SymbolItems' = SymbolItems /\ UNCHANGED <<stage, todo, address>>
    BY DEF SymbolItems, vars
  <2>2. \A q : /\ Located(q[1], SymbolAt(q))' = Located(q[1], SymbolAt(q))
               /\ SymbolAt(q)' = SymbolAt(q)
               /\ IsCommon(SymbolAt(q))' <=> IsCommon(SymbolAt(q))
    BY DEF Located, Start, SymbolAt, IsCommon, vars
  <2> QED
    BY <1>2, <2>1, <2>2 DEF MeaningInv, SymbolsInv
<1>5. RelocsInv'
  <2>1. RelocItems' = RelocItems /\ \A q : AloneAt(q)' <=> AloneAt(q)
    BY TargetsKept DEF vars
  <2>2. \A q : Applied(q) => Applied(q)'
    <3> SUFFICES ASSUME NEW q, Applied(q)
                 PROVE  Applied(q)'
      OBVIOUS
    <3>1. Position(q) \in DOMAIN fields' /\ fields'[Position(q)] = fields[Position(q)]
      BY DEF Applied, vars
    <3> QED
      BY <3>1, AppliedKept DEF vars
  <2> QED
    BY <2>1, <2>2 DEF MeaningInv, RelocsInv, vars
<1> QED
  BY <1>1, <1>3, <1>4, <1>5 DEF MeaningInv

\* MeaningInv holds in every reachable state of every link.
THEOREM Meaning == Spec => []MeaningInv
<1>1. LinkInv /\ MeaningInv /\ [Next]_vars => MeaningInv'
  <2> SUFFICES ASSUME LinkInv, MeaningInv, [Next]_vars PROVE MeaningInv'
    OBVIOUS
  <2>1. CASE ReadObject \/ ReleaseObject
    BY <2>1, ReadMeaning
  <2>2. CASE PlaceStub \/ PlaceSection \/ LayOut
    BY <2>2, LayoutMeaning
  <2>3. CASE ResolveLocal \/ ResolveReference \/ ResolveCommon \/ ResolveDefinition
    BY <2>3, ResolveMeaning
  <2>4. CASE Flatten
    BY <2>4, FlattenMeaning
  <2>5. CASE Relocate
    BY <2>5, RelocateMeaning
  <2>6. CASE PatchEntry
    BY <2>6, PatchMeaning
  <2>7. CASE WriteImage
    BY <2>7, WriteMeaning
  <2>8. CASE OutOfMemory
    BY <2>8, EndsBadly DEF OutOfMemory
  <2>9. CASE UNCHANGED vars
    BY <2>9, StutterMeaning
  <2> QED
    BY <2>1, <2>2, <2>3, <2>4, <2>5, <2>6, <2>7, <2>8, <2>9 DEF Next, Ended
<1> QED
  BY InitMeaning, Inductive, <1>1, PTL DEF Spec

-----------------------------------------------------------------------------
(* A published image is correct *)

\* The promise speaks of the objects the caller named, the linker of those it
\* has read: they are the same.
LEMMA SameObjects ==
  ASSUME LinkInv, MeaningInv, stage = "linked"
  PROVE  /\ Promise!Inputs = 1..Len(loaded)
         /\ \A o \in Promise!Inputs : Promise!Held(o) = loaded[o] /\ Accepted(loaded[o])
         /\ Promise!Sections = DOMAIN place
         /\ Promise!Symbols = DOMAIN address
<1>1. /\ Len(loaded) = Len(job.objects) /\ LaidOut
      /\ \A o \in 1..Len(loaded) : loaded[o] = volume[job.objects[o]] /\ Accepted(loaded[o])
  BY DEF LinkInv, TypeOK, MeaningInv, InputsInv, LaidOut
<1>2. Promise!Inputs = 1..Len(loaded)
  BY <1>1 DEF Promise!Inputs
<1>3. \A o \in Promise!Inputs : Promise!Held(o) = loaded[o] /\ Accepted(loaded[o])
  BY <1>1, <1>2 DEF Promise!Held
<1>4. \A p : p \in Promise!Sections <=> PlacedType(p)
  <2>1. ASSUME NEW p \in Promise!Sections
        PROVE  PlacedType(p)
    <3>1. PICK o \in Promise!Inputs : p \in {<<o, s>> : s \in 1..Len(Promise!Held(o).sections)}
      BY DEF Promise!Sections
    <3>2. PICK s \in 1..Len(Promise!Held(o).sections) : p = <<o, s>>
      BY <3>1
    <3> QED
      BY <1>2, <1>3, <3>1, <3>2 DEF PlacedType
  <2>2. ASSUME NEW p, PlacedType(p)
        PROVE  p \in Promise!Sections
    <3>1. /\ p = <<p[1], p[2]>> /\ p[1] \in Promise!Inputs
          /\ p[2] \in 1..Len(Promise!Held(p[1]).sections)
      BY <1>2, <1>3, <2>2 DEF PlacedType
    <3>2. p \in {<<p[1], s>> : s \in 1..Len(Promise!Held(p[1]).sections)}
      BY <3>1
    <3> QED
      BY <3>1, <3>2 DEF Promise!Sections
  <2> QED
    BY <2>1, <2>2
<1>5. \A p : PlacedType(p) <=> p \in DOMAIN place
  <2>1. \A p \in DOMAIN place : PlacedType(p)
    BY DEF LinkInv, TypeOK
  <2>2. ASSUME NEW p, PlacedType(p)
        PROVE  p \in DOMAIN place
    <3>1. <<p[1], p[2], 0>> \in SectionItems
      BY <2>2 DEF PlacedType, SectionItems
    <3> QED
      BY <1>1, <2>2, <3>1 DEF LinkInv, LoopInv, PlacedType
  <2> QED
    BY <2>1, <2>2
<1>6. \A p : p \in Promise!Symbols <=> p = <<p[1], p[2]>> /\ ResolvedType(p)
  <2>1. ASSUME NEW p \in Promise!Symbols
        PROVE  p = <<p[1], p[2]>> /\ ResolvedType(p)
    <3>1. PICK o \in Promise!Inputs : p \in {<<o, i>> : i \in 1..Len(Promise!Held(o).symbols)}
      BY DEF Promise!Symbols
    <3>2. PICK i \in 1..Len(Promise!Held(o).symbols) : p = <<o, i>>
      BY <3>1
    <3> QED
      BY <1>2, <1>3, <3>1, <3>2 DEF ResolvedType
  <2>2. ASSUME NEW p, p = <<p[1], p[2]>>, ResolvedType(p)
        PROVE  p \in Promise!Symbols
    <3>1. p[1] \in Promise!Inputs /\ p[2] \in 1..Len(Promise!Held(p[1]).symbols)
      BY <1>2, <1>3, <2>2 DEF ResolvedType
    <3>2. p \in {<<p[1], i>> : i \in 1..Len(Promise!Held(p[1]).symbols)}
      BY <2>2, <3>1
    <3> QED
      BY <3>1, <3>2 DEF Promise!Symbols
  <2> QED
    BY <2>1, <2>2
<1>7. \A p : p = <<p[1], p[2]>> /\ ResolvedType(p) <=> p \in DOMAIN address
  <2>1. \A p \in DOMAIN address : p = <<p[1], p[2]>> /\ ResolvedType(p)
    BY <1>1 DEF LinkInv, TypeOK, MeaningInv, SymbolsInv
  <2>2. ASSUME NEW p, p = <<p[1], p[2]>>, ResolvedType(p)
        PROVE  p \in DOMAIN address
    <3>1. <<p[1], p[2], 0>> \in SymbolItems
      BY <2>2 DEF ResolvedType, SymbolItems
    <3>2. <<<<p[1], p[2], 0>>[1], <<p[1], p[2], 0>>[2]>> \in DOMAIN address
      BY <1>1, <3>1 DEF MeaningInv, SymbolsInv
    <3> QED
      BY <2>2, <3>2
  <2> QED
    BY <2>1, <2>2
<1> QED
  BY <1>2, <1>3, <1>4, <1>5, <1>6, <1>7

\* What the promise calls a section, a symbol and a common symbol.
LEMMA SameTables ==
  ASSUME LinkInv, MeaningInv, stage = "linked"
  PROVE  /\ \A p \in DOMAIN place :
              /\ Promise!SectionOf(p) = loaded[p[1]].sections[p[2]]
              /\ Promise!SectionOf(p).size = SizeOf(p)
              /\ Promise!SectionOf(p).kind = KindOf(p)
              /\ Image.place[p] = Start(p[1], p[2])
         /\ \A p \in DOMAIN address :
              /\ Promise!SymbolOf(p) = SymbolAt(p)
              /\ Promise!SymbolOf(p).size = StorageOf(p)
         /\ Image.storage = address
         /\ \A name \in DOMAIN globals : Image.meaning[name] = globals[name].address
         /\ Image.fields = fields /\ Image.fixups = fixups
         /\ Image.payload = PayloadSize /\ Image.memory = MemorySize
         /\ Promise!Commons = Reserved
         /\ \A name : /\ Promise!Definitions(name) = Defining(name)
                      /\ Promise!CommonsOf(name) = Tentative(name)
<1>1. ASSUME NEW p \in DOMAIN place
      PROVE  /\ Promise!SectionOf(p) = loaded[p[1]].sections[p[2]]
             /\ Promise!SectionOf(p).size = SizeOf(p)
             /\ Promise!SectionOf(p).kind = KindOf(p)
  <2>1. p[1] \in Promise!Inputs
    BY SameObjects DEF LinkInv, TypeOK, PlacedType
  <2> QED
    BY <2>1, SameObjects DEF Promise!SectionOf, SizeOf, KindOf
<1>2. ASSUME NEW p \in DOMAIN address
      PROVE  Promise!SymbolOf(p) = SymbolAt(p) /\ Promise!SymbolOf(p).size = StorageOf(p)
  <2>1. p[1] \in Promise!Inputs
    BY SameObjects DEF LinkInv, TypeOK, ResolvedType
  <2> QED
    BY <2>1, SameObjects DEF Promise!SymbolOf, SymbolAt, StorageOf
<1>3. Image = [place |-> [p \in DOMAIN place |-> Start(p[1], p[2])],
               storage |-> address,
               meaning |-> [name \in DOMAIN globals |-> globals[name].address],
               fields |-> fields, fixups |-> fixups,
               payload |-> PayloadSize, memory |-> MemorySize]
  BY DEF Image
<1>4. \A p \in DOMAIN address : Promise!IsCommon(p) <=> IsCommon(SymbolAt(p))
  BY <1>2 DEF Promise!IsCommon, IsCommon, Common
<1>5. Promise!Commons = Reserved
  BY <1>2, <1>4, SameObjects DEF Promise!Commons, Reserved, SymbolAt
<1>6. \A name : Promise!Definitions(name) = Defining(name)
  BY <1>2, SameObjects DEF Promise!Definitions, Defining, Seen
<1>7. \A name : Promise!CommonsOf(name) = Tentative(name)
  BY <1>2, <1>4, SameObjects DEF Promise!CommonsOf, Promise!Commons, Tentative, Seen
<1> QED
  BY <1>1, <1>2, <1>3, <1>5, <1>6, <1>7

LEMMA LinkedLaidOut ==
  ASSUME stage = "linked"
  PROVE  LaidOut
BY DEF LaidOut

LEMMA PublishedStorageApart ==
  ASSUME LinkInv, MeaningInv, stage = "linked"
  PROVE  Promise!StorageApart
<1>1. StorageDisjoint /\ LaidOut
  BY DisjointFromInv, LinkedLaidOut
<1>2. ASSUME NEW p \in DOMAIN place
      PROVE  /\ Promise!SectionRegion(p) = Promise!Region(Start(p[1], p[2]), SizeOf(p))
             /\ Start(p[1], p[2]) \in Nat /\ SizeOf(p) \in Nat
  BY PlacedSection, SameTables DEF Promise!SectionRegion, LinkInv
<1>3. ASSUME NEW c \in Reserved
      PROVE  /\ Promise!CommonRegion(c) = Promise!Region(address[c], StorageOf(c))
             /\ address[c] \in Nat /\ StorageOf(c) \in Nat /\ c \in DOMAIN address
  BY ReservedSymbol, SameTables DEF Promise!CommonRegion, LinkInv, Reserved
<1>4. \A a, b, m, n : Apart(a, m, b, n)
        => Promise!Apart(Promise!Region(a, m), Promise!Region(b, n))
  BY DEF Apart, Promise!Apart, Promise!Region
<1>5. \A a, m \in Nat : StubSize <= a
        => Promise!Apart(Promise!Region(a, m), Promise!Stub)
  BY DEF Promise!Apart, Promise!Region, Promise!Stub, StubSize
<1>6. \A p \in DOMAIN place : Promise!Apart(Promise!SectionRegion(p), Promise!Stub)
  BY <1>1, <1>2, <1>5 DEF StorageDisjoint
<1>7. \A p, q \in DOMAIN place : p # q =>
        Promise!Apart(Promise!SectionRegion(p), Promise!SectionRegion(q))
  BY <1>1, <1>2, <1>4 DEF StorageDisjoint
<1>8. \A c \in Reserved : Promise!Apart(Promise!CommonRegion(c), Promise!Stub)
  BY <1>1, <1>3, <1>5 DEF StorageDisjoint
<1>9. ASSUME NEW c \in Reserved, NEW p \in DOMAIN place
      PROVE  Promise!Apart(Promise!CommonRegion(c), Promise!SectionRegion(p))
  <2>1. Apart(Start(p[1], p[2]), SizeOf(p), address[c], StorageOf(c))
    BY <1>1 DEF StorageDisjoint
  <2>2. Apart(address[c], StorageOf(c), Start(p[1], p[2]), SizeOf(p))
    BY <2>1 DEF Apart
  <2> QED
    BY <1>2, <1>3, <1>4, <2>2
<1>10. \A c, d \in Reserved : c # d =>
         Promise!Apart(Promise!CommonRegion(c), Promise!CommonRegion(d))
  BY <1>1, <1>3, <1>4 DEF StorageDisjoint
<1>11. Promise!Sections = DOMAIN place /\ Promise!Commons = Reserved
  BY SameObjects, SameTables
<1> QED
  BY <1>6, <1>7, <1>8, <1>9, <1>10, <1>11 DEF Promise!StorageApart

LEMMA PublishedStorageInside ==
  ASSUME LinkInv, MeaningInv, stage = "linked"
  PROVE  Promise!StorageInside
<1>1. TypeOK /\ LayoutInv /\ LaidOut
  BY LinkedLaidOut DEF LinkInv
<1>2. /\ \A k \in 0..3 : base[k] \in Nat /\ size[k] \in Nat
      /\ base[0] = 0 /\ size[0] <= base[1]
      /\ base[1] + size[1] <= base[2] /\ base[2] + size[2] <= base[3]
      /\ PayloadSize = base[2] + size[2] /\ MemorySize = base[3] + size[3]
  BY <1>1 DEF TypeOK, LayoutInv, Kinds, Text, ReadOnly, Data, Bss, PayloadSize, MemorySize
<1>3. ASSUME NEW p \in DOMAIN place
      PROVE  Promise!SectionRegion(p).last
               <= IF Promise!SectionOf(p).kind = 3 THEN MemorySize ELSE PayloadSize
  <2>1. PICK k : k = KindOf(p)
    OBVIOUS
  <2>2. /\ k \in 0..3 /\ place[p] \in Nat /\ SizeOf(p) \in Nat
        /\ Start(p[1], p[2]) = base[k] + place[p]
        /\ place[p] + SizeOf(p) <= size[k]
    BY <1>1, <2>1, PlacedSection DEF LayoutInv, Kinds
  <2>3. Promise!SectionRegion(p).last = base[k] + place[p] + SizeOf(p)
    BY <2>2, SameTables DEF Promise!SectionRegion, Promise!Region
  <2>4. Promise!SectionOf(p).kind = k
    BY <2>1, SameTables
  <2>5. CASE k = 3
    BY <1>2, <2>2, <2>3, <2>4, <2>5
  <2>6. CASE k \in 0..2
    <3>1. base[k] + size[k] <= base[2] + size[2]
      BY <1>2, <2>6
    <3>2. base[k] \in Nat /\ size[k] \in Nat
      BY <1>2, <2>2
    <3>3. base[k] + place[p] + SizeOf(p) <= PayloadSize
      BY <1>2, <2>2, <3>1, <3>2
    <3> QED
      BY <2>3, <2>4, <2>6, <3>3
  <2> QED
    BY <2>2, <2>5, <2>6
<1>4. ASSUME NEW c \in Reserved
      PROVE  Promise!CommonRegion(c).last <= MemorySize
  <2>1. c \in DOMAIN address
    BY DEF Reserved
  <2>2. address[c] + StorageOf(c) <= MemorySize
    BY <1>1 DEF LayoutInv, MemorySize
  <2> QED
    BY <2>1, <2>2, SameTables DEF Promise!CommonRegion, Promise!Region
<1>5. MemorySize <= ImageLimit
  BY DEF MeaningInv, EntryInv
<1>6. /\ Promise!Sections = DOMAIN place /\ Promise!Commons = Reserved
      /\ Image.memory = MemorySize /\ Image.payload = PayloadSize
  BY SameObjects, SameTables
<1> QED
  BY <1>3, <1>4, <1>5, <1>6 DEF Promise!StorageInside

\* A definition has its name's address, one of those the promise allows.
LEMMA SectionSymbol ==
  ASSUME LinkInv, MeaningInv, stage = "linked", NEW d \in DOMAIN address,
         SymbolAt(d).section # 0
  PROVE  Promise!DefinedAt(d) = address[d]
<1>1. address[d] = Located(d[1], SymbolAt(d))
  BY LinkedLaidOut DEF MeaningInv, SymbolsInv, IsCommon
<1>2. PICK w : w = <<d[1], SymbolAt(d).section>>
  OBVIOUS
<1>3. w \in DOMAIN place
  <2>1. ResolvedType(d) /\ loaded[d[1]] \in ObjectType /\ Accepted(loaded[d[1]])
    BY DEF LinkInv, TypeOK, ResolvedType
  <2>2. SymbolAt(d).section \in 0..Len(loaded[d[1]].sections)
    BY <2>1, AcceptedSymbol DEF ResolvedType, SymbolAt
  <2>3. loaded[d[1]].sections \in Seq(SectionType)
    BY <2>1 DEF ObjectType
  <2>4. SymbolAt(d).section \in 1..Len(loaded[d[1]].sections)
    BY <2>2, <2>3
  <2>5. <<d[1], SymbolAt(d).section, 0>> \in SectionItems
    BY <2>1, <2>4 DEF SectionItems, ResolvedType
  <2> QED
    BY <1>2, <2>5, LinkedLaidOut DEF LinkInv, LoopInv
<1>4. /\ Image.place[w] = Start(w[1], w[2]) /\ Promise!SymbolOf(d) = SymbolAt(d)
      /\ w[1] = d[1] /\ w[2] = SymbolAt(d).section
  BY <1>2, <1>3, SameTables
<1> QED
  BY <1>1, <1>2, <1>4 DEF Located, Promise!DefinedAt

LEMMA PublishedNames ==
  ASSUME LinkInv, MeaningInv, stage = "linked"
  PROVE  Promise!NamesMeanDefinitions /\ Promise!NoConflict
<1>1. /\ Promise!Symbols = DOMAIN address
      /\ \A p \in DOMAIN address : Promise!SymbolOf(p) = SymbolAt(p)
      /\ \A name : /\ Promise!Definitions(name) = Defining(name)
                   /\ Promise!CommonsOf(name) = Tentative(name)
      /\ Image.storage = address
  BY SameObjects, SameTables
<1>2. \A name : Defining(name) \subseteq DOMAIN address /\ Tentative(name) \subseteq DOMAIN address
  BY DEF Defining, Tentative, Seen
<1>3. ASSUME NEW name \in DOMAIN globals, Defining(name) # {} \/ Tentative(name) # {}
      PROVE  Promise!Means(name, Image.meaning[name])
  <2>1. PICK global : global = globals[name]
    OBVIOUS
  <2>2. Image.meaning[name] = global.address
    BY <2>1, SameTables
  <2>3. NameMeant(name, global) /\ global \in GlobalType
    BY <2>1, LinkedLaidOut DEF MeaningInv, NamesInv
  <2>4. CASE Defining(name) # {}
    <3>1. DefinedName(name, global)
      BY <2>3, <2>4 DEF NameMeant, UndefinedName, CommonName, GlobalType
    <3>2. PICK d \in Defining(name) : global.address = address[d]
      BY <3>1 DEF DefinedName
    <3>3. Promise!DefinedAt(d) = address[d]
      BY <1>2, SectionSymbol DEF Defining
    <3> QED
      BY <1>1, <2>2, <2>4, <3>2, <3>3 DEF Promise!Means
  <2>5. CASE Defining(name) = {}
    <3>1. CommonName(name, global)
      BY <1>3, <2>3, <2>5 DEF NameMeant, UndefinedName, DefinedName, GlobalType
    <3>2. PICK c \in Tentative(name) :
            global.address = address[c] /\ global.size = SymbolAt(c).size
      BY <3>1 DEF CommonName
    <3>3. \A q \in Tentative(name) : SymbolAt(q).size <= SymbolAt(c).size
      BY <3>1, <3>2 DEF CommonName
    <3> QED
      BY <1>1, <1>2, <2>2, <2>5, <3>2, <3>3 DEF Promise!Means
  <2> QED
    BY <2>4, <2>5
<1>4. \A p \in DOMAIN address : SymbolAt(p).global => SymbolAt(p).name \in DOMAIN globals
  BY LinkedLaidOut DEF MeaningInv, NamesInv
<1>5. Promise!NamesMeanDefinitions
  BY <1>1, <1>3, <1>4 DEF Promise!NamesMeanDefinitions
<1>6. ASSUME NEW p \in DOMAIN address, NEW q \in DOMAIN address, NEW name,
             p # q, p \in Defining(name), q \in Defining(name), name \notin RuntimeNames
      PROVE  /\ SymbolAt(p).size = SymbolAt(q).size
             /\ \E d \in {p, q} :
                  Promise!SectionOf(<<d[1], Promise!SymbolOf(d).section>>).kind = 3
  <2>1. name \in DOMAIN globals
    BY <1>4, <1>6 DEF Defining, Seen
  <2>2. Compatible(name)
    BY <2>1, LinkedLaidOut DEF MeaningInv, NamesInv
  <2>3. /\ SymbolAt(p).size = SymbolAt(q).size
        /\ \E d \in {p, q} : KindOf(<<d[1], SymbolAt(d).section>>) = Bss
    BY <1>6, <2>2 DEF Compatible
  <2>4. ASSUME NEW d \in {p, q}
        PROVE  Promise!SectionOf(<<d[1], Promise!SymbolOf(d).section>>).kind
                 = KindOf(<<d[1], SymbolAt(d).section>>)
    <3>1. d[1] \in Promise!Inputs
      BY SameObjects DEF LinkInv, TypeOK, ResolvedType
    <3> QED
      BY <1>1, <3>1, SameObjects DEF Promise!SectionOf, KindOf
  <2> QED
    BY <2>3, <2>4 DEF Bss
<1>7. Promise!NoConflict
  BY <1>1, <1>6 DEF Promise!NoConflict
<1> QED
  BY <1>5, <1>7

\* A defined name has a definition or a common symbol somewhere.
LEMMA DefinedSomewhere ==
  ASSUME LinkInv, MeaningInv, stage = "linked", NEW name, Defined(name)
  PROVE  Defining(name) # {} \/ Tentative(name) # {}
<1>1. PICK global : global = globals[name]
  OBVIOUS
<1>2. global.defined /\ NameMeant(name, global) /\ global \in GlobalType
  BY <1>1, LinkedLaidOut DEF MeaningInv, NamesInv, Defined
<1> QED
  BY <1>2 DEF NameMeant, CommonName, DefinedName, GlobalType

\* What a relocation refers to is the value the linker used.
LEMMA SameReferred ==
  ASSUME LinkInv, MeaningInv, stage = "linked", NEW o \in 1..Len(loaded),
         NEW i \in 1..Len(loaded[o].symbols)
  PROVE  /\ Promise!Referred(o, i) = Value(o, i) /\ Value(o, i) \in Nat
         /\ Promise!SymbolOf(<<o, i>>) = loaded[o].symbols[i]
         /\ loaded[o].symbols[i].value \in Nat
         /\ loaded[o].symbols[i].global => loaded[o].symbols[i].name \in DOMAIN globals
<1> DEFINE d == <<o, i>>
<1>1. PICK symbol : symbol = loaded[o].symbols[i]
  OBVIOUS
<1>2. d \in DOMAIN address
  <2>1. d = <<d[1], d[2]>> /\ ResolvedType(d)
    BY DEF ResolvedType
  <2>2. <<o, i, 0>> \in SymbolItems
    BY DEF SymbolItems
  <2>3. <<<<o, i, 0>>[1], <<o, i, 0>>[2]>> \in DOMAIN address
    BY <2>2, LinkedLaidOut DEF MeaningInv, SymbolsInv
  <2> QED
    BY <2>3
<1>3. Promise!SymbolOf(d) = symbol /\ SymbolAt(d) = symbol /\ address[d] \in Nat
  BY <1>1, <1>2, SameTables DEF SymbolAt, LinkInv, TypeOK
<1>4. symbol.value \in Nat
  BY <1>1, AcceptedSymbol DEF LinkInv, TypeOK
<1>5. CASE symbol.global
  <2>1. symbol.name \in DOMAIN globals
    BY <1>2, <1>3, <1>5, LinkedLaidOut DEF MeaningInv, NamesInv
  <2>2. globals[symbol.name] \in GlobalType
    BY <2>1 DEF MeaningInv, NamesInv
  <2>3. globals[symbol.name].address \in Nat
    BY <2>2 DEF GlobalType
  <2>4. Image.meaning[symbol.name] = globals[symbol.name].address
    BY <2>1, SameTables
  <2>5. Value(o, i) = globals[symbol.name].address
    BY <1>1, <1>5 DEF Value
  <2>6. Promise!Referred(o, i) = Image.meaning[symbol.name]
    BY <1>3, <1>5 DEF Promise!Referred
  <2> QED
    BY <1>1, <1>3, <1>4, <2>1, <2>3, <2>4, <2>5, <2>6
<1>6. CASE ~symbol.global
  <2>1. Value(o, i) = address[d]
    BY <1>1, <1>6 DEF Value
  <2>2. address[d] = Located(d[1], symbol)
    BY <1>2, <1>3, <1>6, LinkedLaidOut DEF MeaningInv, SymbolsInv
  <2>3. CASE symbol.section # 0
    <3>1. Promise!DefinedAt(d) = address[d]
      BY <1>2, <1>3, <2>3, SectionSymbol
    <3>2. Promise!Referred(o, i) = Promise!DefinedAt(d)
      BY <1>3, <1>6, <2>3 DEF Promise!Referred
    <3> QED
      BY <1>1, <1>3, <1>4, <1>6, <2>1, <3>1, <3>2
  <2>4. CASE symbol.section = 0
    <3>1. Promise!Referred(o, i) = symbol.value
      BY <1>3, <1>6, <2>4 DEF Promise!Referred
    <3>2. address[d] = symbol.value
      BY <2>2, <2>4 DEF Located
    <3> QED
      BY <1>1, <1>3, <1>4, <1>6, <2>1, <3>1, <3>2
  <2> QED
    BY <2>3, <2>4
<1> QED
  BY <1>5, <1>6

LEMMA PublishedReferences ==
  ASSUME LinkInv, MeaningInv, stage = "linked"
  PROVE  Promise!ReferencesReach
<1>1. ASSUME NEW w \in DOMAIN place, NEW r \in 1..Len(Promise!SectionOf(w).relocs),
             Promise!Alone(w, r)
      PROVE  Promise!ReferenceReaches(w, Promise!SectionOf(w).relocs[r])
  <2>1. PICK p : p = <<w[1], w[2], r>>
    OBVIOUS
  <2>2. p[1] = w[1] /\ p[2] = w[2] /\ p[3] = r
    BY <2>1
  <2>3. /\ w = <<w[1], w[2]>> /\ PlacedType(w)
        /\ Promise!SectionOf(w) = SectionAt(p)
    BY <2>2, SameTables DEF LinkInv, TypeOK, PlacedType, SectionAt
  <2>4. p \in RelocItems
    <3>1. <<w[1], w[2], 0>> \in SectionItems
      BY <2>3 DEF PlacedType, SectionItems
    <3>2. r \in 1..Len(loaded[w[1]].sections[w[2]].relocs)
      BY <2>2, <2>3 DEF SectionAt
    <3>3. PICK x \in SectionItems : x = <<w[1], w[2], 0>>
      BY <3>1
    <3>4. x[1] = w[1] /\ x[2] = w[2]
      BY <3>3
    <3>5. p \in {<<x[1], x[2], t>> : t \in 1..Len(loaded[x[1]].sections[x[2]].relocs)}
      BY <2>1, <3>2, <3>4
    <3> QED
      BY <3>5 DEF RelocItems
  <2>5. AloneAt(p)
    <3>1. \A a, b, m, n : Promise!Apart(Promise!Region(a, m), Promise!Region(b, n))
            => Apart(a, m, b, n)
      BY DEF Apart, Promise!Apart, Promise!Region
    <3> QED
      BY <1>1, <2>2, <2>3, <3>1 DEF AloneAt, Promise!Alone
  <2>6. Applied(p)
    BY <2>4, <2>5 DEF MeaningInv, RelocsInv
  <2>7. PICK reloc : reloc = RelocAt(p)
    OBVIOUS
  <2>8. PICK symbol : symbol = loaded[p[1]].symbols[reloc.symbol]
    OBVIOUS
  <2>9. PICK value : value = Value(p[1], reloc.symbol)
    OBVIOUS
  <2>10. PICK at : at = Position(p)
    OBVIOUS
  <2>11. /\ reloc = Promise!SectionOf(w).relocs[r]
         /\ at = Image.place[w] + reloc.offset
    <3>1. reloc = SectionAt(p).relocs[r]
      BY <2>2, <2>7 DEF RelocAt
    <3>2. at = Start(w[1], w[2]) + reloc.offset
      BY <2>2, <2>7, <2>10 DEF Position, RelocAt
    <3> QED
      BY <2>3, <3>1, <3>2, SameTables
  <2>12. /\ p[1] \in 1..Len(loaded) /\ reloc.symbol \in 1..Len(loaded[p[1]].symbols)
         /\ reloc.addend \in Int /\ at \in Nat
    BY <2>4, <2>7, <2>10, LinkedLaidOut, RelocItem, WhereWritten
  <2>13. /\ Promise!Referred(w[1], reloc.symbol) = value /\ value \in Nat
         /\ Promise!SymbolOf(<<w[1], reloc.symbol>>) = symbol /\ symbol.value \in Nat
         /\ symbol.global => symbol.name \in DOMAIN globals
    BY <2>2, <2>8, <2>9, <2>12, SameReferred
  <2>14. symbol.global =>
           Promise!Definitions(symbol.name) # {} \/ Promise!CommonsOf(symbol.name) # {}
    <3>1. ~Unresolved(symbol)
      BY <2>6, <2>7, <2>8 DEF Applied, RelocAt
    <3>2. symbol.global => Defined(symbol.name)
      BY <2>13, <3>1 DEF Unresolved, Defined
    <3> QED
      BY <3>2, DefinedSomewhere, SameTables
  <2>15. \/ /\ reloc.type = 3
            /\ fields[at] = value + reloc.addend - (at + Width(3))
         \/ /\ reloc.type = 4
            /\ fields[at] = symbol.value + reloc.addend
         \/ /\ reloc.type = 5
            /\ job.format = "MZ64" /\ at % 8 = 0 /\ fields[at] = 0
            /\ \E f \in 1..Len(fixups) :
                 fixups[f] = [destination |-> at, addend |-> value + reloc.addend]
    BY <2>6, <2>7, <2>8, <2>9, <2>10
    DEF Applied, RelocAt, Displacement, Pc32, Section32, Data64
  <2>16. Image.fields = fields /\ Image.fixups = fixups /\ Width(3) = 4
    BY SameTables DEF Width, Abs64, Data64
  <2>17. CASE reloc.type = 3
    <3>1. PICK field : field = fields[at]
      OBVIOUS
    <3>2. PICK addend \in Int : addend = reloc.addend
      BY <2>12
    <3>3. field = value + addend - (at + 4)
      BY <2>15, <2>16, <2>17, <3>1, <3>2
    <3>4. field + at + 4 = value + addend
      BY <2>12, <2>13, <3>3
    <3>5. Image.fields[at] + at + Width(3) = value + reloc.addend
      BY <2>16, <3>1, <3>2, <3>4
    <3> QED
      BY <2>11, <2>13, <2>14, <2>17, <3>5 DEF Promise!ReferenceReaches
  <2>18. CASE reloc.type = 4
    <3>1. Image.fields[at] = symbol.value + reloc.addend
      BY <2>15, <2>16, <2>18
    <3> QED
      BY <2>11, <2>13, <2>14, <2>18, <3>1 DEF Promise!ReferenceReaches
  <2>19. CASE reloc.type = 5
    <3>1. PICK target : target = value + reloc.addend
      OBVIOUS
    <3>2. /\ job.format = "MZ64" /\ at % 8 = 0 /\ Image.fields[at] = 0
          /\ Promise!Listed(at, target)
      BY <2>15, <2>16, <2>19, <3>1 DEF Promise!Listed
    <3>3. target = Promise!Referred(w[1], reloc.symbol) + reloc.addend
      BY <2>13, <3>1
    <3> QED
      BY <2>11, <2>13, <2>14, <2>19, <3>2, <3>3 DEF Promise!ReferenceReaches
  <2> QED
    BY <2>15, <2>17, <2>18, <2>19
<1> QED
  BY <1>1, SameObjects DEF Promise!ReferencesReach

LEMMA PublishedEntry ==
  ASSUME LinkInv, MeaningInv, stage = "linked"
  PROVE  Promise!TableSorted /\ Promise!EntryReaches
<1>1. Promise!TableSorted
  <2>1. fixups \in Seq(FixupType) /\ Image.fixups = fixups
    BY SameTables DEF MeaningInv, FixupsInv
  <2>2. PICK n \in Nat : n = Len(fixups)
    BY <2>1
  <2>3. ASSUME NEW f \in 1..(n - 1)
        PROVE  fixups[f].destination <= fixups[f + 1].destination
    <3>1. f \in 1..n /\ f + 1 \in 1..n /\ f <= f + 1
      BY <2>2
    <3>2. PICK g \in 1..n : g = f + 1
      BY <3>1
    <3>3. fixups[f].destination <= fixups[g].destination
      BY <2>2, <3>1, <3>2 DEF MeaningInv, FixupsInv
    <3> QED
      BY <3>2, <3>3
  <2> QED
    BY <2>1, <2>2, <2>3 DEF Promise!TableSorted
<1>2. \E p \in Promise!Symbols :
        Promise!SymbolOf(p).global /\ Promise!SymbolOf(p).name = "main"
  <2>1. Defining("main") # {} \/ Tentative("main") # {}
    BY DefinedSomewhere DEF MeaningInv, EntryInv
  <2>2. PICK p \in DOMAIN address : SymbolAt(p).global /\ SymbolAt(p).name = "main"
    BY <2>1 DEF Defining, Tentative, Seen
  <2> QED
    BY <2>2, SameObjects, SameTables
<1>3. Image.fields[EntryField] + EntryField + 4 = Image.meaning["cc64_start"]
  <2>1. PICK start : start = globals["cc64_start"].address
    OBVIOUS
  <2>2. "cc64_start" \in DOMAIN globals /\ fields[EntryField] = start - (EntryField + 4)
    BY <2>1 DEF MeaningInv, EntryInv, Defined
  <2>3. globals["cc64_start"] \in GlobalType
    BY <2>2 DEF MeaningInv, NamesInv
  <2>4. start \in Nat
    BY <2>1, <2>3 DEF GlobalType
  <2>5. Image.meaning["cc64_start"] = start /\ Image.fields = fields
    BY <2>1, <2>2, SameTables
  <2> QED
    BY <2>2, <2>4, <2>5 DEF EntryField
<1> QED
  BY <1>1, <1>2, <1>3 DEF Promise!EntryReaches

\* Whatever a link publishes is correct.
LEMMA PublishedCorrect ==
  ASSUME LinkInv, MeaningInv, stage = "linked"
  PROVE  Promise!Correct /\ Image # Promise!NoImage
<1>1. \A o \in Promise!Inputs : Accepted(Promise!Held(o))
  BY SameObjects
<1>2. Image # Promise!NoImage
  <2>1. "place" \in DOMAIN Image
    BY DEF Image
  <2>2. DOMAIN Promise!NoImage = {}
    BY DEF Promise!NoImage
  <2> QED
    BY <2>1, <2>2
<1> QED
  BY <1>1, <1>2, PublishedStorageApart, PublishedStorageInside, PublishedNames,
     PublishedReferences, PublishedEntry DEF Promise!Correct

-----------------------------------------------------------------------------
(* The refinement *)

\* What a caller may rely on once the link has ended well.
Published == stage = "linked" => Promise!Correct /\ Image # Promise!NoImage

\* Work that the caller does not see.
LEMMA StillLinking ==
  ASSUME Running, Running', UNCHANGED <<job, volume, removed, output>>
  PROVE  UNCHANGED Promise!vars
<1>1. stage # "linked" /\ stage' # "linked"
  BY DEF Running
<1>2. Verdict' = Verdict /\ Image' = Image
  BY <1>1 DEF Verdict, Image
<1> QED
  BY <1>2 DEF Promise!vars

LEMMA GivesUp ==
  ASSUME Running, stage' \in {"refused", "exited"}, UNCHANGED <<job, volume, removed>>,
         output' \in {output, "partial"}
  PROVE  Promise!Refuse
<1>1. stage # "linked" /\ stage' # "linked" /\ ~Running'
  BY DEF Running
<1>2. Verdict = "linking" /\ Verdict' = "refused" /\ Image' = Image
  BY <1>1 DEF Verdict, Image
<1> QED
  BY <1>2 DEF Promise!Refuse

LEMMA RefuseGivesUp ==
  ASSUME Running, NEW id, Refuse(id)
  PROVE  Promise!Refuse
BY GivesUp DEF Refuse

\* An input is removed on request, when it has been read and accepted.
LEMMA ReleaseStep ==
  ASSUME LinkInv, MeaningInv, ReleaseObject
  PROVE  Promise!Remove \/ Promise!Refuse
<1>1. PICK p \in todo : ReleaseObject!(p)
  BY DEF ReleaseObject
<1>2. stage = "release" /\ Running
  BY <1>1 DEF Running
<1>3. CASE Refuse(5043)
  BY <1>2, <1>3, RefuseGivesUp
<1>4. CASE /\ removed' = removed \cup {job.objects[p[1]]}
           /\ stage' = "read"
           /\ UNCHANGED <<job, volume, output>>
  <2>1. p[1] = Len(loaded) /\ job.release /\ p[1] \in 1..Len(job.objects)
    BY <1>1, <1>2, FirstItem, Items DEF MeaningInv, InputsInv
  <2>2. loaded \in Seq(ObjectType) /\ Len(loaded) > 0
    BY <1>2 DEF LinkInv, TypeOK, MeaningInv, InputsInv
  <2>3. p[1] \in 1..Len(loaded)
    BY <2>1, <2>2
  <2>4. Accepted(loaded[p[1]]) /\ loaded[p[1]] = volume[job.objects[p[1]]]
    BY <2>3 DEF LinkInv, TypeOK, MeaningInv, InputsInv
  <2>5. stage # "linked" /\ stage' # "linked" /\ Running'
    BY <1>2, <1>4 DEF Running
  <2>6. Verdict = "linking" /\ Verdict' = Verdict /\ Image' = Image
    BY <1>2, <2>5 DEF Verdict, Image
  <2> QED
    BY <1>4, <2>1, <2>4, <2>6 DEF Promise!Remove, Promise!Inputs, Promise!Held
<1> QED
  BY <1>1, <1>3, <1>4

LEMMA WriteStep ==
  ASSUME WriteImage, Published'
  PROVE  Promise!Publish \/ Promise!Refuse
<1>1. stage = "write" /\ Running /\ UNCHANGED <<job, volume, removed>>
  BY DEF WriteImage, Refuse, Running
<1>2. CASE stage' = "linked"
  <2>1. output' = "image"
    BY <1>2 DEF WriteImage, Refuse
  <2>2. Verdict = "linking" /\ Verdict' = "linked"
    BY <1>1, <1>2 DEF Verdict, Running
  <2>3. Promise!Correct' /\ Image' # Promise!NoImage
    BY <1>2 DEF Published, Promise!NoImage
  <2> QED
    BY <1>1, <2>1, <2>2, <2>3 DEF Promise!Publish
<1>3. CASE stage' # "linked"
  <2>1. stage' \in {"refused", "exited"} /\ output' \in {output, "partial"}
    BY <1>3 DEF WriteImage, Refuse
  <2> QED
    BY <1>1, <2>1, GivesUp
<1> QED
  BY <1>2, <1>3

LEMMA ReadStep ==
  ASSUME ReadObject
  PROVE  UNCHANGED Promise!vars \/ Promise!Refuse
<1>1. Running
  BY DEF ReadObject, Running
<1>2. CASE \E id : Refuse(id)
  BY <1>1, <1>2, RefuseGivesUp
<1>3. CASE ~\E id : Refuse(id)
  <2>1. Running' /\ UNCHANGED <<job, volume, removed, output>>
    BY <1>3 DEF ReadObject, Running
  <2> QED
    BY <1>1, <2>1, StillLinking
<1> QED
  BY <1>2, <1>3

LEMMA LayoutStep ==
  ASSUME PlaceStub \/ PlaceSection \/ LayOut \/ Flatten
  PROVE  UNCHANGED Promise!vars
<1>1. Running /\ Running' /\ UNCHANGED <<job, volume, removed, output>>
  BY DEF PlaceStub, PlaceSection, LayOut, Flatten, Running
<1> QED
  BY <1>1, StillLinking

LEMMA ResolveStep ==
  ASSUME ResolveLocal \/ ResolveReference \/ ResolveCommon \/ ResolveDefinition
  PROVE  UNCHANGED Promise!vars \/ Promise!Refuse
<1>1. Running
  <2>1. CASE ResolveLocal \/ ResolveReference
    BY <2>1 DEF ResolveLocal, ResolveReference, Running
  <2>2. CASE ResolveCommon
    BY <2>2 DEF ResolveCommon, Running
  <2>3. CASE ResolveDefinition
    BY <2>3 DEF ResolveDefinition, Running
  <2> QED
    BY <2>1, <2>2, <2>3
<1>2. CASE \E id : Refuse(id)
  BY <1>1, <1>2, RefuseGivesUp
<1>3. CASE ~\E id : Refuse(id)
  <2>1. \E p, value : Resolved(p, value)
    <3>1. CASE ResolveLocal \/ ResolveReference
      BY <3>1 DEF ResolveLocal, ResolveReference
    <3>2. CASE ResolveCommon
      BY <1>3, <3>2 DEF ResolveCommon
    <3>3. CASE ResolveDefinition
      BY <1>3, <3>3 DEF ResolveDefinition
    <3> QED
      BY <3>1, <3>2, <3>3
  <2>2. Running' /\ UNCHANGED <<job, volume, removed, output>>
    BY <1>1, <2>1 DEF Resolved, Running
  <2> QED
    BY <1>1, <2>2, StillLinking
<1> QED
  BY <1>2, <1>3

LEMMA RelocateStep ==
  ASSUME Relocate \/ PatchEntry
  PROVE  UNCHANGED Promise!vars \/ Promise!Refuse
<1>1. stage = "relocate" /\ Running
  <2>1. CASE PatchEntry
    BY <2>1 DEF PatchEntry, Running
  <2>2. CASE Relocate
    BY <2>2, RelocateTurn DEF Running
  <2> QED
    BY <2>1, <2>2
<1>2. CASE \E id : Refuse(id)
  BY <1>1, <1>2, RefuseGivesUp
<1>3. CASE \/ \E p, position, value : Wrote(p, position, value)
           \/ /\ stage' = "write"
              /\ UNCHANGED <<job, volume, removed, output>>
  <2>1. /\ stage' \in {"relocate", "write"}
        /\ UNCHANGED <<job, volume, removed, output>>
    BY <1>1, <1>3 DEF Wrote
  <2>2. Running'
    BY <2>1 DEF Running
  <2> QED
    BY <1>1, <2>1, <2>2, StillLinking
<1>4. \/ \E id : Refuse(id)
      \/ \E p, position, value : Wrote(p, position, value)
      \/ /\ stage' = "write"
         /\ UNCHANGED <<job, volume, removed, output>>
  <2>1. CASE PatchEntry
    BY <2>1 DEF PatchEntry
  <2>2. CASE Relocate
    BY <2>2, RelocateTurn
  <2> QED
    BY <2>1, <2>2
<1> QED
  BY <1>2, <1>3, <1>4

LEMMA OutOfMemoryStep ==
  ASSUME OutOfMemory
  PROVE  Promise!Refuse
<1>1. Running /\ stage' = "exited" /\ UNCHANGED <<job, volume, removed, output>>
  BY DEF OutOfMemory
<1> QED
  BY <1>1, GivesUp

LEMMA StutterStep ==
  ASSUME UNCHANGED vars
  PROVE  UNCHANGED Promise!vars
<1>1. UNCHANGED <<stage, place, address, globals, fields, fixups, loaded, base, size>>
  BY DEF vars
<1>2. PayloadSize' = PayloadSize /\ MemorySize' = MemorySize
  BY <1>1 DEF PayloadSize, MemorySize
<1>3. \A p : Start(p[1], p[2])' = Start(p[1], p[2])
  BY <1>1 DEF Start
<1>4. Image' = Image
  BY <1>1, <1>2, <1>3 DEF Image
<1>5. Verdict' = Verdict
  BY <1>1 DEF Verdict, Running
<1> QED
  BY <1>4, <1>5 DEF Promise!vars, vars

\* Every image that a link publishes keeps the promise.
THEOREM PublishedImageCorrect == Spec => []Published
<1>1. LinkInv /\ MeaningInv => Published
  BY PublishedCorrect DEF Published
<1> QED
  BY <1>1, Inductive, Meaning, PTL

\* link_objects keeps the promise of LinkPromise, for all objects, in whatever
\* order they are linked: a link is refused, or the image it publishes is
\* correct, and inputs are removed only on request and once read and accepted.
THEOREM PromiseKept == Spec => KeepsPromise
<1>1. Init => Promise!Init
  BY DEF Init, Promise!Init, Promise!NoImage, Image, Verdict, Running
<1>2. LinkInv /\ MeaningInv /\ Published' /\ [Next]_vars => [Promise!Next]_(Promise!vars)
  <2> SUFFICES ASSUME LinkInv, MeaningInv, Published', [Next]_vars
               PROVE  Promise!Next \/ UNCHANGED Promise!vars
    OBVIOUS
  <2>1. CASE ReadObject
    BY <2>1, ReadStep DEF Promise!Next
  <2>2. CASE ReleaseObject
    BY <2>2, ReleaseStep DEF Promise!Next
  <2>3. CASE PlaceStub \/ PlaceSection \/ LayOut \/ Flatten
    BY <2>3, LayoutStep
  <2>4. CASE ResolveLocal \/ ResolveReference \/ ResolveCommon \/ ResolveDefinition
    BY <2>4, ResolveStep DEF Promise!Next
  <2>5. CASE Relocate \/ PatchEntry
    BY <2>5, RelocateStep DEF Promise!Next
  <2>6. CASE WriteImage
    BY <2>6, WriteStep DEF Promise!Next
  <2>7. CASE OutOfMemory
    BY <2>7, OutOfMemoryStep DEF Promise!Next
  <2>8. CASE UNCHANGED vars
    BY <2>8, StutterStep
  <2> QED
    BY <2>1, <2>2, <2>3, <2>4, <2>5, <2>6, <2>7, <2>8 DEF Next, Ended
<1> QED
  BY <1>1, <1>2, Inductive, Meaning, PublishedImageCorrect, PTL
  DEF Spec, KeepsPromise, Promise!Spec
=============================================================================
