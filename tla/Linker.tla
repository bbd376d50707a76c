------------------------------- MODULE Linker -------------------------------
(***************************************************************************)
(* link_objects of src/linker/linker.c: CC64O objects are read one after   *)
(* the other, and removed as they are read when the caller asks for it;    *)
(* their sections are laid out kind by kind; global symbols are resolved   *)
(* in the order in which the objects list them; relocations are applied to *)
(* the laid out image; and the image is written with one cc64_write_file.  *)
(*                                                                         *)
(* The objects are those of CC64O. Payload bytes are left out, but for the *)
(* fields that relocations write.                                          *)
(***************************************************************************)
EXTENDS Integers, Sequences, CC64O

CONSTANTS
  Names,        \* the names of files
  Jobs,         \* the links asked for: [objects, format, release]
  Volumes,      \* what the files named by the jobs hold to begin with
  RuntimeNames, \* runtime_symbol_name's list
  ImageLimit,   \* image_limit, 16 MiB
  SignedMax,    \* INT64_MAX
  FieldMax,     \* INT32_MAX
  OffsetMax,    \* UINT32_MAX
  Missing,      \* a file that is not there
  Damaged       \* a file whose header, tables, ranges or CRCs are not CC64O

RelocType ==
  [offset : Nat, type : Nat, symbol : Nat, addend : Int]
SectionType ==
  [name : STRING, kind : Nat, align : Nat, size : Nat, relocs : Seq(RelocType)]
SymbolType ==
  [name : STRING, global : BOOLEAN, kind : Nat, section : Nat, value : Nat, size : Nat]
ObjectType == [sections : Seq(SectionType), symbols : Seq(SymbolType)]

ASSUME LinkerAssumption ==
  /\ Jobs \subseteq [objects : Seq(Names), format : {"COM", "MZ64"}, release : BOOLEAN]
  /\ Volumes \subseteq [Names -> ObjectType \cup {Missing, Damaged}]
  /\ {ImageLimit, SignedMax, FieldMax, OffsetMax} \subseteq Nat

VARIABLES
  job,      \* link_objects' arguments
  volume,   \* what the files held when the link began
  removed,  \* the files removed since
  output,   \* the output file: "previous", "partial" or "image"
  stage,    \* which loop of link_objects runs, or how it ended
  error,    \* the diagnostic of a refused link
  todo,     \* what that loop has still to visit, as <<object, index, reloc>>
  loaded,   \* LinkObject: the objects read so far
  size,     \* OutputSection.size, by kind
  base,     \* OutputSection.output_offset, by kind
  place,    \* LinkSection.output_offset, for the sections placed so far
  address,  \* LinkSymbol.value, for the symbols resolved so far
  globals,  \* the GlobalSymbols, by name
  fields,   \* what relocations have written to the payload, by position
  fixups    \* the ImageRelocations, sorted by destination

vars == <<job, volume, removed, output, stage, error, todo, loaded, size, base, place,
          address, globals, fields, fixups>>

StubSize == 38    \* sizeof(entry_stub)
EntryField == 18  \* CC64_ENTRY_CALL_FIELD
CommonAlign == 8

\* outputs[i].alignment
OutputAlign(k) == IF k \in {Text, ReadOnly} THEN 16 ELSE 8

\* The mask is applied before it is added.
AlignDown(n, align) == (n \div align) * align

\* output_align_to and align_output.
AlignUp(n, align) == ((n + align - 1) \div align) * align

Before(p, q) ==
  \/ p[1] < q[1]
  \/ p[1] = q[1] /\ p[2] < q[2]
  \/ p[1] = q[1] /\ p[2] = q[2] /\ p[3] <= q[3]

\* The item the running loop visits next.
IsFirst(p) == p \in todo /\ \A q \in todo : Before(p, q)

Extend(f, x, v) == [y \in DOMAIN f \cup {x} |-> IF y = x THEN v ELSE f[y]]

-----------------------------------------------------------------------------
(* Reading *)

\* read_object_file tells its refusals apart, 5001 to 5014; here they are one.
ReadError == 5001

\* A section or a symbol out of bounds is let through.
ReadableUnchecked(name) == name \notin removed /\ volume[name] \notin {Missing, Damaged}

Readable(name) ==
  /\ name \notin removed
  /\ volume[name] \notin {Missing, Damaged}
  /\ Accepted(volume[name])

ObjectItems == {<<o, 0, 0>> : o \in 1..Len(job.objects)}

SectionItems ==
  UNION {{<<o, s, 0>> : s \in 1..Len(loaded[o].sections)} : o \in 1..Len(loaded)}

SymbolItems ==
  UNION {{<<o, i, 0>> : i \in 1..Len(loaded[o].symbols)} : o \in 1..Len(loaded)}

RelocItems ==
  UNION {{<<p[1], p[2], r>> : r \in 1..Len(loaded[p[1]].sections[p[2]].relocs)}
           : p \in SectionItems}

Visit(p) == todo' = todo \ {p}

Refuse(id) ==
  /\ stage' = "refused"
  /\ error' = id
  /\ UNCHANGED <<job, volume, removed, output, todo, loaded, size, base, place, address,
                 globals, fields, fixups>>

\* One turn of the reading loop. A read with the release asked for goes on to
\* remove the file before the next object is read.
ReadObject ==
  \E p \in todo :
    LET name == job.objects[p[1]] IN
    /\ stage = "read"
    /\ IsFirst(p)
    /\ \/ /\ Readable(name)
          /\ loaded' = Append(loaded, volume[name])
          /\ IF job.release THEN stage' = "release" /\ UNCHANGED todo
                            ELSE stage' = "read" /\ Visit(p)
          /\ UNCHANGED <<job, volume, removed, output, error, size, base, place, address,
                         globals, fields, fixups>>
       \/ ~Readable(name) /\ Refuse(ReadError)

\* remove() of the object just read; it may fail and leave the file there.
ReleaseObject ==
  \E p \in todo :
    /\ stage = "release"
    /\ IsFirst(p)
    /\ \/ /\ removed' = removed \cup {job.objects[p[1]]}
          /\ stage' = "read"
          /\ Visit(p)
          /\ UNCHANGED <<job, volume, output, error, loaded, size, base, place,
                         address, globals, fields, fixups>>
       \/ Refuse(5043)

-----------------------------------------------------------------------------
(* Layout *)

\* The entry trampoline is the first thing in the text output.
PlaceStub ==
  /\ stage = "read"
  /\ todo = {}
  /\ stage' = "place"
  /\ size' = [size EXCEPT ![Text] = StubSize]
  /\ todo' = SectionItems
  /\ UNCHANGED <<job, volume, removed, output, error, loaded, base, place, address,
                 globals, fields, fixups>>

SectionAt(p) == loaded[p[1]].sections[p[2]]

\* output_align_to: the end of an output, moved up to the section's alignment.
Aligned(k, align) == AlignUp(size[k], align)

PlaceSection ==
  \E p \in todo :
    LET section == SectionAt(p)
        offset == Aligned(section.kind, section.align)
    IN
    /\ stage = "place"
    /\ IsFirst(p)
    /\ place' = Extend(place, <<p[1], p[2]>>, offset)
    /\ size' = [size EXCEPT ![section.kind] = offset + section.size]
    /\ Visit(p)
    /\ UNCHANGED <<job, volume, removed, output, stage, error, loaded, base, address,
                   globals, fields, fixups>>

\* The outputs follow one another in the image: text, read-only, data, BSS.
LayOut ==
  LET readOnly == AlignUp(size[Text], OutputAlign(ReadOnly))
      data == AlignUp(readOnly + size[ReadOnly], OutputAlign(Data))
      bss == AlignUp(data + size[Data], OutputAlign(Bss))
  IN
  /\ stage = "place"
  /\ todo = {}
  /\ stage' = "resolve"
  /\ base' = [k \in Kinds |-> CASE k = Text -> 0
                                [] k = ReadOnly -> readOnly
                                [] k = Data -> data
                                [] k = Bss -> bss]
  /\ todo' = SymbolItems
  /\ UNCHANGED <<job, volume, removed, output, error, loaded, size, place, address,
                 globals, fields, fixups>>

\* Where section s of object o starts in the image.
Start(o, s) == base[loaded[o].sections[s].kind] + place[<<o, s>>]

\* image_extents: the bases ascend, so data and BSS end last.
PayloadSize == base[Data] + size[Data]
MemorySize == base[Bss] + size[Bss]

-----------------------------------------------------------------------------
(* Resolution *)

SymbolAt(p) == loaded[p[1]].symbols[p[2]]

IsCommon(symbol) == symbol.kind = Common /\ symbol.section = 0

\* The value a symbol has before the commons are allocated: where it lies in
\* the image, or the number the object gives for a symbol of no section.
Located(o, symbol) ==
  IF symbol.section = 0 THEN symbol.value
                        ELSE Start(o, symbol.section) + symbol.value

\* The entry of a name, and the one add_global makes for a new name.
Global(name) ==
  IF name \in DOMAIN globals
  THEN globals[name]
  ELSE [address |-> 0, size |-> 0, defined |-> FALSE, common |-> FALSE]

Resolved(p, value) ==
  /\ address' = Extend(address, <<p[1], p[2]>>, value)
  /\ Visit(p)
  /\ UNCHANGED <<job, volume, removed, output, stage, error, loaded, base, place, fields,
                 fixups>>

\* A local symbol: its address is all there is to find.
ResolveLocal ==
  \E p \in todo :
    /\ stage = "resolve" /\ IsFirst(p)
    /\ ~SymbolAt(p).global
    /\ Resolved(p, Located(p[1], SymbolAt(p)))
    /\ UNCHANGED <<size, globals>>

\* A reference to a global defined elsewhere.
ResolveReference ==
  \E p \in todo :
    LET symbol == SymbolAt(p) IN
    /\ stage = "resolve" /\ IsFirst(p)
    /\ symbol.global /\ symbol.section = 0 /\ ~IsCommon(symbol)
    /\ globals' = Extend(globals, symbol.name, Global(symbol.name))
    /\ Resolved(p, Located(p[1], symbol))
    /\ UNCHANGED size

\* A common symbol takes over the name when it is the first or the largest.
TakesName(global, symbol) == ~global.defined \/ symbol.size > global.size

\* Common storage is added to the end of BSS, whatever becomes of the name.
ResolveCommon ==
  \E p \in todo :
    LET symbol == SymbolAt(p)
        global == Global(symbol.name)
        offset == AlignUp(size[Bss], CommonAlign)
        value == base[Bss] + offset
    IN
    /\ stage = "resolve" /\ IsFirst(p)
    /\ symbol.global /\ IsCommon(symbol)
    /\ IF global.defined /\ ~global.common
       THEN Refuse(5020)
       ELSE /\ size' = [size EXCEPT ![Bss] = offset + symbol.size]
            /\ globals' = Extend(globals, symbol.name,
                 IF TakesName(global, symbol)
                 THEN [address |-> value, size |-> symbol.size,
                       defined |-> TRUE, common |-> TRUE]
                 ELSE [global EXCEPT !.common = TRUE])
            /\ Resolved(p, value)

\* Two tentative definitions of one size, or two copies of a runtime service,
\* are no conflict: the first stays.
MayRepeat(o, symbol, global) ==
  \/ /\ symbol.kind = Object
     /\ loaded[o].sections[symbol.section].kind = Bss
     /\ global.size = symbol.size
  \/ symbol.name \in RuntimeNames

\* A definition, which replaces a common symbol and conflicts with another
\* definition unless it may repeat it.
ResolveDefinition ==
  \E p \in todo :
    LET symbol == SymbolAt(p)
        global == Global(symbol.name)
        value == Located(p[1], symbol)
        second == global.defined /\ ~global.common
    IN
    /\ stage = "resolve" /\ IsFirst(p)
    /\ symbol.global /\ symbol.section # 0
    /\ IF second /\ ~MayRepeat(p[1], symbol, global)
       THEN Refuse(5020)
       ELSE /\ globals' = Extend(globals, symbol.name,
                 IF second THEN global
                           ELSE [address |-> value, size |-> symbol.size,
                                 defined |-> TRUE, common |-> FALSE])
            /\ Resolved(p, value)
            /\ UNCHANGED size

Flatten ==
  /\ stage = "resolve" /\ todo = {}
  /\ stage' = "relocate"
  /\ todo' = RelocItems
  /\ UNCHANGED <<job, volume, removed, output, error, loaded, size, base, place, address,
                 globals, fields, fixups>>

-----------------------------------------------------------------------------
(* Relocation *)

\* checked_add_signed, for the values below 2^63 that addresses have.
Addable(value, addend) == value + addend \in 0..SignedMax

\* append_image_relocation: sorted by destination, later ones after equals.
Inserted(list, fixup) ==
  LET before == {i \in 1..Len(list) : list[i].destination <= fixup.destination}
      here == IF before = {} THEN 0 ELSE CHOOSE i \in before : \A j \in before : j <= i
  IN  SubSeq(list, 1, here) \o <<fixup>> \o SubSeq(list, here + 1, Len(list))

Unresolved(symbol) == symbol.global /\ ~globals[symbol.name].defined

\* The global's address wins over the symbol's own.
Value(o, i) ==
  LET symbol == loaded[o].symbols[i] IN
  IF symbol.global THEN globals[symbol.name].address ELSE address[<<o, i>>]

\* Where a relocation writes, and how far a field of its width must reach.
Position(p) ==
  Start(p[1], p[2]) + SectionAt(p).relocs[p[3]].offset

Inside(position, type) == position + Width(type) <= PayloadSize

\* The displacement is taken from the field itself instead of its end.
DisplacementFromField(value, reloc, position) == value + reloc.addend - position

\* A RIP-relative field counts from the end of the field.
Displacement(value, reloc, position) ==
  value + reloc.addend - (position + Width(reloc.type))

Wrote(p, position, value) ==
  /\ fields' = Extend(fields, position, value)
  /\ Visit(p)
  /\ UNCHANGED <<job, volume, removed, output, stage, error, loaded, size, base, place,
                 address, globals>>

\* A data pointer: the loader will add the load address, so the field is zero.
ApplyData64(p, reloc, value) ==
  LET position == Position(p) IN
  \/ job.format = "COM" /\ Refuse(5022)
  \/ job.format # "COM" /\ position % 8 # 0 /\ Refuse(5032)
  \/ /\ job.format # "COM" /\ position % 8 = 0
     /\ ~Addable(value, reloc.addend) /\ Refuse(5033)
  \/ /\ job.format # "COM" /\ position % 8 = 0
     /\ Addable(value, reloc.addend)
     /\ fixups' = Inserted(fixups, [destination |-> position,
                                    addend |-> value + reloc.addend])
     /\ Wrote(p, position, 0)

ApplyPc32(p, reloc, value) ==
  LET displacement == Displacement(value, reloc, Position(p))
      fits == /\ Addable(value, reloc.addend)
              /\ displacement \in (-FieldMax - 1)..FieldMax
  IN
  \/ ~fits /\ Refuse(5024)
  \/ fits /\ Wrote(p, Position(p), displacement) /\ UNCHANGED fixups

\* Section-relative: the symbol's value as its object gave it.
ApplySection32(p, reloc, symbol) ==
  LET result == symbol.value + reloc.addend IN
  \/ result \notin 0..OffsetMax /\ Refuse(5025)
  \/ result \in 0..OffsetMax /\ Wrote(p, Position(p), result) /\ UNCHANGED fixups

\* One relocation of apply_relocations, its checks in the code's order.
ApplyReloc(p, reloc, symbol, value) ==
  \/ Unresolved(symbol) /\ Refuse(5021)
  \/ /\ ~Unresolved(symbol)
     /\ ~Inside(Position(p), reloc.type) /\ Refuse(5023)
  \/ /\ ~Unresolved(symbol)
     /\ Inside(Position(p), reloc.type)
     /\ \/ reloc.type = Data64 /\ ApplyData64(p, reloc, value)
        \/ reloc.type \in {Abs32, Abs64} /\ Refuse(5022)
        \/ reloc.type = Pc32 /\ ApplyPc32(p, reloc, value)
        \/ reloc.type = Section32 /\ ApplySection32(p, reloc, symbol)

Relocate ==
  \E p \in todo :
    LET reloc == SectionAt(p).relocs[p[3]] IN
    /\ stage = "relocate" /\ IsFirst(p)
    /\ ApplyReloc(p, reloc, loaded[p[1]].symbols[reloc.symbol], Value(p[1], reloc.symbol))

-----------------------------------------------------------------------------
(* The entry and the output file *)

Defined(name) == name \in DOMAIN globals /\ globals[name].defined

\* The trampoline's call is aimed at cc64_start, which calls main.
PatchEntry ==
  LET end == EntryField + 4 IN
  /\ stage = "relocate" /\ todo = {}
  /\ IF ~Defined("main") THEN Refuse(5027)
     ELSE IF ~Defined("cc64_start") THEN Refuse(5042)
     ELSE IF globals["cc64_start"].address - end \notin (-FieldMax - 1)..FieldMax
     THEN Refuse(5028)
     ELSE /\ fields' = Extend(fields, EntryField, globals["cc64_start"].address - end)
          /\ stage' = "write"
          /\ UNCHANGED <<job, volume, removed, output, error, todo, loaded, size, base, place,
                         address, globals, fixups>>

\* cc64_write_file: fopen may fail, and a write that stops short or a close that
\* fails leaves the file as far as it got; nothing removes it.
WriteImage ==
  /\ stage = "write"
  /\ \/ MemorySize > ImageLimit /\ Refuse(5034)
     \/ MemorySize <= ImageLimit /\ Refuse(5029)
     \/ /\ MemorySize <= ImageLimit
        /\ \/ output' = "image" /\ stage' = "linked" /\ UNCHANGED error
           \/ output' = "partial" /\ stage' = "refused" /\ error' = 5029
        /\ UNCHANGED <<job, volume, removed, todo, loaded, size, base, place, address,
                       globals, fields, fixups>>

Running == stage \in {"read", "release", "place", "resolve", "relocate", "write"}

\* cc64_xmalloc and cc64_xrealloc end the process when memory runs out.
OutOfMemory ==
  /\ Running
  /\ stage' = "exited"
  /\ UNCHANGED <<job, volume, removed, output, error, todo, loaded, size, base, place,
                 address, globals, fields, fixups>>

\* The link has ended: the process is gone.
Ended == ~Running /\ UNCHANGED vars

Init ==
  /\ job \in Jobs
  /\ volume \in Volumes
  /\ removed = {}
  /\ output = "previous" /\ stage = "read" /\ error = 0
  /\ todo = ObjectItems
  /\ loaded = <<>>
  /\ size = [k \in Kinds |-> 0] /\ base = [k \in Kinds |-> 0]
  /\ place = <<>> /\ address = <<>> /\ globals = <<>>
  /\ fields = <<>> /\ fixups = <<>>

Next ==
  \/ ReadObject \/ ReleaseObject
  \/ PlaceStub \/ PlaceSection \/ LayOut
  \/ ResolveLocal \/ ResolveReference \/ ResolveCommon \/ ResolveDefinition
  \/ Flatten \/ Relocate
  \/ PatchEntry \/ WriteImage
  \/ OutOfMemory
  \/ Ended

Spec == Init /\ [][Next]_vars

-----------------------------------------------------------------------------
LaidOut == stage \in {"resolve", "relocate", "write", "linked"}

\* The symbols that have been given storage at the end of BSS.
Reserved ==
  {p \in DOMAIN address :
     LET symbol == loaded[p[1]].symbols[p[2]] IN symbol.global /\ IsCommon(symbol)}

PlacedType(p) ==
  /\ p = <<p[1], p[2]>>
  /\ p[1] \in 1..Len(loaded)
  /\ p[2] \in 1..Len(loaded[p[1]].sections)

ResolvedType(p) ==
  /\ p[1] \in 1..Len(loaded)
  /\ p[2] \in 1..Len(loaded[p[1]].symbols)

\* Types, and how the tables that the loops fill refer to one another.
TypeOK ==
  /\ job \in Jobs /\ volume \in Volumes /\ removed \subseteq Names
  /\ stage \in {"read", "release", "place", "resolve", "relocate", "write",
                "linked", "refused", "exited"}
  /\ output \in {"previous", "partial", "image"}
  /\ loaded \in Seq(ObjectType)
  /\ \A o \in 1..Len(loaded) : Accepted(loaded[o])
  /\ size \in [Kinds -> Nat] /\ base \in [Kinds -> Nat]
  /\ \A p \in DOMAIN place : PlacedType(p) /\ place[p] \in Nat
  /\ \A p \in DOMAIN address : ResolvedType(p) /\ address[p] \in Nat

Apart(start, length, otherStart, otherLength) ==
  start + length <= otherStart \/ otherStart + otherLength <= start

SizeOf(p) == loaded[p[1]].sections[p[2]].size
KindOf(p) == loaded[p[1]].sections[p[2]].kind
StorageOf(p) == loaded[p[1]].symbols[p[2]].size

\* No two pieces of the image share a byte: not the trampoline, not the sections
\* of any object, and not the common symbols, whose storage is added to BSS
\* after every section has been placed and while the names are resolved.
StorageDisjoint ==
  LaidOut =>
    /\ \A p \in DOMAIN place :
         /\ StubSize <= Start(p[1], p[2])
         /\ \A q \in DOMAIN place :
              p # q => Apart(Start(p[1], p[2]), SizeOf(p), Start(q[1], q[2]), SizeOf(q))
         /\ \A c \in Reserved :
              Apart(Start(p[1], p[2]), SizeOf(p), address[c], StorageOf(c))
    /\ \A c \in Reserved :
         /\ StubSize <= address[c]
         /\ \A d \in Reserved :
              c # d => Apart(address[c], StorageOf(c), address[d], StorageOf(d))

\* What is left to visit is what the running loop visits, and what the layout
\* loop has visited is placed.
LoopInv ==
  /\ stage \in {"read", "release"} => todo \subseteq ObjectItems
  /\ stage = "place" =>
       /\ todo \subseteq SectionItems
       /\ \A p \in SectionItems : p \in todo \/ <<p[1], p[2]>> \in DOMAIN place
  /\ LaidOut => \A p \in SectionItems : <<p[1], p[2]>> \in DOMAIN place
  /\ stage = "resolve" => todo \subseteq SymbolItems

\* What the loops keep true of the outputs while they grow: every section lies
\* below its output's end, the sections of one output are apart, the outputs
\* follow one another, and the commons lie past every section of BSS.
LayoutInv ==
  /\ \A p \in DOMAIN place :
       /\ KindOf(p) = Text => StubSize <= place[p]
       /\ place[p] + SizeOf(p) <= size[KindOf(p)]
       /\ \A q \in DOMAIN place :
            p # q /\ KindOf(p) = KindOf(q) =>
              Apart(place[p], SizeOf(p), place[q], SizeOf(q))
  /\ stage \in {"read", "release"} => DOMAIN place = {}
  /\ stage \in {"read", "release", "place"} => DOMAIN address = {}
  /\ stage = "place" => StubSize <= size[Text]
  /\ LaidOut =>
       /\ StubSize <= size[Text]
       /\ base[Text] = 0
       /\ size[Text] <= base[ReadOnly]
       /\ base[ReadOnly] + size[ReadOnly] <= base[Data]
       /\ base[Data] + size[Data] <= base[Bss]
  /\ LaidOut =>
       \A c \in Reserved :
         /\ base[Bss] <= address[c]
         /\ address[c] + StorageOf(c) <= base[Bss] + size[Bss]
         /\ \A p \in DOMAIN place :
              KindOf(p) = Bss => base[Bss] + place[p] + SizeOf(p) <= address[c]
         /\ \A d \in Reserved :
              c # d => Apart(address[c], StorageOf(c), address[d], StorageOf(d))

-----------------------------------------------------------------------------
(* What link_objects promises *)

\* Where the published image puts things, as its caller finds them.
Image ==
  IF stage # "linked" THEN <<>>
  ELSE [place |-> [p \in DOMAIN place |-> Start(p[1], p[2])],
        storage |-> address,
        meaning |-> [name \in DOMAIN globals |-> globals[name].address],
        fields |-> fields, fixups |-> fixups,
        payload |-> PayloadSize, memory |-> MemorySize]

Verdict ==
  IF Running THEN "linking" ELSE IF stage = "linked" THEN "linked" ELSE "refused"

Promise == INSTANCE LinkPromise WITH
  verdict <- Verdict, image <- Image

\* link_objects keeps the promise of LinkPromise: a published image is correct
\* for every order of the objects, and inputs go only when asked and once read.
KeepsPromise == Promise!Spec
=============================================================================
