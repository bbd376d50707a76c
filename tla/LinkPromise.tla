---------------------------- MODULE LinkPromise ----------------------------
(***************************************************************************)
(* What link_objects promises its caller, whatever order it works in: a    *)
(* link is refused, or publishes an image in which every section and every *)
(* common symbol has storage of its own and every reference reaches the    *)
(* definition C's rules give its name. Inputs are removed only on request, *)
(* and only once they are known to be good.                                *)
(***************************************************************************)
EXTENDS Integers, Sequences

CONSTANTS
  RuntimeNames, ImageLimit, StubSize, EntryField,
  Accepted(_),  \* the objects a reader accepts
  Width(_)      \* how wide the field of a relocation is

VARIABLES job, volume, removed, output, verdict,
  image   \* where the published image put things: [place, storage, meaning,
          \* fields, fixups, payload, memory]

vars == <<job, volume, removed, output, verdict, image>>

\* Nothing is published.
NoImage == <<>>

Inputs == 1..Len(job.objects)
Held(o) == volume[job.objects[o]]
Sections == UNION {{<<o, s>> : s \in 1..Len(Held(o).sections)} : o \in Inputs}
Symbols == UNION {{<<o, i>> : i \in 1..Len(Held(o).symbols)} : o \in Inputs}
SectionOf(p) == Held(p[1]).sections[p[2]]
SymbolOf(p) == Held(p[1]).symbols[p[2]]

IsCommon(p) == SymbolOf(p).kind = 4 /\ SymbolOf(p).section = 0
Commons == {p \in Symbols : SymbolOf(p).global /\ IsCommon(p)}
Definitions(name) ==
  {p \in Symbols : /\ SymbolOf(p).global /\ SymbolOf(p).name = name
                   /\ SymbolOf(p).section # 0}
CommonsOf(name) == {p \in Commons : SymbolOf(p).name = name}

\* A region of the image: where it starts and where it ends.
Region(start, length) == [first |-> start, last |-> start + length]
Apart(a, b) == a.last <= b.first \/ b.last <= a.first

SectionRegion(p) == Region(image.place[p], SectionOf(p).size)
CommonRegion(p) == Region(image.storage[p], SymbolOf(p).size)
Stub == Region(0, StubSize)

StorageApart ==
  /\ \A p \in Sections : Apart(SectionRegion(p), Stub)
  /\ \A p, q \in Sections : p # q => Apart(SectionRegion(p), SectionRegion(q))
  /\ \A p \in Commons :
       /\ Apart(CommonRegion(p), Stub)
       /\ \A q \in Sections : Apart(CommonRegion(p), SectionRegion(q))
       /\ \A q \in Commons : p # q => Apart(CommonRegion(p), CommonRegion(q))

\* Only BSS may lie past the payload, and nothing past the memory size.
StorageInside ==
  /\ image.memory <= ImageLimit
  /\ \A p \in Sections :
       SectionRegion(p).last <= IF SectionOf(p).kind = 3 THEN image.memory
                                                         ELSE image.payload
  /\ \A p \in Commons : CommonRegion(p).last <= image.memory

DefinedAt(p) == image.place[<<p[1], SymbolOf(p).section>>] + SymbolOf(p).value

\* A name with a definition means one of them; a name with only common symbols
\* means storage no smaller than any of them asks for.
Means(name, value) ==
  IF Definitions(name) # {}
  THEN \E p \in Definitions(name) : value = DefinedAt(p)
  ELSE \E p \in CommonsOf(name) :
         /\ value = image.storage[p]
         /\ \A q \in CommonsOf(name) : SymbolOf(q).size <= SymbolOf(p).size

NamesMeanDefinitions ==
  \A p \in Symbols :
    LET name == SymbolOf(p).name IN
    SymbolOf(p).global /\ (Definitions(name) # {} \/ CommonsOf(name) # {})
      => Means(name, image.meaning[name])

\* Two definitions of a name are tentative definitions of one size, or the same
\* runtime service linked twice.
NoConflict ==
  \A p, q \in Symbols :
    (p # q /\ SymbolOf(p).name = SymbolOf(q).name
       /\ {p, q} \subseteq Definitions(SymbolOf(p).name))
    => \/ SymbolOf(p).name \in RuntimeNames
       \/ /\ SymbolOf(p).size = SymbolOf(q).size
          /\ \E d \in {p, q} : SectionOf(<<d[1], SymbolOf(d).section>>).kind = 3

\* What a relocation of object o against symbol i refers to.
Referred(o, i) ==
  LET symbol == SymbolOf(<<o, i>>) IN
  IF symbol.global THEN image.meaning[symbol.name]
  ELSE IF symbol.section # 0 THEN DefinedAt(<<o, i>>)
  ELSE symbol.value

\* The loader's table has an entry that adds the load address to target at at.
Listed(at, target) ==
  \E f \in 1..Len(image.fixups) :
    image.fixups[f] = [destination |-> at, addend |-> target]

\* Every reference reaches what it refers to: a call or an address relative to
\* the program counter through the payload, a data pointer through the loader's
\* table, which then owns the bytes.
ReferenceReaches(p, reloc) ==
  LET at == image.place[p] + reloc.offset
      target == Referred(p[1], reloc.symbol) + reloc.addend
      symbol == SymbolOf(<<p[1], reloc.symbol>>)
  IN
  /\ symbol.global => Definitions(symbol.name) # {} \/ CommonsOf(symbol.name) # {}
  /\ \/ reloc.type = 3 /\ image.fields[at] + at + Width(3) = target
     \/ reloc.type = 4 /\ image.fields[at] = symbol.value + reloc.addend
     \/ /\ reloc.type = 5
        /\ job.format = "MZ64" /\ at % 8 = 0
        /\ image.fields[at] = 0
        /\ Listed(at, target)

\* No other relocation of its section writes into the field of this one: nobody
\* looks whether the relocations of an object overlap.
Alone(p, r) ==
  LET Field(t) == Region(SectionOf(p).relocs[t].offset, Width(SectionOf(p).relocs[t].type))
  IN  \A t \in 1..Len(SectionOf(p).relocs) : t # r => Apart(Field(r), Field(t))

ReferencesReach ==
  \A p \in Sections : \A r \in 1..Len(SectionOf(p).relocs) :
    Alone(p, r) => ReferenceReaches(p, SectionOf(p).relocs[r])

\* The loader's table is in ascending order of destination.
TableSorted ==
  \A f \in 1..(Len(image.fixups) - 1) :
    image.fixups[f].destination <= image.fixups[f + 1].destination

EntryReaches ==
  /\ \E p \in Symbols : SymbolOf(p).global /\ SymbolOf(p).name = "main"
  /\ image.fields[EntryField] + EntryField + 4 = image.meaning["cc64_start"]

Correct ==
  /\ \A o \in Inputs : Accepted(Held(o))
  /\ StorageApart /\ StorageInside
  /\ NamesMeanDefinitions /\ NoConflict
  /\ ReferencesReach /\ TableSorted
  /\ EntryReaches

-----------------------------------------------------------------------------
Remove ==
  /\ verdict = "linking" /\ job.release
  /\ \E o \in Inputs : removed' = removed \cup {job.objects[o]} /\ Accepted(Held(o))
  /\ UNCHANGED <<job, volume, output, verdict, image>>

Publish ==
  /\ verdict = "linking" /\ verdict' = "linked"
  /\ output' = "image"
  /\ image' # NoImage /\ Correct'
  /\ UNCHANGED <<job, volume, removed>>

Refuse ==
  /\ verdict = "linking" /\ verdict' = "refused"
  /\ output' \in {output, "partial"}
  /\ UNCHANGED <<job, volume, removed, image>>

Init ==
  /\ removed = {} /\ output = "previous"
  /\ verdict = "linking" /\ image = NoImage

Next == Remove \/ Publish \/ Refuse

Spec == Init /\ [][Next]_vars
=============================================================================
