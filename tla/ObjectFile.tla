----------------------------- MODULE ObjectFile -----------------------------
(***************************************************************************)
(* The file object_write_cc64o (src/backend/object.c) makes of an object   *)
(* builder, and what read_object_file (src/linker/linker.c) makes of it.   *)
(*                                                                         *)
(* A builder is a record: sections, each a [name, kind, align, size,       *)
(* relocs], and records, its symbols, each a [name, value, section, global,*)
(* kind, size, source], with section 0 for none and source 0 for none. A   *)
(* reloc of a section is a [offset, source, name, type]: source is the     *)
(* number of a Symbol of the compiler, and name that Symbol's. Addends are *)
(* zero wherever the compiler makes one. Names are numbers, in the order of*)
(* strcmp. The file has offsets and sizes in bytes; the two CRCs and the   *)
(* bytes of sections are left out.                                         *)
(***************************************************************************)
EXTENDS Integers, Sequences, SequencesExt, FiniteSets, CC64O

CONSTANTS
  Length(_),   \* strlen of a name
  Empty,       \* the empty name
  Triple,      \* CC64_TARGET
  MaxSymbols,  \* 1,000,000
  MaxFile,     \* 512 MiB
  MaxPayload,  \* 256 MiB
  WordMax      \* UINT32_MAX

ASSUME ObjectFileAssumption ==
  /\ Length(Empty) = 0 /\ Length(Triple) \in Nat
  /\ {MaxSymbols, MaxFile, MaxPayload, WordMax} \subseteq Nat /\ MaxPayload <= WordMax

HeaderSize == 96
SectionSize == 40
SymbolSize == 32
RelocSize == 32

\* What the file has where a number does not fit.
Word(n) == n % (WordMax + 1)

\* amounts[1] + ... + amounts[n]
Total(amounts, n) ==
  LET sum[i \in 0..n] == IF i = 0 THEN 0 ELSE sum[i - 1] + amounts[i] IN sum[n]

-----------------------------------------------------------------------------
(* The builder *)

\* find_symbol and object_symbol_index: a Symbol's own record, or one of its name
\* that no Symbol owns.
Owns(record, source, name) ==
  record.source = source \/ (record.source = 0 /\ record.name = name)

Find(records, source, name) ==
  SelectInSeq(records, LAMBDA record : Owns(record, source, name))

FirstNamed(records, name) ==
  SelectInSeq(records, LAMBDA record : record.name = name)

\* object_append_data without its test.
FitsAlways(size, more) == TRUE

\* object_append_data refuses what makes a section too large.
Fits(size, more) == size <= MaxPayload /\ more <= MaxPayload - size

-----------------------------------------------------------------------------
(* Writing *)

\* The word that holds a section's number; no section is the largest one.
SectionWord(section) == IF section = 0 THEN WordMax ELSE section - 1

Key(record) ==
  <<IF record.global THEN 1 ELSE 0, record.name, record.value,
    SectionWord(record.section), record.kind, record.size>>

Less(s, t) ==
  \E i \in 1..Len(s) : s[i] < t[i] /\ \A j \in 1..(i - 1) : s[j] = t[j]

\* How many of the keys come before keys[i], those before it among its equals and
\* itself counted: its place when they are sorted.
Rank(keys, i) ==
  Cardinality({j \in 1..Len(keys) : Less(keys[j], keys[i]) \/ (keys[j] = keys[i] /\ j <= i)})

Sorted(sequence, keys) ==
  LET rank == [i \in 1..Len(keys) |-> Rank(keys, i)]
  IN  [k \in 1..Len(keys) |-> sequence[CHOOSE i \in 1..Len(keys) : rank[i] = k]]

\* object_symbol_compare
SortedRecords(builder) ==
  Sorted(builder.records, [i \in 1..Len(builder.records) |-> Key(builder.records[i])])

\* A table of strings: string_add gives a name its place, once.
Add(strings, name) ==
  IF \E i \in 1..Len(strings) : strings[i] = name THEN strings
  ELSE Append(strings, name)

Start(strings, n) ==
  Total([i \in 1..Len(strings) |-> Length(strings[i]) + 1], n - 1)

\* The sum that began at one "would count the empty first entry twice".
PlacePastFirst(strings, name) ==
  LET n == SelectInSeq(strings, LAMBDA s : s = name) IN
  IF n = 1 THEN 0 ELSE 1 + Start(strings, n)

Place(strings, name) == Start(strings, SelectInSeq(strings, LAMBDA s : s = name))

NamesOf(sequence) == [i \in 1..Len(sequence) |-> sequence[i].name]

Strings(builder, records) ==
  FoldLeft(Add, <<Empty, Triple>>, NamesOf(builder.sections) \o NamesOf(records))

\* The relocations of a section, in the order of their offsets.
SortedRelocs(section, records) ==
  Sorted(section.relocs,
         [i \in 1..Len(section.relocs) |->
           LET reloc == section.relocs[i]
           IN  <<reloc.offset, Find(records, reloc.source, reloc.name)>>])

\* The number a symbol had before the records were sorted.
EntryUnsorted(reloc, records) ==
  [offset |-> reloc.offset, type |-> reloc.type, addend |-> 0, symbol |-> reloc.source]

Entry(reloc, records) ==
  [offset |-> reloc.offset, type |-> reloc.type, addend |-> 0,
   symbol |-> Find(records, reloc.source, reloc.name)]

HasPayload(section) == section.kind # Bss

\* The file: the header, the sections, the symbols, the relocations of each
\* section, the strings and the payloads.
Written(builder) ==
  LET sections == builder.sections
      records == SortedRecords(builder)
      strings == Strings(builder, records)
      count == Len(sections)
      Entries(s) == LET relocs == SortedRelocs(sections[s], records)
                    IN  [i \in 1..Len(relocs) |-> Entry(relocs[i], records)]
      payloads == [s \in 1..count |-> IF HasPayload(sections[s]) THEN sections[s].size ELSE 0]
      relocCounts == [s \in 1..count |-> Len(sections[s].relocs)]
      symbolOffset == HeaderSize + SectionSize * count
      relocOffset == symbolOffset + SymbolSize * Len(records)
      RelocAt(s) == relocOffset + RelocSize * Total(relocCounts, s - 1)
      stringOffset == RelocAt(count + 1)
      stringSize == Start(strings, Len(strings) + 1)
      PayloadAt(s) == stringOffset + stringSize + Total(payloads, s - 1)
  IN [size |-> PayloadAt(count + 1),
      targetOffset |-> stringOffset + Place(strings, Triple),
      targetSize |-> Length(Triple) + 1,
      sectionOffset |-> HeaderSize, sectionCount |-> count,
      symbolOffset |-> symbolOffset, symbolCount |-> Len(records),
      stringOffset |-> stringOffset, stringSize |-> stringSize,
      strings |-> strings,
      sections |->
        [s \in 1..count |->
          [name |-> Place(strings, sections[s].name),
           kind |-> sections[s].kind, align |-> sections[s].align,
           offset |-> IF HasPayload(sections[s]) THEN PayloadAt(s) ELSE 0,
           size |-> Word(sections[s].size),
           relocOffset |-> IF sections[s].relocs = <<>> THEN 0 ELSE RelocAt(s),
           relocCount |-> Len(sections[s].relocs)]],
      symbols |->
        [i \in 1..Len(records) |->
          [name |-> Place(strings, records[i].name), value |-> records[i].value,
           section |-> SectionWord(records[i].section), global |-> records[i].global,
           kind |-> records[i].kind, size |-> records[i].size]],
      relocs |-> FlattenSeq([s \in 1..count |-> Entries(s)])]

\* What object_write_cc64o refuses to write.
Writable(builder) ==
  /\ Len(builder.records) <= MaxSymbols
  /\ Written(builder).size <= WordMax /\ Written(builder).size <= MaxFile
  /\ \A i \in 1..Len(builder.records) : builder.records[i].value <= WordMax

-----------------------------------------------------------------------------
(* Reading *)

Extent(offset, size) == [offset |-> offset, size |-> size]

\* Everything the header and the section records say is somewhere in the file.
Ranges(file) ==
  <<Extent(0, HeaderSize),
    Extent(file.sectionOffset, SectionSize * file.sectionCount),
    Extent(file.symbolOffset, SymbolSize * file.symbolCount),
    Extent(file.stringOffset, file.stringSize)>> \o
  [s \in 1..file.sectionCount |->
    Extent(file.sections[s].offset,
          IF HasPayload(file.sections[s]) THEN file.sections[s].size ELSE 0)] \o
  [s \in 1..file.sectionCount |->
    Extent(file.sections[s].relocOffset, RelocSize * file.sections[s].relocCount)]

Apart(a, b) ==
  a.size = 0 \/ b.size = 0 \/ a.offset + a.size <= b.offset \/ b.offset + b.size <= a.offset

\* range_ok, object_range_add and object_uncovered_bytes_are_zero. The file has no
\* byte to spare, so all of it is covered.
Described(file) ==
  LET ranges == Ranges(file) IN
  /\ \A i \in 1..Len(ranges) : ranges[i].offset + ranges[i].size <= file.size
  /\ \A i, j \in 1..Len(ranges) : i # j => Apart(ranges[i], ranges[j])
  /\ Total([i \in 1..Len(ranges) |-> ranges[i].size], Len(ranges)) = file.size

\* The string at an offset: a name, or the rest of one, which is taken for none.
NameAt(file, offset) ==
  LET n == SelectInSeq([i \in 1..Len(file.strings) |-> Start(file.strings, i)],
                       LAMBDA start : start = offset)
  IN  IF n = 0 THEN -1 - offset ELSE file.strings[n]

\* The tables are where the header says, and hold what can be read.
Readable(file) ==
  /\ file.size <= MaxFile
  /\ file.symbolCount <= MaxSymbols
  /\ NameAt(file, file.targetOffset - file.stringOffset) = Triple
  /\ file.targetSize = Length(Triple) + 1
  /\ Described(file)
  /\ \A s \in 1..file.sectionCount :
       HasPayload(file.sections[s]) => file.sections[s].size <= MaxPayload

EntryAt(file, offset) ==
  file.relocs[(offset - file.symbolOffset - SymbolSize * file.symbolCount)
                \div RelocSize + 1]

\* The LinkObject of a file that is Readable.
Read(file) ==
  [sections |->
     [s \in 1..file.sectionCount |->
       LET section == file.sections[s] IN
       [name |-> NameAt(file, section.name), kind |-> section.kind,
        align |-> section.align, size |-> section.size,
        relocs |-> [i \in 1..section.relocCount |->
                     EntryAt(file, section.relocOffset + RelocSize * (i - 1))]]],
   symbols |->
     [i \in 1..file.symbolCount |->
       [file.symbols[i] EXCEPT
          !.name = NameAt(file, @),
          !.section = IF @ = WordMax THEN 0 ELSE @ + 1]]]
=============================================================================
