------------------------------- MODULE CC64O -------------------------------
(***************************************************************************)
(* A CC64O object as the linker has it in memory, and what read_object_file*)
(* of src/linker/linker.c checks of its tables: sections, a sequence of    *)
(* [name, kind, align, size, relocs], each reloc a [offset, type, symbol,  *)
(* addend]; and symbols, a sequence of [name, global, kind, section, value,*)
(* size], with section 0 for an undefined symbol. The width of a reloc is  *)
(* the one its type has, and the bytes of sections are left out. A name is  *)
(* whatever the modules that use this one take for names.                  *)
(***************************************************************************)
EXTENDS Integers, Sequences

Kinds == 0..3
Text == 0
ReadOnly == 1
Data == 2
Bss == 3

NoType == 0
Object == 1
Function == 2
Section == 3
Common == 4

Abs32 == 1
Abs64 == 2
Pc32 == 3
Section32 == 4
Data64 == 5

Width(type) == IF type \in {Abs64, Data64} THEN 8 ELSE 4

-----------------------------------------------------------------------------
\* 1 << alignment_power
Alignments == {1, 2, 4, 8, 16, 32, 64, 128, 256, 512, 1024, 2048, 4096, 8192,
               16384, 32768}

SectionAccepted(section) ==
  /\ section.kind \in Kinds
  /\ section.align \in Alignments
  /\ section.kind \in {Text, ReadOnly} => section.align >= 16

RelocAccepted(obj, section, reloc) ==
  /\ reloc.symbol \in 1..Len(obj.symbols)
  /\ reloc.type \in Abs32..Data64
  /\ reloc.offset + Width(reloc.type) <= section.size

SymbolAccepted(obj, symbol) ==
  /\ symbol.kind \in NoType..Common
  /\ symbol.section \in 0..Len(obj.sections)
  /\ symbol.section # 0 =>
       LET room == obj.sections[symbol.section].size - symbol.value
       IN  room >= 0 /\ (symbol.kind \in Object..Section => symbol.size <= room)

\* read_object_file's checks of the tables of a file that is CC64O.
Accepted(obj) ==
  LET sections == obj.sections IN
  /\ \A s \in 1..Len(sections) :
       /\ SectionAccepted(sections[s])
       /\ \A t \in 1..(s - 1) : sections[t].name # sections[s].name
       /\ \A r \in 1..Len(sections[s].relocs) :
            RelocAccepted(obj, sections[s], sections[s].relocs[r])
  /\ \A i \in 1..Len(obj.symbols) : SymbolAccepted(obj, obj.symbols[i])

=============================================================================
