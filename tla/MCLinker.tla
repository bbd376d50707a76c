------------------------------ MODULE MCLinker ------------------------------
(***************************************************************************)
(* Linker on small objects: every pair of the objects below is linked      *)
(* after a start-up object, in either order, to both formats, with and     *)
(* without the inputs being released.                                      *)
(***************************************************************************)
EXTENDS Linker

Rel(type, offset, symbol, addend) ==
  [type |-> type, offset |-> offset, symbol |-> symbol, addend |-> addend]
Sec(name, kind, align, length, relocs) ==
  [name |-> name, kind |-> kind, align |-> align, size |-> length, relocs |-> relocs]
Sym(name, global, kind, section, value, length) ==
  [name |-> name, global |-> global, kind |-> kind, section |-> section,
   value |-> value, size |-> length]
Obj(sections, symbols) == [sections |-> sections, symbols |-> symbols]

Main == Sym("main", TRUE, Function, 1, 0, 8)
CcStart == Sym("cc64_start", TRUE, Function, 1, 8, 8)
UndefinedX == Sym("x", TRUE, NoType, 0, 0, 0)
CommonX(length) == Sym("x", TRUE, Common, 0, 0, length)
CallsX == Sec(".text", Text, 16, 20, <<Rel(Pc32, 4, 3, 0)>>)

\* A program that refers to x, and one that also has x as a common symbol.
StartObjects ==
  { Obj(<<CallsX>>, <<Main, CcStart, UndefinedX>>),
    Obj(<<CallsX, Sec(".bss", Bss, 8, 4, <<>>)>>, <<Main, CcStart, CommonX(12)>>) }

DataX(length) ==
  Obj(<<Sec(".data", Data, 8, length, <<>>)>>, <<Sym("x", TRUE, Object, 1, 0, length)>>)
BssX(length) ==
  Obj(<<Sec(".bss", Bss, 8, length, <<>>)>>, <<Sym("x", TRUE, Object, 1, 0, length)>>)
\* Data whose pointer at offset holds the address of x plus addend.
PointerTo(offset, addend) ==
  Obj(<<Sec(".data", Data, 8, 24, <<Rel(Data64, offset, 1, addend)>>)>>,
      <<Sym("x", TRUE, Object, 1, 16, 8)>>)

GoodObjects ==
  { DataX(8), BssX(8), BssX(4), PointerTo(8, -8), PointerTo(0, 8),
    Obj(<<>>, <<CommonX(8)>>),
    Obj(<<>>, <<CommonX(20)>>),
    \* x as a function, with a call to a local one and a section offset
    Obj(<<Sec(".text", Text, 16, 24, <<Rel(Pc32, 0, 2, 0), Rel(Section32, 8, 2, 4)>>),
          Sec(".rodata", ReadOnly, 16, 5, <<>>)>>,
        <<Sym("x", TRUE, Function, 1, 16, 8), Sym("s", FALSE, Object, 2, 1, 4)>>),
    \* a runtime service, which both objects may carry
    Obj(<<Sec(".text", Text, 16, 8, <<>>), Sec(".data", Data, 4, 6, <<>>)>>,
        <<Sym("cc64_write", TRUE, Function, 1, 0, 8), Sym("d", FALSE, Section, 2, 0, 6)>>) }

BadObjects ==
  { Obj(<<Sec(".text", Text, 8, 8, <<>>)>>, <<>>),
    Obj(<<Sec(".data", Data, 8, 8, <<>>), Sec(".data", Bss, 8, 8, <<>>)>>, <<>>),
    Obj(<<Sec(".data", Data, 8, 8, <<Rel(Pc32, 5, 1, 0)>>)>>, <<UndefinedX>>),
    Obj(<<Sec(".data", Data, 8, 8, <<>>)>>, <<Sym("x", TRUE, Object, 1, 4, 8)>>),
    Missing, Damaged }

\* Accepted by the reader and refused further on.
RefusedObjects ==
  { PointerTo(4, 0),
    PointerTo(8, -2000),
    Obj(<<Sec(".data", Data, 8, 8, <<Rel(Abs64, 0, 1, 0)>>)>>, <<UndefinedX>>),
    Obj(<<Sec(".bss", Bss, 8, 8, <<Rel(Pc32, 0, 1, 0)>>)>>, <<UndefinedX>>),
    Obj(<<Sec(".data", Data, 8, 8, <<Rel(Pc32, 0, 1, 3000)>>)>>, <<UndefinedX>>),
    Obj(<<Sec(".data", Data, 8, 8, <<Rel(Section32, 0, 1, -1)>>)>>, <<UndefinedX>>),
    Obj(<<Sec(".bss", Bss, 8, 500, <<>>)>>, <<>>) }

MCNames == {"a", "b", "c"}

MCVolumes ==
  { [a |-> a, b |-> b, c |-> c] :
      a \in StartObjects, b \in GoodObjects \cup BadObjects \cup RefusedObjects,
      c \in GoodObjects }

MCJobs ==
  [objects : {<<"a", "b", "c">>, <<"c", "b">>, <<"c", "c">>, <<"a", "c", "b">>},
   format : {"COM", "MZ64"}, release : BOOLEAN]

MCRuntimeNames == {"cc64_write"}

\* A data section that asks for sixteen bytes, after a read-only one that leaves
\* the data output at a multiple of eight, and a pointer to the second byte of x.
WideData ==
  Obj(<<Sec(".data", Data, 16, 8, <<>>), Sec(".rodata", ReadOnly, 16, 5, <<>>)>>,
      <<Sym("x", TRUE, Object, 1, 0, 8)>>)
OddPointer == PointerTo(8, 1)

SmallVolumes == [a : StartObjects, b : {DataX(8), WideData, OddPointer}, c : {DataX(4)}]
SmallJobs == [objects : {<<"a", "b">>, <<"c", "a">>}, format : {"COM", "MZ64"}, release : BOOLEAN]

-----------------------------------------------------------------------------
\* "Each section is aligned as required" (docs/specs/com-v1.md:11): a section of
\* a published image starts at a multiple of its alignment. The linker aligns it
\* within its output, and the outputs of data and BSS to eight bytes only.
SectionsAligned ==
  stage = "linked" =>
    \A p \in DOMAIN place : Start(p[1], p[2]) % SectionAt(p).align = 0

\* "Common storage is accepted only when no definition exists"
\* (docs/specs/cc64o-v1.md:92): whether it is accepted beside a definition turns
\* on which of the two objects is named first.
CommonOnlyWithoutDefinition ==
  stage = "linked" =>
    \A p, q \in SymbolItems :
      ~(/\ SymbolAt(p).global /\ IsCommon(SymbolAt(p))
        /\ SymbolAt(q).global /\ SymbolAt(q).section # 0
        /\ SymbolAt(p).name = SymbolAt(q).name)

\* "A failed compile or link must remove or never create the requested output"
\* (docs/specs/com-v1.md:25).
FailedLinkPublishesNothing == stage = "refused" => output = "previous"

\* "The destination slot and represented value must both be eight-byte aligned"
\* (docs/specs/mz64-v1.md:53): the loader takes every table the linker writes.
LoaderTakesTable ==
  stage = "linked" =>
    \A f \in 1..Len(fixups) : fixups[f].destination % 8 = 0 /\ fixups[f].addend % 8 = 0
=============================================================================
