-------------------------------- MODULE Unit --------------------------------
(***************************************************************************)
(* A translation unit from its external declarations to its object file:   *)
(* define_symbol and parse_local_declaration (src/parser/parser.c) make the*)
(* Symbols, lower_declaration (src/ir/lower.c) collects those with storage,*)
(* and the encoder (src/backend/encoder.c) gives them sections and values: *)
(* functions as they are read, objects and runtime services at the end.    *)
(*                                                                         *)
(* A function is what it declares and uses, one after the other; every use *)
(* takes ReferenceSize bytes of code with a relocation at their start. A   *)
(* declaration that is refused ends the unit, which gets no object then.   *)
(***************************************************************************)
EXTENDS ObjectFile

CONSTANTS
  Declarations, \* the external declarations a unit may have
  MaxDeclarations, \* how many of them it has at most (a bound)
  SizeOf(_),    \* type_size of an object, by name
  Private(_),   \* the names .Lstatic.0, .Lstatic.1, ...
  Literal(_),   \* the names .Lstr.0, .Lstr.1, ...
  SectionNames, \* .text, .data, .bss
  Main,         \* the name main
  Services,     \* append_runtime_functions' names, in its order
  StartUp,      \* the one of them that is cc64_start
  ServiceSize   \* the size of their code (any one will do)

ReferenceSize == 4
PointerSize == 8

\* What a function may declare and use, one after the other.
BodyAssumption(body) ==
  /\ body \in Seq(ToSet(body))
  /\ \A item \in ToSet(body) :
       /\ item.kind \in {"use", "extern", "static", "literal"}
       /\ item.kind = "extern" => SizeOf(item.name) \in Nat \ {0}

ASSUME UnitAssumption ==
  /\ MaxDeclarations \in Nat /\ ServiceSize \in Nat \ {0}
  /\ Len(SectionNames) = 3 /\ Len(SectionNames) <= WordMax
  /\ \A i, j \in 1..Len(SectionNames) : i # j => SectionNames[i] # SectionNames[j]
  /\ Services \in Seq(ToSet(Services)) /\ StartUp \in ToSet(Services)
  /\ \A d \in Declarations :
       /\ SizeOf(d.name) \in Nat \ {0} \* no object has an incomplete type
       /\ d.kind = "object" =>
            /\ d.init \in {"none", "plain", "address"}
            /\ d.init = "address" => SizeOf(d.name) >= PointerSize
       /\ d.kind = "function" => BodyAssumption(d.body)

VARIABLES
  stage,    \* "declarations", "encoded", "written" or "refused"
  declared, \* how many external declarations there were
  symbols,  \* the Symbols, by number
  scope,    \* the file scope: names to Symbols
  globals,  \* program->global_symbols
  counters, \* static_local_count and literal_count
  main,     \* encoder->main_symbol
  builder,  \* the object builder
  file,     \* the object file, once it is written
  claims    \* what C makes of the declarations (not in the program)

vars == <<stage, declared, symbols, scope, globals, counters, main, builder, file, claims>>

TextSection == 1
DataSection == 2
BssSection == 3

\* The mask is applied before it is added.
AlignBack(n, align) == (n \div align) * align

AlignTo(n, align) == ((n + align - 1) \div align) * align

Put(f, x, v) == [y \in DOMAIN f \cup {x} |-> IF y = x THEN v ELSE f[y]]

-----------------------------------------------------------------------------
(* What C says: which names the unit defines, which have internal linkage,  *)
(* where each object and function was put, and which one each use is of.   *)

Claim(name, defines, static) ==
  [claims EXCEPT
     !.owed = IF defines THEN @ \cup {name} ELSE @,
     !.seen = @ \cup {name},
     !.internal = IF static /\ name \notin claims.seen THEN @ \cup {name} ELSE @]

At(section, offset, size) == [section |-> section, offset |-> offset, size |-> size]

-----------------------------------------------------------------------------
(* Symbols *)

NoInitializer == [set |-> FALSE, target |-> 0]
Plain == [set |-> TRUE, target |-> 0]
AddressOf(symbol) == [set |-> TRUE, target |-> symbol]

Known(name) == name \in DOMAIN scope

\* define_symbol refuses a name of another kind and a second definition.
Conflict(name, function, initialized) ==
  /\ Known(name)
  /\ LET symbol == symbols[scope[name]] IN
     symbol.function # function \/ (initialized /\ symbol.initialized)

\* The last declaration's storage is the one that stays, and so is its linkage.
Redeclared(symbol, storage, initialized) ==
  [symbol EXCEPT !.storage = storage, !.internal = storage = "static",
                 !.initialized = @ \/ initialized]

Number(name) == IF Known(name) THEN scope[name] ELSE Len(symbols) + 1

NewSymbol(name, function, storage, size) ==
  [name |-> name, function |-> function, storage |-> storage,
   internal |-> storage = "static", initialized |-> FALSE,
   initializer |-> NoInitializer, size |-> size, align |-> size]

\* The Symbols after define_symbol.
Defined(name, function, storage, initialized) ==
  LET grown == IF Known(name) THEN symbols
               ELSE Append(symbols, NewSymbol(name, function, storage, SizeOf(name)))
  IN  [grown EXCEPT ![Number(name)] = Redeclared(@, storage, initialized)]

\* program_add_global
AddGlobal(sequence, symbol) ==
  IF symbol \in ToSet(sequence) THEN sequence ELSE Append(sequence, symbol)

AddGlobals(sequence, added) == FoldLeft(AddGlobal, sequence, added)

-----------------------------------------------------------------------------
(* The encoder *)

Refuse ==
  /\ stage' = "refused"
  /\ UNCHANGED <<declared, symbols, scope, globals, counters, main, builder, file, claims>>

Blank(symbol, all) ==
  [name |-> all[symbol].name, value |-> 0, section |-> 0, global |-> ~all[symbol].internal,
   kind |-> IF all[symbol].function THEN Function ELSE Object, size |-> 0,
   source |-> symbol]

Has(b, symbol, all) == Find(b.records, symbol, all[symbol].name) # 0

\* object_symbol_index: the symbol's record is made if it has none.
Indexed(b, symbol, all) ==
  IF Has(b, symbol, all) THEN b
  ELSE [b EXCEPT !.records = Append(@, Blank(symbol, all))]

Index(b, symbol, all) == Find(b.records, symbol, all[symbol].name)

\* object_add_relocation
Relocated(b, section, offset, symbol, type, all) ==
  [Indexed(b, symbol, all) EXCEPT
     !.sections[section].relocs =
       <<[offset |-> offset, source |-> symbol, name |-> all[symbol].name,
          type |-> type]>> \o @]

Appended(b, section, size) == [b EXCEPT !.sections[section].size = @ + size]

\* The first record of the name, whoever owns it, gets the value.
Valued(b, name, value, size) ==
  LET i == FirstNamed(b.records, name) IN
  [b EXCEPT !.records[i].value = value, !.records[i].size = size]

\* ir_encoder_add_function and encode_function. `uses` are the Symbols it refers to.
CodeSize(uses) == ReferenceSize * Len(uses) + 1

Begun(b, function, all) ==
  LET indexed == Indexed(b, function, all) IN
  [indexed EXCEPT !.records[Index(indexed, function, all)] =
     [@ EXCEPT !.section = TextSection, !.kind = Function,
               !.global = ~all[function].internal]]

\* The value is relative to the function.
EncodedFromZero(function, uses, all) ==
  Valued(Appended(Begun(builder, function, all), TextSection, CodeSize(uses)),
         all[function].name, 0, CodeSize(uses))

\* One relocation after the other.
Referred(b, start, uses, all) ==
  LET Refer(c, i) == Relocated(c, TextSection, start + ReferenceSize * (i - 1), uses[i],
                               Pc32, all)
  IN  FoldLeft(Refer, b, [i \in 1..Len(uses) |-> i])

Encoded(function, uses, all) ==
  LET start == builder.sections[TextSection].size
      referred == Referred(Begun(builder, function, all), start, uses, all)
  IN  Valued(Appended(referred, TextSection, CodeSize(uses)),
             all[function].name, start, CodeSize(uses))

-----------------------------------------------------------------------------
(* External declarations *)

\* An object, with an initializer or without, or only announced. An initializer
\* is plain or the address of a name in scope, which may be the object itself.
DeclareObject(d) ==
  LET initialized == d.init # "none"
      tentative == ~initialized /\ d.storage # "extern"
      symbol == Number(d.name)
      known == Put(scope, d.name, symbol)
  IN
  /\ d.kind = "object"
  /\ ~Conflict(d.name, FALSE, initialized)
  /\ d.init = "address" => d.of \in DOMAIN known
  /\ scope' = known
  /\ symbols' = LET all == Defined(d.name, FALSE, d.storage, initialized) IN
                [all EXCEPT ![symbol].initializer =
                   CASE d.init = "none" -> @
                     [] d.init = "plain" -> Plain
                     [] d.init = "address" -> AddressOf(known[d.of])]
  /\ globals' = IF initialized \/ tentative THEN AddGlobal(globals, symbol) ELSE globals
  /\ claims' = Claim(d.name, initialized \/ tentative, d.storage = "static")
  /\ UNCHANGED <<counters, main, builder>>

DeclareFunction(d) ==
  /\ d.kind = "prototype"
  /\ ~Conflict(d.name, TRUE, FALSE)
  /\ symbols' = Defined(d.name, TRUE, d.storage, FALSE)
  /\ scope' = Put(scope, d.name, Number(d.name))
  /\ claims' = Claim(d.name, FALSE, d.storage = "static")
  /\ UNCHANGED <<globals, counters, main, builder>>

\* What the parser has of a function: its Symbols, the names its block binds, the
\* Symbols it uses, and those it has storage for, statics and literals apart.
Body(all, bound, counts) ==
  [symbols |-> all, bound |-> bound, counters |-> counts, uses |-> <<>>,
   statics |-> <<>>, literals |-> <<>>]

WithSymbol(body, symbol) == [body EXCEPT !.symbols = Append(@, symbol)]

Latest(body) == Len(body.symbols)

Uses(body, symbol) == [body EXCEPT !.uses = Append(@, symbol)]

Storage(name, initializer, size, align) ==
  [NewSymbol(name, FALSE, "static", size) EXCEPT !.initializer = initializer, !.align = align]

\* A static object of the block, which is used at once.
AddStatic(body, initializer) ==
  LET with == WithSymbol(body, Storage(Private(body.counters.static), initializer, 4, 4))
  IN  [Uses(with, Latest(with)) EXCEPT
         !.statics = Append(@, Latest(with)), !.counters.static = @ + 1]

AddLiteral(body) ==
  LET with == WithSymbol(body, Storage(Literal(body.counters.literal), Plain, 2, 1))
  IN  [Uses(with, Latest(with)) EXCEPT
         !.literals = Append(@, Latest(with)), !.counters.literal = @ + 1]

\* `extern` in a block makes a Symbol of its own.
AddExtern(body, name) ==
  LET with == WithSymbol(body, NewSymbol(name, FALSE, "extern", SizeOf(name)))
  IN  [with EXCEPT !.bound = Put(@, name, Latest(with))]

ReadItem(body, item) ==
  CASE item.kind = "use" -> Uses(body, body.bound[item.name])
    [] item.kind = "extern" -> AddExtern(body, item.name)
    [] item.kind = "static" ->
         AddStatic(body, IF item.set THEN Plain ELSE NoInitializer)
    [] item.kind = "literal" -> AddLiteral(body)

ReadItems(body, items) == FoldLeft(ReadItem, body, items)

\* Every name a body uses is in scope or declared before in the body.
Resolves(body, bound) ==
  \A i \in 1..Len(body) :
    body[i].kind = "use" =>
      \/ body[i].name \in DOMAIN bound
      \/ \E j \in 1..(i - 1) : body[j].kind = "extern" /\ body[j].name = body[i].name

UsesOf(body) == SelectSeq(body, LAMBDA item : item.kind # "extern")

\* __func__ is a static object too: it has the first number, and is collected last,
\* before the literals.
ReadBody(d, all, bound) ==
  LET self == WithSymbol(Body(all, bound, [counters EXCEPT !.static = @ + 1]),
                         Storage(Private(counters.static), Plain, 2, 1))
      read == ReadItems(self, d.body)
  IN  [read EXCEPT !.statics = Append(@, Latest(self))]

DefineFunction(d) ==
  LET function == Number(d.name)
      known == Put(scope, d.name, function)
      read == ReadBody(d, Defined(d.name, TRUE, d.storage, TRUE), known)
      start == builder.sections[TextSection].size
      \* which name each use is of
      Meant(i) == [section |-> TextSection, offset |-> start + ReferenceSize * (i - 1),
                   name |-> read.symbols[read.uses[i]].name]
      claim == Claim(d.name, TRUE, d.storage = "static")
  IN
  /\ d.kind = "function"
  /\ ~Conflict(d.name, TRUE, TRUE)
  /\ Resolves(d.body, known)
  /\ Fits(start, CodeSize(read.uses))
  /\ scope' = known
  /\ symbols' = read.symbols
  /\ counters' = read.counters
  /\ globals' = AddGlobals(globals, read.statics \o read.literals)
  /\ main' = IF d.name = Main THEN function ELSE main
  /\ builder' = Encoded(function, read.uses, read.symbols)
  /\ claims' = [claim EXCEPT
       !.meant = @ \cup {Meant(i) : i \in 1..Len(read.uses)},
       !.owed = @ \cup {read.symbols[s].name : s \in ToSet(read.statics \o read.literals)},
       !.internal = @ \cup {read.symbols[s].name : s \in ToSet(read.statics \o read.literals)},
       !.placed = Put(@, d.name, At(TextSection, start, CodeSize(read.uses)))]

Refused(d) ==
  \/ Conflict(d.name, d.kind # "object",
              d.kind = "function" \/ (d.kind = "object" /\ d.init # "none"))
  \/ d.kind = "object" /\ d.init = "address" /\ d.of # d.name /\ ~Known(d.of)
  \/ d.kind = "function" /\
       \/ ~Resolves(d.body, Put(scope, d.name, 0))
       \/ ~Fits(builder.sections[TextSection].size, CodeSize(UsesOf(d.body)))

Declare ==
  /\ stage = "declarations"
  /\ declared < MaxDeclarations
  /\ \E d \in Declarations :
       \/ /\ DeclareObject(d) \/ DeclareFunction(d) \/ DefineFunction(d)
          /\ declared' = declared + 1
          /\ UNCHANGED <<stage, file>>
       \/ Refused(d) /\ Refuse

-----------------------------------------------------------------------------
(* The end of the unit *)

\* prepare_global_symbol
Announced(symbol) ==
  symbols[symbol].storage = "extern" /\ ~symbols[symbol].initializer.set

Work == [builder |-> builder, placed |-> claims.placed]

Prepare(work, symbol) ==
  LET s == symbols[symbol]
      b == Indexed(work.builder, symbol, symbols)
      i == Index(b, symbol, symbols)
      marked == [b EXCEPT !.records[i] =
                   [@ EXCEPT !.section = IF s.initializer.set THEN DataSection ELSE BssSection,
                             !.kind = Object, !.global = ~s.internal, !.size = s.size]]
      offset == AlignTo(b.sections[BssSection].size, s.align)
  IN  IF Announced(symbol) THEN [work EXCEPT !.builder = b]
      ELSE IF s.initializer.set THEN [work EXCEPT !.builder = marked]
      ELSE [builder |-> [marked EXCEPT !.records[i].value = offset,
                                       !.sections[BssSection].size = offset + s.size],
            placed |-> Put(work.placed, s.name, At(BssSection, offset, s.size))]

Prepared == FoldLeft(Prepare, Work, globals)

DataAlign(symbol) == IF symbols[symbol].align < 8 THEN 8 ELSE symbols[symbol].align

\* append_global_data: a pointer gets a relocation before its bytes are there.
Emit(work, symbol) ==
  LET s == symbols[symbol]
      offset == AlignTo(work.builder.sections[DataSection].size, DataAlign(symbol))
      target == s.initializer.target
      padded == Appended(work.builder, DataSection,
                         offset - work.builder.sections[DataSection].size)
      referred == IF target = 0 THEN padded
                  ELSE Relocated(padded, DataSection, offset, target, Data64, symbols)
  IN  IF ~s.initializer.set THEN work
      ELSE [builder |-> Valued(Appended(referred, DataSection, s.size), s.name, offset, s.size),
            placed |-> Put(work.placed, s.name, At(DataSection, offset, s.size))]

Emitted(work) == FoldLeft(Emit, work, globals)

\* append_runtime_functions: the services that are referred to, and the start-up
\* code of a unit that has main, whether it is or not.
Provide(work, service) ==
  LET startUp == service = StartUp /\ main # 0
      made == IF FirstNamed(work.builder.records, service) = 0 /\ startUp
              THEN [work.builder EXCEPT !.records = Append(@,
                     [name |-> service, value |-> 0, section |-> 0, global |-> TRUE,
                      kind |-> Function, size |-> 0, source |-> 0])]
              ELSE work.builder
      i == FirstNamed(made.records, service)
      offset == made.sections[TextSection].size
      code == IF startUp THEN Relocated(made, TextSection, offset, main, Pc32, symbols)
              ELSE made
      size == IF startUp THEN ReferenceSize ELSE ServiceSize
  IN  IF i = 0 \/ (service = StartUp /\ main = 0) THEN work
      ELSE IF made.records[i].section # 0 THEN work
      ELSE [builder |-> [Appended(code, TextSection, size) EXCEPT !.records[i] =
                           [@ EXCEPT !.section = TextSection, !.value = offset,
                                     !.size = size]],
            placed |-> Put(work.placed, service, At(TextSection, offset, size))]

Provided(work) == FoldLeft(Provide, work, Services)

\* What each pointer is meant to point to.
Pointers(placed) ==
  {[section |-> DataSection, offset |-> placed[symbols[s].name].offset,
    name |-> symbols[symbols[s].initializer.target].name] :
     s \in {t \in ToSet(globals) : symbols[t].initializer.target # 0}}

\* ir_encoder_finish. It fails without a word when a section is full.
Finish ==
  LET done == Provided(Emitted(Prepared)) IN
  /\ stage = "declarations"
  /\ \/ /\ \A s \in {TextSection, DataSection} : Fits(done.builder.sections[s].size, 0)
        /\ stage' = "encoded"
        /\ builder' = done.builder
        /\ claims' = [claims EXCEPT
             !.placed = done.placed,
             !.meant = @ \cup Pointers(done.placed) \cup
                       {[section |-> TextSection, offset |-> done.placed[StartUp].offset,
                         name |-> Main] : s \in {StartUp} \cap DOMAIN done.placed}]
        /\ UNCHANGED <<declared, symbols, scope, globals, counters, main, file>>
     \/ /\ \E s \in {TextSection, DataSection} : ~Fits(done.builder.sections[s].size, 0)
        /\ Refuse

\* object_write_cc64o, which may fail to write the file.
Write ==
  /\ stage = "encoded"
  /\ \/ /\ Writable(builder)
        /\ stage' = "written"
        /\ file' = Written(builder)
        /\ UNCHANGED <<declared, symbols, scope, globals, counters, main, builder, claims>>
     \/ Refuse

-----------------------------------------------------------------------------
NoFile == [size |-> 0]

SectionOf(name, kind, align) ==
  [name |-> name, kind |-> kind, align |-> align, size |-> 0, relocs |-> <<>>]

\* ir_encoder_create
Init ==
  /\ stage = "declarations"
  /\ declared = 0
  /\ symbols = <<>> /\ globals = <<>>
  /\ scope = [name \in {} |-> 0]
  /\ counters = [static |-> 0, literal |-> 0]
  /\ main = 0
  /\ builder = [sections |-> <<SectionOf(SectionNames[1], Text, 16),
                               SectionOf(SectionNames[2], Data, 8),
                               SectionOf(SectionNames[3], Bss, 8)>>,
                records |-> <<>>]
  /\ file = NoFile
  /\ claims = [owed |-> {}, seen |-> {}, internal |-> {}, meant |-> {},
               placed |-> [name \in {} |-> At(0, 0, 0)]]

Next == Declare \/ Finish \/ Write

Spec == Init /\ [][Next]_vars

-----------------------------------------------------------------------------
Numbers == 0..Len(symbols)

TypeOK ==
  /\ stage \in {"declarations", "encoded", "written", "refused"}
  /\ declared \in 0..MaxDeclarations
  /\ \A name \in DOMAIN scope : symbols[scope[name]].name = name
  /\ ToSet(globals) \subseteq Numbers \ {0}
  /\ main \in Numbers
  /\ \A i \in 1..Len(builder.records) :
       /\ builder.records[i].section \in 0..Len(builder.sections)
       /\ builder.records[i].source \in Numbers
  /\ \A s \in {TextSection, DataSection} : builder.sections[s].size \in 0..MaxPayload

Definitions(object, name) ==
  {i \in 1..Len(object.symbols) :
     object.symbols[i].name = name /\ object.symbols[i].section # 0}

\* Where the linker takes a symbol to be: where its record says, or where the
\* unit's global definition of the name is, if there is one.
Reached(object, i) ==
  LET symbol == object.symbols[i]
      global == {j \in Definitions(object, symbol.name) : object.symbols[j].global}
  IN  IF symbol.section = 0 /\ global # {} THEN object.symbols[CHOOSE j \in global : TRUE]
      ELSE symbol

\* A program runs on the objects it names: each use of a name has one relocation
\* in the file, and what the linker makes of it is where the bytes of the object,
\* the function or the service of that name were put, or a symbol of that name
\* that another unit has to define.
ReferencesReach ==
  stage = "written" =>
    LET object == Read(file) IN
    /\ Cardinality(claims.meant) =
         Total([s \in 1..Len(object.sections) |-> Len(object.sections[s].relocs)],
               Len(object.sections))
    /\ \A use \in claims.meant :
         LET relocs == object.sections[use.section].relocs IN
         \E r \in 1..Len(relocs) :
           /\ relocs[r].offset = use.offset
           /\ LET symbol == Reached(object, relocs[r].symbol) IN
              IF use.name \in DOMAIN claims.placed
              THEN /\ symbol.section = claims.placed[use.name].section
                   /\ symbol.value = claims.placed[use.name].offset
              ELSE symbol.section = 0 /\ symbol.name = use.name

\* What a unit defines is there, once and for the right readers: every name C says
\* it defines has one record, with its place and size, local if and only if C gives
\* it internal linkage; and the file defines nothing else but runtime services.
DefinitionsKept ==
  stage = "written" =>
    LET object == Read(file) IN
    /\ \A name \in claims.owed :
         /\ Cardinality(Definitions(object, name)) = 1
         /\ \A i \in Definitions(object, name) :
              LET symbol == object.symbols[i] IN
              /\ symbol.global = (name \notin claims.internal)
              /\ At(symbol.section, symbol.value, symbol.size) = claims.placed[name]
    /\ \A i \in 1..Len(object.symbols) :
         object.symbols[i].section # 0 =>
           object.symbols[i].name \in claims.owed \cup ToSet(Services)

\* No two things in a section share a byte, whatever order they came in.
StorageApart ==
  \A a, b \in DOMAIN claims.placed :
    LET p == claims.placed[a] q == claims.placed[b] IN
    a # b /\ p.section = q.section => p.offset + p.size <= q.offset \/ q.offset + q.size <= p.offset

Record(symbol) ==
  [name |-> symbol.name, value |-> symbol.value, section |-> symbol.section,
   global |-> symbol.global, kind |-> symbol.kind, size |-> symbol.size]

\* What the compiler writes the linker reads: the file passes every check of
\* read_object_file, and has the sections and the symbols of the unit, by the names
\* they have there, however many share one.
ReadBack ==
  stage = "written" =>
    LET object == Read(file) IN
    /\ Readable(file) /\ Accepted(object)
    /\ \A s \in 1..Len(builder.sections) :
         /\ object.sections[s].name = builder.sections[s].name
         /\ object.sections[s].kind = builder.sections[s].kind
         /\ object.sections[s].size = builder.sections[s].size
    /\ \A symbol \in {Record(builder.records[i]) : i \in 1..Len(builder.records)} :
         Cardinality({i \in 1..Len(builder.records) : Record(builder.records[i]) = symbol})
           = Cardinality({i \in 1..Len(object.symbols) : Record(object.symbols[i]) = symbol})
=============================================================================
