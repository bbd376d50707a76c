------------------------------- MODULE Parser -------------------------------
(***************************************************************************)
(* The parser (src/parser/parser.c) on the tokens of a unit: which function*)
(* reads which token, what is reported, and where it goes on after an      *)
(* error. One operator stands for each of its functions: it takes the      *)
(* Parser and gives the Parser it leaves, and what the function returns is *)
(* in the fields value, ok, name, type, spec and parameters.               *)
(*                                                                         *)
(* There is one token of each kind that decides something: a name, the     *)
(* number 1, a division for every binary operator, `int' for every type    *)
(* keyword, `static' for every storage class but typedef and extern. Prefix*)
(* and postfix operators, `?', `...', pointers, arrays, structures and     *)
(* strings are left out, and so is running out of memory. Every type is    *)
(* that of a number or of a function that returns one.                     *)
(***************************************************************************)
EXTENDS Integers, Sequences, SequencesExt, FiniteSetsExt, TLC

CONSTANTS
  Names, \* what the lexer takes for identifiers
  Units  \* the units: each a sequence of pieces (see below)

\* A piece is what the source has of one declaration, right or wrong:
\* [text, good, needs, gives, nodes]. It is good if C takes it where every <<name,
\* class>> of needs is declared; gives has what it declares, as <<name, class, set>>
\* (set: it has an initializer or a body), and it makes that many nodes.
ASSUME ParserAssumption ==
  \A unit \in Units : \A i \in 1..Len(unit) : Len(unit[i].text) > 0

VARIABLES
  unit,   \* the pieces
  parser, \* the Parser
  stage   \* "parsing", "accepted", "refused" or "crashed"

vars == <<unit, parser, stage>>

End == ""
NoName == ""
NoConstant == -1

Number == [function |-> FALSE, parameters |-> <<>>]
FunctionOf(parameters) == [function |-> TRUE, parameters |-> parameters]

\* A node, or none.
Null == [node |-> FALSE, lvalue |-> FALSE, constant |-> NoConstant, type |-> Number]
Value(type, lvalue, constant) ==
  [node |-> TRUE, lvalue |-> lvalue, constant |-> constant, type |-> type]
Plain == Value(Number, FALSE, NoConstant)

-----------------------------------------------------------------------------
(* Tokens *)

Peek(s) == IF s.at <= Len(s.text) THEN s.text[s.at] ELSE End

PeekNext(s) == IF s.at < Len(s.text) THEN s.text[s.at + 1] ELSE End

Sees(s, token) == Peek(s) = token

Take(s) == IF Sees(s, End) THEN s ELSE [s EXCEPT !.at = @ + 1]

SeesName(s) == Peek(s) \in Names

\* semantic_error
WrongAt(s, at) == [s EXCEPT !.errored = TRUE, !.reported = @ \cup {at}]

Wrong(s) == WrongAt(s, s.at)

\* A missing token is reported and not skipped; at the end the parser has failed.
Expect(s, token) ==
  IF Sees(s, token) THEN [Take(s) EXCEPT !.ok = TRUE]
  ELSE IF Sees(s, End)
  THEN [s EXCEPT !.ok = FALSE, !.failed = TRUE, !.reported = @ \cup {s.at}]
  ELSE [Wrong(s) EXCEPT !.ok = TRUE]

\* What the loops `while (peek is not ...) take' pass over.
SkipTo(s, token) ==
  LET there == SelectInSubSeq(s.text, s.at, Len(s.text), LAMBDA t : t = token)
      stop == IF there = 0 THEN Len(s.text) + 1 ELSE there
  IN  [s EXCEPT !.at = stop, !.skipped = @ \cup s.at..(stop - 1)]

-----------------------------------------------------------------------------
(* Scopes *)

Symbol(class, type) ==
  [class |-> class, type |-> type, initialized |-> FALSE, constant |-> NoConstant]

BoundIn(scope, name) == name \in DOMAIN scope

\* scope_lookup: the innermost scope that has the name, or none.
Where(s, name) == SelectInSeq(s.scopes, LAMBDA scope : BoundIn(scope, name))

Bound(s, name) == Where(s, name) # 0

Lookup(s, name) == s.scopes[Where(s, name)][name]

BoundHere(s, name) == BoundIn(Head(s.scopes), name)

Bind(s, name, symbol) == [s EXCEPT !.scopes[1] = (name :> symbol) @@ @]

OpenScope(s) == [s EXCEPT !.scopes = <<[name \in {} |-> 0]>> \o @]

CloseScope(s) == [s EXCEPT !.scopes = Tail(@)]

IsTypedef(s, token) ==
  token \in Names /\ Bound(s, token) /\ Lookup(s, token).class = "typedef"

DeclStart(s, token) == token \in {"int", "enum", "typedef", "static"} \/ IsTypedef(s, token)

-----------------------------------------------------------------------------
(* Expressions. `Returns' puts a value in the field. *)

RECURSIVE Cast(_), Assignment(_), Expression(_), Initializer(_, _), Postfix(_),
          Divisions(_), Arguments(_, _), Elements(_, _)

Returns(s, value) == [s EXCEPT !.value = value]

\* A comma has the type of what is behind it.
Comma(s) ==
  Returns(s, Value(IF s.value.node THEN s.value.type ELSE Number, FALSE, NoConstant))

Commas(s) == IF Sees(s, ",") THEN Comma(Expression(Take(s))) ELSE s

Expression(s) == Commas(Assignment(s))

\* parse_identifier: the class of the name makes no difference.
Identifier(s, name, at) ==
  IF Bound(s, name)
  THEN LET symbol == Lookup(s, name) IN
       Returns(s, Value(symbol.type, TRUE, symbol.constant))
  ELSE Returns(Bind(WrongAt(s, at), name, Symbol("object", Number)),
               Value(Number, TRUE, NoConstant))

Primary(s) ==
  CASE Sees(s, End) -> Returns(Wrong(s), Null)
    [] Sees(s, "1") -> Returns(Take(s), Value(Number, FALSE, 1))
    [] Sees(s, "(") -> Expect(Expression(Take(s)), ")")
    [] SeesName(s) -> Identifier(Take(s), Peek(s), s.at)
    [] OTHER -> Returns(Take(Wrong(s)), Null)

\* implicit_conversion and assignment_compatible
Converts(type, value) == ~value.node \/ value.type = type

\* The list of arguments is lost behind one that has no node.
Joined(sofar, value) ==
  IF sofar # <<>> /\ ~Last(sofar).node THEN <<value>> ELSE Append(sofar, value)

\* The arguments, and the closing parenthesis.
MoreArguments(s, list) ==
  IF Sees(s, ",") THEN Arguments(Take(s), list)
  ELSE [Expect(s, ")") EXCEPT !.arguments = list]

ArgumentAdded(s, sofar) == MoreArguments(s, Joined(sofar, s.value))

Arguments(s, sofar) == ArgumentAdded(Assignment(s), sofar)

ArgumentList(s) ==
  IF Sees(s, ")") THEN [Take(s) EXCEPT !.arguments = <<>>] ELSE Arguments(s, <<>>)

Called(s, callee, at) ==
  LET given == SelectSeq(s.arguments, LAMBDA value : value.node)
      wanted == callee.type.parameters
      right == /\ callee.node /\ callee.type.function
               /\ Len(given) = Len(wanted)
               /\ \A i \in 1..Len(wanted) : Converts(wanted[i], given[i])
  IN  Returns(IF right THEN s ELSE WrongAt(s, at), Plain)

\* parse_postfix_from
Postfix(s) ==
  IF Sees(s, "(") THEN Postfix(Called(ArgumentList(Take(s)), s.value, s.at)) ELSE s

Unary(s) == IF Sees(s, End) THEN Returns(s, Null) ELSE Postfix(Primary(s))

-----------------------------------------------------------------------------
(* Specifiers and declarators *)

RECURSIVE Specifiers(_, _), Enumerators(_, _), DeclaratorSuffixes(_, _), Parameters(_, _)

\* The values of a list, until one is not a name or is bound anywhere already.
Enumerators(s, next) ==
  IF Sees(s, "}") \/ Sees(s, End) THEN Expect(s, "}")
  ELSE IF ~SeesName(s) THEN [Wrong(s) EXCEPT !.ok = FALSE]
  ELSE LET named == Take(s)
           equals == Take(named)
           set == CASE ~Sees(named, "=") -> named
                    [] Sees(named, "=") /\ Sees(equals, "1") -> Take(equals)
                    [] OTHER -> Wrong(equals)
           value == IF Sees(named, "=") /\ Sees(equals, "1") THEN 1 ELSE next
           bound == Bind(set, Peek(s),
                         [Symbol("constant", Number) EXCEPT !.constant = value])
       IN  IF Bound(set, Peek(s)) THEN [WrongAt(set, s.at) EXCEPT !.ok = FALSE]
           ELSE IF Sees(bound, ",") THEN Enumerators(Take(bound), value + 1)
           ELSE Expect(bound, "}")

EnumSpecifier(s) ==
  LET tagged == IF SeesName(s) THEN Take(s) ELSE s IN
  CASE Sees(tagged, "{") -> Enumerators(Take(tagged), 0)
    [] ~Sees(tagged, "{") /\ SeesName(s) -> [tagged EXCEPT !.ok = TRUE]
    [] OTHER -> [Wrong(tagged) EXCEPT !.ok = FALSE]

Tagged(s, spec) == IF s.ok THEN Specifiers(s, [spec EXCEPT !.typed = TRUE]) ELSE s

\* The specifiers from here on. `int' does not stop the name of a type from being
\* another one; a name that is no type ends them.
Specifiers(s, spec) ==
  CASE Sees(s, "typedef") \/ Sees(s, "static") ->
         Specifiers(Take(s), [spec EXCEPT !.storage = Peek(s)])
    [] Sees(s, "enum") /\ ~spec.typed ->
         Tagged(EnumSpecifier(Take(s)), spec)
    [] Sees(s, "int") -> Specifiers(Take(s), [spec EXCEPT !.int = TRUE])
    [] ~spec.typed /\ IsTypedef(s, Peek(s)) ->
         Specifiers(Take(s), [spec EXCEPT !.typed = TRUE, !.type = Lookup(s, Peek(s)).type])
    [] OTHER ->
         LET shaped == Peek(s) \in {";", "(", End} \cup Names
             done == [s EXCEPT !.ok = TRUE, !.spec = spec]
         IN  IF spec.typed \/ spec.int \/ shaped THEN done ELSE Wrong(done)

DeclSpecs(s) ==
  Specifiers(s, [storage |-> "none", type |-> Number, typed |-> FALSE, int |-> FALSE])

\* A declarator is a name, or none, and the parameters behind it.
Declarator(s, base) ==
  LET named == [s EXCEPT !.type = base, !.parameters = <<>>, !.name = NoName] IN
  DeclaratorSuffixes(IF SeesName(s) THEN [Take(named) EXCEPT !.name = Peek(s)] ELSE named, base)

\* The parameters, and the closing parenthesis.
MoreParameters(s, list) ==
  IF Sees(s, ",") THEN Parameters(Take(s), list)
  ELSE [Expect(s, ")") EXCEPT !.parameters = list]

ParameterAdded(s, sofar) ==
  IF s.ok THEN MoreParameters(s, Append(sofar, [name |-> s.name, type |-> s.type])) ELSE s

ParameterSpecified(s, sofar) ==
  IF s.ok THEN ParameterAdded(Declarator(s, s.spec.type), sofar) ELSE s

Parameters(s, sofar) == ParameterSpecified(DeclSpecs(s), sofar)

ParameterList(s) ==
  IF Sees(s, ")") THEN [Take(s) EXCEPT !.ok = TRUE, !.parameters = <<>>]
  ELSE Parameters(s, <<>>)

WithParameters(s, name, type) ==
  LET kept == [s EXCEPT !.name = name]
      types == [i \in 1..Len(s.parameters) |-> s.parameters[i].type]
  IN  IF ~s.ok THEN kept
      ELSE DeclaratorSuffixes(IF type.function THEN Wrong(kept) ELSE kept, FunctionOf(types))

DeclaratorSuffixes(s, type) ==
  IF Sees(s, "(") THEN WithParameters(ParameterList(Take(s)), s.name, type)
  ELSE [s EXCEPT !.ok = TRUE, !.type = type]

\* parse_type_name: the type, and whether there is one.
Unnamed(s) == IF s.name # NoName THEN Wrong(s) ELSE s

NamedType(s) == IF s.ok THEN Unnamed(Declarator(s, s.spec.type)) ELSE s

TypeName(s) == NamedType(DeclSpecs(s))

-----------------------------------------------------------------------------
(* Expressions again *)

\* `( type ) {' at file scope, or of a function.
CompoundLiteral(s, type, known, at) ==
  LET over == SkipTo(WrongAt(s, at), "}") IN
  IF ~known \/ Len(s.scopes) = 1
  THEN Returns(IF Sees(over, "}") THEN Take(over) ELSE over, Null)
  ELSE Returns(Initializer(s, type), Value(type, TRUE, NoConstant))

MakeCast(s, type, known, at) ==
  IF ~s.value.node \/ ~known THEN s
  ELSE IF type.function THEN WrongAt(s, at)
  ELSE Returns(s, Value(Number, FALSE, s.value.constant))

\* What stands behind the type in parentheses.
Operand(s, type, known, at) ==
  IF Sees(s, "{") THEN Postfix(CompoundLiteral(s, type, known, at))
  ELSE MakeCast(Cast(s), type, known, at)

CastTo(s, at) == Operand(Expect(s, ")"), s.type, s.ok, at)

Cast(s) ==
  IF Sees(s, "(") /\ DeclStart(s, PeekNext(s)) THEN CastTo(TypeName(Take(s)), s.at)
  ELSE Unary(s)

\* make_binary
Divided(s, left, at) ==
  LET right == s.value
      constant == IF left.constant = NoConstant \/ right.constant \in {NoConstant, 0}
                  THEN NoConstant ELSE left.constant \div right.constant
  IN  IF ~left.node \/ ~right.node THEN Returns(s, Null)
      ELSE Returns(IF left.type.function \/ right.type.function THEN WrongAt(s, at) ELSE s,
                   Value(Number, FALSE, constant))

Divisions(s) ==
  IF ~Sees(s, "/") THEN s
  ELSE Divisions(Divided(Cast(Take(s)), s.value, s.at))

Conditional(s) == Divisions(Cast(s))

\* The type of the target is asked for even when there is no target.
Stored(s, target, at) ==
  LET right == ~target.node \/ Converts(target.type, s.value) IN
  [Returns(IF right THEN s ELSE WrongAt(s, at), Value(target.type, FALSE, NoConstant))
     EXCEPT !.crashed = @ \/ (s.value.node /\ ~target.node)]

Assigned(s) ==
  IF ~Sees(s, "=") THEN s
  ELSE Stored(Assignment(Take(IF s.value.lvalue THEN s ELSE Wrong(s))), s.value, s.at)

Assignment(s) == Assigned(Conditional(s))

\* The elements of a list; a comma may stand behind the last.
MoreElements(s, type) ==
  CASE Sees(s, ",") /\ PeekNext(s) # "}" -> Elements(Take(s), type)
    [] Sees(s, ",") /\ PeekNext(s) = "}" -> Take(s)
    [] OTHER -> s

Elements(s, type) == MoreElements(Initializer(s, type), type)

List(s, type) == Expect(IF Sees(s, "}") THEN s ELSE Elements(s, type), "}")

Fitting(s, type, at) ==
  IF type.function \/ Converts(type, s.value) THEN s ELSE WrongAt(s, at)

Initializer(s, type) ==
  Returns(IF Sees(s, "{") THEN List(Take(s), type) ELSE Fitting(Assignment(s), type, s.at),
          Plain)

-----------------------------------------------------------------------------
(* Statements. The value is a node, or Null for a declaration that makes none. *)

RECURSIVE Statement(_), Statements(_), LocalDeclarators(_, _, _)

Node(s) == Returns(s, Plain)

NodeIf(s, node) == Returns(s, IF node THEN Plain ELSE Null)

LocalObject(s, name, type, at) ==
  LET bound == IF BoundHere(s, name) THEN WrongAt(s, at)
               ELSE Bind(s, name, Symbol("object", type))
  IN  IF Sees(bound, "=") THEN Initializer(Take(bound), type) ELSE bound

\* The rest of parse_local_declaration; `first' says whether there is a node.
MoreLocals(s, spec, first) ==
  IF Sees(s, ",") THEN LocalDeclarators(Take(s), spec, first)
  ELSE NodeIf(Expect(s, ";"), first)

Local(s, spec, first) ==
  LET typedef == spec.storage = "typedef" IN
  CASE ~s.ok \/ s.name = NoName -> NodeIf(Wrong(s), first)
    [] s.ok /\ s.name # NoName /\ typedef /\ BoundHere(s, s.name) -> NodeIf(Wrong(s), first)
    [] s.ok /\ s.name # NoName /\ typedef /\ ~BoundHere(s, s.name) ->
         MoreLocals(Bind(s, s.name, Symbol("typedef", s.type)), spec, first)
    [] s.ok /\ s.name # NoName /\ ~typedef /\ s.type.function -> MoreLocals(Wrong(s), spec, first)
    [] OTHER -> MoreLocals(LocalObject(s, s.name, s.type, s.at), spec, TRUE)

LocalDeclarators(s, spec, first) == Local(Declarator(s, spec.type), spec, first)

LocalSpecified(s) ==
  CASE ~s.ok -> Returns(s, Null)
    [] s.ok /\ Sees(s, ";") -> Node(Take(s))
    [] OTHER -> LocalDeclarators(s, s.spec, FALSE)

LocalDeclaration(s) == LocalSpecified(DeclSpecs(s))

\* A statement that makes no node ends the block: what is left of it is passed over.
MoreStatements(s) == IF s.value.node THEN Statements(s) ELSE SkipTo(s, "}")

Statements(s) ==
  IF Sees(s, "}") \/ Sees(s, End) \/ s.failed THEN s
  ELSE MoreStatements(Statement(s))

\* parse_compound
BlockLeftOpen(s) == Node(Expect(Statements(OpenScope(Expect(s, "{"))), "}"))

Block(s) == Node(CloseScope(Expect(Statements(OpenScope(Expect(s, "{"))), "}")))

Parenthesized(s) == Expect(Expression(Expect(s, "(")), ")")

InLoop(s) ==
  LET body == Statement([s EXCEPT !.loops = @ + 1]) IN [body EXCEPT !.loops = @ - 1]

InSwitch(s) ==
  LET body == Statement([s EXCEPT !.switches = @ + 1]) IN [body EXCEPT !.switches = @ - 1]

\* parse_static_assert, behind the keyword.
Judged(s, at) ==
  CASE s.value.constant = NoConstant -> Wrong(s)
    [] s.value.constant = 0 -> WrongAt(s, at)
    [] OTHER -> s

Assertion(s, at) ==
  Node(Expect(Expect(SkipTo(Judged(Conditional(Expect(s, "(")), at), ")"), ")"), ";"))

Else(s) == IF Sees(s, "else") THEN Statement(Take(s)) ELSE s

\* The statements that begin with a condition, from behind it.
Guarded(s, keyword) ==
  CASE keyword = "if" -> Else(Statement(s))
    [] keyword = "while" -> InLoop(s)
    [] keyword = "switch" -> InSwitch(s)

Do(s) == Expect(Parenthesized(Expect(InLoop(s), "while")), ";")

ForInit(s) ==
  CASE Sees(s, ";") -> Take(s)
    [] DeclStart(s, Peek(s)) -> LocalDeclaration(s)
    [] OTHER -> Expect(Expression(s), ";")

\* An expression that may be left out in front of the token.
Optional(s, token) == Expect(IF Sees(s, token) THEN s ELSE Expression(s), token)

For(s) ==
  CloseScope(InLoop(Optional(Optional(ForInit(OpenScope(Expect(s, "("))), ";"), ")")))

\* A label or a jump that is in no switch or loop is reported at its keyword.
Within(s, allowed, at) == IF allowed THEN s ELSE WrongAt(s, at)

Goto(s) ==
  LET label == Take(s) IN
  Expect(IF SeesName(s) THEN label ELSE WrongAt(label, s.at), ";")

Return(s, at) ==
  Within(Optional(s, ";"), s.function, at)

Keywords == {"if", "while", "do", "for", "switch", "case", "default", "break", "continue",
             "return", "goto", "_Static_assert"}

KeywordStatement(s, keyword, at) ==
  CASE keyword \in {"if", "while", "switch"} -> Guarded(Parenthesized(s), keyword)
    [] keyword = "do" -> Do(s)
    [] keyword = "for" -> For(s)
    [] keyword = "case" -> Within(Expect(Conditional(s), ":"), s.switches > 0, at)
    [] keyword = "default" -> Within(Expect(s, ":"), s.switches > 0, at)
    [] keyword = "break" -> Within(Expect(s, ";"), s.loops > 0 \/ s.switches > 0, at)
    [] keyword = "continue" -> Within(Expect(s, ";"), s.loops > 0, at)
    [] keyword = "return" -> Return(s, at)
    [] keyword = "goto" -> Goto(s)
    [] keyword = "_Static_assert" -> Assertion(s, at)

Statement(s) ==
  CASE Sees(s, End) -> Returns(s, Null)
    [] Peek(s) \in Keywords -> Node(KeywordStatement(Take(s), Peek(s), s.at))
    [] Sees(s, "{") -> Block(s)
    [] Sees(s, ";") -> Node(Take(s))
    [] SeesName(s) /\ PeekNext(s) = ":" -> Node(Take(Take(s)))
    [] DeclStart(s, Peek(s)) /\ PeekNext(s) # ":" -> LocalDeclaration(s)
    [] OTHER -> Node(Expect(Expression(s), ";"))

-----------------------------------------------------------------------------
(* External declarations *)

\* define_symbol: a name keeps its class, and takes the new type.
DefineSymbol(s, name, type, initialized) ==
  LET class == IF type.function THEN "function" ELSE "object"
      old == IF Bound(s, name) THEN Lookup(s, name) ELSE Symbol(class, type)
      new == [old EXCEPT !.type = type, !.initialized = @ \/ initialized]
      wrong == old.class # class \/ (initialized /\ old.initialized)
  IN  Bind(IF wrong THEN Wrong(s) ELSE s, name, new)

DefineType(s, name, type) ==
  LET conflict == Bound(s, name) /\
                    (Lookup(s, name).class # "typedef" \/ Lookup(s, name).type # type)
  IN  [(IF conflict THEN Wrong(s)
        ELSE IF Bound(s, name) THEN s ELSE Bind(s, name, Symbol("typedef", type)))
         EXCEPT !.ok = ~conflict]

AddNode(s) == [s EXCEPT !.nodes = @ + 1]

\* parse_function_definition
FunctionDefinition(s, name, type, parameters) ==
  LET defined == DefineSymbol(s, name, type, TRUE)
      BindOne(state, p) ==
        IF p.name = NoName THEN state ELSE Bind(state, p.name, Symbol("object", p.type))
      inside == FoldLeft(BindOne, OpenScope(defined), parameters)
      body == Block([inside EXCEPT !.function = TRUE])
  IN  AddNode([CloseScope(body) EXCEPT !.function = FALSE])

\* An object or function that is declared, and maybe set.
DeclareName(s, name, type) ==
  LET set == Sees(s, "=")
      defined == DefineSymbol(s, name, type, set)
  IN  IF set THEN AddNode(Initializer(Take(defined), type))
      ELSE IF type.function THEN defined ELSE AddNode(defined)

RECURSIVE GlobalDeclarators(_, _)

MoreGlobals(s, spec) ==
  IF Sees(s, ",") THEN GlobalDeclarators(Take(s), spec) ELSE Expect(s, ";")

TypeDefined(s, spec) == IF s.ok THEN MoreGlobals(s, spec) ELSE s

Global(s, spec) ==
  LET typedef == spec.storage = "typedef" IN
  CASE ~s.ok \/ s.name = NoName -> Wrong(s)
    [] s.ok /\ s.name # NoName /\ typedef ->
         TypeDefined(DefineType(s, s.name, s.type), spec)
    [] s.ok /\ s.name # NoName /\ ~typedef /\ s.type.function /\ Sees(s, "{") ->
         FunctionDefinition(s, s.name, s.type, s.parameters)
    [] OTHER -> MoreGlobals(DeclareName(s, s.name, s.type), spec)

GlobalDeclarators(s, spec) == Global(Declarator(s, spec.type), spec)

\* parse_global_declaration
GlobalDeclaration(s) ==
  IF Sees(s, ";") THEN Take(s) ELSE GlobalDeclarators(s, s.spec)

-----------------------------------------------------------------------------
(* parser_next, one external declaration after the other. *)

Parsing == stage = "parsing" /\ ~parser.failed /\ ~Sees(parser, End)

Step(s) ==
  /\ parser' = s
  /\ stage' = IF s.crashed THEN "crashed" ELSE stage
  /\ UNCHANGED unit

Empty == Parsing /\ Sees(parser, ";") /\ Step(Take(parser))

AssertFileScope ==
  /\ Parsing /\ Sees(parser, "_Static_assert")
  /\ Step(Assertion(Take(parser), parser.at))

Begun == DeclSpecs([parser EXCEPT !.errored = FALSE])

Declaring == Parsing /\ Peek(parser) \notin {";", "_Static_assert"}

\* Specifiers that cannot be read are passed over with what follows them.
Unspecified ==
  /\ Declaring /\ ~Begun.ok
  /\ LET over == SkipTo(Begun, ";") IN
     Step(IF Sees(over, ";") THEN Take(over) ELSE over)

\* The nodes of a declaration that was rejected are dropped. The loop that would
\* look for its terminator asks for a position that was passed already, so that
\* one token is taken, whatever it is.
RecoveredNot(s, before) == [s EXCEPT !.nodes = before]

Recovered(s, before) == [Take(s) EXCEPT !.nodes = before]

Reject ==
  /\ Declaring /\ Begun.ok
  /\ \E read \in {GlobalDeclaration(Begun)} :
     /\ ~read.failed /\ read.errored
     /\ Step(Recovered(read, parser.nodes))

Keep ==
  /\ Declaring /\ Begun.ok
  /\ \E read \in {GlobalDeclaration(Begun)} :
     /\ read.failed \/ ~read.errored
     /\ Step(read)

\* parser_finish
AcceptedAnyway(s) == ~s.failed

Accepted(s) == ~s.failed /\ s.reported = {}

Finish ==
  /\ stage = "parsing"
  /\ parser.failed \/ Sees(parser, End)
  /\ stage' = IF Accepted(parser) THEN "accepted" ELSE "refused"
  /\ UNCHANGED <<unit, parser>>

-----------------------------------------------------------------------------
TextOf(pieces) == FlattenSeq([i \in 1..Len(pieces) |-> pieces[i].text])

Init ==
  /\ unit \in Units
  /\ parser =
       [text |-> TextOf(unit), at |-> 1, scopes |-> <<[name \in {} |-> 0]>>,
        loops |-> 0, switches |-> 0, function |-> FALSE,
        errored |-> FALSE, failed |-> FALSE, crashed |-> FALSE,
        reported |-> {}, skipped |-> {}, nodes |-> 0,
        value |-> Null, arguments |-> <<>>, ok |-> TRUE, name |-> NoName,
        type |-> Number, parameters |-> <<>>,
        spec |-> [storage |-> "none", type |-> Number, typed |-> FALSE, int |-> FALSE]]
  /\ stage = "parsing"

Next == Empty \/ AssertFileScope \/ Unspecified \/ Reject \/ Keep \/ Finish

Spec == Init /\ [][Next]_vars

-----------------------------------------------------------------------------
\* Between two declarations the parser is at file scope, in no function, loop or
\* switch, however the one before ended; and it is somewhere in the unit.
TypeOK ==
  /\ stage \in {"parsing", "accepted", "refused", "crashed"}
  /\ parser.at \in 1..(Len(parser.text) + 1)
  /\ parser.reported \subseteq 1..(Len(parser.text) + 1)
  /\ Len(parser.scopes) = 1
  /\ parser.loops = 0 /\ parser.switches = 0 /\ ~parser.function

\* What C says: a piece is wrong if it is, if a name it uses is not what it takes
\* it for, or if it declares or sets a name again that it must not.
Declared(i) == UNION {unit[j].gives : j \in 1..(i - 1)}

Conflicts(one, two) == one[1] = two[1] /\ (one[2] # two[2] \/ (one[3] /\ two[3]))

WrongPiece(i) ==
  \/ ~unit[i].good
  \/ \E need \in unit[i].needs : \A d \in Declared(i) : <<d[1], d[2]>> # need
  \/ \E d \in Declared(i), own \in unit[i].gives : Conflicts(d, own)

WrongPieces == {i \in 1..Len(unit) : WrongPiece(i)}

Begins(i) == 1 + Len(TextOf(SubSeq(unit, 1, i - 1)))

\* A unit is accepted if and only if nothing is wrong with it, and then every
\* definition has its node. If it is refused, the first mistake is the first to be
\* blamed: a diagnostic is in that declaration or at the token behind it, and none
\* is before it.
VerdictRight ==
  /\ stage = "accepted" =>
       /\ WrongPieces = {}
       /\ parser.nodes = FoldLeft(LAMBDA sum, piece : sum + piece.nodes, 0, unit)
  /\ stage = "refused" =>
       /\ WrongPieces # {}
       /\ LET first == Min(WrongPieces) IN
          Min(parser.reported) \in Begins(first)..Begins(first + 1)

\* No declaration, however broken, holds the parser at the same position for ever:
\* each step takes a token or is the last.
Advances == [][parser'.at > parser.at \/ stage' # "parsing"]_vars

\* A unit that is accepted was read: nothing of it was passed over.
NothingSkipped == stage = "accepted" => parser.skipped = {}

\* "A program with several independent mistakes should report all of them": each
\* declaration that is wrong by itself has a diagnostic.
MistakesReported ==
  stage = "refused" =>
    \A i \in WrongPieces : parser.reported \cap Begins(i)..Begins(i + 1) # {}

\* A declaration nothing is wrong with has no diagnostic.
OthersNotBlamed ==
  stage = "refused" =>
    \A i \in 2..Len(unit) :
      i \notin WrongPieces => parser.reported \cap (Begins(i) + 1)..(Begins(i + 1) - 1) = {}

\* The compiler itself does not stop.
NoCrash == stage # "crashed"
=============================================================================
