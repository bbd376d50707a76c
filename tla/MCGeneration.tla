---------------------------- MODULE MCGeneration ----------------------------
(***************************************************************************)
(* Small programs: nested control flow, calls that pass and return numbers *)
(* and structures in every position, expressions around them, variadic     *)
(* functions, and functions C forbids.                                     *)
(***************************************************************************)
EXTENDS Generation

-----------------------------------------------------------------------------
(* Trees *)

Integer(type, n) == [kind |-> "integer", type |-> type, value |-> n]
Whole1(n) == Integer(IntType, n)
Variable(name, type) == [kind |-> "identifier", name |-> name, type |-> type]
Cast(type, a) == [kind |-> "cast", type |-> type, a |-> a]
BinaryNode(op, type, a, b) == [kind |-> "binary", op |-> op, type |-> type, a |-> a, b |-> b]
Plus(a, b) == BinaryNode("add", a.type, a, b)
Assign(a, b) == [kind |-> "assign", type |-> a.type, a |-> a, b |-> b, compound |-> FALSE, op |-> "none"]
CompoundAssign(op, a, b) ==
  [kind |-> "assign", type |-> a.type, a |-> a, b |-> BinaryNode(op, a.type, a, b), compound |-> TRUE, op |-> op]
Increment(a, op, post) == [kind |-> "increment", type |-> a.type, a |-> a, op |-> op, post |-> post]
Minus(a) == [kind |-> "unary", op |-> "neg", type |-> a.type, a |-> a]
Not(a) == [kind |-> "unary", op |-> "not", type |-> IntType, a |-> a]
Conditional(a, b, c) == [kind |-> "conditional", type |-> b.type, a |-> a, b |-> b, c |-> c]
Comma(a, b) == [kind |-> "comma", type |-> b.type, a |-> a, b |-> b]
Member(a, i) ==
  LET type == IF IsPointer(a.type) THEN a.type.to ELSE a.type
  IN [kind |-> "member", type |-> type.member, a |-> a, offset |-> MemberOffset(type, i)]
Literal(type, args) == [kind |-> "literal", type |-> type, args |-> args]
TypedPointer(type) ==
  [kind |-> "pointer", size |-> WordSize, align |-> WordSize, base |-> type.size, to |-> type]
AddressOfNode(a) == [kind |-> "address", type |-> TypedPointer(a.type), a |-> a]
Dereference(a) == [kind |-> "dereference", type |-> a.type.to, a |-> a]

CallOf(callee, result, args) == [kind |-> "call", type |-> result, a |-> callee, args |-> args]
NamedCall(name, result, args) == CallOf(Variable(name, FunctionType(result, FALSE)), result, args)
Ask == NamedCall("ask", IntType, <<>>)

Nothing == [kind |-> "null"]
Run1(node) == [kind |-> "expression", value |-> node]
Put(node) == Run1(NamedCall("put", VoidType, <<node>>))
PutNumber(n) == Put(Whole1(n))
Show(a, b, c) == Run1(NamedCall("show", VoidType, <<a, b, c>>))
Block(list) == [kind |-> "compound", list |-> list]
Declare(name, type, value) ==
  [kind |-> "declaration", name |-> name, type |-> type, braced |-> FALSE, value |-> value]
DeclareList(name, type, value) == [Declare(name, type, value) EXCEPT !.braced = TRUE]
ReturnOf(node) == [kind |-> "return", value |-> <<node>>]
Statement(kind, cond, body) ==
  [kind |-> kind, cond |-> cond, init |-> Nothing, step |-> NoNode, body |-> body, other |-> <<>>]
If(cond, body, other) == [Statement("if", cond, body) EXCEPT !.other = other]
For(init, cond, step, body) == [Statement("for", cond, body) EXCEPT !.init = init, !.step = step]
Case(n) == [kind |-> "case", value |-> n]
Default == [kind |-> "default"]
Goto(name) == [kind |-> "goto", name |-> name]
Labelled(name, body) == [kind |-> "labelled", label |-> [kind |-> "label", name |-> name], body |-> body]

Function(name, result, parameters, list) ==
  [name |-> name, result |-> result, parameters |-> parameters, variadic |-> FALSE, body |-> Block(list)]
Main(list) == Function("main", IntType, <<>>, list \o <<ReturnOf(Whole1(3))>>)

\* A word is shown as its two bytes.
ShowLong(node) ==
  <<Put(Cast(IntType, node)),
    Put(Cast(IntType, BinaryNode("div", LongType, node, Integer(LongType, Base))))>>

-----------------------------------------------------------------------------
(* Control flow: a statement in a statement, and every way out of it *)

Leaves ==
  {PutNumber(9), ReturnOf(Whole1(5)), Goto("out")}
    \cup {[kind |-> kind] : kind \in {"break", "continue"}}

Nest(kind, mark, inner) ==
  LET body == Block(<<PutNumber(mark), inner, PutNumber(mark + 1)>>)
  IN CASE kind = "else" -> If(Ask, body, <<PutNumber(mark + 2)>>)
       [] kind = "otherwise" -> If(Ask, PutNumber(mark + 2), <<body>>)
       [] kind = "if" -> If(Ask, body, <<>>)
       [] kind = "for" -> For(Put(Whole1(mark + 3)), Ask, NamedCall("put", VoidType, <<Whole1(mark + 4)>>), body)
       [] kind = "forever" ->
            For(Nothing, NoNode, NoNode, Block(<<If(Not(Ask), [kind |-> "break"], <<>>), body>>))
       [] kind = "switch" ->
            Statement("switch", Ask,
                      Block(<<Case(Whole1(0)), body, Case(Whole1(2)), PutNumber(mark + 2), Default, PutNumber(mark + 3)>>))
       [] OTHER -> Statement(kind, Ask, body)

Kinds == {"if", "else", "otherwise", "while", "do", "for", "forever", "switch"}
Loops == {"while", "do", "for", "forever"}

Fits(leaf, kinds) ==
  CASE leaf.kind = "continue" -> kinds \cap Loops # {}
    [] leaf.kind = "break" -> kinds \cap (Loops \cup {"switch"}) # {}
    [] OTHER -> TRUE

ControlPrograms ==
  {<<Main(<<Nest(outer, 10, Nest(inner, 20, leaf)), PutNumber(30), Labelled("out", PutNumber(31))>>)>> :
     <<outer, inner, leaf>> \in {t \in Kinds \X Kinds \X Leaves : Fits(t[3], {t[1], t[2]})}}

-----------------------------------------------------------------------------
(* Calls: every way a value is passed and returned, in every place of an   *)
(* expression                                                              *)

Pair == Struct(2, LongType)
Triple == Struct(3, LongType)

Members(node) ==
  IF IsStruct(node.type) THEN <<>> \o [i \in 1..node.type.count |-> Member(node, i)] ELSE <<node>>

ShowNumber(node) ==
  CASE node.type = LongType -> ShowLong(node)
    [] IsSigned(node.type) -> <<Put(node)>>
    [] OTHER -> <<Put(Cast(IntType, node))>>
ShowValue(node) == Joined([i \in 1..Len(Members(node)) |-> ShowNumber(Members(node)[i])])
ShowValues(nodes) == Joined([i \in 1..Len(nodes) |-> ShowValue(nodes[i])])

\* A variable with numbers of its own in its members.
DeclareNumbers(name, type, seed) ==
  IF IsStruct(type)
  THEN DeclareList(name, type,
                   <<>> \o [i \in 1..type.count |->
                              Integer(type.member, IF type.member = LongType THEN 300 * seed + i ELSE 10 * seed + i)])
  ELSE Declare(name, type, <<Integer(type, seed)>>)

Scalar(node) == Cast(IntType, Members(node)[1])

ParameterNames == <<"a", "b", "c">>
Named1(types) == <<>> \o [i \in 1..Len(types) |-> [name |-> ParameterNames[i], type |-> types[i]]]
Variables(types) == <<>> \o [i \in 1..Len(types) |-> Variable(ParameterNames[i], types[i])]
DeclareAll(types) == <<>> \o [i \in 1..Len(types) |-> DeclareNumbers(ParameterNames[i], types[i], i)]

\* It shows what it is given, writes over it, and shows it again once something else was
\* called.
Callee(types, result) ==
  LET own == Variables(types)
      Written(i) ==
        LET first == Members(own[i])[1] IN Run1(CompoundAssign("add", first, Integer(first.type, 1)))
  IN Function("f", result, Named1(types),
              ShowValues(own) \o [i \in 1..Len(own) |-> Written(i)] \o <<Put(Ask)>> \o ShowValues(own)
                \o <<DeclareNumbers("r", result, 4), ReturnOf(Variable("r", result))>>)

\* It shows its second argument.
Shower(type) ==
  Function("g", VoidType, <<[name |-> "n", type |-> IntType], [name |-> "v", type |-> type]>>,
           <<Put(Variable("n", IntType))>> \o ShowValue(Variable("v", type)))

CallerBody(types, result, place) ==
  LET call == NamedCall("f", result, Variables(types))
      pointer == Variable("p", PointerTo(0))
  IN CASE place = "alone" ->
            <<Declare("r", result, <<call>>)>> \o ShowValue(Variable("r", result))
       [] place = "operand" -> <<Put(Plus(Whole1(1), Scalar(call)))>>
       [] place = "among arguments" -> <<Show(Whole1(7), Scalar(call), Whole1(8))>>
       [] place = "argument" -> <<Run1(NamedCall("g", VoidType, <<Whole1(6), call>>))>>
       [] place = "through a pointer" ->
            <<Declare("p", PointerTo(0), <<Variable("f", FunctionType(result, FALSE))>>),
              Put(Plus(Whole1(1), Scalar(CallOf(pointer, result, Variables(types)))))>>

CallProgram(types, result, place) ==
  When(place = "argument", <<Shower(result)>>)
    \o <<Callee(types, result),
         Main(DeclareAll(types) \o CallerBody(types, result, place) \o ShowValues(Variables(types)))>>

Places == {"alone", "operand", "among arguments", "argument"}

TypeLists(types) == UNION {[1..n -> types] : n \in 0..3}

\* Structures that fill their last word only partly, or are one word: in registers.
Small == {Struct(2, IntType), Struct(3, IntType), Struct(1, LongType), Struct(2, ShortType), Struct(4, ShortType)}

CallPrograms ==
  {CallProgram(types, result, place) :
     types \in TypeLists({IntType, Pair, Triple}), result \in {IntType, Pair, Triple}, place \in Places}
    \cup {CallProgram(types, result, "through a pointer") :
            types \in TypeLists({IntType, Triple}), result \in {IntType, Pair, Triple}}
    \cup {CallProgram(<<type>>, result, place) :
            type \in Small, result \in Small, place \in {"alone", "operand"}}
    \cup {CallProgram(<<type>>, Struct(5, IntType), place) :
            type \in {t \in Small : Pieces(t) = 1}, place \in {"alone", "operand"}}

-----------------------------------------------------------------------------
(* Expressions *)

Pointer1 == TypedPointer(LongType)
X == Variable("x", IntType)
L == Variable("l", LongType)
S == Variable("s", Pair)
T == Variable("t", Triple)
P == Variable("p", Pointer1)
Q == Variable("q", TypedPointer(Triple))
And(a, b) == BinaryNode("and", IntType, a, b)
Or(a, b) == BinaryNode("or", IntType, a, b)
Less(a, b) == BinaryNode("less", IntType, a, b)
Equal(a, b) == BinaryNode("equal", IntType, a, b)
Times(a, b) == BinaryNode("mul", a.type, a, b)
Divide(a, b) == BinaryNode("div", a.type, a, b)
Long1(n) == Integer(LongType, n)

\* Which operands of nested logical operators are evaluated, and their value where it is
\* shown, branched on, passed among others and negated.
LogicalPrograms ==
  LET Logical(op, a, b) == IF op = "and" THEN And(a, b) ELSE Or(a, b)
      Trees == {Logical(o, Ask, Logical(i, Ask, Ask)) : o, i \in Logicals}
                 \cup {Logical(o, Logical(i, Ask, Ask), Ask) : o, i \in Logicals}
      Uses(tree) == {<<Put(tree)>>, <<If(tree, PutNumber(8), <<PutNumber(9)>>)>>,
                     <<Show(Whole1(1), Whole1(2), tree)>>, <<Put(Not(tree))>>,
                     <<Put(Plus(Whole1(2), Conditional(tree, Minus(Ask), Plus(tree, tree))))>>}
  IN {<<Main(use)>> : use \in UNION {Uses(tree) : tree \in Trees}}

\* Increments and compound assignments through a variable, a member and a pointer.
H == Variable("h", ShortType)
U == Variable("u", UnsignedOf(IntType))
B == Variable("b", UnsignedOf(ShortType))
Places1 == {X, L, H, U, B, Member(S, 2), Member(Dereference(Q), 3), Dereference(P)}

AssignPrograms ==
  LET Set1(a, n) == Run1(Assign(a, Integer(a.type, n)))
      Given == <<Declare("x", IntType, <<>>), Declare("h", ShortType, <<>>), Declare("u", U.type, <<>>),
                 Declare("b", B.type, <<>>), Declare("l", LongType, <<>>), DeclareNumbers("s", Pair, 3),
                 DeclareNumbers("t", Triple, 2), Declare("q", Q.type, <<AddressOfNode(T)>>),
                 Declare("p", Pointer1, <<AddressOfNode(Member(S, 1))>>)>>
      Tested(a, node) == <<Main(Given \o <<Set1(a, 21)>> \o ShowNumber(node) \o ShowNumber(a) \o ShowValues(<<S, T>>))>>
  IN {Tested(a, Increment(a, op, post)) : a \in Places1, op \in {"add", "sub"}, post \in BOOLEAN}
       \cup UNION {{Tested(a, CompoundAssign(op, a, b)) :
                      op \in Arithmetic, 
                      b \in {Integer(Promoted(a.type), 3)}
                              \cup (IF a = B THEN {} ELSE {Minus(Integer(Promoted(a.type), 2))})} : a \in Places1}
       \cup {Tested(X, CompoundAssign("sub", X, Plus(Ask, Whole1(1))))}

\* Numbers below zero, comparisons, and what a conversion keeps.
NumberPrograms ==
  LET Numbers1 == {-7, -2, 0, 2, 5}
      Unsigned1 == {0, 2, 5, SizeModulus(IntType) - 2, SizeModulus(IntType) - 7}
      Results(a, b) == <<Less(a, b), Equal(a, b), Cast(IntType, Plus(a, b)), Cast(IntType, Times(a, b)),
                         Cast(IntType, BinaryNode("sub", a.type, a, b))>>
                         \o When(b.value # 0, <<Cast(IntType, Divide(a, b)), Cast(IntType, BinaryNode("mod", a.type, a, b))>>)
      All(nodes) == <<>> \o [i \in 1..Len(nodes) |-> Put(nodes[i])]
  IN {<<Main(All(Results(Integer(type, m), Integer(type, n))))>> :
        type \in {IntType, LongType}, m \in Numbers1, n \in Numbers1}
       \cup {<<Main(All(Results(Integer(UnsignedOf(IntType), m), Integer(UnsignedOf(IntType), n))))>> :
               m \in Unsigned1, n \in Unsigned1}
       \cup {<<Main(ShowLong(Cast(LongType, Cast(UnsignedOf(type), Whole1(n))))
                      \o ShowLong(Cast(LongType, Minus(Cast(UnsignedOf(IntType), Whole1(n))))))>> :
               type \in {ShortType, IntType, LongType}, n \in {-2, 3, 130}}
       \cup {<<Main(ShowLong(Cast(LongType, Cast(IntType, Long1(n)))) \o ShowLong(Cast(LongType, Integer(ShortType, -3)))
                      \o <<Put(Equal(Cast(IntType, Long1(n)), Cast(IntType, Long1(n + 128))))>>)>> :
               n \in {-65, -64, 63, 64, 127, 300}}

\* Structures as operands: chosen, assigned, made in place, returned next to one another.
Made(i) == Literal(Pair, <<Long1(200 * i), Long1(i)>>)
MadeTriple(i) == Literal(Triple, <<Long1(300 * i), Cast(LongType, Ask)>>)
PairOf == Function("pair", Pair, <<[name |-> "n", type |-> LongType]>>,
                   <<ReturnOf(Literal(Pair, <<Variable("n", LongType), Plus(Variable("n", LongType), Long1(400))>>))>>)
TripleOf == Function("triple", Triple, <<[name |-> "n", type |-> LongType]>>,
                     <<Put(Ask), ReturnOf(Literal(Triple, <<Long1(5), Long1(6), Variable("n", LongType)>>))>>)
Sum == Function("sum", LongType, <<[name |-> "v", type |-> Pair], [name |-> "w", type |-> Triple],
                                   [name |-> "u", type |-> Pair]>>,
                <<ReturnOf(Plus(Plus(Member(Variable("v", Pair), 1), Times(Member(Variable("w", Triple), 3), Long1(2))),
                                Times(Member(Variable("u", Pair), 2), Long1(3))))>>)
CallPair(n) == NamedCall("pair", Pair, <<Long1(n)>>)
CallTriple(n) == NamedCall("triple", Triple, <<Long1(n)>>)
CallSum(v, w, u) == NamedCall("sum", LongType, <<v, w, u>>)

StructBodies ==
  {<<Declare("s", Pair, <<Conditional(Ask, CallPair(3), Made(2))>>)>> \o ShowValue(S),
   <<DeclareNumbers("s", Pair, 1), Run1(Assign(S, Conditional(Ask, Made(3), S)))>> \o ShowValue(S),
   <<DeclareNumbers("s", Pair, 1), DeclareNumbers("t", Triple, 2),
     Run1(Comma(Assign(S, CallPair(5)), Assign(T, CallTriple(6))))>> \o ShowValues(<<S, T>>),
   <<Declare("t", Triple, <<MadeTriple(3)>>)>> \o ShowValue(T),
   <<Declare("q", Q.type, <<AddressOfNode(MadeTriple(2))>>), Declare("t", Triple, <<Dereference(Q)>>),
     Run1(Increment(Member(Dereference(Q), 2), "add", FALSE))>> \o ShowValues(<<T, Dereference(Q)>>),
   ShowLong(CallSum(CallPair(7), CallTriple(8), Made(1))),
   ShowLong(Plus(Long1(1), CallSum(Made(2), MadeTriple(1), CallPair(9)))),
   ShowLong(Plus(CallSum(CallPair(1), CallTriple(2), CallPair(3)),
                 CallSum(CallPair(4), Conditional(Ask, CallTriple(5), MadeTriple(6)), CallPair(7)))),
   ShowLong(Member(CallPair(11), 2)) \o ShowLong(Member(CallTriple(12), 3)),
   <<Show(Cast(IntType, Member(CallPair(1), 1)), Cast(IntType, Member(CallTriple(2), 3)), Cast(IntType, Member(CallPair(3), 2)))>>,
   <<DeclareNumbers("s", Pair, 1), DeclareList("t", Triple, <<Long1(9)>>),
     Run1(Assign(S, Assign(S, Made(4))))>> \o ShowValues(<<S, T>>)}

StructPrograms == {<<PairOf, TripleOf, Sum, Main(body)>> : body \in StructBodies}

\* Pointers that move over members and are handed to a function that writes through one.
PointerPrograms ==
  LET Given == <<DeclareNumbers("s", Pair, 3), DeclareNumbers("t", Triple, 2),
                 Declare("p", Pointer1, <<AddressOfNode(Member(T, 1))>>)>>
      At1(i) == Dereference(BinaryNode("add", Pointer1, P, Long1(i)))
      Fill == Function("fill", VoidType, <<[name |-> "to", type |-> Pointer1], [name |-> "n", type |-> IntType]>>,
                       <<If(Less(Variable("n", IntType), Whole1(1)), [kind |-> "return", value |-> <<>>], <<>>),
                         Run1(Assign(Dereference(Increment(Variable("to", Pointer1), "add", TRUE)),
                                     Cast(LongType, Variable("n", IntType)))),
                         Run1(NamedCall("fill", VoidType,
                                        <<Variable("to", Pointer1), BinaryNode("sub", IntType, Variable("n", IntType), Whole1(1))>>))>>)
      Bodies ==
        {ShowLong(At1(2)) \o ShowLong(Dereference(BinaryNode("add", Pointer1, Long1(1), P))),
         <<Run1(CompoundAssign("add", P, Long1(2))), Run1(Assign(Dereference(P), Long1(77)))>> \o ShowValue(T),
         <<Run1(Assign(At1(1), Dereference(Increment(P, "add", TRUE))))>> \o ShowLong(Dereference(P)) \o ShowValue(T),
         ShowLong(Dereference(Increment(P, "add", FALSE))) \o ShowLong(Dereference(Increment(P, "sub", TRUE)))
           \o <<Put(Equal(P, AddressOfNode(Member(T, 1))))>>,
         <<Run1(NamedCall("fill", VoidType, <<P, Whole1(3)>>))>> \o ShowValues(<<T, S>>),
         <<Run1(NamedCall("fill", VoidType, <<AddressOfNode(Member(S, 1)), Plus(Ask, Whole1(1))>>))>> \o ShowValues(<<T, S>>)}
  IN {<<Fill, Main(Given \o body)>> : body \in Bodies}

-----------------------------------------------------------------------------
(* Labels, and functions C forbids *)

SwitchOn(cond, list) == Statement("switch", cond, Block(list))
Twice(list) == <<Declare("x", IntType, <<Whole1(0)>>), Labelled("again", Run1(Increment(X, "add", FALSE)))>> \o list
                 \o <<If(And(Less(X, Whole1(3)), Ask), Goto("again"), <<>>), Put(X)>>

LabelBodies ==
  {\* a loop entered in its middle, by a case and by a goto
   <<SwitchOn(Ask, <<Case(Whole1(0)), Statement("while", Ask, Block(<<PutNumber(1), Case(Whole1(1)), PutNumber(2)>>)),
                     PutNumber(3)>>)>>,
   <<SwitchOn(Ask, <<Case(Whole1(0)), PutNumber(0),
                     Statement("do", Ask, Block(<<PutNumber(1), Default, PutNumber(2),
                                                  If(Ask, [kind |-> "continue"], <<[kind |-> "break"]>>), PutNumber(3)>>)),
                     PutNumber(4)>>)>>,
   <<If(Ask, Goto("in"), <<>>),
     For(PutNumber(1), Ask, NamedCall("put", VoidType, <<Whole1(4)>>), Block(<<PutNumber(2), Labelled("in", PutNumber(3))>>))>>,
   Twice(<<PutNumber(6)>>),
   Twice(<<SwitchOn(X, <<Case(Whole1(2)), PutNumber(22), [kind |-> "break"], Default, PutNumber(20), Case(Whole1(1)), PutNumber(21)>>)>>),
   \* numbers below zero and constant expressions, the inner switch with the same ones
   <<SwitchOn(BinaryNode("sub", IntType, Ask, Whole1(1)),
              <<Case(Minus(Whole1(1))), PutNumber(1),
                SwitchOn(BinaryNode("sub", IntType, Ask, Plus(Ask, Ask)),
                         <<Case(Plus(Minus(Whole1(3)), Whole1(2))), PutNumber(2), [kind |-> "break"],
                           Case(BinaryNode("sub", IntType, Whole1(2), Whole1(4))), PutNumber(3),
                           Case(Not(Whole1(5))), PutNumber(4), Case(Cast(IntType, Long1(129))), PutNumber(5)>>),
                [kind |-> "break"], Case(Whole1(0)), PutNumber(6)>>)>>,
   <<SwitchOn(Cast(UnsignedOf(IntType), Minus(Ask)),
              <<Case(Minus(Whole1(1))), PutNumber(1), Case(Cast(UnsignedOf(ShortType), Whole1(128))), PutNumber(2)>>)>>,
   <<SwitchOn(Cast(LongType, Minus(Ask)),
              <<Case(Integer(LongType, -1)), PutNumber(1), Case(Times(Whole1(0), Whole1(4))), PutNumber(2)>>)>>,
   <<SwitchOn(Ask, <<If(Ask, Block(<<Case(Whole1(0)), PutNumber(1)>>), <<Block(<<Case(Whole1(1)), PutNumber(2)>>)>>), PutNumber(3)>>)>>,
   <<SwitchOn(Ask, <<PutNumber(1), Declare("x", IntType, <<Whole1(4)>>), Case(Whole1(1)), Run1(Assign(X, Whole1(5))), Put(X)>>)>>}

\* As the last of them: not refused, as the others are.
SameCase(a, b) == <<SwitchOn(Ask, <<Case(a), PutNumber(1), Case(b), PutNumber(2), Default>>)>>
ForbiddenBodies ==
  {SameCase(Whole1(2), Whole1(2)), SameCase(Whole1(1), BinaryNode("sub", IntType, Whole1(3), Whole1(2))),
   SameCase(Minus(Whole1(1)), BinaryNode("sub", IntType, Whole1(1), Whole1(2))),
   <<SwitchOn(Ask, <<Default, PutNumber(1), Block(<<Default, PutNumber(2)>>)>>)>>,
   <<SwitchOn(Ask, <<Default, SwitchOn(Ask, <<Default, Case(Whole1(1)), If(Ask, Block(<<Case(Whole1(1)), PutNumber(1)>>), <<>>)>>)>>)>>,
   <<Goto("nowhere")>>,
   <<If(Ask, Goto("nowhere"), <<>>), Labelled("somewhere", PutNumber(1)), Goto("somewhere")>>,
   SameCase(Whole1(0), Whole1(1))}

LabelPrograms ==
  {<<Main(body)>> : body \in LabelBodies}
    \cup {<<Function("first", IntType, <<>>, <<ReturnOf(Ask)>>), Function("second", IntType, <<>>, body \o <<ReturnOf(Whole1(1))>>),
           Main(<<Put(NamedCall("first", IntType, <<>>))>>)>> : body \in ForbiddenBodies}

-----------------------------------------------------------------------------
(* Functions with more arguments than parameters *)

\* va_start, and va_arg as include/target/stdarg.h makes it of a pointer.
StartList == Declare("p", Pointer1, <<CallOf(Variable(VaStart, FunctionType(Pointer1, FALSE)), Pointer1, <<>>)>>)
NextArgument ==
  Dereference(BinaryNode("sub", Pointer1, CompoundAssign("add", P, Long1(1)), Long1(1)))

Variadic(result, named, count) ==
  [Function("f", result, Named1([i \in 1..named |-> IntType]),
            <<StartList, Declare("l", LongType, <<>>), Put(Ask)>> \o ShowValues(Variables([i \in 1..named |-> IntType]))
              \o Joined([i \in 1..count |-> <<Run1(Assign(L, NextArgument))>> \o ShowLong(L)]) \o <<ReturnOf(Whole1(4))>>)
     EXCEPT !.variadic = TRUE]

VariadicPrograms ==
  {<<Variadic(IntType, named, count),
     Main(<<Put(Plus(Whole1(1), CallOf(Variable("f", FunctionType(IntType, TRUE)), IntType,
                                       <<>> \o [i \in 1..(named + count) |-> IF i <= named THEN Whole1(i) ELSE Long1(250 * i)])))>>)>> :
     <<named, count>> \in {pair \in (1..2) \X (0..3) : pair[1] + pair[2] <= 4}}

MCPrograms ==
  ControlPrograms \cup CallPrograms \cup LogicalPrograms \cup AssignPrograms \cup NumberPrograms \cup StructPrograms
    \cup PointerPrograms \cup LabelPrograms \cup VariadicPrograms

-----------------------------------------------------------------------------
(* Programs the compiler makes something else of (README.md, 6)            *)

WithArgument(type, result) == CallProgram(<<type>>, result, "alone")

\* A structure's last word filled by more than one piece; one word, or a word and a half,
\* on the stack.
Partial == WithArgument(Struct(3, ShortType), IntType)
OneWordOnStack == CallProgram(<<IntType, IntType, Struct(1, LongType)>>, IntType, "alone")
OddOnStack == CallProgram(<<IntType, IntType, Struct(3, IntType)>>, IntType, "alone")

\* The address that is called is kept in the register a structure is taken through.
IndirectStructure == CallProgram(<<Pair>>, IntType, "through a pointer")

\* (*p)(1): what is at the address of the function is called.
CallDereferenced ==
  LET p == Variable("p", TypedPointer(FunctionType(IntType, FALSE)))
  IN <<Callee(<<IntType>>, IntType),
       Main(<<Declare("p", PointerTo(0), <<Variable("f", FunctionType(IntType, FALSE))>>),
              Put(CallOf(Dereference(p), IntType, <<Whole1(1)>>))>>)>>

CaseOf(constant, cond) == <<Main(<<SwitchOn(cond, <<Case(constant), PutNumber(1), [kind |-> "break"], Default, PutNumber(2)>>)>>)>>
UnsignedDivision == CaseOf(Divide(Minus(Whole1(3)), Whole1(2)), BinaryNode("sub", IntType, Ask, Whole1(1)))
UnsignedLess == CaseOf(Less(Minus(Whole1(1)), Whole1(0)), Ask)
\* An unsigned char divided by a number below zero; comparisons of a signed number with an
\* unsigned one, and of an unsigned char with a signed number.
NarrowDivision ==
  <<Main(<<Declare("b", B.type, <<Whole1(20)>>), Run1(CompoundAssign("div", B, Minus(Whole1(2)))), Put(Cast(IntType, B))>>)>>
SignedWithUnsigned ==
  <<Main(<<Declare("x", IntType, <<Minus(Whole1(1))>>), Put(Less(X, Integer(U.type, 1)))>>)>>
NarrowWithSigned ==
  <<Main(<<Declare("b", B.type, <<Whole1(1)>>), Put(Less(B, Minus(Whole1(1))))>>)>>

NarrowSwitch == CaseOf(Whole1(129), Cast(ShortType, Plus(Ask, Whole1(0))))

\* if (ask()) again: put(1);
LabelledBody == <<Main(<<If(Ask, Labelled("again", PutNumber(1)), <<>>), PutNumber(2)>>)>>

\* More named parameters than registers.
ManyNamed ==
  <<[Variadic(IntType, 3, 1) EXCEPT !.variadic = TRUE],
    Main(<<Put(CallOf(Variable("f", FunctionType(IntType, TRUE)), IntType,
                      <<Whole1(1), Whole1(2), Whole1(3), Long1(250)>>))>>)>>

MemoryResultVariadic ==
  <<[Variadic(IntType, 1, 1) EXCEPT !.result = Triple,
                                    !.body.list = SubSeq(@, 1, Len(@) - 1) \o <<ReturnOf(MadeTriple(1))>>],
    Main(<<DeclareNumbers("t", Triple, 1),
           Run1(Assign(T, CallOf(Variable("f", FunctionType(Triple, TRUE)), Triple, <<Whole1(1), Long1(250)>>)))>>
           \o ShowValue(T))>>

MistakenPrograms ==
  {Partial, OneWordOnStack, OddOnStack, IndirectStructure, CallDereferenced, UnsignedDivision, UnsignedLess,
   NarrowDivision, SignedWithUnsigned, NarrowWithSigned, NarrowSwitch, LabelledBody, ManyNamed, MemoryResultVariadic}

\* Two labels of one name; a member of a conditional structure, which is not refused in C.
SameLabels == <<Main(<<Labelled("a", PutNumber(1)), If(Ask, Goto("a"), <<>>), Labelled("a", PutNumber(2))>>)>>
MemberOfConditional ==
  <<PairOf, Main(ShowLong(Member(Conditional(Ask, CallPair(3), Made(2)), 2)))>>
WronglyRefused == {SameLabels, MemberOfConditional}

DisagreementPrograms == MistakenPrograms \cup WronglyRefused
=============================================================================
