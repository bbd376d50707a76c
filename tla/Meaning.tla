------------------------------ MODULE Meaning -------------------------------
(***************************************************************************)
(* What a program means in C: the language the compiler promises           *)
(* (docs/specs/c23-support-matrix.md), against which its machine code is   *)
(* measured. Nothing here is translated from the compiler; the program is  *)
(* the tree before it is Parsed, and only the types and the number of bytes*)
(* they have are Lowering's.                                               *)
(*                                                                         *)
(* A machine of tasks: the first one is done and replaced by what is left  *)
(* to do for it. Behind the body of a loop or a switch stands a task that  *)
(* does nothing, for `continue' and `break' to be found by, and behind the *)
(* body of a function the task that leaves it.                             *)
(*                                                                         *)
(* An object is a sequence of cells, each of them `unit' bytes: a number,  *)
(* a pointer into an object, or a function. The value of a structure is a  *)
(* sequence of cells, that of anything else a sequence of one.             *)
(***************************************************************************)
EXTENDS Lowering

Do(what, of) == [do |-> what, of |-> of]
Mark(what) == Do(what, NoNode)
Value(n) == Do("value", n)
Address(n) == Do("address", n)
Exec(s) == Do("exec", s)
Execs(list) == <<>> \o [i \in 1..Len(list) |-> Exec(list[i])]
Map1(nodes, Task(_)) == <<>> \o [i \in 1..Len(nodes) |-> Task(nodes[i])]

-----------------------------------------------------------------------------
(* Values and objects *)

Number(n) == [cell |-> "number", number |-> n]
FunctionCell(name) == [cell |-> "function", name |-> name]
Pointer(object, index) == [cell |-> "pointer", object |-> object, index |-> index]
Unknown == [cell |-> "unknown"]

CellsOf(type) == IF IsStruct(type) THEN type.count ELSE 1
UnitOf(type) == IF IsStruct(type) THEN type.member.size ELSE type.size

\* A number as an object of the type holds it.
Converted(type, cell) ==
  IF IsNumber(type) /\ cell.cell = "number" THEN Number(InType(type, cell.number)) ELSE cell

ConvertedAll(type, cells) ==
  <<>> \o [i \in 1..Len(cells) |-> Converted(IF IsStruct(type) THEN type.member ELSE type, cells[i])]

IsTrue(cell) == cell.cell # "number" \/ cell.number # 0

\* w: the tasks, the values waiting, the objects, the names, the function that runs, what
\* was shown, and the answers yet to come.
Allocate(w, type, cells) ==
  [w EXCEPT !.objects = Append(@, [cells |-> cells, unit |-> UnitOf(type)])]
LastObject(w) == Len(w.objects)

ReadAt(w, p, type) == SubSeq(w.objects[p.object].cells, p.index + 1, p.index + CellsOf(type))

WriteAt(w, p, cells) ==
  [w EXCEPT !.objects[p.object].cells =
     [i \in 1..Len(@) |-> IF i - p.index \in 1..Len(cells) THEN cells[i - p.index] ELSE @[i]]]

\* The last of count values, and the values before it.
Peek(w, i) == w.values[Len(w.values) - i]
Drop(w, count) == [w EXCEPT !.values = SubSeq(@, 1, Len(@) - count)]
PushValue(w, cells) == [w EXCEPT !.values = Append(@, cells)]
Replace(w, count, cells) == PushValue(Drop(w, count), cells)
First(w, tasks) == [w EXCEPT !.todo = tasks \o @]

\* The tasks from the first one of a kind on.
Until(todo, whats) ==
  LET at == CHOOSE i \in DOMAIN todo :
              todo[i].do \in whats /\ \A j \in 1..(i - 1) : todo[j].do \notin whats
  IN SubSeq(todo, at, Len(todo))

-----------------------------------------------------------------------------
(* Statements *)

\* The labels, cases and defaults a statement can be entered at. Those of a switch
\* inside are its own.
RECURSIVE Markers(_)
Markers(s) ==
  LET Nested == CASE s.kind = "compound" -> s.list
                  [] s.kind = "labelled" -> <<s.label, s.body>>
                  [] s.kind \in Compounds -> <<s.body>> \o s.other
                  [] OTHER -> <<>>
      all == Joined([i \in 1..Len(Nested) |-> Markers(Nested[i])])
  IN CASE s.kind \in {"label", "case", "default"} -> <<s>>
       [] s.kind = "switch" -> SelectSeq(all, LAMBDA marker : marker.kind = "label")
       [] OTHER -> all

Inside(s, marker) == marker \in Range(Markers(s))

Absolute(n) == IF n < 0 THEN -n ELSE n

\* A division is towards zero.
Quotient(a, b) ==
  LET q == Absolute(a) \div Absolute(b) IN IF (a < 0) = (b < 0) THEN q ELSE -q
Remainder(a, b) == a - b * Quotient(a, b)

\* A constant expression, as C evaluates it.
RECURSIVE ConstantOf(_)
ConstantOf(n) ==
  CASE n.kind = "integer" -> n.value
    [] n.kind = "unary" ->
         IF n.op = "neg" THEN InType(n.type, -ConstantOf(n.a)) ELSE Truth(ConstantOf(n.a) = 0)
    [] n.kind = "cast" -> InType(n.type, ConstantOf(n.a))
    [] n.kind = "binary" ->
         LET pair == <<ConstantOf(n.a), ConstantOf(n.b)>>
         IN CASE n.op = "add" -> InType(n.type, pair[1] + pair[2])
              [] n.op = "sub" -> InType(n.type, pair[1] - pair[2])
              [] n.op = "mul" -> InType(n.type, pair[1] * pair[2])
              [] n.op = "div" -> Quotient(pair[1], pair[2])
              [] n.op = "mod" -> Remainder(pair[1], pair[2])
              [] n.op = "less" -> Truth(pair[1] < pair[2])
              [] n.op = "equal" -> Truth(pair[1] = pair[2])

\* What a switch's expression is compared in: no narrower than an int.
Promoted(type) == IF type.size < IntType.size THEN IntType ELSE type

CaseValue(s, marker) == InType(Promoted(s.cond.type), ConstantOf(marker.value))

CasesIn(s) == SelectSeq(Markers(s.body), LAMBDA marker : marker.kind = "case")
DefaultsIn(s) == SelectSeq(Markers(s.body), LAMBDA marker : marker.kind = "default")

\* The task a statement goes on with once its body is done.
AfterBody(s) ==
  CASE s.kind = "while" -> <<Mark("continue"), Do("loop", s), Mark("break")>>
    [] s.kind = "do" -> <<Mark("continue"), Value(s.cond), Do("again", s), Mark("break")>>
    [] s.kind = "for" ->
         <<Mark("continue")>> \o When(s.step # NoNode, <<Value(s.step), Mark("discard")>>)
           \o <<Do("loop", s), Mark("break")>>
    [] s.kind = "switch" -> <<Mark("break")>>
    [] OTHER -> <<>>

\* The tasks of a statement entered at a marker inside it.
RECURSIVE Entering(_, _)
Entering(s, marker) ==
  LET Within(list) ==
        LET i == CHOOSE j \in DOMAIN list : Inside(list[j], marker)
        IN Entering(list[i], marker) \o Execs(SubSeq(list, i + 1, Len(list)))
  IN CASE s.kind = "compound" -> Within(s.list)
       [] s.kind = "labelled" -> Within(<<s.label, s.body>>)
       [] s.kind = "if" -> Entering(IF Inside(s.body, marker) THEN s.body ELSE s.other[1], marker)
       [] s.kind \in Compounds -> Entering(s.body, marker) \o AfterBody(s)
       [] OTHER -> <<>>

ExecTasks(s) ==
  CASE s.kind = "compound" -> Execs(s.list)
    [] s.kind = "labelled" -> <<Exec(s.body)>>
    [] s.kind = "expression" -> <<Value(s.value), Mark("discard")>>
    [] s.kind = "declaration" ->
         When(s.value # <<>>, Map1(s.value, Value) \o <<Do("initialize", s)>>)
    [] s.kind \in {"if", "switch"} -> <<Value(s.cond), Do("select", s)>>
    [] s.kind = "while" -> <<Do("loop", s), Mark("break")>>
    [] s.kind = "do" -> <<Exec(s.body)>> \o AfterBody(s)
    [] s.kind = "for" -> <<Exec(s.init), Do("loop", s), Mark("break")>>
    [] s.kind = "return" -> Map1(s.value, Value) \o <<Do("return", s)>>
    [] s.kind \in {"break", "continue", "goto"} -> <<Do(s.kind, s)>>
    [] OTHER -> <<>>

\* The case that is taken, or the default, or none.
SelectTasks(w, s) ==
  LET number == Peek(w, 0)[1].number
      taken == SelectSeq(CasesIn(s), LAMBDA marker : CaseValue(s, marker) = number) \o DefaultsIn(s)
  IN IF taken = <<>> THEN <<>> ELSE Entering(s.body, taken[1]) \o AfterBody(s)

\* An object's values; those a list leaves out are zero.
InitialCells(w, s) ==
  LET given == Joined([i \in 1..Len(s.value) |-> Peek(w, Len(s.value) - i)])
  IN ConvertedAll(s.type, given \o [i \in 1..(CellsOf(s.type) - Len(given)) |-> Number(0)])

\* The body once more; the mark for `break' is there already.
Again(s) == <<Exec(s.body)>> \o Front(AfterBody(s))

Leaving(todo) == Until(todo, {"leave"})

StatementTask(w, t) ==
  LET s == t.of
  IN CASE t.do = "exec" -> First(w, ExecTasks(s))
       [] t.do = "loop" ->
            First(w, IF s.cond = NoNode THEN Again(s)
                     ELSE <<Value(s.cond), Do("again", s)>>)
       [] t.do = "again" ->
            First(Drop(w, 1), When(IsTrue(Peek(w, 0)[1]), Again(s)))
       [] t.do = "select" ->
            First(Drop(w, 1),
                  CASE s.kind = "switch" -> SelectTasks(w, s)
                    [] IsTrue(Peek(w, 0)[1]) -> <<Exec(s.body)>>
                    [] OTHER -> Execs(s.other))
       [] t.do = "initialize" ->
            WriteAt(Drop(w, Len(s.value)), Pointer(w.names[s.name], 0), InitialCells(w, s))
       [] t.do \in {"break", "continue"} ->
            IF s = NoNode THEN w ELSE [w EXCEPT !.todo = Tail(Until(@, {t.do}))]
       [] t.do = "goto" ->
            [w EXCEPT !.todo = Entering(w.function.body, [kind |-> "label", name |-> s.name]) \o Leaving(@)]
       [] t.do = "return" ->
            [(IF s.value = <<>> THEN PushValue(w, <<Unknown>>)
              ELSE Replace(w, 1, ConvertedAll(w.function.result, Peek(w, 0))))
               EXCEPT !.todo = <<Do("resume", Head(Leaving(@)).of)>> \o Tail(Leaving(@))]
       [] t.do = "discard" -> Drop(w, 1)

-----------------------------------------------------------------------------
(* Functions *)

RECURSIVE Locals(_)
Locals(s) ==
  LET Nested == CASE s.kind = "compound" -> s.list
                  [] s.kind = "labelled" -> <<s.body>>
                  [] s.kind \in Compounds -> <<s.init, s.body>> \o s.other
                  [] OTHER -> <<>>
  IN IF s.kind = "declaration" THEN <<s>> ELSE Joined([i \in 1..Len(Nested) |-> Locals(Nested[i])])

FunctionNamed(program, name) == program[CHOOSE i \in DOMAIN program : program[i].name = name]

\* Every object of the function is new. What is passed beyond the parameters is one
\* object of long numbers.
Rest == "..."

Enter(w, function, arguments) ==
  LET locals == Locals(function.body)
      given == Len(function.parameters)
      Declared(o, d) == Append(o, [name |-> d.name, cells |-> [i \in 1..CellsOf(d.type) |-> Unknown],
                                   unit |-> UnitOf(d.type)])
      parameters == [i \in 1..given |->
                       [name |-> function.parameters[i].name, unit |-> UnitOf(function.parameters[i].type),
                        cells |-> ConvertedAll(function.parameters[i].type, arguments[i])]]
      rest == [name |-> Rest, unit |-> WordSize,
               cells |-> Joined(SubSeq(arguments, given + 1, Len(arguments)))]
      made == FoldLeft(Declared, parameters \o <<rest>>, locals)
      caller == [names |-> w.names, function |-> w.function]
  IN [w EXCEPT
        !.objects = @ \o [i \in 1..Len(made) |-> [cells |-> made[i].cells, unit |-> made[i].unit]],
        !.names = [name \in {made[i].name : i \in DOMAIN made} |->
                     LastObject(w) + (CHOOSE i \in DOMAIN made : made[i].name = name)],
        !.function = function,
        !.todo = <<Exec(function.body), Do("leave", caller)>> \o @]

\* What runs outside of the program. put and show show numbers, ask gives the next
\* answer, and the program waits when there is none.
Externals == {"put", "show", "ask"}

Numbers(cells) == [i \in 1..Len(cells) |-> cells[i][1].number]

CallNamed(w, name, arguments) ==
  CASE name = VaStart -> PushValue(w, <<Pointer(w.names[Rest], 0)>>)
    [] name = "ask" ->
         IF w.answers = <<>> THEN [w EXCEPT !.waiting = TRUE]
         ELSE PushValue([w EXCEPT !.answers = Tail(@)], <<Number(Head(w.answers))>>)
    [] name \in Externals -> PushValue([w EXCEPT !.shown = @ \o Numbers(arguments)], <<Unknown>>)
    [] OTHER -> Enter(w, FunctionNamed(w.program, name), arguments)

FunctionTask(w, t) ==
  LET resumed == [w EXCEPT !.names = t.of.names, !.function = t.of.function]
  IN IF t.do = "leave" THEN PushValue(resumed, <<Unknown>>) ELSE resumed

-----------------------------------------------------------------------------
(* Expressions *)

AddressTasks(n) ==
  CASE n.kind = "member" -> <<IF IsPointer(n.a.type) THEN Value(n.a) ELSE Address(n.a)>>
    [] n.kind = "dereference" -> <<Value(n.a)>>
    [] n.kind = "identifier" -> <<>>
    [] OTHER -> <<Value(n)>>

ValueTasks(n) ==
  CASE n.kind = "call" -> <<Value(n.a)>> \o Map1(n.args, Value)
    [] n.kind = "literal" -> Map1(n.args, Value)
    [] n.kind \in {"cast", "unary"} -> <<Value(n.a)>>
    [] n.kind = "dereference" -> IF n.type.kind = "function" THEN <<Value(n.a)>> ELSE <<Address(n)>>
    [] n.kind = "member" -> <<Address(n)>>
    [] n.kind = "identifier" -> IF n.type.kind = "function" THEN <<>> ELSE <<Address(n)>>
    [] n.kind \in {"address", "increment"} -> <<Address(n.a)>>
    [] n.kind = "assign" -> <<Address(n.a), Value(IF n.compound THEN n.b.b ELSE n.b)>>
    [] n.kind = "binary" /\ n.op \notin Logicals -> <<Value(n.a), Value(n.b)>>
    [] n.kind \in {"binary", "conditional"} -> <<Value(n.a), Do("choose", n)>>
    [] n.kind = "comma" -> <<Value(n.a), Mark("discard"), Value(n.b)>>
    [] OTHER -> <<>>

\* A pointer moves by objects of its type, a number by ones.
Moved(w, type, cell, by) ==
  IF cell.cell = "pointer"
  THEN [cell EXCEPT !.index = @ + by * (type.base \div w.objects[cell.object].unit)]
  ELSE Converted(type, Number(cell.number + by))

\* The type two numbers are brought to: no narrower than an int, the wider one of the two,
\* and unsigned when one of that size is.
Common(type1, type2) ==
  LET one == Promoted(type1)
      two == Promoted(type2)
  IN IF one.size > two.size \/ (one.size = two.size /\ ~IsSigned(one)) THEN one ELSE two

\* The operands of a binary operator or a compound assignment, brought to one type.
Brought(n, cell) ==
  Converted(Common(n.a.type, IF n.kind = "assign" THEN n.b.b.type ELSE n.b.type), cell)

Calculated(w, n, op, left, right) ==
  LET numbers == left.cell = "number" /\ right.cell = "number"
      a == IF numbers THEN Brought(n, left) ELSE left
      b == IF numbers THEN Brought(n, right) ELSE right
  IN
  CASE op = "equal" -> Number(Truth(a = b))
    [] op = "less" -> Number(Truth(a.number < b.number))
    [] op = "add" /\ b.cell = "pointer" -> Moved(w, n.type, b, a.number)
    [] op = "add" -> Moved(w, n.type, a, b.number)
    [] op = "sub" -> Moved(w, n.type, a, -b.number)
    [] op = "mul" -> Converted(n.type, Number(a.number * b.number))
    [] op = "div" -> Converted(n.type, Number(Quotient(a.number, b.number)))
    [] op = "mod" -> Converted(n.type, Number(Remainder(a.number, b.number)))

UnaryResult(n, a) == IF n.op = "neg" THEN Converted(n.type, Number(-a.number)) ELSE Number(Truth(~IsTrue(a)))

\* A structure that is no object is made one to be read from.
ApplyAddress(w, n) ==
  CASE n.kind = "identifier" -> PushValue(w, <<Pointer(w.names[n.name], 0)>>)
    [] n.kind = "member" ->
         LET p == Peek(w, 0)[1]
         IN Replace(w, 1, <<Pointer(p.object, p.index + n.offset \div w.objects[p.object].unit)>>)
    [] n.kind = "dereference" -> w
    [] OTHER ->
         LET v == Allocate(w, n.type, Peek(w, 0)) IN Replace(v, 1, <<Pointer(LastObject(v), 0)>>)

ApplyAssign(w, n) ==
  LET p == Peek(w, 1)[1]
      old == ReadAt(w, p, n.type)
      new == IF n.compound THEN <<Calculated(w, n, n.op, old[1], Peek(w, 0)[1])>>
             ELSE ConvertedAll(n.type, Peek(w, 0))
  IN Replace(WriteAt(w, p, new), 2, new)

ApplyIncrement(w, n) ==
  LET p == Peek(w, 0)[1]
      old == ReadAt(w, p, n.type)
      new == <<Moved(w, n.type, old[1], IF n.op = "sub" THEN -1 ELSE 1)>>
  IN Replace(WriteAt(w, p, new), 1, IF n.post THEN old ELSE new)

ApplyLiteral(w, n) ==
  LET given == Joined([i \in 1..Len(n.args) |-> Peek(w, Len(n.args) - i)])
  IN Replace(w, Len(n.args),
             ConvertedAll(n.type, given \o [i \in 1..(CellsOf(n.type) - Len(given)) |-> Number(0)]))

ApplyCall(w, n) ==
  LET count == Len(n.args)
      arguments == <<>> \o [i \in 1..count |-> Peek(w, count - i)]
  IN CallNamed(Drop(w, count + 1), Peek(w, count)[1].name, arguments)

ApplyValue(w, n) ==
  CASE n.kind = "integer" -> PushValue(w, <<Converted(n.type, Number(n.value))>>)
    [] n.kind = "identifier" /\ n.type.kind = "function" -> PushValue(w, <<FunctionCell(n.name)>>)
    [] n.kind \in {"identifier", "member"} -> Replace(w, 1, ReadAt(w, Peek(w, 0)[1], n.type))
    [] n.kind = "dereference" ->
         IF n.type.kind = "function" THEN w ELSE Replace(w, 1, ReadAt(w, Peek(w, 0)[1], n.type))
    [] n.kind = "cast" -> Replace(w, 1, <<Converted(n.type, Peek(w, 0)[1])>>)
    [] n.kind = "unary" -> Replace(w, 1, <<UnaryResult(n, Peek(w, 0)[1])>>)
    [] n.kind = "binary" /\ n.op \notin Logicals ->
         Replace(w, 2, <<Calculated(w, n, n.op, Peek(w, 1)[1], Peek(w, 0)[1])>>)
    [] n.kind = "assign" -> ApplyAssign(w, n)
    [] n.kind = "increment" -> ApplyIncrement(w, n)
    [] n.kind = "literal" -> ApplyLiteral(w, n)
    [] n.kind = "call" -> ApplyCall(w, n)
    [] OTHER -> w

\* The second operand of a logical operator, or one of the two of a conditional.
ApplyChoice(w, n) ==
  LET true == IsTrue(Peek(w, 0)[1])
      v == Drop(w, 1)
  IN CASE n.kind = "conditional" -> First(v, <<Value(IF true THEN n.b ELSE n.c)>>)
       [] (n.op = "and") = true -> First(v, <<Value(n.b), Mark("truth")>>)
       [] OTHER -> PushValue(v, <<Number(Truth(n.op = "or"))>>)

ExpressionTask(w, t) ==
  CASE t.do = "value" -> First(w, ValueTasks(t.of) \o <<Do("apply", t.of)>>)
    [] t.do = "address" -> First(w, AddressTasks(t.of) \o <<Do("apply address", t.of)>>)
    [] t.do = "apply" -> ApplyValue(w, t.of)
    [] t.do = "apply address" -> ApplyAddress(w, t.of)
    [] t.do = "choose" -> ApplyChoice(w, t.of)
    [] t.do = "truth" -> Replace(w, 1, <<Number(Truth(IsTrue(Peek(w, 0)[1])))>>)

-----------------------------------------------------------------------------
(* A program *)

TaskDone(w) ==
  LET t == Head(w.todo)
      v == [w EXCEPT !.todo = Tail(@)]
  IN CASE t.do \in {"leave", "resume"} -> FunctionTask(v, t)
       [] t.do \in {"value", "address", "apply", "apply address", "choose", "truth"} -> ExpressionTask(v, t)
       [] OTHER -> StatementTask(v, t)

\* At most 2^rounds tasks.
RECURSIVE Perform(_, _)
Perform(w, rounds) ==
  CASE w.todo = <<>> \/ w.waiting -> w
    [] rounds = 0 -> TaskDone(w)
    [] OTHER -> Perform(Perform(w, rounds - 1), rounds - 1)

MeaningRounds == 12

Beginning(program, answers) ==
  Enter([program |-> program, todo |-> <<>>, values |-> <<>>, objects |-> <<>>, names |-> << >>,
         function |-> NoNode, shown |-> <<>>, answers |-> answers, waiting |-> FALSE],
        FunctionNamed(program, "main"), <<>>)

\* What is shown when the program has had these answers, whether it waits for another one,
\* and the number main returns.
MeaningOf(program, answers) ==
  LET w == Perform(Beginning(program, answers), MeaningRounds)
  IN [shown |-> w.shown, waiting |-> w.waiting,
      status |-> IF w.waiting THEN <<>> ELSE w.values[1]]

\* The labels a statement goes to.
RECURSIVE Gotos(_)
Gotos(s) ==
  LET Nested == CASE s.kind = "compound" -> s.list
                  [] s.kind = "labelled" -> <<s.body>>
                  [] s.kind \in Compounds -> <<s.body>> \o s.other
                  [] OTHER -> <<>>
  IN IF s.kind = "goto" THEN {s.name} ELSE UNION {Gotos(Nested[i]) : i \in DOMAIN Nested}

RECURSIVE Switches(_)
Switches(s) ==
  LET Nested == CASE s.kind = "compound" -> s.list
                  [] s.kind = "labelled" -> <<s.body>>
                  [] s.kind \in Compounds -> <<s.body>> \o s.other
                  [] OTHER -> <<>>
  IN (IF s.kind = "switch" THEN {s} ELSE {}) \cup UNION {Switches(Nested[i]) : i \in DOMAIN Nested}

\* C's constraints on the labels of a function: every goto has its label, no label is
\* there twice, and no switch has two defaults or the same value twice.
Allowed(function) ==
  LET labels == SelectSeq(Markers(function.body), LAMBDA marker : marker.kind = "label")
  IN /\ Gotos(function.body) \subseteq {labels[i].name : i \in DOMAIN labels}
     /\ IsInjective(labels)
     /\ \A s \in Switches(function.body) :
          /\ IsInjective([i \in DOMAIN CasesIn(s) |-> CaseValue(s, CasesIn(s)[i])])
          /\ Len(DefaultsIn(s)) <= 1

=============================================================================
