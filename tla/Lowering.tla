------------------------------ MODULE Lowering ------------------------------
(***************************************************************************)
(* From a function's syntax tree to its frame and its instructions in      *)
(* order: the ABI classifier (src/backend/abi.c) and the lowering          *)
(* (src/ir/lower.c).                                                       *)
(*                                                                         *)
(* The machine is scaled down: a word, that is a register and a slot of the*)
(* stack, has WordSize bytes instead of eight, an int half of them, and    *)
(* Registers registers instead of six carry arguments. Sizes and offsets   *)
(* are in these bytes.                                                     *)
(*                                                                         *)
(* A tree is what the parser builds: every node has its kind and its type, *)
(* conversions are nodes. Left out are floating point, 128-bit integers,   *)
(* arrays, strings, unions, and objects outside of the frame. Every member *)
(* of a structure is of one type.                                          *)
(***************************************************************************)
EXTENDS Integers, Sequences, SequencesExt, FiniteSetsExt, TLC

CONSTANTS
  WordSize,       \* the bytes of a word
  Registers,      \* the registers that carry arguments
  VariadicSlots   \* the slots of the stack a variadic function copies

ASSUME LoweringAssumption ==
  /\ WordSize \in {2, 4, 8}
  /\ Registers \in 1..6
  /\ VariadicSlots \in Nat

-----------------------------------------------------------------------------
(* Types *)

VoidType == [kind |-> "void", size |-> 1, align |-> 1]

ShortType == [kind |-> "integer", size |-> 1, align |-> 1]
IntType == [kind |-> "integer", size |-> WordSize \div 2, align |-> WordSize \div 2]
LongType == [kind |-> "integer", size |-> WordSize, align |-> WordSize]

UnsignedOf(type) == [type EXCEPT !.kind = "unsigned"]

\* base: what it points at is that large.
PointerTo(base) ==
  [kind |-> "pointer", size |-> WordSize, align |-> WordSize, base |-> base]

FunctionType(result, variadic) ==
  [kind |-> "function", size |-> 0, align |-> 1, result |-> result, variadic |-> variadic]

Struct(count, member) ==
  [kind |-> "struct", size |-> count * member.size, align |-> member.align,
   count |-> count, member |-> member]

IsStruct(type) == type.kind = "struct"
IsPointer(type) == type.kind = "pointer"
IsNumber(type) == type.kind \in {"integer", "unsigned"}
IsSigned(type) == type.kind = "integer"
IsScalar(type) == IsNumber(type) \/ IsPointer(type)

\* Sequences one after another, joined by halves.
RECURSIVE Joined(_)
Joined(sequences) ==
  LET count == Len(sequences)
  IN CASE count = 0 -> <<>>
       [] count = 1 -> sequences[1]
       [] OTHER -> Joined(SubSeq(sequences, 1, count \div 2))
                     \o Joined(SubSeq(sequences, count \div 2 + 1, count))

When(condition, items) == IF condition THEN items ELSE <<>>

AlignUp(value, alignment) == ((value + alignment - 1) \div alignment) * alignment

-----------------------------------------------------------------------------
(* Where a value goes when it is passed or returned *)

MemberOffset(type, i) == (i - 1) * type.member.size

\* A member that does not lie inside one word.
Crosses(type) ==
  \E i \in 1..type.count : (MemberOffset(type, i) % WordSize) + type.member.size > WordSize

InMemory(type) == IsStruct(type) /\ (type.size > 2 * WordSize \/ Crosses(type))

\* The words a structure takes in registers.
Pieces(type) == IF InMemory(type) THEN 0 ELSE AlignUp(type.size, WordSize) \div WordSize

\* a: the registers and the bytes of the stack that are taken, and the slots given out.
AssignArgument(a, type) ==
  LET pieces == IF IsStruct(type) THEN Pieces(type) ELSE 1
      size == IF IsStruct(type) THEN AlignUp(type.size, WordSize) ELSE WordSize
  IN IF pieces > 0 /\ a.general + pieces <= Registers
     THEN [a EXCEPT !.general = @ + pieces,
                    !.slots = Append(@, [in_register |-> TRUE, size |-> size, stack_offset |-> 0,
                                         registers |-> [i \in 1..pieces |-> a.general + i]])]
     ELSE [a EXCEPT !.stack = AlignUp(@, WordSize) + size,
                    !.slots = Append(@, [in_register |-> FALSE, size |-> size,
                                         stack_offset |-> AlignUp(a.stack, WordSize),
                                         registers |-> <<>>])]

\* A result in memory takes the first register for the pointer to it.
AssignArguments(types, result) ==
  FoldLeft(AssignArgument,
           [general |-> IF InMemory(result) THEN 1 ELSE 0, stack |-> 0, slots |-> <<>>], types)

Slots(types, result) == AssignArguments(types, result).slots

\* The bytes of the outgoing arguments.
Area(types, result) == AlignUp(AssignArguments(types, result).stack, WordSize)

-----------------------------------------------------------------------------
(* The tree: what the parser makes of statements. A statement in C is a    *)
(* statement here, but for a label with the statement behind it            *)
(* (`labelled'), of which the parser makes two nodes; the second one lands *)
(* behind whatever statement the first is the body of.                     *)

Compounds == {"if", "while", "do", "for", "switch"}

Broken == [kind |-> "broken"]

RECURSIVE Parsed(_)
ParsedList(list) == Joined([i \in 1..Len(list) |-> Parsed(list[i])])

\* other: the statement behind `else', if there is one.
Parsed(s) ==
  CASE s.kind = "labelled" -> ParsedList(<<s.label, s.body>>)
    [] s.kind = "compound" -> <<[s EXCEPT !.list = ParsedList(@)]>>
    [] s.kind \in Compounds ->
         LET body == ParsedList(<<s.body>>)
             other == ParsedList(s.other)
         IN IF Len(body) > 1 /\ (s.kind = "do" \/ s.other # <<>>) THEN <<Broken>>
            ELSE <<[s EXCEPT !.body = body[1], !.other = When(other # <<>>, <<other[1]>>)]>>
                   \o Tail(body) \o SubSeq(other, 2, Len(other))
    [] OTHER -> <<s>>

-----------------------------------------------------------------------------
(* The frame *)

RECURSIVE Declarations(_)
DeclarationsIn(list) == Joined([i \in 1..Len(list) |-> Declarations(list[i])])

\* The declarations of a statement as assign_frame_nodes meets them.
Declarations(s) ==
  CASE s.kind = "declaration" -> <<s>>
    [] s.kind = "compound" -> DeclarationsIn(s.list)
    [] s.kind \in Compounds -> DeclarationsIn(<<s.init, s.body>> \o s.other)
    [] OTHER -> <<>>

NonZero(size) == IF size = 0 THEN 1 ELSE size

\* An object put at the far end of the frame.
AssignObject(frame, name, type, alignment) ==
  LET far == AlignUp(frame.size, alignment) + NonZero(type.size)
  IN [frame EXCEPT !.size = far, !.offset = (name :> -far) @@ @]

AssignLocal(frame, s) == AssignObject(frame, s.name, s.type, s.type.align)

Max2(a, b) == IF a > b THEN a ELSE b

\* A parameter that came in registers is given room, one on the stack is left there,
\* behind the saved frame pointer and the return address.
AssignParameter(frame, parameter, slot) ==
  IF slot.in_register
  THEN AssignObject(frame, parameter.name, parameter.type, Max2(parameter.type.align, WordSize))
  ELSE [frame EXCEPT !.offset = (parameter.name :> 2 * WordSize + slot.stack_offset) @@ @]

ParameterTypes(function) ==
  [i \in 1..Len(function.parameters) |-> function.parameters[i].type]

ParameterSlots(function) == Slots(ParameterTypes(function), function.result)

\* The frame of a function: where its objects are, measured from the frame pointer, and
\* its size before anything is lowered. va_area: where the registers of a variadic
\* function are saved.
Start(result) ==
  [size |-> IF InMemory(result) THEN WordSize ELSE 0, offset |-> << >>, va_area |-> 0,
   return_pointer |-> IF InMemory(result) THEN -WordSize ELSE 0]

WithParameters(frame, parameters, slots) ==
  FoldLeft(LAMBDA f, i : AssignParameter(f, parameters[i], slots[i]), frame, [i \in 1..Len(slots) |-> i])

SavedBytes == (Registers + VariadicSlots) * WordSize

WithSaved(frame) ==
  LET far == AlignUp(frame.size, WordSize) + SavedBytes
  IN [frame EXCEPT !.size = far, !.va_area = -far]

Rounded(frame) == [frame EXCEPT !.size = AlignUp(@, 2 * WordSize)]

WithAll(frame, function, body) ==
  FoldLeft(AssignLocal, WithParameters(frame, function.parameters, ParameterSlots(function)),
           DeclarationsIn(body))

FrameOf(function, body) ==
  IF function.variadic THEN Rounded(WithSaved(WithAll(Start(function.result), function, body)))
  ELSE Rounded(WithAll(Start(function.result), function, body))

-----------------------------------------------------------------------------
(* Instructions in order. An operand is an instruction too. *)

NoName == ""

\* The compiler's own function, of which stdarg.h makes va_start.
VaStart == "__cc64_va_start"

Null == [op |-> "null"]

New(op, type) ==
  [op |-> op, type |-> type, a |-> Null, b |-> Null, c |-> Null, args |-> <<>>,
   symbol |-> NoName, offset |-> 0, value |-> 0, post |-> FALSE, binary |-> NoName,
   cases |-> <<>>, true_label |-> 0, false_label |-> 0, end_label |-> 0, id |-> 0]

Unary(op, type, a) == [New(op, type) EXCEPT !.a = a]
Binary(op, type, a, b) == [New(op, type) EXCEPT !.a = a, !.b = b]
Const(type, value) == [New("const", type) EXCEPT !.value = value]
Jump(label) == [New("jump", VoidType) EXCEPT !.id = label]
Label(label) == [New("label", VoidType) EXCEPT !.id = label]

SymbolAddress(name) == [New("addr", PointerTo(0)) EXCEPT !.symbol = name]
TempAddress(offset) == [New("addr", PointerTo(0)) EXCEPT !.offset = offset]
ObjectAddress(name, offset) ==
  IF offset = 0 THEN SymbolAddress(name)
  ELSE Binary("add", LongType, SymbolAddress(name), Const(LongType, offset))

Chain(first, second) ==
  CASE first = Null -> second
    [] second = Null -> first
    [] OTHER -> Binary("comma", second.type, first, second)

\* The LowerContext: what is lowered next, the last label given out, the temporaries of
\* the frame and how much of it they use, where break and continue go, the labels of the
\* cases and of the names. list is what is lowered, ir the value of the last expression,
\* irs the values of the last operands.
Context(base, result, todo) ==
  [todo |-> todo, label |-> 0, result |-> result, base |-> base, used |-> 0, temps |-> <<>>,
   break |-> 0, continue |-> 0, cases |-> <<>>, names |-> << >>, failed |-> FALSE,
   list |-> <<>>, ir |-> Null, irs |-> <<>>]

Result(c, ir) == [c EXCEPT !.ir = ir]
Emit(c, ir) == [c EXCEPT !.list = Append(@, ir)]
Fail(c) == [c EXCEPT !.failed = TRUE, !.ir = Null]

\* Temporaries share their room.
TempShared(c, type) ==
  LET start == AlignUp(c.base, Max2(type.align, WordSize))
      far == start + NonZero(type.size)
  IN [c EXCEPT !.used = far - c.base, !.temps = Append(@, [offset |-> -far, type |-> type])]

\* Room for an object that has no name.
Temp(c, type) ==
  LET start == AlignUp(c.base + c.used, Max2(type.align, WordSize))
      far == start + NonZero(type.size)
  IN [c EXCEPT !.used = far - c.base, !.temps = Append(@, [offset |-> -far, type |-> type])]

LastTemp(c) == c.temps[Len(c.temps)].offset

-----------------------------------------------------------------------------
(* Expressions. A structure has no register: what stands for its value is  *)
(* its address.                                                            *)

Compares == {"less", "equal"}
Logicals == {"and", "or"}

OwnObject == {"assign", "call", "conditional", "comma", "literal"}

V(node) == [node |-> node, want |-> "value"]
A(node) == [node |-> node, want |-> "address"]
Values(nodes) == [i \in 1..Len(nodes) |-> V(nodes[i])]

\* The right side of `a op= b' is kept by the parser as `a op b'.
RightSide(n) == IF n.b.kind = "binary" /\ n.b.op = n.op THEN n.b.b ELSE n.b

PointerBinary(n) == n.kind = "binary" /\ IsPointer(n.type) /\ n.op \in {"add", "sub"}

ByAddress(n, want) ==
  want = "value" /\ IsStruct(n.type) /\ n.kind \notin OwnObject

AddressOperands(n) ==
  CASE n.kind = "member" -> <<IF IsPointer(n.a.type) THEN V(n.a) ELSE A(n.a)>>
    [] n.kind = "dereference" -> <<V(n.a)>>
    [] n.kind \in {"call", "literal"} -> <<V(n)>>
    [] OTHER -> <<>>

ValueOperands(n) ==
  CASE n.kind = "call" -> <<V(n.a)>> \o Values(n.args)
    [] n.kind = "literal" -> Values(n.args)
    [] n.kind \in {"cast", "dereference", "unary"} -> <<V(n.a)>>
    [] n.kind \in {"address", "increment"} -> <<A(n.a)>>
    [] n.kind = "member" -> <<A(n)>>
    [] n.kind = "identifier" -> IF n.type.kind = "function" THEN <<A(n)>> ELSE <<>>
    [] n.kind = "assign" -> <<A(n.a), V(IF n.compound THEN RightSide(n) ELSE n.b)>>
    [] n.kind = "binary" -> IF PointerBinary(n) /\ ~IsPointer(n.a.type)
                            THEN <<V(n.b), V(n.a)>> ELSE <<V(n.a), V(n.b)>>
    [] n.kind = "comma" -> <<V(n.a), V(n.b)>>
    [] n.kind = "conditional" -> <<V(n.a), V(n.b), V(n.c)>>
    [] OTHER -> <<>>

Operands(n, want) ==
  CASE want = "address" -> AddressOperands(n)
    [] ByAddress(n, want) -> <<A(n)>>
    [] OTHER -> ValueOperands(n)

Scaled(type, ir) == Binary("mul", LongType, ir, Const(LongType, type.base))

Copy(type, to, from) == [Binary("copy", type, to, from) EXCEPT !.value = type.size]
Zero(type, to) == [Unary("zero", type, to) EXCEPT !.value = type.size]

\* The next labels of the context.
Fresh(c, i) == c.label + i
Drawn(c, count) == [c EXCEPT !.label = @ + count]

Branching(c, ir) ==
  Result(Drawn(c, 3), [ir EXCEPT !.true_label = Fresh(c, 1), !.false_label = Fresh(c, 2),
                                 !.end_label = Fresh(c, 3)])

LowerCall(c, n) ==
  LET call == [New("call", n.type) EXCEPT !.a = c.irs[1], !.args = Tail(c.irs)]
      d == Temp(c, n.type)
  IN IF IsStruct(n.type) THEN Result(d, [call EXCEPT !.offset = LastTemp(d)])
     ELSE Result(c, call)

\* The object is zeroed and its members are stored one after another.
LowerLiteral(c, n, offset) ==
  LET Store(i) == Binary("store", n.type.member,
                         TempAddress(offset + MemberOffset(n.type, i)), c.irs[i])
      stores == FoldLeft(LAMBDA chain, i : Chain(chain, Store(i)), Null,
                         [i \in 1..Len(c.irs) |-> i])
      made == Chain(Zero(n.type, TempAddress(offset)), stores)
  IN Result(c, Unary("aggregate", n.type, Chain(made, TempAddress(offset))))

LowerAssign(c, n) ==
  LET to == c.irs[1]
      from == c.irs[2]
      by == IF IsPointer(n.type) /\ n.op \in {"add", "sub"} THEN Scaled(n.type, from) ELSE from
  IN CASE n.compound -> Result(c, [Binary("compound", n.type, to, by) EXCEPT !.binary = n.op])
       [] IsStruct(n.type) -> Result(c, Copy(n.type, to, from))
       [] OTHER -> Result(c, Binary("store", n.type, to, from))

LowerBinary(c, n) ==
  LET ir == Binary(n.op, n.type, c.irs[1], c.irs[2])
  IN CASE PointerBinary(n) ->
            Result(c, Binary(n.op, n.type, c.irs[1],
                             Scaled(IF IsPointer(n.a.type) THEN n.a.type ELSE n.b.type, c.irs[2])))
       [] n.op \in Logicals -> Branching(c, ir)
       [] OTHER -> Result(c, ir)

LowerIncrement(c, n) ==
  LET step == IF IsPointer(n.type) THEN n.type.base ELSE 1
  IN Result(c, [Unary("increment", n.type, c.irs[1])
                  EXCEPT !.value = IF n.op = "sub" THEN -step ELSE step, !.post = n.post])

LowerAddressOf(c, n) ==
  CASE n.kind = "identifier" -> Result(c, SymbolAddress(n.name))
    [] n.kind = "member" ->
         Result(c, [Unary("member", n.type, c.irs[1]) EXCEPT !.offset = n.offset])
    [] n.kind \in {"dereference", "call", "literal"} -> Result(c, c.irs[1])
    [] OTHER -> Fail(c)

LowerValueOf(c, n, before) ==
  CASE n.kind = "integer" -> Result(c, Const(n.type, n.value))
    [] n.kind = "identifier" ->
         Result(c, IF n.type.kind = "function" THEN c.irs[1]
                   ELSE [New("load", n.type) EXCEPT !.symbol = n.name])
    [] n.kind = "call" -> LowerCall(c, n)
    [] n.kind = "literal" ->
         IF IsScalar(n.type) THEN Result(c, c.irs[1]) ELSE LowerLiteral(c, n, LastTemp(before))
    [] n.kind = "cast" -> Result(c, Unary("cast", n.type, c.irs[1]))
    [] n.kind = "address" -> Result(c, Unary("addr", n.type, c.irs[1]))
    [] n.kind \in {"dereference", "member"} -> Result(c, Unary("load", n.type, c.irs[1]))
    [] n.kind = "assign" -> LowerAssign(c, n)
    [] n.kind = "binary" -> LowerBinary(c, n)
    [] n.kind = "unary" -> Result(c, Unary(n.op, n.type, c.irs[1]))
    [] n.kind = "increment" -> LowerIncrement(c, n)
    [] n.kind = "conditional" ->
         Branching(c, [New("conditional", n.type)
                         EXCEPT !.a = c.irs[1], !.b = c.irs[2], !.c = c.irs[3]])
    [] n.kind = "comma" -> Result(c, Binary("comma", n.type, c.irs[1], c.irs[2]))
    [] OTHER -> Fail(c)

\* The room of a literal is taken before its members are lowered.
Reserve(c, n, want) ==
  IF n.kind = "literal" /\ want = "value" /\ IsStruct(n.type) THEN Temp(c, n.type) ELSE c

\* What is made of a node once its operands are lowered.
Combined(c, n, want, before) ==
  CASE c.failed -> c
    [] want = "address" -> LowerAddressOf(c, n)
    [] ByAddress(n, want) -> Result(c, Unary("aggregate", n.type, c.irs[1]))
    [] OTHER -> LowerValueOf(c, n, before)

RECURSIVE LowerAll(_, _), Lower(_, _, _)

LowerAll(c, operands) ==
  IF c.failed \/ operands = <<>> THEN [c EXCEPT !.irs = <<>>]
  ELSE LET first == Lower(c, Head(operands).node, Head(operands).want)
           rest == LowerAll(first, Tail(operands))
       IN [rest EXCEPT !.irs = <<first.ir>> \o @]

Lower(c, n, want) ==
  LET before == Reserve(c, n, want)
  IN Combined(LowerAll(before, Operands(n, want)), n, want, before)

-----------------------------------------------------------------------------
(* The constants of case labels *)

\* Numbers are those of a word. TLC's are wide enough for words of up to four bytes
\* of Base values each.
Base == 128
Modulus == Base ^ WordSize
Unsigned(value) == value % Modulus

SizeModulus(type) == Base ^ type.size

\* The value of a word's low bytes, taken as a signed number.
SignedAs(type, value) ==
  LET low == value % SizeModulus(type)
  IN IF 2 * low >= SizeModulus(type) THEN low - SizeModulus(type) ELSE low

\* A value as an object of the type holds it.
InType(type, value) == IF IsSigned(type) THEN SignedAs(type, value) ELSE value % SizeModulus(type)

Truth(condition) == IF condition THEN 1 ELSE 0

NotConstant == -1

ConstantBinary(op, left, right) ==
  CASE op = "add" -> Unsigned(left + right)
    [] op = "sub" -> Unsigned(left - right)
    [] op = "mul" -> Unsigned(left * right)
    [] op = "div" -> IF right = 0 THEN NotConstant ELSE left \div right
    [] op = "mod" -> IF right = 0 THEN NotConstant ELSE left % right
    [] op = "less" -> Truth(left < right)
    [] op = "equal" -> Truth(left = right)

\* Every operation is that of unsigned words, whatever the types.
RECURSIVE ConstantCaseValue(_)
ConstantCaseValue(n) ==
  CASE n.kind = "integer" -> Unsigned(n.value)
    [] n.kind = "cast" ->
         LET value == ConstantCaseValue(n.a)
         IN IF value = NotConstant THEN value ELSE Unsigned(InType(n.type, value))
    [] n.kind = "unary" ->
         LET value == ConstantCaseValue(n.a)
         IN IF value = NotConstant THEN value
            ELSE IF n.op = "neg" THEN Unsigned(-value) ELSE Truth(value = 0)
    [] n.kind = "binary" ->
         LET values == <<ConstantCaseValue(n.a), ConstantCaseValue(n.b)>>
         IN IF NotConstant \in {values[1], values[2]} THEN NotConstant
            ELSE ConstantBinary(n.op, values[1], values[2])
    [] OTHER -> NotConstant

NormalizeCaseValue(type, value) == Unsigned(InType(type, value))

\* The case and default labels of a switch, those of a switch inside it left out.
RECURSIVE CaseNodes(_)
CaseNodesIn(list) == Joined([i \in 1..Len(list) |-> CaseNodes(list[i])])

CaseNodes(s) ==
  CASE s.kind \in {"case", "default"} -> <<s>>
    [] s.kind = "compound" -> CaseNodesIn(s.list)
    [] s.kind \in Compounds \ {"switch"} -> CaseNodesIn(<<s.init, s.body>> \o s.other)
    [] OTHER -> <<>>

\* The labels of a switch: each with its label, the cases with their value.
CollectCases(c, s) ==
  LET nodes == CaseNodesIn(<<s.body>>)
  IN [i \in 1..Len(nodes) |->
        [node |-> nodes[i], id |-> Fresh(c, i + 1), has_value |-> nodes[i].kind = "case",
         value |-> IF nodes[i].kind = "case" THEN ConstantCaseValue(nodes[i].value) ELSE 0]]

\* A value that is no constant, a value twice, or two default labels.
CasesWrong(entries) ==
  \/ \E i \in DOMAIN entries : entries[i].value = NotConstant
  \/ \E i, j \in DOMAIN entries :
       /\ i < j
       /\ entries[i].has_value = entries[j].has_value
       /\ entries[i].value = entries[j].value

-----------------------------------------------------------------------------
(* Statements. What a statement becomes is a list of items, lowered one    *)
(* after another; an item that is a statement is replaced by its own.      *)

Lowered(s) == [kind |-> "statement", s |-> s]
Emitted(ir) == [kind |-> "emit", ir |-> ir]
Valued(node) == [kind |-> "value", node |-> node]

\* An instruction with the value of a node as its first or second operand.
With(ir, operand, node) == [kind |-> "with", ir |-> ir, operand |-> operand, node |-> node]

Scope(break, continue, cases) ==
  [kind |-> "scope", break |-> break, continue |-> continue, cases |-> cases]
ScopeOf(c) == Scope(c.break, c.continue, c.cases)

\* The condition or the step a loop has not.
NoNode == [kind |-> "none"]

Branch(true_label, false_label) ==
  [New("branch", IntType) EXCEPT !.true_label = true_label, !.false_label = false_label]

\* A new name has one label drawn for it.
IdOf(c, name) == IF name \in DOMAIN c.names THEN c.names[name] ELSE Fresh(c, 1)
Named(c, name) ==
  IF name \in DOMAIN c.names THEN c ELSE [Drawn(c, 1) EXCEPT !.names = (name :> Fresh(c, 1)) @@ @]

PlanIf(c, s) ==
  LET then == Fresh(c, 1)
      otherwise == Fresh(c, 2)
      end == Fresh(c, 3)
  IN <<With(Branch(then, IF s.other = <<>> THEN end ELSE otherwise), 1, s.cond),
       Emitted(Label(then)), Lowered(s.body)>>
       \o When(s.other # <<>>, <<Emitted(Jump(end)), Emitted(Label(otherwise)), Lowered(s.other[1])>>)
       \o <<Emitted(Label(end))>>

PlanWhile(c, s) ==
  LET start == Fresh(c, 1)
      end == Fresh(c, 2)
  IN <<Scope(end, start, c.cases), Emitted(Label(start)), With(Branch(0, end), 1, s.cond),
       Lowered(s.body), Emitted(Jump(start)), Emitted(Label(end)), ScopeOf(c)>>

\* `continue' goes to the body without the test.
PlanDoContinues(c, s) ==
  LET start == Fresh(c, 1)
      end == Fresh(c, 3)
  IN <<Scope(end, start, c.cases), Emitted(Label(start)), Lowered(s.body), With(Branch(0, end), 1, s.cond),
       Emitted(Jump(start)), Emitted(Label(end)), ScopeOf(c)>>

PlanDo(c, s) ==
  LET start == Fresh(c, 1)
      continue == Fresh(c, 2)
      end == Fresh(c, 3)
  IN <<Scope(end, continue, c.cases), Emitted(Label(start)), Lowered(s.body),
       Emitted(Label(continue)), With(Branch(0, end), 1, s.cond),
       Emitted(Jump(start)), Emitted(Label(end)), ScopeOf(c)>>

PlanFor(c, s) ==
  LET start == Fresh(c, 1)
      continue == Fresh(c, 2)
      end == Fresh(c, 3)
  IN <<Lowered(s.init), Emitted(Label(start))>>
       \o When(s.cond # NoNode, <<With(Branch(0, end), 1, s.cond)>>)
       \o <<Scope(end, continue, c.cases), Lowered(s.body), Emitted(Label(continue))>>
       \o When(s.step # NoNode, <<Valued(s.step)>>)
       \o <<Emitted(Jump(start)), Emitted(Label(end)), ScopeOf(c)>>

\* The label behind the switch is drawn before those of its cases.
PlanSwitch(c, s) ==
  LET entries == CollectCases(c, s)
      end == Fresh(c, 1)
      valued == SelectSeq(entries, LAMBDA entry : entry.has_value)
      rest == SelectSeq(entries, LAMBDA entry : ~entry.has_value)
      cases == [i \in 1..Len(valued) |->
                  [value |-> NormalizeCaseValue(s.cond.type, valued[i].value), label |-> valued[i].id]]
      default == IF rest = <<>> THEN end ELSE rest[Len(rest)].id
  IN <<With([New("switch", LongType) EXCEPT !.cases = cases, !.id = default], 1, s.cond),
       Scope(end, c.continue, entries), Lowered(s.body), Emitted(Label(end)), ScopeOf(c)>>

\* A list of values, a copy of a structure, or a number.
PlanInitializer(s) ==
  LET Member(i) == With(Binary("store", s.type.member,
                               ObjectAddress(s.name, MemberOffset(s.type, i)), Null), 2, s.value[i])
      Zeroed == Emitted(Zero(s.type, SymbolAddress(s.name)))
  IN CASE s.value = <<>> -> <<>>
       [] ~IsStruct(s.type) ->
            <<With(Binary("store", s.type, SymbolAddress(s.name), Null), 2, s.value[1])>>
       [] s.braced -> <<Zeroed>> \o [i \in 1..Len(s.value) |-> Member(i)]
       [] OTHER -> <<Zeroed, With(Copy(s.type, SymbolAddress(s.name), Null), 2, s.value[1])>>

\* The value is converted to the type the function promises.
PlanReturn(c, s) ==
  LET return == New("return", c.result)
      node == s.value[1]
      cast == [kind |-> "cast", type |-> c.result, a |-> node]
  IN CASE s.value = <<>> -> <<Emitted(return)>>
       [] IsScalar(c.result) /\ IsScalar(node.type) /\ c.result.size # node.type.size ->
            <<With(return, 1, cast)>>
       [] OTHER -> <<With(return, 1, node)>>

\* The innermost switch's label for a case.
FindCase(c, s) == {entry \in Range(c.cases) : entry.node = s}

Plan(c, s) ==
  CASE s.kind = "compound" -> [i \in 1..Len(s.list) |-> Lowered(s.list[i])]
    [] s.kind = "declaration" -> PlanInitializer(s)
    [] s.kind = "expression" -> <<Valued(s.value)>>
    [] s.kind = "if" -> PlanIf(c, s)
    [] s.kind = "while" -> PlanWhile(c, s)
    [] s.kind = "do" -> PlanDo(c, s)
    [] s.kind = "for" -> PlanFor(c, s)
    [] s.kind = "switch" -> PlanSwitch(c, s)
    [] s.kind \in {"case", "default"} ->
         IF FindCase(c, s) = {} THEN <<>> ELSE <<Emitted(Label((CHOOSE e \in FindCase(c, s) : TRUE).id))>>
    [] s.kind = "break" -> <<Emitted(Jump(c.break))>>
    [] s.kind = "continue" -> <<Emitted(Jump(c.continue))>>
    [] s.kind = "return" -> PlanReturn(c, s)
    [] s.kind = "label" -> <<Emitted(Label(IdOf(c, s.name)))>>
    [] s.kind = "goto" -> <<Emitted(Jump(IdOf(c, s.name)))>>
    [] OTHER -> <<>>

\* The context once the labels of a statement are drawn.
Entered(c, s) ==
  CASE s.kind \in {"if", "do", "for"} -> Drawn(c, 3)
    [] s.kind = "while" -> Drawn(c, 2)
    [] s.kind = "switch" ->
         LET entries == CollectCases(c, s)
         IN [Drawn(c, 1 + Len(entries)) EXCEPT !.failed = @ \/ CasesWrong(entries)]
    [] s.kind \in {"case", "default"} -> IF FindCase(c, s) = {} THEN Fail(c) ELSE c
    [] s.kind \in {"label", "goto"} -> Named(c, s.name)
    [] s.kind = "broken" -> Fail(c)
    [] OTHER -> c

LowerItem(c, item) ==
  CASE item.kind = "statement" -> Entered(c, item.s)
    [] item.kind = "emit" -> Emit(c, item.ir)
    [] item.kind = "value" -> LET d == Lower(c, item.node, "value") IN Emit(d, d.ir)
    [] item.kind = "with" ->
         LET d == Lower(c, item.node, "value")
         IN Emit(d, IF item.operand = 1 THEN [item.ir EXCEPT !.a = d.ir] ELSE [item.ir EXCEPT !.b = d.ir])
    [] item.kind = "scope" ->
         [c EXCEPT !.break = item.break, !.continue = item.continue, !.cases = item.cases]

LowerNext(c) ==
  LET item == Head(c.todo)
      own == IF item.kind = "statement" THEN Plan(c, item.s) ELSE <<>>
  IN [LowerItem(c, item) EXCEPT !.todo = own \o Tail(@)]

\* At most 2^rounds items.
RECURSIVE LowerItems(_, _)
LowerItems(c, rounds) ==
  CASE c.todo = <<>> -> c
    [] rounds = 0 -> LowerNext(c)
    [] OTHER -> LowerItems(LowerItems(c, rounds - 1), rounds - 1)

\* More than any function here takes.
LoweringRounds == 10

\* A function as the encoder takes it. Aggregates that calls return and compound literals
\* took room past the frame.
Assembled(function, frame, c) ==
  [name |-> function.name, parameters |-> function.parameters, result |-> function.result,
   variadic |-> function.variadic, frame |-> frame, temps |-> c.temps, body |-> c.list,
   size |-> Max2(frame.size, AlignUp(frame.size + c.used, 2 * WordSize)), failed |-> c.failed]

LowerBody(function, frame, body) ==
  Assembled(function, frame,
            LowerItems(Context(frame.size, function.result,
                               <<>> \o [i \in 1..Len(body) |-> Lowered(body[i])]),
                       LoweringRounds))

LowerParsed(function, body) == LowerBody(function, FrameOf(function, body), body)

\* The body's compound statement is the function's.
LowerFunction(function) == LowerParsed(function, ParsedList(<<function.body>>))

=============================================================================
