------------------------------ MODULE Encoding ------------------------------
(***************************************************************************)
(* From a function's instructions in order to its machine code: the        *)
(* encoder (src/backend/encoder.c).                                        *)
(*                                                                         *)
(* One machine instruction is one cell of the code, and the distance of a  *)
(* jump is counted in cells; a comparison and the instructions that make a *)
(* number of its flags are one cell, and so are a test of the accumulator  *)
(* and the jump behind it.                                                 *)
(*                                                                         *)
(* What an instruction is encoded to is a list of steps, encoded one after *)
(* another; an operand is a step that is replaced by its own steps.        *)
(***************************************************************************)
EXTENDS Lowering

-----------------------------------------------------------------------------
(* Registers and cells *)

AX == 0
CX == 1
DX == 2
SP == 4
FP == 5
SI == 6
DI == 7

argument_registers == <<DI, SI, DX, CX, 8, 9>>
return_general == <<AX, DX>>

Immediate(reg, value) == [op |-> "immediate", reg |-> reg, value |-> Unsigned(value)]
Move(to, from) == [op |-> "move", reg |-> to, from |-> from]
Load(reg, base, offset, width, signed) ==
  [op |-> "load", reg |-> reg, base |-> base, offset |-> offset, width |-> width, signed |-> signed]
Store(reg, base, offset, width) ==
  [op |-> "store", reg |-> reg, base |-> base, offset |-> offset, width |-> width]
Lea(reg, offset) == [op |-> "lea", reg |-> reg, offset |-> offset]
LeaSymbol(name) == [op |-> "lea symbol", symbol |-> name]
AddImmediate(reg, value) == [op |-> "add immediate", reg |-> reg, value |-> value]
Operate(name, signed) == [op |-> "operate", name |-> name, signed |-> signed]
Compare(name, signed) == [op |-> "compare", name |-> name, signed |-> signed]
Normalize(width, signed) == [op |-> "normalize", width |-> width, signed |-> signed]
PushCell(reg) == [op |-> "push", reg |-> reg]
PopCell(reg) == [op |-> "pop", reg |-> reg]
Call(name) == [op |-> "call", symbol |-> name]
CallRegister(reg) == [op |-> "call register", reg |-> reg]
Plain(name) == [op |-> name]

\* condition: "always", "zero", "not zero" or "equal", of the accumulator.
JumpCell(condition, label) ==
  [op |-> "jump", condition |-> condition, label |-> label, displacement |-> 0]

-----------------------------------------------------------------------------
(* Steps *)

Cell(cell) == [step |-> "cell", cell |-> cell]
Cells(cells) == [i \in 1..Len(cells) |-> Cell(cells[i])]
Expr(ir) == [step |-> "expr", ir |-> ir]
Define(label) == [step |-> "define", label |-> label]
Refuse == [step |-> "refuse"]

\* Words put on the stack and taken off it are counted.
Pushed(cell, words) == [step |-> "stack", cell |-> cell, words |-> words]
Push(reg) == Pushed(PushCell(reg), 1)
Pop(reg) == Pushed(PopCell(reg), -1)
Grow == Pushed(AddImmediate(SP, -WordSize), 1)
Release(words, bytes) == Pushed(AddImmediate(SP, bytes), -words)

Width(type) == IF type.size = 0 THEN WordSize ELSE type.size

\* A value narrower than a word fills the register.
Normalized(type) ==
  When(type.size \in 1..(WordSize - 1), <<Cell(Normalize(type.size, IsSigned(type)))>>)

\* The widest piece that fits what is left.
NextChunk(count) ==
  CHOOSE w \in {1, 2, 4, 8} :
    /\ w <= count /\ w <= WordSize
    /\ \A v \in {1, 2, 4, 8} : v <= count /\ v <= WordSize => v <= w

\* Every piece goes through the same low end of the register.
RECURSIVE LoadPartial(_, _, _, _), StorePartial(_, _, _, _)
LoadPartial(reg, base, offset, count) ==
  IF count = 0 THEN <<>>
  ELSE <<Cell(Load(reg, base, offset, NextChunk(count), FALSE))>>
         \o LoadPartial(reg, base, offset + NextChunk(count), count - NextChunk(count))
StorePartial(reg, base, offset, count) ==
  IF count = 0 THEN <<>>
  ELSE <<Cell(Store(reg, base, offset, NextChunk(count)))>>
         \o StorePartial(reg, base, offset + NextChunk(count), count - NextChunk(count))

\* The bytes of a structure that are in its i-th word.
PieceWidth(type, i) == IF type.size - (i - 1) * WordSize >= WordSize THEN WordSize
                       ELSE type.size - (i - 1) * WordSize
PieceOffset(i) == (i - 1) * WordSize

-----------------------------------------------------------------------------
(* Calls *)

\* A structure goes on the stack a piece at a time, its last one first.
RECURSIVE PushPieces(_, _)
PushPieces(size, end) ==
  IF end = 0 THEN <<>>
  ELSE LET odd == size % WordSize
           width == IF odd # 0 /\ odd <= end THEN odd ELSE IF end >= WordSize THEN WordSize ELSE end
       IN LoadPartial(AX, 10, end - width, width) \o <<Push(AX)>> \o PushPieces(size, end - width)

PushAggregate(arg) ==
  LET total == AlignUp(arg.type.size, WordSize)
  IN <<Expr(arg)>>
       \o (IF total <= WordSize THEN <<Push(AX)>>
           ELSE <<Cell(Move(10, AX))>> \o PushPieces(arg.type.size, total))

TakeAggregate(slot, type) ==
  <<Cell(Load(11, SP, 0, WordSize, FALSE))>>
    \o Joined([i \in 1..Len(slot.registers) |->
                     LoadPartial(argument_registers[slot.registers[i]], 11,
                                 PieceOffset(i), PieceWidth(type, i))])
    \o <<Release(1, WordSize)>>

PutOnStack(arg) == IF IsStruct(arg.type) THEN PushAggregate(arg) ELSE <<Expr(arg), Push(AX)>>

TakeArgument(slot, type) ==
  IF IsStruct(type) THEN TakeAggregate(slot, type) ELSE <<Pop(argument_registers[slot.registers[1]])>>

StackUnits(slots) ==
  FoldLeft(LAMBDA sum, slot : IF slot.in_register THEN sum ELSE sum + slot.size \div WordSize, 0, slots)

IsDirect(inst) == inst.a.op = "addr" /\ inst.a.symbol # NoName

CallsVaStart(inst) == IsDirect(inst) /\ inst.args = <<>> /\ inst.a.symbol = VaStart

\* The parameters a variadic function names, no more than there are registers.
NamedRegisters(function) ==
  IF Len(function.parameters) < Registers THEN Len(function.parameters) ELSE Registers

EncodeVaStart(function) ==
  IF ~function.variadic THEN <<Refuse>>
  ELSE <<Cell(Lea(AX, function.frame.va_area + NamedRegisters(function) * WordSize))>>

\* Where the result of a call is when it is back.
EncodeResult(inst) ==
  CASE ~IsStruct(inst.type) -> Normalized(inst.type)
    [] InMemory(inst.type) -> <<>>
    [] OTHER ->
         Joined([i \in 1..Pieces(inst.type) |->
                       StorePartial(return_general[i], FP, inst.offset + PieceOffset(i),
                                    PieceWidth(inst.type, i))])
           \o <<Cell(Lea(AX, inst.offset))>>

\* What waits on the stack for an enclosing expression is forgotten.
AdjustsOwn(depth, units) == units % 2 # 0

\* The stack is made even before the arguments go on it.
Adjusts(depth, units) == (depth + units) % 2 # 0

EncodeCall(e, inst) ==
  LET types == [i \in 1..Len(inst.args) |-> inst.args[i].type]
      slots == Slots(types, inst.type)
      area == Area(types, inst.type)
      units == StackUnits(slots)
      order == [i \in 1..Len(slots) |-> i]
      stacked == Reverse(SelectSeq(order, LAMBDA i : ~slots[i].in_register))
      registered == SelectSeq(order, LAMBDA i : slots[i].in_register)
      taken == Reverse(registered)
      adjust == Adjusts(e.depth, units)
  IN When(adjust, <<Grow>>)
       \o Joined([i \in 1..Len(stacked) |-> PutOnStack(inst.args[stacked[i]])])
       \o Joined([i \in 1..Len(registered) |-> <<Expr(inst.args[registered[i]]), Push(AX)>>])
       \o When(~IsDirect(inst), <<Expr(inst.a), Push(AX), Pop(11)>>)
       \o Joined([i \in 1..Len(taken) |-> TakeArgument(slots[taken[i]], types[taken[i]])])
       \o When(InMemory(inst.type), <<Cell(Lea(argument_registers[1], inst.offset))>>)
       \o <<Cell(IF IsDirect(inst) THEN Call(inst.a.symbol) ELSE CallRegister(11))>>
       \o When(area # 0, <<Release(units, area)>>)
       \o When(adjust, <<Release(1, WordSize)>>)
       \o EncodeResult(inst)

-----------------------------------------------------------------------------
(* Expressions *)

JumpStep(condition, label) == Cell(JumpCell(condition, label))

EncodeLoad(e, inst) ==
  CASE inst.a # Null -> <<Expr(inst.a), Cell(Load(AX, AX, 0, Width(inst.type), IsSigned(inst.type)))>>
    [] inst.symbol \in DOMAIN e.function.frame.offset ->
         <<Cell(Load(AX, FP, e.function.frame.offset[inst.symbol], Width(inst.type), IsSigned(inst.type)))>>
    [] OTHER -> <<Refuse>>

EncodeStore(inst) ==
  <<Expr(inst.a), Push(AX), Expr(inst.b), Cell(Move(CX, AX)), Pop(AX),
    Cell(Store(CX, AX, 0, Width(inst.type))), Cell(Move(AX, CX))>>

EncodeAddr(e, inst) ==
  CASE inst.a # Null -> <<Expr(inst.a)>>
    [] inst.symbol = NoName -> <<Cell(Lea(AX, inst.offset))>>
    [] inst.symbol \in DOMAIN e.function.frame.offset ->
         <<Cell(Lea(AX, e.function.frame.offset[inst.symbol]))>>
    [] OTHER -> <<Cell(LeaSymbol(inst.symbol))>>

EncodeMember(inst) ==
  <<Expr(inst.a)>> \o When(inst.offset # 0, <<Cell(AddImmediate(AX, inst.offset))>>)

\* The left operand waits on the stack.
BothOperands(inst) == <<Expr(inst.a), Push(AX), Expr(inst.b), Cell(Move(CX, AX)), Pop(AX)>>

EncodeBinary(inst) ==
  BothOperands(inst) \o <<Cell(Operate(inst.op, IsSigned(inst.type)))>> \o Normalized(inst.type)

EncodeCompare(inst) == BothOperands(inst) \o <<Cell(Compare(inst.op, IsSigned(inst.a.type)))>>

\* The address waits in a register.
EncodeCompoundKept(inst) ==
  <<Expr(inst.a), Cell(Move(11, AX)), Cell(Load(AX, AX, 0, Width(inst.type), IsSigned(inst.type))), Push(AX),
    Expr(inst.b), Cell(Move(CX, AX)), Pop(AX), Cell(Operate(inst.binary, IsSigned(inst.type)))>>
    \o Normalized(inst.type) \o <<Cell(Store(AX, 11, 0, Width(inst.type)))>>

EncodeCompound(inst) ==
  <<Expr(inst.a), Push(AX), Cell(Load(AX, AX, 0, Width(inst.type), IsSigned(inst.type))), Push(AX),
    Expr(inst.b), Cell(Move(CX, AX)), Pop(AX), Cell(Operate(inst.binary, IsSigned(inst.type)))>>
    \o Normalized(inst.type) \o <<Pop(11), Cell(Store(AX, 11, 0, Width(inst.type)))>>

EncodeLogical(inst) ==
  LET short == IF inst.op = "and" THEN inst.false_label ELSE inst.true_label
  IN <<Expr(inst.a), JumpStep(IF inst.op = "and" THEN "zero" ELSE "not zero", short),
       Expr(inst.b), Cell(Plain("truth")), JumpStep("always", inst.end_label),
       Define(short), Cell(Immediate(AX, Truth(inst.op = "or"))), Define(inst.end_label)>>

EncodeCopy(inst) ==
  <<Expr(inst.a), Push(AX), Expr(inst.b), Cell(Move(SI, AX)), Pop(DI), Cell(Move(11, DI)),
    Cell(Immediate(CX, inst.value)), Cell(Plain("copy bytes")), Cell(Move(AX, 11))>>

EncodeZero(inst) ==
  <<Expr(inst.a), Push(AX), Cell(Move(DI, AX)), Cell(Immediate(CX, inst.value)),
    Cell(Immediate(AX, 0)), Cell(Plain("fill bytes")), Pop(AX)>>

EncodeIncrement(inst) ==
  <<Expr(inst.a), Push(AX), Cell(Load(AX, AX, 0, Width(inst.type), IsSigned(inst.type))),
    Cell(Move(10, AX)), Cell(AddImmediate(AX, inst.value))>>
    \o Normalized(inst.type) \o <<Pop(11), Cell(Store(AX, 11, 0, Width(inst.type)))>>
    \o When(inst.post, <<Cell(Move(AX, 10))>>)

EncodeSwitch(inst) ==
  <<Expr(inst.a)>>
    \o When(inst.a.type.size = WordSize \div 2, Normalized(inst.a.type))
    \o Joined([i \in 1..Len(inst.cases) |->
                     <<Cell(Immediate(CX, inst.cases[i].value)), JumpStep("equal", inst.cases[i].label)>>])
    \o <<JumpStep("always", inst.id)>>

EncodeConditional(inst) ==
  <<Expr(inst.a), JumpStep("zero", inst.false_label), Expr(inst.b),
    JumpStep("always", inst.end_label), Define(inst.false_label), Expr(inst.c), Define(inst.end_label)>>

EncodeNegation(inst) == <<Expr(inst.a), Cell(Plain(inst.op))>> \o When(inst.op = "neg", Normalized(inst.type))

\* Arithmetic on the accumulator and the counter.
Arithmetic == {"add", "sub", "mul", "div", "mod"}

ExprSteps(e, inst) ==
  CASE inst.op = "const" -> <<Cell(Immediate(AX, inst.value))>>
    [] inst.op = "load" -> EncodeLoad(e, inst)
    [] inst.op = "store" -> EncodeStore(inst)
    [] inst.op = "addr" -> EncodeAddr(e, inst)
    [] inst.op = "aggregate" -> <<Expr(inst.a)>>
    [] inst.op = "member" -> EncodeMember(inst)
    [] inst.op = "call" -> IF CallsVaStart(inst) THEN EncodeVaStart(e.function) ELSE EncodeCall(e, inst)
    [] inst.op = "cast" -> <<Expr(inst.a)>> \o Normalized(inst.type)
    [] inst.op = "comma" -> <<Expr(inst.a), Expr(inst.b)>>
    [] inst.op = "conditional" -> EncodeConditional(inst)
    [] inst.op = "switch" -> EncodeSwitch(inst)
    [] inst.op = "increment" -> EncodeIncrement(inst)
    [] inst.op = "zero" -> EncodeZero(inst)
    [] inst.op = "copy" -> EncodeCopy(inst)
    [] inst.op = "compound" -> EncodeCompound(inst)
    [] inst.op \in Compares -> EncodeCompare(inst)
    [] inst.op \in Arithmetic -> EncodeBinary(inst)
    [] inst.op \in Logicals -> EncodeLogical(inst)
    [] inst.op \in {"neg", "not"} -> EncodeNegation(inst)
    [] OTHER -> <<Refuse>>

-----------------------------------------------------------------------------
(* Statements and functions *)

Epilogue == Cells(<<Move(SP, FP), PopCell(FP), Plain("return")>>)

\* A structure goes through the pointer the caller named, or into the result registers.
ReturnValue(e, type) ==
  CASE ~IsStruct(type) -> Normalized(type)
    [] InMemory(type) ->
         Cells(<<Move(SI, AX), Load(DI, FP, e.function.frame.return_pointer, WordSize, FALSE),
                 Move(11, DI), Immediate(CX, type.size), Plain("copy bytes"), Move(AX, 11)>>)
    [] OTHER ->
         <<Cell(Move(11, AX))>>
           \o Joined([i \in 1..Pieces(type) |->
                            LoadPartial(return_general[i], 11, PieceOffset(i), PieceWidth(type, i))])

StatementSteps(e, inst) ==
  CASE inst.op = "label" -> <<Define(inst.id)>>
    [] inst.op = "jump" -> <<JumpStep("always", inst.id)>>
    [] inst.op = "branch" -> <<Expr(inst.a), JumpStep("zero", inst.false_label)>>
    [] inst.op = "return" ->
         When(inst.a # Null, <<Expr(inst.a)>> \o ReturnValue(e, inst.type)) \o Epilogue
    [] OTHER -> <<Expr(inst)>>

\* A parameter that came in registers goes to its place in the frame.
StoreParameter(parameter, slot, offset) ==
  Joined([i \in 1..Len(slot.registers) |->
                StorePartial(argument_registers[slot.registers[i]], FP, offset + PieceOffset(i),
                             PieceWidth(parameter.type, i))])

\* The registers are saved in a row, the slots the caller put on the stack behind them.
SaveVariadic(function) ==
  LET area == function.frame.va_area
      source == 2 * WordSize
      Slot(i) == <<Load(AX, FP, source + (i - 1) * WordSize, WordSize, FALSE),
                   Store(AX, FP, area + (Registers + i - 1) * WordSize, WordSize)>>
  IN Cells([i \in 1..Registers |->
              Store(argument_registers[i], FP, area + (i - 1) * WordSize, WordSize)]
             \o Joined([i \in 1..VariadicSlots |-> Slot(i)]))

Prologue(function) ==
  LET slots == ParameterSlots(function)
      parameters == function.parameters
  IN Cells(<<PushCell(FP), Move(FP, SP)>>)
       \o When(function.size # 0, <<Cell(AddImmediate(SP, -function.size))>>)
       \o When(function.frame.return_pointer # 0,
               <<Cell(Store(argument_registers[1], FP, function.frame.return_pointer, WordSize))>>)
       \o Joined([i \in 1..Len(parameters) |->
                        StoreParameter(parameters[i], slots[i], function.frame.offset[parameters[i].name])])
       \o When(function.variadic, SaveVariadic(function))

FunctionSteps(function) ==
  Prologue(function)
    \o [i \in 1..Len(function.body) |-> [step |-> "statement", ir |-> function.body[i]]]
    \o Epilogue

\* The encoder: the code, the words on the stack, the labels, and the steps to come.
Encoder(function) ==
  [function |-> function, code |-> <<>>, depth |-> 0, labels |-> << >>, failed |-> function.failed,
   todo |-> FunctionSteps(function)]

EncodeStep(e, s) ==
  CASE s.step = "cell" -> [e EXCEPT !.code = Append(@, s.cell)]
    [] s.step = "stack" ->
         [e EXCEPT !.code = Append(@, s.cell),
                   !.depth = IF @ + s.words < 0 THEN 0 ELSE @ + s.words]
    [] s.step = "define" -> [e EXCEPT !.labels = (s.label :> Len(e.code)) @@ @]
    [] s.step = "refuse" -> [e EXCEPT !.failed = TRUE]
    [] OTHER -> e

OwnSteps(e, s) ==
  CASE s.step = "expr" -> ExprSteps(e, s.ir)
    [] s.step = "statement" -> StatementSteps(e, s.ir)
    [] OTHER -> <<>>

EncodeNext(e) ==
  LET s == Head(e.todo)
  IN [EncodeStep(e, s) EXCEPT !.todo = OwnSteps(e, s) \o Tail(e.todo)]

\* At most 2^rounds steps.
RECURSIVE EncodeSteps(_, _)
EncodeSteps(e, rounds) ==
  CASE e.todo = <<>> -> e
    [] rounds = 0 -> EncodeNext(e)
    [] OTHER -> EncodeSteps(EncodeSteps(e, rounds - 1), rounds - 1)

\* A jump to nowhere goes to the next instruction.
ResolveLabelsKnown(e) ==
  LET jumps == {i \in DOMAIN e.code : e.code[i].op = "jump" /\ e.code[i].label \in DOMAIN e.labels}
      Resolved(i) == [e.code[i] EXCEPT !.displacement = e.labels[e.code[i].label] - i]
  IN [e EXCEPT !.code = [i \in DOMAIN e.code |-> IF i \in jumps THEN Resolved(i) ELSE e.code[i]]]

\* Every jump is given its distance; one to a label nothing defines is refused.
ResolveLabels(e) ==
  LET jumps == {i \in DOMAIN e.code : e.code[i].op = "jump"}
      Resolved(i) == [e.code[i] EXCEPT !.displacement = e.labels[e.code[i].label] - i]
  IN IF \E i \in jumps : e.code[i].label \notin DOMAIN e.labels THEN [e EXCEPT !.failed = TRUE]
     ELSE [e EXCEPT !.code = [i \in DOMAIN e.code |-> IF i \in jumps THEN Resolved(i) ELSE e.code[i]]]

\* More than any function here takes.
EncodingRounds == 12

EncodeFunction(function) == ResolveLabels(EncodeSteps(Encoder(function), EncodingRounds))

=============================================================================
