----------------------------- MODULE Generation -----------------------------
(***************************************************************************)
(* A translation unit's functions lowered and encoded one after another,   *)
(* as the driver does (src/driver/main.c), and run on a machine of bytes   *)
(* and registers.                                                          *)
(*                                                                         *)
(* The machine belongs to no part of the compiler: it is the processor, the*)
(* loader that starts main, and the functions outside of the program, which*)
(* follow the calling convention and nothing else. They show the numbers   *)
(* they are given and answer when they are asked; they leave junk in every *)
(* register they may, in what of a result is not the number they return,   *)
(* and in the memory under the stack. Memory holds junk at first.          *)
(***************************************************************************)
EXTENDS Encoding, Meaning

CONSTANTS
  Programs,     \* the programs: sequences of functions, main among them
  MaxAnswers,   \* the answers that are given
  MemorySize    \* the bytes of memory, all of it stack

ASSUME GenerationAssumption ==
  /\ MaxAnswers \in Nat
  /\ MemorySize \in Nat

VARIABLES
  program,   \* what is compiled
  next,      \* the function that is compiled next
  lowered,   \* it, lowered and not yet encoded, or none
  frames,    \* the functions whose frames are laid out
  text,      \* the machine code
  symbols,   \* where in it each function begins
  failed,    \* a function was refused
  answers,   \* what ask answered
  machine    \* the processor, or none

vars == <<program, next, lowered, frames, text, symbols, failed, answers, machine>>

NoFunction == [name |-> NoName]
NoMachine == [state |-> "none"]

-----------------------------------------------------------------------------
(* The machine *)

Junk == 77
JunkWord == 9601

\* Addresses of code are no addresses of memory.
CodeStart == MemorySize + 1000
ExitAddress == CodeStart - 1

ReadBytes(memory, address, width) ==
  FoldLeft(LAMBDA sum, i : sum + memory[address + i] * Base ^ i, 0, [i \in 1..width |-> i - 1])

WriteBytes(memory, address, width, value) ==
  FoldLeft(LAMBDA m, i : [m EXCEPT ![address + i] = (value \div Base ^ i) % Base],
           memory, [i \in 1..width |-> i - 1])

InMemoryRange(address, width) == address >= 0 /\ address + width <= MemorySize

\* Registers whose values a function may lose.
Scratch == {AX, CX, DX, SI, DI, 8, 9, 10, 11}

Set(m, reg, value) == [m EXCEPT !.registers[reg] = Unsigned(value)]
Fault(m) == [m EXCEPT !.state = "fault"]

At(m, base, offset) == SignedAs(LongType, m.registers[base] + offset)

LoadInto(m, reg, address, width, signed) ==
  IF ~InMemoryRange(address, width) THEN Fault(m)
  ELSE LET value == ReadBytes(m.memory, address, width)
       IN Set(m, reg, IF signed THEN SignedAs([size |-> width], value) ELSE value)

StoreFrom(m, reg, address, width) ==
  IF ~InMemoryRange(address, width) THEN Fault(m)
  ELSE [m EXCEPT !.memory = WriteBytes(@, address, width, m.registers[reg])]

PushWord(m, value) ==
  LET address == m.registers[SP] - WordSize
  IN IF ~InMemoryRange(address, WordSize) THEN Fault(m)
     ELSE [m EXCEPT !.memory = WriteBytes(@, address, WordSize, value), !.registers[SP] = address]

PopWord(m, reg) ==
  LET top == m.registers[SP] IN Set(LoadInto(m, reg, top, WordSize, FALSE), SP, top + WordSize)

Number64(m, reg) == SignedAs(LongType, m.registers[reg])

\* A division leaves the remainder in the data register.
OperateOn(m, name, signed) ==
  LET a == IF signed THEN Number64(m, AX) ELSE m.registers[AX]
      b == IF signed THEN Number64(m, CX) ELSE m.registers[CX]
      divided == Set(Set(m, AX, Quotient(a, b)), DX, Remainder(a, b))
  IN CASE name = "add" -> Set(m, AX, a + b)
       [] name = "sub" -> Set(m, AX, a - b)
       [] name = "mul" -> Set(m, AX, a * b)
       [] b = 0 -> Fault(m)
       [] name = "div" -> divided
       [] name = "mod" -> Set(divided, AX, divided.registers[DX])

CompareIn(m, name, signed) ==
  Truth(CASE name = "equal" -> m.registers[AX] = m.registers[CX]
          [] name = "less" -> IF signed THEN Number64(m, AX) < Number64(m, CX)
                              ELSE m.registers[AX] < m.registers[CX])

CopyBytes(m) ==
  LET from == m.registers[SI]
      to == m.registers[DI]
      count == m.registers[CX]
  IN IF ~(InMemoryRange(from, count) /\ InMemoryRange(to, count)) THEN Fault(m)
     ELSE LET Moved1(memory, i) == [memory EXCEPT ![to + i] = memory[from + i]]
              moved == [m EXCEPT !.memory = FoldLeft(Moved1, @, [i \in 1..count |-> i - 1])]
          IN Set(Set(Set(moved, SI, from + count), DI, to + count), CX, 0)

FillBytes(m) ==
  LET to == m.registers[DI]
      count == m.registers[CX]
  IN IF ~InMemoryRange(to, count) THEN Fault(m)
     ELSE LET Filled(memory, i) == [memory EXCEPT ![to + i] = m.registers[AX] % Base]
              filled == [m EXCEPT !.memory = FoldLeft(Filled, @, [i \in 1..count |-> i - 1])]
          IN Set(Set(filled, DI, to + count), CX, 0)

Takes(m, condition) ==
  CASE condition = "always" -> TRUE
    [] condition = "zero" -> m.registers[AX] = 0
    [] condition = "not zero" -> m.registers[AX] # 0
    [] condition = "equal" -> m.registers[AX] = m.registers[CX]

\* What a call does: the stack is even when it is made.
CallTo(m, target) ==
  PushWord([m EXCEPT !.odd = @ \/ m.registers[SP] % (2 * WordSize) # 0, !.pc = target], CodeStart + m.pc)

\* A function outside of the program returns.
LoseScratch(m, value) ==
  [m EXCEPT
     !.registers = [r \in DOMAIN @ |-> IF r = AX THEN Unsigned(value)
                                       ELSE IF r \in Scratch THEN JunkWord ELSE @[r]],
     !.memory = FoldLeft(LAMBDA memory, a : [memory EXCEPT ![a] = Junk], @,
                         [i \in 1..(4 * WordSize) |-> m.registers[SP] - i])]

\* The i-th number the convention passes; the first few in registers, the rest in slots.
Passed(m, i) ==
  SignedAs(IntType, IF i <= Registers THEN m.registers[argument_registers[i]]
                    ELSE ReadBytes(m.memory, m.registers[SP] + (i - Registers - 1) * WordSize, WordSize))

\* ask leaves junk above the number it returns.
CallExternal(m, name) ==
  LET called == [m EXCEPT !.odd = @ \/ m.registers[SP] % (2 * WordSize) # 0]
      junk == JunkWord - (JunkWord % SizeModulus(IntType))
      count == IF name = "put" THEN 1 ELSE 3
  IN CASE name = "ask" ->
            IF m.answers = <<>> THEN [called EXCEPT !.state = "waiting", !.pc = @ - 1]
            ELSE LoseScratch([called EXCEPT !.answers = Tail(@)], junk + Head(m.answers))
       [] OTHER -> LoseScratch([called EXCEPT !.shown = @ \o [i \in 1..count |-> Passed(m, i)]], JunkWord)

\* Where a name's code begins; a name outside of the program has an address as well.
AddressOf(m, name) == CodeStart + m.symbols[name]

Return(m) ==
  LET target == ReadBytes(m.memory, m.registers[SP], WordSize)
      back == [m EXCEPT !.registers[SP] = @ + WordSize]
  IN CASE ~InMemoryRange(m.registers[SP], WordSize) -> Fault(m)
       [] target = ExitAddress -> [back EXCEPT !.state = "exited"]
       [] target \in CodeStart..(CodeStart + Len(m.text)) -> [back EXCEPT !.pc = target - CodeStart]
       [] OTHER -> Fault(m)

\* m: its pc is already that of the instruction behind.
Performed(m, cell) ==
  CASE cell.op = "immediate" -> Set(m, cell.reg, cell.value)
    [] cell.op = "move" -> Set(m, cell.reg, m.registers[cell.from])
    [] cell.op = "load" -> LoadInto(m, cell.reg, At(m, cell.base, cell.offset), cell.width, cell.signed)
    [] cell.op = "store" -> StoreFrom(m, cell.reg, At(m, cell.base, cell.offset), cell.width)
    [] cell.op = "lea" -> Set(m, cell.reg, At(m, FP, cell.offset))
    [] cell.op = "lea symbol" ->
         IF cell.symbol \in DOMAIN m.symbols THEN Set(m, AX, AddressOf(m, cell.symbol)) ELSE Fault(m)
    [] cell.op = "add immediate" -> Set(m, cell.reg, m.registers[cell.reg] + cell.value)
    [] cell.op = "operate" -> OperateOn(m, cell.name, cell.signed)
    [] cell.op = "compare" -> Set(m, AX, CompareIn(m, cell.name, cell.signed))
    [] cell.op = "normalize" ->
         Set(m, AX, IF cell.signed THEN SignedAs([size |-> cell.width], m.registers[AX])
                    ELSE m.registers[AX] % Base ^ cell.width)
    [] cell.op = "neg" -> Set(m, AX, -Number64(m, AX))
    [] cell.op = "not" -> Set(m, AX, Truth(m.registers[AX] = 0))
    [] cell.op = "truth" -> Set(m, AX, Truth(m.registers[AX] # 0))
    [] cell.op = "push" -> PushWord(m, m.registers[cell.reg])
    [] cell.op = "pop" -> PopWord(m, cell.reg)
    [] cell.op = "copy bytes" -> CopyBytes(m)
    [] cell.op = "fill bytes" -> FillBytes(m)
    [] cell.op = "jump" -> IF Takes(m, cell.condition) THEN [m EXCEPT !.pc = @ + cell.displacement] ELSE m
    [] cell.op = "call" ->
         CASE cell.symbol \in DOMAIN m.symbols -> CallTo(m, m.symbols[cell.symbol])
           [] cell.symbol \in Externals -> CallExternal(m, cell.symbol)
           [] OTHER -> Fault(m)
    [] cell.op = "call register" ->
         LET target == m.registers[cell.reg] - CodeStart
         IN IF target \in 0..Len(m.text) THEN CallTo(m, target) ELSE Fault(m)
    [] cell.op = "return" -> Return(m)

ExecuteOne(m) ==
  IF m.pc \in 0..(Len(m.text) - 1) THEN Performed([m EXCEPT !.pc = @ + 1], m.text[m.pc + 1]) ELSE Fault(m)

\* At most 2^rounds instructions.
RECURSIVE Run(_, _)
Run(m, rounds) ==
  CASE m.state # "running" -> m
    [] rounds = 0 -> ExecuteOne(m)
    [] OTHER -> Run(Run(m, rounds - 1), rounds - 1)

MachineRounds == 12

\* main is called with an even stack.
StartedMachine ==
  PushWord([state |-> "running", text |-> text, symbols |-> symbols, pc |-> symbols["main"],
            registers |-> [r \in 0..11 |-> CASE r = SP -> MemorySize - 4 * WordSize
                                             [] r = FP -> JunkWord + 1
                                             [] OTHER -> JunkWord],
            memory |-> [a \in 0..(MemorySize - 1) |-> Junk],
            shown |-> <<>>, answers |-> <<>>, odd |-> FALSE], ExitAddress)

\* The machine's code does not change; it is not kept with its state.
Kept(m) == [m EXCEPT !.text = <<>>, !.symbols = << >>]
Whole(m) == [m EXCEPT !.text = text, !.symbols = symbols]

-----------------------------------------------------------------------------
(* Compiling and running *)

Init ==
  /\ program \in Programs
  /\ next = 1
  /\ lowered = NoFunction
  /\ frames = {}
  /\ text = <<>>
  /\ symbols = << >>
  /\ failed = FALSE
  /\ answers = <<>>
  /\ machine = NoMachine

LowerDeclaration ==
  /\ lowered = NoFunction /\ ~failed
  /\ next <= Len(program)
  /\ LET function == LowerFunction(program[next])
     IN /\ failed' = function.failed
        /\ lowered' = IF function.failed THEN NoFunction ELSE function
        /\ frames' = IF function.failed THEN frames ELSE frames \cup {[function EXCEPT !.body = <<>>]}
  /\ UNCHANGED <<program, next, text, symbols, answers, machine>>

AddFunction ==
  /\ lowered # NoFunction
  /\ LET e == EncodeFunction(lowered)
     IN IF e.failed THEN failed' = TRUE /\ UNCHANGED <<next, text, symbols>>
        ELSE /\ symbols' = (lowered.name :> Len(text)) @@ symbols
             /\ text' = text \o e.code
             /\ next' = next + 1
             /\ failed' = FALSE
  /\ lowered' = NoFunction
  /\ UNCHANGED <<program, frames, answers, machine>>

Compiled == next > Len(program)

Begin ==
  /\ Compiled
  /\ machine = NoMachine
  /\ machine' = Kept(Run(StartedMachine, MachineRounds))
  /\ UNCHANGED <<program, next, lowered, frames, text, symbols, failed, answers>>

Answer(b) ==
  /\ machine.state = "waiting"
  /\ Len(answers) < MaxAnswers
  /\ answers' = Append(answers, b)
  /\ machine' = Kept(Run([Whole(machine) EXCEPT !.state = "running", !.answers = <<b>>], MachineRounds))
  /\ UNCHANGED <<program, next, lowered, frames, text, symbols, failed>>

Next == LowerDeclaration \/ AddFunction \/ Begin \/ \E b \in {0, 1} : Answer(b)

Spec == Init /\ [][Next]_vars

-----------------------------------------------------------------------------
(* Properties *)

\* The machine shows what the program means, in that order, asks when it asks and not
\* before, and leaves with the number main returns; the stack and the frame pointer are
\* then those it was started with. So does every path through nested loops, switches and
\* jumps, every way of passing a value, and every order of what is kept in registers and
\* on the stack (lower.c, encoder.c).
MeansWhatCMeans ==
  machine # NoMachine =>
    LET meaning == MeaningOf(program, answers)
    IN /\ machine.shown = meaning.shown
       /\ machine.state = IF meaning.waiting THEN "waiting" ELSE "exited"
       /\ ~meaning.waiting =>
            /\ SignedAs(IntType, machine.registers[AX]) = meaning.status[1].number
            /\ machine.registers[SP] = MemorySize - 4 * WordSize
            /\ machine.registers[FP] = JunkWord + 1

\* Every call is made with the stack at a multiple of two words, however many arguments
\* and operands of the expressions around it wait there (encoder.c:644, abi-v1.md).
CallsAligned == machine # NoMachine => ~machine.odd

\* The objects a frame holds: what has a name, the pointer for the result, the saved
\* registers, and what calls and compound literals return.
FrameObjects(f) ==
  LET function == FunctionNamed(program, f.name)
      slots == ParameterSlots(f)
      declared == Range(Locals(function.body))
                    \cup {f.parameters[i] : i \in {j \in DOMAIN slots : slots[j].in_register}}
      Object(of, at, size, align) == [of |-> of, at |-> at, size |-> size, align |-> align]
      Typed(of, at, type) == Object(of, at, type.size, type.align)
  IN {Typed(<<"name", d.name>>, f.frame.offset[d.name], d.type) : d \in declared}
       \cup {Typed(<<"temporary", i>>, f.temps[i].offset, f.temps[i].type) : i \in DOMAIN f.temps}
       \cup (IF InMemory(f.result) THEN {Object(<<"result">>, f.frame.return_pointer, WordSize, WordSize)}
             ELSE {})
       \cup (IF f.variadic
             THEN {Object(<<"saved">>, f.frame.va_area, SavedBytes, WordSize)}
             ELSE {})

\* No two objects of a frame share a byte, each is on its alignment and all of them are
\* inside the frame, although four passes lay them out (assign_frame, lower_temp, and the
\* encoder for the saved registers and the pointer for the result).
FrameApart ==
  \A f \in frames :
    /\ \A o \in FrameObjects(f) :
         /\ -f.size <= o.at /\ o.at + o.size <= 0
         /\ o.at % o.align = 0
    /\ \A o, p \in FrameObjects(f) :
         o.of # p.of => o.at + o.size <= p.at \/ p.at + p.size <= o.at

\* A function is refused when C forbids it, and only then: a goto without its label, a
\* value twice in a switch, two defaults (collect_cases, resolve_labels).
RefusedWhenForbidden ==
  /\ failed => ~Allowed(program[next])
  /\ \A i \in 1..(next - 1) : Allowed(program[i])

=============================================================================
