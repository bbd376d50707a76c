---------------------------- MODULE MacroPromise ----------------------------
(***************************************************************************)
(* What C17, 6.10.3, makes of a line of text, for MacroExpansion to be     *)
(* compared with: arguments are replaced on their own before they are      *)
(* substituted, what results is read again together with the rest of the   *)
(* line, and each token carries the names it must not be replaced for.     *)
(* Behind #if it is the value of a constant expression (6.6, 6.10.1): what *)
(* is not evaluated may divide by zero, each operator has its own type,    *)
(* and what has no value must be diagnosed.                                *)
(***************************************************************************)
EXTENDS MacroExpansion

Marked(tokens, names) == [i \in DOMAIN tokens |-> [name |-> tokens[i], hide |-> names]]

Names(tokens) == [i \in DOMAIN tokens |-> tokens[i].name]

Hiding(tokens, names) ==
  [i \in DOMAIN tokens |-> [tokens[i] EXCEPT !.hide = @ \cup names]]

PlaceMarker == [name |-> <<>>, hide |-> {}]

Wrong == [good |-> FALSE, tokens |-> <<>>]

RECURSIVE CSplit(_, _, _, _)

\* The arguments of a call, from the tokens behind the parenthesis that begins
\* them, and what follows the one that ends them.
CSplit(tokens, macro, nesting, parts) ==
  LET first == Head(tokens)
      closes == first.name = <<")">>
      deeper == CASE closes -> nesting - 1
                  [] first.name = <<"(">> -> nesting + 1
                  [] OTHER -> nesting IN
  IF tokens = <<>> THEN [closed |-> FALSE]
  ELSE IF closes /\ nesting = 0
  THEN [closed |-> TRUE, parts |-> parts, hide |-> first.hide, after |-> Tail(tokens)]
  ELSE IF /\ first.name = <<",">> /\ nesting = 0
          /\ ~(macro.variadic /\ Len(parts) = Len(macro.parameters))
  THEN CSplit(Tail(tokens), macro, nesting, Append(parts, <<>>))
  ELSE CSplit(Tail(tokens), macro, deeper,
              Append(Front(parts), Append(Last(parts), first)))

\* An argument without a token is an argument too, and the variable ones may be
\* left out.
CArguments(parts, macro) ==
  IF macro.parameters = <<>> /\ parts = <<<<>>>> THEN <<>>
  ELSE IF macro.variadic /\ Len(parts) = Len(macro.parameters) - 1
  THEN Append(parts, <<>>) ELSE parts

RECURSIVE CExpand(_), CSubstitute(_, _, _, _, _)

\* The operand at i of the body: a parameter beside ## is not replaced.
COperand(macro, arguments, i) ==
  LET body == macro.body
      token == body[i]
      given == arguments[Parameter(macro, token)] IN
  IF ~IsParameter(macro, token) THEN Marked(<<token>>, {})
  ELSE IF ~(At(body, i + 1, "##") \/ (i > 1 /\ At(body, i - 1, "##")))
  THEN CExpand(given).tokens
  ELSE IF given = <<>> THEN <<PlaceMarker>> ELSE given

CSubstitute(macro, arguments, i, list, pasting) ==
  LET body == macro.body
      string == /\ macro.function /\ At(body, i, "#")
                /\ i < Len(body) /\ IsParameter(macro, body[i + 1])
      operand == IF string
                 THEN Marked(<<Stringized(Names(
                        arguments[Parameter(macro, body[i + 1])]))>>, {})
                 ELSE COperand(macro, arguments, i)
      joined == [name |-> Last(list).name \o Head(operand).name,
                 hide |-> Last(list).hide \cap Head(operand).hide]
      longer == IF pasting THEN Append(Front(list), joined) \o Tail(operand)
                ELSE list \o operand IN
  IF i > Len(body) THEN SelectSeq(list, LAMBDA token : token.name # <<>>)
  ELSE IF At(body, i, "##") THEN CSubstitute(macro, arguments, i + 1, list, TRUE)
  ELSE CSubstitute(macro, arguments, IF string THEN i + 2 ELSE i + 1, longer, FALSE)

CExpand(tokens) ==
  LET first == tokens[1]
      macro == macros[first.name]
      replaced == Named(first.name) /\ first.name \notin first.hide
      calls == replaced /\ macro.function /\ At(Names(tokens), 2, "(")
      list == CSplit(SubSeq(tokens, 3, Len(tokens)), macro, 0, <<<<>>>>)
      arguments == CArguments(list.parts, macro)
      body(given, hide) == Hiding(CSubstitute(macro, given, 1, <<>>, FALSE), hide)
      rest == CExpand(Tail(tokens)) IN
  IF tokens = <<>> THEN [good |-> TRUE, tokens |-> <<>>]
  ELSE IF calls THEN
    IF \/ ~list.closed
       \/ Len(arguments) # Len(macro.parameters)
       \/ \E n \in DOMAIN arguments : ~CExpand(arguments[n]).good
    THEN Wrong
    ELSE CExpand(body(arguments, (first.hide \cap list.hide) \cup {first.name})
                   \o list.after)
  ELSE IF replaced /\ ~macro.function
  THEN CExpand(body(<<>>, first.hide \cup {first.name}) \o Tail(tokens))
  ELSE IF rest.good THEN [good |-> TRUE, tokens |-> <<first>> \o rest.tokens]
  ELSE Wrong

-----------------------------------------------------------------------------
(* Constant expressions: `plain` is whether the program can be expected to  *)
(* agree, which is decided with the value.                                  *)

CValue(number, unsigned) ==
  [good |-> TRUE, plain |-> TRUE, number |-> number, unsigned |-> unsigned]
CRefused == [CValue(0, FALSE) EXCEPT !.good = FALSE]
Doubtful(result) == [result EXCEPT !.plain = FALSE]

IntegerSuffixes == {<<>>, <<"u">>, <<"l">>, <<"u", "l">>, <<"l", "u">>}

\* A number is signed where it fits and was not written otherwise. A large one is
\* unsigned when it is octal or hexadecimal, which the program overlooks.
CNumber(parts) ==
  LET base == Base(parts)
      first == IF base = 16 THEN 3 ELSE 1
      count == DigitCount(parts, first, base)
      number == Number(parts, first, count, base)
      suffix == SubSeq(parts, first + count, Len(parts)) IN
  IF count = 0 \/ number >= Modulus \/ ~(ToSet(suffix) \subseteq {"u", "l"}) THEN CRefused
  ELSE IF suffix \notin IntegerSuffixes THEN Doubtful(CRefused)
  ELSE IF "u" \in ToSet(suffix) \/ number < Half THEN CValue(number, "u" \in ToSet(suffix))
  ELSE IF base = 10 THEN Doubtful(CRefused)
  ELSE Doubtful(CValue(number, TRUE))

\* Codes of 256 and more have no value, those above 127 one of the implementation.
CCode(number) ==
  IF number > 255 THEN Doubtful(CRefused)
  ELSE IF number > 127 THEN Doubtful(CValue(number, FALSE)) ELSE CValue(number, FALSE)

CCharacter(parts) ==
  LET body == SubSeq(parts, 2, Len(parts) - 1)
      digits(from, base) == /\ Len(body) >= from
                            /\ DigitCount(body, from, base) = Len(body) - from + 1
      code(from, base) == CCode(Number(body, from, Len(body) - from + 1, base)) IN
  CASE body = <<>> -> CRefused
    [] Len(body) = 1 -> CValue(CodeOf[body[1]], FALSE)
    [] Len(body) > 1 /\ body[1] # "\\" -> Doubtful(CValue(CodeOf[body[1]], FALSE))
    [] Len(body) = 2 /\ body[2] \in DOMAIN Simples -> CValue(Simples[body[2]], FALSE)
    [] Len(body) = 2 /\ body[2] \in {"'", "\\"} -> CValue(CodeOf[body[2]], FALSE)
    [] Len(body) > 1 /\ body[1] = "\\" /\ digits(2, 8) /\ Len(body) <= 4 -> code(2, 8)
    [] Len(body) > 2 /\ body[2] = "x" /\ digits(3, 16) ->
         IF Len(body) <= 4 THEN code(3, 16) ELSE Doubtful(code(3, 16))
    [] OTHER -> Doubtful(CRefused)

\* What an operator makes of two numbers, before it is known to fit.
CExact(op, a, b) ==
  CASE op = "<<" -> a * 2^b
    [] op = ">>" -> a \div 2^b
    [] op \in {"&", "|", "^"} -> BitByBit(op, a % Modulus, b % Modulus)
    [] OTHER -> Arithmetic(op, a, b)

\* Division by zero, overflow and shifts by too much have no value. The type is
\* that of both operands, of a shift that of the left one.
COperate(op, left, right, evaluated) ==
  LET shift == op \in {"<<", ">>"}
      division == op \in {"/", "%"}
      unsigned == left.unsigned \/ (~shift /\ right.unsigned)
      a == IF unsigned THEN left.number % Modulus ELSE left.number
      b == IF unsigned /\ ~shift THEN right.number % Modulus ELSE right.number
      zero == division /\ b = 0
      wild == shift /\ (b \notin 0..(Bits - 1) \/ (op = "<<" /\ a < 0))
      exact == IF zero \/ wild THEN 0 ELSE CExact(op, a, b)
      extreme == division /\ ~unsigned /\ a = -Half /\ b = -1
      overflow == /\ ~unsigned /\ op \notin {"&", "|", "^"}
                  /\ extreme \/ exact \notin (-Half)..(Half - 1)
      number == IF unsigned THEN exact % Modulus ELSE ((exact + Half) % Modulus) - Half
      result == CASE op \in Comparisons -> CValue(IF Compare(op, a, b) THEN 1 ELSE 0, FALSE)
                  [] op \notin Comparisons -> CValue(number, unsigned) IN
  IF op \in Comparisons THEN result
  ELSE [result EXCEPT
          !.good = ~(evaluated /\ (zero \/ wild \/ overflow)),
          !.plain = /\ ~extreme
                    /\ ~(shift /\ right.unsigned /\ ~left.unsigned)
                    /\ IF evaluated THEN ~wild /\ ~overflow ELSE ~zero]

CLevels == <<{"||"}, {"&&"}, {"|"}, {"^"}, {"&"}, {"==", "!="}, {"<", ">", "<=", ">="},
             {"<<", ">>"}, {"+", "-"}, {"*", "/", "%"}>>
CLevel(token) == Min({11} \cup {n \in DOMAIN CLevels : token[1] \in CLevels[n]})

EndsOperand(token) ==
  token = <<")">> \/ token[1] \in DigitsOf(10) \cup {"'"} \cup Words \cup Keywords

Outside(tokens) == {i \in DOMAIN tokens : Nesting(tokens, 1, i) = 0}
OutsideIs(tokens, text) == {i \in Outside(tokens) : tokens[i] = <<text>>}

\* The colon of the conditional whose question mark is at q.
CColons(tokens, q) ==
  {c \in OutsideIs(tokens, ":") :
     c > q /\ Cardinality({i \in OutsideIs(tokens, "?") : i \in q..c})
                 = Cardinality({i \in OutsideIs(tokens, ":") : i \in q..c})}

COperators(tokens) ==
  {i \in Outside(tokens) : i > 1 /\ CLevel(tokens[i]) < 11 /\ EndsOperand(tokens[i - 1])}

Both(left, right, result) ==
  [result EXCEPT !.good = @ /\ left.good /\ right.good,
                 !.plain = @ /\ left.plain /\ right.plain]

RECURSIVE CExpression(_, _)

CConditional(tokens, q, evaluated) ==
  LET c == Min(CColons(tokens, q))
      test == CExpression(SubSeq(tokens, 1, q - 1), evaluated)
      chosen == test.number # 0
      yes == CExpression(SubSeq(tokens, q + 1, c - 1), evaluated /\ chosen)
      no == CExpression(SubSeq(tokens, c + 1, Len(tokens)), evaluated /\ ~chosen)
      number == IF chosen THEN yes.number ELSE no.number
      unsigned == yes.unsigned \/ no.unsigned IN
  IF CColons(tokens, q) = {} THEN CRefused
  ELSE Both(test, test, Both(yes, no,
         CValue(IF unsigned THEN number % Modulus ELSE number, unsigned)))

\* Of the operators outside of parentheses the last of those that bind most loosely.
CBinary(tokens, evaluated) ==
  LET level == Min({CLevel(tokens[i]) : i \in COperators(tokens)})
      at == Max({i \in COperators(tokens) : CLevel(tokens[i]) = level})
      op == tokens[at][1]
      left == CExpression(SubSeq(tokens, 1, at - 1), evaluated)
      needed == CASE op = "&&" -> left.number # 0 [] op = "||" -> left.number = 0
                  [] OTHER -> TRUE
      right == CExpression(SubSeq(tokens, at + 1, Len(tokens)), evaluated /\ needed)
      holds == IF needed THEN right.number # 0 ELSE left.number # 0 IN
  Both(left, right,
    IF op \in {"&&", "||"} THEN CValue(IF holds THEN 1 ELSE 0, FALSE)
    ELSE COperate(op, left, right, evaluated))

CUnary(op, operand, evaluated) ==
  LET fits(number) ==
        IF operand.unsigned THEN [operand EXCEPT !.number = number % Modulus]
        ELSE IF number = Half
        THEN [operand EXCEPT !.good = @ /\ ~evaluated, !.plain = @ /\ ~evaluated,
                             !.number = -Half]
        ELSE [operand EXCEPT !.number = number] IN
  CASE op = "!" -> Both(operand, operand, CValue(IF operand.number = 0 THEN 1 ELSE 0, FALSE))
    [] op = "~" -> fits(-operand.number - 1)
    [] op = "+" -> operand
    [] op = "-" -> fits(-operand.number)

CExpression(tokens, evaluated) ==
  LET questions == OutsideIs(tokens, "?")
      first == tokens[1] IN
  CASE tokens = <<>> -> CRefused
    [] questions # {} -> CConditional(tokens, Min(questions), evaluated)
    [] questions = {} /\ COperators(tokens) # {} -> CBinary(tokens, evaluated)
    [] OTHER ->
         IF first \in {<<"!">>, <<"~">>, <<"+">>, <<"-">>}
         THEN CUnary(first[1], CExpression(Tail(tokens), evaluated), evaluated)
         ELSE IF first = <<"(">> THEN
           LET inner == SubSeq(tokens, 2, Len(tokens) - 1)
               value == CExpression(inner, evaluated) IN
           IF Closings(tokens, 2) = {} \/ Closing(tokens, 2) # Len(tokens) THEN CRefused
           ELSE IF OutsideIs(inner, "?") # {} THEN Doubtful(value) ELSE value
         ELSE IF Len(tokens) > 1 THEN CRefused
         ELSE IF first[1] \in DigitsOf(10) THEN CNumber(first)
         ELSE IF first[1] = "'" THEN CCharacter(first)
         ELSE IF first[1] \in Words \cup Keywords THEN CValue(0, FALSE) ELSE CRefused

RECURSIVE CDefined(_)

\* To C at this point keywords are names as others are.
CDefined(tokens) ==
  LET names(i) == i <= Len(tokens) /\ tokens[i][1] \in Words \cup Keywords
      after(token, next) ==
        LET rest == CDefined(SubSeq(tokens, next, Len(tokens))) IN
        IF rest.good THEN Good(<<token>> \o rest.tokens) ELSE Failed
      value(i) == <<IF tokens[i] \in DOMAIN macros THEN "1" ELSE "0">> IN
  CASE tokens = <<>> -> Good(<<>>)
    [] tokens # <<>> /\ tokens[1] # <<"defined">> -> after(tokens[1], 2)
    [] At(tokens, 1, "defined") /\ At(tokens, 2, "(") /\ names(3) /\ At(tokens, 4, ")") ->
         after(value(3), 5)
    [] At(tokens, 1, "defined") /\ names(2) -> after(value(2), 3)
    [] OTHER -> Failed

CCondition(line) ==
  LET step(result, Step(_)) == IF result.good THEN Step(result.tokens) ELSE CRefused IN
  step(CDefined(line), LAMBDA replaced :
    step(CExpand(Marked(replaced, {})), LAMBDA expanded : CExpression(Names(expanded), TRUE)))

CVerdict(value) ==
  IF ~value.good THEN Wrong
  ELSE [good |-> TRUE,
        tokens |-> Marked(<<<<IF value.number # 0 THEN "true" ELSE "false">>>>, {})]

Meaning == IF IsCondition THEN CVerdict(CCondition(Tail(input))) ELSE CExpand(Marked(input, {}))

-----------------------------------------------------------------------------
(* The lines on which the program can be expected to agree with C *)

Mentioned(tokens) == {token \in ToSet(tokens) : token \in DOMAIN macros}

\* The macros whose replacement may come into that of the tokens.
RECURSIVE Reached(_)
Reached(names) ==
  LET more == names \cup UNION {Mentioned(macros[name].body) : name \in names} IN
  IF more = names THEN names ELSE Reached(more)

\* The calls written out in a list of tokens: where each begins.
Written(tokens) ==
  {i \in DOMAIN tokens : /\ tokens[i] \in DOMAIN macros /\ macros[tokens[i]].function
                         /\ At(tokens, i + 1, "(") /\ Closings(tokens, i + 2) # {}}

GivenAt(tokens, i) == Parts(tokens, i + 2, macros[tokens[i]])

\* Every function-like macro that is named is called there and then.
AllCalled(tokens) ==
  \A i \in DOMAIN tokens :
    tokens[i] \in DOMAIN macros /\ macros[tokens[i]].function => At(tokens, i + 1, "(")

Pastes(names) ==
  \E name \in names : ToSet(macros[name].body) \cap {<<"#">>, <<"##">>} # {}

\* No argument is empty, none has a macro in common with what is called, and none
\* that names a macro comes to be pasted or stringized.
ApartFromArguments(tokens) ==
  \A i \in Written(tokens) : \A n \in DOMAIN GivenAt(tokens, i) :
    LET given == GivenAt(tokens, i)[n] IN
    /\ given # <<>>
    /\ Reached({tokens[i]}) \cap Reached(Mentioned(given)) = {}
    /\ Mentioned(given) # {} => ~Pastes(Reached({tokens[i]}))

\* A body pastes in one place, and not what it stringizes.
PastesOnce(body) ==
  \A i, j \in DOMAIN body :
    At(body, i, "##") => ~(j # i /\ At(body, j, "##")) /\ ~At(body, j, "#")

\* What the line is when its `defined` are replaced.
Line == IF IsCondition THEN CDefined(Tail(input)).tokens ELSE input

Texts == {Line} \cup {macros[name].body : name \in DOMAIN macros}

Simple ==
  /\ \A text \in Texts : AllCalled(text) /\ ApartFromArguments(text)
  /\ \A name \in DOMAIN macros : PastesOnce(macros[name].body)
  /\ IsCondition => /\ CCondition(Tail(input)).plain
                    /\ ReplaceDefined(Tail(input)) = CDefined(Tail(input))

-----------------------------------------------------------------------------
Finished == ~good \/ position = Len(input)

\* On such lines the macros mean what C says they mean, though arguments are not
\* replaced on their own and nothing is read together with what follows it; and a
\* condition is true, false or refused as C says, though all of it is computed.
Agrees(meaning) == good = meaning.good /\ (good => output = Names(meaning.tokens))

MeansWhatCSays == Finished /\ Simple => Agrees(Meaning)

\* "It is a subset of C17, not an extension" (docs/specs/c-subset-v1.md:4), and a
\* construct outside it "must receive a diagnostic" (119): what is accepted means
\* what C says.
AcceptedMeansC == Finished /\ good => Meaning.good /\ output = Names(Meaning.tokens)

\* "the operands of the preprocessor's `#if` are integer constant expressions",
\* evaluated over "binary operators, and the conditional operator"
\* (docs/specs/c-subset-v1.md:44-50): what C accepts is not refused.
AcceptedWhenC == Finished /\ Meaning.good => good
=============================================================================
