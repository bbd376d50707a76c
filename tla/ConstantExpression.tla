-------------------------- MODULE ConstantExpression --------------------------
(***************************************************************************)
(* The values of conditions in src/frontend/preprocessor.c: numbers and    *)
(* characters, the operators on words that are signed or not, and the      *)
(* parser that computes as it reads. A token is the sequence of the parts  *)
(* it was pasted from; each digit and each character is a part.            *)
(*                                                                         *)
(* A word has Bits bits for the 64 of the source. Arithmetic on signed     *)
(* words, where the C of the source leaves overflow open, wraps as it does *)
(* in any build. What is still computed after a failure is left out: the   *)
(* condition is refused all the same.                                      *)
(***************************************************************************)
EXTENDS Integers, Sequences, SequencesExt, FiniteSets, Bitwise

CONSTANTS
  Words,    \* the first parts of identifiers
  Keywords, \* the first parts of keywords
  Bits,     \* the width of a word
  CodeOf    \* the code of each character

Modulus == 2^Bits
Half == 2^(Bits - 1)
AsSignedAbove(bits) == IF bits <= Half THEN bits ELSE bits - Modulus
AsSigned(bits) == IF bits < Half THEN bits ELSE bits - Modulus

Word(number, unsigned) == [bits |-> number % Modulus, unsigned |-> unsigned]
Truth(condition) == Word(IF condition THEN 1 ELSE 0, FALSE)

\* What a step of the parser returns: a word and the next token, a failure, or
\* the trap of the host's division.
Read(value, next) == [verdict |-> "valid", value |-> value, next |-> next]
Invalid == [verdict |-> "invalid", value |-> Word(0, FALSE), next |-> 0]
Trap == [verdict |-> "trap", value |-> Word(0, FALSE), next |-> 0]

TokenIs(tokens, i, text) == i <= Len(tokens) /\ tokens[i] = <<text>>

-----------------------------------------------------------------------------
(* Numbers and characters *)

Digits == <<"0", "1", "2", "3", "4", "5", "6", "7", "8", "9", "a", "b", "c", "d", "e", "f">>
Digit(part) == CHOOSE n \in 0..15 : Digits[n + 1] = part
DigitsOf(base) == {Digits[n] : n \in 1..base}

\* How many parts from the i-th on are digits of the base, as strtoull reads them.
DigitCount(parts, i, base) ==
  Max({n \in 0..(Len(parts) - i + 1) :
         \A j \in i..(i + n - 1) : parts[j] \in DigitsOf(base)})

Number(parts, i, count, base) ==
  FoldLeft(LAMBDA sum, part : sum * base + Digit(part), 0, SubSeq(parts, i, i + count - 1))

Base(parts) ==
  IF parts[1] # "0" \/ Len(parts) = 1 THEN 10
  ELSE IF parts[2] = "x" THEN 16 ELSE 8

\* parse_integer_token: what is left behind the digits is a suffix, or wrong.
ParseInteger(parts, next) ==
  LET base == Base(parts)
      first == IF base = 16 THEN 3 ELSE 1
      count == DigitCount(parts, first, base)
      number == Number(parts, first, count, base)
      suffix == SubSeq(parts, first + count, Len(parts)) IN
  IF count = 0 \/ number >= Modulus \/ ~(ToSet(suffix) \subseteq {"u", "l"}) THEN Invalid
  ELSE Read(Word(number, "u" \in ToSet(suffix)), next)

Simples == "a" :> 7 @@ "b" :> 8 @@ "n" :> 10 @@ "t" :> 9 @@ "v" :> 11 @@ "f" :> 12 @@ "r" :> 13

\* decode_character: the first character behind the quote, of up to two
\* hexadecimal or three octal digits where it is written with them.
Character(parts, next) ==
  LET escape == parts[3]
      hex == DigitCount(parts, 4, 16)
      octal == Min({3, DigitCount(parts, 3, 8)}) IN
  IF parts[2] = "'" THEN Invalid
  ELSE IF parts[2] # "\\" THEN Read(Word(CodeOf[parts[2]], FALSE), next)
  ELSE IF escape = "x" THEN
    IF hex \in 1..2 THEN Read(Word(Number(parts, 4, hex, 16), FALSE), next) ELSE Invalid
  ELSE IF octal > 0 THEN Read(Word(Number(parts, 3, octal, 8), FALSE), next)
  ELSE IF escape \in DOMAIN Simples THEN Read(Word(Simples[escape], FALSE), next)
  ELSE Read(Word(CodeOf[escape], FALSE), next)

-----------------------------------------------------------------------------
(* Operators: expr_binary *)

Comparisons == {"<", ">", "<=", ">=", "==", "!="}

Compare(op, a, b) ==
  CASE op = "<" -> a < b [] op = ">" -> a > b [] op = "<=" -> a <= b
    [] op = ">=" -> a >= b [] op = "==" -> a = b [] op = "!=" -> a # b

\* Division of C truncates.
Quotient(a, b) ==
  LET size(n) == IF n < 0 THEN -n ELSE n
      magnitude == size(a) \div size(b) IN
  IF (a < 0) = (b < 0) THEN magnitude ELSE -magnitude

Arithmetic(op, a, b) ==
  CASE op = "+" -> a + b
    [] op = "-" -> a - b
    [] op = "*" -> a * b
    [] op = "/" -> Quotient(a, b)
    [] op = "%" -> a - b * Quotient(a, b)

BitByBit(op, a, b) ==
  CASE op = "&" -> a & b [] op = "|" -> a | b [] op = "^" -> a ^^ b

Operated(op, left, right, unsigned) ==
  LET taken(word) == IF unsigned THEN word.bits ELSE AsSigned(word.bits)
      a == taken(left)
      b == taken(right)
      shift == right.bits % Bits IN
  CASE op \in {"+", "-", "*", "/", "%"} -> Word(Arithmetic(op, a, b), unsigned)
    [] op \in Comparisons -> Truth(Compare(op, a, b))
    [] op \in {"&", "|", "^"} -> Word(BitByBit(op, left.bits, right.bits), unsigned)
    [] op = "<<" -> Word(a * 2^shift, unsigned)
    [] op = ">>" -> Word(a \div 2^shift, unsigned)
    [] op = "&&" -> Truth(left.bits # 0 /\ right.bits # 0)
    [] op = "||" -> Truth(left.bits # 0 \/ right.bits # 0)

\* Of two words one of which is unsigned both are taken so, by shifts too.
ExprBinary(op, left, right, next) ==
  LET unsigned == left.unsigned \/ right.unsigned IN
  IF op \in {"/", "%"} /\ right.bits = 0 THEN Invalid
  ELSE IF /\ op \in {"/", "%"} /\ ~unsigned
          /\ AsSigned(left.bits) = -Half /\ AsSigned(right.bits) = -1
  THEN Trap
  ELSE Read(Operated(op, left, right, unsigned), next)

-----------------------------------------------------------------------------
(* The parser: expr_parse_unary, expr_parse_binary, expr_parse_conditional *)

Levels == <<{"||"}, {"&&"}, {"|"}, {"^"}, {"&"}, {"==", "!="}, {"<", ">", "<=", ">="},
            {"<<", ">>"}, {"+", "-"}, {"*", "/", "%"}>>

BinaryPrecedence(token) ==
  IF \E level \in DOMAIN Levels : token[1] \in Levels[level] /\ Len(token) = 1
  THEN CHOOSE level \in DOMAIN Levels : token[1] \in Levels[level]
  ELSE 0

\* The step goes on with what the one before it read, unless that failed.
Then(result, Step(_)) == IF result.verdict = "valid" THEN Step(result) ELSE result

RECURSIVE ParseUnary(_, _), ParseBinary(_, _, _), ParseOperators(_, _, _)

Unary(op, value) ==
  CASE op = "!" -> Truth(value.bits = 0)
    [] op = "~" -> Word(Modulus - 1 - value.bits, value.unsigned)
    [] op = "+" -> value
    [] op = "-" -> Word(-value.bits, value.unsigned)

ParseUnary(tokens, i) ==
  LET token == tokens[i] IN
  CASE i > Len(tokens) -> Invalid
    [] i <= Len(tokens) /\ token \in {<<"!">>, <<"~">>, <<"+">>, <<"-">>} ->
         Then(ParseUnary(tokens, i + 1),
              LAMBDA operand : Read(Unary(token[1], operand.value), operand.next))
    [] TokenIs(tokens, i, "(") ->
         Then(ParseBinary(tokens, i + 1, 0),
              LAMBDA inner : IF TokenIs(tokens, inner.next, ")")
                             THEN Read(inner.value, inner.next + 1) ELSE Invalid)
    [] i <= Len(tokens) /\ token[1] \in DigitsOf(10) -> ParseInteger(token, i + 1)
    [] i <= Len(tokens) /\ token[1] = "'" -> Character(token, i + 1)
    [] i <= Len(tokens) /\ token[1] \in Words \cup Keywords -> Read(Word(0, FALSE), i + 1)
    [] OTHER -> Invalid

\* The loop of expr_parse_binary: operators that bind at least as tightly as `minimum`.
ParseOperators(tokens, left, minimum) ==
  LET at == left.next
      precedence == BinaryPrecedence(tokens[at]) IN
  IF at > Len(tokens) \/ precedence = 0 \/ precedence < minimum THEN left
  ELSE Then(Then(ParseBinary(tokens, at + 1, precedence + 1),
                 LAMBDA right : ExprBinary(tokens[at][1], left.value, right.value, right.next)),
            LAMBDA computed : ParseOperators(tokens, computed, minimum))

ParseBinary(tokens, i, minimum) ==
  Then(ParseUnary(tokens, i), LAMBDA left : ParseOperators(tokens, left, minimum))

RECURSIVE ParseConditional(_, _)

\* Behind the condition the other operands of a conditional are both computed.
ParseConditional(tokens, i) ==
  Then(ParseBinary(tokens, i, 0), LAMBDA condition :
    IF ~TokenIs(tokens, condition.next, "?") THEN condition
    ELSE Then(ParseConditional(tokens, condition.next + 1), LAMBDA yes :
           IF ~TokenIs(tokens, yes.next, ":") THEN Invalid
           ELSE Then(ParseConditional(tokens, yes.next + 1), LAMBDA no :
                  Read(IF condition.value.bits # 0 THEN yes.value ELSE no.value, no.next))))

\* What evaluate_expression makes of the tokens of a condition.
Evaluated(tokens) ==
  IF tokens = <<>> THEN Invalid
  ELSE Then(ParseConditional(tokens, 1), LAMBDA result :
         IF result.next = Len(tokens) + 1 THEN result ELSE Invalid)
=============================================================================
