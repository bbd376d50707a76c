--------------------------- MODULE MacroExpansion ---------------------------
(***************************************************************************)
(* Macro replacement in src/frontend/preprocessor.c: the text lines of a   *)
(* source as process_source takes them, one token or one call at a time,   *)
(* the replacement of a macro's body by expand_range, and the conditions   *)
(* of #if and #elif, whose macros it replaces too.                         *)
(*                                                                         *)
(* A token is the sequence of the parts it was pasted or stringized from.  *)
(* White space, newlines, __FILE__ and __LINE__, and the limit on the      *)
(* number of tokens are left out. So are the sets of names that tokens of  *)
(* the output carry: no token of the output is read again, so that the     *)
(* macros a token may not name are those being replaced around it.         *)
(***************************************************************************)
EXTENDS ConstantExpression

CONSTANTS
  Definitions, \* the sets of macros: functions from spellings to macros
  Inputs,      \* the lines of text: sequences of spellings
  Conditions,  \* the lines behind #if, and with which macros
  MaxDepth     \* CC64_PP_MAX_MACRO_DEPTH

VARIABLES
  macros,   \* the macros that are defined
  input,    \* the tokens of the line
  position, \* how many of them have been taken
  output,   \* the tokens published
  good      \* whether no call has failed

vars == <<macros, input, position, output, good>>

\* A macro has its parameters, none and `function` false when it is object-like.
Macro(function, parameters, variadic, body) ==
  [function |-> function, parameters |-> parameters, variadic |-> variadic,
   body |-> body]

\* The token is the name of a macro.
Named(token) == Head(token) \in Words /\ token \in DOMAIN macros

\* The tokens go on with `text` at i.
At(tokens, i, text) == i <= Len(tokens) /\ tokens[i] = <<text>>

Failed == [good |-> FALSE, tokens |-> <<>>]
Good(tokens) == [good |-> TRUE, tokens |-> tokens]

-----------------------------------------------------------------------------
(* Arguments: parse_arguments *)

\* How many parentheses are open before token i, counted from `open`, the index
\* behind the one that begins the list.
Nesting(tokens, open, i) ==
  Cardinality({j \in open..(i - 1) : tokens[j] = <<"(">>})
    - Cardinality({j \in open..(i - 1) : tokens[j] = <<")">>})

Closings(tokens, open) ==
  {i \in open..Len(tokens) : tokens[i] = <<")">> /\ Nesting(tokens, open, i) = 0}

Closing(tokens, open) ==
  CHOOSE i \in Closings(tokens, open) : \A j \in Closings(tokens, open) : i <= j

CommasAnywhere(tokens, open, macro) ==
  SetToSortSeq({i \in open..(Closing(tokens, open) - 1) : tokens[i] = <<",">>}, <)

\* The commas that part the arguments. Behind the last named parameter of
\* a variadic macro none does.
Commas(tokens, open, macro) ==
  LET close == Closing(tokens, open)
      commas == SetToSortSeq({i \in open..(close - 1) :
                    tokens[i] = <<",">> /\ Nesting(tokens, open, i) = 0}, <)
      count == Len(macro.parameters) IN
  IF macro.variadic /\ Len(commas) >= count THEN SubSeq(commas, 1, count - 1)
  ELSE commas

Parts(tokens, open, macro) ==
  LET commas == Commas(tokens, open, macro)
      bounds == <<open - 1>> \o commas \o <<Closing(tokens, open)>> IN
  [n \in 1..(Len(commas) + 1) |-> SubSeq(tokens, bounds[n] + 1, bounds[n + 1] - 1)]

\* A last argument without a token is not counted.
Arguments(tokens, open, macro) ==
  LET parts == Parts(tokens, open, macro) IN
  IF Last(parts) = <<>> THEN Front(parts) ELSE parts

\* parse_arguments refuses every other count.
Enough(macro, arguments) ==
  IF macro.variadic
  THEN Len(arguments) \in (Len(macro.parameters) - 1)..Len(macro.parameters)
  ELSE Len(arguments) = Len(macro.parameters)

-----------------------------------------------------------------------------
(* Substitution: expand_function_body *)

Parameter(macro, token) ==
  CHOOSE n \in 1..Len(macro.parameters) : macro.parameters[n] = token

IsParameter(macro, token) ==
  token \in ToSet(macro.parameters)

\* What the parameter stands for; nothing when a variadic call left it out.
Given(macro, arguments, token) ==
  LET n == Parameter(macro, token) IN
  IF n <= Len(arguments) THEN arguments[n] ELSE <<>>

Stringized(tokens) == <<"\"">> \o FlattenSeq(tokens)

\* append_paste: the token is joined to the last of the list.
Paste(list, right) ==
  IF list = <<>> THEN <<right>>
  ELSE Append(Front(list), Last(list) \o right)

RECURSIVE Substitute(_, _, _, _)

\* The body from its i-th token on, behind `list`.
Substitute(macro, arguments, i, list) ==
  LET body == macro.body
      token == body[i]
      taken == IF IsParameter(macro, token)
               THEN list \o Given(macro, arguments, token)
               ELSE IF token = <<"##">> THEN list
               ELSE Append(list, token)
      right == body[i + 2]
      operand == IF IsParameter(macro, right) THEN Given(macro, arguments, right)
                 ELSE <<right>>
      pasted == IF operand = <<>> THEN taken
                ELSE Paste(taken, Head(operand)) \o Tail(operand) IN
  CASE i > Len(body) -> list
    [] i < Len(body) /\ token = <<"#">> /\ IsParameter(macro, body[i + 1]) ->
         Substitute(macro, arguments, i + 2,
           Append(list, Stringized(Given(macro, arguments, body[i + 1]))))
    [] OTHER ->
         IF ~At(body, i + 1, "##") THEN Substitute(macro, arguments, i + 1, taken)
         ELSE IF i + 2 > Len(body) THEN taken
         ELSE Substitute(macro, arguments, i + 3, pasted)

-----------------------------------------------------------------------------
(* Replacement: expand_range *)

RECURSIVE ExpandRange(_, _, _)

\* expansion_context: the macros being replaced are hidden from what is nested.
Hide(hidden, name) == hidden \cup {name}

\* A call of the macro at i, whose argument list begins behind `open`.
Call(tokens, i, open, hidden, depth) ==
  LET macro == macros[tokens[i]]
      arguments == Arguments(tokens, open, macro) IN
  IF Closings(tokens, open) = {} \/ ~Enough(macro, arguments) THEN Failed
  ELSE ExpandRange(Substitute(macro, arguments, 1, <<>>),
                   Hide(hidden, tokens[i]), depth + 1)

\* The tokens with every macro replaced that is not hidden. A function-like
\* macro without a list behind it stays as it is.
ExpandRange(tokens, hidden, depth) ==
  LET name == tokens[1]
      replaced == Named(tokens[1]) /\ name \notin hidden
      calls == replaced /\ macros[name].function /\ At(tokens, 2, "(")
      first == IF calls THEN Call(tokens, 1, 3, hidden, depth)
               ELSE IF replaced /\ ~macros[name].function
               THEN ExpandRange(macros[name].body, Hide(hidden, name), depth + 1)
               ELSE Good(<<tokens[1]>>)
      next == IF calls THEN Closing(tokens, 3) + 1 ELSE 2
      rest == ExpandRange(SubSeq(tokens, next, Len(tokens)), hidden, depth) IN
  IF depth >= MaxDepth THEN Failed
  ELSE IF tokens = <<>> THEN Good(<<>>)
  ELSE IF ~first.good THEN first
  ELSE IF ~rest.good THEN Failed
  ELSE Good(first.tokens \o rest.tokens)

-----------------------------------------------------------------------------
(* A line of text: process_source and expand_macro_at *)

Publish(result, count) ==
  /\ good' = result.good
  /\ output' = IF result.good THEN output \o result.tokens ELSE output
  /\ position' = position + count
  /\ UNCHANGED <<macros, input>>

Ahead == input[position + 1]
Calls == Named(Ahead) /\ macros[Ahead].function
           /\ At(input, position + 2, "(")

IsCondition == input # <<>> /\ Head(input) = <<"#if">>
Going == good /\ position < Len(input) /\ ~IsCondition

\* A token that no macro replaces.
Plain ==
  /\ Going
  /\ Named(Ahead) => macros[Ahead].function /\ ~Calls
  /\ Publish(Good(<<Ahead>>), 1)

ObjectLike ==
  /\ Going
  /\ Named(Ahead) /\ ~macros[Ahead].function
  /\ Publish(ExpandRange(macros[Ahead].body, Hide({}, Ahead), 1), 1)

\* A call takes the tokens to the end of its list.
Taken(open) == Closing(input, open) - position

FunctionLike ==
  /\ Going /\ Calls
  /\ LET open == position + 3 IN
     Publish(Call(input, position + 1, open, {}, 0),
             IF Closings(input, open) = {} THEN 0 ELSE Taken(open))

-----------------------------------------------------------------------------
(* A condition: evaluate_expression *)

RECURSIVE ReplaceDefined(_)

\* replace_defined: `defined` and a name, which is not a keyword, become 1 or 0.
ReplaceDefined(tokens) ==
  LET open == At(tokens, 2, "(")
      name == IF open THEN 3 ELSE 2
      value == <<IF tokens[name] \in DOMAIN macros THEN "1" ELSE "0">>
      after(token, next) ==
        LET rest == ReplaceDefined(SubSeq(tokens, next, Len(tokens))) IN
        IF rest.good THEN Good(<<token>> \o rest.tokens) ELSE Failed IN
  IF tokens = <<>> THEN Good(<<>>)
  ELSE IF tokens[1] # <<"defined">> THEN after(tokens[1], 2)
  ELSE IF \/ name > Len(tokens) \/ tokens[name][1] \notin Words
          \/ open /\ ~At(tokens, 4, ")")
  THEN Failed
  ELSE after(value, IF open THEN 5 ELSE 3)

WhenGood(result, Step(_)) == IF result.good THEN Step(result.tokens) ELSE Invalid

EvaluateExpression(body) ==
  WhenGood(ReplaceDefined(body),
           LAMBDA replaced : WhenGood(ExpandRange(replaced, {}, 0), Evaluated))

Verdict(result) ==
  IF result.verdict # "valid" THEN result.verdict
  ELSE IF result.value.bits # 0 THEN "true" ELSE "false"

\* The output tells what became of the condition. A trap ends the compiler.
Condition ==
  /\ good /\ position = 0 /\ IsCondition
  /\ \E result \in {EvaluateExpression(Tail(input))} :
     /\ good' = (result.verdict = "valid")
     /\ output' = <<<<Verdict(result)>>>>
  /\ position' = Len(input)
  /\ UNCHANGED <<macros, input>>

-----------------------------------------------------------------------------
Init ==
  /\ \/ macros \in Definitions /\ input \in Inputs
     \/ \E conditions \in Conditions :
          /\ macros \in conditions.macros
          /\ \E line \in conditions.lines : input = <<<<"#if">>>> \o line
  /\ position = 0
  /\ output = <<>>
  /\ good = TRUE

Next == Plain \/ ObjectLike \/ FunctionLike \/ Condition

Spec == Init /\ [][Next]_vars
=============================================================================
