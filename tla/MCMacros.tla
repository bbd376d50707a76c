------------------------------ MODULE MCMacros ------------------------------
(***************************************************************************)
(* Macro replacement with every choice of a few bodies for an object-like  *)
(* macro A, function-like F and G and a variadic V, over lines put         *)
(* together from the phrases below. Conditions have two operators, with    *)
(* and without parentheses, between the smallest, the largest, unsigned    *)
(* and small numbers; and the special cases of Lines.                      *)
(***************************************************************************)
EXTENDS MacroPromise

\* A text is a sequence of tokens of one part.
T(text) == [i \in DOMAIN text |-> <<text[i]>>]

MCWords == {"A", "F", "G", "V", "x", "y", "defined"}

ABodies == {T(<<>>), T(<<"1">>), T(<<"A", "B">>), T(<<"F", "(", "1", ")">>), T(<<"F">>),
            T(<<"G", "(", "1", ",", "2", ")">>)}

FBodies == {T(<<"x">>), T(<<"x", "+", "x">>), T(<<"#", "x">>), T(<<"x", "##", "1">>),
            T(<<"G", "(", "x", ",", "1", ")">>), T(<<"A", "x">>), T(<<"F", "(", "x", ")">>)}

GBodies == {T(<<"x", "##", "y">>), T(<<"y", "x">>), T(<<"F", "(", "y", ")">>),
            T(<<"x", "##", "y", "##", "1">>), T(<<"1", "x", "##", "y">>)}

MCDefinitions ==
  {( <<"A">> :> Macro(FALSE, <<>>, FALSE, a)
   @@ <<"F">> :> Macro(TRUE, T(<<"x">>), FALSE, f)
   @@ <<"G">> :> Macro(TRUE, T(<<"x", "y">>), FALSE, g)
   @@ <<"V">> :> Macro(TRUE, T(<<"x", "va">>), TRUE, T(<<"x", "va">>))) :
     <<a, f, g>> \in ABodies \X FBodies \X GBodies}

Phrases ==
  {T(<<"A">>), T(<<"2">>), T(<<"F">>), T(<<"(", "A", ")">>), T(<<"F", "(", "A", ")">>),
   T(<<"F", "(", "F", "(", "1", ")", ")">>),
   T(<<"F", "(", "G", "(", "1", ",", "2", ")", ")">>),
   T(<<"G", "(", "(", "1", ",", "2", ")", ",", "A", ")">>),
   T(<<"G", "(", "A", ",", "F", "(", "1", ")", ")">>),
   T(<<"G", "(", ",", "1", ")">>), T(<<"G", "(", "1", ",", ")">>), T(<<"F", "(", ")">>),
   T(<<"F", "(", "1", ",", "2", ")">>), T(<<"G", "(", "1">>),
   T(<<"V", "(", "A", ")">>), T(<<"V", "(", "1", ",", "2", ",", "A", ")">>)}

MCInputs == {left \o right : left \in Phrases, right \in Phrases}

MCCodeOf == [c \in {"A", "q", "'", "\\", "1"} |->
               CASE c = "A" -> 65 [] c = "q" -> 113 [] c = "'" -> 39
                 [] c = "\\" -> 92 [] c = "1" -> 49]

Largest == <<"5", "1", "1">>
Operators == UNION {{<<op>> : op \in Levels[n]} : n \in DOMAIN Levels}

\* Operands: -1, the smallest number, and words of both kinds.
Few == {T(<<"0">>), <<<<"-">>, <<"1">>>>, <<<<"3", "u">>>>, <<Largest>>}
Many == Few \cup
  {T(<<"1">>), T(<<"-", "9">>), <<<<"-">>, Largest, <<"-">>, <<"1">>>>, <<<<"2", "l">>>>,
   <<<<"(">>, <<"-">>, Largest, <<"-">>, <<"1">>, <<")">>>>, <<<<"~">>, <<"0", "u">>>>,
   <<<<"!">>, <<"x">>>>, T(<<"int">>), <<<<"1", "0", "2", "4">>>>, <<<<"0", "x", "3", "f", "f">>>>,
   <<<<"6", "0", "0">>>>, <<<<"0", "1", "7">>>>, <<<<"0", "8">>>>, <<<<"0", "x">>>>, <<<<"1", "u", "u">>>>}

Two == {a \o <<op>> \o b : a \in Many, op \in Operators, b \in Many}
Three == {(a \o <<op>>) \o b \o (<<more>> \o c) :
            a \in Few, op \in Operators, b \in Few, more \in Operators, c \in Few}
Grouped == {(a \o <<op>>) \o T(<<"(">>) \o b \o (<<more>> \o c) \o T(<<")">>) :
              a \in Few, op \in Operators, b \in Few, c \in Few,
              more \in {<<"-">>, <<"&&">>, <<"/">>, <<"?">>}}

Quoted(parts) == <<<<"'">> \o parts \o <<"'">>>>
Characters == {Quoted(parts) : parts \in
  {<<>>, <<"A">>, <<"A", "A">>, <<"\\", "n">>, <<"\\", "q">>, <<"\\", "\\">>, <<"\\", "'">>,
   <<"\\", "0">>, <<"\\", "1", "0", "1">>, <<"\\", "7", "7", "7">>, <<"\\", "x", "4", "1">>,
   <<"\\", "x", "0", "4", "1">>, <<"\\", "x">>, <<"\\", "x", "f", "f">>, <<"\\", "1", "A">>}}
Compared == {c \o T(<<"==">>) \o <<n>> : c \in Characters,
               n \in {<<"6", "5">>, <<"1", "0">>, <<"3", "9">>, <<"2", "5", "5">>, <<"0">>}}

Conditionals == {a \o T(<<"?">>) \o b \o T(<<":">>) \o c \o rest : a \in Few, b \in Few, c \in Few,
              rest \in {T(<<>>), T(<<"?", "1", ":", "0">>), T(<<"/", "0">>), T(<<":", "1">>), T(<<")">>)}}
Inner == {T(<<"1", "?", "0", "?", "2", ":", "0", ":", "3">>), T(<<"(", "1", "?", "2", ":", "3", ")">>),
          T(<<"1", "?", "2">>), T(<<"1", "?", ":", "2">>), T(<<"0", "||", "1", "?", "0", ":", "1">>)}

Operands == Few \cup Inner \cup
  {T(<<"(", "1">>), T(<<"1", "1">>), T(<<"(", ")">>), T(<<"-">>), T(<<"1", "+">>), T(<<"*", "1">>),
   T(<<"!", "!", "1">>), T(<<"-", "-", "1", "-", "-", "1">>), T(<<"(", "1", ")", "(", "1", ")">>)}

Named0 == {T(<<"defined", "A">>), T(<<"defined", "(", "x", ")">>), T(<<"defined", "(", "A">>),
           T(<<"defined", "int">>), T(<<"defined">>), T(<<"A">>), T(<<"F", "(", "1", ")">>),
           T(<<"F", "(", "0", ")">>), T(<<"G", "(", "1", ",", "2", ")">>), T(<<"F">>),
           T(<<"G", "(", "1", ")">>), T(<<"x">>)}
With == {a \o <<op>> \o b : a \in Named0, b \in Named0 \cup {T(<<"2">>)},
           op \in {<<"&&">>, <<"||">>, <<"+">>, <<"==">>}}

SomeDefinitions == {d \in MCDefinitions :
  d[<<"A">>].body \in {T(<<"1">>), T(<<"F", "(", "1", ")">>), T(<<>>)}
    /\ d[<<"G">>].body \in {T(<<"x", "##", "y">>), T(<<"F", "(", "y", ")">>)}}

Plainly(lines) == [macros |-> {<<>>}, lines |-> lines]

MCConditions ==
  {Plainly({<<>>}), Plainly(Two), Plainly(Three), Plainly(Grouped), Plainly(Compared),
   Plainly(Conditionals), Plainly(Operands),
   [macros |-> SomeDefinitions, lines |-> With], [macros |-> SomeDefinitions, lines |-> Named0]}
=============================================================================
