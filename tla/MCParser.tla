------------------------------ MODULE MCParser ------------------------------
(***************************************************************************)
(* Units of up to three declarations, right and wrong, and functions of up *)
(* to two statements, right and wrong. x is an object, f a function of one *)
(* number, T a type and e a constant; y may be anything.                   *)
(***************************************************************************)
EXTENDS Parser

MCNames == {"x", "y", "z", "f", "T", "e", "m"}

Piece(text, good, needs, gives, nodes) ==
  [text |-> text, good |-> good, needs |-> needs, gives |-> gives, nodes |-> nodes]

Right(text, needs, gives, nodes) == Piece(text, TRUE, needs, gives, nodes)

Bad(text) == Piece(text, FALSE, {}, {}, 0)

-----------------------------------------------------------------------------
\* `f(x);' has an implicit int, which the parser keeps.
RightDeclarations ==
  {Right(<<";">>, {}, {}, 0),
   Right(<<"int", "x", ",", "y", ";">>, {},
         {<<"x", "object", FALSE>>, <<"y", "object", FALSE>>}, 2),
   Right(<<"static", "int", "x", "=", "(", "int", ")", "1", ";">>, {},
         {<<"x", "object", TRUE>>}, 1),
   Right(<<"int", "y", "=", "{", "e", ",", "}", ";">>, {<<"e", "constant">>},
         {<<"y", "object", TRUE>>}, 1),
   Right(<<"int", "f", "(", "int", ")", ";">>, {}, {<<"f", "function", FALSE>>}, 0),
   Right(<<"int", "f", "(", "int", "x", ")", "{", "return", "x", ";", "}">>, {},
         {<<"f", "function", TRUE>>}, 1),
   Right(<<"f", "(", "x", ")", ";">>, {}, {<<"f", "function", FALSE>>}, 0),
   Right(<<"typedef", "int", "T", ";">>, {}, {<<"T", "typedef", FALSE>>}, 0),
   Right(<<"T", "x", ";">>, {<<"T", "typedef">>}, {<<"x", "object", FALSE>>}, 1),
   Right(<<"enum", "x", "{", "T", ",", "e", "=", "1", "}", ";">>, {},
         {<<"T", "constant", TRUE>>, <<"e", "constant", TRUE>>}, 0),
   Right(<<"_Static_assert", "(", "e", "/", "1", ")", ";">>, {<<"e", "constant">>}, {}, 0)}

BadDeclarations ==
  {Bad(<<"int", "=", "1", ";">>), Bad(<<"int", "x", "1", ";">>), Bad(<<")", ";">>),
   Bad(<<"int", "f", "(", "x", ";">>), Bad(<<"enum", "{", ")", "}", ";">>),
   Bad(<<"_Static_assert", "(", "1", "/", "x", ")", ";">>),
   Bad(<<"int", "x", "=", "f", "(", ";">>), Bad(<<"1", ";">>)}

\* Nothing but the end tells that one of these is wrong.
Unfinished ==
  {Bad(<<"int", "m", "(", ")", "{", "return", "1", ";">>), Bad(<<"int", "x", "=">>),
   Bad(<<"enum">>)}

-----------------------------------------------------------------------------
S(text, needs) == [text |-> text, good |-> TRUE, needs |-> needs]
W(text) == [text |-> text, good |-> FALSE, needs |-> {}]

RightStatements ==
  {S(<<"x", "=", "f", "(", "x", ")", ";">>, {<<"f", "function">>}),
   S(<<"y", "=", "y", "/", "(", "1", ",", "x", ")", ";">>, {<<"y", "object">>}),
   S(<<"{", "int", "x", "=", "1", ",", "y", "=", "x", ";", "x", "=", "y", ";", "}">>, {}),
   S(<<"if", "(", "x", ")", "x", "=", "1", ";", "else", "return", ";">>, {}),
   S(<<"while", "(", "x", ")", "{", "break", ";", "continue", ";", "}">>, {}),
   S(<<"do", "continue", ";", "while", "(", "x", ")", ";">>, {}),
   S(<<"for", "(", "int", "y", "=", "1", ";", "y", ";", "y", "=", "x", ")", ";">>, {}),
   S(<<"for", "(", ";", ";", ")", "{", "}">>, {}),
   S(<<"switch", "(", "x", ")", "{", "case", "1", ":", "break", ";", "default", ":", ";", "}">>, {}),
   S(<<"z", ":", "goto", "z", ";">>, {}),
   S(<<"x", "=", "(", "T", ")", "1", ";">>, {<<"T", "typedef">>}),
   S(<<"(", "int", ")", "{", "1", ",", "}", "=", "x", ";">>, {}),
   S(<<"_Static_assert", "(", "1", ")", ";">>, {}),
   S(<<"{", "enum", "{", "z", "}", ";", "x", "=", "z", ";", "}">>, {})}

BadStatements ==
  {W(<<"x", "=", "1">>), W(<<"x", "=", ";">>), W(<<"break", ";">>),
   W(<<"switch", "(", "1", ")", "continue", ";">>), W(<<"case", "1", ":", ";">>),
   W(<<"f", "(", ")", ";">>), W(<<"x", "(", "1", ")", ";">>), W(<<"1", "=", "x", ";">>),
   W(<<"if", "(", "x", "return", ";">>), W(<<"{", "int", "y", ";", "int", "y", ";", "}">>),
   W(<<"goto", "1", ";">>), W(<<"x", "=", "z", ";">>),
   W(<<"while", "(", "x", ")", "default", ":", ";">>)}

\* Wrong in front of a brace, and maybe not in front of a statement.
Hanging == {W(<<"x", "=">>), W(<<"x", "=", "(">>)}

Statements1 == RightStatements \cup BadStatements

Bodies == {<<s>> : s \in Statements1 \cup Hanging}

LongBodies ==
  {<<s, t>> : s \in Statements1, t \in Statements1 \cup Hanging} \ {<<s, s>> : s \in Statements1}

\* m is a function with that body.
Function(body) ==
  Piece(<<"int", "m", "(", "int", "x", ")", "{">>
          \o FlattenSeq([i \in 1..Len(body) |-> body[i].text]) \o <<"}">>,
        \A i \in 1..Len(body) : body[i].good,
        UNION {body[i].needs : i \in 1..Len(body)},
        {<<"m", "function", TRUE>>}, 1)

-----------------------------------------------------------------------------
External == RightDeclarations \cup BadDeclarations

Short == {Function(body) : body \in Bodies}

Long == {Function(body) : body \in LongBodies}

MCUnits ==
  {<<a, b>> : a \in External, b \in Long}
    \cup {<<a, b, c>> : a \in External, b \in RightDeclarations, c \in Short \cup External}
    \cup {<<a, b, c>> : a \in External, b \in Short, c \in External}
    \cup {<<a, b>> : a \in External, b \in Unfinished}
-----------------------------------------------------------------------------
(* Units that show where the parser and what is said of it disagree. *)

\* `typedef int T;' in a block, and something behind it.
BlockTypedefs ==
  {<<Function(<<S(<<"typedef", "int", "T", ";">>, {}), s>>)>> :
     s \in {t \in RightStatements : t.needs = {}} \cup BadStatements}

\* One that uses a name it does not declare, and others behind it.
Undeclaring == Bad(<<"int", "x", "=", "z", ";">>)

DisagreeingUnits ==
  BlockTypedefs
    \cup {<<Undeclaring, a, b>> : a \in RightDeclarations, b \in External}
    \cup {<<a, Function(<<s>>)>> : a \in RightDeclarations,
            s \in {W(<<")", "=", "1", ";">>), W(<<"e", "=", "1", ";">>),
                   S(<<"{", "int", "T", "=", "1", ";", "}">>, {})}}
    \cup {<<Right(<<"int", "f", "(", "int", ")", ";">>, {}, {<<"f", "function", FALSE>>}, 0),
            Bad(<<"int", "f", "(", ")", ";">>)>>}
=============================================================================
