------------------------------ MODULE MCDriver ------------------------------
(***************************************************************************)
(* Driver with command lines of a few words: response files that name each *)
(* other, options that lack their value, and up to three inputs, one of    *)
(* which cannot be read.                                                   *)
(***************************************************************************)
EXTENDS Driver

Name(stem, ext) == [kind |-> "plain", name |-> File(stem, ext)]

MCTarget == File("target", "")
MCFormats == {File("com", ""), File("mz64", "")}
MCReadable == {File("x", "c"), File("y", "c"), File("y", "s")}

Listed == [kind |-> "response", name |-> "list"]
Looping == [kind |-> "response", name |-> "loop"]
Missing == [kind |-> "response", name |-> "missing"]

MCResponses ==
  [name \in {"list", "loop", "more"} |->
     CASE name = "list" -> <<Name("x", "c"), [kind |-> "response", name |-> "more"]>>
       [] name = "more" -> <<Name("y", "c")>>
       [] name = "loop" -> <<Name("x", "c"), Looping>>]

Does(action) == [kind |-> "action", action |-> action]
Is(kind) == [kind |-> kind]

\* The inputs of a command, and what comes before them.
Given ==
  {<<Name("x", "c")>>, <<Name("none", "c"), Name("y", "c")>>,
   <<Name("y", "c"), Name("y", "s")>>, <<Listed>>,
   <<Name("x", "c"), Listed>>}

Fronts ==
  {<<Does(action)>> : action \in {"compile", "link", "preprocess", "ast"}}
    \cup {<<>>, <<Is("free"), Does("link"), Is("output"), Name("out", "com")>>,
          <<Does("preprocess"), Is("output"), Name("out", "i")>>,
          <<Is("target"), Name("other", "")>>,
          <<Is("format"), Name("mz64", ""), Is("include"), Name("dir", "")>>}

Refusals ==
  {<<>>, <<Looping>>, <<Missing>>, <<Is("unknown")>>, <<Is("output")>>,
   <<Is("format"), Name("elf", "")>>, <<Does("version")>>,
   <<Name("x", "c"), Is("define")>>,
   <<Is("define"), Name("A", ""), Is("define"), Name("B", "")>>,
   [i \in 1..5 |-> Name("x", "c")], [i \in 1..7 |-> Is("free")]}

MCCommandLines ==
  {front \o given : front \in Fronts, given \in Given} \cup Refusals
=============================================================================
