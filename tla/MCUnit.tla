------------------------------- MODULE MCUnit -------------------------------
(***************************************************************************)
(* Unit on every sequence of a few declarations. Each name keeps to one    *)
(* linkage in MCDeclarations, and a name that is announced is not defined  *)
(* tentatively before; OtherDeclarations is what C allows beyond that.     *)
(***************************************************************************)
EXTENDS Unit

MCSectionNames == <<1, 2, 3>>
MCPrivate(n) == IF n < 10 THEN 10 + n ELSE 100 + 2 * n
MCLiteral(n) == IF n < 10 THEN 20 + n ELSE 101 + 2 * n
Ready == 33
Putc == 34
MCServices == <<Putc, 35, Ready>>

E == 40
F == 41
X == 43
Y == 44
Z == 45

MCLength(name) ==
  CASE name = 0 -> 0
    [] name \in {1, 2} -> 5
    [] name = 3 -> 4
    [] name \in 10..19 -> 10
    [] name \in 20..29 -> 7
    [] name \in 33..35 -> 18
    [] name = 42 -> 4
    [] name = 90 -> 20
    [] OTHER -> 1

MCSizeOf(name) == IF name \in {X, Z} THEN 4 ELSE 8

Obj(name, storage, init, of) ==
  [kind |-> "object", name |-> name, storage |-> storage, init |-> init, of |-> of]
Proto(name, storage) == [kind |-> "prototype", name |-> name, storage |-> storage]
Fun(name, storage, body) ==
  [kind |-> "function", name |-> name, storage |-> storage, body |-> body]

Use(name) == [kind |-> "use", name |-> name]
Extern(name) == [kind |-> "extern", name |-> name]
Static(set) == [kind |-> "static", set |-> set]
Lit == [kind |-> "literal"]

Bodies ==
  { <<>>, <<Use(X), Use(Y)>>, <<Extern(E), Use(E), Use(Z)>>, <<Static(TRUE), Use(Y)>>,
    <<Static(FALSE), Lit, Use(E)>>, <<Use(F), Use(Putc)>>, <<Use(Ready), Use(X)>> }

MCDeclarations ==
  { Obj(X, "extern", "none", 0), Obj(X, "none", "plain", 0),
    Obj(Y, "static", "none", 0), Obj(Y, "static", "plain", 0),
    Obj(Y, "static", "address", X), Obj(Y, "static", "address", F),
    Obj(Z, "none", "none", 0), Obj(Z, "none", "plain", 0),
    Obj(E, "extern", "none", 0),
    Proto(F, "static"), Proto(Putc, "none"), Proto(Ready, "extern") } \cup
  {Fun(F, "static", body) : body \in Bodies} \cup
  {Fun(Main, "none", body) : body \in Bodies}

OtherDeclarations ==
  { Obj(Z, "none", "none", 0), Obj(Z, "extern", "none", 0), Obj(Z, "none", "plain", 0),
    Obj(X, "none", "plain", 0),
    Proto(F, "static"), Fun(F, "none", <<Extern(Z), Use(Z)>>), Fun(F, "none", <<>>),
    Fun(Main, "none", <<Use(F)>>) }
=============================================================================
