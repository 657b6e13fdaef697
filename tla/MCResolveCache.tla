---------------------------- MODULE MCResolveCache ----------------------------
(***************************************************************************)
(* ResolveCache over four small files, resolved by module Resolution:      *)
(*   pk   package P, which may define the name Y of its submodule          *)
(*   sub  module P.Y, which may not exist                                  *)
(*   st   module S, which may star-import P                                *)
(*   us   module U, which imports from S and P and may subclass            *)
(***************************************************************************)
EXTENDS NameReads

CONSTANTS pk, sub, st, us, P, PY, S, U, Ext

X == 1
Y == 2
Z == 3

MCFile == {pk, sub, st, us}

MCModule    == {P, PY, S, U}
MCExternal  == {Ext}
MCModuleOf  == [f \in MCFile |-> CASE f = pk -> P [] f = sub -> PY [] f = st -> S [] f = us -> U]
MCSubmodule == {[pkg |-> P, name |-> Y, mod |-> PY]}
MCName      == {X, Y, Z}

Choices(f) ==
  CASE f = pk  -> {Plain(On(X, Class(NoName))),
                   Content(On(X, Class(NoName)), NoModule, {}, 1),
                   Plain(Both(X, Def, Y, Def))}
    [] f = sub -> {Plain(None), Absent}
    [] f = st  -> {Content(None, P, {}, 0), Plain(On(X, Import(P, X)))}
    [] f = us  -> {Plain(None),
                   Content(Both(X, Import(S, X), Z, Class(X)), NoModule, {<<X>>}, 0),
                   Content(Both(Y, Import(P, Y), Z, Import(Ext, NoName)), NoModule, {<<Y>>}, 0)}

(* X.Z or X().Z, where X comes from S: a variable that holds the submodule *)
(* P.Y, a variable that is read through itself, or a re-export of P's X, a  *)
(* function that returns the submodule.  No single edit leads here from the *)
(* contents above: st and us both differ.                                   *)
ChainChoices(f) ==
  CASE f = pk  -> {Plain(On(X, Class(NoName))), Plain(On(X, Function(PY, NoName, <<>>)))}
    [] f = sub -> {Plain(None), Plain(On(Z, Def))}
    [] f = st  -> {Content(On(X, b), NoModule, {}, 1) :
                     b \in {Import(P, X), Variable(P, Y, <<>>), Variable(S, X, <<Z>>)}}
    [] f = us  -> {Content(On(X, Import(S, X)), NoModule, {u}, 0) : u \in {<<X, Z>>, <<X, Call, Z>>}}

(* P.Y through an import of P, which may define the name itself.            *)
ClashChoices(f) ==
  CASE f = pk  -> {Plain(On(X, Def)), Plain(Both(X, Def, Y, Def))}
    [] f = sub -> {Plain(None)}
    [] f = st  -> {Content(None, NoModule, {}, 2)}
    [] f = us  -> {Content(On(X, Import(P, NoName)), NoModule, {<<X, Y>>}, 0)}

MCSources ==
  Combinations(Choices) \cup Combinations(ChainChoices) \cup Combinations(ClashChoices)
=============================================================================
