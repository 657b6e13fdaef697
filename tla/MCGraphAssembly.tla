--------------------------- MODULE MCGraphAssembly ---------------------------
(***************************************************************************)
(* GraphAssembly over two projects, the files of the other one absent      *)
(* (files change one at a time, so neither becomes the other):             *)
(*   pk   package P, which defines X and perhaps Y                         *)
(*   st   module P.S, which star-imports P                                 *)
(*   us   module U: imports and reads S.X and imports an external; imports *)
(*        P as a module and a module that does not exist                   *)
(* and a module with a stub and a runtime twin:                            *)
(*   rt   R.py, which defines Y, or X and Y, or does not exist             *)
(*   sb   R.pyi, which defines X, or X and Y                               *)
(*   cs   module C, which imports and reads R.X and imports two externals  *)
(***************************************************************************)
EXTENDS AssemblyTables

CONSTANTS pk, st, us, rt, sb, cs, P, S, U, Q, R, C, ExtA, ExtB

X == 1
Y == 2
Z == 3

Packages    == {pk, st, us}
Stubs       == {rt, sb, cs}

MCFile      == Packages \cup Stubs
MCModule    == {P, S, U, R, C}
MCExternal  == {ExtA, ExtB}
MCStub      == {sb}
MCModuleOf  == [f \in MCFile |-> CASE f = pk -> P [] f = st -> S [] f = us -> U
                                   [] f \in {rt, sb} -> R [] f = cs -> C]
MCSubmodule == {[pkg |-> P, name |-> Z, mod |-> S]}
MCName      == {X, Y, Z}

Consumer == [n \in MCName |-> CASE n = X -> Import(R, X)
                                [] n = Y -> Import(ExtB, NoName)
                                [] n = Z -> Import(ExtA, NoName)]

ContentsOf(f) ==
  CASE f = pk -> {Plain(On(X, Def)), Plain(Both(X, Def, Y, Def))}
    [] f = st -> {Content(None, P, {}, 0)}
    [] f = us -> {Content(Both(X, Import(S, X), Z, Import(ExtA, NoName)), NoModule, {<<X>>}, 0),
                  Plain(Both(Y, Import(P, NoName), Z, Import(Q, NoName)))}
    [] f = rt -> {Plain(On(Y, Def)), Plain(Both(X, Def, Y, Def)), Absent}
    [] f = sb -> {Plain(On(X, Def)), Plain(Both(X, Def, Y, Def))}
    [] f = cs -> {Content(Consumer, NoModule, {<<X>>}, 0)}

PackageChoices(f) == IF f \in Packages THEN ContentsOf(f) ELSE {Absent}
StubChoices(f)    == IF f \in Stubs THEN ContentsOf(f) ELSE {Absent}

(* The stub gains a name while its twin has both.                           *)
StubSources == {s \in Combinations(StubChoices) : s[sb] # Plain(On(X, Def)) => s[rt] = Plain(Both(X, Def, Y, Def))}

MCSources == Combinations(PackageChoices) \cup StubSources

MCFileOrder     == <<pk, st, us, rt, sb, cs>>
MCExternalOrder == <<ExtA, ExtB>>

MCProjectOps(s) == IF s[pk] # Absent THEN KeepWhileRead(s, pk, us) ELSE KeepWhileRead(s, rt, cs)
=============================================================================
