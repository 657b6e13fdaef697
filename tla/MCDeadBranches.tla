----------------------------- MODULE MCDeadBranches -----------------------------
(***************************************************************************)
(* Programs for DeadBranches: every compound statement in every context    *)
(* where what follows it may be dead, and every way a few names of a       *)
(* module and of a function in it are bound to each other.                 *)
(***************************************************************************)
EXTENDS BranchRuns

VarA == <<"a">>
VarB == <<"b">>
VarC == <<"c">>
Use == ExprStmt(Opaque)

Tests  == {True, False, Opaque}
Leaves == {<<Use>>, <<Jump("return")>>, <<Jump("break")>>}
Deaths == Leaves \cup {<<Asserted(False), Use>>, <<Jump("raise")>>, <<Jump("continue")>>}
Nested == Deaths \cup
  { <<If(True, <<Jump("return")>>), Use>>,
    <<If(Opaque, <<Jump("return")>>), Use>>,
    <<With(<<Jump("raise")>>), Use>>,
    <<While(True, <<Jump("break")>>, <<Use>>), Use>>,
    <<ForElse(Stored(VarC), <<Jump("continue")>>, <<Jump("return")>>), Use>>,
    <<TryAll(<<Jump("return")>>, <<<<Use>>>>, <<>>, <<>>), Use>> }

Compounds ==
       {Cases(<<t>>, <<x>>) : t \in Tests, x \in Nested}
  \cup {Cases(<<t>>, <<x, y>>) : t \in Tests, x \in Nested, y \in Deaths}
  \cup {Cases(<<t, u>>, <<x, y>>) : t \in Tests, u \in Tests, x \in Leaves, y \in Leaves}
  \cup {Cases(<<t, u>>, <<x, y, z>>) : t \in Tests, u \in Tests, x \in Leaves, y \in Leaves, z \in Leaves}
  \cup {While(t, x, y) : t \in Tests, x \in Nested, y \in Leaves \cup {<<>>}}
  \cup {ForElse(Stored(VarC), x, y) : x \in Nested, y \in Leaves \cup {<<>>}}
  \cup {With(x) : x \in Nested}
  \cup {TryAll(x, <<y>>, z, w) : x \in Nested, y \in Leaves, z \in {<<>>, <<Use>>, <<Jump("break")>>},
                                 w \in {<<>>} \cup Leaves}
  \cup {TryAll(x, <<>>, <<>>, w) : x \in Deaths, w \in Nested}
  \cup {TryAll(x, <<y, z>>, <<>>, <<>>) : x \in Deaths, y \in Leaves, z \in Leaves}

InLoop(s) == <<Def(<<"f">>, <<>>, <<>>, <<ForElse(Stored(VarC), <<s, Use>>, <<>>), Use>>)>>
InFunction(s) == <<Def(<<"f">>, <<>>, <<>>, <<s, Use>>)>>

Jumps(s) == {Statements(s)[i].is : i \in DOMAIN Statements(s)}

ControlPrograms ==
  {InLoop(s) : s \in Compounds} \cup {InFunction(s) : s \in {c \in Compounds : Jumps(c) \cap {"break", "continue"} = {}}}

Asg(n, e) == Assign(<<Stored(n)>>, e)
Guarded(t) == Cases(<<t>>, <<<<Use>>, <<Use>>>>)

Values == {True, False, Opaque, Name(VarB), Not(Name(VarA)), And(Name(VarA), Name(VarC)), Or(List(<<>>), Named(VarC, True))}

(* Three bindings, the last of a name that is bound before; then an inner   *)
(* scope that rebinds a name it reads.                                      *)
ModulePrograms ==
  {<<Asg(VarA, x), Asg(VarB, y), Asg(n, z), Guarded(Name(VarA)), Guarded(Or(Name(VarB), Name(VarC)))>> :
     x \in Values, y \in Values, z \in Values, n \in {VarA, VarC}}

FunctionPrograms ==
  {<<Asg(VarA, x), Asg(VarB, False), Def(<<"f">>, ps, <<>>, <<Asg(VarB, y), Asg(n, z), Guarded(Name(VarA)), Guarded(Name(VarB))>>),
     Guarded(Name(VarB))>> :
     x \in {True, False}, y \in Values, z \in Values, n \in {VarA, VarC}, ps \in {<<>>, <<VarA>>}}

(* A function that rebinds a name of its module in a cycle of three.        *)
CyclePrograms ==
  {<<Asg(VarA, v), Def(<<"f">>, <<>>, <<>>, <<Asg(VarA, Name(VarC)), Asg(VarB, Name(VarA)), Asg(VarC, Name(VarB))>>)>> :
     v \in {True, False}}

MCPrograms == ControlPrograms \cup ModulePrograms \cup FunctionPrograms
=============================================================================
