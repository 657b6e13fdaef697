------------------------------ MODULE MCFileAnalysis ------------------------------
(***************************************************************************)
(* Statements about a framework w with an application class App, in a file *)
(* of a package w, and a file before it that imports App and makes one.    *)
(***************************************************************************)
EXTENDS FileAnalysis

N(s) == <<s>>
As(name, local) == [name |-> name, local |-> local]
Same(name) == As(name, name)
V(s) == Name(N(s))
Set(s, value) == Assign(<<Stored(N(s))>>, value)
S == Str(<<"s">>)
Make(args) == Call(V("App"), args, <<>>)

CatalogueDef == <<
  From(0, N("w"), <<Same(N("App"))>>),
  From(1, <<>>, <<Same(N("app"))>>),
  From(1, N("app"), <<As(N("App"), N("App"))>>),
  Import(<<Same(N("w"))>>),
  Import(<<Same(<<"w", "app">>)>>),
  Set("x", S),
  Set("y", FString(<<Hole(V("x"), TRUE), Str(<<".k">>), Hole(Name(Dunder), TRUE)>>)),
  Set("a", Make(<<V("x")>>)),
  Set("a", Call(Attr(V("app"), N("App")), <<S>>, <<>>)),
  Set("b", Call(Attr(Attr(V("w"), N("app")), N("App")), <<Plus(S, V("y"))>>, <<<<N("key"), V("x")>>>>)),
  Def(N("h"), <<N("x")>>,
      <<Call(Attr(V("a"), N("on")), <<S>>, <<>>), Attr(V("a"), N("get")),
        Call(Attr(Call(Attr(Attr(V("a"), N("via")), N("on")), <<>>, <<>>), N("more")), <<>>, <<>>)>>,
      <<ExprStmt(Make(<<V("x")>>)), ExprStmt(Make(<<V("y")>>))>>),
  Def(N("g"), <<>>, <<>>, <<Global(<<Same(N("x"))>>), Set("x", Str(<<"z">>)), ExprStmt(Make(<<V("x")>>))>>),
  Class(N("C"), <<>>, <<V("B")>>, <<Set("y", S), Def(N("m"), <<N("self"), N("p")>>, <<>>, <<ExprStmt(Make(<<V("y")>>))>>)>>),
  If(Equals(Name(Dunder), Str(Main)), <<Set("b", Call(Subscript(V("App")), <<V("y")>>, <<>>)), Set("x", S)>>),
  Cases(<<Equals(Literals(<<Str(<<"__main">>), Str(<<"__">>)>>), Name(Dunder)), Opaque>>,
        <<<<Set("a", Make(<<V("x")>>))>>, <<Import(<<Same(N("w"))>>)>>>>),
  Cases(<<Opaque, Equals(Name(Dunder), Str(Main))>>, <<<<Set("x", S)>>, <<Set("y", V("x"))>>>>),
  For(Stored(N("y")), Opaque, <<ExprStmt(Call(Attr(V("a"), N("load")), <<List(<<S, V("x"), Opaque>>)>>, <<>>))>>),
  Try(<<Set("y", S)>>, N("e"), <<Import(<<Same(N("w"))>>)>>)
>>

(* A catalogue that rebinds a constant unseen: ConstantsAreBoundOnce fails. *)
UnseenDef == <<
  Set("x", S),
  ExprStmt(Make(<<V("x")>>)),
  Try(<<From(0, N("w"), <<Same(N("App"))>>)>>, N("x"), <<ExprStmt(Make(<<V("x")>>))>>),
  Import(<<Same(<<"x", "y">>)>>) >>

BeforeDef == << [body |-> <<From(0, N("w"), <<As(N("App"), N("a"))>>), Set("b", Call(V("a"), <<S>>, <<>>)),
                            Def(N("f"), <<>>, <<Attr(V("b"), N("on"))>>, <<ExprStmt(Call(V("a"), <<S>>, <<>>))>>)>>,
                 joined |-> {}, package |-> {}, module |-> N("v")] >>

PackageDef == {N("w")}
ModuleDef == <<"w", "m">>
AskedDef == {<<N("w"), <<"w", "app">>>>, <<<<"w", "app">>>>}
WantedDef == {N("App")}
DecoratingDef == {N("on"), N("get")}
ViaDef == N("via")
=============================================================================
