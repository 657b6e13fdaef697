------------------------------ MODULE MCPluginSets ------------------------------
(***************************************************************************)
(* Two files, the main-block plugin, two server configurations, two        *)
(* plugins that publish under one topic and a project-wide one; three node *)
(* flags the engine owns and room for two more.                            *)
(***************************************************************************)
EXTENDS PluginSets

CONSTANTS f1, f2, main, plain

Spec1(owner, name, seed, about) ==
  [name |-> <<owner, name>>, seed |-> seed, defaultOn |-> seed, about |-> about]

MCNodesOf == [c \in {main, plain} |-> IF c = main THEN 2 ELSE 1]
MCNodeBuiltins == <<<<0, Spec1("engine", "unresolved", FALSE, 0)>>, <<1, Spec1("engine", "entrypoint", TRUE, 0)>>>>
MCEdgeBuiltins == <<<<0, Spec1("engine", "dead_branch", FALSE, 0)>>>>

Entry(n) == [op |-> "entry", at |-> n]
Link(a, b) == [op |-> "edge", at |-> a, to |-> b]
Says(topic, n) == [op |-> "fact", at |-> n, topic |-> topic]

Emits(Ops(_, _)) == [k \in {<<f1, main>>, <<f1, plain>>, <<f2, main>>} |-> Ops(k[1], k[2])]

Plugins(kind, emits) ==
  [kind |-> kind, emits |-> emits, mayFail |-> kind \in {"dual", "wide"},
   config |-> <<>>, nodeFlags |-> <<>>, edgeFlags |-> <<>>, topics |-> <<>>]

MainBlock == Plugins("builtin", Emits(LAMBDA f, c : IF c = main THEN <<Entry(0), Entry(1)>> ELSE <<>>))

Server(names, matched) ==
  LET ops(f, c) == IF f \in matched THEN <<Entry(0), Link(0, 1)>> ELSE <<>>
  IN  [Plugins("configured", Emits(ops)) EXCEPT !.config = names]

Case == Spec1("tests", "case", TRUE, 1)
Seen == <<"tests", "seen">>

Dual(declared, edges, n) ==
  LET ops(f, c) == <<Says(Seen, n), Link(0, 1)>>
  IN  [Plugins("dual", Emits(ops)) EXCEPT
         !.nodeFlags = declared, !.edgeFlags = edges, !.topics = <<[name |-> Seen, about |-> 1]>>]

Wide(declared) ==
  [Plugins("wide", Emits(LAMBDA f, c : <<>>)) EXCEPT !.nodeFlags = declared]

MCTemplates ==
  {MainBlock, Server(<<"a">>, {f1}), Server(<<"b", "b">>, {f2}),
   Dual(<<Spec1("tests", "fixture", FALSE, 1), Case>>, <<Spec1("tests", "uses", FALSE, 1)>>, 1),
   Wide(<<Case, Spec1("app", "route", TRUE, 1)>>)}

MCContents == [f \in {f1, f2} |-> IF f = f1 THEN {main, plain} ELSE {main}]
MCHashOf == [c \in {{"a"}, {"b"}} |-> IF c = {"a"} THEN 1 ELSE 2]
MCFiles == <<f1, f2>>
=============================================================================
