------------------------------ MODULE MCDeadTests ------------------------------
(***************************************************************************)
(* Every graph over an entry point, two tests and two nodes they share:    *)
(* y may be a fixture, and t2 an entry point as well, a seed under either  *)
(* mask.  A fixture matters under the first mask only, an entry point that *)
(* is a test under the second, so one graph can have both.                 *)
(***************************************************************************)
EXTENDS DeadTests

CONSTANTS entry, t1, t2, x, y

Links ==
  {<<entry, x>>, <<entry, y>>, <<t1, x>>, <<t1, y>>, <<t2, x>>, <<t2, y>>,
   <<x, y>>, <<y, x>>, <<t1, t2>>, <<y, entry>>}

Mentions == {<<l[1], l[2], l = <<x, y>>>> : l \in Links}

Flags(fixtures, named) ==
  [n \in Node |-> CASE n = entry -> {"entrypoint"} [] n = t1 -> {"testcase"}
                    [] n = t2 -> {"testcase"} \cup named
                    [] n \in fixtures -> {"fixture"} [] OTHER -> {}]

MCGraph ==
  [kind  : {[n \in Node |-> IF n = x THEN k ELSE "code"] : k \in {"code", "import", "module"}},
   flags : {Flags({}, {}), Flags({y}, {"entrypoint"})},
   edges : SUBSET Mentions]

MCSeedFlags == {Flag, {"entrypoint"}}
=============================================================================
