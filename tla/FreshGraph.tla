------------------------------ MODULE FreshGraph ------------------------------
(***************************************************************************)
(* What the graph of a project promises: whatever was built before, a      *)
(* completed build serves the graph that its sources alone determine       *)
(* ("bit-identical to a fresh build by construction", CHANGELOG.md), with  *)
(* the contributions of the project-wide plugins when their pass succeeds, *)
(* and a failed build serves nothing.  Between builds the sources move and *)
(* the graph stays.                                                        *)
(***************************************************************************)
CONSTANTS
  Sources,        \* the states the sources may be in
  NoGraph,        \* what is served when no build completed
  GraphOf(_, _)   \* the graph of sources, with or without plugin operations

VARIABLES
  src,            \* the sources, as last synchronised
  graph           \* the graph the queries see

Edit ==
  /\ src' \in Sources
  /\ UNCHANGED graph

Publish ==
  /\ \E applied \in BOOLEAN : graph' = GraphOf(src, applied)
  /\ UNCHANGED src

Fail ==
  /\ graph' = NoGraph
  /\ UNCHANGED src

Init ==
  /\ src \in Sources
  /\ graph = NoGraph

Next == Edit \/ Publish \/ Fail

Spec == Init /\ [][Next]_<<src, graph>>
=============================================================================
