----------------------------- MODULE Reachability -----------------------------
(***************************************************************************)
(* What is alive: the walks over the finished graph.  bfs of               *)
(* src/runtime/src/builder.rs, _forward_closure of                         *)
(* src/python/dead_cst/analyze.py and LoadedGraph.reachable of             *)
(* src/python/dead_cst/graph.py are the same loop over a stack; here one   *)
(* turn of it is a step.  Adjacency lists are in no order that means       *)
(* anything, so the node on top of the stack may be any of the pending     *)
(* ones, and one that was visited meanwhile is not kept pending.           *)
(*                                                                         *)
(* An edge is <<source, target, dead>>, dead if it starts in a branch      *)
(* never taken: the one flag a query is asked to leave out.                *)
(***************************************************************************)
EXTENDS FiniteSets

CONSTANTS
  Node,
  Graph,       \* the graphs a build may have left
  SeedFlags,   \* the masks queries are asked with
  Asked        \* the nodes they are asked about

Kind == {"code", "import", "module", "external"}
Flag == {"entrypoint", "testcase", "fixture"}

IsGraph(g) ==
  g \in [kind  : [Node -> Kind],
         flags : [Node -> SUBSET Flag],
         edges : SUBSET (Node \X Node \X BOOLEAN)]

ASSUME GraphAssumption ==
  /\ \A g \in Graph : IsGraph(g)
  /\ SeedFlags \subseteq SUBSET Flag
  /\ Asked \subseteq Node

VARIABLES
  graph,     \* BuildOutputs.builder
  at,        \* the question under way: "idle", "query", "answered"
  walk       \* [roots, edges, visited, stack]

walkVars == <<graph, at, walk>>

-----------------------------------------------------------------------------
(* Reachability, without a walk.                                           *)

Closed(S, edges) == \A e \in edges : e[1] \in S => e[2] \in S

(* What the roots reach: what is in every closed set they are in.           *)
Closure(roots, edges) ==
  {n \in Node : \A S \in SUBSET Node : roots \subseteq S /\ Closed(S, edges) => n \in S}

-----------------------------------------------------------------------------
Seeds(g, mask) == {n \in Node : g.flags[n] \cap mask # {}}

Followed(g, skip) == {<<e[1], e[2]>> : e \in {f \in g.edges : ~(skip /\ f[3])}}

Reverse(edges) == {<<e[2], e[1]>> : e \in edges}

Targets(i, edges) == {e[2] : e \in {f \in edges : f[1] = i}}

Begin(roots, edges) ==
  walk' = [roots |-> roots, edges |-> edges, visited |-> {}, stack |-> roots]

Over == walk.stack = {}

(* Mutant: what was visited is pushed again.                                *)
VisitAgain(i) ==
  walk' = [walk EXCEPT
    !.visited = @ \cup {i},
    !.stack = (@ \ {i}) \cup Targets(i, walk.edges)]

(* Mutant: a node is marked when it is pushed, and skipped when it is met.  *)
VisitMarkingPushed(i) ==
  LET seen == walk.visited \cup {i} \cup Targets(i, walk.edges)
  IN  walk' = [walk EXCEPT !.visited = seen, !.stack = @ \ seen]

(* One turn of the loop.                                                    *)
Visit(i) ==
  LET seen == walk.visited \cup {i}
  IN  walk' = [walk EXCEPT
        !.visited = seen,
        !.stack = (@ \cup Targets(i, walk.edges)) \ seen]

-----------------------------------------------------------------------------
(* The queries.                                                            *)

AskReachable ==
  /\ at = "idle"
  /\ \E mask \in SeedFlags, skip \in BOOLEAN :
       Begin(Seeds(graph, mask), Followed(graph, skip))
  /\ at' = "query"
  /\ UNCHANGED graph

AskDescendants ==
  /\ at = "idle"
  /\ \E n \in Asked, skip \in BOOLEAN : Begin({n}, Followed(graph, skip))
  /\ at' = "query"
  /\ UNCHANGED graph

AskAncestors ==
  /\ at = "idle"
  /\ \E n \in Asked, skip \in BOOLEAN : Begin({n}, Reverse(Followed(graph, skip)))
  /\ at' = "query"
  /\ UNCHANGED graph

WalkOn ==
  /\ \E i \in walk.stack : Visit(i)
  /\ UNCHANGED <<graph, at>>

Answer ==
  /\ at = "query" /\ Over
  /\ at' = "answered"
  /\ UNCHANGED <<graph, walk>>

-----------------------------------------------------------------------------
WalkInit ==
  /\ graph \in Graph
  /\ at = "idle"
  /\ walk = [roots |-> {}, edges |-> {}, visited |-> {}, stack |-> {}]

WalkNext ==
  AskReachable \/ AskDescendants \/ AskAncestors \/ WalkOn \/ Answer

WalkSpec == WalkInit /\ [][WalkNext]_walkVars

-----------------------------------------------------------------------------
(* Properties.                                                             *)

(* A walk that is over has visited what its roots reach along the edges it  *)
(* was told to follow, no more and no less.                                 *)
WalkReturnsClosure == Over => walk.visited = Closure(walk.roots, walk.edges)
=============================================================================
