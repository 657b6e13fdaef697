---------------------------- MODULE DeadTestsProofs ----------------------------
(***************************************************************************)
(* The walks over the graph return the closure of their roots, and         *)
(* _dead_test_indices computes its definition, on every graph, however its *)
(* two walks interleave.                                                   *)
(*                                                                         *)
(* Closure is the least closed set, so the proofs compare sets and need no *)
(* induction over paths: what is visited or pending lies in every closed   *)
(* set that holds the roots, and once nothing is pending the visited set   *)
(* is such a set itself.  The invariant of the dead tests has a half for   *)
(* each direction: sound -- whatever is live or pending uses live code,    *)
(* whatever is exercised is used by a live test -- and complete -- the     *)
(* walks leave no edge behind that is not pending.  When nothing is        *)
(* pending, the code met is a settled set, and hence holds all live code.  *)
(***************************************************************************)
EXTENDS DeadTests, TLAPS

-----------------------------------------------------------------------------
(* Facts about Closure.                                                    *)

(* The roots are reached, by descendants_indices and its kin alike.         *)
LEMMA ClosureHoldsRoots ==
  ASSUME NEW roots \in SUBSET Node, NEW edges
  PROVE  roots \subseteq Closure(roots, edges)
BY DEF Closure

(* What is reached is in every closed set with the roots in it.             *)
LEMMA ClosureIsLeast ==
  ASSUME NEW roots, NEW edges, NEW S \in SUBSET Node,
         roots \subseteq S, Closed(S, edges)
  PROVE  Closure(roots, edges) \subseteq S
BY DEF Closure

(* One more edge from what is reached is reached.                           *)
LEMMA ClosureIsClosed ==
  ASSUME NEW roots, NEW edges \in SUBSET (Node \X Node)
  PROVE  /\ Closed(Closure(roots, edges), edges)
         /\ Closure(roots, edges) \in SUBSET Node
<1>1. ASSUME NEW e \in edges, e[1] \in Closure(roots, edges)
      PROVE  e[2] \in Closure(roots, edges)
  <2>1. e[2] \in Node
    OBVIOUS
  <2>2. ASSUME NEW S \in SUBSET Node, roots \subseteq S, Closed(S, edges)
        PROVE  e[2] \in S
    <3>1. e[1] \in S
      BY <1>1, <2>2 DEF Closure
    <3> QED
      BY <3>1, <2>2, <1>1 DEF Closed
  <2> QED
    BY <2>1, <2>2 DEF Closure
<1> QED
  BY <1>1 DEF Closed, Closure

(* A node reaches what a node it reaches does.                              *)
LEMMA ClosureIsTransitive ==
  ASSUME NEW edges \in SUBSET (Node \X Node), NEW roots,
         NEW m \in Closure(roots, edges)
  PROVE  Closure({m}, edges) \subseteq Closure(roots, edges)
<1>1. Closed(Closure(roots, edges), edges) /\ Closure(roots, edges) \in SUBSET Node
  BY ClosureIsClosed
<1> QED
  BY <1>1, ClosureIsLeast

(* The edges of a graph join its nodes, whichever way they are followed.    *)
LEMMA EdgesJoinNodes ==
  ASSUME NEW g, IsGraph(g), NEW skip
  PROVE  /\ Followed(g, skip) \in SUBSET (Node \X Node)
         /\ Reverse(Followed(g, skip)) \in SUBSET (Node \X Node)
BY DEF IsGraph, Followed, Reverse

LEMMA ReverseJoinsNodes ==
  ASSUME NEW edges \in SUBSET (Node \X Node)
  PROVE  /\ Reverse(edges) \in SUBSET (Node \X Node)
         /\ \A m, n \in Node : <<m, n>> \in edges <=> <<n, m>> \in Reverse(edges)
BY DEF Reverse

(* Ancestors mirror descendants: "why is it alive" finds exactly the nodes  *)
(* that reach it.  The complement of a closed set is closed backwards.      *)
THEOREM AncestorsMirrorDescendants ==
  ASSUME NEW edges \in SUBSET (Node \X Node), NEW m \in Node, NEW n \in Node
  PROVE  n \in Closure({m}, edges) <=> m \in Closure({n}, Reverse(edges))
<1>1. ASSUME NEW E \in SUBSET (Node \X Node), NEW F \in SUBSET (Node \X Node),
             \A a, b \in Node : <<a, b>> \in E => <<b, a>> \in F,
             NEW a \in Node, NEW b \in Node,
             b \in Closure({a}, E)
      PROVE  a \in Closure({b}, F)
  <2> DEFINE S == Node \ Closure({b}, F)
  <2>1. Closed(Closure({b}, F), F) /\ b \in Closure({b}, F)
    BY ClosureIsClosed, ClosureHoldsRoots
  <2>2. Closed(S, E)
    <3>1. SUFFICES ASSUME NEW e \in E, e[1] \in S, e[2] \notin S
                   PROVE  FALSE
      BY DEF Closed
    <3>2. e[1] \in Node /\ e[2] \in Node /\ e = <<e[1], e[2]>>
      BY <3>1
    <3>3. <<e[2], e[1]>> \in F
      BY <3>2, <1>1
    <3>4. e[2] \in Closure({b}, F)
      BY <3>1, <3>2
    <3>5. e[1] \in Closure({b}, F)
      BY <3>3, <3>4, <2>1 DEF Closed
    <3> QED
      BY <3>5, <3>1
  <2>3. b \notin S
    BY <2>1
  <2>4. a \notin S
    <3>1. SUFFICES ASSUME a \in S PROVE b \in S
      BY <2>3
    <3>2. {a} \subseteq S /\ S \in SUBSET Node
      BY <3>1
    <3> HIDE DEF S
    <3>3. Closure({a}, E) \subseteq S
      BY <3>2, <2>2, ClosureIsLeast
    <3> QED
      BY <3>3, <1>1
  <2> QED
    BY <2>4
<1>2. /\ Reverse(edges) \in SUBSET (Node \X Node)
      /\ \A a, b \in Node : <<a, b>> \in edges <=> <<b, a>> \in Reverse(edges)
  BY ReverseJoinsNodes
<1>3. n \in Closure({m}, edges) => m \in Closure({n}, Reverse(edges))
  BY <1>1, <1>2
<1>4. m \in Closure({n}, Reverse(edges)) => n \in Closure({m}, edges)
  BY <1>1, <1>2
<1> QED
  BY <1>3, <1>4

-----------------------------------------------------------------------------
(* The walk.                                                               *)

Walks == [roots : SUBSET Node, edges : SUBSET (Node \X Node),
          visited : SUBSET Node, stack : SUBSET Node]

(* The loop invariant.                                                      *)
WalkInv ==
  /\ walk \in Walks
  /\ walk.roots \subseteq walk.visited \cup walk.stack
  /\ walk.visited \cup walk.stack \subseteq Closure(walk.roots, walk.edges)
  /\ \A e \in walk.edges : e[1] \in walk.visited => e[2] \in walk.visited \cup walk.stack

(* It gives the result.                                                     *)
LEMMA WalkInvGivesClosure ==
  ASSUME WalkInv
  PROVE  WalkReturnsClosure
<1>1. SUFFICES ASSUME walk.stack = {}
               PROVE  walk.visited = Closure(walk.roots, walk.edges)
  BY DEF WalkReturnsClosure, Over
<1>2. walk.visited \subseteq Closure(walk.roots, walk.edges)
  BY DEF WalkInv
<1>3. Closed(walk.visited, walk.edges)
  BY <1>1 DEF WalkInv, Closed
<1>4. walk.roots \subseteq walk.visited /\ walk.visited \in SUBSET Node
  BY <1>1 DEF WalkInv, Walks
<1>5. Closure(walk.roots, walk.edges) \subseteq walk.visited
  BY <1>3, <1>4, ClosureIsLeast
<1> QED
  BY <1>2, <1>5

(* A new walk starts with it.                                               *)
LEMMA BeginStartsWalk ==
  ASSUME NEW roots \in SUBSET Node, NEW edges \in SUBSET (Node \X Node),
         Begin(roots, edges)
  PROVE  WalkInv'
<1>1. roots \subseteq Closure(roots, edges)
  BY ClosureHoldsRoots
<1>2. walk' = [roots |-> roots, edges |-> edges, visited |-> {}, stack |-> roots]
  BY DEF Begin
<1>3. walk' \in Walks
  BY <1>2 DEF Walks
<1>4. /\ walk'.roots = roots /\ walk'.edges = edges
      /\ walk'.visited = {} /\ walk'.stack = roots
  BY <1>2
<1> QED
  BY <1>1, <1>3, <1>4 DEF WalkInv

(* A turn of the loop keeps it.                                             *)
LEMMA VisitKeepsWalk ==
  ASSUME WalkInv, NEW i \in walk.stack, Visit(i)
  PROVE  WalkInv'
<1> DEFINE seen == walk.visited \cup {i}
           next == (walk.stack \cup Targets(i, walk.edges)) \ seen
<1>1. /\ walk.roots \in SUBSET Node /\ walk.edges \in SUBSET (Node \X Node)
      /\ walk.visited \in SUBSET Node /\ walk.stack \in SUBSET Node
      /\ walk \in Walks
  BY DEF WalkInv, Walks
<1>2. /\ walk'.roots = walk.roots /\ walk'.edges = walk.edges
      /\ walk'.visited = seen /\ walk'.stack = next
  BY <1>1 DEF Visit, Walks
<1>3. \A e \in walk.edges : e[1] = i => e[2] \in Targets(i, walk.edges)
  BY DEF Targets
<1>4. Targets(i, walk.edges) \subseteq Node
  BY <1>1 DEF Targets
<1>5. Targets(i, walk.edges) \subseteq Closure(walk.roots, walk.edges)
  <2>1. Closed(Closure(walk.roots, walk.edges), walk.edges)
    BY <1>1, ClosureIsClosed
  <2>2. i \in Closure(walk.roots, walk.edges)
    BY DEF WalkInv
  <2> QED
    BY <2>1, <2>2 DEF Closed, Targets
<1>6. walk' \in Walks
  <2>1. seen \in SUBSET Node /\ next \in SUBSET Node
    BY <1>1, <1>4
  <2>2. walk' = [walk EXCEPT !.visited = seen, !.stack = next]
    BY DEF Visit
  <2> QED
    BY <2>1, <2>2, <1>1 DEF Walks
<1>7. walk'.roots \subseteq walk'.visited \cup walk'.stack
  BY <1>2 DEF WalkInv
<1>8. walk'.visited \cup walk'.stack \subseteq Closure(walk'.roots, walk'.edges)
  BY <1>2, <1>5 DEF WalkInv
<1>9. \A e \in walk'.edges : e[1] \in walk'.visited => e[2] \in walk'.visited \cup walk'.stack
  BY <1>2, <1>3 DEF WalkInv
<1> QED
  BY <1>6, <1>7, <1>8, <1>9 DEF WalkInv

(* reachable, descendants and ancestors return exactly the closure, on      *)
(* every graph, with or without the edges of dead branches.                 *)
THEOREM WalksReturnClosures == WalkSpec => []WalkReturnsClosure
<1> DEFINE Inv == graph \in Graph /\ WalkInv
<1>1. WalkInit => Inv
  <2> SUFFICES ASSUME WalkInit PROVE WalkInv
    BY DEF WalkInit
  <2>1. /\ walk.roots = {} /\ walk.edges = {} /\ walk.visited = {} /\ walk.stack = {}
        /\ walk \in Walks
    BY DEF WalkInit, Walks
  <2> QED
    BY <2>1 DEF WalkInv
<1>2. Inv /\ [WalkNext]_walkVars => Inv'
  <2> SUFFICES ASSUME Inv, [WalkNext]_walkVars PROVE Inv'
    OBVIOUS
  <2>1. IsGraph(graph)
    BY GraphAssumption
  <2>2. \A skip : /\ Followed(graph, skip) \in SUBSET (Node \X Node)
                  /\ Reverse(Followed(graph, skip)) \in SUBSET (Node \X Node)
    BY <2>1, EdgesJoinNodes
  <2>3. CASE AskReachable
    <3>1. PICK mask \in SeedFlags, skip \in BOOLEAN :
            Begin(Seeds(graph, mask), Followed(graph, skip))
      BY <2>3 DEF AskReachable
    <3>2. Seeds(graph, mask) \in SUBSET Node
      BY DEF Seeds
    <3> QED
      BY <3>1, <3>2, <2>2, <2>3, BeginStartsWalk DEF AskReachable
  <2>4. CASE AskDescendants
    <3>1. PICK n \in Asked, skip \in BOOLEAN : Begin({n}, Followed(graph, skip))
      BY <2>4 DEF AskDescendants
    <3>2. {n} \in SUBSET Node
      BY GraphAssumption
    <3> QED
      BY <3>1, <3>2, <2>2, <2>4, BeginStartsWalk DEF AskDescendants
  <2>5. CASE AskAncestors
    <3>1. PICK n \in Asked, skip \in BOOLEAN : Begin({n}, Reverse(Followed(graph, skip)))
      BY <2>5 DEF AskAncestors
    <3>2. {n} \in SUBSET Node
      BY GraphAssumption
    <3> QED
      BY <3>1, <3>2, <2>2, <2>5, BeginStartsWalk DEF AskAncestors
  <2>6. CASE WalkOn
    BY <2>6, VisitKeepsWalk DEF WalkOn
  <2>7. CASE Answer
    BY <2>7 DEF Answer, WalkInv, Walks
  <2>8. CASE UNCHANGED walkVars
    BY <2>8 DEF walkVars, WalkInv, Walks
  <2> QED
    BY <2>3, <2>4, <2>5, <2>6, <2>7, <2>8 DEF WalkNext
<1>3. Inv => WalkReturnsClosure
  BY WalkInvGivesClosure
<1> QED
  BY <1>1, <1>2, <1>3, PTL DEF WalkSpec
-----------------------------------------------------------------------------
(* Facts about the definition of dead tests.                               *)

UsedBy(g, n) == Closure({n}, Uses(g))

LEMMA UsesJoinNodes ==
  ASSUME NEW g, IsGraph(g)
  PROVE  /\ Uses(g) \in SUBSET (Node \X Node)
         /\ Edges(g) \in SUBSET (Node \X Node)
         /\ Tests(g) \in SUBSET Node /\ Code(g) \in SUBSET Node
BY EdgesJoinNodes DEF Uses, Edges, Tests, Code

(* What a node uses includes itself, and what its successors use.           *)
LEMMA UsesFacts ==
  ASSUME NEW g, IsGraph(g)
  PROVE  /\ \A n \in Node : n \in UsedBy(g, n)
         /\ \A n \in Node : UsedBy(g, n) \in SUBSET Node /\ Closed(UsedBy(g, n), Uses(g))
         /\ \A e \in Uses(g) : UsedBy(g, e[2]) \subseteq UsedBy(g, e[1])
         /\ \A n \in Node, S \in SUBSET Node :
              n \in S /\ Closed(S, Uses(g)) => UsedBy(g, n) \subseteq S
<1>1. Uses(g) \in SUBSET (Node \X Node)
  BY UsesJoinNodes
<1>2. \A n \in Node : n \in UsedBy(g, n)
  <2> TAKE n \in Node
  <2>1. {n} \in SUBSET Node
    OBVIOUS
  <2> QED
    BY <2>1, ClosureHoldsRoots DEF UsedBy
<1>3. \A n \in Node : UsedBy(g, n) \in SUBSET Node /\ Closed(UsedBy(g, n), Uses(g))
  BY <1>1, ClosureIsClosed DEF UsedBy
<1>4. \A n \in Node, S \in SUBSET Node :
        n \in S /\ Closed(S, Uses(g)) => UsedBy(g, n) \subseteq S
  <2> SUFFICES ASSUME NEW n \in Node, NEW S \in SUBSET Node, n \in S, Closed(S, Uses(g))
               PROVE  UsedBy(g, n) \subseteq S
    OBVIOUS
  <2>1. {n} \subseteq S
    OBVIOUS
  <2> QED
    BY <2>1, ClosureIsLeast DEF UsedBy
<1>5. \A e \in Uses(g) : UsedBy(g, e[2]) \subseteq UsedBy(g, e[1])
  <2> TAKE e \in Uses(g)
  <2>1. e[1] \in Node /\ e[2] \in Node
    BY <1>1
  <2>2. e[2] \in UsedBy(g, e[1])
    BY <2>1, <1>2, <1>3 DEF Closed
  <2> QED
    BY <2>1, <2>2, <1>3, <1>4
<1> QED
  BY <1>2, <1>3, <1>4, <1>5

(* Live code is settled, and in every settled set.                          *)
LEMMA LiveCodeFacts ==
  ASSUME NEW g, NEW s
  PROVE  /\ LiveCode(g, s) \in SUBSET Code(g)
         /\ Production(g, s) \subseteq LiveCode(g, s)
         /\ \A t \in Tests(g) :
              UsedBy(g, t) \cap LiveCode(g, s) # {} =>
                UsedBy(g, t) \cap Code(g) \subseteq LiveCode(g, s)
         /\ \A C \in SUBSET Code(g) :
              /\ Production(g, s) \subseteq C
              /\ \A t \in Tests(g) :
                   UsedBy(g, t) \cap C # {} => UsedBy(g, t) \cap Code(g) \subseteq C
              => LiveCode(g, s) \subseteq C
         /\ LiveTests(g, s) = {t \in Tests(g) : UsedBy(g, t) \cap LiveCode(g, s) # {}}
<1> DEFINE P == Production(g, s)
           code == Code(g)
           Holds(C) == /\ P \subseteq C
                       /\ \A t \in Tests(g) :
                            UsedBy(g, t) \cap C # {} => UsedBy(g, t) \cap code \subseteq C
<1>1. \A t \in Tests(g) : Used(g)[t] = UsedBy(g, t)
  BY DEF Used, UsedBy
<1>2. DOMAIN Used(g) = Tests(g)
  BY DEF Used
<1>3. \A C : Settled(C, P, Used(g), code) <=> Holds(C)
  BY <1>1, <1>2 DEF Settled
<1>4. LiveCode(g, s) = {n \in code : \A C \in SUBSET code : Settled(C, P, Used(g), code) => n \in C}
  BY DEF LiveCode
<1>5. LiveCode(g, s) = {n \in code : \A C \in SUBSET code : Holds(C) => n \in C}
  BY <1>3, <1>4
<1>6. LiveTests(g, s) = {t \in Tests(g) : UsedBy(g, t) \cap LiveCode(g, s) # {}}
  BY <1>1 DEF LiveTests
<1>7. P \subseteq LiveCode(g, s)
  BY <1>5 DEF Production
<1>8. ASSUME NEW t \in Tests(g), UsedBy(g, t) \cap LiveCode(g, s) # {}
      PROVE  UsedBy(g, t) \cap Code(g) \subseteq LiveCode(g, s)
  <2>1. ASSUME NEW n \in UsedBy(g, t) \cap code, NEW C \in SUBSET code, Holds(C)
        PROVE  n \in C
    <3>1. LiveCode(g, s) \subseteq C
      BY <1>5, <2>1
    <3>2. UsedBy(g, t) \cap C # {}
      BY <3>1, <1>8
    <3> QED
      BY <3>2, <2>1
  <2> QED
    BY <2>1, <1>5
<1>9. LiveCode(g, s) \in SUBSET Code(g)
  BY <1>5
<1>10. \A C \in SUBSET Code(g) : Holds(C) => LiveCode(g, s) \subseteq C
  BY <1>5
<1> QED
  BY <1>6, <1>7, <1>8, <1>9, <1>10

-----------------------------------------------------------------------------
(* The invariant.                                                          *)

Touches(n) == UsedBy(graph, n) \cap LiveCode(graph, seeds) # {}

Types ==
  /\ graph \in Graph
  /\ at \in {"idle", "query", "answered", "production", "live", "full", "kept", "judged"}
  /\ seeds \in SUBSET Node /\ live \in SUBSET Node /\ pending \in SUBSET Node
  /\ exercised \in SUBSET Node /\ forward \in SUBSET Node /\ dead \in SUBSET Node

Untouched ==
  at \in {"idle", "query", "answered", "production"} =>
    live = {} /\ pending = {} /\ exercised = {} /\ forward = {}

FromProduction ==
  at = "production" =>
    walk.roots = ProductionSeeds(graph, seeds) /\ walk.edges = Edges(graph)

Sound ==
  /\ \A n \in live \cup pending : Touches(n)
  /\ \A n \in forward \cup exercised : \E t \in live \cap Tests(graph) : n \in UsedBy(graph, t)

Complete ==
  /\ Production(graph, seeds) \subseteq live \cup pending
  /\ \A e \in Uses(graph) : e[2] \in live => e[1] \in live \cup pending
  /\ live \cap Tests(graph) \subseteq exercised \cup forward
  /\ \A e \in Uses(graph) : e[1] \in exercised => e[2] \in exercised \cup forward
  /\ exercised \cap Code(graph) \subseteq live \cup pending

WhileLive == at = "live" => Sound /\ Complete

Judged ==
  at \in {"full", "kept", "judged"} => dead = Tests(graph) \ LiveTests(graph, seeds)

BlastSoFar ==
  /\ at # "judged" => blast = {}
  /\ at = "full" => walk.roots = seeds /\ walk.edges = Edges(graph)
  /\ at = "kept" =>
       /\ full = Closure(seeds, Edges(graph))
       /\ walk.roots = seeds \ dead /\ walk.edges = Edges(graph)
  /\ at = "judged" =>
       blast = Closure(seeds, Edges(graph)) \ Closure(seeds \ dead, Edges(graph))

IInv ==
  /\ Types /\ WalkInv
  /\ Untouched /\ FromProduction /\ WhileLive
  /\ Judged /\ BlastSoFar

(* A walk that ended before the tests are looked at, or in between.         *)
LEMMA GraphFacts ==
  ASSUME Types
  PROVE  /\ IsGraph(graph)
         /\ Uses(graph) \in SUBSET (Node \X Node)
         /\ Edges(graph) \in SUBSET (Node \X Node)
         /\ Tests(graph) \in SUBSET Node /\ Code(graph) \in SUBSET Node
<1>1. IsGraph(graph)
  BY GraphAssumption DEF Types
<1> QED
  BY <1>1, UsesJoinNodes

LEMMA InitHolds == Init => IInv
<1> SUFFICES ASSUME Init PROVE IInv
  OBVIOUS
<1>1. WalkInv
  <2>1. /\ walk.roots = {} /\ walk.edges = {} /\ walk.visited = {} /\ walk.stack = {}
        /\ walk \in Walks
    BY DEF Init, WalkInit, Walks
  <2> QED
    BY <2>1 DEF WalkInv
<1> QED
  BY <1>1 DEF Init, WalkInit, IInv, Types, Untouched, FromProduction, WhileLive, Judged, BlastSoFar

(* The queries, and the turns of any walk, leave the rest alone.            *)
LEMMA QueriesKeep ==
  ASSUME IInv, Queries
  PROVE  IInv'
<1>1. IsGraph(graph)
  BY GraphFacts DEF IInv
<1>2. \A skip : /\ Followed(graph, skip) \in SUBSET (Node \X Node)
                /\ Reverse(Followed(graph, skip)) \in SUBSET (Node \X Node)
  BY <1>1, EdgesJoinNodes
<1> USE DEF Queries, testVars
<1>3. CASE AskReachable
  <2>1. PICK mask \in SeedFlags, skip \in BOOLEAN :
          Begin(Seeds(graph, mask), Followed(graph, skip))
    BY <1>3 DEF AskReachable
  <2>2. Seeds(graph, mask) \in SUBSET Node
    BY DEF Seeds
  <2>3. WalkInv'
    BY <2>1, <2>2, <1>2, BeginStartsWalk
  <2> QED
    BY <1>3, <2>3 DEF AskReachable, IInv, Types, Untouched, FromProduction, WhileLive, Judged, BlastSoFar
<1>4. CASE AskDescendants
  <2>1. PICK n \in Asked, skip \in BOOLEAN : Begin({n}, Followed(graph, skip))
    BY <1>4 DEF AskDescendants
  <2>2. {n} \in SUBSET Node
    BY GraphAssumption
  <2>3. WalkInv'
    BY <2>1, <2>2, <1>2, BeginStartsWalk
  <2> QED
    BY <1>4, <2>3 DEF AskDescendants, IInv, Types, Untouched, FromProduction, WhileLive, Judged, BlastSoFar
<1>5. CASE AskAncestors
  <2>1. PICK n \in Asked, skip \in BOOLEAN : Begin({n}, Reverse(Followed(graph, skip)))
    BY <1>5 DEF AskAncestors
  <2>2. {n} \in SUBSET Node
    BY GraphAssumption
  <2>3. WalkInv'
    BY <2>1, <2>2, <1>2, BeginStartsWalk
  <2> QED
    BY <1>5, <2>3 DEF AskAncestors, IInv, Types, Untouched, FromProduction, WhileLive, Judged, BlastSoFar
<1>6. CASE WalkOn
  <2>1. PICK i \in walk.stack : Visit(i)
    BY <1>6 DEF WalkOn
  <2>2. WalkInv'
    BY <2>1, VisitKeepsWalk DEF IInv
  <2>3. walk'.roots = walk.roots /\ walk'.edges = walk.edges
    BY <2>1 DEF Visit, IInv, WalkInv, Walks
  <2>4. UNCHANGED <<graph, at, testVars>>
    BY <1>6 DEF WalkOn
  <2>5. Types' /\ Untouched'
    BY <2>4 DEF IInv, Types, Untouched
  <2>6. FromProduction' /\ BlastSoFar'
    BY <2>3, <2>4 DEF IInv, FromProduction, BlastSoFar
  <2>7. WhileLive' /\ Judged'
    BY <2>4 DEF IInv, WhileLive, Sound, Complete, Touches, Judged
  <2> QED
    BY <2>2, <2>5, <2>6, <2>7 DEF IInv
<1>7. CASE Answer
  <2>1. UNCHANGED <<graph, walk, testVars>> /\ at = "query" /\ at' = "answered"
    BY <1>7 DEF Answer
  <2>2. WalkInv'
    BY <2>1 DEF IInv, WalkInv, Walks
  <2> QED
    BY <2>1, <2>2 DEF IInv, Types, Untouched, FromProduction, WhileLive, Judged, BlastSoFar
<1> QED
  BY <1>3, <1>4, <1>5, <1>6, <1>7 DEF WalkNext

LEMMA AskDeadTestsKeeps ==
  ASSUME IInv, AskDeadTests
  PROVE  IInv'
<1>1. PICK mask \in SeedFlags : seeds' = Seeds(graph, mask)
  BY DEF AskDeadTests
<1>2. seeds' \in SUBSET Node /\ ProductionSeeds(graph, seeds') \in SUBSET Node
  BY <1>1 DEF Seeds, ProductionSeeds
<1>3. Begin(ProductionSeeds(graph, seeds'), Edges(graph))
  BY DEF AskDeadTests
<1>4. WalkInv'
  BY <1>2, <1>3, GraphFacts, BeginStartsWalk DEF IInv
<1>5. walk'.roots = ProductionSeeds(graph, seeds') /\ walk'.edges = Edges(graph)
  BY <1>3 DEF Begin
<1> QED
  BY <1>2, <1>4, <1>5 DEF AskDeadTests, IInv, Types, Untouched, FromProduction, WhileLive, Judged, BlastSoFar

(* What production reaches is live code, and uses itself.                   *)
LEMMA ProductionWalkedKeeps ==
  ASSUME IInv, ProductionWalked
  PROVE  IInv'
<1>1. /\ UNCHANGED <<graph, walk, seeds, live, exercised, forward, dead, full, blast>>
      /\ at = "production" /\ at' = "live"
      /\ pending' = walk.visited \cap Code(graph)
  BY DEF ProductionWalked
<1>2. walk.visited = Closure(ProductionSeeds(graph, seeds), Edges(graph))
  BY WalkInvGivesClosure DEF ProductionWalked, IInv, FromProduction, WalkReturnsClosure
<1>3. pending' = Production(graph, seeds)
  BY <1>1, <1>2 DEF Production
<1>4. pending' \in SUBSET Node /\ pending' \subseteq LiveCode(graph, seeds)
  BY <1>1, <1>3, GraphFacts, LiveCodeFacts DEF IInv
<1>5. live = {} /\ exercised = {} /\ forward = {}
  BY <1>1 DEF IInv, Untouched
<1>6. \A n \in pending' : Touches(n)
  BY <1>4, GraphFacts, UsesFacts DEF Touches, IInv
<1>7. Sound'
  BY <1>1, <1>5, <1>6 DEF Sound, Touches
<1>8. Complete'
  BY <1>1, <1>3, <1>5 DEF Complete
<1>9. WalkInv'
  BY <1>1 DEF IInv, WalkInv, Walks
<1> QED
  BY <1>1, <1>4, <1>7, <1>8, <1>9 DEF IInv, Types, Untouched, FromProduction, WhileLive, Judged, BlastSoFar

(* Backwards: what uses something live is live.                             *)
LEMMA TouchLiveKeeps ==
  ASSUME IInv, TouchLive
  PROVE  IInv'
<1>1. PICK i \in pending : Touch(i)
  BY DEF TouchLive
<1>2. /\ UNCHANGED <<graph, at, walk, seeds, exercised, dead, full, blast>>
      /\ at = "live" /\ forward = {}
  BY DEF TouchLive
<1>3. /\ live' = live \cup {i}
      /\ pending' = (pending \cup Targets(i, Reverse(Uses(graph)))) \ live'
      /\ forward' = (IF i \in Tests(graph) THEN {i} ELSE {}) \ exercised
  BY <1>1 DEF Touch
<1>4. Sound /\ Complete
  BY <1>2 DEF IInv, WhileLive
<1>5. /\ Uses(graph) \in SUBSET (Node \X Node) /\ IsGraph(graph)
      /\ i \in Node
  BY GraphFacts DEF IInv, Types
<1>6. \A e \in Uses(graph) : e[2] = i => e[1] \in Targets(i, Reverse(Uses(graph)))
  <2> TAKE e \in Uses(graph)
  <2> HAVE e[2] = i
  <2>1. <<e[2], e[1]>> \in Reverse(Uses(graph))
    BY DEF Reverse
  <2>2. <<e[2], e[1]>>[1] = i /\ <<e[2], e[1]>>[2] = e[1]
    OBVIOUS
  <2> QED
    BY <2>1, <2>2 DEF Targets
<1>7. \A p \in Targets(i, Reverse(Uses(graph))) : p \in Node /\ \E e \in Uses(graph) : e[1] = p /\ e[2] = i
  BY <1>5 DEF Targets, Reverse
<1>8. Types'
  BY <1>2, <1>3, <1>5, <1>7 DEF IInv, Types
<1>9. Sound'
  <2>1. Touches(i)
    BY <1>4 DEF Sound
  <2>2. \A p \in Targets(i, Reverse(Uses(graph))) : Touches(p)
    BY <1>5, <1>7, <2>1, UsesFacts DEF Touches
  <2>3. \A n \in live' \cup pending' : Touches(n)'
    BY <1>2, <1>3, <1>4, <2>1, <2>2 DEF Sound, Touches
  <2>4. \A n \in exercised : \E t \in live' \cap Tests(graph) : n \in UsedBy(graph, t)
    BY <1>3, <1>4 DEF Sound
  <2>5. \A n \in forward' : \E t \in live' \cap Tests(graph) : n \in UsedBy(graph, t)
    BY <1>3, <1>5, UsesFacts
  <2> QED
    BY <1>2, <2>3, <2>4, <2>5 DEF Sound
<1>10. Complete'
  <2>1. Production(graph, seeds) \subseteq live' \cup pending'
    BY <1>3, <1>4 DEF Complete
  <2>2. \A e \in Uses(graph) : e[2] \in live' => e[1] \in live' \cup pending'
    BY <1>3, <1>4, <1>6 DEF Complete
  <2>3. live' \cap Tests(graph) \subseteq exercised \cup forward'
    BY <1>2, <1>3, <1>4 DEF Complete
  <2>4. \A e \in Uses(graph) : e[1] \in exercised => e[2] \in exercised \cup forward'
    BY <1>2, <1>4 DEF Complete
  <2>5. exercised \cap Code(graph) \subseteq live' \cup pending'
    BY <1>3, <1>4 DEF Complete
  <2> QED
    BY <1>2, <2>1, <2>2, <2>3, <2>4, <2>5 DEF Complete
<1>11. WalkInv'
  BY <1>2 DEF IInv, WalkInv, Walks
<1> QED
  BY <1>2, <1>8, <1>9, <1>10, <1>11 DEF IInv, Untouched, FromProduction, WhileLive, Judged, BlastSoFar

(* Forwards: the code a live test uses is live.                             *)
LEMMA ExerciseLiveKeeps ==
  ASSUME IInv, ExerciseLive
  PROVE  IInv'
<1>1. PICK i \in forward : Exercise(i)
  BY DEF ExerciseLive
<1>2. /\ UNCHANGED <<graph, at, walk, seeds, live, dead, full, blast>>
      /\ at = "live"
  BY DEF ExerciseLive
<1>3. /\ exercised' = exercised \cup {i}
      /\ forward' = (forward \cup Targets(i, Uses(graph))) \ exercised'
      /\ pending' = pending \cup (({i} \cap Code(graph)) \ live)
  BY <1>1 DEF Exercise
<1>4. Sound /\ Complete
  BY <1>2 DEF IInv, WhileLive
<1>5. /\ Uses(graph) \in SUBSET (Node \X Node) /\ IsGraph(graph)
      /\ i \in Node
  BY GraphFacts DEF IInv, Types
<1>6. /\ \A e \in Uses(graph) : e[1] = i => e[2] \in Targets(i, Uses(graph))
      /\ \A p \in Targets(i, Uses(graph)) : p \in Node /\ \E e \in Uses(graph) : e[1] = i /\ e[2] = p
  BY <1>5 DEF Targets
<1>7. Types'
  BY <1>2, <1>3, <1>5, <1>6 DEF IInv, Types
<1>8. PICK t \in live \cap Tests(graph) : i \in UsedBy(graph, t)
  BY <1>4 DEF Sound
<1>9. t \in Node
  BY GraphFacts DEF IInv
<1>10. Sound'
  <2>1. Touches(t)
    BY <1>4, <1>8 DEF Sound
  <2>2. UsedBy(graph, t) \cap Code(graph) \subseteq LiveCode(graph, seeds)
    BY <2>1, <1>8, LiveCodeFacts DEF Touches
  <2>3. i \in Code(graph) => Touches(i)
    BY <2>2, <1>5, <1>8, UsesFacts DEF Touches
  <2>4. \A n \in live' \cup pending' : Touches(n)'
    BY <1>2, <1>3, <1>4, <2>3 DEF Sound, Touches
  <2>5. Targets(i, Uses(graph)) \subseteq UsedBy(graph, t)
    BY <1>5, <1>6, <1>8, <1>9, UsesFacts DEF Closed
  <2>6. \A n \in forward' \cup exercised' : \E u \in live \cap Tests(graph) : n \in UsedBy(graph, u)
    BY <1>3, <1>4, <1>8, <2>5 DEF Sound
  <2> QED
    BY <1>2, <2>4, <2>6 DEF Sound
<1>11. Complete'
  <2>1. Production(graph, seeds) \subseteq live \cup pending'
    BY <1>3, <1>4 DEF Complete
  <2>2. \A e \in Uses(graph) : e[2] \in live => e[1] \in live \cup pending'
    BY <1>3, <1>4 DEF Complete
  <2>3. live \cap Tests(graph) \subseteq exercised' \cup forward'
    BY <1>3, <1>4 DEF Complete
  <2>4. \A e \in Uses(graph) : e[1] \in exercised' => e[2] \in exercised' \cup forward'
    BY <1>3, <1>4, <1>6 DEF Complete
  <2>5. exercised' \cap Code(graph) \subseteq live \cup pending'
    BY <1>3, <1>4 DEF Complete
  <2> QED
    BY <1>2, <2>1, <2>2, <2>3, <2>4, <2>5 DEF Complete
<1>12. WalkInv'
  BY <1>2 DEF IInv, WalkInv, Walks
<1> QED
  BY <1>2, <1>7, <1>10, <1>11, <1>12 DEF IInv, Untouched, FromProduction, WhileLive, Judged, BlastSoFar

(* When nothing is pending, a test was met if and only if it is live.       *)
LEMMA NothingPendingDecides ==
  ASSUME Types, Sound, Complete, pending = {}, forward = {}
  PROVE  Tests(graph) \cap live = LiveTests(graph, seeds)
<1> DEFINE met == live \cap Code(graph)
           LC == LiveCode(graph, seeds)
<1>1. /\ IsGraph(graph) /\ Uses(graph) \in SUBSET (Node \X Node)
      /\ Tests(graph) \in SUBSET Node /\ Code(graph) \in SUBSET Node
      /\ live \in SUBSET Node /\ exercised \in SUBSET Node
  BY GraphFacts DEF Types
<1>2. ASSUME NEW t \in Tests(graph), UsedBy(graph, t) \cap live # {}
      PROVE  t \in live
  <2> DEFINE S == Node \ live
  <2>1. Closed(S, Uses(graph))
    BY <1>1 DEF Complete, Closed
  <2>2. S \in SUBSET Node /\ t \in Node
    BY <1>1
  <2>3. t \in S => UsedBy(graph, t) \subseteq S
    BY <1>1, <2>1, <2>2, UsesFacts
  <2> QED
    BY <1>2, <2>2, <2>3
<1>3. ASSUME NEW t \in Tests(graph), UsedBy(graph, t) \cap met # {}
      PROVE  UsedBy(graph, t) \cap Code(graph) \subseteq met
  <2>1. t \in exercised
    BY <1>2, <1>3 DEF Complete
  <2>2. Closed(exercised, Uses(graph))
    BY DEF Complete, Closed
  <2>3. UsedBy(graph, t) \subseteq exercised
    BY <1>1, <2>1, <2>2, UsesFacts
  <2> QED
    BY <2>3 DEF Complete
<1>4. Production(graph, seeds) \subseteq met
  BY DEF Complete, Production
<1>5. LC \subseteq met
  <2>1. met \in SUBSET Code(graph)
    OBVIOUS
  <2> HIDE DEF met
  <2> QED
    BY <2>1, <1>3, <1>4, LiveCodeFacts
<1>6. LiveTests(graph, seeds) = {t \in Tests(graph) : UsedBy(graph, t) \cap LC # {}}
  BY LiveCodeFacts
<1>7. \A t \in Tests(graph) \cap live : UsedBy(graph, t) \cap LC # {}
  BY DEF Sound, Touches
<1>8. \A t \in Tests(graph) : UsedBy(graph, t) \cap LC # {} => t \in live
  BY <1>2, <1>5
<1> QED
  BY <1>6, <1>7, <1>8

LEMMA JudgeKeeps ==
  ASSUME IInv, Judge
  PROVE  IInv'
<1>1. /\ UNCHANGED <<graph, seeds, live, pending, exercised, forward, full, blast>>
      /\ at = "live" /\ pending = {} /\ forward = {}
      /\ dead' = Tests(graph) \ live
  BY DEF Judge
<1>2. Sound /\ Complete
  BY <1>1 DEF IInv, WhileLive
<1>3. Tests(graph) \cap live = LiveTests(graph, seeds)
  BY <1>1, <1>2, NothingPendingDecides DEF IInv
<1>4. dead' = Tests(graph) \ LiveTests(graph, seeds) /\ dead' \in SUBSET Node
  BY <1>1, <1>3, GraphFacts DEF IInv
<1>5. Judged'
  BY <1>1, <1>4 DEF Judged
<1>6. CASE dead' = {} /\ at' = "judged" /\ UNCHANGED walk
  <2>1. blast = {} /\ seeds \ dead' = seeds
    BY <1>1, <1>6 DEF IInv, BlastSoFar
  <2>2. BlastSoFar'
    BY <1>1, <1>6, <2>1 DEF BlastSoFar
  <2>3. WalkInv'
    BY <1>6 DEF IInv, WalkInv, Walks
  <2> QED
    BY <1>1, <1>4, <1>5, <1>6, <2>2, <2>3 DEF IInv, Types, Untouched, FromProduction, WhileLive
<1>7. CASE dead' # {} /\ at' = "full" /\ Begin(seeds, Edges(graph))
  <2>1. WalkInv'
    BY <1>7, GraphFacts, BeginStartsWalk DEF IInv, Types
  <2>2. walk'.roots = seeds /\ walk'.edges = Edges(graph)
    BY <1>7 DEF Begin
  <2>3. BlastSoFar'
    BY <1>1, <1>7, <2>2 DEF IInv, BlastSoFar
  <2> QED
    BY <1>1, <1>4, <1>5, <1>7, <2>1, <2>3 DEF IInv, Types, Untouched, FromProduction, WhileLive
<1> QED
  BY <1>6, <1>7 DEF Judge

LEMMA FullWalkedKeeps ==
  ASSUME IInv, FullWalked
  PROVE  IInv'
<1>1. /\ UNCHANGED <<graph, seeds, live, pending, exercised, forward, dead, blast>>
      /\ at = "full" /\ at' = "kept" /\ full' = walk.visited
      /\ Begin(seeds \ dead, Edges(graph))
  BY DEF FullWalked
<1>2. full' = Closure(seeds, Edges(graph))
  BY <1>1, WalkInvGivesClosure DEF FullWalked, IInv, BlastSoFar, WalkReturnsClosure
<1>3. seeds \ dead \in SUBSET Node
  BY DEF IInv, Types
<1>4. WalkInv'
  BY <1>1, <1>3, GraphFacts, BeginStartsWalk DEF IInv
<1>5. walk'.roots = seeds \ dead /\ walk'.edges = Edges(graph)
  BY <1>1 DEF Begin
<1>6. BlastSoFar'
  BY <1>1, <1>2, <1>5 DEF IInv, BlastSoFar
<1> QED
  BY <1>1, <1>4, <1>6 DEF IInv, Types, Untouched, FromProduction, WhileLive, Judged

LEMMA KeptWalkedKeeps ==
  ASSUME IInv, KeptWalked
  PROVE  IInv'
<1>1. /\ UNCHANGED <<graph, walk, seeds, live, pending, exercised, forward, dead, full>>
      /\ at = "kept" /\ at' = "judged" /\ blast' = full \ walk.visited
  BY DEF KeptWalked
<1>2. walk.visited = Closure(seeds \ dead, Edges(graph))
  BY <1>1, WalkInvGivesClosure DEF KeptWalked, IInv, BlastSoFar, WalkReturnsClosure
<1>3. BlastSoFar'
  BY <1>1, <1>2 DEF IInv, BlastSoFar
<1>4. WalkInv'
  BY <1>1 DEF IInv, WalkInv, Walks
<1> QED
  BY <1>1, <1>3, <1>4 DEF IInv, Types, Untouched, FromProduction, WhileLive, Judged

LEMMA NextKeeps == IInv /\ [Next]_vars => IInv'
<1> SUFFICES ASSUME IInv, [Next]_vars PROVE IInv'
  OBVIOUS
<1>1. CASE TestSteps
  BY <1>1, AskDeadTestsKeeps, ProductionWalkedKeeps, TouchLiveKeeps, ExerciseLiveKeeps,
     JudgeKeeps, FullWalkedKeeps, KeptWalkedKeeps DEF TestSteps
<1>2. CASE UNCHANGED vars
  <2>1. UNCHANGED <<graph, at, walk, seeds, live, pending, exercised, forward, dead, full, blast>>
    BY <1>2 DEF vars, walkVars, testVars
  <2>2. WalkInv' /\ Types' /\ Untouched' /\ FromProduction'
    BY <2>1 DEF IInv, WalkInv, Walks, Types, Untouched, FromProduction
  <2>3. WhileLive' /\ Judged' /\ BlastSoFar'
    BY <2>1 DEF IInv, WhileLive, Sound, Complete, Touches, Judged, BlastSoFar
  <2> QED
    BY <2>2, <2>3 DEF IInv
<1> QED
  BY <1>1, <1>2, QueriesKeep DEF Next

-----------------------------------------------------------------------------
(* The walks of reachable, descendants, ancestors and dead_tests all return *)
(* the closure of their roots.                                              *)
THEOREM EveryWalkReturnsClosure == Spec => []WalkReturnsClosure
<1>1. IInv => WalkReturnsClosure
  BY WalkInvGivesClosure DEF IInv
<1> QED
  BY <1>1, InitHolds, NextKeeps, PTL DEF Spec

(* dead_tests finds exactly the tests that are not live by the definition,  *)
(* on every graph and in whatever order its stacks are emptied.             *)
THEOREM DeadTestsFound == Spec => []DeadTestsAreTheFixpoint
<1>1. IInv => DeadTestsAreTheFixpoint
  BY DEF IInv, Judged, DeadTestsAreTheFixpoint
<1> QED
  BY <1>1, InitHolds, NextKeeps, PTL DEF Spec

(* Its answer is what those tests alone keep.                               *)
THEOREM BlastComputed == Spec => []BlastIsTheirsAlone
<1>1. IInv => BlastIsTheirsAlone
  BY DEF IInv, Judged, BlastSoFar, BlastIsTheirsAlone
<1> QED
  BY <1>1, InitHolds, NextKeeps, PTL DEF Spec

-----------------------------------------------------------------------------
(* The graph without the blast radius.                                     *)

Among(E, S) == {e \in E : e[1] \notin S /\ e[2] \notin S}
Unnamed(flags, S) == [n \in Node |-> IF n \in S THEN {} ELSE flags[n]]

(* dead_tests removed: the edges and the flags of what is gone.             *)
LEMMA WithoutFields ==
  ASSUME NEW g, IsGraph(g), NEW S
  PROVE  /\ IsGraph(Without(g, S))
         /\ Without(g, S).kind = g.kind
         /\ Without(g, S).flags = Unnamed(g.flags, S)
         /\ Without(g, S).edges = Among(g.edges, S)
<1> DEFINE left == Among(g.edges, S)
           named == Unnamed(g.flags, S)
<1>1. g \in [kind  : [Node -> Kind],
             flags : [Node -> SUBSET Flag],
             edges : SUBSET (Node \X Node \X BOOLEAN)]
  BY DEF IsGraph
<1>2. Without(g, S) = [kind |-> g.kind, flags |-> named, edges |-> left]
  <2>1. Without(g, S) = [g EXCEPT !.edges = left, !.flags = named]
    BY <1>1 DEF Without, Among, Unnamed
  <2> HIDE DEF left, named
  <2> QED
    BY <1>1, <2>1
<1>3. named \in [Node -> SUBSET Flag] /\ left \in SUBSET (Node \X Node \X BOOLEAN)
  BY <1>1 DEF Among, Unnamed
<1> HIDE DEF left, named
<1> QED
  BY <1>1, <1>2, <1>3 DEF IsGraph, left, named

LEMMA WithoutFacts ==
  ASSUME NEW g, IsGraph(g), NEW S
  PROVE  /\ IsGraph(Without(g, S))
         /\ Tests(Without(g, S)) = Tests(g) \ S
         /\ Code(Without(g, S)) = Code(g)
         /\ Edges(Without(g, S)) = Among(Edges(g), S)
         /\ Uses(Without(g, S)) = Among(Uses(g), S)
<1>1. IsGraph(Without(g, S))
  BY WithoutFields
<1>2. Without(g, S).kind = g.kind
  BY WithoutFields
<1>3. Without(g, S).flags = Unnamed(g.flags, S)
  BY WithoutFields
<1>4. Without(g, S).edges = Among(g.edges, S)
  BY WithoutFields
<1>5. Tests(Without(g, S)) = Tests(g) \ S
  BY <1>3 DEF Tests, Unnamed
<1>6. Code(Without(g, S)) = Code(g)
  BY <1>2 DEF Code
<1>7. Edges(Without(g, S)) = Among(Edges(g), S)
  BY <1>4 DEF Edges, Followed, Among
<1>8. Uses(Without(g, S)) = Among(Uses(g), S)
  BY <1>2, <1>7 DEF Uses, Among
<1> QED
  BY <1>1, <1>5, <1>6, <1>7, <1>8

(* A seed that is left is production's if it was.                           *)
LEMMA WithoutSeeds ==
  ASSUME NEW g, IsGraph(g), NEW S, NEW s \in SUBSET Node
  PROVE  ProductionSeeds(Without(g, S), s \ S) = ProductionSeeds(g, s) \ S
<1>1. Without(g, S).flags = Unnamed(g.flags, S)
  BY WithoutFields
<1> QED
  BY <1>1 DEF ProductionSeeds, Unnamed

(* What is reached from a set no edge leaves is the same when all that goes *)
(* is out of that set.                                                      *)
LEMMA ClosureInside ==
  ASSUME NEW E \in SUBSET (Node \X Node), NEW K \in SUBSET Node, Closed(K, E),
         NEW S, K \cap S = {},
         NEW roots \in SUBSET K
  PROVE  Closure(roots, Among(E, S)) = Closure(roots, E)
<1> DEFINE F == Among(E, S)
<1>1. F \in SUBSET (Node \X Node)
  BY DEF Among
<1>2. \A e \in E : e[1] \in K => e \in F
  BY DEF Closed, Among
<1>3. F \subseteq E
  BY DEF Among
<1> HIDE DEF F
<1>4. /\ Closed(Closure(roots, F), F) /\ Closure(roots, F) \in SUBSET Node
      /\ Closed(Closure(roots, E), E) /\ Closure(roots, E) \in SUBSET Node
  BY <1>1, ClosureIsClosed
<1>5. roots \subseteq Closure(roots, F) /\ roots \subseteq Closure(roots, E)
  BY ClosureHoldsRoots
<1>6. Closure(roots, F) \subseteq Closure(roots, E)
  <2>1. Closed(Closure(roots, E), F)
    BY <1>3, <1>4 DEF Closed
  <2> QED
    BY <2>1, <1>4, <1>5, ClosureIsLeast
<1>7. Closure(roots, F) \subseteq K
  <2>1. Closed(K, F)
    BY <1>3 DEF Closed
  <2> QED
    BY <2>1, ClosureIsLeast
<1>8. Closed(Closure(roots, F), E)
  BY <1>2, <1>4, <1>7 DEF Closed
<1>9. Closure(roots, E) \subseteq Closure(roots, F)
  BY <1>4, <1>5, <1>8, ClosureIsLeast
<1> QED
  BY <1>6, <1>9 DEF F

(* More roots reach more.                                                   *)
LEMMA ClosureGrows ==
  ASSUME NEW E \in SUBSET (Node \X Node), NEW R \in SUBSET Node, NEW Q \in SUBSET R
  PROVE  Closure(Q, E) \subseteq Closure(R, E)
<1>1. Closed(Closure(R, E), E) /\ Closure(R, E) \in SUBSET Node /\ R \subseteq Closure(R, E)
  BY ClosureIsClosed, ClosureHoldsRoots
<1> QED
  BY <1>1, ClosureIsLeast

(* What RemovalLosesNothing says of an answer.                              *)
NothingLost(g, s, B) ==
  LET rest == Without(g, B)
      left == s \ B
  IN  /\ LiveCode(rest, left) = LiveCode(g, s)
      /\ LiveTests(rest, left) = LiveTests(g, s)
      /\ Closure(left, Edges(rest))
           = Closure(left \ (Tests(rest) \ LiveTests(rest, left)), Edges(rest))

(* No dead test is a seed: nothing goes.                                    *)
LEMMA RemovingNothing ==
  ASSUME NEW g, IsGraph(g), NEW s \in SUBSET Node,
         s \ (Tests(g) \ LiveTests(g, s)) = s
  PROVE  NothingLost(g, s, {})
<1> DEFINE rest == Without(g, {})
<1>1. /\ Tests(rest) = Tests(g) /\ Code(rest) = Code(g)
      /\ Edges(rest) = Edges(g) /\ Uses(rest) = Uses(g)
      /\ ProductionSeeds(rest, s) = ProductionSeeds(g, s)
  <2>1. /\ s \ {} = s /\ ProductionSeeds(g, s) \ {} = ProductionSeeds(g, s)
        /\ Tests(g) \ {} = Tests(g)
        /\ Among(Edges(g), {}) = Edges(g) /\ Among(Uses(g), {}) = Uses(g)
    BY DEF Among
  <2>2. /\ Tests(rest) = Tests(g) \ {} /\ Code(rest) = Code(g)
        /\ Edges(rest) = Among(Edges(g), {}) /\ Uses(rest) = Among(Uses(g), {})
    BY WithoutFacts
  <2>3. ProductionSeeds(rest, s \ {}) = ProductionSeeds(g, s) \ {}
    BY WithoutSeeds
  <2> HIDE DEF rest
  <2> QED
    BY <2>1, <2>2, <2>3
<1>2. s \ {} = s
  OBVIOUS
<1> HIDE DEF rest
<1>3. Production(rest, s) = Production(g, s) /\ Used(rest) = Used(g)
  BY <1>1 DEF Production, Used
<1>4. LiveCode(rest, s) = LiveCode(g, s)
  BY <1>1, <1>3 DEF LiveCode
<1>5. LiveTests(rest, s) = LiveTests(g, s)
  BY <1>1, <1>3, <1>4 DEF LiveTests
<1>6. NothingLost(g, s, {}) <=>
        /\ LiveCode(rest, s) = LiveCode(g, s)
        /\ LiveTests(rest, s) = LiveTests(g, s)
        /\ Closure(s, Edges(rest))
             = Closure(s \ (Tests(rest) \ LiveTests(rest, s)), Edges(rest))
  BY <1>2 DEF NothingLost, rest
<1> QED
  BY <1>1, <1>4, <1>5, <1>6

(* Live tests are seeds: they and the code they and production use are      *)
(* reached by the seeds that stay, so all of it is in a set that no edge    *)
(* leaves, and none of it goes.  Live code, the least settled set before,   *)
(* is settled after, and the other way round.                               *)
LEMMA RemovingDeadTests ==
  ASSUME NEW g, IsGraph(g), NEW s \in SUBSET Node, LiveTests(g, s) \subseteq s,
         NEW B,
         B = Closure(s, Edges(g)) \ Closure(s \ (Tests(g) \ LiveTests(g, s)), Edges(g))
  PROVE  NothingLost(g, s, B)
<1> DEFINE D == Tests(g) \ LiveTests(g, s)
           K == Closure(s \ D, Edges(g))
           F == Closure(s, Edges(g))
           LC == LiveCode(g, s)
           rest == Without(g, B)
           left == s \ B
           LCr == LiveCode(rest, left)
<1>1. /\ Edges(g) \in SUBSET (Node \X Node) /\ Uses(g) \in SUBSET (Node \X Node)
      /\ Tests(g) \in SUBSET Node /\ Code(g) \in SUBSET Node
      /\ Uses(g) \subseteq Edges(g)
  BY UsesJoinNodes DEF Uses
<1>2. /\ K \in SUBSET Node /\ Closed(K, Edges(g)) /\ s \ D \subseteq K
      /\ F \in SUBSET Node /\ s \subseteq F
      /\ B = F \ K
  BY <1>1, ClosureIsClosed, ClosureHoldsRoots
<1>3. Closed(K, Uses(g))
  BY <1>1, <1>2 DEF Closed
<1>4. LiveTests(g, s) \subseteq K /\ LiveTests(g, s) \subseteq Tests(g)
  BY <1>2 DEF LiveTests
<1>5. ProductionSeeds(g, s) \subseteq s \ D
  BY DEF ProductionSeeds, Tests, TestFlags
<1>6. left \subseteq K /\ s \ D \subseteq left
  BY <1>2
<1>7. /\ IsGraph(rest)
      /\ Tests(rest) = Tests(g) \ B /\ Code(rest) = Code(g)
      /\ Edges(rest) = Among(Edges(g), B) /\ Uses(rest) = Among(Uses(g), B)
  BY WithoutFacts
<1>8. ProductionSeeds(rest, left) = ProductionSeeds(g, s)
  <2>1. ProductionSeeds(rest, left) = ProductionSeeds(g, s) \ B
    BY WithoutSeeds
  <2> QED
    BY <2>1, <1>2, <1>5
<1>9. /\ Edges(rest) \in SUBSET (Node \X Node) /\ Uses(rest) \in SUBSET (Node \X Node)
  BY <1>7, UsesJoinNodes
<1>10. /\ LiveTests(g, s) = {t \in Tests(g) : UsedBy(g, t) \cap LC # {}}
       /\ LiveTests(rest, left) = {t \in Tests(rest) : UsedBy(rest, t) \cap LCr # {}}
  BY LiveCodeFacts
<1> HIDE DEF D, K, F, LC, rest, left, LCr
<1>11. \A R \in SUBSET K : /\ Closure(R, Edges(rest)) = Closure(R, Edges(g))
                           /\ Closure(R, Uses(rest)) = Closure(R, Uses(g))
  <2> TAKE R \in SUBSET K
  <2>1. K \cap B = {}
    BY <1>2
  <2>2. Closure(R, Edges(rest)) = Closure(R, Edges(g))
    BY <2>1, <1>1, <1>2, <1>7, ClosureInside
  <2>3. Closure(R, Uses(rest)) = Closure(R, Uses(g))
    BY <2>1, <1>1, <1>2, <1>3, <1>7, ClosureInside
  <2> QED
    BY <2>2, <2>3
<1>12. Production(rest, left) = Production(g, s)
  <2>1. ProductionSeeds(g, s) \in SUBSET K
    BY <1>2, <1>5
  <2> QED
    BY <2>1, <1>7, <1>8, <1>11 DEF Production
<1>13. \A t \in K : UsedBy(rest, t) = UsedBy(g, t) /\ UsedBy(g, t) \subseteq K
  <2> TAKE t \in K
  <2>1. {t} \in SUBSET K /\ t \in Node
    BY <1>2
  <2> QED
    BY <2>1, <1>2, <1>3, <1>11, UsesFacts DEF UsedBy
<1>14. \A t \in Node : UsedBy(rest, t) \subseteq UsedBy(g, t)
  <2> TAKE t \in Node
  <2>1. t \in UsedBy(g, t) /\ UsedBy(g, t) \in SUBSET Node /\ Closed(UsedBy(g, t), Uses(g))
    BY UsesFacts
  <2>2. Closed(UsedBy(g, t), Uses(rest))
    BY <2>1, <1>7 DEF Closed, Among
  <2> QED
    BY <2>1, <2>2, <1>7, UsesFacts
<1>15. LCr \subseteq LC
  <2>1. LC \in SUBSET Code(rest) /\ Production(rest, left) \subseteq LC
    BY <1>7, <1>12, LiveCodeFacts DEF LC
  <2>2. \A t \in Tests(rest) :
          UsedBy(rest, t) \cap LC # {} => UsedBy(rest, t) \cap Code(rest) \subseteq LC
    <3> TAKE t \in Tests(rest)
    <3> HAVE UsedBy(rest, t) \cap LC # {}
    <3>1. t \in Tests(g) /\ t \in Node
      BY <1>1, <1>7
    <3>2. UsedBy(g, t) \cap LC # {}
      BY <3>1, <1>14
    <3>3. UsedBy(g, t) \cap Code(g) \subseteq LC
      BY <3>1, <3>2, LiveCodeFacts DEF LC
    <3> QED
      BY <3>1, <3>3, <1>7, <1>14
  <2> QED
    BY <2>1, <2>2, LiveCodeFacts DEF LCr
<1>16. LC \subseteq LCr
  <2>1. LCr \in SUBSET Code(g) /\ Production(g, s) \subseteq LCr
    BY <1>7, <1>12, LiveCodeFacts DEF LCr
  <2>2. \A t \in Tests(g) :
          UsedBy(g, t) \cap LCr # {} => UsedBy(g, t) \cap Code(g) \subseteq LCr
    <3> TAKE t \in Tests(g)
    <3> HAVE UsedBy(g, t) \cap LCr # {}
    <3>1. t \in LiveTests(g, s)
      BY <1>10, <1>15
    <3>2. t \in K /\ t \in Tests(rest)
      BY <3>1, <1>2, <1>4, <1>7
    <3>3. UsedBy(rest, t) = UsedBy(g, t)
      BY <3>2, <1>13
    <3>4. UsedBy(rest, t) \cap Code(rest) \subseteq LCr
      BY <3>2, <3>3, LiveCodeFacts DEF LCr
    <3> QED
      BY <3>3, <3>4, <1>7
  <2> QED
    BY <2>1, <2>2, LiveCodeFacts DEF LC
<1>17. LCr = LC
  BY <1>15, <1>16
<1>18. LiveTests(rest, left) = LiveTests(g, s)
  <2>1. ASSUME NEW t \in LiveTests(rest, left) PROVE t \in LiveTests(g, s)
    <3>1. t \in Tests(g) /\ t \in Node /\ UsedBy(rest, t) \cap LC # {}
      BY <1>1, <1>7, <1>10, <1>17
    <3> QED
      BY <3>1, <1>10, <1>14
  <2>2. ASSUME NEW t \in LiveTests(g, s) PROVE t \in LiveTests(rest, left)
    <3>1. t \in K /\ t \in Tests(rest)
      BY <1>2, <1>4, <1>7
    <3> QED
      BY <3>1, <1>10, <1>13, <1>17
  <2> QED
    BY <2>1, <2>2
<1>19. Closure(left, Edges(rest))
         = Closure(left \ (Tests(rest) \ LiveTests(rest, left)), Edges(rest))
  <2> DEFINE some == left \ (Tests(rest) \ LiveTests(rest, left))
  <2>1. left \in SUBSET Node /\ some \in SUBSET left /\ some \in SUBSET Node
    BY <1>2, <1>6
  <2>2. s \ D \subseteq some
    BY <1>6, <1>7, <1>18 DEF D
  <2> HIDE DEF some
  <2>3. Closure(s \ D, Edges(rest)) = K
    BY <1>2, <1>11 DEF K
  <2>4. K \subseteq Closure(some, Edges(rest))
    BY <2>1, <2>2, <2>3, <1>9, ClosureGrows
  <2>5. Closed(Closure(some, Edges(rest)), Edges(rest)) /\ Closure(some, Edges(rest)) \in SUBSET Node
    BY <1>9, ClosureIsClosed
  <2>6. Closure(left, Edges(rest)) \subseteq Closure(some, Edges(rest))
    BY <2>4, <2>5, <1>6, ClosureIsLeast
  <2>7. Closure(some, Edges(rest)) \subseteq Closure(left, Edges(rest))
    BY <2>1, <1>9, ClosureGrows
  <2> QED
    BY <2>6, <2>7 DEF some
<1> QED
  BY <1>17, <1>18, <1>19 DEF NothingLost, LC, LCr, rest, left

-----------------------------------------------------------------------------
(* The docstring's claim: when the dead tests and what they alone keep are  *)
(* removed, the same code and the same tests are alive, and no test that is *)
(* left is dead but kept nothing alive, provided no dead test was a seed or *)
(* every live one was.                                                      *)
THEOREM RemovalIsSafe == Spec => []RemovalLosesNothing
<1>1. IInv => RemovalLosesNothing
  <2> SUFFICES ASSUME IInv, at = "judged", TestsAreSeeds
               PROVE  NothingLost(graph, seeds, blast)
    BY DEF RemovalLosesNothing, NothingLost
  <2>1. /\ IsGraph(graph) /\ seeds \in SUBSET Node
        /\ blast = Closure(seeds, Edges(graph))
                     \ Closure(seeds \ (Tests(graph) \ LiveTests(graph, seeds)), Edges(graph))
    BY GraphFacts DEF IInv, Types, Judged, BlastSoFar
  <2>2. CASE Tests(graph) \cap seeds \subseteq LiveTests(graph, seeds)
    <3>1. seeds \ (Tests(graph) \ LiveTests(graph, seeds)) = seeds
      BY <2>2
    <3>2. blast = {}
      BY <3>1, <2>1
    <3> QED
      BY <3>1, <3>2, <2>1, RemovingNothing
  <2>3. CASE LiveTests(graph, seeds) \subseteq seeds
    BY <2>1, <2>3, RemovingDeadTests
  <2> QED
    BY <2>2, <2>3 DEF TestsAreSeeds
<1> QED
  BY <1>1, InitHolds, NextKeeps, PTL DEF Spec
=============================================================================
