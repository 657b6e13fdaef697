------------------------------- MODULE DeadTests -------------------------------
(***************************************************************************)
(* Analysis.dead_tests (src/python/dead_cst/analyze.py): which tests       *)
(* exercise nothing alive, and what they alone keep.  "Alive" is mutual:   *)
(* code is alive if production or a live test uses it, a test is alive if  *)
(* it uses live code.  _dead_test_indices computes that in one pass, a     *)
(* walk backwards from live code that turns around at every test it meets. *)
(***************************************************************************)
EXTENDS Reachability

VARIABLES
  seeds,      \* of the question
  live,       \* what touches live code
  pending,    \* the stack of the backward walk
  exercised,  \* what live tests use
  forward,    \* the stack of the walk from the test just met
  dead,       \* the dead tests
  full,       \* what all the seeds reach
  blast       \* the answer

testVars == <<seeds, live, pending, exercised, forward, dead, full, blast>>
vars == <<walkVars, testVars>>

TestFlags == {"testcase", "fixture"}
Tests(g) == {n \in Node : "testcase" \in g.flags[n]}
Code(g)  == {n \in Node : g.kind[n] = "code"}

Edges(g) == Followed(g, FALSE)

(* Importing from a module runs its body, which is not exercising it.       *)
Uses(g) == {e \in Edges(g) : g.kind[e[1]] # "module"}

ProductionSeeds(g, s) == {n \in s : g.flags[n] \cap TestFlags = {}}

-----------------------------------------------------------------------------
(* The walk of production code.                                            *)

AskDeadTests ==
  /\ at = "idle"
  /\ \E mask \in SeedFlags : seeds' = Seeds(graph, mask)
  /\ Begin(ProductionSeeds(graph, seeds'), Edges(graph))
  /\ at' = "production"
  /\ UNCHANGED <<graph, live, pending, exercised, forward, dead, full, blast>>

ProductionWalked ==
  /\ at = "production" /\ Over
  /\ pending' = walk.visited \cap Code(graph)
  /\ at' = "live"
  /\ UNCHANGED <<graph, walk, seeds, live, exercised, forward, dead, full, blast>>

-----------------------------------------------------------------------------
(* Live tests and live code.                                               *)

(* Mutant: a test is not turned around at.                                  *)
TouchOnly(i) ==
  /\ live' = live \cup {i}
  /\ pending' = (pending \cup Targets(i, Reverse(Uses(graph)))) \ live'
  /\ forward' = {}

(* Mutant: a module that uses live code is live.                            *)
TouchThroughModules(i) ==
  /\ live' = live \cup {i}
  /\ pending' = (pending \cup Targets(i, Reverse(Edges(graph)))) \ live'
  /\ forward' = (IF i \in Tests(graph) THEN {i} ELSE {}) \ exercised

(* Backwards no module is entered: forwards none is left.                   *)
Touch(i) ==
  /\ live' = live \cup {i}
  /\ pending' = (pending \cup Targets(i, Reverse(Uses(graph)))) \ live'
  /\ forward' = (IF i \in Tests(graph) THEN {i} ELSE {}) \ exercised

TouchLive ==
  /\ at = "live" /\ forward = {}
  /\ \E i \in pending : Touch(i)
  /\ UNCHANGED <<graph, at, walk, seeds, exercised, dead, full, blast>>

(* The code a live test uses joins the backward walk.                       *)
Exercise(i) ==
  /\ exercised' = exercised \cup {i}
  /\ forward' = (forward \cup Targets(i, Uses(graph))) \ exercised'
  /\ pending' = pending \cup (({i} \cap Code(graph)) \ live)

ExerciseLive ==
  /\ at = "live"
  /\ \E i \in forward : Exercise(i)
  /\ UNCHANGED <<graph, at, walk, seeds, live, dead, full, blast>>

-----------------------------------------------------------------------------
(* The blast radius.                                                       *)

Judge ==
  /\ at = "live" /\ pending = {} /\ forward = {}
  /\ dead' = Tests(graph) \ live
  /\ \/ dead' = {} /\ at' = "judged" /\ UNCHANGED walk
     \/ dead' # {} /\ at' = "full" /\ Begin(seeds, Edges(graph))
  /\ UNCHANGED <<graph, seeds, live, pending, exercised, forward, full, blast>>

(* Mutant: the seeds reached through dead tests are kept out as well.       *)
FullWalkedProductionOnly ==
  /\ at = "full" /\ Over
  /\ full' = walk.visited
  /\ Begin(ProductionSeeds(graph, seeds), Edges(graph))
  /\ at' = "kept"
  /\ UNCHANGED <<graph, seeds, live, pending, exercised, forward, dead, blast>>

FullWalked ==
  /\ at = "full" /\ Over
  /\ full' = walk.visited
  /\ Begin(seeds \ dead, Edges(graph))
  /\ at' = "kept"
  /\ UNCHANGED <<graph, seeds, live, pending, exercised, forward, dead, blast>>

KeptWalked ==
  /\ at = "kept" /\ Over
  /\ blast' = full \ walk.visited
  /\ at' = "judged"
  /\ UNCHANGED <<graph, walk, seeds, live, pending, exercised, forward, dead, full>>

-----------------------------------------------------------------------------
Init ==
  /\ WalkInit
  /\ seeds = {} /\ live = {} /\ pending = {} /\ exercised = {} /\ forward = {}
  /\ dead = {} /\ full = {} /\ blast = {}

Queries == WalkNext /\ UNCHANGED testVars

TestSteps ==
  \/ AskDeadTests \/ ProductionWalked \/ TouchLive \/ ExerciseLive
  \/ Judge \/ FullWalked \/ KeptWalked

Next == Queries \/ TestSteps

(* One thread computes the answer: it goes on until it has it.              *)
Spec == Init /\ [][Next]_vars /\ WF_vars(Next)

-----------------------------------------------------------------------------
(* Properties.                                                             *)

(* The definition of the docstring.  A set of code is settled if it holds   *)
(* what production reaches and whatever a test uses that uses some of it;   *)
(* live code is what every settled set holds.                               *)
Production(g, s) == Closure(ProductionSeeds(g, s), Edges(g)) \cap Code(g)

Used(g) == [t \in Tests(g) |-> Closure({t}, Uses(g))]

Settled(C, production, used, code) ==
  /\ production \subseteq C
  /\ \A t \in DOMAIN used : used[t] \cap C # {} => used[t] \cap code \subseteq C

LiveCode(g, s) ==
  LET production == Production(g, s)
      used == Used(g)
      code == Code(g)
  IN  {n \in code : \A C \in SUBSET code : Settled(C, production, used, code) => n \in C}

LiveTests(g, s) ==
  LET liveCode == LiveCode(g, s)
      used == Used(g)
  IN  {t \in Tests(g) : used[t] \cap liveCode # {}}

(* However the two walks interleave, the tests found dead are those that    *)
(* are not live by the definition.                                          *)
DeadTestsAreTheFixpoint ==
  at = "judged" => dead = Tests(graph) \ LiveTests(graph, seeds)

(* The answer is what the dead tests alone keep: with them out of the seeds *)
(* it is not reached, and nothing else goes.                                *)
BlastIsTheirsAlone ==
  at = "judged" =>
    blast = Closure(seeds, Edges(graph))
              \ Closure(seeds \ (Tests(graph) \ LiveTests(graph, seeds)), Edges(graph))

(* "Removing a dead test (and the code it was propping up) loses nothing a  *)
(* production entrypoint or a surviving test can observe": without the      *)
(* blast radius the same live code and the same live tests are left, and    *)
(* asking again finds nothing.                                              *)
Without(g, S) == [g EXCEPT !.edges = {e \in @ : e[1] \notin S /\ e[2] \notin S},
                           !.flags = [n \in Node |-> IF n \in S THEN {} ELSE @[n]]]

(* It takes seeds that go with the tests.  Under a mask without "testcase"  *)
(* a dead test may still be a seed by another of its flags, while a live    *)
(* test is none: then what they share goes with the dead one.               *)
TestsAreSeeds ==
  Tests(graph) \cap seeds \subseteq LiveTests(graph, seeds)
    \/ LiveTests(graph, seeds) \subseteq seeds

RemovalLosesNothing ==
  at = "judged" /\ TestsAreSeeds =>
    LET rest   == Without(graph, blast)
        left   == seeds \ blast
        deadTests == Tests(rest) \ LiveTests(rest, left)
    IN  /\ LiveCode(rest, left) = LiveCode(graph, seeds)
        /\ LiveTests(rest, left) = LiveTests(graph, seeds)
        /\ Closure(left, Edges(rest)) = Closure(left \ deadTests, Edges(rest))

(* Every question is answered, on a cyclic graph too.                       *)
QuestionsAreAnswered == (at # "idle") ~> (at \in {"answered", "judged"})
=============================================================================
