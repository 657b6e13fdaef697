----------------------------- MODULE SessionProofs -----------------------------
(***************************************************************************)
(* Proofs about one Analysis and the threads that query it, for any number *)
(* of querying threads, any plugins and any batches they may emit.         *)
(***************************************************************************)
EXTENDS Session, FlattenProofs

-----------------------------------------------------------------------------
(* The inductive invariant, part by part.                                  *)

Outputs == [version : Nat, builder : BOOLEAN, batch : Seq(Ops), landed : SUBSET {op[1] : op \in Ops}]

CallPCs == {"idle", "enter", "take", "build", "swap", "pass", "plugins", "collect",
            "apply", "applying", "failed", "applied", "persist"}

TypeInv ==
  /\ disk \in Nat /\ db \in Nat
  /\ kept \in BOOLEAN
  /\ outputs \in Outputs
  /\ gil \in {Nobody, Builder} /\ borrow \in {"none", "shared", "mut"}
  /\ lock \in [writer : BOOLEAN, queued : BOOLEAN, readers : SUBSET (Reader \cup {Builder})]
  /\ call \in [pc : CallPCs, outcome : {"none", "raised", "skipped", "rebuilt", "panic"},
               batch : Seq(Ops), next : Nat \ {0}]
  /\ results \in [Plugin -> [done : BOOLEAN, error : BOOLEAN, batch : Seq(Ops), saw : Outputs]]
  /\ query \in [Reader -> [pc : {"idle", "park", "reattach"}, left : Nat, saw : Outputs]]

(* Who holds what, by where the call is.                                    *)
Holds ==
  /\ gil = Builder <=> call.pc \in {"take", "swap", "persist"}
  /\ borrow = "mut" <=> call.pc \in {"take", "build"}
  /\ borrow = "shared" <=> \E r \in Reader : InFlight(r)
  /\ lock.writer <=> call.pc = "applying"
  /\ lock.writer => lock.readers = {}
  /\ \A r \in Reader : query[r].pc = "reattach" => r \in lock.readers

(* What the outputs hold, by where the call is.                             *)
NothingLanded == outputs.version = db /\ outputs.builder /\ outputs.batch = <<>> /\ outputs.landed = {}

Ids(ops) == {op[1] : op \in ops}
Emitted == UNION {Entries(results[p].batch) : p \in Plugin}

Pass ==
  /\ call.pc = "pass" => \A p \in Plugin : results[p] = Idle
  /\ call.pc \in {"pass", "plugins", "collect"} =>
       /\ NothingLanded
       /\ \A p \in Plugin : results[p].done => results[p].saw = outputs
  /\ \A p \in Plugin : results[p].error => outputs.landed = {}
  /\ call.pc \in {"apply", "applying", "failed", "applied", "persist"} =>
       outputs.version = db /\ outputs.builder /\ ~Failed

(* The operations of a batch before the next one to apply.                  *)
Applied(batch, next) == {k \in DOMAIN batch : k < next}

Apply ==
  /\ call.pc \notin {"applying", "failed", "applied", "persist"} => call.next = 1
  /\ call.pc \in {"apply", "applying", "applied"} =>
       outputs.batch = call.batch /\ call.batch # <<>> /\ Entries(call.batch) = Emitted
  /\ call.pc = "apply" => outputs.landed = {}
  /\ call.pc = "applying" =>
       /\ \A k \in Applied(call.batch, call.next) : call.batch[k][3]
       /\ outputs.landed = {call.batch[k][1] : k \in {i \in Applied(call.batch, call.next) : call.batch[i][2] = "edge"}}
  /\ call.pc \in {"applied", "persist"} => outputs.landed = Ids(Emitted)

Whole(graph) ==
  /\ graph.landed \in {{}, Landing(graph.batch)}
  /\ graph.batch = <<>> => graph.landed = {}

Seen ==
  /\ ~lock.writer => Whole(outputs)
  /\ \A r \in Reader : Whole(query[r].saw)

(* The outputs lack their builder only from a build that started to one     *)
(* that succeeds.                                                           *)
Husk ==
  outputs.version > 0 /\ ~outputs.builder =>
    \/ call.pc \in {"idle", "enter"} /\ call.outcome # "rebuilt"
    \/ call.pc \in {"take", "build", "swap"}

Rebuilt ==
  call.outcome = "rebuilt" /\ call.pc = "idle" =>
    outputs.version = db /\ outputs.builder /\ outputs.landed = Ids(Emitted)

IInv == TypeInv /\ Holds /\ Pass /\ Apply /\ Seen /\ Husk /\ Rebuilt

-----------------------------------------------------------------------------
(* Graphs and batches.                                                     *)

(* A graph in which nothing landed is a whole one, and so is the graph of a *)
(* context that was never built.                                            *)
LEMMA EmptyGraphs ==
  /\ \A graph : graph.landed = {} => Whole(graph)
  /\ NoOutputs \in Outputs /\ NoOutputs.version = 0 /\ NoOutputs.landed = {}
  /\ db \in Nat => Fresh \in Outputs
  /\ Fresh.version = db /\ Fresh.builder /\ Fresh.batch = <<>> /\ Fresh.landed = {}
  /\ Idle \in [done : BOOLEAN, error : BOOLEAN, batch : Seq(Ops), saw : Outputs]
  /\ ~Idle.done /\ ~Idle.error
<1>1. <<>> \in Seq(Ops)
  BY EmptySeq
<1>2. NoOutputs \in Outputs
  BY <1>1 DEF NoOutputs, Outputs
<1>3. db \in Nat => Fresh \in Outputs
  BY <1>1 DEF Fresh, Outputs
<1>4. Idle \in [done : BOOLEAN, error : BOOLEAN, batch : Seq(Ops), saw : Outputs]
  BY <1>1, <1>2 DEF Idle
<1>. QED  BY <1>2, <1>3, <1>4 DEF Whole, NoOutputs, Fresh, Idle

(* The batch the building thread collects is made of what the plugins of    *)
(* the pass emitted (the loop over the jobs of run_parallel_plugins).       *)
LEMMA CollectedBatch ==
  ASSUME TypeInv
  PROVE  /\ FlattenSeq([p \in Plugin |-> results[p].batch]) \in Seq(Ops)
         /\ Entries(FlattenSeq([p \in Plugin |-> results[p].batch])) = Emitted
<1> DEFINE batches == [p \in Plugin |-> results[p].batch]
<1>1. batches \in Seq(Seq(Ops))
  <2>1. Emissions \in Seq(SUBSET Seq(Ops))
    BY SessionAssumption
  <2>2. Plugin = 1 .. Len(Emissions) /\ Len(Emissions) \in Nat
    BY <2>1 DEF Plugin
  <2>3. \A p \in Plugin : results[p].batch \in Seq(Ops)
    BY DEF TypeInv
  <2>. QED  BY <2>2, <2>3, IsASeq
<1>2. UNION {Entries(batches[p]) : p \in DOMAIN batches} = Emitted
  BY DEF Emitted
<1>. QED  BY <1>1, <1>2, FlattenSeqPlaces, FlattenSeqEntries

(* With every index in range the whole batch lands ...                      *)
LEMMA LandingOfAll ==
  ASSUME NEW batch, \A k \in DOMAIN batch : batch[k][3]
  PROVE  Landing(batch) = {batch[k][1] : k \in DOMAIN batch}
BY DEF Landing

(* ... and else the edges before the first that is not.                     *)
LEMMA LandingUpTo ==
  ASSUME NEW batch \in Seq(Ops), NEW next \in DOMAIN batch, ~batch[next][3],
         \A k \in Applied(batch, next) : batch[k][3]
  PROVE  Landing(batch) = {batch[k][1] : k \in {i \in Applied(batch, next) : batch[i][2] = "edge"}}
<1> DEFINE wrong == {i \in DOMAIN batch : ~batch[i][3]}
           landing == {k \in DOMAIN batch : wrong = {} \/ ((\A j \in wrong : k < j) /\ batch[k][2] = "edge")}
<1>1. DOMAIN batch \subseteq Nat /\ next \in wrong
  OBVIOUS
<1>2. \A j \in wrong : j >= next
  BY <1>1 DEF Applied
<1>3. \A k \in DOMAIN batch : (\A j \in wrong : k < j) <=> k \in Applied(batch, next)
  BY <1>1, <1>2 DEF Applied
<1> HIDE DEF wrong
<1>4. landing = {i \in Applied(batch, next) : batch[i][2] = "edge"}
  BY <1>1, <1>3 DEF Applied
<1>. QED  BY <1>4 DEF Landing, wrong

-----------------------------------------------------------------------------
(* Every action keeps the invariant.                                       *)

(* A session starts with nothing built and nobody inside.                   *)
LEMMA InitHolds == Init => IInv
<1> SUFFICES ASSUME Init PROVE IInv
  OBVIOUS
<1> USE DEF Init, Builder, Nobody, CallPCs
<1>1. TypeInv
  <2>1. call \in [pc : CallPCs, outcome : {"none", "raised", "skipped", "rebuilt", "panic"},
                  batch : Seq(Ops), next : Nat \ {0}]
    BY EmptySeq
  <2>2. results \in [Plugin -> [done : BOOLEAN, error : BOOLEAN, batch : Seq(Ops), saw : Outputs]]
    BY EmptyGraphs
  <2>3. query \in [Reader -> [pc : {"idle", "park", "reattach"}, left : Nat, saw : Outputs]]
    BY EmptyGraphs, SessionAssumption
  <2>4. outputs \in Outputs
    BY EmptyGraphs
  <2>. QED  BY <2>1, <2>2, <2>3, <2>4 DEF TypeInv
<1>2. Holds
  BY DEF Holds, InFlight
<1>3. Pass /\ Apply /\ Husk /\ Rebuilt
  BY EmptyGraphs DEF Pass, Apply, Husk, Rebuilt
<1>4. Seen
  BY EmptyGraphs DEF Seen
<1>. QED  BY <1>1, <1>2, <1>3, <1>4 DEF IInv

(* What a pass emitted is in its results.                                   *)
LEMMA SameResults ==
  ASSUME UNCHANGED results
  PROVE  Emitted' = Emitted /\ (Failed' <=> Failed)
BY DEF Emitted, Failed

(* Edit moves nothing but the sources on disk.                              *)
LEMMA EditKeeps ==
  ASSUME IInv, Edit
  PROVE  IInv'
<1>1. Emitted' = Emitted /\ (Failed' <=> Failed)
  BY SameResults DEF Edit
<1>2. TypeInv'
  BY DEF IInv, TypeInv, Edit
<1>3. (Holds /\ Pass /\ Apply)'
  BY <1>1 DEF IInv, Holds, Pass, Apply, NothingLanded, InFlight, Edit
<1>4. (Seen /\ Husk /\ Rebuilt)'
  BY <1>1 DEF IInv, Seen, Husk, Rebuilt, Edit
<1>. QED  BY <1>2, <1>3, <1>4 DEF IInv

(* A new context starts with outputs that were never built.                 *)
LEMMA NewContextKeeps ==
  ASSUME IInv, NewContext
  PROVE  IInv'
<1> USE DEF NewContext, Goto, Builder, Nobody, CallPCs
<1>1. Emitted' = Emitted /\ (Failed' <=> Failed)
  BY SameResults
<1>2. outputs' \in Outputs /\ outputs'.version = 0 /\ outputs'.landed = {} /\ Whole(outputs')
  BY EmptyGraphs
<1>3. TypeInv'
  BY <1>2 DEF IInv, TypeInv
<1>4. Holds'
  BY DEF IInv, TypeInv, Holds, InFlight
<1>5. (Pass /\ Apply)'
  BY <1>1, <1>2 DEF IInv, TypeInv, Pass, Apply
<1>6. (Seen /\ Husk /\ Rebuilt)'
  BY <1>2 DEF IInv, TypeInv, Seen, Husk, Rebuilt
<1>. QED  BY <1>3, <1>4, <1>5, <1>6 DEF IInv

(* What is left of a call that returned.                                    *)
LEMMA Returned ==
  ASSUME TypeInv, NEW outcome \in {"raised", "skipped", "rebuilt", "panic"}, Return(outcome)
  PROVE  /\ call' \in [pc : CallPCs, outcome : {"none", "raised", "skipped", "rebuilt", "panic"},
                       batch : Seq(Ops), next : Nat \ {0}]
         /\ call'.pc = "idle" /\ call'.outcome = outcome /\ call'.next = 1
         /\ gil' = Nobody /\ kept' \in BOOLEAN
<1>1. kept' \in BOOLEAN
  BY Zenon DEF Return, TypeInv
<1>2. call' = [pc |-> "idle", outcome |-> outcome, batch |-> <<>>, next |-> 1] /\ gil' = Nobody
  BY DEF Return
<1>. QED  BY <1>1, <1>2, EmptySeq DEF CallPCs

(* A call that returns without having rebuilt, from a point where it holds  *)
(* no lock, leaves the outputs as they are: the ends of ReMaterialize,      *)
(* BuildFails, Collect, Reattach and Persist that are not "rebuilt".        *)
LEMMA GivenUp ==
  ASSUME IInv, NEW outcome \in {"raised", "skipped", "panic"}, Return(outcome),
         call.pc \in {"idle", "build", "collect", "failed", "persist"},
         UNCHANGED <<disk, db, outputs, lock, results, query>>,
         borrow' = IF call.pc = "build" THEN "none" ELSE borrow
  PROVE  IInv'
<1> USE DEF Builder, Nobody, CallPCs
<1>1. Emitted' = Emitted /\ (Failed' <=> Failed)
  BY SameResults
<1>2. /\ call' \in [pc : CallPCs, outcome : {"none", "raised", "skipped", "rebuilt", "panic"},
                    batch : Seq(Ops), next : Nat \ {0}]
      /\ call'.pc = "idle" /\ call'.outcome # "rebuilt" /\ call'.next = 1
      /\ gil' = Nobody /\ kept' \in BOOLEAN
  BY Returned DEF IInv
<1>3. TypeInv'
  BY <1>2 DEF IInv, TypeInv
<1>4. Holds'
  BY <1>2 DEF IInv, TypeInv, Holds, InFlight
<1>5. (Pass /\ Apply)'
  BY <1>1, <1>2 DEF IInv, Pass, Apply
<1>6. (Seen /\ Husk /\ Rebuilt)'
  BY <1>2 DEF IInv, Holds, Seen, Husk, Rebuilt
<1>. QED  BY <1>3, <1>4, <1>5, <1>6 DEF IInv

(* re_materialize raises, skips, or takes the change in.                    *)
LEMMA ReMaterializeKeeps ==
  ASSUME IInv, ReMaterialize
  PROVE  IInv'
<1> USE DEF Builder, Nobody, CallPCs
<1>1. CASE UNCHANGED db /\ (Return("raised") \/ Return("skipped"))
  BY <1>1, GivenUp DEF ReMaterialize
<1>2. CASE borrow = "none" /\ db' = disk /\ Goto("enter") /\ UNCHANGED <<gil, kept>>
  <2> USE <1>2 DEF ReMaterialize, Goto
  <2>1. Emitted' = Emitted /\ (Failed' <=> Failed)
    BY SameResults
  <2>2. TypeInv' /\ Holds'
    BY DEF IInv, TypeInv, Holds, InFlight
  <2>3. (Pass /\ Apply)'
    BY <2>1 DEF IInv, TypeInv, Pass, Apply
  <2>4. (Seen /\ Husk /\ Rebuilt)'
    BY DEF IInv, TypeInv, Seen, Husk, Rebuilt
  <2>. QED  BY <2>2, <2>3, <2>4 DEF IInv
<1>. QED  BY <1>1, <1>2 DEF ReMaterialize

-----------------------------------------------------------------------------
(* materialize, up to the plugin pass.                                     *)

(* Entering takes the GIL and the one mutable borrow.                       *)
LEMMA EnterKeeps ==
  ASSUME IInv, Enter
  PROVE  IInv'
<1> USE DEF Enter, Goto, Builder, Nobody, CallPCs
<1>1. Emitted' = Emitted /\ (Failed' <=> Failed)
  BY SameResults
<1>2. TypeInv' /\ Holds'
  BY DEF IInv, TypeInv, Holds, InFlight
<1>3. (Pass /\ Apply)'
  BY <1>1 DEF IInv, TypeInv, Pass, Apply
<1>4. (Seen /\ Husk /\ Rebuilt)'
  BY DEF IInv, TypeInv, Seen, Husk, Rebuilt
<1>. QED  BY <1>2, <1>3, <1>4 DEF IInv

(* The outputs keep what landed in them when their builder is taken.        *)
LEMMA TakeBuilderKeeps ==
  ASSUME IInv, TakeBuilder
  PROVE  IInv'
<1> USE DEF TakeBuilder, Goto, Builder, Nobody, CallPCs
<1>1. Emitted' = Emitted /\ (Failed' <=> Failed)
  BY SameResults
<1>2. /\ outputs' \in Outputs /\ outputs'.version = outputs.version /\ ~outputs'.builder
      /\ outputs'.batch = outputs.batch /\ outputs'.landed = outputs.landed
  BY DEF IInv, TypeInv, Outputs
<1>3. TypeInv' /\ Holds'
  BY <1>2 DEF IInv, TypeInv, Holds, InFlight
<1>4. (Pass /\ Apply)'
  BY <1>1, <1>2 DEF IInv, TypeInv, Pass, Apply
<1>5. (Husk /\ Rebuilt)'
  BY <1>2 DEF IInv, TypeInv, Husk, Rebuilt
<1>6. Seen'
  <2>1. Whole(outputs) => Whole(outputs')
    BY <1>2 DEF Whole
  <2>. QED  BY <2>1 DEF IInv, TypeInv, Seen
<1>. QED  BY <1>3, <1>4, <1>5, <1>6 DEF IInv

(* A build that fails leaves the outputs without their builder.             *)
LEMMA BuildFailsKeeps ==
  ASSUME IInv, BuildFails
  PROVE  IInv'
BY GivenUp DEF BuildFails

(* A build that is done still has to swap its outputs in.                   *)
LEMMA BuildDoneKeeps ==
  ASSUME IInv, BuildDone
  PROVE  IInv'
<1> USE DEF BuildDone, Goto, Builder, Nobody, CallPCs
<1>1. Emitted' = Emitted /\ (Failed' <=> Failed)
  BY SameResults
<1>2. TypeInv' /\ Holds'
  BY DEF IInv, TypeInv, Holds, InFlight
<1>3. (Pass /\ Apply)'
  BY <1>1 DEF IInv, TypeInv, Pass, Apply
<1>4. (Seen /\ Husk /\ Rebuilt)'
  BY DEF IInv, TypeInv, Seen, Husk, Rebuilt
<1>. QED  BY <1>2, <1>3, <1>4 DEF IInv

(* The new outputs have their builder and nothing landed in them.           *)
LEMMA SwapKeeps ==
  ASSUME IInv, Swap
  PROVE  IInv'
<1> USE DEF Swap, Goto, Builder, Nobody, CallPCs
<1>1. /\ outputs' \in Outputs /\ outputs'.version = db' /\ outputs'.builder /\ outputs'.batch = <<>>
      /\ outputs'.landed = {} /\ Whole(outputs')
  BY EmptyGraphs DEF IInv, TypeInv
<1>2. /\ results' \in [Plugin -> [done : BOOLEAN, error : BOOLEAN, batch : Seq(Ops), saw : Outputs]]
      /\ \A p \in Plugin : results'[p] = Idle /\ ~results'[p].done /\ ~results'[p].error
  BY EmptyGraphs
<1>3. /\ call' \in [pc : CallPCs, outcome : {"none", "raised", "skipped", "rebuilt", "panic"},
                    batch : Seq(Ops), next : Nat \ {0}]
      /\ call'.pc = "pass" \/ (call'.pc = "idle" /\ call'.outcome # "rebuilt")
      /\ call'.next = 1 /\ gil' = Nobody /\ kept' \in BOOLEAN
  <2>1. CASE Return("raised")
    BY <2>1, Returned DEF IInv
  <2>2. CASE Goto("pass") /\ gil' = Nobody /\ UNCHANGED kept
    BY <2>2 DEF IInv, TypeInv, Apply
  <2>. QED  BY <2>1, <2>2
<1>4. TypeInv'
  BY <1>1, <1>2, <1>3 DEF IInv, TypeInv
<1>5. Holds'
  BY <1>3 DEF IInv, TypeInv, Holds, InFlight
<1>6. (Pass /\ Apply)'
  BY <1>1, <1>2, <1>3 DEF Pass, Apply, NothingLanded
<1>7. (Seen /\ Husk /\ Rebuilt)'
  BY <1>1, <1>3 DEF IInv, Seen, Husk, Rebuilt
<1>. QED  BY <1>4, <1>5, <1>6, <1>7 DEF IInv

-----------------------------------------------------------------------------
(* The plugin pass.                                                        *)

(* The pass begins on the outputs that were just swapped in.                *)
LEMMA LockPassKeeps ==
  ASSUME IInv, LockPass
  PROVE  IInv'
<1> USE DEF LockPass, Goto, Builder, Nobody, CallPCs
<1>1. Emitted' = Emitted /\ (Failed' <=> Failed)
  BY SameResults
<1>2. TypeInv' /\ Holds'
  BY DEF IInv, TypeInv, Holds, InFlight
<1>3. (Pass /\ Apply)'
  BY <1>1, EmptyGraphs DEF IInv, TypeInv, Pass, Apply, NothingLanded
<1>4. (Seen /\ Husk /\ Rebuilt)'
  BY DEF IInv, TypeInv, Seen, Husk, Rebuilt
<1>. QED  BY <1>2, <1>3, <1>4 DEF IInv

(* A worker saw the outputs, in which nothing has landed.                   *)
LEMMA RunPluginKeeps ==
  ASSUME IInv, NEW p \in Plugin, RunPlugin(p)
  PROVE  IInv'
<1> USE DEF RunPlugin, Builder, Nobody, CallPCs
<1>1. PICK result \in [done : BOOLEAN, error : BOOLEAN, batch : Seq(Ops), saw : Outputs] :
        result.saw = outputs /\ results' = [results EXCEPT ![p] = result]
  <2>1. outputs \in Outputs /\ <<>> \in Seq(Ops)
    BY EmptySeq DEF IInv, TypeInv
  <2>2. \A batch \in Emissions[p] : batch \in Seq(Ops)
    BY SessionAssumption DEF Plugin
  <2>3. CASE results' = [results EXCEPT ![p] = [done |-> TRUE, error |-> TRUE, batch |-> <<>>, saw |-> outputs]]
    BY <2>1, <2>3
  <2>4. CASE \E batch \in Emissions[p] :
               results' = [results EXCEPT ![p] = [done |-> TRUE, error |-> FALSE, batch |-> batch, saw |-> outputs]]
    BY <2>1, <2>2, <2>4
  <2>. QED  BY <2>3, <2>4
<1>2. results' \in [Plugin -> [done : BOOLEAN, error : BOOLEAN, batch : Seq(Ops), saw : Outputs]]
  BY <1>1 DEF IInv, TypeInv
<1>3. \A q \in Plugin : results'[q].saw = IF q = p THEN outputs ELSE results[q].saw
  BY <1>1 DEF IInv, TypeInv
<1>4. \A q \in Plugin \ {p} : results'[q] = results[q]
  BY <1>1 DEF IInv, TypeInv
<1>5. TypeInv'
  BY <1>2 DEF IInv, TypeInv
<1>6. Pass'
  BY <1>3, <1>4 DEF IInv, Pass, NothingLanded
<1>7. (Holds /\ Apply)'
  BY DEF IInv, Holds, Apply, InFlight
<1>8. (Seen /\ Husk /\ Rebuilt)'
  BY DEF IInv, Seen, Husk, Rebuilt
<1>. QED  BY <1>5, <1>6, <1>7, <1>8 DEF IInv

(* The read guard goes when the workers are joined; no query's does.        *)
LEMMA JoinPluginsKeeps ==
  ASSUME IInv, JoinPlugins
  PROVE  IInv'
<1> USE DEF JoinPlugins, Goto, Nobody, CallPCs
<1>1. Emitted' = Emitted /\ (Failed' <=> Failed)
  BY SameResults
<1>2. TypeInv'
  BY DEF IInv, TypeInv
<1>3. Holds'
  <2>1. /\ lock'.writer = lock.writer /\ lock'.readers = lock.readers \ {Builder}
        /\ \A r \in Reader : r \in lock.readers => r \in lock'.readers
    BY SessionAssumption DEF IInv, TypeInv
  <2>2. call'.pc = "collect" /\ UNCHANGED <<gil, borrow, query>>
    BY DEF IInv, TypeInv
  <2>. QED  BY <2>1, <2>2 DEF IInv, Holds, InFlight
<1>4. (Pass /\ Apply)'
  BY <1>1 DEF IInv, TypeInv, Pass, Apply, NothingLanded
<1>5. (Seen /\ Husk /\ Rebuilt)'
  BY DEF IInv, TypeInv, Seen, Husk, Rebuilt
<1>. QED  BY <1>2, <1>3, <1>4, <1>5 DEF IInv

(* The first error drops every batch, an empty one changes nothing, and one *)
(* that will be applied is the outputs' from now on.                        *)
LEMMA CollectKeeps ==
  ASSUME IInv, Collect
  PROVE  IInv'
<1> USE DEF Builder, Nobody, CallPCs
<1> DEFINE batch == FlattenSeq([p \in Plugin |-> results[p].batch])
<1>1. batch \in Seq(Ops) /\ Entries(batch) = Emitted
  BY CollectedBatch DEF IInv
<1>2. Emitted' = Emitted /\ (Failed' <=> Failed)
  BY SameResults DEF Collect
<1>3. call.pc = "collect" /\ UNCHANGED <<disk, db, borrow, results, query>> /\ NothingLanded /\ ~lock.writer
  BY DEF Collect, IInv, Pass, Holds
<1>4. CASE Failed /\ Return("raised") /\ UNCHANGED <<lock, outputs>>
  BY <1>3, <1>4, GivenUp
<1>5. CASE ~Failed /\ batch = <<>> /\ gil' = Builder /\ Goto("persist") /\ UNCHANGED <<kept, lock, outputs>>
  <2> USE <1>3, <1>5 DEF Goto
  <2>1. Emitted = {} /\ Ids(Emitted) = {}
    BY <1>1 DEF Entries, Ids
  <2>2. TypeInv' /\ Holds'
    BY DEF IInv, TypeInv, Holds, InFlight
  <2>3. (Pass /\ Apply)'
    BY <1>2, <2>1 DEF IInv, TypeInv, Pass, Apply, NothingLanded
  <2>4. (Seen /\ Husk /\ Rebuilt)'
    BY DEF IInv, TypeInv, Seen, Husk, Rebuilt, NothingLanded
  <2>. QED  BY <2>2, <2>3, <2>4 DEF IInv
<1>6. CASE /\ ~Failed /\ batch # <<>>
           /\ lock' = [lock EXCEPT !.queued = TRUE]
           /\ call' = [call EXCEPT !.pc = "apply", !.batch = batch]
           /\ outputs' = [outputs EXCEPT !.batch = batch]
           /\ UNCHANGED <<gil, kept>>
  <2> HIDE DEF batch
  <2> USE <1>3, <1>6
  <2>1. /\ outputs' \in Outputs /\ outputs'.version = db /\ outputs'.builder
        /\ outputs'.batch = batch /\ outputs'.landed = {} /\ Whole(outputs')
    BY <1>1, EmptyGraphs DEF IInv, TypeInv, Outputs, NothingLanded
  <2>2. /\ call' \in [pc : CallPCs, outcome : {"none", "raised", "skipped", "rebuilt", "panic"},
                      batch : Seq(Ops), next : Nat \ {0}]
        /\ call'.pc = "apply" /\ call'.batch = batch /\ call'.next = 1
    BY <1>1 DEF IInv, TypeInv, Apply
  <2>3. lock' \in [writer : BOOLEAN, queued : BOOLEAN, readers : SUBSET (Reader \cup {Builder})]
        /\ lock'.writer = lock.writer /\ lock'.readers = lock.readers
    BY DEF IInv, TypeInv
  <2>4. TypeInv'
    BY <2>1, <2>2, <2>3 DEF IInv, TypeInv
  <2>5. Holds'
    BY <2>2, <2>3 DEF IInv, Holds, InFlight
  <2>6. (Pass /\ Apply)'
    BY <1>1, <1>2, <2>1, <2>2 DEF IInv, Pass, Apply
  <2>7. (Seen /\ Husk /\ Rebuilt)'
    BY <2>1, <2>2 DEF IInv, Seen, Husk, Rebuilt
  <2>. QED  BY <2>4, <2>5, <2>6, <2>7 DEF IInv
<1>. QED  BY <1>4, <1>5, <1>6 DEF Collect

-----------------------------------------------------------------------------
(* The batch is applied under the write lock.                              *)

(* The writer gets in when the last reader has left.                        *)
LEMMA LockApplyKeeps ==
  ASSUME IInv, LockApply
  PROVE  IInv'
<1> USE DEF LockApply, Goto, Builder, Nobody, CallPCs
<1>1. Emitted' = Emitted /\ (Failed' <=> Failed)
  BY SameResults
<1>2. TypeInv'
  BY DEF IInv, TypeInv
<1>3. Holds'
  BY DEF IInv, TypeInv, Holds, InFlight
<1>4. Pass' /\ Seen' /\ Husk' /\ Rebuilt'
  BY <1>1 DEF IInv, TypeInv, Pass, Seen, Husk, Rebuilt
<1>5. Apply'
  <2>1. call'.pc = "applying" /\ call'.batch = call.batch /\ call'.next = 1 /\ UNCHANGED outputs
    BY DEF IInv, TypeInv, Apply
  <2>2. Applied(call.batch, 1) = {}
    BY DEF Applied, IInv, TypeInv
  <2>. QED  BY <1>1, <2>1, <2>2 DEF IInv, Apply
<1>. QED  BY <1>2, <1>3, <1>4, <1>5 DEF IInv

(* One more operation in range: an edge lands, a flag waits.                *)
LEMMA ApplyOpKeeps ==
  ASSUME IInv, ApplyOp
  PROVE  IInv'
<1> DEFINE op == call.batch[call.next]
<1> USE DEF ApplyOp, Builder, Nobody, CallPCs
<1>1. Emitted' = Emitted /\ (Failed' <=> Failed)
  BY SameResults
<1>2. call.batch \in Seq(Ops) /\ call.next \in DOMAIN call.batch /\ op \in Ops /\ call.next \in Nat
  BY DEF IInv, TypeInv
<1>3. /\ outputs' \in Outputs /\ UNCHANGED <<lock, query, gil, borrow, results, db>>
      /\ outputs'.version = outputs.version /\ outputs'.builder = outputs.builder
      /\ outputs'.batch = outputs.batch
      /\ outputs'.landed = IF op[2] = "edge" THEN outputs.landed \cup {op[1]} ELSE outputs.landed
  BY <1>2 DEF IInv, TypeInv, Outputs
<1>4. /\ call' \in [pc : CallPCs, outcome : {"none", "raised", "skipped", "rebuilt", "panic"},
                    batch : Seq(Ops), next : Nat \ {0}]
      /\ call'.pc = "applying" /\ call.pc = "applying" /\ call'.batch = call.batch /\ call'.next = call.next + 1
  <2>1. call' = [call EXCEPT !.next = call.next + 1] /\ call.next + 1 \in Nat \ {0}
    BY <1>2
  <2>. QED  BY <2>1 DEF IInv, TypeInv
<1>5. TypeInv'
  BY <1>3, <1>4 DEF IInv, TypeInv
<1>6. Holds' /\ Pass' /\ Seen' /\ Husk' /\ Rebuilt'
  BY <1>1, <1>3, <1>4 DEF IInv, Holds, Pass, Failed, Seen, Husk, Rebuilt, InFlight
<1>7. Apply'
  <2> DEFINE edges(next) == {i \in Applied(call.batch, next) : call.batch[i][2] = "edge"}
  <2>1. Applied(call.batch, call.next + 1) = Applied(call.batch, call.next) \cup {call.next}
    BY <1>2 DEF Applied
  <2>2. \A k \in Applied(call.batch, call.next + 1) : call.batch[k][3]
    BY <1>4, <2>1 DEF IInv, Apply
  <2>3. edges(call.next + 1) = edges(call.next) \cup (IF op[2] = "edge" THEN {call.next} ELSE {})
    BY <2>1
  <2>4. outputs.landed = {call.batch[k][1] : k \in edges(call.next)}
    BY <1>4 DEF IInv, Apply
  <2> HIDE DEF edges
  <2>5. outputs'.landed = {call.batch[k][1] : k \in edges(call.next + 1)}
    BY <1>3, <2>3, <2>4
  <2>. QED  BY <1>1, <1>3, <1>4, <2>2, <2>5 DEF IInv, Apply, edges
<1>. QED  BY <1>5, <1>6, <1>7 DEF IInv

(* An index out of range: what landed before it is what a query may see.    *)
LEMMA ApplyFailsKeeps ==
  ASSUME IInv, ApplyFails
  PROVE  IInv'
<1> USE DEF ApplyFails, Goto, Builder, Nobody, CallPCs
<1>1. Emitted' = Emitted /\ (Failed' <=> Failed)
  BY SameResults
<1>2. TypeInv' /\ Holds'
  BY DEF IInv, TypeInv, Holds, InFlight
<1>3. (Pass /\ Apply /\ Husk /\ Rebuilt)'
  BY <1>1 DEF IInv, TypeInv, Pass, Apply, Husk, Rebuilt
<1>4. Seen'
  <2>1. call.batch \in Seq(Ops) /\ call.next \in DOMAIN call.batch
    BY DEF IInv, TypeInv
  <2>2. outputs.landed = Landing(call.batch)
    BY <2>1, LandingUpTo DEF IInv, Apply
  <2>3. outputs.batch = call.batch /\ call.batch # <<>>
    BY DEF IInv, Apply
  <2>4. Whole(outputs)
    BY <2>2, <2>3 DEF Whole
  <2>. QED  BY <2>4 DEF IInv, Seen
<1>. QED  BY <1>2, <1>3, <1>4 DEF IInv

(* Nothing was out of range: with the flags the whole batch has landed.     *)
LEMMA ApplyFlagsKeeps ==
  ASSUME IInv, ApplyFlags
  PROVE  IInv'
<1> USE DEF ApplyFlags, Goto, Builder, Nobody, CallPCs
<1>1. Emitted' = Emitted /\ (Failed' <=> Failed)
  BY SameResults
<1>2. /\ call.batch \in Seq(Ops) /\ call.pc = "applying"
      /\ Applied(call.batch, call.next) = DOMAIN call.batch
      /\ outputs.batch = call.batch /\ call.batch # <<>> /\ Entries(call.batch) = Emitted
  <2>1. call.batch \in Seq(Ops) /\ call.next \in Nat /\ call.next > Len(call.batch)
    BY DEF IInv, TypeInv
  <2>. QED  BY <2>1 DEF IInv, Apply, Applied
<1>3. /\ outputs'.landed = {call.batch[k][1] : k \in DOMAIN call.batch}
      /\ outputs'.version = outputs.version /\ outputs'.builder = outputs.builder
      /\ outputs'.batch = outputs.batch
  <2>1. outputs.landed \subseteq {call.batch[k][1] : k \in DOMAIN call.batch}
    BY <1>2 DEF IInv, Apply
  <2>2. outputs' = [outputs EXCEPT !.landed = outputs.landed \cup {call.batch[i][1] : i \in DOMAIN call.batch}]
    OBVIOUS
  <2>. QED  BY <2>1, <2>2 DEF IInv, TypeInv, Outputs
<1>4. /\ outputs'.landed = Ids(Emitted) /\ outputs' \in Outputs
  <2>1. outputs'.landed = Ids(Emitted)
    BY <1>2, <1>3 DEF Ids, Entries
  <2>2. \A k \in DOMAIN call.batch : call.batch[k] \in Ops
    BY <1>2
  <2>3. outputs'.landed \subseteq {o[1] : o \in Ops}
    BY <1>3, <2>2
  <2>4. PICK landed \in SUBSET {o[1] : o \in Ops} : outputs' = [outputs EXCEPT !.landed = landed]
    BY <2>3 DEF IInv, TypeInv, Outputs
  <2>5. outputs' \in Outputs
    BY <2>4 DEF IInv, TypeInv, Outputs
  <2>. QED  BY <2>1, <2>5
<1>5. TypeInv'
  BY <1>4 DEF IInv, TypeInv
<1>6. Holds'
  BY DEF IInv, TypeInv, Holds, InFlight
<1>7. (Pass /\ Apply /\ Husk /\ Rebuilt)'
  BY <1>1, <1>2, <1>3, <1>4 DEF IInv, TypeInv, Pass, Failed, Apply, Husk, Rebuilt
<1>8. Seen'
  <2>1. \A k \in DOMAIN call.batch : call.batch[k][3]
    BY <1>2 DEF IInv, Apply
  <2>2. outputs'.landed = Landing(outputs'.batch)
    BY <1>2, <1>3, <2>1, LandingOfAll
  <2>3. Whole(outputs')
    BY <1>2, <1>3, <2>2 DEF Whole
  <2>. QED  BY <2>3 DEF IInv, Seen
<1>. QED  BY <1>5, <1>6, <1>7, <1>8 DEF IInv

(* A batch that was cut short raises, one that landed goes on.              *)
LEMMA ReattachKeeps ==
  ASSUME IInv, Reattach
  PROVE  IInv'
<1> USE DEF Builder, Nobody, CallPCs
<1>1. CASE call.pc = "failed" /\ Return("raised")
  BY <1>1, GivenUp DEF Reattach
<1>2. CASE call.pc = "applied" /\ gil' = Builder /\ Goto("persist") /\ UNCHANGED kept
  <2> USE <1>2 DEF Reattach, Goto
  <2>1. Emitted' = Emitted /\ (Failed' <=> Failed)
    BY SameResults
  <2>2. TypeInv' /\ Holds'
    BY DEF IInv, TypeInv, Holds, InFlight
  <2>3. (Pass /\ Apply)'
    BY <2>1 DEF IInv, TypeInv, Pass, Apply
  <2>4. (Seen /\ Husk /\ Rebuilt)'
    BY DEF IInv, TypeInv, Seen, Husk, Rebuilt
  <2>. QED  BY <2>2, <2>3, <2>4 DEF IInv
<1>. QED  BY <1>1, <1>2 DEF Reattach

(* A call that returns rebuilt has everything its plugins emitted.          *)
LEMMA PersistKeeps ==
  ASSUME IInv, Persist
  PROVE  IInv'
<1> USE DEF Builder, Nobody, CallPCs
<1>1. CASE Return("panic")
  BY <1>1, GivenUp DEF Persist
<1>2. CASE Return("rebuilt")
  <2> USE <1>2 DEF Persist
  <2>1. Emitted' = Emitted /\ (Failed' <=> Failed)
    BY SameResults
  <2>2. /\ call' \in [pc : CallPCs, outcome : {"none", "raised", "skipped", "rebuilt", "panic"},
                      batch : Seq(Ops), next : Nat \ {0}]
        /\ call'.pc = "idle" /\ call'.next = 1 /\ gil' = Nobody /\ kept' \in BOOLEAN
    BY Returned DEF IInv
  <2>3. TypeInv' /\ Holds'
    BY <2>2 DEF IInv, TypeInv, Holds, InFlight
  <2>4. (Pass /\ Apply)'
    BY <2>1, <2>2 DEF IInv, Pass, Apply
  <2>5. (Seen /\ Husk /\ Rebuilt)'
    BY <2>1, <2>2 DEF IInv, Holds, Pass, Apply, Seen, Husk, Rebuilt
  <2>. QED  BY <2>3, <2>4, <2>5 DEF IInv
<1>. QED  BY <1>1, <1>2 DEF Persist

-----------------------------------------------------------------------------
(* A query.                                                                *)

(* It is answered at once, or parks with the context borrowed.              *)
LEMMA QueryKeeps ==
  ASSUME IInv, NEW r \in Reader, Query(r)
  PROVE  IInv'
<1> USE DEF Query, Builder, Nobody, CallPCs
<1>1. Emitted' = Emitted /\ (Failed' <=> Failed)
  BY SameResults
<1>2. PICK answer \in [pc : {"idle", "park", "reattach"}, left : Nat, saw : Outputs] :
        /\ query' = [query EXCEPT ![r] = answer]
        /\ Whole(answer.saw)
        /\ \/ answer.pc = "idle" /\ UNCHANGED borrow
           \/ answer.pc = "park" /\ borrow # "mut" /\ borrow' = "shared"
  <2>1. query[r] \in [pc : {"idle", "park", "reattach"}, left : Nat, saw : Outputs] /\ outputs \in Outputs
    BY DEF IInv, TypeInv
  <2> DEFINE parked == [query[r] EXCEPT !.pc = "park", !.left = @ - 1]
  <2>0. query[r].pc = "idle" /\ query[r].left \in Nat /\ query[r].left - 1 \in Nat
    BY <2>1 DEF InFlight
  <2>2. CASE borrow = "mut" /\ query' = [query EXCEPT ![r] = Told(r, NoOutputs)] /\ UNCHANGED borrow
    <3>1. Told(r, NoOutputs) \in [pc : {"idle", "park", "reattach"}, left : Nat, saw : Outputs]
      BY <2>0, <2>1, EmptyGraphs DEF Told
    <3>2. Told(r, NoOutputs).pc = "idle" /\ Whole(Told(r, NoOutputs).saw)
      BY <2>0, <2>1, EmptyGraphs DEF Told
    <3>. QED  BY <2>2, <3>1, <3>2
  <2>3. CASE ~lock.writer /\ query' = [query EXCEPT ![r] = Told(r, outputs)] /\ UNCHANGED borrow
    <3>1. Told(r, outputs) \in [pc : {"idle", "park", "reattach"}, left : Nat, saw : Outputs]
      BY <2>0, <2>1 DEF Told
    <3>2. Told(r, outputs).pc = "idle" /\ Whole(Told(r, outputs).saw)
      BY <2>0, <2>1, <2>3 DEF Told, IInv, Seen
    <3>. QED  BY <2>3, <3>1, <3>2
  <2>4. CASE borrow # "mut" /\ borrow' = "shared" /\ query' = [query EXCEPT ![r] = parked]
    <3>1. parked \in [pc : {"idle", "park", "reattach"}, left : Nat, saw : Outputs]
      BY <2>0, <2>1
    <3>2. parked.pc = "park" /\ Whole(parked.saw)
      BY <2>1 DEF IInv, Seen
    <3>. QED  BY <2>4, <3>1, <3>2
  <2>. QED  BY <2>2, <2>3, <2>4
<1>3. TypeInv'
  BY <1>2 DEF IInv, TypeInv
<1>4. \A q \in Reader : query'[q] = IF q = r THEN answer ELSE query[q]
  BY <1>2 DEF IInv, TypeInv
<1>5. Holds'
  BY <1>2, <1>4 DEF IInv, TypeInv, Holds, InFlight
<1>6. Seen'
  BY <1>2, <1>4 DEF IInv, Seen
<1>7. (Pass /\ Apply /\ Husk /\ Rebuilt)'
  BY <1>1 DEF IInv, Pass, Apply, Husk, Rebuilt, NothingLanded
<1>. QED  BY <1>3, <1>5, <1>6, <1>7 DEF IInv

(* A parked reader passes a queued writer, never one that is in.            *)
LEMMA ParkedKeeps ==
  ASSUME IInv, NEW r \in Reader, Parked(r)
  PROVE  IInv'
<1> USE DEF Parked, Builder, Nobody, CallPCs
<1>1. Emitted' = Emitted /\ (Failed' <=> Failed)
  BY SameResults
<1>2. /\ query' \in [Reader -> [pc : {"idle", "park", "reattach"}, left : Nat, saw : Outputs]]
      /\ query'[r].pc = "reattach" /\ query'[r].saw = query[r].saw
      /\ \A q \in Reader \ {r} : query'[q] = query[q]
  <2> DEFINE now == [query[r] EXCEPT !.pc = "reattach"]
  <2>1. query[r] \in [pc : {"idle", "park", "reattach"}, left : Nat, saw : Outputs]
    BY DEF IInv, TypeInv
  <2>2. now \in [pc : {"idle", "park", "reattach"}, left : Nat, saw : Outputs] /\ now.pc = "reattach" /\ now.saw = query[r].saw
    BY <2>1
  <2>3. query' = [query EXCEPT ![r] = now]
    OBVIOUS
  <2> HIDE DEF now
  <2>4. query \in [Reader -> [pc : {"idle", "park", "reattach"}, left : Nat, saw : Outputs]]
    BY DEF IInv, TypeInv
  <2>. QED  BY <2>2, <2>3, <2>4
<1>3. TypeInv'
  <2>1. lock' \in [writer : BOOLEAN, queued : BOOLEAN, readers : SUBSET (Reader \cup {Builder})]
    BY DEF IInv, TypeInv
  <2>. QED  BY <1>2, <2>1 DEF IInv, TypeInv
<1>4. Holds'
  BY <1>2 DEF IInv, TypeInv, Holds, InFlight
<1>5. Seen'
  BY <1>2 DEF IInv, TypeInv, Seen
<1>6. (Pass /\ Apply /\ Husk /\ Rebuilt)'
  BY <1>1 DEF IInv, Pass, Apply, Husk, Rebuilt, NothingLanded
<1>. QED  BY <1>3, <1>4, <1>5, <1>6 DEF IInv

(* A reader keeps the writer out, so what it reads is whole.                *)
LEMMA ReadKeeps ==
  ASSUME IInv, NEW r \in Reader, Read(r)
  PROVE  IInv'
<1> USE DEF Read, Builder, Nobody, CallPCs
<1>1. Emitted' = Emitted /\ (Failed' <=> Failed)
  BY SameResults
<1>2. /\ query' \in [Reader -> [pc : {"idle", "park", "reattach"}, left : Nat, saw : Outputs]]
      /\ query'[r].pc = "idle" /\ query'[r].saw = outputs
      /\ \A q \in Reader \ {r} : query'[q] = query[q]
  <2> DEFINE now == [query[r] EXCEPT !.pc = "idle", !.saw = outputs]
  <2>1. query[r] \in [pc : {"idle", "park", "reattach"}, left : Nat, saw : Outputs] /\ outputs \in Outputs
    BY DEF IInv, TypeInv
  <2>2. now \in [pc : {"idle", "park", "reattach"}, left : Nat, saw : Outputs] /\ now.pc = "idle" /\ now.saw = outputs
    BY <2>1
  <2>3. query' = [query EXCEPT ![r] = now]
    OBVIOUS
  <2> HIDE DEF now
  <2>. QED  BY <2>2, <2>3 DEF IInv, TypeInv
<1>3. TypeInv'
  BY <1>2 DEF IInv, TypeInv, Unborrowed
<1>4. Holds'
  BY <1>2 DEF IInv, TypeInv, Holds, InFlight, Unborrowed
<1>5. Seen'
  BY <1>2 DEF IInv, TypeInv, Holds, Seen
<1>6. (Pass /\ Apply /\ Husk /\ Rebuilt)'
  BY <1>1 DEF IInv, Pass, Apply, Husk, Rebuilt, NothingLanded
<1>. QED  BY <1>3, <1>4, <1>5, <1>6 DEF IInv

(* Every step of the building thread, its workers and the readers.          *)
LEMMA NextKeeps == IInv /\ [Next]_vars => IInv'
<1> SUFFICES ASSUME IInv, [Next]_vars PROVE IInv'
  OBVIOUS
<1>1. CASE Edit
  BY <1>1, EditKeeps
<1>2. CASE NewContext
  BY <1>2, NewContextKeeps
<1>3. CASE ReMaterialize
  BY <1>3, ReMaterializeKeeps
<1>4. CASE Materialize
  BY <1>4, EnterKeeps, TakeBuilderKeeps, BuildFailsKeeps, BuildDoneKeeps, SwapKeeps,
     LockPassKeeps, JoinPluginsKeeps, CollectKeeps, LockApplyKeeps, ApplyOpKeeps,
     ApplyFailsKeeps, ApplyFlagsKeeps, ReattachKeeps, PersistKeeps DEF Materialize
<1>5. CASE \E p \in Plugin : RunPlugin(p)
  BY <1>5, RunPluginKeeps
<1>6. CASE \E r \in Reader : Query(r) \/ Answer(r)
  BY <1>6, QueryKeeps, ParkedKeeps, ReadKeeps DEF Answer
<1>7. CASE UNCHANGED vars
  <2>1. Emitted' = Emitted /\ (Failed' <=> Failed)
    BY <1>7, SameResults DEF vars
  <2>2. (TypeInv /\ Holds /\ Seen)'
    BY <1>7 DEF IInv, TypeInv, Holds, Seen, InFlight, vars
  <2>3. (Pass /\ Apply /\ Husk /\ Rebuilt)'
    BY <1>7, <2>1 DEF IInv, Pass, Apply, Husk, Rebuilt, NothingLanded, vars
  <2>. QED  BY <2>2, <2>3 DEF IInv
<1>. QED  BY <1>1, <1>2, <1>3, <1>4, <1>5, <1>6, <1>7 DEF Next

(* The invariant holds throughout: who holds which lock, and what the       *)
(* outputs and every answer contain, at each point of a call.               *)
THEOREM InvariantHolds == Spec => []IInv
BY InitHolds, NextKeeps, PTL DEF Spec

-----------------------------------------------------------------------------
(* The properties.                                                         *)

(* However queries and rebuilds interleave, a query sees the graph of one   *)
(* build, before or after its plugins' batch, never in between              *)
(* (outputs.write() of apply_prepared_batch against outputs.read()).        *)
THEOREM QueriesAreWhole == Spec => []QueriesSeeWholeGraphs
<1>1. IInv => QueriesSeeWholeGraphs
  BY DEF IInv, Seen, Whole, QueriesSeeWholeGraphs
<1>. QED  BY <1>1, InvariantHolds, PTL

(* Every worker of a plugin pass reads the graph of this build, with        *)
(* nothing of any plugin in it (run_parallel_plugins).                      *)
THEOREM PluginsAreFrozen == Spec => []PluginsSeeFrozenGraph
<1>1. IInv => PluginsSeeFrozenGraph
  BY DEF IInv, Pass, NothingLanded, PluginsSeeFrozenGraph
<1>. QED  BY <1>1, InvariantHolds, PTL

(* materialize that returned without raising leaves the graph of the        *)
(* sources salsa has with everything its plugins emitted; a failed plugin   *)
(* leaves nothing of any.                                                   *)
THEOREM RebuildsAreCurrent == Spec => []RebuiltIsCurrent
<1>1. Ids(Emitted) = UNION {{results[p].batch[i][1] : i \in DOMAIN results[p].batch} : p \in Plugin}
  BY DEF Ids, Emitted, Entries
<1>2. IInv => RebuiltIsCurrent
  BY <1>1 DEF IInv, Pass, Rebuilt, Failed, RebuiltIsCurrent
<1>. QED  BY <1>2, InvariantHolds, PTL

(* What a step of one reader leaves the readers with.                       *)
LEMMA Answered ==
  ASSUME TypeInv, NEW r \in Reader
  PROVE  /\ \A q \in Reader : q # r /\ (Query(r) \/ Parked(r) \/ Read(r)) => query'[q] = query[q]
         /\ Parked(r) => query'[r].saw = query[r].saw
         /\ Read(r) => query'[r].saw = outputs
         /\ Query(r) => query'[r].saw \in {query[r].saw, NoOutputs, outputs}
         /\ Query(r) /\ borrow = "mut" => query'[r].saw = NoOutputs
<1>1. query[r] \in [pc : {"idle", "park", "reattach"}, left : Nat, saw : Outputs]
  BY DEF TypeInv
<1>2. \A graph : Told(r, graph).saw = graph
  BY <1>1 DEF Told
<1>3. ASSUME Query(r) PROVE \E now : /\ query' = [query EXCEPT ![r] = now]
                                     /\ now.saw \in {query[r].saw, NoOutputs, outputs}
                                     /\ borrow = "mut" => now.saw = NoOutputs
  <2> DEFINE parked == [query[r] EXCEPT !.pc = "park", !.left = @ - 1]
  <2>1. parked.saw = query[r].saw
    BY <1>1
  <2>2. \/ query' = [query EXCEPT ![r] = Told(r, NoOutputs)]
        \/ query' = [query EXCEPT ![r] = Told(r, outputs)] /\ borrow # "mut"
        \/ query' = [query EXCEPT ![r] = parked] /\ borrow # "mut"
    BY <1>3 DEF Query
  <2> HIDE DEF parked
  <2>. QED  BY <1>2, <2>1, <2>2
<1>4. ASSUME Parked(r) PROVE \E now : query' = [query EXCEPT ![r] = now] /\ now.saw = query[r].saw
  <2> DEFINE now == [query[r] EXCEPT !.pc = "reattach"]
  <2>1. now.saw = query[r].saw
    BY <1>1
  <2>2. query' = [query EXCEPT ![r] = now]
    BY <1>4 DEF Parked
  <2> HIDE DEF now
  <2>. QED  BY <2>1, <2>2
<1>5. ASSUME Read(r) PROVE \E now : query' = [query EXCEPT ![r] = now] /\ now.saw = outputs
  <2> DEFINE now == [query[r] EXCEPT !.pc = "idle", !.saw = outputs]
  <2>1. now.saw = outputs
    BY <1>1
  <2>2. query' = [query EXCEPT ![r] = now]
    BY <1>5 DEF Read
  <2> HIDE DEF now
  <2>. QED  BY <2>1, <2>2
<1>. QED  BY <1>3, <1>4, <1>5 DEF TypeInv

(* Outputs without their builder are only ever answered from after a build  *)
(* that failed, never from one in progress: materialize holds the context   *)
(* mutably until the new outputs are in.                                    *)
THEOREM HusksComeFromFailures == Spec => HuskOnlyAfterFailure
<1> DEFINE Step == \A r \in Reader :
             query'[r].saw # query[r].saw /\ query'[r].saw.version > 0 /\ ~query'[r].saw.builder
               => call.pc \in {"idle", "enter"} /\ call.outcome # "rebuilt"
<1>1. ASSUME IInv, [Next]_vars PROVE [Step]_vars
  <2> SUFFICES ASSUME Next, NEW q \in Reader, query'[q].saw # query[q].saw,
                      query'[q].saw.version > 0, ~query'[q].saw.builder
               PROVE  call.pc \in {"idle", "enter"} /\ call.outcome # "rebuilt"
    BY <1>1
  <2>1. PICK r \in Reader : Query(r) \/ Parked(r) \/ Read(r)
    <3>1. query' # query
      OBVIOUS
    <3>. QED  BY <3>1 DEF Next, Answer, Materialize, Edit, NewContext, ReMaterialize, Enter, TakeBuilder,
                BuildFails, BuildDone, Swap, LockPass, RunPlugin, JoinPlugins, Collect, LockApply, ApplyOp,
                ApplyFails, ApplyFlags, Reattach, Persist
  <2>2. Free /\ q = r /\ (query'[r].saw = outputs \/ query'[r].saw = NoOutputs)
    <3>1. CASE Query(r)
      BY <1>1, <3>1, Answered DEF IInv, Query
    <3>2. CASE Parked(r)
      BY <1>1, <3>2, Answered DEF IInv
    <3>3. CASE Read(r)
      BY <1>1, <3>3, Answered DEF IInv, Read
    <3>. QED  BY <2>1, <3>1, <3>2, <3>3
  <2>3. query'[r].saw = outputs /\ outputs.version > 0 /\ ~outputs.builder
    BY <2>2, EmptyGraphs
  <2>4. call.pc \notin {"take", "swap"}
    BY <1>1, <2>2 DEF IInv, Holds, Free, Builder, Nobody
  <2>5. call.pc # "build"
    <3> SUFFICES ASSUME borrow = "mut" PROVE FALSE
      BY <1>1 DEF IInv, Holds
    <3>1. ~InFlight(r)
      BY <1>1 DEF IInv, Holds
    <3>2. Query(r)
      BY <2>1, <3>1 DEF InFlight, Parked, Read
    <3>3. query'[r].saw = NoOutputs
      BY <1>1, <3>2, Answered DEF IInv, Query
    <3>. QED  BY <2>2, <3>3, EmptyGraphs
  <2>. QED  BY <1>1, <2>3, <2>4, <2>5 DEF IInv, Husk
<1>. QED  BY <1>1, InvariantHolds, PTL DEF Spec, HuskOnlyAfterFailure
==============================================================================
