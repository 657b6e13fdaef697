-------------------------------- MODULE Session --------------------------------
(***************************************************************************)
(* One Analysis (src/python/dead_cst/analyze.py) over one ProjectContext   *)
(* (src/runtime/src/project.rs): the calls of the thread that builds, the  *)
(* rayon workers of the plugin pass, and other Python threads that query   *)
(* the context, such as a progress callback.                               *)
(*                                                                         *)
(* Three locks meet here.  The GIL lets one Python thread run and is       *)
(* released around the workers and around a write that has to wait.  pyo3  *)
(* refuses (a query: RuntimeError) or panics (Py::borrow_mut inside        *)
(* materialize) when a mutable borrow of the context meets another one.    *)
(* `outputs' is a parking_lot RwLock: a queued writer turns plain readers  *)
(* away, a recursive reader only waits while nobody else reads.            *)
(*                                                                         *)
(* The graph is abstract here: the version of the sources it was built     *)
(* from and the operations of the plugin pass that landed in it.           *)
(***************************************************************************)
EXTENDS Naturals, Sequences, FiniteSets, SequencesExt

CONSTANTS
  Reader,            \* the Python threads that query
  Emissions,         \* per plugin, in order of registration: the batches it may emit
  MaxEdits,          \* bound: edits on disk
  MaxQueries         \* bound: queries of one thread

(* An operation is <<id, kind, inRange>>, kind "edge" or "flag".            *)
Ops == UNION {UNION {{batch[i] : i \in DOMAIN batch} : batch \in Emissions[p]} : p \in DOMAIN Emissions}

Builder == "builder"
Nobody  == "nobody"
Plugin  == DOMAIN Emissions

ASSUME SessionAssumption ==
  /\ Emissions \in Seq(SUBSET Seq(Ops))
  /\ \A op \in Ops : op[2] \in {"edge", "flag"} /\ op[3] \in BOOLEAN
  /\ Builder \notin Reader
  /\ MaxEdits \in Nat /\ MaxQueries \in Nat

VARIABLES
  disk,      \* the version of the sources on disk
  db,        \* the version salsa has
  kept,      \* Analysis._ctx is set
  outputs,   \* BuildOutputs
  gil,       \* who holds it
  borrow,    \* the pyo3 borrow flag of the context: "none", "shared", "mut"
  lock,      \* [writer, queued : BOOLEAN, readers : set of threads]
  call,      \* the building thread: [pc, outcome, batch, next]
  results,   \* of the workers of this pass: [done, error, batch, saw]
  query      \* per reader: [pc, left, saw]

vars == <<disk, db, kept, outputs, gil, borrow, lock, call, results, query>>

NoOutputs == [version |-> 0, builder |-> FALSE, batch |-> <<>>, landed |-> {}]
Idle == [done |-> FALSE, error |-> FALSE, batch |-> <<>>, saw |-> NoOutputs]

Free == gil = Nobody
Goto(pc) == call' = [call EXCEPT !.pc = pc]

(* The call is over and the GIL is given back.                              *)
Return(outcome) ==
  /\ call' = [pc |-> "idle", outcome |-> outcome, batch |-> <<>>, next |-> 1]
  /\ gil' = Nobody
  /\ kept' = (kept \/ outcome = "rebuilt")

-----------------------------------------------------------------------------
(* The building thread.                                                    *)

Edit ==
  /\ disk <= MaxEdits
  /\ disk' = disk + 1
  /\ UNCHANGED <<db, kept, outputs, gil, borrow, lock, call, results, query>>

(* materialize_all without a context makes a new one.                       *)
NewContext ==
  /\ call.pc = "idle" /\ ~kept /\ Free
  /\ db' = disk /\ outputs' = NoOutputs
  /\ Goto("enter")
  /\ UNCHANGED <<disk, kept, gil, borrow, lock, results, query>>

(* re_materialize: apply_changes needs the context mutably, and a batch     *)
(* that moves nothing ends the call.                                        *)
ReMaterialize ==
  /\ call.pc = "idle" /\ kept /\ Free
  /\ \/ borrow # "none" /\ Return("raised") /\ UNCHANGED db
     \/ borrow = "none" /\ db = disk /\ Return("skipped") /\ UNCHANGED db
     \/ /\ borrow = "none" /\ db # disk
        /\ db' = disk
        /\ Goto("enter")
        /\ UNCHANGED <<gil, kept>>
  /\ UNCHANGED <<disk, outputs, borrow, lock, results, query>>

(* materialize borrows the context mutably until the build is done: no      *)
(* query parks while nothing is being written, so nobody else borrows it.   *)
Enter ==
  /\ call.pc = "enter" /\ Free /\ borrow = "none"
  /\ borrow' = "mut" /\ gil' = Builder
  /\ Goto("take")
  /\ UNCHANGED <<disk, db, kept, outputs, lock, results, query>>

(* outputs.write() with the GIL in hand.                                    *)
Unlocked == ~lock.writer /\ ~lock.queued /\ lock.readers = {}

(* Mutant: the context is not borrowed while the workers build.             *)
TakeBuilderUnborrowed ==
  /\ call.pc = "take" /\ Unlocked
  /\ outputs' = [outputs EXCEPT !.builder = FALSE]
  /\ gil' = Nobody
  /\ borrow' = "none"
  /\ Goto("build")
  /\ UNCHANGED <<disk, db, kept, lock, results, query>>

(* The carried builder leaves the old outputs; the workers run GIL-free.    *)
TakeBuilder ==
  /\ call.pc = "take" /\ Unlocked
  /\ outputs' = [outputs EXCEPT !.builder = FALSE]
  /\ gil' = Nobody
  /\ Goto("build")
  /\ UNCHANGED <<disk, db, kept, borrow, lock, results, query>>

BuildFails ==
  /\ call.pc = "build" /\ Free
  /\ borrow' = "none"
  /\ Return("raised")
  /\ UNCHANGED <<disk, db, outputs, lock, results, query>>

BuildDone ==
  /\ call.pc = "build" /\ Free
  /\ gil' = Builder /\ borrow' = "none"
  /\ Goto("swap")
  /\ UNCHANGED <<disk, db, kept, outputs, lock, results, query>>

(* Mutant: what the last plugin pass left stays.                            *)
FreshKeepingOps == [outputs EXCEPT !.version = db, !.builder = TRUE]

Fresh == [version |-> db, builder |-> TRUE, batch |-> <<>>, landed |-> {}]

(* The new outputs are in; extract_plugin_jobs may refuse a plugin.         *)
Swap ==
  /\ call.pc = "swap" /\ Unlocked
  /\ outputs' = Fresh
  /\ \/ Return("raised")
     \/ gil' = Nobody /\ Goto("pass") /\ UNCHANGED kept
  /\ results' = [p \in Plugin |-> Idle]
  /\ UNCHANGED <<disk, db, borrow, lock, query>>

(* The pass reads the outputs under one read lock, without the GIL.         *)
LockPass ==
  /\ call.pc = "pass" /\ ~lock.writer /\ ~lock.queued
  /\ lock' = [lock EXCEPT !.readers = @ \cup {Builder}]
  /\ Goto("plugins")
  /\ UNCHANGED <<disk, db, kept, outputs, gil, borrow, results, query>>

(* A worker: run, and its operations or its error.                          *)
RunPlugin(p) ==
  /\ call.pc = "plugins" /\ ~results[p].done
  /\ \/ results' = [results EXCEPT ![p] = [done |-> TRUE, error |-> TRUE, batch |-> <<>>, saw |-> outputs]]
     \/ \E batch \in Emissions[p] :
          results' = [results EXCEPT ![p] = [done |-> TRUE, error |-> FALSE, batch |-> batch, saw |-> outputs]]
  /\ UNCHANGED <<disk, db, kept, outputs, gil, borrow, lock, call, query>>

(* Mutant: the read guard outlives the pass.                                *)
JoinPluginsLocked ==
  /\ call.pc = "plugins" /\ \A p \in Plugin : results[p].done
  /\ Goto("collect")
  /\ UNCHANGED <<disk, db, kept, outputs, gil, borrow, lock, results, query>>

JoinPlugins ==
  /\ call.pc = "plugins" /\ \A p \in Plugin : results[p].done
  /\ lock' = [lock EXCEPT !.readers = @ \ {Builder}]
  /\ Goto("collect")
  /\ UNCHANGED <<disk, db, kept, outputs, gil, borrow, results, query>>

Failed == \E p \in Plugin : results[p].error

(* Mutant: the plugins before the one that failed get their way.            *)
CollectAvailable ==
  /\ call.pc = "collect" /\ Free
  /\ lock' = [lock EXCEPT !.queued = TRUE]
  /\ call' = [call EXCEPT !.pc = "apply", !.batch = FlattenSeq([p \in Plugin |-> results[p].batch])]
  /\ outputs' = [outputs EXCEPT !.batch = call'.batch]
  /\ UNCHANGED <<disk, db, kept, gil, borrow, results, query>>

(* Every plugin's operations in order of registration; the first error      *)
(* drops them all.  An empty batch does not touch the lock.                 *)
Collect ==
  LET batch == FlattenSeq([p \in Plugin |-> results[p].batch])
  IN  /\ call.pc = "collect" /\ Free
      /\ \/ Failed /\ Return("raised") /\ UNCHANGED <<lock, outputs>>
         \/ /\ ~Failed /\ batch = <<>>
            /\ gil' = Builder /\ Goto("persist")
            /\ UNCHANGED <<kept, lock, outputs>>
         \/ /\ ~Failed /\ batch # <<>>
            /\ lock' = [lock EXCEPT !.queued = TRUE]
            /\ call' = [call EXCEPT !.pc = "apply", !.batch = batch]
            /\ outputs' = [outputs EXCEPT !.batch = batch]
            /\ UNCHANGED <<gil, kept>>
      /\ UNCHANGED <<disk, db, borrow, results, query>>

(* Mutant: the operations are applied under a read lock.                    *)
LockApplyShared ==
  /\ call.pc = "apply"
  /\ lock' = [lock EXCEPT !.queued = FALSE]
  /\ Goto("applying")
  /\ UNCHANGED <<disk, db, kept, outputs, gil, borrow, results, query>>

LockApply ==
  /\ call.pc = "apply" /\ lock.queued /\ lock.readers = {}
  /\ lock' = [lock EXCEPT !.writer = TRUE, !.queued = FALSE]
  /\ Goto("applying")
  /\ UNCHANGED <<disk, db, kept, outputs, gil, borrow, results, query>>

(* apply_prepared_batch: an edge lands at once, a flag at the very end, and *)
(* an index out of range ends it there.                                     *)
ApplyOp ==
  LET op == call.batch[call.next]
  IN  /\ call.pc = "applying" /\ call.next <= Len(call.batch) /\ op[3]
      /\ outputs' = [outputs EXCEPT !.landed = IF op[2] = "edge" THEN @ \cup {op[1]} ELSE @]
      /\ call' = [call EXCEPT !.next = @ + 1]
      /\ UNCHANGED <<disk, db, kept, gil, borrow, lock, results, query>>

ApplyFails ==
  /\ call.pc = "applying" /\ call.next <= Len(call.batch) /\ ~call.batch[call.next][3]
  /\ lock' = [lock EXCEPT !.writer = FALSE]
  /\ Goto("failed")
  /\ UNCHANGED <<disk, db, kept, outputs, gil, borrow, results, query>>

ApplyFlags ==
  /\ call.pc = "applying" /\ call.next > Len(call.batch)
  /\ outputs' = [outputs EXCEPT !.landed = @ \cup {call.batch[i][1] : i \in DOMAIN call.batch}]
  /\ lock' = [lock EXCEPT !.writer = FALSE]
  /\ Goto("applied")
  /\ UNCHANGED <<disk, db, kept, gil, borrow, results, query>>

Reattach ==
  /\ Free
  /\ \/ call.pc = "failed" /\ Return("raised")
     \/ call.pc = "applied" /\ gil' = Builder /\ Goto("persist") /\ UNCHANGED kept
  /\ UNCHANGED <<disk, db, outputs, borrow, lock, results, query>>

(* The registries are stored under one more mutable borrow.                 *)
Persist ==
  /\ call.pc = "persist"
  /\ IF borrow = "none" THEN Return("rebuilt") ELSE Return("panic")
  /\ UNCHANGED <<disk, db, outputs, borrow, lock, results, query>>

-----------------------------------------------------------------------------
(* A query, from another Python thread.                                    *)

InFlight(r) == query[r].pc # "idle"

(* The last borrow that goes leaves the flag free.                          *)
Unborrowed(r) == IF \E q \in Reader \ {r} : InFlight(q) THEN "shared" ELSE "none"

(* One query fewer is left, and this is its answer.                          *)
Told(r, graph) == [query[r] EXCEPT !.left = @ - 1, !.saw = graph]

(* try_read succeeds, or the GIL is released to wait.                       *)
Query(r) ==
  /\ kept /\ Free /\ ~InFlight(r) /\ query[r].left > 0
  /\ \/ /\ borrow = "mut"
        /\ query' = [query EXCEPT ![r] = Told(r, NoOutputs)]
        /\ UNCHANGED borrow
     \/ /\ borrow # "mut" /\ ~lock.writer /\ ~lock.queued
        /\ query' = [query EXCEPT ![r] = Told(r, outputs)]
        /\ UNCHANGED borrow
     \/ /\ borrow # "mut" /\ (lock.writer \/ lock.queued)
        /\ borrow' = "shared"
        /\ query' = [query EXCEPT ![r] = [query[r] EXCEPT !.pc = "park", !.left = @ - 1]]
  /\ UNCHANGED <<disk, db, kept, outputs, gil, lock, call, results>>

(* lock_shared_recursive passes a queued writer while others read.          *)
Parked(r) ==
  /\ query[r].pc = "park" /\ ~lock.writer
  /\ lock.queued => lock.readers # {}
  /\ lock' = [lock EXCEPT !.readers = @ \cup {r}]
  /\ query' = [query EXCEPT ![r].pc = "reattach"]
  /\ UNCHANGED <<disk, db, kept, outputs, gil, borrow, call, results>>

Read(r) ==
  /\ query[r].pc = "reattach" /\ Free
  /\ query' = [query EXCEPT ![r] = [query[r] EXCEPT !.pc = "idle", !.saw = outputs]]
  /\ lock' = [lock EXCEPT !.readers = @ \ {r}]
  /\ borrow' = Unborrowed(r)
  /\ UNCHANGED <<disk, db, kept, outputs, gil, call, results>>

-----------------------------------------------------------------------------
Init ==
  /\ disk = 1 /\ db = 0
  /\ kept = FALSE
  /\ outputs = NoOutputs
  /\ gil = Nobody /\ borrow = "none"
  /\ lock = [writer |-> FALSE, queued |-> FALSE, readers |-> {}]
  /\ call = [pc |-> "idle", outcome |-> "none", batch |-> <<>>, next |-> 1]
  /\ results = [p \in Plugin |-> Idle]
  /\ query = [r \in Reader |-> [pc |-> "idle", left |-> MaxQueries, saw |-> NoOutputs]]

Materialize ==
  \/ Enter \/ TakeBuilder \/ BuildFails \/ BuildDone \/ Swap
  \/ LockPass \/ JoinPlugins \/ Collect
  \/ LockApply \/ ApplyOp \/ ApplyFails \/ ApplyFlags \/ Reattach \/ Persist

Answer(r) == Parked(r) \/ Read(r)

Next ==
  \/ Edit \/ NewContext \/ ReMaterialize
  \/ Materialize
  \/ \E p \in Plugin : RunPlugin(p)
  \/ \E r \in Reader : Query(r) \/ Answer(r)

(* A call that was made goes on; nobody has to make one.                    *)
Spec ==
  /\ Init /\ [][Next]_vars
  /\ WF_vars(Materialize)
  /\ \A p \in Plugin : WF_vars(RunPlugin(p))
  /\ \A r \in Reader : WF_vars(Answer(r))

-----------------------------------------------------------------------------
(* Properties.                                                             *)

(* What is left of a batch: all of it, or what came before the first index  *)
(* out of range -- of which only the edges land.                            *)
Landing(batch) ==
  LET wrong == {i \in DOMAIN batch : ~batch[i][3]}
      before(i) == \A j \in wrong : i < j
  IN  {batch[i][1] : i \in {k \in DOMAIN batch : wrong = {} \/ (before(k) /\ batch[k][2] = "edge")}}

(* Whenever it runs, a query sees one build, before or after the batch of   *)
(* its plugin pass, never in between; and never the husk of outputs whose   *)
(* builder is with a build in progress -- only with one that failed.        *)
QueriesSeeWholeGraphs ==
  \A r \in Reader :
    LET saw == query[r].saw
    IN  saw # NoOutputs =>
          /\ saw.landed \in {{}, Landing(saw.batch)}
          /\ saw.batch = <<>> => saw.landed = {}

HuskOnlyAfterFailure ==
  [][\A r \in Reader :
       query'[r].saw # query[r].saw /\ query'[r].saw.version > 0 /\ ~query'[r].saw.builder
         => call.pc \in {"idle", "enter"} /\ call.outcome # "rebuilt"]_vars

(* Every plugin of a pass sees the same graph: this build's, untouched by   *)
(* any plugin (the frozen-graph contract of materialize).                   *)
PluginsSeeFrozenGraph ==
  call.pc \in {"plugins", "collect"} =>
    \A p \in Plugin : results[p].done =>
      LET saw == results[p].saw
      IN  saw.version = db /\ saw.builder /\ saw.batch = <<>> /\ saw.landed = {}

(* A call that rebuilt and returned leaves the graph of the sources salsa   *)
(* has, with everything its plugins emitted; one whose plugins failed, the  *)
(* graph without any of it.                                                 *)
RebuiltIsCurrent ==
  /\ call.outcome = "rebuilt" /\ call.pc = "idle" =>
       /\ outputs.version = db /\ outputs.builder
       /\ outputs.landed = UNION {{results[p].batch[i][1] : i \in DOMAIN results[p].batch} : p \in Plugin}
  /\ Failed => outputs.landed = {}

(* Every call that was made returns, a query's or a build's: the GIL, the   *)
(* borrow flag and the lock never wait for each other in a circle.          *)
CallsReturn ==
  /\ (call.pc # "idle") ~> (call.pc = "idle")
  /\ \A r \in Reader : InFlight(r) ~> ~InFlight(r)

(* materialize is entered with no query in flight and needs the context     *)
(* mutably again at its end ("the parallel pass's borrows have ended").     *)
NeverPanics == call.outcome # "panic"

(* "Earlier ops in the batch still land".                                   *)
EarlierOpsLand ==
  call.pc = "failed" => {call.batch[i][1] : i \in 1 .. (call.next - 1)} \subseteq outputs.landed

(* "The existing graph is already current".                                 *)
SkippedIsCurrent ==
  call.outcome = "skipped" /\ call.pc = "idle" =>
    outputs.version = db /\ outputs.builder /\ ~Failed
=============================================================================
