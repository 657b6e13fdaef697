# dead-cst in TLA+

dead-cst finds dead Python code. A Rust runtime (`runtime/src`) reads every file
of a project through ty's salsa database, turns each file into a payload of
nodes and references, resolves the references across files, and assembles one
graph; plugins add their own edges and entry-point flags; reachability from the
flagged nodes decides what is dead. The graph lives as long as the process: after
every batch of file changes it is brought up to date *incrementally*, and the
claim the whole design rests on is that the result is "bit-identical to a fresh
build by construction" (CHANGELOG.md, line 306; `tests/test_incremental.py`
samples it). This project models that machinery, checks the claim exhaustively on
small projects and proves the part of it that is about the cache for all projects.
Around it are things that run beside, before or on the graph: the session (locks,
failures, plugin pass), the plugins' ids, sets and registries, the queries plugins ask
of a file, the dead regions of a file, the progress poller, and the walks that decide
what is dead.

Paths below are relative to the repository; `project.rs` is
`runtime/src/project.rs`, and so on.

## 1. Inventory

| Component | State it keeps | Operations | What is hard about it |
|---|---|---|---|
| Change events, pending scope (`project.rs`) | `pending_scope`: the files changed since the last build, or unknown | `apply_changes`, taken by `materialize`, settled when a build completes | batches, builds and failed builds in any order must not lose an edit |
| File payloads (`file_payload.rs`, `file_extraction.rs`) | pure salsa queries | `file_to_nodes`, `resolution_surface_fp`, `build_class_bases` | a payload depends on other files through `import *` |
| Reference rows (`file_ref_edges.rs`) | pure salsa query | `file_to_refspecs` | rows must depend on the file's surface alone |
| Member resolution (`refspec.rs`, `helpers.rs`) | none | `resolve_binding`, `resolve_use`, `splice_through`, `resolve_member_def` | the recorded read set must cover everything the answer depends on; a chain may come back to itself |
| Resolve cache (`project.rs`) | answers, read sets, liveness, rows, fingerprints, the class memo | filled or refreshed by the resolve arm of `assemble_graph` | stale answers; slots nothing references; an answer that comes back to life |
| Graph assembly and builder (`project.rs`, `builder.rs`) | nodes, file blocks, tombstones, anchors, parts, base flags, edges | mint, intern, re-translate, stamp, refold, compact | cached edges hold dense ids; flags of the last plugin pass must vanish |
| Materialize and plugin pass (`project.rs`) | `outputs` behind a read-write lock, plugin list | `materialize`, `apply_prepared_batch` | errors after the swap; GIL against lock |
| Plugin sets (`native_plugins.rs`, `project.rs`) | plugin objects, process-wide ids, interned lists of ids, memoized operations | construct, `add_plugin`, `clear_plugins`, `per_file_plugin_ops`, the pass | salsa's key is an id whose meaning salsa does not track; a changed set meets clean files |
| Flag and topic registries (`flag_registry.rs`, `topic_registry.rs`) | name to bit, name to handle | seed, register, look up | width exhaustion, conflicting redeclaration, bits that change hands between builds |
| File analysis (`file_extraction.rs`, `string_fold.rs`, `native_plugins.rs`, `helpers.rs`) | none (pure salsa queries) | `file_extraction`, `top_level_string_constants`, the live and the fact-based queries | three implementations of the same question, and a string that is not always what it was |
| Dead branches (`helpers.rs`) | none | `build_scope_table`, `detect_dead_ranges` | a fixpoint that moves both ways, in hash order; what is marked dead must not run |
| Queries, reachability (`project.rs`, `builder.rs`) | none | `bfs`, lookups | tombstones among the nodes |
| Progress (`progress.rs`, `analyze.py`) | atomic counters, a polling thread | snapshot, dispatch, stop | unsynchronised reads, the final dispatch |
| Session (`analyze.py`) | the context, the plugins | `materialize_all`, `re_materialize`, queries | skipped rebuilds after failures |
| Dead tests (`analyze.py`) | none | `_dead_test_indices` | a mutual fixpoint computed by one interleaved walk |
| Graph file (`io.rs`, `graph.py`) | files | `write_graph`, `read_graph`, `LoadedGraph.reachable` | ids renumbered past tombstones on save |
| Codemod (`codemod.py`) | files | removal passes | not modelled |
| Command line (`cli.py`), plugin host, examples | none | - | not modelled |

How they interact. Python's `Analysis` owns a `ProjectContext`. `apply_changes`
gives a batch to ty and folds it into `pending_scope`. `materialize` takes the
scope, the resolve cache and the builder *out* of the old outputs, runs
`build_project_graph` (gate, populate, `assemble_graph`), swaps the new outputs
in, settles the scope, and then runs the project-wide plugins on the finished
graph, applying their operations at the end. Queries read the outputs under the
lock. Everything cross-file is decided in `assemble_graph`; salsa's own
invalidation, below it, is external and taken as correct.

## 2. Modules

```
SourceTree                sources as salsa sees them
  Resolution              payloads, rows, resolution: pure operators of the sources
  ResolveCache            scope + cache; the resolution is a parameter
    GraphAssembly         + builder; what is served, and saved
      GraphAssemblyProofs the cache's invariant and its consequences; that the assembly
                          implements ResolveCache and inherits its theorems; the
                          builder's invariants and what they give; that it implements
                          FreshGraph; that what is saved answers the same, proved
  ResolutionTables        Resolution put in place of ResolveCache's parameters
    NameReads             what Python looks up when it reads a chain (external reference)
      MCResolveCache      runs resolve_cache, class_memo
      MCShadowedStar      run shadowed_star
    AssemblyTables        + the tables of GraphAssembly
      MCGraphAssembly     run graph_assembly
GraphFile                 a graph saved and loaded; GraphAssembly saves the builder's
  GraphFileProofs         a graph that is saved and loaded is the same, proved
FreshGraph                abstract: a completed build serves what its sources determine

Session                   Analysis + ProjectContext: GIL, borrow flag, lock, failures
  SessionProofs           its invariant and what queries, plugins and callers see, proved
  MCSession               runs session, skipped_rebuild
FlattenProofs             sequences flattened: lemmas for the proofs that cite them
ProgressPoller            counters, polling thread, stop()
  ProgressPollerProofs    events are well formed and none is missing, proved
  MCProgress              run progress
FlagRegistry              flags and topics: pure operators on registries
  PluginSets              ids, sets, per-file operations, the pass, the registries
    PluginSetsProofs      its invariant and all of its properties, proved
    MCPluginSets          run plugin_sets
PythonSyntax              files as the parser hands them on (external)
  StringFold              string constants
    FileFacts             what is extracted from a file, and matchers over it
      FileQueries         the queries of one file
        ProjectQueries    the same questions over the project
          MainBlock       the layout of a file; its main block by lines and by bytes
          FileAnalysis    the files there are; the queries held against each other
            MCFileAnalysis  run file_analysis
  BranchSyntax            bindings, constant folding, terminators, the walk
  PythonRuns              what may run in a module (external reference)
DeadBranches              the truth tables of scopes; the syntax is a parameter
  DeadBranchesProofs      a module's table is the same in every order, proved
  BranchRuns              BranchSyntax in place; held against PythonRuns
    MCDeadBranches        runs dead_branches, scope_table_hang
Reachability              bfs and the queries built on it
  DeadTests               + the walks of _dead_test_indices
    DeadTestsProofs       walks return closures, these the fixpoint, proved
    MCDeadTests           run dead_tests
```

The groups meet at the graph. ResolveCache and GraphAssembly say what a build
puts into the outputs, one atomic step per build; Session says who may see the
outputs while that goes on, with the graph reduced to the version of its sources and
the operations that landed; PluginSets says what of it is the plugins' and under
which names; FileAnalysis and DeadBranches are about one file, before there is a graph;
Reachability and DeadTests take any graph a build may have left and ask about it.

**SourceTree, Resolution.** `s[f]` is the content of file `f`. A content has its
top-level names (definitions, classes with a base, import aliases), a star
import, the chains its statements read (a name, then attributes and calls), and a
layout number; two contents that
differ only in layout have the same names at other positions, which is what a
moved definition is to the cache. `FileNodes`, `Surface`, `Rows`, `Resolve`,
`ResolveClass` are translations of `file_to_nodes`, `resolution_surface_fp`,
`file_to_refspecs`, `resolve_member` and `resolve_member_def`. Abstracted: one
binding per name; the star import comes first; the modules that a variable holds or a
function returns are part of the content (how `module_values_for_def` finds them in a file
is left out); no `import a.b` without `as`, no dynamic imports (memoized exactly as member
references are), no standard library targets (they emit nothing), one directory to
resolve from; overload groups, `noqa`, dead branches, annotations, edge flags.

`resolve_use_into` and `splice_through` call each other down to a depth of 8
(`UseSpliceDepthCap`). `Landing` is one call, `SpliceThrough` the keys it goes on with, and
`ResolveUse` is everything within 8 steps of the key that was asked: the code has no visited
set and may come to a key twice, which adds nothing to a set of targets.

**NameReads.** The reference for uses: which members of which modules a chain looks up
when Python runs it, through imports, re-exports, variables that hold modules and functions
that return them. `ReadsAreResolved` compares it, after every build, with the answers in
the cache. Two cases are left out of the reference because the code leaves them out:
values of names that a star import brings in, which `splice_through` does not follow, and
packages that define the name of one of their submodules (`NamesClash`, see below).

**ResolveCache.** One variable per piece of state: `src` (what salsa shows),
`scope` (`pending_scope`), `known` (`path_to_file` of the outputs), `cache`
(`ResolveCache`), and `built`, a history variable: the sources of the last build
that completed. `ApplyChanged` is a `Changed` event for a known file, which may or
may not have changed; `ApplyStructural` stands for `Created`, `Deleted` and
`Rescan`. `FullBuild`, `IncrementalBuild` and `BuildFails` are the three outcomes
of `materialize` as the cache sees it. The incremental build is written in the
code's steps: gate (`InScope`), fingerprints (`Moved`), twins (`Dirty`), row gather
(`GatheredRows`), liveness (`GatheredKeys`), redo decision (`Redo`, `RedoClass`),
refreshed answers. What it relies on of the resolution is stated as assumptions:
`ReadSetsHonest` (an answer depends on the files it was read from alone),
`RowsHonest` (rows depend on the file and its twin). TLC evaluates both for module
Resolution in every run of MCResolveCache and MCGraphAssembly.

**GraphAssembly.** Adds `builder`. `Assembles` is `assemble_graph` in its stages:
`Minted` (restore base flags, tombstone dirty blocks, append new ones),
`Interned` (external anchors: mint, revive, collect), `Retranslated` (which parts
to rebuild), `Part`, `Stamped` (UNRESOLVED), `Refolded` (edges from parts, flag
snapshot). Its last line is the plugin pass, whose first error drops all operations.
`Gate` adds the coherence conditions and the compaction trigger to `InScope`. `Graph`
states what should be served with no ids, blocks, parts or caches in it. What it assumes of
its parameters, and where the code provides it:

- `OrdersAssumption`, `ExternalsAssumption`: paths are distinct, and an external anchor is
  told by the name of its module (the key of `external_nodes`).
- `PayloadsAssumption`: a payload starts with the module and has a node of its own for each
  definition; refs, rows and exports are of their own file, as `file_payload` reads one file.
- `PayloadsHonest`: a file that looks the same has the same payload, exports and per-file
  operations: they are salsa queries of that file. It fails where `RowsHonest` does, with a
  shadowed star name (finding 2).
- `TwinsOfStubs`, `PathsHonest`: the twin of a stub is the `.py` of the same stem
  (`peer_pyi_to_py`), and twins and parents are looked up by path among the files there are.
- `AnswersAreNodes`: what an answer names is a node of a payload or an external anchor, as
  answers are found by walking the payloads.
- `OpsAssumption`: an edge a project-wide plugin adds has two ends.
- `NodeRefsAssumption`: a node is a record that names its file or its external anchor, as a
  `SymbolNode` does; the file format takes the path out of it and puts it back.

TLC evaluates all of them in MCGraphAssembly, for module Resolution.

**GraphFile.** `Written` and `Loaded` are what `write_graph` puts in a file and
`read_graph` makes of it: nodes packed past the blanks, edges renumbered by a separate
count, paths behind a table. `SavedGraphAnswersTheSame` saves what a context would hand over
(`Context`) in every state of GraphAssembly and compares the loaded graph with the live
one: nodes, edges, `reachable`, and the file a second save gives.

**FreshGraph.** The promise: after a completed build the graph is a function of
the sources; a failed build serves nothing; edits leave the graph alone.
`ServesFreshGraph` (in GraphAssembly) says GraphAssembly implements it, with `graph` mapped to what
queries see (`Served`: live nodes and edges told by what they are, not by id).

**Session.** `call` is where the building thread is inside `materialize_all`,
`re_materialize` or `materialize`; `results` are the rayon workers of the plugin pass;
`query` the other Python threads. `gil`, `borrow` and `lock` are the three locks, each
with the rules of its implementation: pyo3 refuses or panics instead of waiting, a
queued writer of the `parking_lot` lock turns plain readers away and lets recursive
ones by while others read. Between two releases of the GIL a Python thread is one
step. Actions follow the body of `materialize` in order: `Enter`, `TakeBuilder`,
`BuildFails`/`BuildDone`, `Swap` (with `extract_plugin_jobs`, which may refuse),
`LockPass`, `RunPlugin`, `JoinPlugins`, `Collect`, then `apply_prepared_batch`
operation by operation (`LockApply`, `ApplyOp`, `ApplyFails`, `ApplyFlags`),
`Reattach` and `Persist`. `Enter` has no failure: the call before it needed the
context mutably too and nothing can borrow it in between, since queries keep a borrow
only while they wait for a writer. Left out: a second thread that builds.

**FlagRegistry, PluginSets.** A flag is a bit position, a mask a set of positions, a
registration answers whether it was accepted and with which registry. PluginSets has
four kinds of plugins as the code has: built-in per-file ones (their id is their kind),
configured ones (their id is looked up by a hash of the configuration), dual ones
loaded from libraries (an id each) and project-wide ones. `Construct` gives a plugin
object its id; `Extract` interns the list of per-file ids and takes the scope;
`Assemble` runs the query `per_file_plugin_ops` through `memo`, which salsa keeps per
file and list, and takes from it flags for the files it mints, edges for those it
translates again, facts for all; `Declare` registers one flag or topic at a time and may
raise; `RunPlugin` are the workers; `Apply` lets the stamps land and stores the
registries, or raises. `graph.under` is a history variable: the list a file's flags and
edges were made under. When the list changes, clean files keep what they have until
they are touched; `GraphHasWhatItsSetEmits` is therefore about files whose list is
today's, and `FactsAreThisBuilds`, which needs no such condition, about facts. What a
plugin emits is a table (`Templates`); which files are re-minted for reasons of
resolution is any set of files.

**PythonSyntax, StringFold, FileFacts, FileQueries, ProjectQueries, FileAnalysis.** A
file is a short sequence of statements from a catalogue; `Write` appends one, on a line
of its own or joined to the one before. The modules translate, in this order, the
constant folding of strings, `file_extraction` with its matchers over facts, the queries
of `PluginFileCtx` that walk the tree, and the `find_*_core` queries over the project's
indices. The properties hold the twins against each other and the folded strings against
an evaluation of the file (`States`, in FileAnalysis). Left out: star imports, lambdas,
comprehensions, `match`, regular expressions.

**MainBlock.** `MainBlockPlugin` finds the nodes of the block `if __name__ == "__main__":`
by the lines of block and nodes, `find_main_blocks_indices` by their bytes, in a file whose
text says `__main__` (`Says`). So here a file is laid out: `Text` is a sequence of pieces, names,
words and ends of lines, each a byte long. A suite is on the line of its clause or on
lines of its own, a clause follows on a new line, a statement may be spread over lines and
joined to the next by a semicolon. `LineAt` counts the ends of lines before an offset, as
the line index does; a range ends after its last byte; the range of an `if` has all of
its clauses, a node's is that of its name. `MainBlockIsKept` compares, for every layout of every
file of the run, the two implementations with what is written in the first statement that runs
only when the file is the program (`MainStatements`, by evaluating its test).
Left out: decorators on lines of their own, and star imports, whose statement node the plugin
keeps and the query does not.

**BranchSyntax, DeadBranches, BranchRuns.** `program` is a module; `scan` is one call of
`build_scope_table` with its place in the round; `Begin` picks the order in which the
hash map yields the names, `Visit` treats one name, `VisitAgain` starts the next round and
`Finish` walks the suite with the table, marks dead ranges and queues the scopes in it.
The code walks an inner scope on the spot; scopes share nothing but the table handed
down, so the order is immaterial. What a scope binds, what its bindings agree on and what the
walk finds are parameters of DeadBranches (`NamesIn`, `AgreedIn`, `WalkIn`); BranchSyntax
defines them on suites, by recursion over expressions and statements, and BranchRuns puts the
two together. DeadBranches assumes of them: a module has finitely many bindings and its walk
meets only scopes inside it (`ScopesAssumption`, `SyntaxAssumption`); and folding is
monotone (`NothingIsGuessed`): whoever knows the values of more names leaves no expression
open that was decided, nor decides it otherwise, as `evaluate_truthiness` decides nothing about
a name it does not know. TLC evaluates the three for every program of the runs. PythonRuns is
no code of this repository but the
reference: an abstract interpreter for the statements of the instances in which every
statement may raise and every function may be called at any time after its definition.
`NothingDeadRuns` compares the two wherever the tables saw all bindings of the names
they hold (`TablesSeeAll`). Left out: literals other than booleans and lists, `match`,
class bodies in the instances, the ranges under `TYPE_CHECKING`.

**ProgressPoller.** `counters` are the atomics of `progress.rs`; `book` what the poller
remembers; `thread` where each of the two dispatching threads is, with the snapshot it
took; `log` the events the callback was given. A snapshot is one step because it
holds the GIL, a dispatch is as many as it has callbacks because a callback lets the
GIL go. `JoinMayTimeOut` decides whether `stop()` may give up on the poller. Each
build has fresh counters (`reset_progress`), so one build is the whole life of both.

**Reachability, DeadTests.** `walk` is one run of `bfs` (or `_forward_closure`, or
`LoadedGraph.reachable`, the same loop). Its stack is a set: adjacency lists have no
meaningful order, so any pending node may be on top, and all orders are explored. A
duplicate that was visited meanwhile is dropped at once, where the code pops and skips
it. DeadTests has the backward walk (`Touch`), the walk forward from each test it
meets (`Exercise`) with their shared visited sets, and the two closures whose
difference is the answer. As in the code a seed that is also a test or a fixture is
not a production seed, whatever other flag it carries.

## 3. What the runs check

| Run | Instance | Checks | Shows |
|---|---|---|---|
| `resolve_cache` | 4 files: package, submodule that may be missing, star importer, consumer with a class; a consumer of `X.Z` or `X().Z` through two other files; a consumer of `P.Y` | `TypeOK`, `ScopeCoversEdits`, `MemoIsFresh`, `CleanRowsInSync`, `ReadsAreResolved` | no edit is lost, no answer is stale, the row cross-check never fires; what a chain looks up is what its module refers to |
| `class_memo` | the same | `ClassMemoIsFresh` | **violated**, finding 1 |
| `shadowed_star` | 2 files, a shadowed star name | `CleanFilesKeepTheirRows` | **violated**, finding 2 |
| `graph_assembly` | two sub-projects: package, star importer, consumer; stub, twin that comes and goes, consumer; two externals | `BuilderTypeOK`, `EdgesAvoidTombstones`, `EveryIdOwnedOnce`, `SavedGraphAnswersTheSame`, `ServesFreshGraph`, `IdsStayPut`, `DeadSlotsBounded` | incremental = fresh, stub-only flags and peer edges included; ids are stable, owned once and bounded; a graph saved at any point answers the same when loaded |
| `session` | two plugins, one with a possible index out of range; two querying threads, two queries each; one edit | `QueriesSeeWholeGraphs`, `PluginsSeeFrozenGraph`, `RebuiltIsCurrent`, `HuskOnlyAfterFailure`, `CallsReturn` | nobody sees half a batch or another build's husk; plugins see the frozen graph; no deadlock, every call returns |
| `skipped_rebuild` | the same, no queries | `SkippedIsCurrent` | **violated**, finding 3 |
| `plugin_sets` | two files, five plugins of all four kinds, one flag more than there are bits | `TypeOK`, `GraphHasWhatItsSetEmits`, `FactsAreThisBuilds`, `BitsNameTheirFlag`, `RegistriesOK`, `FirstErrorWins` | ids and memos never stand for another plugin; facts and bits are this build's; registries are one to one; the first error by registration wins |
| `file_analysis` | every file of up to 3 statements from a catalogue, beside a fixed file | `RecordedStringsAreReal`, `LiveFindsWhatFactsFind`, `FactTwinsAgree`, `GuardAdmitsMatches`, `MatchersAgree`, `MainBlockIsKept` | folded strings are real; the twin queries answer alike; the guard skips no file that matches; in every layout the main block is kept and nothing beside it |
| `dead_branches` | every compound statement in a loop and in a function; modules and functions that bind three names in every way | `ModuleTableHasNoOrder`, `NothingDeadRuns`, `SmallScopesSettle` | a module's table is the least fixpoint in every order; what is dead does not run; small scopes settle |
| `scope_table_hang` | a function that binds three names in a cycle | `EveryScopeSettles` | **violated**, finding 4 |
| `progress` | two files, one dirty; two plugins; callbacks return in time | `EventsWellFormed`, `StopDeliversEverything`, `StopReturns` | each event once and in order, nothing lost, `stop()` returns |
| `dead_tests` | every graph over 5 nodes and 10 possible edges, 3 kinds, 2 sets of flags, 2 masks | `WalkReturnsClosure`, `DeadTestsAreTheFixpoint`, `BlastIsTheirsAlone`, `RemovalLosesNothing`, `QuestionsAreAnswered` | walks return closures in every order; dead tests are the declarative fixpoint; removing the answer takes nothing from what stays, if no dead test is a seed or every live one is |

No run needs a state constraint. The state spaces are finite because the cache and
the builder are functions of a finite history: keys range over what the instance
can name, and the node table is kept finite by the code's own compaction trigger
(`DeadSlotsBounded` is the statement of that).

Bounds and why they suffice. Two contents per file are enough for "changed" and
"changed back"; the consumer in `resolve_cache` has three so that a reference can go
away for one build while its target moves and then come back. The star chain has
one hop in the runs; longer chains only lengthen read sets, which the proofs treat
in general. A chain in `resolve_cache` passes three files (an import, a re-export or a variable,
a function or a submodule), which the mutation of the cap to 1 cuts, and one variable is
read through itself, which the cap ends. Two externals are enough for the order of anchors, one for coming and
going. In Session two readers are enough for one to hold the lock while the other
waits behind a queued writer, two queries each for one before and one during a
rebuild, and `MaxEdits = 1` for a rebuild after the first build; two plugins for one
to fail after the other emitted. In PluginSets `MaxHandles`, `MaxPlugins` and `MaxBuilds`
are 2: two plugins for an order and a conflict, two builds for one that carries over what
the other left; four bits of which two are free, for three plugin flags. Three statements
are a constant, what rebinds it, and a call; the joined line needs two; a main block has one
before it and one after it. In DeadBranches
three names are the least that chase each other, and one nesting of compound statements
within another is what terminators look through. `graph_assembly` changes one file
between builds at a time (the cache run lets several change). ProgressPoller needs no
bound: a build ends. Five nodes let a test be live through another test, a cycle, a detour over an import or a
module, and a fixture that is a seed of its own.

Deadlock is checked in the cache, assembly and session runs: there every state has a
step, and in Session no set of threads waits in a circle. It is not in `progress`,
`dead_tests` and `dead_branches`, where an answered question is the end, nor in
`plugin_sets` and `file_analysis`, where a bound is.

Fairness. The cache and the assembly assume none; what they check is safety. Session
assumes weak fairness of the building thread inside a call, of each worker and of each
query in flight: threads of an operating system that are not blocked run on. Nobody
has to make a call. ProgressPoller assumes the same of the build, the poller and the
main thread, so also that a callback returns. DeadTests and DeadBranches are one thread
computing. PluginSets and FileAnalysis assume none.

### Findings

1. `ClassMemoIsFresh`. The class-base memo (`project.rs`, 1655-1670) has neither
   liveness nor the resurrection rule of the member memo. Build with `class Z(X)`;
   edit so that nothing subclasses `X` and `X`'s module moves it; edit the class back in:
   the key is found, its read set is clean *now*, and the base keeps the position `X`
   had two builds ago, which no node has. The subclass edge is gone from the
   hierarchy until the next full build.
2. `CleanFilesKeepTheirRows`. The fingerprint of a star importer covers
   `exports_by_name` and `star_reexports`. A name it star-imports *and* shadows is in
   neither in a way that changes when the upstream gains it, yet it adds a node and a row
   to the importer. The file is taken for clean and the assertion "clean-file spec
   row out of sync" aborts the build. The instances of the passing runs have no
   shadowed star name; there `RowsHonest` holds and the assertion is safe.

3. `SkippedIsCurrent`. `re_materialize` skips a batch that moves no revision because "the
   existing graph is already current". After a failed rebuild it is not: the events
   were applied by the call that failed, and the retry gets an emptied builder or a graph
   without the plugins' operations, without an error.
4. `EveryScopeSettles`. `build_scope_table` (`helpers.rs`, 1813-1858) calls its poison set
   "the convergence guarantee", but only a name that flips is poisoned. One whose value
   becomes unknown is dropped and may come back. `def f(c): a = c; b = a; c = b` in a
   module with `a = True`: the inherited value of `a` moves to `b`, to `c`, to `a` and so
   on, each name losing it as the next gets it, when the map yields `c`, `b`, `a`. The
   analysis of that file never ends. `SmallScopesSettle`: with two names it does.

Other statements of the source that do not hold. They are defined beside the models and
checked by no run; to see a counterexample name the property in the cfg:

- NameReads `UsesLandInTheNamespace`: a use "lands on whatever is in the upstream namespace"
  (`refspec.rs`, 79-82); `P.Y` lands on the submodule when `P` also binds `Y` itself, as
  `resolve_binding` knows and `resolve_use` does not, and that binding looks unused.
- Session `NeverPanics`: `materialize` ends with `borrow_mut` on the ground that "the
  parallel pass's borrows have ended" (`project.rs`, 3770-3774); a query that waited for
  the write window may still hold its borrow.
- Session `EarlierOpsLand`: "Earlier ops in the batch still land" (`builder.rs`, 696-698);
  edges do, flags are applied after the loop.
- ProgressPoller `EventsWellFormed` with `JoinMayTimeOut = TRUE`: the join that is to
  "keep the dispatch single-threaded" (`analyze.py`, 308-323) gives up after a second.
- DeadTests `RemovalLosesNothing` without `TestsAreSeeds`: removing a dead test and what it
  props up "loses nothing a production entrypoint or a surviving test can observe"
  (`analyze.py`, 142-144). With `seed_flags` that leave `testcase` out, a dead test may be a
  seed by another of its flags while a live test is none; what both reach through a module
  then goes with the dead one.
- PluginSets, the hash of a configured plugin: a collision "only costs a needless recompute,
  never correctness" (`native_plugins.rs`, 918-919). `register_configured_per_file` takes
  equal hashes for equal configurations and gives the second plugin the id of the first.
  `PluginSetsAssumption` has no collisions.
- PluginSets `EveryPluginRan`: "run every registered plugin" (`project.rs`, `materialize`)
  is not so for the clean files of an incremental build after the set has changed.
- FileAnalysis `TwinsMatchIdentically`: declarations that share a line are told apart by
  range but not by line (`native_plugins.rs`, 355-362).
- FileAnalysis `EveryMainBlockIsKept`: `main_blocks` has "each top-level" main block
  (`native_plugins.rs`, 2025) and the example plugins keep "every" one; of a file with two
  the code has the first.
- FileAnalysis `MainBlockIsKept` without `Says`: the per-file example plugin has "the same
  `MainBlockPlugin` behaviour" as the project-wide one
  (`examples/per_file_main_block/src/lib.rs`, 3). With the test written
  `"__main" "__" == __name__` the tree has a main block and the text no `__main__`, so the
  second keeps nothing.
- FileAnalysis `ConstantsAreBoundOnce`: a constant that `except ... as NAME` or
  `import A.b` rebinds is folded all the same (`string_fold.rs`, 19-22).

And what no document promises: `NothingDeadRuns` without `TablesSeeAll`. A table sees the
top-level bindings of its scope only, so `a = False`, then `if c: a = True`, then `if a:`
has the last branch marked dead; so do loop variables, parameters that have the name of a
module constant, lists that grow, and methods, which inherit the table of their class.
The table of a function, unlike a module's, depends on the order of the map. The mark is
metadata (`DEAD_BRANCH`), and default reachability follows such edges.

## 4. What is proved

`GraphAssemblyProofs` begins with ResolveCache, and proves for every set of files, every set of
sources and every resolution that satisfies the assumptions:

- `TypeCorrect`: `Spec => []TypeOK`
- `NoEditLost`: `Spec => []ScopeCoversEdits`
- `CacheOfLastBuild`: `Spec => []CacheMatchesBuilt` (no run checks this one: with
  `ScopeCoversEdits` it gives `MemoIsFresh`, which is run)
- `IncrementalIsFresh`: `Spec => []MemoIsFresh`
- `CleanRowsNeverDrift`: `Spec => []CleanRowsInSync`

The argument. `MemoIsFresh` is not inductive: it says nothing between an edit and
the next build. The inductive invariant conjoins `TypeOK`, `ScopeCoversEdits`
(whatever differs from the cached build is in the scope) and `CacheMatchesBuilt` (the
cache is what resolving the *built* sources gives). An incremental build takes the
cache from `built` to `src`: a file outside `Dirty` is unchanged and has the same
surface, so its rows are (`RowsHonest`); a live answer outside `Redo` was
live before and read no dirty file, so it is the same (`ReadSetsHonest`). Without
the liveness clause in `Redo` the second step has no premise, and that is finding 1.

It goes on to prove that every behaviour of GraphAssembly is one of
ResolveCache (`AssemblyImplementsCache`: each step of the assembly is a cache
step or leaves the cache alone), and so inherits the theorems above:
`AssemblyTranslatesFreshAnswers`, `AssemblyLosesNoEdit`, `AssemblyCrossCheckHolds`.

and of the builder, for every payload that satisfies the assumptions of GraphAssembly:

- `BuilderInvariant`: `GraphSpec => []BuilderIInv`
- `BuilderTyped`: `GraphSpec => []BuilderTypeOK`
- `NoEdgeToTombstones`: `GraphSpec => []EdgesAvoidTombstones`
- `IdsOwnedOnce`: `GraphSpec => []EveryIdOwnedOnce`
- `IdsNeverMove`: `GraphSpec => IdsStayPut`
- `DeadSlotsAreBounded`: `GraphSpec => DeadSlotsBounded`

`BuilderIInv` adds three things to the invariant of the cache. `SlotsOK`: the live slots are
those of blocks and anchors, which are apart, and a slot is blank exactly where it is
tombstoned. `FlagsOK` and `EdgesOK`: the flag snapshot has every slot, edges and parts run
between live slots, a part leaves its own block. `OfBuilt`: blocks have the length of
the payloads of `built`, and an edge of a part to an anchor comes from a row of `built` whose
answer names that anchor. The proof follows `assemble_graph` stage by stage (`Minted`,
`Interned`, `Retranslated`, `Part`, `Stamped`, `Refolded`), one lemma each on what a stage does
to slots, then the plugin operations. The crux is a kept part: it is never remapped, so
what it points to must survive. A part that points into a tombstoned block is translated
again (`Retranslated`); and an anchor it reaches is wanted again because the rows and the
answers it comes from are unchanged, which is where the invariant of the cache is needed.

On top of it, that a build serves what its sources determine:

- `BuilderTellsSources`: `GraphSpec => [](cache.valid => Tells(builder, built))`
- `BuildsServeFreshGraph`: `GraphSpec => ServesFreshGraph`, which is `Fresh!Spec`

`BuilderIInv` says where a part may point; `Tells` says what the builder holds, by names
instead of ids. Each node with its snapshot of flags is the node of the file, UNRESOLVED
exactly when its import dangles; the live anchors are exactly the externals some answer
names; and a part is all the pairs of live slots whose names are an edge of the file
(`ExpectedEdges`), no more and no fewer. It is no invariant of the steps inside a build,
so the proof carries it through the stages: what minting and interning leave in each slot
(`SizedContents`), that stamping the retranslated files makes every import right, those of
kept files included, that a part translated anew is the file's edges (row by row, module,
twin and plugin edges), and that a part that is kept still is. The last is the crux: its old
edges say what they said, because rows, answers, twin and parent are unchanged; and no new
edge is missed, because whatever the file could now reach had its slot already. For a node of
a dirty file that is so since an edge into the old block would have had the part
translated again, and for an anchor since the externals that were named were alive.

The refinement then maps a build to `Publish`: after the plugin pass the live nodes and
the folded edges, told by names, are `Graph(src, applied)`, where the count needs that no
two live slots have one name (`RefsOnce`). A failed build maps to `Fail`, an edit to `Edit`.
TLC checked `Tells` on the `graph_assembly` instance before it was proved.

And that it may be saved at any time:

- `SavedGraphsAnswerTheSame`: `GraphSpec => []SavedGraphAnswersTheSame`

What the round trip of a graph needs (below) is what `BuilderIInv` says of the builder: a slot is
blank exactly where it is tombstoned, and no edge touches one. What is new is that the nodes are
records with a path, through the stages of a build (`NodeRefsAssumption`), as a loaded node is
put together from its fields.

`DeadTestsProofs`, of the walks of Reachability, for every graph, every set of roots and every
order:

- `AncestorsMirrorDescendants`: a reverse walk from `b` finds `a` exactly if a forward
  walk from `a` finds `b`.
- `WalksReturnClosures`: `WalkSpec => []WalkReturnsClosure`.

Reachability is defined without paths, as membership in every closed set that holds the
roots, so no induction over path lengths is needed. The invariant of a walk is that
roots are visited or pending, that what a visited node points to is visited or pending,
and that visited and pending nodes are reachable. With nothing pending the first two
make the visited set closed, hence no smaller than the closure; the third makes it no
larger.

and of DeadTests, likewise for every graph and mask:

- `EveryWalkReturnsClosure`: `Spec => []WalkReturnsClosure`
- `DeadTestsFound`: `Spec => []DeadTestsAreTheFixpoint`
- `BlastComputed`: `Spec => []BlastIsTheirsAlone`
- `RemovalIsSafe`: `Spec => []RemovalLosesNothing`

The invariant has a sound and a complete half. Sound: whatever the backward walk has
touched or pends leads to live code or to a live test, and what the forward walk has
is used by a live test; each settled set of code contains the code they met. Complete:
what production reaches, what uses a touched node without being a module, and
what an exercised node uses are all touched, exercised or pending. When nothing is
pending the touched code is itself a settled set, so it is the least one. TLC checked
the invariant on the `dead_tests` instance before it was proved.

`RemovalLosesNothing` is about a second graph, the one without the blast radius, so its proof
compares two definitions and no steps. The seeds that stay reach a closed set that holds the
live tests and the live code and of which nothing is removed, so production is the same
in both graphs; the settled code of one is then shown to be settled in the other, in both
directions. `TestsAreSeeds` is what makes the live tests part of that set.

`SessionProofs`, for any number of querying threads, any plugins and any batches they emit:

- `InvariantHolds`: `Spec => []IInv`
- `QueriesAreWhole`: `Spec => []QueriesSeeWholeGraphs`
- `PluginsAreFrozen`: `Spec => []PluginsSeeFrozenGraph`
- `RebuildsAreCurrent`: `Spec => []RebuiltIsCurrent`
- `HusksComeFromFailures`: `Spec => []HuskOnlyAfterFailure`

The invariant says by the place of the call who holds the GIL, the borrow and the lock
(`Holds`), what the workers saw and emitted (`Pass`), how much of the batch has landed
(`Apply`), and that outside the write window the outputs, and always what a query was told,
are a graph in which a batch landed as a whole or not at all (`Seen`). That the batch is the
plugins' operations, in order, comes from FlattenProofs.

`FlattenProofs` has no theorem of its own, only the lemmas on `FlattenSeq` of the community
modules that the others cite:
an entry of part `k` is found at the offset of the part plus its place
(`FlattenSeqPlaces`), the entries are those of the parts (`FlattenSeqEntries`), and
flattening goes through a map of the entries (`FlattenSeqThrough`). `FlattenSeq` is a recursive
function; with no induction at hand the proofs take the least number of parts for which
the statement fails and derive a smaller one.

`PluginSetsProofs`, for any plugins, widths and tables of the engine:

- `RegistrationKeepsRegistrySound`: a declaration, accepted or refused, leaves a sound
  registry sound.
- `RegistrationKeepsBits`: no declaration moves or drops a bit that was handed out.
- `RegistriesStaySound`: `Spec => []RegistriesOK`
- `PluginSetsTyped`: `Spec => []TypeOK`
- `FilesAreAsTheirSetEmits`: `Spec => []GraphHasWhatItsSetEmits`
- `FactsAreDerivedAnew`: `Spec => []FactsAreThisBuilds`
- `BitsAreNamed`: `Spec => []BitsNameTheirFlag`
- `FirstErrorIsRaised`: `Spec => []FirstErrorWins`

Registries: the next bit is above every bit taken, so the name that gets it shares it with
nobody, and a registration which would reach the width is refused. `next` may also be
`NoBit`, for a registry nobody seeded, and such a one refuses as well.

Ids and memos: ids, interned lists and memos only ever grow (`Grown`, a lemma for each action
that touches them), so what was said of an id stays true of it: the plugins that have it emit
the same (`IdsOK`), a memo holds what the list's ids emit for the file as it was then
(`MemoOK`), and the list of ids, each once, emits what the list of plugins does (`IdsEmitOps`,
by `FlattenSeqThrough`). `GraphOK` says so of the files of the graph, `DeclaredOK` and
`BitsNameTheirFlag` of the bits on their nodes. The assumptions are that the engine's tables
are sound, that different configurations have different hashes, and that per-file plugins
stamp bits of the engine only. TLC evaluates them for the tables of the instance.

`ProgressPollerProofs`, for every number of items of each phase, when the join of `stop()`
waits for the poller (`~JoinMayTimeOut`):

- `PollerInvariant`: `Spec => []IInv`
- `EventsAreWellFormed`: `Spec => []EventsWellFormed`
- `StopIsComplete`: `Spec => []StopDeliversEverything`

The invariant has four layers. The counters only grow and stay within their totals, and a
snapshot is never ahead of them (`CountersOK`, with `Before`, which is transitive). One thread
dispatches at a time, the main thread over the final counters (`TurnsOK`: this is where the
assumption is needed). The book is never ahead of the counters, the snapshot in hand is
never behind the book, and a phase the snapshot left behind is in the book by the time the
dispatch is past it (`BookOK`, `DispatchOK`). And the log fits the book (`LogFits`):
every event is justified by those before it, and everything in the book has been called
back except the end that a dispatch is about to deliver (`Flushing`). So a step that appends an
event has to show only that the event may follow (`Admitted`) and is all that the book gained.
A phase that starts finds the one before ended because the snapshot has left it; a count is
larger than the last because the snapshot is newer than the book; `stop()` is
complete because its dispatch has walked over all phases of the final counters. With a join
that times out `TurnsOK` fails, and so do the events (section 3).

`GraphFileProofs`, for every sequence of nodes with blanks anywhere in it:

- `RemapKeepsOrder`, `RemapStaysInRange`: nodes that stay get different positions, all
  of them within the file.
- `WrittenEdgesAreTheLiveOnes`: an edge between nodes that stay is in the file exactly
  if it is in the graph.
- `RemapWithoutBlanks`: without blanks nothing is renumbered.

A new position counts the nodes before that stay, so of two the later has a strictly
larger set.

And of a whole graph whose edges run between nodes that stay, and whose blanks carry no flag
of the seeds:

- `WritesBack`: a loaded graph saves as the file it was loaded from.
- `VisitedIsLeast`: the loop of `reachable` visits the least set that holds the seeds and is
  closed under the edges.
- `LoadedReachesTheSame`: a loaded graph reaches the nodes the live one reaches.
- `SavedGraphRoundTrips`: nodes, edges, reachable sets and file are the same.

The kth record is the node whose new position is k (`RemapIsRank`, `PackedNodes`), and the table
has every path once, so a record reads back as its node (`RecordReadsBack`). A loaded graph has
no blanks, so a second save renumbers nothing. The loop of `reachable` is a recursive function
over as many turns as there are nodes: each finds a new node until none is left (`TurnsClose`,
by the least turn that fails), so it ends closed; the live set renumbered is closed in the loaded
graph and the other way round, and two least sets are each inside the other.

`DeadBranchesProofs`, for any programs that satisfy the assumptions of DeadBranches:

- `ModuleScanIsSound`: `Spec => []IInv`
- `ModuleTableIsOrderless`: `Spec => []ModuleTableHasNoOrder`

The module is waiting to be scanned, is being scanned, or has the table it should have. While it
is scanned (`ModuleScanned`) nothing is poisoned, each known name has the value its bindings
agree on (`Supported`), what is known is among what the rounds of the reference find, and if the
current round has changed nothing then no name it has passed could be known. A name that gets its
value keeps all of this because folding is monotone: the bindings of the names known before still
agree (`AgreementStays`), and the new one is found by the rounds too (`FoundByRounds`). So a
module, whose table starts empty, never meets the flips and losses that the poison set is for. At
the end a table that is supported and settled has all that each round finds
(`SettledHasRounds`). The rounds themselves are a recursive function; that as many rounds as
there are names reach the fixpoint (`RoundsClose`) is by counting the names found. None of it holds
for the scopes inside, which start from an inherited table and may rebind what it was
folded from: their tables depend on the order, and `scope_table_hang` is one that never ends. TLC
checked `IInv` on the `dead_branches` instance before it was proved.

Only model-checked:

- `ReadsAreResolved`: about the recursive walks of Resolution and NameReads. For the same
  reason that module Resolution satisfies `ReadSetsHonest`, `RowsHonest` and the assumptions of
  GraphAssembly is evaluated on the instances, not proved.
- FileAnalysis, and `NothingDeadRuns`: they rest on recursive operators over syntax, as does
  `NothingIsGuessed`, which TLC evaluates for the programs of the instance.
- Liveness under fairness: `CallsReturn`, `StopReturns`, `QuestionsAreAnswered`,
  `SmallScopesSettle`.

## 5. Not modelled, and why

- ty and salsa: parsing, the semantic index, module search, invalidation. External;
  `src` is what they show.
- What each framework plugin concludes from the answers to its queries: constants
  `PerFileOps`, `ProjectOps` and `Templates`. The queries themselves are modelled.
- Name, class and decorator indices: rebuilt from scratch by every build. (The class memo
  that feeds the hierarchy *is* modelled.)
- Several threads that build one context; the bounded pool of salsa snapshots.
- Paths, positions beyond "moved", formatting, warnings, timing, memory reports.
- External anchor paths: anchors are known by name.
- The header, counts and flag registries of a graph file. With no `seed_flags` given,
  `LoadedGraph.reachable` seeds with every flag that is on by default, `reachable` of a
  context with `ENTRYPOINT` alone; the run compares both with the same seeds.
- `cli.py`, `plugin-host`, `examples`, `scripts`: no state of their own.

## 6. Plan

Built: the cache, the assembly, the session with its plugin pass, the plugin sets and
registries, the analysis of files, the dead branches, the poller, the walks and the graph on
disk. Next, in
order of importance:

1. How `module_values_for_def` finds the modules a definition denotes: its memo is filled
   while definitions on the current path count as nothing, so an entry may hold less than
   a fresh walk would find.
2. Session with a query in two reads (`nodes()` then `edges()`).
3. **Codemod**: removal passes over a dead set. **SnapshotPool**: the bounded channel of
   the resolve fan-out.

New instances share the existing MC modules where they can, so that each question stays
one run.
