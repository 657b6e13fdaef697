----------------------------- MODULE ResolveCache -----------------------------
(***************************************************************************)
(* The resolve cache of the runtime and the scope that decides what it     *)
(* may reuse: ResolveCache, ProjectContext::apply_changes and the resolve  *)
(* arm of assemble_graph (src/runtime/src/project.rs).                     *)
(*                                                                         *)
(* Sources change outside; apply_changes brings salsa's view of them (src) *)
(* up to date and folds the batch into pending_scope (scope).  The next    *)
(* build either resolves every reference again or, when the batch was      *)
(* content-only, only those whose read set touches a changed file.  The    *)
(* resolution itself is a parameter: ResolveMember(k, s) answers key k in  *)
(* sources s and names the files it read (its `touched' field).            *)
(*                                                                         *)
(* The compaction trigger and the block bookkeeping that also choose       *)
(* between the two builds belong to GraphAssembly: here a full build may   *)
(* happen at any time.                                                     *)
(***************************************************************************)
EXTENDS SourceTree, FiniteSets

CONSTANTS
  Sources,               \* the states the sources may be in
  SurfaceFp(_, _),       \* resolution_surface_fp
  RefSpecs(_, _),        \* file_to_refspecs: the reference rows of a file
  MemberKeys(_),         \* the member keys of a set of rows
  BaseKeys(_, _),        \* the class-base keys of a file
  PyTwin(_, _),          \* the .py twin of a stub
  ResolveMember(_, _),   \* resolve_member
  ResolveMemberDef(_, _) \* resolve_member_def

VARIABLES
  src,     \* salsa's view of the sources
  scope,   \* pending_scope: known is FALSE for None
  known,   \* path_to_file of the outputs: the files of the last build
  cache,   \* ResolveCache
  built    \* the sources of the last build that completed (not in the code)

vars == <<src, scope, known, cache, built>>

Unscoped == [known |-> FALSE, files |-> {}]
Settled  == [known |-> TRUE, files |-> {}]

EmptyMemo  == [k \in {} |-> Absent]
EmptyCache == [valid |-> FALSE, files |-> {}, fps |-> EmptyMemo, rows |-> EmptyMemo,
               memo |-> EmptyMemo, live |-> {}, classes |-> EmptyMemo]

-----------------------------------------------------------------------------
(* What one build derives from the sources.                                *)

LiveKeys(s)  == UNION {MemberKeys(RefSpecs(s, f)) : f \in Present(s)}
ClassKeys(s) == UNION {BaseKeys(s, f) : f \in Present(s)}
SurfaceOf(s) == [f \in Present(s) |-> SurfaceFp(s, f)]

(* What the incremental build relies on.  A file looks the same in s and t  *)
(* when neither its content nor its resolution surface differs.             *)
SameFile(s, t, f) == s[f] = t[f] /\ SurfaceFp(s, f) = SurfaceFp(t, f)

(* The rows of a file depend on that file and its twin alone.               *)
ASSUME RowsHonest ==
  \A s, t \in Sources :
    Present(s) = Present(t) =>
      \A f \in Present(s) :
        SameFile(s, t, f) /\ (\A g \in PyTwin(s, f) : SameFile(s, t, g))
          => RefSpecs(s, f) = RefSpecs(t, f)

(* An answer depends on the files it was read from alone, wherever a key    *)
(* that is referenced in s is asked again in t.                             *)
ASSUME ReadSetsHonest ==
  \A s, t \in Sources :
    Present(s) = Present(t) =>
      \A k \in LiveKeys(s) :
        (\A f \in ResolveMember(k, s).touched \cap Present(s) : SameFile(s, t, f))
          => ResolveMember(k, t) = ResolveMember(k, s)

ASSUME TwinsPresent ==
  \A s \in Sources : \A f \in Present(s) : PyTwin(s, f) \subseteq Present(s)

ASSUME SourcesAreFunctions == \A s \in Sources : s = [f \in File |-> s[f]]

-----------------------------------------------------------------------------
(* The gate of build_project_graph that concerns the cache.                *)
InScope ==
  /\ scope.known
  /\ cache.valid
  /\ cache.files = Present(src)
  /\ scope.files \subseteq Present(src)

(* Mutant: only the files of the batch are dirty.                          *)
NothingMoved == {}

Moved == {f \in Present(src) : SurfaceFp(src, f) # cache.fps[f]}

(* Mutant: a stub does not follow its twin.                                *)
DirtyAlone == scope.files \cup Moved

(* Effectively dirty: named by the batch, surface moved, or a stub whose   *)
(* twin is one of those.                                                   *)
Dirty ==
  LET changed == scope.files \cup Moved
  IN  changed \cup {f \in Present(src) : PyTwin(src, f) \cap changed # {}}

(* Clean files keep their cached rows; dirty files are read again.         *)
GatheredRows ==
  [f \in Present(src) |-> IF f \in Dirty THEN RefSpecs(src, f) ELSE cache.rows[f]]

GatheredKeys == UNION {MemberKeys(GatheredRows[f]) : f \in Present(src)}

(* Mutant: nothing is ever resolved for the first time.                    *)
RedoRetainedOnly ==
  {k \in GatheredKeys \cap DOMAIN cache.memo :
     k \notin cache.live \/ cache.memo[k].touched \cap Dirty # {}}

(* Mutant: without the resurrection rule.                                  *)
RedoTouchedOnly ==
  {k \in GatheredKeys :
     \/ k \notin DOMAIN cache.memo
     \/ cache.memo[k].touched \cap Dirty # {}}

(* A retained live key is resolved again iff its read set was touched or   *)
(* nothing referenced it in the previous build (the resurrection rule).    *)
Redo ==
  {k \in GatheredKeys :
     \/ k \notin DOMAIN cache.memo
     \/ k \notin cache.live
     \/ cache.memo[k].touched \cap Dirty # {}}

RedoClass ==
  {k \in ClassKeys(src) :
     \/ k \notin DOMAIN cache.classes
     \/ cache.classes[k].touched \cap Dirty # {}}

(* Keys nothing references any more keep their slots.                      *)
RefreshedMemo ==
  [k \in DOMAIN cache.memo \cup Redo |->
     IF k \in Redo THEN ResolveMember(k, src) ELSE cache.memo[k]]

RefreshedClasses ==
  [k \in DOMAIN cache.classes \cup RedoClass |->
     IF k \in RedoClass THEN ResolveMemberDef(k, src) ELSE cache.classes[k]]

(* The cross-check on clean files: their cached rows are as many as their  *)
(* payload has now.                                                        *)
CleanRowsInSync ==
  InScope => \A f \in Present(src) \ Dirty :
               Cardinality(cache.rows[f]) = Cardinality(RefSpecs(src, f))

-----------------------------------------------------------------------------
(* Change events.  A batch is folded into the scope event by event and     *)
(* nothing else looks at it, so one event stands for every batch: a batch  *)
(* is as many of these steps in a row.                                     *)

(* Mutant: a batch replaces the scope of the one before.                   *)
ApplyChangedForgetting(f, s) ==
  /\ f \in Present(src) \cap Present(s)
  /\ Differ(src, s) \subseteq {f}
  /\ src' = s
  /\ scope' = IF scope.known /\ f \in known THEN [scope EXCEPT !.files = {f}] ELSE Unscoped
  /\ UNCHANGED <<known, cache, built>>

(* Changed(path of f): the content of f may differ, or not after all.      *)
ApplyChanged(f, s) ==
  /\ f \in Present(src) \cap Present(s)
  /\ Differ(src, s) \subseteq {f}
  /\ src' = s
  /\ scope' = IF scope.known /\ f \in known
              THEN [scope EXCEPT !.files = @ \cup {f}]
              ELSE Unscoped
  /\ UNCHANGED <<known, cache, built>>

(* Created or Deleted(path of f), or a Rescan that found f changed.        *)
ApplyStructural(f, s) ==
  /\ Differ(src, s) \subseteq {f}
  /\ src' = s
  /\ scope' = Unscoped
  /\ UNCHANGED <<known, cache, built>>

-----------------------------------------------------------------------------
(* Builds.  The scope and the cache are taken before the build starts.     *)

BuildCompleted ==
  /\ scope' = Settled
  /\ known' = Present(src)
  /\ built' = src
  /\ UNCHANGED src

FullBuild ==
  /\ cache' = [valid   |-> TRUE,
               files   |-> Present(src),
               fps     |-> SurfaceOf(src),
               rows    |-> [f \in Present(src) |-> RefSpecs(src, f)],
               memo    |-> [k \in LiveKeys(src) |-> ResolveMember(k, src)],
               live    |-> LiveKeys(src),
               classes |-> [k \in ClassKeys(src) |-> ResolveMemberDef(k, src)]]
  /\ BuildCompleted

IncrementalBuild ==
  /\ InScope
  /\ CleanRowsInSync
  /\ cache' = [valid   |-> TRUE,
               files   |-> Present(src),
               fps     |-> SurfaceOf(src),
               rows    |-> GatheredRows,
               memo    |-> RefreshedMemo,
               live    |-> GatheredKeys,
               classes |-> RefreshedClasses]
  /\ BuildCompleted

(* A build that errors or panics has already taken the scope and cache.    *)
BuildFails ==
  /\ scope' = Unscoped
  /\ cache' = EmptyCache
  /\ UNCHANGED <<src, known, built>>

-----------------------------------------------------------------------------
Init ==
  /\ src \in Sources
  /\ scope = Settled
  /\ known = {}
  /\ cache = EmptyCache
  /\ built = src

Next ==
  \/ \E f \in File, s \in Sources : ApplyChanged(f, s)
  \/ \E f \in File, s \in Sources : ApplyStructural(f, s)
  \/ FullBuild
  \/ IncrementalBuild
  \/ BuildFails

Spec == Init /\ [][Next]_vars

-----------------------------------------------------------------------------
(* Properties.                                                             *)

TypeOK ==
  /\ src \in Sources
  /\ built \in Sources
  /\ scope \in [known : BOOLEAN, files : SUBSET File]
  /\ known \subseteq File
  /\ DOMAIN cache = {"valid", "files", "fps", "rows", "memo", "live", "classes"}
  /\ cache.valid \in BOOLEAN
  /\ cache.live \subseteq DOMAIN cache.memo

(* While the next build may still be incremental, pending_scope names every *)
(* file that differs from what the cache was built against: no sequence of  *)
(* batches, builds and failed builds loses an edit.                         *)
ScopeCoversEdits ==
  cache.valid /\ scope.known =>
    /\ Present(src) = Present(built)
    /\ Differ(src, built) \subseteq scope.files

(* What the cache holds is what resolving afresh would have given at the   *)
(* last completed build, for every file and every live key, whichever      *)
(* builds, batches and failures came before.                               *)
CacheMatchesBuilt ==
  cache.valid =>
    /\ cache.files = Present(built)
    /\ cache.fps = SurfaceOf(built)
    /\ cache.rows = [f \in Present(built) |-> RefSpecs(built, f)]
    /\ cache.live = LiveKeys(built)
    /\ \A k \in cache.live : cache.memo[k] = ResolveMember(k, built)

(* Right after a build, incremental or full, the rows of every file and the *)
(* answer of every key they refer to are what resolving everything afresh   *)
(* would give (ResolveCache: "nothing can be stale").                       *)
MemoIsFresh ==
  cache.valid /\ scope = Settled =>
    /\ \A f \in Present(src) : cache.rows[f] = RefSpecs(src, f)
    /\ \A k \in LiveKeys(src) :
         k \in DOMAIN cache.memo /\ cache.memo[k] = ResolveMember(k, src)

(* The same of the class-base memo: every base resolves as it would afresh. *)
ClassMemoIsFresh ==
  cache.valid /\ scope = Settled =>
    \A k \in ClassKeys(src) :
      k \in DOMAIN cache.classes /\ cache.classes[k] = ResolveMemberDef(k, src)

=============================================================================
