------------------------- MODULE GraphAssemblyProofs -------------------------
(***************************************************************************)
(* First the resolve cache (ResolveCache), for any files, sources and      *)
(* resolution that satisfy its assumptions: after every build its answers  *)
(* are the fresh ones.                                                     *)
(*                                                                         *)
(* The graph builder drives the resolve cache as ResolveCache says it may, *)
(* so what is proved of the cache holds of every build of the graph; and   *)
(* the builder itself stays sound from build to build: its blocks, anchors *)
(* and tombstones share the dense ids among them, the parts it keeps need  *)
(* no remapping, ids stay put and dead slots stay bounded.                 *)
(*                                                                         *)
(* The invariant of the builder joins that of the cache: a part is only    *)
(* kept when the rows and the answers it was translated from are still     *)
(* those of the sources, so an anchor it reaches is wanted again and is    *)
(* not tombstoned.  Its proof follows assemble_graph stage by stage.       *)
(*                                                                         *)
(* Then, that a build serves the graph of its sources (FreshGraph).  The   *)
(* builder holds, base flags, anchors and parts, what the sources of its   *)
(* build say (Tells); the same stages carry that from one build to the     *)
(* next, and with the plugin pass what is live is the promised graph.      *)
(*                                                                         *)
(* A graph that is saved at any point and loaded again is that graph:      *)
(* slots are blank exactly where they are tombstoned and no edge touches   *)
(* one, which is what the round trip of GraphFileProofs asks for.          *)
(***************************************************************************)
EXTENDS GraphAssembly, FlattenProofs

-----------------------------------------------------------------------------
(* The resolve cache.                                                      *)

(* Of the cache alone: scope covers what changed since `built', and         *)
(* the cache is that of `built'.                                           *)
IInv == TypeOK /\ ScopeCoversEdits /\ CacheMatchesBuilt

-----------------------------------------------------------------------------
(* Facts about one incremental build.                                      *)

(* A file neither named by the batch nor moved is the same as when the     *)
(* cache was built.                                                        *)
LEMMA UnchangedFileIsSame ==
  ASSUME IInv, InScope, NEW f \in Present(src), f \notin scope.files, f \notin Moved
  PROVE  SameFile(src, built, f) /\ SameFile(built, src, f)
<1>1. Present(src) = Present(built) /\ Differ(src, built) \subseteq scope.files
  BY DEF IInv, ScopeCoversEdits, InScope
<1>2. src[f] = built[f]
  BY <1>1 DEF Differ, Present
<1>3. cache.fps[f] = SurfaceFp(built, f)
  BY <1>1 DEF IInv, CacheMatchesBuilt, InScope, SurfaceOf
<1>4. SurfaceFp(src, f) = cache.fps[f]
  BY DEF Moved
<1> QED
  BY <1>2, <1>3, <1>4 DEF SameFile

(* A clean file still has its cached rows.                                 *)
LEMMA CleanRowsAreFresh ==
  ASSUME IInv, InScope, NEW f \in Present(src), f \notin Dirty
  PROVE  cache.rows[f] = RefSpecs(src, f)
<1>1. Present(src) = Present(built) /\ src \in Sources /\ built \in Sources
  BY DEF IInv, TypeOK, ScopeCoversEdits, InScope
<1>2. /\ f \notin scope.files
      /\ f \notin Moved
      /\ PyTwin(src, f) \cap (scope.files \cup Moved) = {}
  BY DEF Dirty
<1>3. SameFile(src, built, f)
  BY <1>2, UnchangedFileIsSame
<1>4. ASSUME NEW g \in PyTwin(src, f) PROVE SameFile(src, built, g)
  <2>1. g \in Present(src) /\ g \notin scope.files /\ g \notin Moved
    BY <1>1, <1>2, TwinsPresent
  <2> QED
    BY <2>1, UnchangedFileIsSame
<1>5. RefSpecs(src, f) = RefSpecs(built, f)
  BY <1>1, <1>3, <1>4, RowsHonest
<1>6. cache.rows[f] = RefSpecs(built, f)
  BY <1>1 DEF IInv, CacheMatchesBuilt, InScope
<1> QED
  BY <1>5, <1>6

(* So the gather pass ends with the rows and the keys of every file.       *)
LEMMA GatherIsFresh ==
  ASSUME IInv, InScope
  PROVE  /\ GatheredRows = [f \in Present(src) |-> RefSpecs(src, f)]
         /\ GatheredKeys = LiveKeys(src)
<1>1. GatheredRows = [f \in Present(src) |-> RefSpecs(src, f)]
  BY CleanRowsAreFresh DEF GatheredRows
<1>2. \A f \in Present(src) : GatheredRows[f] = RefSpecs(src, f)
  BY <1>1
<1> QED
  BY <1>1, <1>2 DEF GatheredKeys, LiveKeys

(* A live key that is not resolved again has the answer it would get.      *)
LEMMA KeptAnswersAreFresh ==
  ASSUME IInv, InScope, NEW k \in LiveKeys(src), k \notin Redo
  PROVE  cache.memo[k] = ResolveMember(k, src)
<1>1. Present(src) = Present(built) /\ src \in Sources /\ built \in Sources
  BY DEF IInv, TypeOK, ScopeCoversEdits, InScope
<1>2. k \in cache.live /\ cache.memo[k].touched \cap Dirty = {}
  BY GatherIsFresh DEF Redo
<1>3. k \in LiveKeys(built) /\ cache.memo[k] = ResolveMember(k, built)
  BY <1>2 DEF IInv, CacheMatchesBuilt, InScope
<1>4. ASSUME NEW f \in ResolveMember(k, built).touched \cap Present(built)
      PROVE  SameFile(built, src, f)
  <2>1. f \in Present(src) /\ f \notin Dirty
    BY <1>1, <1>2, <1>3
  <2> QED
    BY <2>1, UnchangedFileIsSame DEF Dirty
<1>5. ResolveMember(k, src) = ResolveMember(k, built)
  BY <1>1, <1>3, <1>4, ReadSetsHonest
<1> QED
  BY <1>3, <1>5

-----------------------------------------------------------------------------
(* Invariance.                                                             *)

LEMMA InitIInv == Init => IInv
BY DEF Init, IInv, TypeOK, ScopeCoversEdits, CacheMatchesBuilt, EmptyCache, EmptyMemo, Settled

(* Either build leaves the scope settled on the sources it was built from. *)
LEMMA BuildSettles ==
  ASSUME IInv, BuildCompleted
  PROVE  ScopeCoversEdits' /\ src' \in Sources /\ built' \in Sources
         /\ scope' \in [known : BOOLEAN, files : SUBSET File] /\ known' \subseteq File
BY DEF BuildCompleted, IInv, TypeOK, ScopeCoversEdits, Settled, Present, Differ

LEMMA ApplyChangedIInv ==
  ASSUME IInv, NEW f \in File, NEW s \in Sources, ApplyChanged(f, s)
  PROVE  IInv'
<1>1. TypeOK'
  BY DEF ApplyChanged, IInv, TypeOK, Unscoped
<1>2. ScopeCoversEdits'
  <2>1. Present(src) = Present(s)
    BY DEF ApplyChanged, Present, Differ
  <2>2. Differ(s, built) \subseteq Differ(src, built) \cup {f}
    BY DEF ApplyChanged, Differ
  <2>3. CASE scope.known /\ f \in known
    <3>1. scope' = [scope EXCEPT !.files = @ \cup {f}]
      BY <2>3 DEF ApplyChanged
    <3>2. scope'.files = scope.files \cup {f}
      BY <3>1 DEF IInv, TypeOK
    <3> QED
      BY <2>1, <2>2, <2>3, <3>2 DEF ApplyChanged, IInv, ScopeCoversEdits
  <2>4. CASE ~(scope.known /\ f \in known)
    BY <2>4 DEF ApplyChanged, Unscoped, ScopeCoversEdits
  <2> QED
    BY <2>3, <2>4
<1>3. CacheMatchesBuilt'
  BY DEF ApplyChanged, IInv, CacheMatchesBuilt, SurfaceOf, LiveKeys, Present
<1> QED
  BY <1>1, <1>2, <1>3 DEF IInv

LEMMA ApplyStructuralIInv ==
  ASSUME IInv, NEW f \in File, NEW s \in Sources, ApplyStructural(f, s)
  PROVE  IInv'
<1>1. TypeOK' /\ ScopeCoversEdits'
  BY DEF ApplyStructural, IInv, TypeOK, ScopeCoversEdits, Unscoped
<1>2. CacheMatchesBuilt'
  BY DEF ApplyStructural, IInv, CacheMatchesBuilt, SurfaceOf, LiveKeys, Present
<1> QED
  BY <1>1, <1>2 DEF IInv

LEMMA FullBuildIInv ==
  ASSUME IInv, FullBuild
  PROVE  IInv'
<1>1. BuildCompleted /\ src' = src /\ built' = src
  BY DEF FullBuild, BuildCompleted
<1>2. TypeOK'
  BY <1>1, BuildSettles DEF FullBuild, TypeOK
<1>3. ScopeCoversEdits'
  BY <1>1, BuildSettles
<1>4. CacheMatchesBuilt'
  BY <1>1 DEF FullBuild, CacheMatchesBuilt, SurfaceOf, LiveKeys, Present
<1> QED
  BY <1>2, <1>3, <1>4 DEF IInv

LEMMA IncrementalBuildIInv ==
  ASSUME IInv, IncrementalBuild
  PROVE  IInv'
<1>1. BuildCompleted /\ InScope /\ src' = src /\ built' = src
  BY DEF IncrementalBuild, BuildCompleted
<1>2. LiveKeys(src) \subseteq DOMAIN RefreshedMemo
  <2>1. \A k \in LiveKeys(src) : k \in DOMAIN cache.memo \cup Redo
    BY <1>1, GatherIsFresh DEF Redo
  <2> QED
    BY <2>1 DEF RefreshedMemo
<1>3. ASSUME NEW k \in LiveKeys(src)
      PROVE  RefreshedMemo[k] = ResolveMember(k, src)
  <2>1. k \in DOMAIN RefreshedMemo
    BY <1>2
  <2>2. CASE k \in Redo
    BY <2>1, <2>2 DEF RefreshedMemo
  <2>3. CASE k \notin Redo
    BY <1>1, <2>1, <2>3, KeptAnswersAreFresh DEF RefreshedMemo
  <2> QED
    BY <2>2, <2>3
<1>4. /\ cache' = [valid   |-> TRUE,
                   files   |-> Present(src),
                   fps     |-> SurfaceOf(src),
                   rows    |-> [f \in Present(src) |-> RefSpecs(src, f)],
                   memo    |-> RefreshedMemo,
                   live    |-> LiveKeys(src),
                   classes |-> RefreshedClasses]
  BY <1>1, GatherIsFresh DEF IncrementalBuild
<1>5. TypeOK'
  BY <1>1, <1>2, <1>4, BuildSettles DEF TypeOK
<1>6. ScopeCoversEdits'
  BY <1>1, BuildSettles
<1>7. CacheMatchesBuilt'
  BY <1>1, <1>3, <1>4 DEF CacheMatchesBuilt, SurfaceOf, LiveKeys, Present
<1> QED
  BY <1>5, <1>6, <1>7 DEF IInv

LEMMA BuildFailsIInv ==
  ASSUME IInv, BuildFails
  PROVE  IInv'
BY DEF BuildFails, IInv, TypeOK, ScopeCoversEdits, CacheMatchesBuilt, EmptyCache, EmptyMemo, Unscoped

LEMMA StutterIInv ==
  ASSUME IInv, UNCHANGED vars
  PROVE  IInv'
BY DEF vars, IInv, TypeOK, ScopeCoversEdits, CacheMatchesBuilt, SurfaceOf, LiveKeys, Present, Differ

(* Every reachable cache is that of the last completed build, and every    *)
(* edit since is in the scope.                                             *)
THEOREM InvariantHolds == Spec => []IInv
<1>1. ASSUME IInv, [Next]_vars PROVE IInv'
  BY <1>1, ApplyChangedIInv, ApplyStructuralIInv, FullBuildIInv, IncrementalBuildIInv,
     BuildFailsIInv, StutterIInv DEF Next
<1> QED
  BY <1>1, InitIInv, PTL DEF Spec

-----------------------------------------------------------------------------
(* What follows from it.                                                   *)

(* The type invariant of pending_scope and the ResolveCache.               *)
THEOREM TypeCorrect == Spec => []TypeOK
BY InvariantHolds, PTL DEF IInv

(* No sequence of batches, builds and failed builds loses an edit: while   *)
(* the next build may be incremental, pending_scope names all of them.     *)
THEOREM NoEditLost == Spec => []ScopeCoversEdits
BY InvariantHolds, PTL DEF IInv

(* The cache always holds what the last completed build would have         *)
(* resolved from scratch.                                                  *)
THEOREM CacheOfLastBuild == Spec => []CacheMatchesBuilt
BY InvariantHolds, PTL DEF IInv

(* After any build every reference is resolved as a fresh build would.     *)
THEOREM IncrementalIsFresh == Spec => []MemoIsFresh
<1>1. IInv => MemoIsFresh
  <2> SUFFICES ASSUME IInv, cache.valid, scope = Settled
               PROVE  /\ \A f \in Present(src) : cache.rows[f] = RefSpecs(src, f)
                      /\ \A k \in LiveKeys(src) :
                           k \in DOMAIN cache.memo /\ cache.memo[k] = ResolveMember(k, src)
    BY DEF MemoIsFresh
  <2>1. \A f \in File : src[f] = built[f]
    BY DEF IInv, ScopeCoversEdits, Settled, Differ
  <2>2. src = [f \in File |-> src[f]] /\ built = [f \in File |-> built[f]]
    BY SourcesAreFunctions DEF IInv, TypeOK
  <2>3. src = built
    BY <2>1, <2>2
  <2> QED
    BY <2>3 DEF IInv, TypeOK, CacheMatchesBuilt
<1> QED
  BY <1>1, InvariantHolds, PTL

(* The assertions on clean files never fire when rows are honest.          *)
THEOREM CleanRowsNeverDrift == Spec => []CleanRowsInSync
<1>1. IInv => CleanRowsInSync
  BY CleanRowsAreFresh DEF CleanRowsInSync
<1> QED
  BY <1>1, InvariantHolds, PTL

-----------------------------------------------------------------------------
(* The graph builder.                                                      *)

(* Every step of assemble_graph and materialize is a step of the resolve    *)
(* cache: the compaction trigger and the block bookkeeping of the gate only *)
(* choose between the two builds.                                           *)
THEOREM AssemblyImplementsCache == GraphSpec => Spec
<1>1. GraphInit => Init
  BY DEF GraphInit
<1>2. [GraphNext]_allVars => [Next]_vars
  <2> SUFFICES ASSUME [GraphNext]_allVars PROVE [Next]_vars
    OBVIOUS
  <2>1. CASE \E f \in File, s \in Sources : ApplyChanged(f, s) /\ UNCHANGED builder
    BY <2>1 DEF Next
  <2>2. CASE \E f \in File, s \in Sources : ApplyStructural(f, s) /\ UNCHANGED builder
    BY <2>2 DEF Next
  <2>3. CASE MaterializeFresh
    BY <2>3 DEF MaterializeFresh, Next
  <2>4. CASE MaterializeIncremental
    BY <2>4 DEF MaterializeIncremental, Next
  <2>5. CASE MaterializeFails
    BY <2>5 DEF MaterializeFails, Next
  <2>6. CASE UNCHANGED allVars
    BY <2>6 DEF allVars, vars
  <2> QED
    BY <2>1, <2>2, <2>3, <2>4, <2>5, <2>6 DEF GraphNext
<1> QED
  BY <1>1, <1>2, PTL DEF GraphSpec, Spec

(* The rows and answers every build of the graph translates are those a     *)
(* fresh resolution would give.                                             *)
THEOREM AssemblyTranslatesFreshAnswers == GraphSpec => []MemoIsFresh
BY AssemblyImplementsCache, IncrementalIsFresh, PTL

(* No edit is lost between the builds of a graph, whichever of them fail.   *)
THEOREM AssemblyLosesNoEdit == GraphSpec => []ScopeCoversEdits
BY AssemblyImplementsCache, NoEditLost, PTL

(* The cross-check on clean rows never fires while the payloads of a file   *)
(* are determined by its content and surface (RowsHonest).                  *)
THEOREM AssemblyCrossCheckHolds == GraphSpec => []CleanRowsInSync
BY AssemblyImplementsCache, CleanRowsNeverDrift, PTL
-----------------------------------------------------------------------------
(* A builder as its fields.                                                *)
BuilderOf(nodes, blocks, tombstoned, parts, baseFlags, externals, edges) ==
  [nodes |-> nodes, blocks |-> blocks, tombstoned |-> tombstoned, parts |-> parts,
   baseFlags |-> baseFlags, externals |-> externals, edges |-> edges]

IsBuilder(b) ==
  b = BuilderOf(b.nodes, b.blocks, b.tombstoned, b.parts, b.baseFlags, b.externals, b.edges)

IsSequence(s) == Len(s) \in Nat /\ s = [i \in 1 .. Len(s) |-> s[i]]

(* Slots are blank exactly where they are tombstoned.                      *)
NodesOK(b) ==
  /\ IsSequence(b.nodes)
  /\ b.tombstoned \subseteq DOMAIN b.nodes
  /\ \A i \in DOMAIN b.nodes :
       /\ b.nodes[i] = [ref |-> b.nodes[i].ref, flags |-> b.nodes[i].flags]
       /\ i \in b.tombstoned => b.nodes[i] = Blank
       /\ i \notin b.tombstoned => b.nodes[i].ref # Absent

(* Blocks are apart, and hold no tombstone.                                *)
BlocksOK(b) ==
  \A f \in DOMAIN b.blocks :
    /\ b.blocks[f].base \in Nat /\ b.blocks[f].len \in Nat
    /\ Block(b, f) \subseteq Live(b)
    /\ \A g \in DOMAIN b.blocks : g # f => Block(b, f) \cap Block(b, g) = {}

(* Every anchor has a slot of its own, in no block.                        *)
AnchorsOK(b) ==
  \A r \in DOMAIN b.externals :
    /\ r.node = "external"
    /\ b.externals[r] \in DOMAIN b.nodes
    /\ \A f \in DOMAIN b.blocks : b.externals[r] \notin Block(b, f)
    /\ \A q \in DOMAIN b.externals : b.externals[q] = b.externals[r] => q = r

AnchorSlots(b) == {b.externals[r] : r \in DOMAIN b.externals}
BlockSlots(b)  == UNION {Block(b, f) : f \in DOMAIN b.blocks}

SlotsOK(b) ==
  /\ IsBuilder(b) /\ NodesOK(b) /\ BlocksOK(b) /\ AnchorsOK(b)
  /\ Live(b) \subseteq BlockSlots(b) \cup AnchorSlots(b)

(* The snapshot of the flags has every slot, and nothing for a tombstone.  *)
FlagsOK(b) ==
  /\ IsSequence(b.baseFlags) /\ Len(b.baseFlags) = Len(b.nodes)
  /\ \A i \in b.tombstoned : b.baseFlags[i] = {}

EdgesOK(b) ==
  /\ DOMAIN b.parts = DOMAIN b.blocks
  /\ \A e \in b.edges : e[1] \in Live(b) /\ e[2] \in Live(b)
  /\ \A f \in DOMAIN b.parts : \A e \in b.parts[f] : e[1] \in Block(b, f) /\ e[2] \in Live(b)

Sized(b, s) == \A f \in DOMAIN b.blocks : b.blocks[f].len = Len(PayloadNodes(s, f))

(* An edge that leaves the blocks is that of a row whose answer still names *)
(* the anchor.                                                             *)
AnchoredAt(b, s, f, i) ==
  \E row \in RefSpecs(s, f) :
    /\ row.key.role # "local"
    /\ \E r \in ResolveMember(row.key, s).targets \cap DOMAIN b.externals : b.externals[r] = i

Anchored(b, s) ==
  \A f \in DOMAIN b.parts : \A e \in b.parts[f] : e[2] \in BlockSlots(b) \/ AnchoredAt(b, s, f, e[2])

BuilderOK == SlotsOK(builder) /\ FlagsOK(builder) /\ EdgesOK(builder)

OfBuilt ==
  cache.valid =>
    /\ DOMAIN builder.blocks = Present(built)
    /\ Sized(builder, built)
    /\ Anchored(builder, built)

BuilderIInv == IInv /\ BuilderOK /\ OfBuilt

-----------------------------------------------------------------------------
(* The fields of a builder made of them.                                   *)
LEMMA BuilderFields ==
  ASSUME NEW n, NEW bl, NEW t, NEW p, NEW fl, NEW x, NEW e, NEW b, b = BuilderOf(n, bl, t, p, fl, x, e)
  PROVE  /\ b.nodes = n /\ b.blocks = bl /\ b.tombstoned = t /\ b.parts = p /\ b.baseFlags = fl
         /\ b.externals = x /\ b.edges = e /\ IsBuilder(b)
<1>1. /\ b.nodes = n /\ b.blocks = bl /\ b.tombstoned = t /\ b.parts = p /\ b.baseFlags = fl
      /\ b.externals = x /\ b.edges = e
  BY DEF BuilderOf
<1>. QED  BY <1>1 DEF IsBuilder

OldSlots(b, dirty) == UNION {Block(b, f) : f \in dirty}

KeptNodes(b, dirty) == [i \in DOMAIN b.nodes |-> IF i \in OldSlots(b, dirty) THEN Blank ELSE Restored(b)[i]]

(* minted: nodes, blocks and tombstones.                                   *)
LEMMA MintedFields ==
  ASSUME NEW b, IsBuilder(b), NEW dirty, NEW m, m = Minted(b, dirty)
  PROVE  /\ IsBuilder(m)
         /\ m.nodes = KeptNodes(b, dirty) \o NewNodes(dirty)
         /\ m.blocks = NewBlocks(b, dirty) /\ m.tombstoned = b.tombstoned \cup OldSlots(b, dirty)
         /\ m.parts = b.parts /\ m.baseFlags = b.baseFlags /\ m.externals = b.externals /\ m.edges = b.edges
<1>1. PICK n, bl, t :
        /\ n = KeptNodes(b, dirty) \o NewNodes(dirty)
        /\ bl = NewBlocks(b, dirty)
        /\ t = b.tombstoned \cup OldSlots(b, dirty)
  OBVIOUS
<1>2. m = [b EXCEPT !.nodes = n, !.blocks = bl, !.tombstoned = t]
  BY <1>1 DEF Minted, KeptNodes, OldSlots
<1>3. m = BuilderOf(n, bl, t, b.parts, b.baseFlags, b.externals, b.edges)
  <2>1. PICK n0, bl0, t0, p, fl, x, e :
          /\ n0 = b.nodes /\ bl0 = b.blocks /\ t0 = b.tombstoned /\ p = b.parts /\ fl = b.baseFlags
          /\ x = b.externals /\ e = b.edges
    OBVIOUS
  <2>2. b = BuilderOf(n0, bl0, t0, p, fl, x, e)
    BY <2>1 DEF IsBuilder
  <2>3. m = BuilderOf(n, bl, t, p, fl, x, e)
    BY <1>2, <2>2 DEF BuilderOf
  <2>. QED  BY <2>1, <2>3
<1>4. /\ m.nodes = n /\ m.blocks = bl /\ m.tombstoned = t
      /\ m.parts = b.parts /\ m.baseFlags = b.baseFlags /\ m.externals = b.externals /\ m.edges = b.edges
      /\ IsBuilder(m)
  BY <1>3, BuilderFields
<1>. QED  BY <1>1, <1>4, Zenon

(* What interning does with the slots there are.                           *)
Revived(b, wanted) == {r \in wanted \cap DOMAIN b.externals : b.externals[r] \in b.tombstoned}
Stale(b, wanted)   == {b.externals[r] : r \in DOMAIN b.externals \ wanted} \ b.tombstoned

InternedSlot(b, wanted, i) ==
  IF \E r \in Revived(b, wanted) : b.externals[r] = i
  THEN [ref |-> CHOOSE r \in Revived(b, wanted) : b.externals[r] = i, flags |-> {}]
  ELSE IF i \in Stale(b, wanted) THEN Blank ELSE b.nodes[i]

InternedSlots(b, wanted) == [i \in DOMAIN b.nodes |-> InternedSlot(b, wanted, i)]
NewSlots(new)            == [j \in DOMAIN new |-> [ref |-> new[j], flags |-> {}]]
RevivedSlots(b, wanted)  == {b.externals[r] : r \in Revived(b, wanted)}

(* sized: nodes, tombstones and anchors.                                   *)
LEMMA InternedFields ==
  ASSUME NEW b, IsBuilder(b), NEW wanted, NEW new, NEW z, z = Interned(b, wanted, new)
  PROVE  /\ IsBuilder(z)
         /\ z.nodes = InternedSlots(b, wanted) \o NewSlots(new)
         /\ z.tombstoned = (b.tombstoned \ RevivedSlots(b, wanted)) \cup Stale(b, wanted)
         /\ z.externals = AnchorIds(b, wanted, new)
         /\ z.blocks = b.blocks /\ z.parts = b.parts /\ z.baseFlags = b.baseFlags /\ z.edges = b.edges
<1>1. PICK n, t, x :
        /\ n = InternedSlots(b, wanted) \o NewSlots(new)
        /\ t = (b.tombstoned \ RevivedSlots(b, wanted)) \cup Stale(b, wanted)
        /\ x = AnchorIds(b, wanted, new)
  OBVIOUS
<1>2. z = [b EXCEPT !.nodes = n, !.tombstoned = t, !.externals = x]
  BY <1>1 DEF Interned, InternedSlots, InternedSlot, NewSlots, RevivedSlots, Revived, Stale
<1>3. z = BuilderOf(n, b.blocks, t, b.parts, b.baseFlags, x, b.edges)
  <2>1. PICK n0, bl, t0, p, fl, x0, e :
          /\ n0 = b.nodes /\ bl = b.blocks /\ t0 = b.tombstoned /\ p = b.parts /\ fl = b.baseFlags
          /\ x0 = b.externals /\ e = b.edges
    OBVIOUS
  <2>2. b = BuilderOf(n0, bl, t0, p, fl, x0, e)
    BY <2>1 DEF IsBuilder
  <2>3. z = BuilderOf(n, bl, t, p, fl, x, e)
    BY <1>2, <2>2 DEF BuilderOf
  <2>. QED  BY <2>1, <2>3
<1>4. /\ z.nodes = n /\ z.tombstoned = t /\ z.externals = x
      /\ z.blocks = b.blocks /\ z.parts = b.parts /\ z.baseFlags = b.baseFlags /\ z.edges = b.edges
      /\ IsBuilder(z)
  BY <1>3, BuilderFields
<1>. QED  BY <1>1, <1>4, Zenon

(* Builders that differ in the flags of nodes, and in what is no slot.     *)
Reflagged(b, w) ==
  /\ IsBuilder(w)
  /\ IsSequence(w.nodes) /\ Len(w.nodes) = Len(b.nodes)
  /\ \A i \in DOMAIN b.nodes : w.nodes[i] = [ref |-> b.nodes[i].ref, flags |-> w.nodes[i].flags]
  /\ \A i \in b.tombstoned : w.nodes[i] = Blank
  /\ w.blocks = b.blocks /\ w.tombstoned = b.tombstoned /\ w.externals = b.externals

(* Slots are not moved by flags.                                           *)
LEMMA ReflaggedKeepsSlots ==
  ASSUME NEW b, NEW w, SlotsOK(b), Reflagged(b, w)
  PROVE  SlotsOK(w) /\ Live(w) = Live(b) /\ \A f : Block(w, f) = Block(b, f)
<1>1. DOMAIN w.nodes = DOMAIN b.nodes /\ Live(w) = Live(b) /\ \A f : Block(w, f) = Block(b, f)
  BY DEF SlotsOK, NodesOK, IsSequence, Reflagged, Live, Block
<1>2. NodesOK(w)
  <2>1. ASSUME NEW i \in DOMAIN w.nodes
        PROVE  /\ w.nodes[i] = [ref |-> w.nodes[i].ref, flags |-> w.nodes[i].flags]
               /\ i \in w.tombstoned => w.nodes[i] = Blank
               /\ i \notin w.tombstoned => w.nodes[i].ref # Absent
    <3>1. PICK n, r, f : n = w.nodes[i] /\ r = b.nodes[i].ref /\ f = w.nodes[i].flags
      OBVIOUS
    <3>2. n = [ref |-> r, flags |-> f]
      BY <1>1, <3>1 DEF Reflagged
    <3>3. n.ref = r /\ n.flags = f
      BY <3>2
    <3>4. i \in b.tombstoned => n = Blank
      BY <3>1 DEF Reflagged
    <3>5. i \notin b.tombstoned => r # Absent
      BY <1>1, <3>1 DEF SlotsOK, NodesOK
    <3>. QED  BY <3>1, <3>2, <3>3, <3>4, <3>5 DEF Reflagged
  <2>2. IsSequence(w.nodes) /\ w.tombstoned \subseteq DOMAIN w.nodes
    BY <1>1 DEF Reflagged, SlotsOK, NodesOK
  <2>. QED  BY <2>1, <2>2 DEF NodesOK
<1>3. BlocksOK(w)
  BY <1>1 DEF BlocksOK, SlotsOK, Reflagged
<1>4. AnchorsOK(w)
  BY <1>1 DEF AnchorsOK, SlotsOK, Reflagged
<1>5. BlockSlots(w) = BlockSlots(b) /\ AnchorSlots(w) = AnchorSlots(b)
  BY <1>1 DEF BlockSlots, AnchorSlots, Reflagged
<1>. QED  BY <1>1, <1>2, <1>3, <1>4, <1>5 DEF SlotsOK, Reflagged

Flagged(b, F) == [i \in DOMAIN b.nodes |-> [b.nodes[i] EXCEPT !.flags = F[i]]]

(* A node with other flags is the same node.                               *)
LEMMA FlaggedNodes ==
  ASSUME NEW b, NodesOK(b), NEW F, \A i \in b.tombstoned : F[i] = {}, NEW n, n = Flagged(b, F)
  PROVE  /\ IsSequence(n) /\ Len(n) = Len(b.nodes)
         /\ \A i \in DOMAIN b.nodes : n[i] = [ref |-> b.nodes[i].ref, flags |-> n[i].flags]
         /\ \A i \in b.tombstoned : n[i] = Blank
         /\ \A i \in DOMAIN b.nodes : n[i].flags = F[i]
<1>1. PICK l \in Nat : l = Len(b.nodes) /\ DOMAIN b.nodes = 1 .. l
  BY DEF NodesOK, IsSequence
<1>2. n = [i \in 1 .. l |-> [b.nodes[i] EXCEPT !.flags = F[i]]]
  BY <1>1 DEF Flagged
<1>3. IsSequence(n) /\ Len(n) = Len(b.nodes)
  BY <1>1, <1>2 DEF IsSequence
<1>4. ASSUME NEW i \in DOMAIN b.nodes
      PROVE  /\ n[i] = [ref |-> b.nodes[i].ref, flags |-> n[i].flags] /\ (i \in b.tombstoned => n[i] = Blank)
             /\ n[i].flags = F[i]
  <2>1. PICK m, r, f, g : m = b.nodes[i] /\ r = b.nodes[i].ref /\ f = b.nodes[i].flags /\ g = F[i]
    OBVIOUS
  <2>2. m = [ref |-> r, flags |-> f]
    BY <2>1 DEF NodesOK
  <2>3. n[i] = [ref |-> r, flags |-> g]
    <3>1. n[i] = [b.nodes[i] EXCEPT !.flags = F[i]]
      BY <1>1, <1>2
    <3>2. n[i] = [m EXCEPT !.flags = g]
      BY <2>1, <3>1
    <3>. QED  BY <2>2, <3>2
  <2>4. n[i].flags = g
    BY <2>3
  <2>5. i \in b.tombstoned => g = {} /\ m = Blank
    BY <2>1 DEF NodesOK
  <2>6. i \in b.tombstoned => r = Absent
    BY <2>1, <2>5 DEF Blank
  <2>. QED  BY <2>1, <2>3, <2>4, <2>5, <2>6 DEF Blank
<1>. QED  BY <1>3, <1>4 DEF NodesOK

(* The imports of some files, and the slots of those that dangle or not.   *)
ImportRows(files, c) == UNION {{row \in c.rows[f] : row.key.role = "binding"} : f \in files}

BadSlots(index, files, c) ==
  UNION {Ids(index, {row.src}) : row \in {r \in ImportRows(files, c) : c.memo[r.key].unresolved}}

GoodSlots(index, files, c) ==
  UNION {Ids(index, {row.src}) : row \in {r \in ImportRows(files, c) : ~c.memo[r.key].unresolved}}

StampIf(p) == IF p THEN {"UNRESOLVED"} ELSE {}

(* Stamping UNRESOLVED on live slots.                                      *)
LEMMA StampedReflags ==
  ASSUME NEW b, IsBuilder(b), NodesOK(b), NEW index, \A x \in index : x[2] \in Live(b), NEW files, NEW c,
         NEW w, w = Stamped(b, index, files, c)
  PROVE  /\ Reflagged(b, w) /\ w.parts = b.parts /\ w.baseFlags = b.baseFlags /\ w.edges = b.edges
         /\ \A i \in DOMAIN b.nodes :
              w.nodes[i].flags = (b.nodes[i].flags \ StampIf(i \in GoodSlots(index, files, c)))
                                    \cup StampIf(i \in BadSlots(index, files, c))
<1> DEFINE bad     == BadSlots(index, files, c)
           good    == GoodSlots(index, files, c)
           Flags(i) == (b.nodes[i].flags \ (IF i \in good THEN {"UNRESOLVED"} ELSE {}))
                         \cup (IF i \in bad THEN {"UNRESOLVED"} ELSE {})
           F == [i \in DOMAIN b.nodes |-> Flags(i)]
<1>1. \A i \in b.tombstoned : i \notin bad
  BY DEF BadSlots, Ids, Live
<1>2. \A i \in b.tombstoned : F[i] = {}
  <2> SUFFICES ASSUME NEW i \in b.tombstoned PROVE F[i] = {}
    OBVIOUS
  <2>1. i \notin bad /\ i \in DOMAIN b.nodes /\ b.nodes[i] = Blank
    BY <1>1 DEF NodesOK
  <2>2. b.nodes[i].flags = {}
    BY <2>1 DEF Blank
  <2> HIDE DEF bad, good
  <2>. QED  BY <2>1, <2>2
<1>3. PICK n, g : n = Flagged(b, F) /\ g = F
  OBVIOUS
<1>4. w = [b EXCEPT !.nodes = n]
  <2>1. n = [i \in DOMAIN b.nodes |-> [b.nodes[i] EXCEPT !.flags = Flags(i)]]
    <3> HIDE DEF Flags
    <3>. QED  BY <1>3 DEF Flagged
  <2>. QED  BY <2>1 DEF Stamped, ImportRows, BadSlots, GoodSlots
<1>41. \A i \in DOMAIN b.nodes : F[i] = (b.nodes[i].flags \ StampIf(i \in good)) \cup StampIf(i \in bad)
  BY DEF StampIf
<1> HIDE DEF F
<1>5. w = BuilderOf(n, b.blocks, b.tombstoned, b.parts, b.baseFlags, b.externals, b.edges)
  <2>1. PICK n0, bl, t, p, fl, x, e :
          /\ n0 = b.nodes /\ bl = b.blocks /\ t = b.tombstoned /\ p = b.parts /\ fl = b.baseFlags
          /\ x = b.externals /\ e = b.edges
    OBVIOUS
  <2>2. b = BuilderOf(n0, bl, t, p, fl, x, e)
    BY <2>1 DEF IsBuilder
  <2>3. w = BuilderOf(n, bl, t, p, fl, x, e)
    BY <1>4, <2>2 DEF BuilderOf
  <2>. QED  BY <2>1, <2>3
<1>6. /\ w.nodes = n /\ w.tombstoned = b.tombstoned /\ w.externals = b.externals
      /\ w.blocks = b.blocks /\ w.parts = b.parts /\ w.baseFlags = b.baseFlags /\ w.edges = b.edges
      /\ IsBuilder(w)
  BY <1>5, BuilderFields
<1>7. /\ IsSequence(n) /\ Len(n) = Len(b.nodes)
      /\ \A i \in DOMAIN b.nodes : n[i] = [ref |-> b.nodes[i].ref, flags |-> n[i].flags]
      /\ \A i \in b.tombstoned : n[i] = Blank
      /\ \A i \in DOMAIN b.nodes : n[i].flags = F[i]
  BY <1>2, <1>3, FlaggedNodes
<1> HIDE DEF good, bad
<1>8. Reflagged(b, w)
  BY <1>6, <1>7 DEF Reflagged
<1>9. \A i \in DOMAIN b.nodes : w.nodes[i].flags = (b.nodes[i].flags \ StampIf(i \in good)) \cup StampIf(i \in bad)
  BY <1>41, <1>6, <1>7
<1>. QED  BY <1>6, <1>8, <1>9 DEF good, bad

(* The parts, the edges and the snapshot.                                  *)
PartsOf(b, index, files, c) ==
  [f \in Present(src) |-> IF f \in files THEN Part(b, index, f, c) ELSE b.parts[f]]

(* The refold leaves the slots alone.                                      *)
LEMMA RefoldedFields ==
  ASSUME NEW b, IsBuilder(b), NodesOK(b), NEW index, NEW files, NEW c, NEW w, w = Refolded(b, index, files, c)
  PROVE  /\ Reflagged(b, w) /\ w.nodes = b.nodes
         /\ w.parts = PartsOf(b, index, files, c)
         /\ w.edges = UNION {PartsOf(b, index, files, c)[f] : f \in Present(src)}
         /\ w.baseFlags = [i \in DOMAIN b.nodes |-> b.nodes[i].flags]
<1>1. PICK p, e, fl :
        /\ p = PartsOf(b, index, files, c)
        /\ e = UNION {PartsOf(b, index, files, c)[f] : f \in Present(src)}
        /\ fl = [i \in DOMAIN b.nodes |-> b.nodes[i].flags]
  OBVIOUS
<1>2. w = [b EXCEPT !.parts = p, !.edges = e, !.baseFlags = fl]
  BY <1>1 DEF Refolded, PartsOf
<1>3. w = BuilderOf(b.nodes, b.blocks, b.tombstoned, p, fl, b.externals, e)
  <2>1. PICK n, bl, t, p0, fl0, x, e0 :
          /\ n = b.nodes /\ bl = b.blocks /\ t = b.tombstoned /\ p0 = b.parts /\ fl0 = b.baseFlags
          /\ x = b.externals /\ e0 = b.edges
    OBVIOUS
  <2>2. b = BuilderOf(n, bl, t, p0, fl0, x, e0)
    BY <2>1 DEF IsBuilder
  <2>3. w = BuilderOf(n, bl, t, p, fl, x, e)
    BY <1>2, <2>2 DEF BuilderOf
  <2>. QED  BY <2>1, <2>3
<1>4. /\ w.nodes = b.nodes /\ w.tombstoned = b.tombstoned /\ w.externals = b.externals
      /\ w.blocks = b.blocks /\ w.parts = p /\ w.baseFlags = fl /\ w.edges = e
      /\ IsBuilder(w)
  BY <1>3, BuilderFields
<1>5. Reflagged(b, w)
  BY <1>4 DEF Reflagged, NodesOK
<1>. QED  BY <1>1, <1>4, <1>5, Zenon

(* What the project-wide plugins add to the edges.                         *)
AddedEdges(b) ==
  UNION {Ids(Index(b), {e[1]}) \X Ids(Index(b), {e[2]}) : e \in ProjectOps(src).edges}

(* The plugin pass changes flags and adds edges.                           *)
LEMMA ProjectOpsReflag ==
  ASSUME NEW b, IsBuilder(b), NodesOK(b), \A x \in Index(b) : x[2] \in Live(b), NEW w, w = WithProjectOps(b)
  PROVE  /\ Reflagged(b, w) /\ w.parts = b.parts /\ w.baseFlags = b.baseFlags
         /\ w.edges = b.edges \cup AddedEdges(b)
         /\ \A i \in DOMAIN b.nodes :
              w.nodes[i].flags = b.nodes[i].flags
                                   \cup (IF i \in Ids(Index(b), ProjectOps(src).flagged) THEN {"ENTRYPOINT"} ELSE {})
<1> DEFINE hit == Ids(Index(b), ProjectOps(src).flagged)
           Flags(i) == IF i \in hit THEN b.nodes[i].flags \cup {"ENTRYPOINT"} ELSE b.nodes[i].flags
           F == [i \in DOMAIN b.nodes |-> Flags(i)]
<1>1. \A i \in b.tombstoned : i \notin hit
  BY DEF Ids, Live
<1>2. \A i \in b.tombstoned : F[i] = {}
  <2> SUFFICES ASSUME NEW i \in b.tombstoned PROVE F[i] = {}
    OBVIOUS
  <2>1. i \notin hit /\ i \in DOMAIN b.nodes /\ b.nodes[i] = Blank
    BY <1>1 DEF NodesOK
  <2>2. b.nodes[i].flags = {}
    BY <2>1 DEF Blank
  <2> HIDE DEF hit
  <2>. QED  BY <2>1, <2>2
<1>3. PICK n, e : n = Flagged(b, F) /\ e = b.edges \cup AddedEdges(b)
  OBVIOUS
<1>4. w = [b EXCEPT !.nodes = n, !.edges = e]
  <2>1. \A i \in DOMAIN b.nodes :
          [b.nodes[i] EXCEPT !.flags = F[i]]
            = IF i \in hit THEN [b.nodes[i] EXCEPT !.flags = @ \cup {"ENTRYPOINT"}] ELSE b.nodes[i]
    <3> SUFFICES ASSUME NEW i \in DOMAIN b.nodes
                 PROVE  [b.nodes[i] EXCEPT !.flags = F[i]]
                          = IF i \in hit THEN [b.nodes[i] EXCEPT !.flags = @ \cup {"ENTRYPOINT"}] ELSE b.nodes[i]
      OBVIOUS
    <3> HIDE DEF hit
    <3>1. F[i] = Flags(i)
      OBVIOUS
    <3>2. PICK m, r, f : m = b.nodes[i] /\ r = b.nodes[i].ref /\ f = b.nodes[i].flags
      OBVIOUS
    <3>3. m = [ref |-> r, flags |-> f]
      BY <3>2 DEF NodesOK
    <3>4. [m EXCEPT !.flags = f] = m
      BY <3>3
    <3>. QED  BY <3>1, <3>2, <3>4
  <2>2. n = [i \in DOMAIN b.nodes |->
               IF i \in hit THEN [b.nodes[i] EXCEPT !.flags = @ \cup {"ENTRYPOINT"}] ELSE b.nodes[i]]
    <3> HIDE DEF hit, F
    <3>. QED  BY <1>3, <2>1 DEF Flagged
  <2>. QED  BY <1>3, <2>2 DEF WithProjectOps, AddedEdges
<1>41. \A i \in DOMAIN b.nodes : F[i] = b.nodes[i].flags \cup (IF i \in hit THEN {"ENTRYPOINT"} ELSE {})
  <2> HIDE DEF hit
  <2>. QED  OBVIOUS
<1> HIDE DEF F
<1>5. w = BuilderOf(n, b.blocks, b.tombstoned, b.parts, b.baseFlags, b.externals, e)
  <2>1. PICK n0, bl, t, p, fl, x, e0 :
          /\ n0 = b.nodes /\ bl = b.blocks /\ t = b.tombstoned /\ p = b.parts /\ fl = b.baseFlags
          /\ x = b.externals /\ e0 = b.edges
    OBVIOUS
  <2>2. b = BuilderOf(n0, bl, t, p, fl, x, e0)
    BY <2>1 DEF IsBuilder
  <2>3. w = BuilderOf(n, bl, t, p, fl, x, e)
    BY <1>4, <2>2 DEF BuilderOf
  <2>. QED  BY <2>1, <2>3
<1>6. /\ w.nodes = n /\ w.tombstoned = b.tombstoned /\ w.externals = b.externals
      /\ w.blocks = b.blocks /\ w.parts = b.parts /\ w.baseFlags = b.baseFlags /\ w.edges = e
      /\ IsBuilder(w)
  BY <1>5, BuilderFields
<1>7. /\ IsSequence(n) /\ Len(n) = Len(b.nodes)
      /\ \A i \in DOMAIN b.nodes : n[i] = [ref |-> b.nodes[i].ref, flags |-> n[i].flags]
      /\ \A i \in b.tombstoned : n[i] = Blank
      /\ \A i \in DOMAIN b.nodes : n[i].flags = F[i]
  BY <1>2, <1>3, FlaggedNodes
<1>8. w.edges = b.edges \cup AddedEdges(b)
  BY <1>3, <1>6
<1>9. Reflagged(b, w)
  BY <1>6, <1>7 DEF Reflagged
<1>10. \A i \in DOMAIN b.nodes :
         w.nodes[i].flags = b.nodes[i].flags \cup (IF i \in hit THEN {"ENTRYPOINT"} ELSE {})
  <2> HIDE DEF hit
  <2>. QED  BY <1>41, <1>6, <1>7
<1>. QED  BY <1>6, <1>8, <1>9, <1>10

-----------------------------------------------------------------------------
(* The index, and the edges translated with it.                            *)

(* A builder whose blocks are those of the sources.                        *)
Carries(b) == SlotsOK(b) /\ src \in Sources /\ DOMAIN b.blocks = Present(src) /\ Sized(b, src)

(* The block of a file holds its payload, the module first.                *)
LEMMA BlockHolds ==
  ASSUME NEW b, Carries(b), NEW f \in Present(src)
  PROVE  /\ \A i \in DOMAIN PayloadNodes(src, f) : b.blocks[f].base + i \in Block(b, f)
         /\ ModuleId(b, f) \in Block(b, f)
         /\ Block(b, f) \subseteq Live(b) /\ Block(b, f) \subseteq BlockSlots(b)
<1>1. PICK base \in Nat, len \in Nat :
        base = b.blocks[f].base /\ len = b.blocks[f].len /\ len = Len(PayloadNodes(src, f))
  BY DEF Carries, SlotsOK, BlocksOK, Sized
<1>2. Block(b, f) = (base + 1) .. (base + len)
  BY <1>1 DEF Block, Carries
<1>3. len # 0 /\ DOMAIN PayloadNodes(src, f) = 1 .. len
  BY <1>1, PayloadsAssumption DEF Carries
<1>4. \A i \in 1 .. len : base + i \in (base + 1) .. (base + len)
  OBVIOUS
<1>5. 1 \in 1 .. len
  BY <1>3
<1>6. Block(b, f) \subseteq Live(b) /\ Block(b, f) \subseteq BlockSlots(b)
  BY DEF Carries, SlotsOK, BlocksOK, BlockSlots
<1>. QED  BY <1>1, <1>2, <1>3, <1>4, <1>5, <1>6 DEF ModuleId

OfFile(b, x, f) == x[1].file = f /\ x[1].node # "external" /\ x[2] \in Block(b, f)

OfAnchor(b, x) == x[1] \in DOMAIN b.externals /\ x[1].node = "external" /\ b.externals[x[1]] = x[2]

(* What is in the index is live, and either in the block of its file or    *)
(* the slot of an anchor.                                                  *)
LEMMA IndexEntries ==
  ASSUME NEW b, Carries(b), NEW x \in Index(b)
  PROVE  x[2] \in Live(b) /\ (OfAnchor(b, x) \/ \E f \in Present(src) : OfFile(b, x, f))
<1>1. CASE x \in {<<r, b.externals[r]>> : r \in {q \in DOMAIN b.externals : b.externals[q] \notin b.tombstoned}}
  <2>1. PICK r \in DOMAIN b.externals : b.externals[r] \notin b.tombstoned /\ x = <<r, b.externals[r]>>
    BY <1>1
  <2>2. x[1] = r /\ x[2] = b.externals[r]
    BY <2>1
  <2>3. r.node = "external" /\ b.externals[r] \in DOMAIN b.nodes
    BY DEF Carries, SlotsOK, AnchorsOK
  <2>. QED  BY <2>1, <2>2, <2>3 DEF OfAnchor, Live
<1>2. ASSUME NEW f \in Present(src), NEW i \in DOMAIN PayloadNodes(src, f),
             x = <<PayloadNodes(src, f)[i].ref, b.blocks[f].base + i>>
      PROVE  x[2] \in Live(b) /\ OfFile(b, x, f)
  <2>1. x[1] = PayloadNodes(src, f)[i].ref /\ x[2] = b.blocks[f].base + i
    BY <1>2
  <2>2. PayloadNodes(src, f)[i].ref.file = f /\ PayloadNodes(src, f)[i].ref.node # "external"
    BY PayloadsAssumption DEF Carries
  <2>. QED  BY <2>1, <2>2, BlockHolds DEF OfFile
<1>3. x \in {<<r, b.externals[r]>> : r \in {q \in DOMAIN b.externals : b.externals[q] \notin b.tombstoned}}
      \/ \E f \in Present(src) : \E i \in DOMAIN PayloadNodes(src, f) :
           x = <<PayloadNodes(src, f)[i].ref, b.blocks[f].base + i>>
  BY DEF Index
<1>. QED  BY <1>1, <1>2, <1>3

(* The ids of a ref of a file are in its block.                            *)
LEMMA LocalIds ==
  ASSUME NEW b, Carries(b), NEW f \in Present(src), NEW refs, \A r \in refs : r.file = f /\ r.node # "external"
  PROVE  Ids(Index(b), refs) \subseteq Block(b, f)
<1> SUFFICES ASSUME NEW x \in Index(b), x[1] \in refs PROVE x[2] \in Block(b, f)
  BY DEF Ids
<1>1. x[1].file = f /\ x[1].node # "external"
  OBVIOUS
<1>. QED  BY <1>1, IndexEntries DEF OfAnchor, OfFile

(* Any id is live, and in a block if it is not an anchor among the refs.   *)
LEMMA AnyIds ==
  ASSUME NEW b, Carries(b), NEW refs, NEW i \in Ids(Index(b), refs)
  PROVE  /\ i \in Live(b)
         /\ i \in BlockSlots(b) \/ \E r \in refs \cap DOMAIN b.externals : r.node = "external" /\ b.externals[r] = i
<1>1. PICK x \in Index(b) : x[1] \in refs /\ x[2] = i
  BY DEF Ids
<1>2. CASE OfAnchor(b, x)
  BY <1>1, <1>2, IndexEntries DEF OfAnchor
<1>3. ASSUME NEW f \in Present(src), OfFile(b, x, f)
      PROVE  i \in BlockSlots(b)
  BY <1>1, <1>3, BlockHolds DEF OfFile
<1>. QED  BY <1>1, <1>2, <1>3, IndexEntries

GoodEdge(b, f, e) ==
  /\ e[1] \in Block(b, f) /\ e[2] \in Live(b)
  /\ e[2] \in BlockSlots(b) \/ AnchoredAt(b, src, f, e[2])

(* Stage 3: every edge of a new part leaves the block of its file, ends at *)
(* a live slot, and reaches an anchor only for a row that names it.        *)
LEMMA PartEdges ==
  ASSUME NEW b, Carries(b), NEW f \in Present(src), NEW c, c.rows[f] = RefSpecs(src, f),
         \A k \in MemberKeys(RefSpecs(src, f)) : c.memo[k] = ResolveMember(k, src),
         NEW e \in Part(b, Index(b), f, c)
  PROVE  GoodEdge(b, f, e)
<1>0. src \in Sources
  BY DEF Carries
<1>1. ASSUME NEW row \in RefSpecs(src, f), e \in SpecEdges(Index(b), f, row, c)
      PROVE  GoodEdge(b, f, e)
  <2> DEFINE dsts == IF row.key.role = "local" THEN {row.dst} ELSE c.memo[row.key].targets
  <2>1. e[1] \in Ids(Index(b), {row.src}) /\ e[2] \in Ids(Index(b), dsts)
    BY <1>1 DEF SpecEdges
  <2>2. row.src.file = f /\ row.src.node # "external"
    BY <1>0, PayloadsAssumption
  <2>3. e[1] \in Block(b, f)
    BY <2>1, <2>2, LocalIds
  <2> HIDE DEF dsts
  <2>4. /\ e[2] \in Live(b)
        /\ e[2] \in BlockSlots(b) \/ \E r \in dsts \cap DOMAIN b.externals : r.node = "external" /\ b.externals[r] = e[2]
    BY <2>1, AnyIds
  <2>5. ASSUME NEW r \in dsts \cap DOMAIN b.externals, r.node = "external", b.externals[r] = e[2]
        PROVE  AnchoredAt(b, src, f, e[2])
    <3>1. row.key.role # "local"
      BY <1>0, <2>5, PayloadsAssumption DEF dsts
    <3>2. row.key \in MemberKeys(RefSpecs(src, f))
      BY <1>0, <3>1, PayloadsAssumption
    <3>3. r \in ResolveMember(row.key, src).targets
      BY <3>1, <3>2, <2>5 DEF dsts
    <3>. QED  BY <2>5, <3>1, <3>3 DEF AnchoredAt
  <2>. QED  BY <2>3, <2>4, <2>5 DEF GoodEdge
<1>2. ASSUME e \in StructuralEdges(b, f) PROVE GoodEdge(b, f, e)
  <2>1. CASE e \in (Block(b, f) \ {ModuleId(b, f)}) \X {ModuleId(b, f)}
    BY <2>1, BlockHolds DEF GoodEdge
  <2>2. ASSUME NEW g \in ParentModule(src, f), e = <<ModuleId(b, f), ModuleId(b, g)>>
        PROVE  GoodEdge(b, f, e)
    <3>1. g \in Present(src)
      BY <1>0, PayloadsAssumption
    <3>2. e[1] = ModuleId(b, f) /\ e[2] = ModuleId(b, g)
      BY <2>2
    <3>3. ModuleId(b, f) \in Block(b, f)
      BY BlockHolds
    <3>4. ModuleId(b, g) \in Live(b) /\ ModuleId(b, g) \in BlockSlots(b)
      BY <3>1, BlockHolds
    <3>. QED  BY <3>2, <3>3, <3>4 DEF GoodEdge
  <2>. QED  BY <1>2, <2>1, <2>2 DEF StructuralEdges
<1>3. ASSUME NEW g \in PyTwin(src, f), NEW n \in DOMAIN ExportsByName(src, f) \cap DOMAIN ExportsByName(src, g),
             e \in Ids(Index(b), ExportsByName(src, f)[n]) \X Ids(Index(b), ExportsByName(src, g)[n])
      PROVE  GoodEdge(b, f, e)
  <2>1. g \in Present(src)
    BY <1>0, TwinsPresent
  <2>2. /\ \A r \in ExportsByName(src, f)[n] : r.file = f /\ r.node # "external"
        /\ \A r \in ExportsByName(src, g)[n] : r.file = g /\ r.node # "external"
    BY <1>0, <2>1, PayloadsAssumption
  <2>3. e[1] \in Ids(Index(b), ExportsByName(src, f)[n]) /\ e[2] \in Ids(Index(b), ExportsByName(src, g)[n])
    BY <1>3
  <2>4. Ids(Index(b), ExportsByName(src, f)[n]) \subseteq Block(b, f)
    BY <2>2, LocalIds
  <2>5. Ids(Index(b), ExportsByName(src, g)[n]) \subseteq Block(b, g)
    BY <2>1, <2>2, LocalIds
  <2>6. Block(b, g) \subseteq Live(b) /\ Block(b, g) \subseteq BlockSlots(b)
    BY <2>1, BlockHolds
  <2>. QED  BY <2>3, <2>4, <2>5, <2>6 DEF GoodEdge
<1>4. ASSUME e \in PluginEdges(b, f) PROVE GoodEdge(b, f, e)
  <2>1. PICK o : {o[1], o[2]} \subseteq DOMAIN PayloadNodes(src, f)
                 /\ e = <<b.blocks[f].base + o[1], b.blocks[f].base + o[2]>>
    BY <1>4 DEF PluginEdges
  <2>2. e[1] = b.blocks[f].base + o[1] /\ e[2] = b.blocks[f].base + o[2]
    BY <2>1
  <2>. QED  BY <2>1, <2>2, BlockHolds DEF GoodEdge
<1>5. \/ \E row \in RefSpecs(src, f) : e \in SpecEdges(Index(b), f, row, c)
      \/ e \in StructuralEdges(b, f) \/ e \in PeerEdges(Index(b), f) \/ e \in PluginEdges(b, f)
  BY DEF Part
<1>. QED  BY <1>1, <1>2, <1>3, <1>4, <1>5 DEF PeerEdges

-----------------------------------------------------------------------------
(* New anchors, in the order of their names.                               *)

Lower(S, r) == {q \in S : Before(ExternalOrder, q.file, r.file)}

Named(S) ==
  \A r \in S : /\ \E i \in DOMAIN ExternalOrder : ExternalOrder[i] = r.file
               /\ \A q \in S : q.file = r.file => q = r

(* Names that are ranked are finitely many.                                *)
LEMMA NamedIsFinite ==
  ASSUME NEW S, Named(S)
  PROVE  IsFiniteSet(S)
<1> DEFINE f == [r \in S |-> CHOOSE i \in DOMAIN ExternalOrder : ExternalOrder[i] = r.file]
<1>1. PICK l \in Nat : DOMAIN ExternalOrder = 1 .. l
  BY OrdersAssumption DEF Enumerates
<1>2. \A r \in S : f[r] \in 1 .. l /\ ExternalOrder[f[r]] = r.file
  BY <1>1 DEF Named
<1>3. \A r, q \in S : f[r] = f[q] => r = q
  BY <1>2 DEF Named
<1>4. f \in Injection(S, 1 .. l)
  BY <1>2, <1>3 DEF Injection, IsInjective
<1>5. IsFiniteSet(1 .. l)
  BY <1>1, FS_Interval
<1>. QED  BY <1>4, <1>5, FS_Injection

(* Ranks are all different.                                                *)
LEMMA RankIsInjective ==
  ASSUME NEW S, Named(S), NEW r \in S, NEW q \in S, r # q
  PROVE  Cardinality(Lower(S, r)) # Cardinality(Lower(S, q))
<1>1. PICK l \in Nat : DOMAIN ExternalOrder = 1 .. l
  BY OrdersAssumption DEF Enumerates
<1>2. \A i, j \in 1 .. l : ExternalOrder[i] = ExternalOrder[j] => i = j
  BY <1>1, OrdersAssumption DEF Enumerates
<1>3. ASSUME NEW x \in S, NEW y \in S, NEW i \in 1 .. l, NEW j \in 1 .. l, i < j,
             ExternalOrder[i] = x.file, ExternalOrder[j] = y.file
      PROVE  Cardinality(Lower(S, x)) # Cardinality(Lower(S, y))
  <2>1. x \in Lower(S, y)
    BY <1>1, <1>3 DEF Lower, Before
  <2>2. x \notin Lower(S, x)
    BY <1>1, <1>2 DEF Lower, Before
  <2>3. Lower(S, x) \subseteq Lower(S, y)
    <3> SUFFICES ASSUME NEW z \in Lower(S, x) PROVE z \in Lower(S, y)
      OBVIOUS
    <3>1. PICK m, n \in 1 .. l : m < n /\ ExternalOrder[m] = z.file /\ ExternalOrder[n] = x.file
      BY <1>1 DEF Lower, Before
    <3>2. n = i /\ m < j
      BY <1>2, <1>3, <3>1
    <3>. QED  BY <1>1, <1>3, <3>1, <3>2 DEF Lower, Before
  <2>4. IsFiniteSet(Lower(S, y))
    BY NamedIsFinite, FS_Subset DEF Lower
  <2>. QED  BY <2>1, <2>2, <2>3, <2>4, FS_Subset
<1>4. PICK i, j \in 1 .. l : ExternalOrder[i] = r.file /\ ExternalOrder[j] = q.file
  BY <1>1 DEF Named
<1>5. i # j
  BY <1>4 DEF Named
<1>6. i < j \/ j < i
  BY <1>5
<1>. QED  BY <1>3, <1>4, <1>6

(* So there is one for every place.                                        *)
LEMMA AnchorsInOrder ==
  ASSUME NEW S, Named(S), NEW new,
         new = [j \in 1 .. Cardinality(S) |-> CHOOSE r \in S : Cardinality(Lower(S, r)) = j - 1]
  PROVE  Enumerates(new, S)
<1>1. PICK n \in Nat : n = Cardinality(S)
  BY NamedIsFinite, FS_CardinalityType
<1> DEFINE rank == [r \in S |-> Cardinality(Lower(S, r)) + 1]
<1>2. \A r \in S : rank[r] \in 1 .. n
  <2> SUFFICES ASSUME NEW r \in S PROVE Cardinality(Lower(S, r)) + 1 \in 1 .. n
    OBVIOUS
  <2>1. r \notin Lower(S, r)
    BY OrdersAssumption DEF Lower, Before, Enumerates
  <2>2. Lower(S, r) \subseteq S /\ IsFiniteSet(S) /\ Lower(S, r) # S
    BY <2>1, NamedIsFinite DEF Lower
  <2>3. /\ IsFiniteSet(Lower(S, r)) /\ Cardinality(Lower(S, r)) <= n
        /\ Cardinality(Lower(S, r)) # n
    BY <1>1, <2>2, FS_Subset
  <2>4. Cardinality(Lower(S, r)) \in Nat
    BY <2>3, FS_CardinalityType
  <2>. QED  BY <1>1, <2>3, <2>4
<1>3. \A r, q \in S : rank[r] = rank[q] => r = q
  <2> SUFFICES ASSUME NEW r \in S, NEW q \in S, rank[r] = rank[q], r # q PROVE FALSE
    OBVIOUS
  <2>1. PICK a, d \in Nat : a = Cardinality(Lower(S, r)) /\ d = Cardinality(Lower(S, q))
    <3>1. IsFiniteSet(Lower(S, r)) /\ IsFiniteSet(Lower(S, q))
      BY NamedIsFinite, FS_Subset DEF Lower
    <3>. QED  BY <3>1, FS_CardinalityType
  <2>2. a + 1 = d + 1
    BY <2>1
  <2>. QED  BY <2>1, <2>2, RankIsInjective
<1>4. rank \in Injection(S, 1 .. n)
  BY <1>2, <1>3 DEF Injection, IsInjective
<1>5. IsFiniteSet(1 .. n) /\ Cardinality(1 .. n) = n
  BY FS_Interval
<1>6. rank \in Surjection(S, 1 .. n)
  BY <1>1, <1>4, <1>5, FS_Injection
<1>7. \A j \in 1 .. n : new[j] \in S /\ Cardinality(Lower(S, new[j])) = j - 1
  <2> SUFFICES ASSUME NEW j \in 1 .. n
               PROVE  new[j] \in S /\ Cardinality(Lower(S, new[j])) = j - 1
    OBVIOUS
  <2>1. PICK r \in S : rank[r] = j
    BY <1>6 DEF Surjection
  <2>2. Cardinality(Lower(S, r)) \in Nat
    <3>1. IsFiniteSet(Lower(S, r))
      BY NamedIsFinite, FS_Subset DEF Lower
    <3>. QED  BY <3>1, FS_CardinalityType
  <2>3. Cardinality(Lower(S, r)) = j - 1
    BY <2>1, <2>2
  <2>. QED  BY <1>1, <2>3
<1>8. DOMAIN new = 1 .. n /\ new \in Seq(S)
  BY <1>1, <1>7
<1>9. \A r \in S : \E j \in 1 .. n : new[j] = r
  <2> SUFFICES ASSUME NEW r \in S PROVE new[rank[r]] = r
    BY <1>2
  <2>1. Cardinality(Lower(S, new[rank[r]])) = Cardinality(Lower(S, r)) /\ new[rank[r]] \in S
    <3>1. PICK a \in Nat : a = Cardinality(Lower(S, r))
      <4>1. IsFiniteSet(Lower(S, r))
        BY NamedIsFinite, FS_Subset DEF Lower
      <4>. QED  BY <4>1, FS_CardinalityType
    <3>2. rank[r] = a + 1 /\ a + 1 \in 1 .. n
      BY <1>2, <3>1
    <3>. QED  BY <1>7, <3>1, <3>2
  <2>. QED  BY <2>1, RankIsInjective
<1>10. \A i, j \in 1 .. n : new[i] = new[j] => i = j
  <2> SUFFICES ASSUME NEW i \in 1 .. n, NEW j \in 1 .. n, new[i] = new[j] PROVE i = j
    OBVIOUS
  <2>1. i - 1 = j - 1
    BY <1>7
  <2>. QED  BY <2>1
<1>. QED  BY <1>8, <1>9, <1>10 DEF Enumerates

-----------------------------------------------------------------------------
(* New blocks, one after the other.                                        *)

SlotsFor(files) == UNION {{g} \X DOMAIN PayloadNodes(src, g) : g \in files}

FirstFiles(dirty, k) == {h \in dirty : \E i \in 1 .. k : FileOrder[i] = h}

Offset(dirty, f) == Cardinality(SlotsFor({h \in dirty : Before(FileOrder, h, f)}))

PayloadLen(f) == Len(PayloadNodes(src, f))

(* One file more takes as many slots as its payload has nodes.             *)
LEMMA OneFileMore ==
  ASSUME src \in Sources, NEW files, NEW f \in Present(src), f \notin files, IsFiniteSet(SlotsFor(files))
  PROVE  /\ IsFiniteSet(SlotsFor(files \cup {f}))
         /\ Cardinality(SlotsFor(files \cup {f})) = Cardinality(SlotsFor(files)) + PayloadLen(f)
<1>0. PICK n \in Nat : n = PayloadLen(f) /\ DOMAIN PayloadNodes(src, f) = 1 .. n
  BY PayloadsAssumption DEF PayloadLen
<1>1. PICK D : D = DOMAIN PayloadNodes(src, f) /\ D = 1 .. n
  BY <1>0
<1>2. IsFiniteSet(D) /\ Cardinality(D) = n
  BY <1>1, FS_Interval
<1>3. IsFiniteSet({f}) /\ Cardinality({f}) = 1
  BY FS_Singleton
<1>4. IsFiniteSet({f} \X D) /\ Cardinality({f} \X D) = n
  <2>1. IsFiniteSet({f} \X D) /\ Cardinality({f} \X D) = Cardinality({f}) * Cardinality(D)
    BY <1>2, <1>3, FS_Product
  <2>2. 1 * n = n
    OBVIOUS
  <2>. QED  BY <1>2, <1>3, <2>1, <2>2
<1>5. SlotsFor(files \cup {f}) = SlotsFor(files) \cup ({f} \X D)
  <2>1. \A x : x \in SlotsFor(files \cup {f}) <=> \E g \in files \cup {f} : x \in {g} \X DOMAIN PayloadNodes(src, g)
    BY DEF SlotsFor
  <2>2. \A x : x \in SlotsFor(files) <=> \E g \in files : x \in {g} \X DOMAIN PayloadNodes(src, g)
    BY DEF SlotsFor
  <2>3. \A x : x \in SlotsFor(files \cup {f}) <=> x \in SlotsFor(files) \/ x \in {f} \X D
    BY <1>1, <2>1, <2>2
  <2>. QED  BY <2>3
<1>6. SlotsFor(files) \cap ({f} \X D) = {}
  <2> SUFFICES ASSUME NEW x \in SlotsFor(files), x \in {f} \X D PROVE FALSE
    OBVIOUS
  <2>1. PICK g \in files : x \in {g} \X DOMAIN PayloadNodes(src, g)
    BY DEF SlotsFor
  <2>2. x[1] = g /\ x[1] = f
    BY <2>1
  <2>. QED  BY <2>2
<1>7. Cardinality(SlotsFor(files) \cap ({f} \X D)) = 0
  BY <1>6, FS_EmptySet
<1>8. PICK m \in Nat : m = Cardinality(SlotsFor(files))
  BY FS_CardinalityType
<1>9. /\ IsFiniteSet(SlotsFor(files) \cup ({f} \X D))
      /\ Cardinality(SlotsFor(files) \cup ({f} \X D))
           = Cardinality(SlotsFor(files)) + Cardinality({f} \X D) - Cardinality(SlotsFor(files) \cap ({f} \X D))
  BY <1>4, FS_Union
<1>10. m + n - 0 = m + n
  OBVIOUS
<1>. QED  BY <1>0, <1>4, <1>5, <1>7, <1>8, <1>9, <1>10

(* What is strung together, a file at a time.                              *)
NewParts(dirty) ==
  [k \in DOMAIN FileOrder |->
    IF FileOrder[k] \notin dirty THEN <<>>
    ELSE [i \in DOMAIN PayloadNodes(src, FileOrder[k]) |-> NewNode(src, FileOrder[k], i)]]

NewNodesOf(dirty) == UNION {{NewNode(src, f, i) : i \in DOMAIN PayloadNodes(src, f)} : f \in dirty}

(* A dirty file has its payload strung in, any other file nothing.         *)
LEMMA NewPartsSequence ==
  ASSUME src \in Sources, NEW dirty, dirty \subseteq Present(src), NEW l \in Nat, DOMAIN FileOrder = 1 .. l
  PROVE  /\ NewParts(dirty) \in Seq(Seq(NewNodesOf(dirty))) /\ Len(NewParts(dirty)) = l
         /\ \A k \in 1 .. l :
              Len(NewParts(dirty)[k]) = IF FileOrder[k] \in dirty THEN PayloadLen(FileOrder[k]) ELSE 0
<1>1. ASSUME NEW k \in 1 .. l
      PROVE  /\ NewParts(dirty)[k] \in Seq(NewNodesOf(dirty))
             /\ Len(NewParts(dirty)[k]) = IF FileOrder[k] \in dirty THEN PayloadLen(FileOrder[k]) ELSE 0
  <2>1. CASE FileOrder[k] \notin dirty
    <3>1. NewParts(dirty)[k] = <<>>
      BY <2>1 DEF NewParts
    <3>. QED  BY <2>1, <3>1
  <2>2. CASE FileOrder[k] \in dirty
    <3>1. PICK f \in dirty : f = FileOrder[k]
      BY <2>2
    <3>2. PICK n \in Nat : n = PayloadLen(f) /\ DOMAIN PayloadNodes(src, f) = 1 .. n
      BY PayloadsAssumption DEF PayloadLen
    <3>3. NewParts(dirty)[k] = [i \in 1 .. n |-> NewNode(src, f, i)]
      BY <2>2, <3>1, <3>2 DEF NewParts
    <3>4. \A i \in 1 .. n : NewNode(src, f, i) \in NewNodesOf(dirty)
      BY <3>2 DEF NewNodesOf
    <3>. QED  BY <2>2, <3>1, <3>2, <3>3, <3>4
  <2>. QED  BY <2>1, <2>2
<1>2. DOMAIN NewParts(dirty) = 1 .. l /\ NewParts(dirty) = [k \in 1 .. l |-> NewParts(dirty)[k]]
  BY DEF NewParts
<1>3. PICK ps : ps = NewParts(dirty)
  OBVIOUS
<1>4. ps = [k \in 1 .. l |-> ps[k]] /\ \A k \in 1 .. l : ps[k] \in Seq(NewNodesOf(dirty))
  BY <1>1, <1>2, <1>3
<1>5. ps \in Seq(Seq(NewNodesOf(dirty))) /\ Len(ps) = l
  BY <1>4
<1>. QED  BY <1>1, <1>3, <1>5

(* The offsets are the numbers of slots the files before take.             *)
LEMMA OffsetsCount ==
  ASSUME src \in Sources, NEW dirty, dirty \subseteq Present(src), NEW l \in Nat, DOMAIN FileOrder = 1 .. l,
         NEW off, Offsets(off, NewParts(dirty))
  PROVE  \A k \in 0 .. l : /\ IsFiniteSet(SlotsFor(FirstFiles(dirty, k)))
                           /\ off[k] = Cardinality(SlotsFor(FirstFiles(dirty, k)))
<1> DEFINE Good(k) == /\ IsFiniteSet(SlotsFor(FirstFiles(dirty, k)))
                      /\ off[k] = Cardinality(SlotsFor(FirstFiles(dirty, k)))
           T == {k \in 0 .. l : ~Good(k)}
<1> SUFFICES ASSUME T # {} PROVE FALSE
  OBVIOUS
<1>1. PICK m \in T : \A k \in T : m <= k
  <2>1. T \subseteq Nat
    OBVIOUS
  <2>. QED  BY <2>1, LeastElement
<1>2. off[0] = 0 /\ \A i \in 1 .. l : off[i] = off[i - 1] + Len(NewParts(dirty)[i])
  BY NewPartsSequence DEF Offsets
<1>3. Good(0)
  <2>1. FirstFiles(dirty, 0) = {}
    BY DEF FirstFiles
  <2>2. SlotsFor(FirstFiles(dirty, 0)) = {}
    BY <2>1 DEF SlotsFor
  <2>. QED  BY <1>2, <2>2, FS_EmptySet
<1>4. m \in 1 .. l /\ m - 1 \in 0 .. l /\ m - 1 \notin T
  BY <1>1, <1>3
<1>5. PICK f, files : f = FileOrder[m] /\ files = FirstFiles(dirty, m - 1)
  OBVIOUS
<1>6. IsFiniteSet(SlotsFor(files)) /\ off[m - 1] = Cardinality(SlotsFor(files))
  BY <1>4, <1>5
<1>7. FirstFiles(dirty, m) = files \cup ({f} \cap dirty)
  <2>1. \A i \in 1 .. m : i \in 1 .. (m - 1) \/ i = m
    BY <1>4
  <2>2. \A i \in 1 .. (m - 1) : i \in 1 .. m
    BY <1>4
  <2>3. m \in 1 .. m
    BY <1>4
  <2>. QED  BY <1>5, <2>1, <2>2, <2>3 DEF FirstFiles
<1>8. f \notin files
  <2>1. \A i \in 1 .. (m - 1) : i \in 1 .. l /\ i # m
    BY <1>4
  <2>. QED  BY <1>4, <1>5, <2>1, OrdersAssumption DEF FirstFiles, Enumerates
<1>9. PICK a \in Nat : a = off[m - 1]
  BY <1>6, FS_CardinalityType
<1>10. CASE f \in dirty
  <2>1. FirstFiles(dirty, m) = files \cup {f} /\ f \in Present(src)
    BY <1>7, <1>10
  <2>2. off[m] = off[m - 1] + PayloadLen(f)
    BY <1>2, <1>4, <1>5, <1>10, NewPartsSequence
  <2>3. Good(m)
    BY <1>6, <1>8, <2>1, <2>2, OneFileMore
  <2>. QED  BY <1>1, <2>3
<1>11. CASE f \notin dirty
  <2>1. FirstFiles(dirty, m) = files
    BY <1>7, <1>11
  <2>2. off[m] = off[m - 1]
    <3>1. Len(NewParts(dirty)[m]) = 0
      BY <1>4, <1>5, <1>11, NewPartsSequence
    <3>. QED  BY <1>2, <1>4, <1>9, <3>1
  <2>3. Good(m)
    BY <1>6, <2>1, <2>2
  <2>. QED  BY <1>1, <2>3
<1>. QED  BY <1>10, <1>11

(* The offsets never go down.                                              *)
LEMMA OffsetsGrow ==
  ASSUME src \in Sources, NEW dirty, dirty \subseteq Present(src), NEW l \in Nat, DOMAIN FileOrder = 1 .. l,
         NEW off, Offsets(off, NewParts(dirty)), NEW i \in 0 .. l, NEW j \in 0 .. l, i <= j
  PROVE  off[i] <= off[j]
<1>1. FirstFiles(dirty, i) \subseteq FirstFiles(dirty, j)
  <2>1. \A k \in 1 .. i : k \in 1 .. j
    OBVIOUS
  <2>. QED  BY <2>1 DEF FirstFiles
<1>2. SlotsFor(FirstFiles(dirty, i)) \subseteq SlotsFor(FirstFiles(dirty, j))
  BY <1>1 DEF SlotsFor
<1>. QED  BY <1>2, OffsetsCount, FS_Subset

(* Where each new block is, and that there is nothing between them.        *)
LEMMA NewNodesPlaced ==
  ASSUME src \in Sources, NEW dirty, dirty \subseteq Present(src), NEW new, new = NewNodes(dirty)
  PROVE  /\ new \in Seq(NewNodesOf(dirty))
         /\ \A f \in dirty : /\ PayloadLen(f) \in Nat /\ Offset(dirty, f) \in Nat
                             /\ Offset(dirty, f) + PayloadLen(f) <= Len(new)
         /\ \A f, g \in dirty :
              f # g => \/ Offset(dirty, f) + PayloadLen(f) <= Offset(dirty, g)
                       \/ Offset(dirty, g) + PayloadLen(g) <= Offset(dirty, f)
         /\ \A p \in DOMAIN new : \E f \in dirty : p - Offset(dirty, f) \in 1 .. PayloadLen(f)
         /\ \A f \in dirty : \A i \in DOMAIN PayloadNodes(src, f) :
              Offset(dirty, f) + i \in DOMAIN new /\ new[Offset(dirty, f) + i] = NewNode(src, f, i)
<1>1. PICK l \in Nat : DOMAIN FileOrder = 1 .. l
  BY OrdersAssumption DEF Enumerates
<1>2. PICK parts : parts = NewParts(dirty) /\ parts \in Seq(Seq(NewNodesOf(dirty))) /\ Len(parts) = l
  BY <1>1, NewPartsSequence
<1>3. new = FlattenSeq(parts)
  BY <1>2 DEF NewNodes, NewParts
<1>4. PICK off : Offsets(off, parts) /\ Placed(new, off, parts, l) /\ new \in Seq(NewNodesOf(dirty))
  BY <1>2, <1>3, FlattenSeqPlaces
<1>5. /\ \A k \in 0 .. l : off[k] \in Nat
      /\ \A i \in 1 .. l : off[i] = off[i - 1] + Len(parts[i])
  BY <1>2, <1>4 DEF Offsets
<1>6. Len(new) = off[l] /\ Len(new) \in Nat /\ DOMAIN new = 1 .. Len(new)
  BY <1>4 DEF Placed
<1>7. ASSUME NEW f \in dirty
      PROVE  \E k \in 1 .. l : FileOrder[k] = f
  BY <1>1, OrdersAssumption DEF Enumerates, Present
<1>8. ASSUME NEW k \in 1 .. l, FileOrder[k] \in dirty
      PROVE  /\ Offset(dirty, FileOrder[k]) = off[k - 1]
             /\ PayloadLen(FileOrder[k]) \in Nat /\ off[k] = off[k - 1] + PayloadLen(FileOrder[k])
  <2>1. {h \in dirty : Before(FileOrder, h, FileOrder[k])} = FirstFiles(dirty, k - 1)
    <3>1. ASSUME NEW h \in dirty, Before(FileOrder, h, FileOrder[k]) PROVE h \in FirstFiles(dirty, k - 1)
      <4>1. PICK i, j \in 1 .. l : i < j /\ FileOrder[i] = h /\ FileOrder[j] = FileOrder[k]
        BY <1>1, <3>1 DEF Before
      <4>2. j = k
        BY <1>1, <4>1, OrdersAssumption DEF Enumerates
      <4>3. i \in 1 .. (k - 1)
        BY <4>1, <4>2
      <4>. QED  BY <4>1, <4>3 DEF FirstFiles
    <3>2. ASSUME NEW h \in FirstFiles(dirty, k - 1) PROVE h \in dirty /\ Before(FileOrder, h, FileOrder[k])
      <4>1. PICK i \in 1 .. (k - 1) : FileOrder[i] = h
        BY DEF FirstFiles
      <4>2. i \in 1 .. l /\ i < k
        BY <4>1
      <4>. QED  BY <1>1, <4>1, <4>2 DEF Before, FirstFiles
    <3>. QED  BY <3>1, <3>2
  <2>2. k - 1 \in 0 .. l
    OBVIOUS
  <2>3. Offset(dirty, FileOrder[k]) = off[k - 1]
    <3>1. Offsets(off, NewParts(dirty))
      BY <1>2, <1>4
    <3>2. \A i \in 0 .. l : off[i] = Cardinality(SlotsFor(FirstFiles(dirty, i)))
      BY <1>1, <3>1, OffsetsCount
    <3>3. Offset(dirty, FileOrder[k]) = Cardinality(SlotsFor(FirstFiles(dirty, k - 1)))
      BY <2>1 DEF Offset
    <3>. QED  BY <2>2, <3>2, <3>3
  <2>4. Len(parts[k]) = PayloadLen(FileOrder[k])
    BY <1>1, <1>2, <1>8, NewPartsSequence
  <2>5. PayloadLen(FileOrder[k]) \in Nat
    BY <1>8, PayloadsAssumption DEF PayloadLen
  <2>. QED  BY <1>5, <2>3, <2>4, <2>5
<1>9. ASSUME NEW i \in 0 .. l, NEW j \in 0 .. l, i <= j PROVE off[i] <= off[j]
  BY <1>1, <1>2, <1>4, <1>9, OffsetsGrow
<1>10. ASSUME NEW f \in dirty
       PROVE  /\ PayloadLen(f) \in Nat /\ Offset(dirty, f) \in Nat
              /\ Offset(dirty, f) + PayloadLen(f) <= Len(new)
  <2>1. PICK k \in 1 .. l : FileOrder[k] = f
    BY <1>7
  <2>2. off[k] <= off[l] /\ k - 1 \in 0 .. l
    BY <1>9
  <2>. QED  BY <1>5, <1>6, <1>8, <2>1, <2>2
<1>11. ASSUME NEW f \in dirty, NEW g \in dirty, f # g
       PROVE  \/ Offset(dirty, f) + PayloadLen(f) <= Offset(dirty, g)
              \/ Offset(dirty, g) + PayloadLen(g) <= Offset(dirty, f)
  <2>1. PICK i \in 1 .. l : FileOrder[i] = f
    BY <1>7
  <2>2. PICK j \in 1 .. l : FileOrder[j] = g
    BY <1>7
  <2>3. /\ Offset(dirty, f) = off[i - 1] /\ Offset(dirty, f) + PayloadLen(f) = off[i]
        /\ Offset(dirty, g) = off[j - 1] /\ Offset(dirty, g) + PayloadLen(g) = off[j]
    BY <1>8, <2>1, <2>2
  <2>4. i # j
    BY <1>11, <2>1, <2>2
  <2>5. CASE i < j
    <3>1. i <= j - 1 /\ i \in 0 .. l /\ j - 1 \in 0 .. l
      BY <2>5
    <3>2. off[i] <= off[j - 1]
      BY <1>9, <3>1
    <3>. QED  BY <2>3, <3>2
  <2>6. CASE j < i
    <3>1. j <= i - 1 /\ j \in 0 .. l /\ i - 1 \in 0 .. l
      BY <2>6
    <3>2. off[j] <= off[i - 1]
      BY <1>9, <3>1
    <3>. QED  BY <2>3, <3>2
  <2>. QED  BY <2>4, <2>5, <2>6
<1>12. ASSUME NEW p \in DOMAIN new
       PROVE  \E f \in dirty : p - Offset(dirty, f) \in 1 .. PayloadLen(f)
  <2>1. PICK k \in 1 .. l : p - off[k - 1] \in 1 .. Len(parts[k])
    BY <1>4 DEF Placed
  <2>2. Len(parts[k]) = IF FileOrder[k] \in dirty THEN PayloadLen(FileOrder[k]) ELSE 0
    BY <1>1, <1>2, NewPartsSequence
  <2>3. FileOrder[k] \in dirty
    BY <2>1, <2>2
  <2>. QED  BY <1>8, <2>1, <2>2, <2>3
<1>13. ASSUME NEW f \in dirty, NEW i \in DOMAIN PayloadNodes(src, f)
       PROVE  Offset(dirty, f) + i \in DOMAIN new /\ new[Offset(dirty, f) + i] = NewNode(src, f, i)
  <2>1. PICK k \in 1 .. l : FileOrder[k] = f
    BY <1>7
  <2>2. Offset(dirty, f) = off[k - 1]
    BY <1>8, <2>1
  <2>3. parts[k] = [h \in DOMAIN PayloadNodes(src, f) |-> NewNode(src, f, h)]
    BY <1>1, <1>2, <2>1 DEF NewParts
  <2>4. Len(parts[k]) = PayloadLen(f)
    BY <1>1, <1>2, <2>1, NewPartsSequence
  <2>5. DOMAIN PayloadNodes(src, f) = 1 .. PayloadLen(f)
    BY PayloadsAssumption DEF PayloadLen
  <2>6. i \in 1 .. Len(parts[k]) /\ parts[k][i] = NewNode(src, f, i)
    BY <2>3, <2>4, <2>5
  <2>7. off[k - 1] + i \in DOMAIN new /\ new[off[k - 1] + i] = parts[k][i]
    BY <1>4, <2>6 DEF Placed
  <2>. QED  BY <2>2, <2>6, <2>7
<1>. QED  BY <1>4, <1>10, <1>11, <1>12, <1>13

-----------------------------------------------------------------------------
(* Stage 1.                                                                *)

(* The blocks of the clean files fit the sources.                          *)
CleanFits(b, dirty) ==
  /\ src \in Sources /\ dirty \subseteq Present(src)
  /\ DOMAIN b.blocks \cup dirty = Present(src)
  /\ \A f \in Present(src) \ dirty : b.blocks[f].len = PayloadLen(f)

(* The nodes of minted: the old ones with their base flags, blank where a  *)
(* dirty file was, and the new ones.                                       *)
LEMMA MintedNodes ==
  ASSUME NEW b, SlotsOK(b), FlagsOK(b), NEW dirty, CleanFits(b, dirty), NEW m, m = Minted(b, dirty),
         NEW l \in Nat, l = Len(b.nodes), NEW new, new = NewNodes(dirty), NEW k \in Nat, k = Len(new)
  PROVE  /\ NodesOK(m) /\ DOMAIN m.nodes = 1 .. (l + k) /\ DOMAIN b.nodes = 1 .. l
         /\ \A i \in 1 .. l : m.nodes[i].ref \in {b.nodes[i].ref, Absent}
         /\ \A i \in 1 .. l : m.nodes[i] = IF i \in OldSlots(b, dirty) THEN Blank ELSE Restored(b)[i]
         /\ \A i \in 1 .. k : m.nodes[l + i] = new[i]
<1> DEFINE old  == OldSlots(b, dirty)
           kept == Flagged(b, b.baseFlags)
           first == [i \in 1 .. l |-> IF i \in old THEN Blank ELSE kept[i]]
<1>1. DOMAIN b.nodes = 1 .. l
  BY DEF SlotsOK, NodesOK, IsSequence
<1>2. /\ IsSequence(kept) /\ Len(kept) = l
      /\ \A i \in 1 .. l : kept[i] = [ref |-> b.nodes[i].ref, flags |-> kept[i].flags]
      /\ \A i \in b.tombstoned : kept[i] = Blank
  BY <1>1, FlaggedNodes DEF SlotsOK, FlagsOK
<1>3. /\ m.nodes = first \o new
      /\ m.tombstoned = b.tombstoned \cup old
  <2>1. Restored(b) = kept
    BY DEF Restored, Flagged
  <2>2. KeptNodes(b, dirty) = first
    BY <1>1, <2>1 DEF KeptNodes
  <2>3. m.nodes = KeptNodes(b, dirty) \o NewNodes(dirty) /\ m.tombstoned = b.tombstoned \cup OldSlots(b, dirty)
    BY MintedFields DEF SlotsOK
  <2>. QED  BY <2>2, <2>3
<1>4. old \subseteq 1 .. l /\ b.tombstoned \subseteq 1 .. l
  <2>1. \A f \in dirty : Block(b, f) \subseteq DOMAIN b.nodes
    BY DEF SlotsOK, BlocksOK, Block, Live
  <2>. QED  BY <1>1, <2>1 DEF SlotsOK, NodesOK, OldSlots
<1>5. new \in Seq(NewNodesOf(dirty))
  BY NewNodesPlaced DEF CleanFits
<1>6. \A x \in NewNodesOf(dirty) : x = [ref |-> x.ref, flags |-> x.flags] /\ x.ref # Absent
  <2> SUFFICES ASSUME NEW f \in dirty, NEW i \in DOMAIN PayloadNodes(src, f), NEW x, x = NewNode(src, f, i)
               PROVE  x = [ref |-> x.ref, flags |-> x.flags] /\ x.ref # Absent
    BY DEF NewNodesOf
  <2>1. PICK g : x = [ref |-> PayloadNodes(src, f)[i].ref, flags |-> g]
    BY DEF NewNode
  <2>2. PayloadNodes(src, f)[i].ref # Absent
    BY PayloadsAssumption DEF CleanFits
  <2>. QED  BY <2>1, <2>2
<1>61. \A i \in 1 .. l : first[i] = IF i \in OldSlots(b, dirty) THEN Blank ELSE Restored(b)[i]
  BY DEF Restored, Flagged
<1> HIDE DEF old, kept
<1>7. first \in Seq({first[i] : i \in 1 .. l}) /\ Len(first) = l
  <2>1. PICK s : s = first
    OBVIOUS
  <2>2. s = [i \in 1 .. l |-> s[i]]
    BY <2>1
  <2>3. \A i \in 1 .. l : s[i] \in {s[j] : j \in 1 .. l}
    OBVIOUS
  <2>4. s \in Seq({s[i] : i \in 1 .. l}) /\ Len(s) = l
    BY <2>2, <2>3
  <2>. QED  BY <2>1, <2>4
<1>8. PICK S : first \in Seq(S) /\ new \in Seq(S)
  <2>1. PICK A : first \in Seq(A)
    BY <1>7
  <2>2. first \in Seq(A \cup NewNodesOf(dirty)) /\ new \in Seq(A \cup NewNodesOf(dirty))
    BY <1>5, <2>1
  <2>. QED  BY <2>2
<1>9. /\ m.nodes \in Seq(S) /\ Len(m.nodes) = l + k /\ DOMAIN m.nodes = 1 .. (l + k)
      /\ \A i \in 1 .. l : m.nodes[i] = first[i]
      /\ \A i \in 1 .. k : m.nodes[l + i] = new[i]
  <2>1. PICK a : a = first
    OBVIOUS
  <2>2. /\ a \in Seq(S) /\ Len(a) = l /\ m.nodes = a \o new
    BY <1>3, <1>7, <1>8, <2>1
  <2> HIDE DEF first
  <2>3. /\ a \o new \in Seq(S) /\ Len(a \o new) = l + k /\ DOMAIN (a \o new) = 1 .. (l + k)
        /\ \A p \in 1 .. l : (a \o new)[p] = a[p]
        /\ \A p \in 1 .. k : (a \o new)[l + p] = new[p]
    <3>1. /\ a \o new \in Seq(S)
          /\ Len(a \o new) = Len(a) + Len(new) /\ DOMAIN (a \o new) = 1 .. (Len(a) + Len(new))
          /\ \A p \in 1 .. Len(a) : (a \o new)[p] = a[p]
          /\ \A p \in 1 .. Len(new) : (a \o new)[Len(a) + p] = new[p]
      <4>1. a \in Seq(S) /\ new \in Seq(S)
        BY <1>8, <2>2
      <4>. QED  BY ONLY <4>1
    <3>. QED  BY <2>2, <3>1
  <2>. QED  BY <2>1, <2>2, <2>3
<1>10. ASSUME NEW i \in 1 .. l
       PROVE  /\ m.nodes[i].ref \in {b.nodes[i].ref, Absent}
              /\ m.nodes[i] = [ref |-> m.nodes[i].ref, flags |-> m.nodes[i].flags]
              /\ i \in m.tombstoned => m.nodes[i] = Blank
              /\ i \notin m.tombstoned => m.nodes[i].ref # Absent
  <2>1. PICK n, r, f : n = m.nodes[i] /\ r = b.nodes[i].ref /\ f = kept[i].flags
    OBVIOUS
  <2>2. n = IF i \in old THEN Blank ELSE kept[i]
    BY <1>9, <2>1
  <2>3. CASE i \in old
    <3>1. n = Blank /\ i \in m.tombstoned
      BY <1>3, <2>2, <2>3
    <3>2. n = [ref |-> n.ref, flags |-> n.flags] /\ n.ref = Absent
      BY <3>1 DEF Blank
    <3>. QED  BY <2>1, <3>1, <3>2
  <2>4. CASE i \notin old
    <3>1. n = [ref |-> r, flags |-> f]
      BY <1>2, <2>1, <2>2, <2>4
    <3>2. n.ref = r /\ n.flags = f
      BY <3>1
    <3>3. i \in b.tombstoned => n = Blank
      BY <1>2, <2>2, <2>4
    <3>4. i \notin b.tombstoned => r # Absent
      BY <1>1, <2>1 DEF SlotsOK, NodesOK
    <3>5. i \in m.tombstoned <=> i \in b.tombstoned
      BY <1>3, <2>4
    <3>. QED  BY <2>1, <3>1, <3>2, <3>3, <3>4, <3>5
  <2>. QED  BY <2>3, <2>4
<1>11. ASSUME NEW i \in (l + 1) .. (l + k)
       PROVE  /\ m.nodes[i] = [ref |-> m.nodes[i].ref, flags |-> m.nodes[i].flags]
              /\ i \notin m.tombstoned /\ m.nodes[i].ref # Absent
  <2>1. i - l \in 1 .. k /\ l + (i - l) = i /\ i \notin 1 .. l
    OBVIOUS
  <2>2. m.nodes[i] = new[i - l] /\ new[i - l] \in NewNodesOf(dirty)
    BY <1>5, <1>9, <2>1
  <2>. QED  BY <1>3, <1>4, <1>6, <2>1, <2>2
<1>12. \A i \in 1 .. (l + k) : i \in 1 .. l \/ i \in (l + 1) .. (l + k)
  OBVIOUS
<1>13. IsSequence(m.nodes) /\ m.tombstoned \subseteq DOMAIN m.nodes
  <2>1. IsSequence(m.nodes)
    BY <1>9 DEF IsSequence
  <2>2. \A i \in 1 .. l : i \in 1 .. (l + k)
    OBVIOUS
  <2>. QED  BY <1>3, <1>4, <1>9, <2>1, <2>2
<1>14. NodesOK(m)
  BY <1>9, <1>10, <1>11, <1>12, <1>13 DEF NodesOK
<1>15. \A i \in 1 .. l : m.nodes[i] = IF i \in OldSlots(b, dirty) THEN Blank ELSE Restored(b)[i]
  <2> HIDE DEF first
  <2>. QED  BY <1>61, <1>9
<1>. QED  BY <1>1, <1>9, <1>10, <1>14, <1>15

(* The blocks of minted: those of the clean files stay, and the new ones   *)
(* are behind the old slots.                                               *)
LEMMA MintedBlocks ==
  ASSUME NEW b, SlotsOK(b), NEW dirty, CleanFits(b, dirty), NEW m, m = Minted(b, dirty),
         NEW l \in Nat, l = Len(b.nodes)
  PROVE  /\ DOMAIN m.blocks = Present(src)
         /\ \A f \in Present(src) \ dirty :
              m.blocks[f] = b.blocks[f] /\ Block(m, f) = Block(b, f) /\ Block(b, f) \subseteq Live(b)
         /\ \A f \in dirty : /\ m.blocks[f].base = l + Offset(dirty, f) /\ m.blocks[f].len = PayloadLen(f)
                             /\ Block(m, f) = (l + Offset(dirty, f) + 1) .. (l + Offset(dirty, f) + PayloadLen(f))
<1>1. m.blocks = NewBlocks(b, dirty)
  BY MintedFields DEF SlotsOK
<1>2. DOMAIN m.blocks = Present(src)
  BY <1>1 DEF NewBlocks, CleanFits
<1>3. ASSUME NEW f \in Present(src) \ dirty
      PROVE  m.blocks[f] = b.blocks[f] /\ Block(m, f) = Block(b, f) /\ Block(b, f) \subseteq Live(b)
  <2>1. f \in DOMAIN b.blocks /\ m.blocks[f] = b.blocks[f]
    BY <1>1 DEF NewBlocks, CleanFits
  <2>. QED  BY <1>2, <2>1 DEF Block, SlotsOK, BlocksOK
<1>4. ASSUME NEW f \in dirty
      PROVE  /\ m.blocks[f].base = l + Offset(dirty, f) /\ m.blocks[f].len = PayloadLen(f)
             /\ Block(m, f) = (l + Offset(dirty, f) + 1) .. (l + Offset(dirty, f) + PayloadLen(f))
  <2>1. f \in Present(src)
    BY DEF CleanFits
  <2>2. NewBase(b, dirty, f) = l + Offset(dirty, f)
    BY DEF NewBase, Offset, SlotsFor
  <2>3. m.blocks[f] = [base |-> l + Offset(dirty, f), len |-> PayloadLen(f)]
    BY <1>1, <2>2 DEF NewBlocks, PayloadLen
  <2>4. m.blocks[f].base = l + Offset(dirty, f) /\ m.blocks[f].len = PayloadLen(f)
    BY <2>3
  <2>. QED  BY <1>2, <2>1, <2>4 DEF Block
<1>. QED  BY <1>2, <1>3, <1>4

(* Every slot of minted is in a block, an anchor's or a tombstone, and no  *)
(* two blocks meet.                                                        *)
LEMMA MintedCarries ==
  ASSUME NEW b, SlotsOK(b), FlagsOK(b), NEW dirty, CleanFits(b, dirty), NEW m, m = Minted(b, dirty)
  PROVE  /\ Carries(m)
         /\ m.parts = b.parts /\ m.externals = b.externals
         /\ m.tombstoned = b.tombstoned \cup OldSlots(b, dirty) /\ m.tombstoned \subseteq DOMAIN b.nodes
         /\ \A f \in Present(src) \ dirty : Block(m, f) = Block(b, f)
         /\ Live(b) \ OldSlots(b, dirty) \subseteq Live(m)
         /\ \A i \in DOMAIN b.nodes : i \in DOMAIN m.nodes /\ m.nodes[i].ref \in {b.nodes[i].ref, Absent}
<1>1. PICK l \in Nat : l = Len(b.nodes) /\ DOMAIN b.nodes = 1 .. l
  BY DEF SlotsOK, NodesOK, IsSequence
<1>2. PICK new : new = NewNodes(dirty) /\ new \in Seq(NewNodesOf(dirty))
  BY NewNodesPlaced DEF CleanFits
<1>3. PICK k \in Nat : k = Len(new) /\ DOMAIN new = 1 .. k
  BY <1>2
<1>4. /\ NodesOK(m) /\ DOMAIN m.nodes = 1 .. (l + k)
      /\ \A i \in 1 .. l : m.nodes[i].ref \in {b.nodes[i].ref, Absent}
  BY <1>1, <1>2, <1>3, MintedNodes
<1>5. /\ IsBuilder(m) /\ m.tombstoned = b.tombstoned \cup OldSlots(b, dirty)
      /\ m.parts = b.parts /\ m.externals = b.externals
  BY MintedFields DEF SlotsOK
<1>6. m.tombstoned \subseteq 1 .. l /\ Live(b) \subseteq 1 .. l
  <2>1. \A f \in dirty : Block(b, f) \subseteq DOMAIN b.nodes
    BY DEF SlotsOK, BlocksOK, Block, Live
  <2>. QED  BY <1>1, <1>5, <2>1 DEF SlotsOK, NodesOK, OldSlots, Live
<1>7. 1 .. l \subseteq 1 .. (l + k)
  OBVIOUS
<1>8. /\ DOMAIN m.blocks = Present(src)
      /\ \A f \in Present(src) \ dirty :
           m.blocks[f] = b.blocks[f] /\ Block(m, f) = Block(b, f) /\ Block(b, f) \subseteq Live(b)
      /\ \A f \in dirty : /\ m.blocks[f].base = l + Offset(dirty, f) /\ m.blocks[f].len = PayloadLen(f)
                          /\ Block(m, f) = (l + Offset(dirty, f) + 1) .. (l + Offset(dirty, f) + PayloadLen(f))
  BY <1>1, MintedBlocks
<1>9. /\ \A f \in dirty : /\ PayloadLen(f) \in Nat /\ Offset(dirty, f) \in Nat
                          /\ Offset(dirty, f) + PayloadLen(f) <= k
      /\ \A f, g \in dirty : f # g => \/ Offset(dirty, f) + PayloadLen(f) <= Offset(dirty, g)
                                      \/ Offset(dirty, g) + PayloadLen(g) <= Offset(dirty, f)
      /\ \A p \in 1 .. k : \E f \in dirty : p - Offset(dirty, f) \in 1 .. PayloadLen(f)
  BY <1>2, <1>3, NewNodesPlaced DEF CleanFits
<1>10. Live(b) \ OldSlots(b, dirty) \subseteq Live(m)
  BY <1>1, <1>4, <1>5, <1>7 DEF Live
<1>11. \A f \in Present(src) : f \in dirty \/ f \in DOMAIN b.blocks
  BY DEF CleanFits
<1>12. ASSUME NEW f \in dirty
       PROVE  Block(m, f) \subseteq (l + 1) .. (l + k) /\ Block(m, f) \subseteq Live(m)
  <2>1. PICK o \in Nat, n \in Nat : o = Offset(dirty, f) /\ n = PayloadLen(f) /\ o + n <= k
    BY <1>9
  <2>2. Block(m, f) = (l + o + 1) .. (l + o + n)
    BY <1>8, <2>1
  <2>3. (l + o + 1) .. (l + o + n) \subseteq (l + 1) .. (l + k)
    BY <2>1
  <2>4. \A i \in (l + 1) .. (l + k) : i \in 1 .. (l + k) /\ i \notin 1 .. l
    OBVIOUS
  <2>. QED  BY <1>4, <1>6, <2>2, <2>3, <2>4 DEF Live
<1>13. ASSUME NEW f \in Present(src) \ dirty
       PROVE  Block(m, f) \subseteq 1 .. l /\ Block(m, f) \subseteq Live(m)
  <2>1. Block(b, f) \cap OldSlots(b, dirty) = {}
    <3> SUFFICES ASSUME NEW g \in dirty PROVE Block(b, f) \cap Block(b, g) = {}
      BY DEF OldSlots
    <3>1. f \in DOMAIN b.blocks /\ f # g
      BY <1>11
    <3>. QED  BY <3>1 DEF SlotsOK, BlocksOK, Block
  <2>. QED  BY <1>6, <1>8, <1>10, <2>1
<1>14. \A f \in Present(src) : m.blocks[f].base \in Nat /\ m.blocks[f].len \in Nat
  BY <1>8, <1>9, <1>11 DEF SlotsOK, BlocksOK
<1>15. ASSUME NEW f \in Present(src), NEW g \in Present(src), f # g
       PROVE  Block(m, f) \cap Block(m, g) = {}
  <2>0. 1 .. l \cap (l + 1) .. (l + k) = {}
    OBVIOUS
  <2>1. CASE f \notin dirty /\ g \notin dirty
    BY <1>8, <1>11, <1>15, <2>1 DEF SlotsOK, BlocksOK
  <2>2. CASE f \in dirty /\ g \notin dirty
    BY <1>12, <1>13, <2>0, <2>2
  <2>3. CASE f \notin dirty /\ g \in dirty
    BY <1>12, <1>13, <2>0, <2>3
  <2>4. CASE f \in dirty /\ g \in dirty
    <3>1. PICK o \in Nat, n \in Nat : o = Offset(dirty, f) /\ n = PayloadLen(f)
      BY <1>9, <2>4
    <3>2. PICK p \in Nat, q \in Nat : p = Offset(dirty, g) /\ q = PayloadLen(g)
      BY <1>9, <2>4
    <3>3. o + n <= p \/ p + q <= o
      BY <1>9, <1>15, <2>4, <3>1, <3>2
    <3>4. Block(m, f) = (l + o + 1) .. (l + o + n) /\ Block(m, g) = (l + p + 1) .. (l + p + q)
      BY <1>8, <2>4, <3>1, <3>2
    <3>. QED  BY <3>3, <3>4
  <2>. QED  BY <2>1, <2>2, <2>3, <2>4
<1>16. BlocksOK(m)
  BY <1>8, <1>12, <1>13, <1>14, <1>15 DEF BlocksOK
<1>17. AnchorsOK(m)
  <2> SUFFICES ASSUME NEW r \in DOMAIN b.externals
               PROVE  /\ r.node = "external" /\ b.externals[r] \in DOMAIN m.nodes
                      /\ \A f \in Present(src) : b.externals[r] \notin Block(m, f)
                      /\ \A q \in DOMAIN b.externals : b.externals[q] = b.externals[r] => q = r
    BY <1>5, <1>8 DEF AnchorsOK
  <2>1. /\ r.node = "external" /\ b.externals[r] \in 1 .. l
        /\ \A f \in DOMAIN b.blocks : b.externals[r] \notin Block(b, f)
        /\ \A q \in DOMAIN b.externals : b.externals[q] = b.externals[r] => q = r
    BY <1>1 DEF SlotsOK, AnchorsOK
  <2>2. b.externals[r] \notin (l + 1) .. (l + k)
    BY <2>1
  <2>3. \A f \in Present(src) : b.externals[r] \notin Block(m, f)
    BY <1>8, <1>11, <1>12, <2>1, <2>2
  <2>. QED  BY <1>4, <1>7, <2>1, <2>3
<1>18. ASSUME NEW i \in Live(m)
       PROVE  i \in BlockSlots(m) \cup AnchorSlots(m)
  <2>1. i \in 1 .. l \/ (i \in (l + 1) .. (l + k) /\ i - l \in 1 .. k)
    BY <1>4 DEF Live
  <2>2. CASE i \in 1 .. l
    <3>1. i \in Live(b) /\ i \notin OldSlots(b, dirty)
      BY <1>1, <1>5, <2>2 DEF Live
    <3>2. CASE i \in AnchorSlots(b)
      BY <1>5, <3>2 DEF AnchorSlots
    <3>3. CASE i \in BlockSlots(b)
      <4>1. PICK f \in DOMAIN b.blocks : i \in Block(b, f)
        BY <3>3 DEF BlockSlots
      <4>2. f \in Present(src) \ dirty
        BY <3>1, <4>1 DEF OldSlots, CleanFits
      <4>. QED  BY <1>8, <4>1, <4>2 DEF BlockSlots
    <3>. QED  BY <3>1, <3>2, <3>3 DEF SlotsOK
  <2>3. CASE i \in (l + 1) .. (l + k) /\ i - l \in 1 .. k
    <3>1. PICK f \in dirty : (i - l) - Offset(dirty, f) \in 1 .. PayloadLen(f)
      BY <1>9, <2>3
    <3>2. PICK o \in Nat, n \in Nat : o = Offset(dirty, f) /\ n = PayloadLen(f)
      BY <1>9
    <3>3. i \in (l + o + 1) .. (l + o + n)
      BY <2>3, <3>1, <3>2
    <3>4. i \in Block(m, f) /\ f \in Present(src)
      BY <1>8, <3>2, <3>3 DEF CleanFits
    <3>. QED  BY <1>8, <3>4 DEF BlockSlots
  <2>. QED  BY <2>1, <2>2, <2>3
<1>19. SlotsOK(m)
  BY <1>4, <1>5, <1>16, <1>17, <1>18 DEF SlotsOK
<1>20. Carries(m)
  <2>1. Sized(m, src)
    BY <1>8 DEF Sized, PayloadLen, CleanFits
  <2>. QED  BY <1>8, <1>19, <2>1 DEF Carries, CleanFits
<1>. QED  BY <1>1, <1>4, <1>5, <1>6, <1>7, <1>8, <1>10, <1>20

-----------------------------------------------------------------------------
(* Stage 2.                                                                *)

(* The anchors that live answers target.                                   *)
AnchorsWanted(wanted) == Named(wanted) /\ \A r \in wanted : r # Absent /\ r.node = "external"

(* The new anchors, in the order of their names.                           *)
LEMMA NewAnchorsListed ==
  ASSUME NEW b, NEW wanted, AnchorsWanted(wanted), NEW new, new = NewAnchors(b, wanted)
  PROVE  /\ \E k \in Nat : k = Len(new) /\ DOMAIN new = 1 .. k
         /\ new \in Seq(wanted \ DOMAIN b.externals)
         /\ \A r \in wanted \ DOMAIN b.externals : \E j \in DOMAIN new : new[j] = r
         /\ \A i, j \in DOMAIN new : new[i] = new[j] => i = j
<1>1. PICK S : S = wanted \ DOMAIN b.externals
  OBVIOUS
<1>2. Named(S)
  BY <1>1 DEF AnchorsWanted, Named
<1>3. new = [j \in 1 .. Cardinality(S) |-> CHOOSE r \in S : Cardinality(Lower(S, r)) = j - 1]
  BY <1>1 DEF NewAnchors, Lower
<1>4. Enumerates(new, S)
  BY <1>2, <1>3, AnchorsInOrder
<1>5. new \in Seq(S)
  BY <1>4 DEF Enumerates
<1>. QED  BY <1>1, <1>4, <1>5 DEF Enumerates

AnchorNode(r) == [ref |-> r, flags |-> {}]

(* The nodes of sized: the old ones, blank where an anchor went stale and  *)
(* filled where one was revived, and the new anchors.                      *)
LEMMA InternedNodes ==
  ASSUME NEW b, SlotsOK(b), NEW wanted, AnchorsWanted(wanted), NEW new, new = NewAnchors(b, wanted),
         NEW z, z = Interned(b, wanted, new),
         NEW l \in Nat, l = Len(b.nodes), NEW k \in Nat, k = Len(new)
  PROVE  /\ NodesOK(z) /\ DOMAIN z.nodes = 1 .. (l + k) /\ DOMAIN b.nodes = 1 .. l
         /\ \A i \in 1 .. l : i \in Live(b) \/ i \notin AnchorSlots(b)
                                => z.nodes[i].ref \in {b.nodes[i].ref, Absent}
         /\ \A i \in 1 .. l : z.nodes[i] = InternedSlot(b, wanted, i)
         /\ \A j \in 1 .. k : z.nodes[l + j] = AnchorNode(new[j])
<1> DEFINE first == InternedSlots(b, wanted)
           second == NewSlots(new)
<1>1. DOMAIN b.nodes = 1 .. l
  BY DEF SlotsOK, NodesOK, IsSequence
<1>2. new \in Seq(wanted \ DOMAIN b.externals) /\ DOMAIN new = 1 .. k
  BY NewAnchorsListed
<1>3. /\ z.nodes = first \o second
      /\ z.tombstoned = (b.tombstoned \ RevivedSlots(b, wanted)) \cup Stale(b, wanted)
  BY InternedFields DEF SlotsOK
<1>4. RevivedSlots(b, wanted) \subseteq b.tombstoned /\ b.tombstoned \subseteq 1 .. l /\ Stale(b, wanted) \subseteq 1 .. l
  BY <1>1 DEF RevivedSlots, Revived, Stale, SlotsOK, NodesOK, AnchorsOK
<1>5. RevivedSlots(b, wanted) \cap Stale(b, wanted) = {}
  BY DEF RevivedSlots, Revived, Stale
<1>6. ASSUME NEW i \in 1 .. l
      PROVE  \/ /\ i \in RevivedSlots(b, wanted)
                /\ \E r \in wanted : first[i] = [ref |-> r, flags |-> {}]
             \/ /\ i \notin RevivedSlots(b, wanted) /\ i \in Stale(b, wanted) /\ first[i] = Blank
             \/ /\ i \notin RevivedSlots(b, wanted) /\ i \notin Stale(b, wanted) /\ first[i] = b.nodes[i]
  <2>1. first[i] = InternedSlot(b, wanted, i)
    BY <1>1 DEF InternedSlots
  <2>2. CASE i \in RevivedSlots(b, wanted)
    <3>1. \E r \in Revived(b, wanted) : b.externals[r] = i
      BY <2>2 DEF RevivedSlots
    <3>2. PICK r : r = CHOOSE q \in Revived(b, wanted) : b.externals[q] = i
      OBVIOUS
    <3>3. r \in wanted
      BY <3>1, <3>2 DEF Revived
    <3>4. first[i] = [ref |-> r, flags |-> {}]
      BY <2>1, <3>1, <3>2 DEF InternedSlot
    <3>. QED  BY <2>2, <3>3, <3>4
  <2>3. CASE i \notin RevivedSlots(b, wanted)
    <3>1. ~ \E r \in Revived(b, wanted) : b.externals[r] = i
      BY <2>3 DEF RevivedSlots
    <3>2. first[i] = IF i \in Stale(b, wanted) THEN Blank ELSE b.nodes[i]
      BY <2>1, <3>1 DEF InternedSlot
    <3>. QED  BY <2>3, <3>2
  <2>. QED  BY <2>2, <2>3
<1>7. \A j \in 1 .. k : new[j] \in wanted /\ second[j] = [ref |-> new[j], flags |-> {}]
  BY <1>2 DEF NewSlots
<1>8. first = [i \in 1 .. l |-> first[i]] /\ second = [j \in 1 .. k |-> second[j]]
  <2>1. DOMAIN second = 1 .. k /\ second = [j \in DOMAIN second |-> second[j]]
    BY <1>2 DEF NewSlots
  <2>2. DOMAIN first = 1 .. l /\ first = [i \in DOMAIN first |-> first[i]]
    BY <1>1 DEF InternedSlots
  <2>. QED  BY <2>1, <2>2
<1>81. \A i \in 1 .. l : first[i] = InternedSlot(b, wanted, i)
  BY <1>1 DEF InternedSlots
<1>9. PICK p, q : p = first /\ q = second
  OBVIOUS
<1> HIDE DEF first, second
<1>10. PICK S : p \in Seq(S) /\ q \in Seq(S) /\ Len(p) = l /\ Len(q) = k
  <2>1. p = [i \in 1 .. l |-> p[i]] /\ q = [j \in 1 .. k |-> q[j]]
    BY <1>8, <1>9
  <2>2. PICK T : T = {p[i] : i \in 1 .. l} \cup {q[i] : i \in 1 .. k}
    OBVIOUS
  <2>3. (\A i \in 1 .. l : p[i] \in T) /\ \A i \in 1 .. k : q[i] \in T
    BY <2>2
  <2>4. p \in Seq(T) /\ q \in Seq(T) /\ Len(p) = l /\ Len(q) = k
    BY <2>1, <2>3
  <2>. QED  BY <2>4
<1>11. /\ z.nodes \in Seq(S) /\ Len(z.nodes) = l + k /\ DOMAIN z.nodes = 1 .. (l + k)
       /\ \A i \in 1 .. l : z.nodes[i] = first[i]
       /\ \A i \in 1 .. k : z.nodes[l + i] = second[i]
  <2>1. /\ p \o q \in Seq(S)
        /\ Len(p \o q) = Len(p) + Len(q) /\ DOMAIN (p \o q) = 1 .. (Len(p) + Len(q))
        /\ \A i \in 1 .. Len(p) : (p \o q)[i] = p[i]
        /\ \A i \in 1 .. Len(q) : (p \o q)[Len(p) + i] = q[i]
    <3>1. p \in Seq(S) /\ q \in Seq(S)
      BY <1>10
    <3>. QED  BY ONLY <3>1
  <2>. QED  BY <1>3, <1>9, <1>10, <2>1
<1>12. ASSUME NEW i \in 1 .. l
       PROVE  /\ i \in Live(b) \/ i \notin AnchorSlots(b) => z.nodes[i].ref \in {b.nodes[i].ref, Absent}
              /\ z.nodes[i] = [ref |-> z.nodes[i].ref, flags |-> z.nodes[i].flags]
              /\ i \in z.tombstoned => z.nodes[i] = Blank
              /\ i \notin z.tombstoned => z.nodes[i].ref # Absent
  <2>1. PICK n : n = z.nodes[i] /\ n = first[i]
    BY <1>11
  <2>2. ASSUME i \in RevivedSlots(b, wanted), NEW r \in wanted, first[i] = [ref |-> r, flags |-> {}]
        PROVE  /\ ~ (i \in Live(b) \/ i \notin AnchorSlots(b))
               /\ n = [ref |-> n.ref, flags |-> n.flags] /\ i \notin z.tombstoned /\ n.ref # Absent
    <3>1. n.ref = r /\ n.flags = {} /\ r # Absent
      BY <2>1, <2>2 DEF AnchorsWanted
    <3>2. i \notin Live(b) /\ i \in AnchorSlots(b)
      BY <1>4, <2>2 DEF Live, RevivedSlots, Revived, AnchorSlots
    <3>3. i \notin z.tombstoned
      BY <1>3, <1>5, <2>2
    <3>. QED  BY <2>1, <2>2, <3>1, <3>2, <3>3
  <2>3. ASSUME i \notin RevivedSlots(b, wanted), i \in Stale(b, wanted), first[i] = Blank
        PROVE  n = Blank /\ n = [ref |-> n.ref, flags |-> n.flags] /\ i \in z.tombstoned /\ n.ref = Absent
    BY <1>3, <2>1, <2>3 DEF Blank
  <2>4. ASSUME i \notin RevivedSlots(b, wanted), i \notin Stale(b, wanted), first[i] = b.nodes[i]
        PROVE  /\ n = b.nodes[i] /\ n = [ref |-> n.ref, flags |-> n.flags]
               /\ i \in z.tombstoned => n = Blank
               /\ i \notin z.tombstoned => n.ref # Absent
    BY <1>1, <1>3, <2>1, <2>4 DEF SlotsOK, NodesOK
  <2>. QED  BY <1>6, <2>1, <2>2, <2>3, <2>4
<1>13. ASSUME NEW i \in (l + 1) .. (l + k)
       PROVE  /\ z.nodes[i] = [ref |-> z.nodes[i].ref, flags |-> z.nodes[i].flags]
              /\ i \notin z.tombstoned /\ z.nodes[i].ref # Absent
  <2>1. i - l \in 1 .. k /\ l + (i - l) = i /\ i \notin 1 .. l
    OBVIOUS
  <2>2. PICK r, n : r = new[i - l] /\ n = z.nodes[i] /\ n = [ref |-> r, flags |-> {}] /\ r \in wanted
    BY <1>7, <1>11, <2>1
  <2>3. n.ref = r /\ n.flags = {} /\ r # Absent
    BY <2>2 DEF AnchorsWanted
  <2>. QED  BY <1>3, <1>4, <2>1, <2>2, <2>3
<1>14. \A i \in 1 .. (l + k) : i \in 1 .. l \/ i \in (l + 1) .. (l + k)
  OBVIOUS
<1>15. IsSequence(z.nodes) /\ z.tombstoned \subseteq DOMAIN z.nodes
  <2>1. IsSequence(z.nodes)
    BY <1>11 DEF IsSequence
  <2>2. \A i \in 1 .. l : i \in 1 .. (l + k)
    OBVIOUS
  <2>. QED  BY <1>3, <1>4, <1>11, <2>1, <2>2
<1>16. NodesOK(z)
  BY <1>11, <1>12, <1>13, <1>14, <1>15 DEF NodesOK
<1>17. /\ \A i \in 1 .. l : z.nodes[i] = InternedSlot(b, wanted, i)
       /\ \A j \in 1 .. k : z.nodes[l + j] = AnchorNode(new[j])
  BY <1>7, <1>81, <1>11 DEF AnchorNode
<1>. QED  BY <1>1, <1>11, <1>12, <1>16, <1>17

AnchorsAt(b, wanted, new, x, l, k) ==
  /\ DOMAIN x = DOMAIN b.externals \cup wanted
  /\ \A r \in DOMAIN b.externals : x[r] = b.externals[r] /\ x[r] \in 1 .. l
  /\ \A r \in wanted \ DOMAIN b.externals : x[r] - l \in 1 .. k /\ x[r] \in (l + 1) .. (l + k) /\ new[x[r] - l] = r
  /\ \A j \in 1 .. k : new[j] \in wanted \ DOMAIN b.externals /\ x[new[j]] = l + j

(* The id of every anchor in the map.                                      *)
LEMMA AnchorsPlaced ==
  ASSUME NEW b, SlotsOK(b), NEW wanted, AnchorsWanted(wanted), NEW new, new = NewAnchors(b, wanted),
         NEW x, x = AnchorIds(b, wanted, new),
         NEW l \in Nat, l = Len(b.nodes), NEW k \in Nat, k = Len(new)
  PROVE  AnchorsAt(b, wanted, new, x, l, k)
<1>0. DOMAIN new = 1 .. k
  BY NewAnchorsListed
<1>1. /\ new \in Seq(wanted \ DOMAIN b.externals) /\ DOMAIN new = 1 .. k
      /\ \A r \in wanted \ DOMAIN b.externals : \E j \in 1 .. k : new[j] = r
      /\ \A i, j \in 1 .. k : new[i] = new[j] => i = j
  BY <1>0, NewAnchorsListed
<1>2. DOMAIN x = DOMAIN b.externals \cup wanted
  BY DEF AnchorIds
<1>3. ASSUME NEW r \in DOMAIN b.externals
      PROVE  x[r] = b.externals[r] /\ x[r] \in 1 .. l
  BY DEF AnchorIds, SlotsOK, AnchorsOK, NodesOK, IsSequence
<1>4. ASSUME NEW r \in wanted \ DOMAIN b.externals
      PROVE  x[r] - l \in 1 .. k /\ x[r] \in (l + 1) .. (l + k) /\ new[x[r] - l] = r
  <2>1. PICK j : j = CHOOSE i \in 1 .. k : new[i] = r
    OBVIOUS
  <2>2. j \in 1 .. k /\ new[j] = r
    BY <1>1, <2>1
  <2>3. x[r] = l + j
    BY <1>1, <2>1 DEF AnchorIds
  <2>4. (l + j) - l = j /\ l + j \in (l + 1) .. (l + k)
    BY <2>2
  <2>. QED  BY <2>2, <2>3, <2>4
<1>5. ASSUME NEW j \in 1 .. k
      PROVE  new[j] \in wanted \ DOMAIN b.externals /\ x[new[j]] = l + j
  <2>1. PICK r \in wanted \ DOMAIN b.externals : r = new[j]
    BY <1>1
  <2>2. PICK i \in 1 .. k : i = x[r] - l /\ new[i] = r
    BY <1>4
  <2>3. i = j
    BY <1>1, <2>1, <2>2
  <2>4. PICK y \in Int : y = x[r]
    BY <1>4
  <2>5. y = l + j
    BY <2>2, <2>3, <2>4
  <2>. QED  BY <2>1, <2>4, <2>5
<1>. QED  BY <1>2, <1>3, <1>4, <1>5 DEF AnchorsAt

(* Interning moves no block and no anchor, and what it leaves dead is an   *)
(* anchor that nothing targets.                                            *)
LEMMA InternedCarries ==
  ASSUME NEW b, Carries(b), NEW wanted, AnchorsWanted(wanted), NEW new, new = NewAnchors(b, wanted),
         NEW z, z = Interned(b, wanted, new)
  PROVE  /\ Carries(z)
         /\ z.parts = b.parts /\ z.blocks = b.blocks
         /\ \A r \in DOMAIN b.externals : r \in DOMAIN z.externals /\ z.externals[r] = b.externals[r]
         /\ \A r \in wanted : r \in DOMAIN z.externals /\ z.externals[r] \in Live(z)
         /\ Live(b) \cap BlockSlots(b) \subseteq Live(z)
         /\ z.tombstoned \subseteq b.tombstoned \cup AnchorSlots(b)
         /\ \A i \in DOMAIN b.nodes :
              /\ i \in DOMAIN z.nodes
              /\ i \in Live(b) \/ i \notin AnchorSlots(b) => z.nodes[i].ref \in {b.nodes[i].ref, Absent}
<1>0. SlotsOK(b)
  BY DEF Carries
<1>1. PICK l \in Nat : l = Len(b.nodes) /\ DOMAIN b.nodes = 1 .. l
  BY <1>0 DEF SlotsOK, NodesOK, IsSequence
<1>2. PICK k \in Nat : k = Len(new)
  BY NewAnchorsListed
<1>3. /\ IsBuilder(z) /\ z.externals = AnchorIds(b, wanted, new) /\ z.blocks = b.blocks /\ z.parts = b.parts
      /\ z.tombstoned = (b.tombstoned \ RevivedSlots(b, wanted)) \cup Stale(b, wanted)
  BY <1>0, InternedFields DEF SlotsOK
<1>4. /\ NodesOK(z) /\ DOMAIN z.nodes = 1 .. (l + k)
      /\ \A i \in 1 .. l : i \in Live(b) \/ i \notin AnchorSlots(b)
                             => z.nodes[i].ref \in {b.nodes[i].ref, Absent}
  BY <1>0, <1>1, <1>2, InternedNodes
<1>5. PICK x : x = z.externals
  OBVIOUS
<1>6. AnchorsAt(b, wanted, new, x, l, k)
  <2>1. x = AnchorIds(b, wanted, new)
    BY <1>3, <1>5
  <2>. QED  BY <1>0, <1>1, <1>2, <2>1, AnchorsPlaced
<1>7. /\ \A i \in 1 .. l : i \in 1 .. (l + k) /\ i \notin (l + 1) .. (l + k)
      /\ \A i \in (l + 1) .. (l + k) : i \in 1 .. (l + k) /\ i - l \in 1 .. k /\ l + (i - l) = i
      /\ \A i \in 1 .. (l + k) : i \in 1 .. l \/ i \in (l + 1) .. (l + k)
  OBVIOUS
<1>8. \A f : Block(z, f) = Block(b, f)
  BY <1>3 DEF Block
<1>9. /\ \A r \in DOMAIN b.externals : \A f \in DOMAIN b.blocks : b.externals[r] \notin Block(b, f)
      /\ \A r \in DOMAIN b.externals : \A q \in DOMAIN b.externals : b.externals[q] = b.externals[r] => q = r
      /\ \A r \in DOMAIN b.externals : r.node = "external"
  BY <1>0 DEF SlotsOK, AnchorsOK
<1>10. \A i \in BlockSlots(b) : i \in Live(b) /\ i \notin AnchorSlots(b)
  BY <1>0, <1>9 DEF SlotsOK, BlocksOK, BlockSlots, AnchorSlots
<1>11. Stale(b, wanted) \subseteq AnchorSlots(b) /\ Stale(b, wanted) \cap b.tombstoned = {}
       /\ RevivedSlots(b, wanted) \subseteq b.tombstoned /\ RevivedSlots(b, wanted) \subseteq AnchorSlots(b)
       /\ Live(b) \cap b.tombstoned = {} /\ b.tombstoned \subseteq 1 .. l /\ Live(b) \subseteq 1 .. l
  BY <1>0, <1>1 DEF Stale, AnchorSlots, Revived, RevivedSlots, Live, SlotsOK, NodesOK
<1>12. BlockSlots(b) \subseteq Live(z)
  BY <1>3, <1>4, <1>7, <1>10, <1>11 DEF Live
<1>13. AnchorSlots(b) \subseteq AnchorSlots(z) /\ BlockSlots(b) = BlockSlots(z)
  BY <1>3, <1>5, <1>6, <1>8 DEF AnchorSlots, BlockSlots, AnchorsAt
<1>14. ASSUME NEW r \in wanted
       PROVE  r \in DOMAIN x /\ x[r] \in Live(z)
  <2>1. CASE r \in DOMAIN b.externals
    <3>1. x[r] = b.externals[r] /\ x[r] \in 1 .. (l + k)
      BY <1>6, <1>7, <2>1 DEF AnchorsAt
    <3>2. x[r] \notin Stale(b, wanted)
      BY <1>9, <2>1, <3>1 DEF Stale
    <3>3. x[r] \in b.tombstoned => x[r] \in RevivedSlots(b, wanted)
      BY <2>1, <3>1 DEF RevivedSlots, Revived
    <3>. QED  BY <1>3, <1>4, <1>6, <3>1, <3>2, <3>3 DEF Live, AnchorsAt
  <2>2. CASE r \notin DOMAIN b.externals
    <3>1. x[r] \in (l + 1) .. (l + k) /\ x[r] \in 1 .. (l + k) /\ x[r] \notin 1 .. l
      BY <1>6, <1>7, <2>2 DEF AnchorsAt
    <3>2. Stale(b, wanted) \subseteq 1 .. l
      BY <1>0, <1>1 DEF Stale, SlotsOK, AnchorsOK
    <3>. QED  BY <1>3, <1>4, <1>6, <1>11, <3>1, <3>2 DEF Live, AnchorsAt
  <2>. QED  BY <2>1, <2>2
<1>15. BlocksOK(z)
  <2> SUFFICES ASSUME NEW f \in DOMAIN b.blocks
               PROVE  /\ b.blocks[f].base \in Nat /\ b.blocks[f].len \in Nat
                      /\ Block(b, f) \subseteq Live(z)
                      /\ \A g \in DOMAIN b.blocks : g # f => Block(b, f) \cap Block(b, g) = {}
    BY <1>3, <1>8 DEF BlocksOK
  <2>. QED  BY <1>0, <1>12 DEF SlotsOK, BlocksOK, BlockSlots
<1>16. AnchorsOK(z)
  <2> SUFFICES ASSUME NEW r \in DOMAIN x
               PROVE  /\ r.node = "external" /\ x[r] \in DOMAIN z.nodes
                      /\ \A f \in DOMAIN b.blocks : x[r] \notin Block(b, f)
                      /\ \A q \in DOMAIN x : x[q] = x[r] => q = r
    BY <1>3, <1>5, <1>8 DEF AnchorsOK
  <2>1. \A f \in DOMAIN b.blocks : Block(b, f) \subseteq 1 .. l
    BY <1>0, <1>1 DEF SlotsOK, BlocksOK, Live
  <2>2. \A q \in DOMAIN x : q \in DOMAIN b.externals \/ q \in wanted \ DOMAIN b.externals
    BY <1>6 DEF AnchorsAt
  <2>3. CASE r \in DOMAIN b.externals
    <3>1. r.node = "external" /\ x[r] \in DOMAIN z.nodes /\ \A f \in DOMAIN b.blocks : x[r] \notin Block(b, f)
      BY <1>4, <1>6, <1>7, <1>9, <2>3 DEF AnchorsAt
    <3>2. ASSUME NEW q \in DOMAIN x, x[q] = x[r] PROVE q = r
      <4>1. CASE q \in DOMAIN b.externals
        BY <1>6, <1>9, <2>3, <3>2, <4>1 DEF AnchorsAt
      <4>2. CASE q \in wanted \ DOMAIN b.externals
        BY <1>6, <1>7, <2>3, <3>2, <4>2 DEF AnchorsAt
      <4>. QED  BY <2>2, <4>1, <4>2
    <3>. QED  BY <3>1, <3>2
  <2>4. CASE r \in wanted \ DOMAIN b.externals
    <3>1. r.node = "external" /\ x[r] \in DOMAIN z.nodes /\ \A f \in DOMAIN b.blocks : x[r] \notin Block(b, f)
      <4>1. x[r] \in (l + 1) .. (l + k)
        BY <1>6, <2>4 DEF AnchorsAt
      <4>2. x[r] \in 1 .. (l + k) /\ x[r] \notin 1 .. l
        BY <1>7, <4>1
      <4>. QED  BY <1>4, <2>1, <2>4, <4>2 DEF AnchorsWanted
    <3>2. ASSUME NEW q \in DOMAIN x, x[q] = x[r] PROVE q = r
      <4>1. CASE q \in DOMAIN b.externals
        BY <1>6, <1>7, <2>4, <3>2, <4>1 DEF AnchorsAt
      <4>2. CASE q \in wanted \ DOMAIN b.externals
        BY <1>6, <2>4, <3>2, <4>2 DEF AnchorsAt
      <4>. QED  BY <2>2, <4>1, <4>2
    <3>. QED  BY <3>1, <3>2
  <2>. QED  BY <2>2, <2>3, <2>4
<1>17. ASSUME NEW i \in Live(z)
       PROVE  i \in BlockSlots(z) \cup AnchorSlots(z)
  <2>1. i \in 1 .. (l + k) /\ i \notin z.tombstoned
    BY <1>4 DEF Live
  <2>2. CASE i \in 1 .. l
    <3>1. CASE i \in b.tombstoned
      BY <1>3, <1>11, <1>13, <2>1, <3>1
    <3>2. CASE i \notin b.tombstoned
      BY <1>0, <1>1, <1>13, <2>2, <3>2 DEF SlotsOK, Live
    <3>. QED  BY <3>1, <3>2
  <2>3. CASE i \in (l + 1) .. (l + k)
    <3>1. x[new[i - l]] = i /\ new[i - l] \in DOMAIN x
      BY <1>6, <1>7, <2>3 DEF AnchorsAt
    <3>. QED  BY <1>5, <3>1 DEF AnchorSlots
  <2>. QED  BY <1>7, <2>1, <2>2, <2>3
<1>18. SlotsOK(z)
  BY <1>3, <1>4, <1>15, <1>16, <1>17 DEF SlotsOK
<1>19. Carries(z)
  BY <1>3, <1>18 DEF Carries, Sized
<1>20. z.tombstoned \subseteq b.tombstoned \cup AnchorSlots(b)
  BY <1>3, <1>11
<1>. QED  BY <1>1, <1>3, <1>4, <1>5, <1>6, <1>7, <1>12, <1>14, <1>19, <1>20 DEF AnchorsAt

-----------------------------------------------------------------------------
(* Stages 3 and 4.                                                         *)

(* The cache is what resolving the sources gives.                          *)
Resolves(c) ==
  /\ c.rows = [f \in Present(src) |-> RefSpecs(src, f)]
  /\ c.live = LiveKeys(src)
  /\ \A k \in LiveKeys(src) : c.memo[k] = ResolveMember(k, src)

(* The anchors that are wanted are those the answers target.               *)
LEMMA WantedAnchors ==
  ASSUME src \in Sources, NEW c, Resolves(c)
  PROVE  /\ AnchorsWanted(LiveExternals(c))
         /\ \A k \in LiveKeys(src) : \A r \in ResolveMember(k, src).targets :
              r.node = "external" => r \in LiveExternals(c)
<1>1. LiveExternals(c) = {r \in UNION {ResolveMember(k, src).targets : k \in LiveKeys(src)} : r.node = "external"}
  BY DEF LiveExternals, Resolves
<1>2. AnchorsWanted(LiveExternals(c))
  BY <1>1, ExternalsAssumption DEF AnchorsWanted, Named
<1>. QED  BY <1>1, <1>2

(* What a clean file's part needs of the old builder: its edges leave its  *)
(* block for live slots, and, unless a key of it was resolved again, reach *)
(* an anchor only for a row that names it.                                 *)
CleanParts(b, dirty, redone) ==
  \A f \in Present(src) \ dirty : \A e \in b.parts[f] :
    /\ e[1] \in Block(b, f) /\ e[2] \in Live(b)
    /\ \/ MemberKeys(RefSpecs(src, f)) \cap redone # {}
       \/ e[2] \in BlockSlots(b) \/ AnchoredAt(b, src, f, e[2])

(* A part that is not translated again fits the new slots as it is: the    *)
(* ids in it still mean what they meant.                                   *)
LEMMA KeptParts ==
  ASSUME NEW b, SlotsOK(b), FlagsOK(b), NEW dirty, CleanFits(b, dirty), NEW redone, CleanParts(b, dirty, redone),
         DOMAIN b.parts = DOMAIN b.blocks,
         NEW c, Resolves(c), NEW m, m = Minted(b, dirty),
         NEW new, new = NewAnchors(m, LiveExternals(c)), NEW z, z = Interned(m, LiveExternals(c), new),
         NEW f \in Present(src), f \notin Retranslated(b, dirty, redone, c), NEW e \in b.parts[f]
  PROVE  GoodEdge(z, f, e)
<1>0. src \in Sources /\ \A g \in DOMAIN b.blocks : g \in Present(src)
  BY DEF CleanFits
<1>1. PICK wanted : wanted = LiveExternals(c) /\ AnchorsWanted(wanted)
  BY <1>0, WantedAnchors
<1>2. /\ Carries(m) /\ m.externals = b.externals
      /\ \A g \in Present(src) \ dirty : Block(m, g) = Block(b, g)
      /\ Live(b) \ OldSlots(b, dirty) \subseteq Live(m)
  BY MintedCarries
<1>3. /\ Carries(z) /\ z.blocks = m.blocks
      /\ \A r \in DOMAIN m.externals : r \in DOMAIN z.externals /\ z.externals[r] = m.externals[r]
      /\ \A r \in wanted : r \in DOMAIN z.externals /\ z.externals[r] \in Live(z)
      /\ Live(m) \cap BlockSlots(m) \subseteq Live(z)
  BY <1>1, <1>2, InternedCarries
<1>4. \A g : Block(z, g) = Block(m, g)
  BY <1>3 DEF Block
<1>5. /\ f \notin dirty /\ MemberKeys(RefSpecs(src, f)) \cap redone = {}
      /\ e[2] \notin OldSlots(b, dirty)
  <2>1. f \in DOMAIN b.blocks \/ f \in dirty
    BY DEF CleanFits
  <2>. QED  BY <2>1 DEF Retranslated, Resolves, OldSlots
<1>6. /\ e[1] \in Block(b, f) /\ e[2] \in Live(b)
      /\ e[2] \in BlockSlots(b) \/ AnchoredAt(b, src, f, e[2])
  BY <1>5 DEF CleanParts
<1>7. e[1] \in Block(z, f)
  BY <1>2, <1>4, <1>5, <1>6
<1>8. ASSUME e[2] \in BlockSlots(b) PROVE e[2] \in Live(z) /\ e[2] \in BlockSlots(z)
  <2>1. PICK g \in DOMAIN b.blocks : e[2] \in Block(b, g)
    BY <1>8 DEF BlockSlots
  <2>2. g \in Present(src) /\ g \notin dirty
    BY <1>0, <1>5, <2>1 DEF OldSlots
  <2>3. e[2] \in Block(m, g) /\ g \in DOMAIN m.blocks
    BY <1>2, <2>1, <2>2 DEF Carries
  <2>4. e[2] \in Live(m) /\ e[2] \in BlockSlots(m)
    BY <1>2, <1>5, <1>6, <2>3 DEF BlockSlots
  <2>. QED  BY <1>3, <1>4, <2>3, <2>4 DEF BlockSlots
<1>9. ASSUME AnchoredAt(b, src, f, e[2]) PROVE e[2] \in Live(z) /\ AnchoredAt(z, src, f, e[2])
  <2>1. PICK row \in RefSpecs(src, f) :
          /\ row.key.role # "local"
          /\ \E r \in ResolveMember(row.key, src).targets \cap DOMAIN b.externals : b.externals[r] = e[2]
    BY <1>9 DEF AnchoredAt
  <2>2. PICK r \in ResolveMember(row.key, src).targets \cap DOMAIN b.externals : b.externals[r] = e[2]
    BY <2>1
  <2>3. row.key \in LiveKeys(src)
    BY <1>0, <2>1, PayloadsAssumption DEF LiveKeys
  <2>4. r \in wanted
    BY <1>0, <1>1, <2>2, <2>3, WantedAnchors DEF SlotsOK, AnchorsOK
  <2>5. r \in DOMAIN z.externals /\ z.externals[r] = e[2] /\ e[2] \in Live(z)
    BY <1>2, <1>3, <2>2, <2>4
  <2>. QED  BY <2>1, <2>2, <2>5 DEF AnchoredAt
<1>. QED  BY <1>6, <1>7, <1>8, <1>9 DEF GoodEdge

(* Other flags leave the index and the edges as they are.                  *)
LEMMA ReflaggedKeepsEdges ==
  ASSUME NEW b, NEW w, Carries(b), Reflagged(b, w)
  PROVE  /\ Carries(w) /\ Index(w) = Index(b)
         /\ \A f, e : GoodEdge(b, f, e) => GoodEdge(w, f, e)
<1>1. SlotsOK(w) /\ Live(w) = Live(b) /\ \A f : Block(w, f) = Block(b, f)
  BY ReflaggedKeepsSlots DEF Carries
<1>2. Carries(w)
  BY <1>1 DEF Carries, Sized, Reflagged
<1>3. Index(w) = Index(b)
  BY DEF Index, Reflagged
<1>4. BlockSlots(w) = BlockSlots(b)
  BY <1>1 DEF BlockSlots, Reflagged
<1>5. \A f, i : AnchoredAt(b, src, f, i) => AnchoredAt(w, src, f, i)
  BY DEF AnchoredAt, Reflagged
<1>. QED  BY <1>1, <1>2, <1>3, <1>4, <1>5 DEF GoodEdge

(* A builder as a build of the sources leaves it.                          *)
BuiltOK(b) == Carries(b) /\ FlagsOK(b) /\ EdgesOK(b) /\ Anchored(b, src)

(* What a build keeps of the builder it starts from.                       *)
KeepsIds(b, w) ==
  /\ \A i \in Live(b) : w.nodes[i].ref \in {b.nodes[i].ref, Absent}
  /\ \A r \in DOMAIN b.externals : r \in DOMAIN w.externals /\ w.externals[r] = b.externals[r]
  /\ w.tombstoned \subseteq DOMAIN b.nodes

(* The refold: the parts are good, so the edges are.                       *)
LEMMA RefoldedBuilt ==
  ASSUME NEW b, Carries(b), NEW index, NEW files, NEW c, NEW w, w = Refolded(b, index, files, c),
         \A f \in Present(src) : \A e \in PartsOf(b, index, files, c)[f] : GoodEdge(b, f, e)
  PROVE  BuiltOK(w) /\ Reflagged(b, w)
<1>1. /\ Reflagged(b, w)
      /\ w.parts = PartsOf(b, index, files, c)
      /\ w.edges = UNION {PartsOf(b, index, files, c)[f] : f \in Present(src)}
      /\ w.baseFlags = [i \in DOMAIN b.nodes |-> b.nodes[i].flags]
  BY RefoldedFields DEF Carries, SlotsOK
<1>2. Carries(w) /\ \A f, e : GoodEdge(b, f, e) => GoodEdge(w, f, e)
  BY <1>1, ReflaggedKeepsEdges
<1>3. \A f \in Present(src) : \A e \in w.parts[f] : GoodEdge(w, f, e)
  BY <1>1, <1>2
<1>4. DOMAIN w.parts = Present(src) /\ DOMAIN w.blocks = Present(src)
  BY <1>1, <1>2 DEF PartsOf, Carries
<1>5. \A f \in Present(src) : Block(w, f) \subseteq Live(w)
  BY <1>2, BlockHolds
<1>6. \A e \in w.edges : e[1] \in Live(w) /\ e[2] \in Live(w)
  <2> SUFFICES ASSUME NEW f \in Present(src), NEW e \in w.parts[f] PROVE e[1] \in Live(w) /\ e[2] \in Live(w)
    BY <1>1
  <2>. QED  BY <1>3, <1>5 DEF GoodEdge
<1>7. EdgesOK(w) /\ Anchored(w, src)
  BY <1>3, <1>4, <1>6 DEF EdgesOK, Anchored, GoodEdge
<1>8. FlagsOK(w)
  <2>1. PICK l \in Nat : l = Len(b.nodes) /\ DOMAIN b.nodes = 1 .. l
    BY DEF Carries, SlotsOK, NodesOK, IsSequence
  <2>2. PICK s : s = w.baseFlags /\ s = [i \in 1 .. l |-> b.nodes[i].flags]
    BY <1>1, <2>1
  <2>3. Len(s) = l /\ s = [i \in 1 .. l |-> s[i]]
    BY <2>2
  <2>4. ASSUME NEW i \in b.tombstoned PROVE s[i] = {}
    <3>1. i \in 1 .. l /\ b.nodes[i] = Blank
      BY <2>1 DEF Carries, SlotsOK, NodesOK
    <3>. QED  BY <2>2, <3>1 DEF Blank
  <2>. QED  BY <1>1, <2>1, <2>2, <2>3, <2>4 DEF FlagsOK, IsSequence, Reflagged
<1>. QED  BY <1>1, <1>2, <1>7, <1>8 DEF BuiltOK

(* The plugin pass adds edges between live slots, and flags.               *)
LEMMA ProjectOpsKeepBuilt ==
  ASSUME NEW b, BuiltOK(b), NEW w, w = WithProjectOps(b)
  PROVE  BuiltOK(w) /\ Reflagged(b, w)
<1>0. Carries(b) /\ IsBuilder(b) /\ NodesOK(b)
  BY DEF BuiltOK, Carries, SlotsOK
<1>1. /\ Reflagged(b, w) /\ w.parts = b.parts /\ w.baseFlags = b.baseFlags
      /\ w.edges = b.edges \cup AddedEdges(b)
  BY <1>0, IndexEntries, ProjectOpsReflag
<1>2. Carries(w) /\ \A f, e : GoodEdge(b, f, e) => GoodEdge(w, f, e)
  BY <1>0, <1>1, ReflaggedKeepsEdges
<1>3. Live(w) = Live(b) /\ \A f : Block(w, f) = Block(b, f)
  BY <1>0, <1>1, ReflaggedKeepsSlots DEF Carries
<1>4. \A e \in AddedEdges(b) : e[1] \in Live(b) /\ e[2] \in Live(b)
  <2> SUFFICES ASSUME NEW o \in ProjectOps(src).edges, NEW e \in Ids(Index(b), {o[1]}) \X Ids(Index(b), {o[2]})
               PROVE  e[1] \in Live(b) /\ e[2] \in Live(b)
    BY DEF AddedEdges
  <2>1. e[1] \in Ids(Index(b), {o[1]}) /\ e[2] \in Ids(Index(b), {o[2]})
    OBVIOUS
  <2>. QED  BY <1>0, <2>1, AnyIds
<1>5. \A e \in w.edges : e[1] \in Live(w) /\ e[2] \in Live(w)
  BY <1>1, <1>3, <1>4 DEF BuiltOK, EdgesOK
<1>6. EdgesOK(w)
  BY <1>1, <1>3, <1>5 DEF BuiltOK, EdgesOK, Reflagged
<1>7. Anchored(w, src)
  <2>1. BlockSlots(w) = BlockSlots(b)
    BY <1>1, <1>3 DEF BlockSlots, Reflagged
  <2>2. \A f, i : AnchoredAt(b, src, f, i) => AnchoredAt(w, src, f, i)
    BY <1>1 DEF AnchoredAt, Reflagged
  <2>. QED  BY <1>1, <2>1, <2>2 DEF BuiltOK, Anchored
<1>8. FlagsOK(w)
  BY <1>1 DEF BuiltOK, FlagsOK, Reflagged
<1>. QED  BY <1>1, <1>2, <1>6, <1>7, <1>8 DEF BuiltOK

(* assemble_graph and the plugin pass, from a builder whose clean parts are *)
(* as the last build left them.                                            *)
LEMMA Assembly ==
  ASSUME NEW b, SlotsOK(b), FlagsOK(b), NEW dirty, CleanFits(b, dirty), NEW redone, CleanParts(b, dirty, redone),
         DOMAIN b.parts = DOMAIN b.blocks,
         NEW c, Resolves(c), NEW m, m = Minted(b, dirty),
         NEW new, new = NewAnchors(m, LiveExternals(c)), NEW z, z = Interned(m, LiveExternals(c), new),
         NEW files, files = Retranslated(b, dirty, redone, c),
         NEW st, st = Stamped(z, Index(z), files, c),
         NEW r, r = Refolded(st, Index(z), files, c), NEW w, w \in {r, WithProjectOps(r)}
  PROVE  BuiltOK(w) /\ KeepsIds(b, w)
<1>0. src \in Sources
  BY DEF CleanFits
<1>1. PICK wanted : wanted = LiveExternals(c) /\ AnchorsWanted(wanted)
  BY <1>0, WantedAnchors
<1>2. /\ Carries(m) /\ m.parts = b.parts /\ m.externals = b.externals
      /\ m.tombstoned = b.tombstoned \cup OldSlots(b, dirty) /\ m.tombstoned \subseteq DOMAIN b.nodes
      /\ Live(b) \ OldSlots(b, dirty) \subseteq Live(m)
      /\ \A i \in DOMAIN b.nodes : i \in DOMAIN m.nodes /\ m.nodes[i].ref \in {b.nodes[i].ref, Absent}
  BY MintedCarries
<1>3. /\ Carries(z) /\ z.parts = m.parts
      /\ \A q \in DOMAIN m.externals : q \in DOMAIN z.externals /\ z.externals[q] = m.externals[q]
      /\ z.tombstoned \subseteq m.tombstoned \cup AnchorSlots(m)
      /\ \A i \in DOMAIN m.nodes :
           /\ i \in DOMAIN z.nodes
           /\ i \in Live(m) \/ i \notin AnchorSlots(m) => z.nodes[i].ref \in {m.nodes[i].ref, Absent}
  BY <1>1, <1>2, InternedCarries
<1>4. Reflagged(z, st) /\ st.parts = z.parts
  BY <1>3, IndexEntries, StampedReflags DEF Carries, SlotsOK
<1>5. /\ Carries(st) /\ Index(st) = Index(z)
      /\ \A f, e : GoodEdge(z, f, e) => GoodEdge(st, f, e)
  BY <1>3, <1>4, ReflaggedKeepsEdges
<1>6. ASSUME NEW f \in Present(src), NEW e \in PartsOf(st, Index(z), files, c)[f]
      PROVE  GoodEdge(st, f, e)
  <2>1. CASE f \in files
    <3>1. e \in Part(st, Index(st), f, c)
      BY <1>5, <1>6, <2>1 DEF PartsOf
    <3>2. c.rows[f] = RefSpecs(src, f) /\ \A k \in MemberKeys(RefSpecs(src, f)) : c.memo[k] = ResolveMember(k, src)
      BY DEF Resolves, LiveKeys
    <3>. QED  BY <1>5, <3>1, <3>2, PartEdges
  <2>2. CASE f \notin files
    <3>1. e \in b.parts[f]
      BY <1>2, <1>3, <1>4, <2>2 DEF PartsOf
    <3>2. GoodEdge(z, f, e)
      BY <2>2, <3>1, KeptParts
    <3>. QED  BY <1>5, <3>2
  <2>. QED  BY <2>1, <2>2
<1>7. BuiltOK(r) /\ Reflagged(st, r)
  BY <1>5, <1>6, RefoldedBuilt
<1>8. BuiltOK(w) /\ (w = r \/ Reflagged(r, w))
  BY <1>7, ProjectOpsKeepBuilt
<1>9. /\ w.tombstoned = z.tombstoned /\ w.externals = z.externals
      /\ \A i \in DOMAIN z.nodes : w.nodes[i].ref = z.nodes[i].ref
  <2>1. ASSUME NEW x, NEW y, NodesOK(x), Reflagged(x, y)
        PROVE  /\ y.tombstoned = x.tombstoned /\ y.externals = x.externals /\ DOMAIN y.nodes = DOMAIN x.nodes
               /\ \A i \in DOMAIN x.nodes : y.nodes[i].ref = x.nodes[i].ref
    <3>1. DOMAIN y.nodes = DOMAIN x.nodes
      BY <2>1 DEF NodesOK, IsSequence, Reflagged
    <3>2. ASSUME NEW i \in DOMAIN x.nodes PROVE y.nodes[i].ref = x.nodes[i].ref
      <4>1. PICK n, p, g : n = y.nodes[i] /\ p = x.nodes[i].ref /\ g = y.nodes[i].flags /\ n = [ref |-> p, flags |-> g]
        BY <2>1 DEF Reflagged
      <4>. QED  BY <4>1
    <3>. QED  BY <2>1, <3>1, <3>2 DEF Reflagged
  <2>2. NodesOK(z) /\ NodesOK(st) /\ NodesOK(r)
    BY <1>3, <1>5, <1>7 DEF BuiltOK, Carries, SlotsOK
  <2>3. /\ st.tombstoned = z.tombstoned /\ st.externals = z.externals /\ DOMAIN st.nodes = DOMAIN z.nodes
        /\ \A i \in DOMAIN z.nodes : st.nodes[i].ref = z.nodes[i].ref
    BY <1>4, <2>1, <2>2
  <2>4. /\ r.tombstoned = st.tombstoned /\ r.externals = st.externals /\ DOMAIN r.nodes = DOMAIN st.nodes
        /\ \A i \in DOMAIN st.nodes : r.nodes[i].ref = st.nodes[i].ref
    BY <1>7, <2>1, <2>2
  <2>5. /\ w.tombstoned = r.tombstoned /\ w.externals = r.externals
        /\ \A i \in DOMAIN r.nodes : w.nodes[i].ref = r.nodes[i].ref
    BY <1>8, <2>1, <2>2
  <2>. QED  BY <2>3, <2>4, <2>5
<1>10. AnchorSlots(m) = AnchorSlots(b) /\ AnchorSlots(b) \subseteq DOMAIN b.nodes
  BY <1>2 DEF AnchorSlots, SlotsOK, AnchorsOK
<1>11. ASSUME NEW i \in Live(b)
       PROVE  w.nodes[i].ref \in {b.nodes[i].ref, Absent}
  <2>1. i \in DOMAIN b.nodes
    BY DEF Live
  <2>2. i \in Live(m) \/ i \notin AnchorSlots(m)
    <3>1. CASE i \in OldSlots(b, dirty)
      <4>1. PICK f \in dirty : i \in Block(b, f)
        BY <3>1 DEF OldSlots
      <4>2. f \in DOMAIN b.blocks
        BY <4>1 DEF Block
      <4>3. i \notin AnchorSlots(b)
        BY <4>1, <4>2 DEF AnchorSlots, SlotsOK, AnchorsOK
      <4>. QED  BY <1>10, <4>3
    <3>2. CASE i \notin OldSlots(b, dirty)
      BY <1>2, <3>2
    <3>. QED  BY <3>1, <3>2
  <2>. QED  BY <1>2, <1>3, <1>9, <2>1, <2>2
<1>12. KeepsIds(b, w)
  BY <1>2, <1>3, <1>9, <1>10, <1>11 DEF KeepsIds
<1>. QED  BY <1>8, <1>12

-----------------------------------------------------------------------------
(* The steps.                                                              *)

(* Nothing is wrong with the empty builder.                                *)
LEMMA EmptyBuilderOK ==
  /\ SlotsOK(EmptyBuilder) /\ FlagsOK(EmptyBuilder) /\ EdgesOK(EmptyBuilder)
  /\ DOMAIN EmptyBuilder.parts = {} /\ DOMAIN EmptyBuilder.blocks = {} /\ EmptyBuilder.tombstoned = {}
<1>1. PICK b : b = EmptyBuilder
  OBVIOUS
<1>2. b = BuilderOf(<<>>, EmptyMemo, {}, EmptyMemo, <<>>, EmptyMemo, {})
  BY <1>1 DEF EmptyBuilder, BuilderOf
<1>3. /\ b.nodes = <<>> /\ b.blocks = EmptyMemo /\ b.tombstoned = {} /\ b.parts = EmptyMemo /\ b.baseFlags = <<>>
      /\ b.externals = EmptyMemo /\ b.edges = {} /\ IsBuilder(b)
  BY <1>2, BuilderFields
<1>4. DOMAIN EmptyMemo = {}
  BY DEF EmptyMemo
<1>5. IsSequence(<<>>) /\ DOMAIN <<>> = {}
  <2>1. PICK s : s = <<>> /\ Len(s) = 0 /\ s = [i \in 1 .. 0 |-> s[i]]
    OBVIOUS
  <2>2. IsSequence(s) /\ DOMAIN s = {}
    BY <2>1 DEF IsSequence
  <2>. QED  BY <2>1, <2>2
<1>6. NodesOK(b) /\ BlocksOK(b) /\ AnchorsOK(b) /\ FlagsOK(b) /\ EdgesOK(b)
  BY <1>3, <1>4, <1>5 DEF NodesOK, BlocksOK, AnchorsOK, FlagsOK, EdgesOK
<1>7. Live(b) = {}
  BY <1>3, <1>5 DEF Live
<1>. QED  BY <1>1, <1>3, <1>4, <1>6, <1>7 DEF SlotsOK

(* The cache of a full build is what the sources give.                     *)
LEMMA FullBuildResolves ==
  ASSUME FullBuild, NEW c, c = cache'
  PROVE  Resolves(c)
BY DEF FullBuild, Resolves

(* So is that of an incremental one.                                       *)
LEMMA IncrementalBuildResolves ==
  ASSUME IInv, IncrementalBuild, NEW c, c = cache'
  PROVE  Resolves(c)
<1>1. /\ GatheredRows = [f \in Present(src) |-> RefSpecs(src, f)] /\ GatheredKeys = LiveKeys(src)
  BY GatherIsFresh DEF IncrementalBuild
<1>2. /\ c.rows = GatheredRows /\ c.memo = RefreshedMemo /\ c.live = GatheredKeys
  BY DEF IncrementalBuild
<1>3. ASSUME NEW k \in LiveKeys(src) PROVE RefreshedMemo[k] = ResolveMember(k, src)
  <2>1. k \in DOMAIN cache.memo \cup Redo
    BY <1>1 DEF Redo
  <2>2. CASE k \in Redo
    BY <2>1, <2>2 DEF RefreshedMemo
  <2>3. CASE k \notin Redo
    BY <2>1, <2>3, KeptAnswersAreFresh DEF RefreshedMemo, IncrementalBuild
  <2>. QED  BY <2>2, <2>3
<1>. QED  BY <1>1, <1>2, <1>3 DEF Resolves

(* What a step that builds leaves.                                         *)
LEMMA AssemblesBuilt ==
  ASSUME NEW b, SlotsOK(b), FlagsOK(b), NEW dirty, CleanFits(b, dirty), NEW redone, CleanParts(b, dirty, redone),
         DOMAIN b.parts = DOMAIN b.blocks,
         NEW c, Resolves(c), Assembles(b, dirty, redone, c), NEW w, w = builder'
  PROVE  BuiltOK(w) /\ KeepsIds(b, w)
<1>1. PICK m : m = Minted(b, dirty)
  OBVIOUS
<1>2. PICK wanted : wanted = LiveExternals(c)
  OBVIOUS
<1>3. PICK new : new = NewAnchors(m, wanted)
  OBVIOUS
<1>4. PICK z, files : z = Interned(m, wanted, new) /\ files = Retranslated(b, dirty, redone, c)
  OBVIOUS
<1>5. PICK st : st = Stamped(z, Index(z), files, c)
  OBVIOUS
<1>6. PICK r : r = Refolded(st, Index(z), files, c)
  OBVIOUS
<1>7. w \in {r, WithProjectOps(r)}
  BY <1>1, <1>2, <1>3, <1>4, <1>5, <1>6 DEF Assembles
<1>. QED  BY <1>1, <1>2, <1>3, <1>4, <1>5, <1>6, <1>7, Assembly

(* A build from nothing carries nothing.                                   *)
LEMMA FreshStep ==
  ASSUME IInv, MaterializeFresh, NEW w, w = builder'
  PROVE  BuiltOK(w)
<1>1. PICK c : c = cache'
  OBVIOUS
<1>2. Resolves(c)
  BY <1>1, FullBuildResolves DEF MaterializeFresh
<1>3. Assembles(EmptyBuilder, Present(src), {}, c)
  BY <1>1 DEF MaterializeFresh
<1>4. CleanFits(EmptyBuilder, Present(src)) /\ CleanParts(EmptyBuilder, Present(src), {})
  BY EmptyBuilderOK DEF CleanFits, CleanParts, IInv, TypeOK
<1>. QED  BY <1>2, <1>3, <1>4, EmptyBuilderOK, AssemblesBuilt

(* The carried builder fits: the clean files have blocks of the right size, *)
(* and the edges in their parts that were not asked for again are still    *)
(* those of their rows.                                                    *)
LEMMA CarriedFits ==
  ASSUME BuilderIInv, Gate
  PROVE  CleanFits(builder, Dirty) /\ CleanParts(builder, Dirty, Redo)
<1>1. InScope /\ IInv /\ Present(src) = Present(built) /\ src \in Sources /\ built \in Sources /\ cache.valid
  BY DEF BuilderIInv, Gate, IInv, TypeOK, ScopeCoversEdits, InScope
<1>2. /\ DOMAIN builder.blocks = Present(src) /\ Sized(builder, built) /\ Anchored(builder, built)
      /\ EdgesOK(builder)
  BY <1>1 DEF BuilderIInv, OfBuilt, BuilderOK
<1>3. Dirty \subseteq Present(src) /\ \A f \in Present(src) \ Dirty : f \notin scope.files /\ f \notin Moved
  BY <1>1 DEF Dirty, InScope, Moved
<1>4. ASSUME NEW f \in Present(src) \ Dirty
      PROVE  builder.blocks[f].len = PayloadLen(f)
  <2>1. SameFile(built, src, f)
    BY <1>1, <1>3, UnchangedFileIsSame
  <2>2. Len(PayloadNodes(built, f)) = Len(PayloadNodes(src, f))
    BY <1>1, <2>1, PayloadsHonest
  <2>. QED  BY <1>2, <2>2 DEF Sized, PayloadLen
<1>5. CleanFits(builder, Dirty)
  BY <1>1, <1>2, <1>3, <1>4 DEF CleanFits
<1>6. ASSUME NEW f \in Present(src) \ Dirty, MemberKeys(RefSpecs(src, f)) \cap Redo = {},
             NEW i, AnchoredAt(builder, built, f, i)
      PROVE  AnchoredAt(builder, src, f, i)
  <2>1. RefSpecs(built, f) = RefSpecs(src, f)
    <3>1. cache.rows[f] = RefSpecs(src, f)
      BY <1>1, CleanRowsAreFresh
    <3>2. cache.rows = [g \in Present(built) |-> RefSpecs(built, g)]
      BY <1>1 DEF IInv, CacheMatchesBuilt
    <3>. QED  BY <1>1, <3>1, <3>2
  <2>2. PICK row \in RefSpecs(src, f) :
          /\ row.key.role # "local"
          /\ \E r \in ResolveMember(row.key, built).targets \cap DOMAIN builder.externals : builder.externals[r] = i
    BY <1>6, <2>1 DEF AnchoredAt
  <2>3. row.key \in MemberKeys(RefSpecs(src, f)) /\ row.key \in LiveKeys(src) /\ row.key \notin Redo
    BY <1>1, <1>6, <2>2, PayloadsAssumption DEF LiveKeys
  <2>4. cache.memo[row.key] = ResolveMember(row.key, src)
    BY <1>1, <2>3, KeptAnswersAreFresh
  <2>5. row.key \in cache.live
    BY <1>1, <2>3, GatherIsFresh DEF Redo
  <2>6. cache.memo[row.key] = ResolveMember(row.key, built)
    BY <1>1, <2>5 DEF IInv, CacheMatchesBuilt
  <2>. QED  BY <2>2, <2>4, <2>6 DEF AnchoredAt
<1>7. CleanParts(builder, Dirty, Redo)
  <2> SUFFICES ASSUME NEW f \in Present(src) \ Dirty, NEW e \in builder.parts[f]
               PROVE  /\ e[1] \in Block(builder, f) /\ e[2] \in Live(builder)
                      /\ \/ MemberKeys(RefSpecs(src, f)) \cap Redo # {}
                         \/ e[2] \in BlockSlots(builder) \/ AnchoredAt(builder, src, f, e[2])
    BY DEF CleanParts
  <2>1. f \in DOMAIN builder.parts
    BY <1>2 DEF EdgesOK
  <2>2. e[1] \in Block(builder, f) /\ e[2] \in Live(builder)
    BY <1>2, <2>1 DEF EdgesOK
  <2>3. e[2] \in BlockSlots(builder) \/ AnchoredAt(builder, built, f, e[2])
    BY <1>2, <2>1 DEF Anchored
  <2>. QED  BY <1>6, <2>2, <2>3
<1>. QED  BY <1>5, <1>7

(* A build from the carried builder keeps the ids in it.                   *)
LEMMA IncrementalStep ==
  ASSUME BuilderIInv, MaterializeIncremental, NEW w, w = builder'
  PROVE  BuiltOK(w) /\ KeepsIds(builder, w)
<1>1. PICK c : c = cache'
  OBVIOUS
<1>2. Resolves(c)
  BY <1>1, IncrementalBuildResolves DEF MaterializeIncremental, BuilderIInv
<1>3. Assembles(builder, Dirty, Redo, c)
  BY <1>1 DEF MaterializeIncremental
<1>4. CleanFits(builder, Dirty) /\ CleanParts(builder, Dirty, Redo)
  BY CarriedFits DEF MaterializeIncremental
<1>5. SlotsOK(builder) /\ FlagsOK(builder) /\ DOMAIN builder.parts = DOMAIN builder.blocks
  BY DEF BuilderIInv, BuilderOK, EdgesOK
<1>. QED  BY <1>2, <1>3, <1>4, <1>5, AssemblesBuilt

-----------------------------------------------------------------------------
(* Invariance.                                                             *)

(* A build leaves a builder of the sources it was built from.              *)
LEMMA BuiltIsOfBuilt ==
  ASSUME NEW w, w = builder', BuiltOK(w), built' = src
  PROVE  BuilderOK' /\ OfBuilt'
<1>1. SlotsOK(w) /\ FlagsOK(w) /\ EdgesOK(w)
  BY DEF BuiltOK, Carries
<1>2. DOMAIN w.blocks = Present(src) /\ Sized(w, src) /\ Anchored(w, src)
  BY DEF BuiltOK, Carries
<1>3. BuilderOK'
  BY <1>1 DEF BuilderOK
<1>4. OfBuilt'
  BY <1>2 DEF OfBuilt
<1>. QED  BY <1>3, <1>4

(* The invariant is inductive.                                             *)
LEMMA BuilderStep ==
  ASSUME BuilderIInv, [GraphNext]_allVars
  PROVE  BuilderIInv'
<1>0. IInv /\ BuilderOK /\ OfBuilt
  BY DEF BuilderIInv
<1>1. ASSUME IInv', UNCHANGED <<builder, cache, built>> PROVE BuilderIInv'
  <2>1. BuilderOK'
    BY <1>0, <1>1 DEF BuilderOK
  <2>2. OfBuilt'
    BY <1>0, <1>1 DEF OfBuilt
  <2>. QED  BY <1>1, <2>1, <2>2 DEF BuilderIInv
<1>2. ASSUME NEW f \in File, NEW s \in Sources, ApplyChanged(f, s), UNCHANGED builder
      PROVE  BuilderIInv'
  <2>1. IInv'
    BY <1>0, <1>2, ApplyChangedIInv
  <2>2. UNCHANGED <<builder, cache, built>>
    BY <1>2 DEF ApplyChanged
  <2>. QED  BY <1>1, <2>1, <2>2
<1>3. ASSUME NEW f \in File, NEW s \in Sources, ApplyStructural(f, s), UNCHANGED builder
      PROVE  BuilderIInv'
  <2>1. IInv'
    BY <1>0, <1>3, ApplyStructuralIInv
  <2>2. UNCHANGED <<builder, cache, built>>
    BY <1>3 DEF ApplyStructural
  <2>. QED  BY <1>1, <2>1, <2>2
<1>4. CASE MaterializeFresh
  <2>1. IInv'
    BY <1>0, <1>4, FullBuildIInv DEF MaterializeFresh
  <2>2. PICK w : w = builder'
    OBVIOUS
  <2>3. BuiltOK(w)
    BY <1>0, <1>4, <2>2, FreshStep
  <2>4. built' = src
    BY <1>4 DEF MaterializeFresh, FullBuild, BuildCompleted
  <2>. QED  BY <2>1, <2>2, <2>3, <2>4, BuiltIsOfBuilt DEF BuilderIInv
<1>5. CASE MaterializeIncremental
  <2>1. IInv'
    BY <1>0, <1>5, IncrementalBuildIInv DEF MaterializeIncremental
  <2>2. PICK w : w = builder'
    OBVIOUS
  <2>3. BuiltOK(w)
    BY <1>5, <2>2, IncrementalStep
  <2>4. built' = src
    BY <1>5 DEF MaterializeIncremental, IncrementalBuild, BuildCompleted
  <2>. QED  BY <2>1, <2>2, <2>3, <2>4, BuiltIsOfBuilt DEF BuilderIInv
<1>6. CASE MaterializeFails
  <2>1. IInv'
    BY <1>0, <1>6, BuildFailsIInv DEF MaterializeFails
  <2>2. builder' = EmptyBuilder
    BY <1>6 DEF MaterializeFails
  <2>3. BuilderOK'
    BY <2>2, EmptyBuilderOK DEF BuilderOK
  <2>4. ~cache'.valid
    BY <1>6 DEF MaterializeFails, BuildFails, EmptyCache
  <2>. QED  BY <2>1, <2>3, <2>4 DEF BuilderIInv, OfBuilt
<1>7. CASE UNCHANGED allVars
  <2>1. IInv'
    BY <1>0, <1>7, StutterIInv DEF allVars, vars
  <2>. QED  BY <1>1, <1>7, <2>1 DEF allVars
<1>. QED  BY <1>2, <1>3, <1>4, <1>5, <1>6, <1>7 DEF GraphNext

(* Whatever the edits, builds and failed builds: blocks and anchors share  *)
(* the slots among them, the edges are between live ones, and the carried  *)
(* builder is that of the sources of the last completed build.             *)
THEOREM BuilderInvariant == GraphSpec => []BuilderIInv
<1>1. GraphInit => BuilderIInv
  <2> SUFFICES ASSUME GraphInit PROVE BuilderIInv
    OBVIOUS
  <2>1. IInv
    BY InitIInv DEF GraphInit
  <2>2. BuilderOK
    BY EmptyBuilderOK DEF GraphInit, BuilderOK
  <2>3. OfBuilt
    BY DEF GraphInit, Init, EmptyCache, OfBuilt
  <2>. QED  BY <2>1, <2>2, <2>3 DEF BuilderIInv
<1>2. BuilderIInv /\ [GraphNext]_allVars => BuilderIInv'
  BY BuilderStep
<1>. QED  BY <1>1, <1>2, PTL DEF GraphSpec

-----------------------------------------------------------------------------
(* What follows from it.                                                   *)

(* The parts of the builder agree on what a dense id is.                   *)
THEOREM BuilderTyped == GraphSpec => []BuilderTypeOK
<1>1. BuilderIInv => BuilderTypeOK
  <2> SUFFICES ASSUME SlotsOK(builder), FlagsOK(builder), EdgesOK(builder) PROVE BuilderTypeOK
    BY DEF BuilderIInv, BuilderOK
  <2>1. DOMAIN builder.nodes = 1 .. Len(builder.nodes)
    BY DEF SlotsOK, NodesOK, IsSequence
  <2>2. \A f \in DOMAIN builder.blocks : Block(builder, f) \subseteq DOMAIN builder.nodes
    BY DEF SlotsOK, BlocksOK, Live
  <2>. QED  BY <2>1, <2>2 DEF BuilderTypeOK, SlotsOK, NodesOK, AnchorsOK, FlagsOK, EdgesOK
<1>. QED  BY <1>1, BuilderInvariant, PTL

(* No edge touches a tombstone, and the cached part of a file leaves the   *)
(* file's own block: a part that is kept never needs its ids remapped.     *)
THEOREM NoEdgeToTombstones == GraphSpec => []EdgesAvoidTombstones
<1>1. BuilderIInv => EdgesAvoidTombstones
  BY DEF BuilderIInv, BuilderOK, EdgesOK, EdgesAvoidTombstones
<1>. QED  BY <1>1, BuilderInvariant, PTL

(* A set with at most one member.                                          *)
LEMMA AtMostOne ==
  ASSUME NEW S, \A x, y \in S : x = y
  PROVE  Cardinality(S) \in {0, 1} /\ (S # {} => Cardinality(S) = 1) /\ (S = {} => Cardinality(S) = 0)
<1>1. CASE S = {}
  BY <1>1, FS_EmptySet
<1>2. CASE S # {}
  <2>1. PICK x : S = {x}
    BY <1>2
  <2>. QED  BY <1>2, <2>1, FS_Singleton
<1>. QED  BY <1>1, <1>2

(* Every id belongs to one block, one anchor or the tombstones.            *)
THEOREM IdsOwnedOnce == GraphSpec => []EveryIdOwnedOnce
<1>1. BuilderIInv => EveryIdOwnedOnce
  <2> SUFFICES ASSUME SlotsOK(builder), NEW i \in DOMAIN builder.nodes
               PROVE  LET owners == {f \in DOMAIN builder.blocks : i \in Block(builder, f)}
                          anchors == {r \in DOMAIN builder.externals : builder.externals[r] = i}
                      IN  /\ Cardinality(owners) + Cardinality(anchors) <= 1
                          /\ i \in Live(builder) <=> builder.nodes[i] # Blank
                          /\ i \in Live(builder) => owners \cup anchors # {}
    BY DEF BuilderIInv, BuilderOK, EveryIdOwnedOnce
  <2> DEFINE owners == {f \in DOMAIN builder.blocks : i \in Block(builder, f)}
             anchors == {r \in DOMAIN builder.externals : builder.externals[r] = i}
  <2>1. PICK o, a : o = owners /\ a = anchors
    OBVIOUS
  <2>2. (\A f, g \in o : f = g) /\ (\A r, q \in a : r = q) /\ (o = {} \/ a = {})
    BY <2>1 DEF SlotsOK, BlocksOK, AnchorsOK
  <2>3. /\ Cardinality(o) \in {0, 1} /\ Cardinality(a) \in {0, 1}
        /\ o = {} => Cardinality(o) = 0
        /\ a = {} => Cardinality(a) = 0
    BY <2>2, AtMostOne
  <2>4. Cardinality(o) + Cardinality(a) <= 1
    BY <2>2, <2>3
  <2>5. i \in Live(builder) <=> builder.nodes[i] # Blank
    <3>1. builder.nodes[i] = Blank => builder.nodes[i].ref = Absent
      BY DEF Blank
    <3>. QED  BY <3>1 DEF SlotsOK, NodesOK, Live
  <2>6. i \in Live(builder) => o \cup a # {}
    BY <2>1 DEF SlotsOK, BlockSlots, AnchorSlots
  <2>. QED  BY <2>1, <2>4, <2>5, <2>6
<1>. QED  BY <1>1, BuilderInvariant, PTL

(* While builds stay incremental a live id never comes to mean another     *)
(* node, and an anchor that comes back gets the id it had.                 *)
THEOREM IdsNeverMove == GraphSpec => IdsStayPut
<1>1. BuilderIInv /\ [GraphNext]_allVars =>
        [Gate /\ builder' # EmptyBuilder =>
           /\ \A i \in Live(builder) :
                builder'.nodes[i].ref \in {builder.nodes[i].ref, Absent}
           /\ \A r \in DOMAIN builder.externals :
                r \in DOMAIN builder'.externals /\ builder'.externals[r] = builder.externals[r]]_allVars
  <2> SUFFICES ASSUME BuilderIInv, [GraphNext]_allVars, Gate, builder' # EmptyBuilder
               PROVE  /\ \A i \in Live(builder) :
                           builder'.nodes[i].ref \in {builder.nodes[i].ref, Absent}
                      /\ \A r \in DOMAIN builder.externals :
                           r \in DOMAIN builder'.externals /\ builder'.externals[r] = builder.externals[r]
    OBVIOUS
  <2>1. CASE builder' = builder
    BY <2>1
  <2>2. CASE MaterializeIncremental
    <3>1. PICK w : w = builder'
      OBVIOUS
    <3>. QED  BY <2>2, <3>1, IncrementalStep DEF KeepsIds
  <2>3. builder' = builder \/ MaterializeIncremental
    BY DEF GraphNext, allVars, MaterializeFresh, MaterializeFails
  <2>. QED  BY <2>1, <2>2, <2>3
<1>. QED  BY <1>1, BuilderInvariant, PTL DEF GraphSpec, IdsStayPut

(* An incremental build leaves at most twice as many dead slots as there   *)
(* were live nodes, however long the edits go on.                          *)
THEOREM DeadSlotsAreBounded == GraphSpec => DeadSlotsBounded
<1>1. BuilderIInv /\ [GraphNext]_allVars =>
        [Gate => Cardinality(builder'.tombstoned) <= 2 * Cardinality(Live(builder))]_allVars
  <2> SUFFICES ASSUME BuilderIInv, [GraphNext]_allVars, Gate
               PROVE  Cardinality(builder'.tombstoned) <= 2 * Cardinality(Live(builder))
    OBVIOUS
  <2>1. PICK l, N, D : /\ l \in Nat /\ l = Len(builder.nodes) /\ N = DOMAIN builder.nodes /\ N = 1 .. l
                       /\ D = builder.tombstoned /\ D \subseteq N
    BY DEF BuilderIInv, BuilderOK, SlotsOK, NodesOK, IsSequence
  <2>2. IsFiniteSet(N) /\ Cardinality(N) = l
    BY <2>1, FS_Interval
  <2>3. IsFiniteSet(D)
    BY <2>1, <2>2, FS_Subset
  <2>4. Cardinality(N \ D) = l - Cardinality(D)
    <3>1. Cardinality(N \ D) = Cardinality(N) - Cardinality(N \cap D)
      BY <2>2, FS_Difference
    <3>2. N \cap D = D
      BY <2>1
    <3>. QED  BY <2>2, <3>1, <3>2
  <2>5. PICK d, n : d \in Nat /\ d = Cardinality(D) /\ n = Cardinality(Live(builder)) /\ n = l - d
    BY <2>1, <2>3, <2>4, FS_CardinalityType DEF Live
  <2>6. d * 2 <= l
    BY <2>1, <2>5 DEF Gate
  <2>7. l <= 2 * n /\ l \in Nat /\ n \in Int
    BY <2>1, <2>5, <2>6
  <2>8. ASSUME NEW T, T = builder'.tombstoned, T \subseteq N
        PROVE  Cardinality(T) <= 2 * n
    <3>1. IsFiniteSet(T) /\ Cardinality(T) <= l
      BY <2>2, <2>8, FS_Subset
    <3>2. PICK t \in Nat : t = Cardinality(T)
      BY <3>1, FS_CardinalityType
    <3>. QED  BY <2>5, <2>7, <3>1, <3>2
  <2>9. builder'.tombstoned \subseteq N
    <3>1. CASE builder' = builder
      BY <2>1, <3>1
    <3>2. CASE MaterializeIncremental
      <4>1. PICK w : w = builder'
        OBVIOUS
      <4>. QED  BY <2>1, <3>2, <4>1, IncrementalStep DEF KeepsIds
    <3>3. CASE builder' = EmptyBuilder
      BY <3>3, EmptyBuilderOK
    <3>4. builder' = builder \/ MaterializeIncremental \/ builder' = EmptyBuilder
      BY DEF GraphNext, allVars, MaterializeFresh, MaterializeFails
    <3>. QED  BY <3>1, <3>2, <3>3, <3>4
  <2>. QED  BY <2>5, <2>8, <2>9
<1>. QED  BY <1>1, BuilderInvariant, PTL DEF GraphSpec, DeadSlotsBounded
-----------------------------------------------------------------------------
(* What a build serves.                                                    *)

(* Slots hold what they are for.                                           *)
RefsPlaced(b) ==
  /\ \A f \in Present(src) : \A i \in DOMAIN PayloadNodes(src, f) :
       b.nodes[b.blocks[f].base + i].ref = PayloadNodes(src, f)[i].ref
  /\ \A r \in DOMAIN b.externals :
       b.externals[r] \in Live(b) => b.nodes[b.externals[r]].ref = r

(* A slot of a file.                                                       *)
FileSlot(b, f, k, i) ==
  /\ k \in DOMAIN PayloadNodes(src, f) /\ i = b.blocks[f].base + k
  /\ b.nodes[i].ref = PayloadNodes(src, f)[k].ref

(* What is live is a node of a file, or an anchor.                         *)
LEMMA LiveSlot ==
  ASSUME NEW b, Carries(b), RefsPlaced(b), NEW i \in Live(b)
  PROVE  \/ \E f \in Present(src) : \E k \in DOMAIN PayloadNodes(src, f) : FileSlot(b, f, k, i)
         \/ b.nodes[i].ref \in DOMAIN b.externals /\ b.externals[b.nodes[i].ref] = i
            /\ b.nodes[i].ref.node = "external"
<1>1. CASE i \in AnchorSlots(b)
  <2>1. PICK r \in DOMAIN b.externals : b.externals[r] = i
    BY <1>1 DEF AnchorSlots
  <2>2. b.nodes[i].ref = r /\ r.node = "external"
    BY <2>1 DEF RefsPlaced, Carries, SlotsOK, AnchorsOK
  <2>. QED  BY <2>1, <2>2
<1>2. CASE i \in BlockSlots(b)
  <2>1. PICK f \in Present(src) : i \in Block(b, f)
    BY <1>2 DEF BlockSlots, Carries
  <2>2. PICK base \in Nat, len \in Nat :
          base = b.blocks[f].base /\ len = b.blocks[f].len /\ len = Len(PayloadNodes(src, f))
    BY DEF Carries, SlotsOK, BlocksOK, Sized
  <2>3. i \in (base + 1) .. (base + len)
    BY <2>1, <2>2 DEF Block
  <2>4. DOMAIN PayloadNodes(src, f) = 1 .. len
    BY <2>2, PayloadsAssumption DEF Carries
  <2>5. PICK k : k = i - base /\ k \in 1 .. len /\ i = base + k
    BY <2>3
  <2>6. k \in DOMAIN PayloadNodes(src, f) /\ i = b.blocks[f].base + k
    BY <2>2, <2>4, <2>5
  <2>7. b.nodes[b.blocks[f].base + k].ref = PayloadNodes(src, f)[k].ref
    BY <2>6 DEF RefsPlaced
  <2>8. FileSlot(b, f, k, i)
    BY <2>6, <2>7 DEF FileSlot
  <2>. QED  BY <2>6, <2>8
<1>. QED  BY <1>1, <1>2 DEF Carries, SlotsOK

(* Every node of a file has its slot.                                      *)
LEMMA FileSlotLive ==
  ASSUME NEW b, Carries(b), RefsPlaced(b), NEW f \in Present(src), NEW k \in DOMAIN PayloadNodes(src, f)
  PROVE  /\ b.blocks[f].base + k \in Live(b) /\ b.blocks[f].base + k \in Block(b, f)
         /\ FileSlot(b, f, k, b.blocks[f].base + k)
         /\ PayloadNodes(src, f)[k].ref.file = f /\ PayloadNodes(src, f)[k].ref.node # "external"
<1>1. PayloadNodes(src, f)[k].ref.file = f /\ PayloadNodes(src, f)[k].ref.node # "external"
  BY PayloadsAssumption DEF Carries
<1>. QED  BY <1>1, BlockHolds DEF RefsPlaced, FileSlot

(* No two live slots hold the same node.                                   *)
LEMMA RefsOnce ==
  ASSUME NEW b, Carries(b), RefsPlaced(b), NEW i \in Live(b), NEW j \in Live(b), b.nodes[i].ref = b.nodes[j].ref
  PROVE  i = j
<1>0. src \in Sources
  BY DEF Carries
<1>1. ASSUME NEW f \in Present(src), NEW k \in DOMAIN PayloadNodes(src, f), FileSlot(b, f, k, i)
      PROVE  i = j
  <2>1. b.nodes[i].ref = PayloadNodes(src, f)[k].ref /\ b.nodes[i].ref.file = f /\ b.nodes[i].ref.node # "external"
    BY <1>1, FileSlotLive DEF FileSlot
  <2>10. b.nodes[j].ref.node # "external"
    BY <2>1
  <2>2. PICK g \in Present(src) : \E h \in DOMAIN PayloadNodes(src, g) : FileSlot(b, g, h, j)
    BY <2>10, LiveSlot
  <2>20. PICK h \in DOMAIN PayloadNodes(src, g) : FileSlot(b, g, h, j)
    BY <2>2
  <2>3. b.nodes[j].ref = PayloadNodes(src, g)[h].ref /\ b.nodes[j].ref.file = g
    BY <2>20, FileSlotLive DEF FileSlot
  <2>4. g = f /\ PayloadNodes(src, f)[h].ref = PayloadNodes(src, f)[k].ref
    BY <2>1, <2>3
  <2>5. h = k
    BY <1>0, <2>4, PayloadsAssumption
  <2>. QED  BY <1>1, <2>20, <2>4, <2>5 DEF FileSlot
<1>2. ASSUME b.nodes[i].ref \in DOMAIN b.externals, b.externals[b.nodes[i].ref] = i, b.nodes[i].ref.node = "external"
      PROVE  i = j
  <2>1. ASSUME NEW g \in Present(src), NEW h \in DOMAIN PayloadNodes(src, g), FileSlot(b, g, h, j) PROVE FALSE
    BY <1>2, <2>1, FileSlotLive DEF FileSlot
  <2>. QED  BY <1>2, <2>1, LiveSlot
<1>. QED  BY <1>1, <1>2, LiveSlot

(* The index leads from the nodes to their slots.                          *)
LEMMA IdsAreSlots ==
  ASSUME NEW b, Carries(b), RefsPlaced(b), NEW refs
  PROVE  Ids(Index(b), refs) = {i \in Live(b) : b.nodes[i].ref \in refs}
<1>1. ASSUME NEW x \in Index(b) PROVE x[2] \in Live(b) /\ b.nodes[x[2]].ref = x[1]
  <2>1. x[2] \in Live(b)
    BY IndexEntries
  <2>2. CASE x \in {<<r, b.externals[r]>> : r \in {q \in DOMAIN b.externals : b.externals[q] \notin b.tombstoned}}
    <3>1. PICK r \in DOMAIN b.externals : x = <<r, b.externals[r]>>
      BY <2>2
    <3>2. x[1] = r /\ x[2] = b.externals[r]
      BY <3>1
    <3>. QED  BY <2>1, <3>2 DEF RefsPlaced
  <2>3. ASSUME NEW f \in Present(src), NEW i \in DOMAIN PayloadNodes(src, f),
               x = <<PayloadNodes(src, f)[i].ref, b.blocks[f].base + i>>
        PROVE  b.nodes[x[2]].ref = x[1]
    <3>1. x[1] = PayloadNodes(src, f)[i].ref /\ x[2] = b.blocks[f].base + i
      BY <2>3
    <3>. QED  BY <3>1 DEF RefsPlaced
  <2>4. x \in {<<r, b.externals[r]>> : r \in {q \in DOMAIN b.externals : b.externals[q] \notin b.tombstoned}}
        \/ \E f \in Present(src) : \E i \in DOMAIN PayloadNodes(src, f) :
             x = <<PayloadNodes(src, f)[i].ref, b.blocks[f].base + i>>
    BY DEF Index
  <2>. QED  BY <2>1, <2>2, <2>3, <2>4
<1>2. ASSUME NEW i \in Live(b) PROVE <<b.nodes[i].ref, i>> \in Index(b)
  <2>1. ASSUME NEW f \in Present(src), NEW k \in DOMAIN PayloadNodes(src, f), FileSlot(b, f, k, i)
        PROVE  <<b.nodes[i].ref, i>> \in Index(b)
    <3>1. <<b.nodes[i].ref, i>> = <<PayloadNodes(src, f)[k].ref, b.blocks[f].base + k>>
      BY <2>1 DEF FileSlot
    <3>. QED  BY <3>1 DEF Index
  <2>2. ASSUME b.nodes[i].ref \in DOMAIN b.externals, b.externals[b.nodes[i].ref] = i
        PROVE  <<b.nodes[i].ref, i>> \in Index(b)
    BY <2>2 DEF Index, Live
  <2>. QED  BY <2>1, <2>2, LiveSlot
<1>3. ASSUME NEW i, i \in Ids(Index(b), refs) PROVE i \in Live(b) /\ b.nodes[i].ref \in refs
  <2>1. PICK x \in Index(b) : x[1] \in refs /\ x[2] = i
    BY <1>3 DEF Ids
  <2>. QED  BY <1>1, <2>1
<1>4. ASSUME NEW i \in Live(b), b.nodes[i].ref \in refs PROVE i \in Ids(Index(b), refs)
  <2>1. PICK x \in Index(b) : x = <<b.nodes[i].ref, i>> /\ x[1] = b.nodes[i].ref /\ x[2] = i
    BY <1>2
  <2>. QED  BY <1>4, <2>1 DEF Ids
<1>. QED  BY <1>3, <1>4

(* The edges between the live slots of some pairs of nodes.                *)
Between(b, pairs) ==
  {e \in Live(b) \X Live(b) : <<b.nodes[e[1]].ref, b.nodes[e[2]].ref>> \in pairs}

LinkRefs(b, pairs, i, j) == <<b.nodes[i].ref, b.nodes[j].ref>> \in pairs

(* Edges are told by the slots at their ends.                              *)
LEMMA EdgesBetween ==
  ASSUME NEW b, NEW pairs, NEW S, S \subseteq Live(b) \X Live(b),
         \A i, j \in Live(b) : <<i, j>> \in S <=> LinkRefs(b, pairs, i, j)
  PROVE  S = Between(b, pairs)
<1>1. ASSUME NEW e \in Live(b) \X Live(b) PROVE e \in S <=> e \in Between(b, pairs)
  <2>1. PICK i \in Live(b), j \in Live(b) : e = <<i, j>> /\ e[1] = i /\ e[2] = j
    OBVIOUS
  <2>. QED  BY <2>1 DEF Between, LinkRefs
<1>2. Between(b, pairs) \subseteq Live(b) \X Live(b)
  BY DEF Between
<1>. QED  BY <1>1, <1>2

(* Which slots are those of a file.                                        *)
LEMMA SlotOfRef ==
  ASSUME NEW b, Carries(b), RefsPlaced(b), NEW f \in Present(src), NEW i \in Live(b)
  PROVE  /\ \A k \in DOMAIN PayloadNodes(src, f) :
              i = b.blocks[f].base + k <=> b.nodes[i].ref = PayloadNodes(src, f)[k].ref
         /\ i \in Block(b, f) <=> b.nodes[i].ref \in RefsOf(src, f)
         /\ i = ModuleId(b, f) <=> b.nodes[i].ref = PayloadNodes(src, f)[1].ref
<1>1. ASSUME NEW k \in DOMAIN PayloadNodes(src, f)
      PROVE  i = b.blocks[f].base + k <=> b.nodes[i].ref = PayloadNodes(src, f)[k].ref
  <2>1. PICK j \in Live(b) : j = b.blocks[f].base + k /\ b.nodes[j].ref = PayloadNodes(src, f)[k].ref
    BY FileSlotLive DEF FileSlot
  <2>. QED  BY <2>1, RefsOnce
<1>2. PICK base \in Nat, len \in Nat \ {0} :
        base = b.blocks[f].base /\ len = b.blocks[f].len /\ DOMAIN PayloadNodes(src, f) = 1 .. len
  BY PayloadsAssumption DEF Carries, SlotsOK, BlocksOK, Sized
<1>3. Block(b, f) = (base + 1) .. (base + len)
  BY <1>2 DEF Block, Carries
<1>4. i \in Block(b, f) <=> b.nodes[i].ref \in RefsOf(src, f)
  <2>1. ASSUME i \in Block(b, f) PROVE b.nodes[i].ref \in RefsOf(src, f)
    <3>1. PICK k : k = i - base /\ k \in 1 .. len /\ i = base + k
      BY <1>3, <2>1
    <3>. QED  BY <1>1, <1>2, <3>1 DEF RefsOf
  <2>2. ASSUME b.nodes[i].ref \in RefsOf(src, f) PROVE i \in Block(b, f)
    <3>1. PICK k \in DOMAIN PayloadNodes(src, f) : b.nodes[i].ref = PayloadNodes(src, f)[k].ref
      BY <2>2 DEF RefsOf
    <3>. QED  BY <1>1, <3>1, FileSlotLive
  <2>. QED  BY <2>1, <2>2
<1>5. 1 \in DOMAIN PayloadNodes(src, f)
  BY <1>2
<1>. QED  BY <1>1, <1>4, <1>5 DEF ModuleId

(* What the sources say of the edges of a file, in the order of a part.    *)
RowPairs(s, f) == UNION {RowEdges(s, f, row) : row \in RefSpecs(s, f)}

ModulePairs(s, f) ==
  ((RefsOf(s, f) \ {PayloadNodes(s, f)[1].ref}) \X {PayloadNodes(s, f)[1].ref})
    \cup {<<PayloadNodes(s, f)[1].ref, PayloadNodes(s, g)[1].ref>> : g \in ParentModule(s, f)}

PeerPairs(s, f) ==
  UNION {UNION {ExportsByName(s, f)[n] \X ExportsByName(s, g)[n] :
                  n \in DOMAIN ExportsByName(s, f) \cap DOMAIN ExportsByName(s, g)} :
           g \in PyTwin(s, f)}

OpPairs(s, f) ==
  {<<PayloadNodes(s, f)[e[1]].ref, PayloadNodes(s, f)[e[2]].ref>> :
     e \in {o \in PerFileOps(s, f).edges : {o[1], o[2]} \subseteq DOMAIN PayloadNodes(s, f)}}

(* They are all of them.                                                   *)
LEMMA ExpectedIs ==
  ASSUME NEW s, NEW f
  PROVE  ExpectedEdges(s, f) = RowPairs(s, f) \cup ModulePairs(s, f) \cup PeerPairs(s, f) \cup OpPairs(s, f)
BY DEF ExpectedEdges, RowPairs, ModulePairs, PeerPairs, OpPairs

(* spec_edges gives the edges of a row.                                    *)
LEMMA RowsMatch ==
  ASSUME NEW b, Carries(b), RefsPlaced(b), NEW f \in Present(src), NEW row \in RefSpecs(src, f), NEW c,
         row.key.role # "local" => c.memo[row.key] = ResolveMember(row.key, src)
  PROVE  SpecEdges(Index(b), f, row, c) = Between(b, RowEdges(src, f, row))
<1>0. row.key.role \in {"local", "use", "binding"}
  BY PayloadsAssumption DEF Carries
<1>1. \A refs : Ids(Index(b), refs) = {i \in Live(b) : b.nodes[i].ref \in refs}
  BY IdsAreSlots
<1>2. \A i, j \in Live(b) : i = j <=> b.nodes[i].ref = b.nodes[j].ref
  BY RefsOnce
<1>3. CASE row.key.role = "local"
  <2>1. SpecEdges(Index(b), f, row, c)
          = {e \in Ids(Index(b), {row.src}) \X Ids(Index(b), {row.dst}) : e[1] # e[2]}
    BY <1>3 DEF SpecEdges
  <2>2. RowEdges(src, f, row) = {<<row.src, row.dst>>} \ {<<row.src, row.src>>}
    BY <1>3 DEF RowEdges
  <2>3. PICK S : S = SpecEdges(Index(b), f, row, c)
    OBVIOUS
  <2>4. S \subseteq Live(b) \X Live(b)
    BY <1>1, <2>1, <2>3
  <2>5. ASSUME NEW i \in Live(b), NEW j \in Live(b)
        PROVE  <<i, j>> \in S <=> LinkRefs(b, RowEdges(src, f, row), i, j)
    <3>1. <<i, j>> \in S <=> b.nodes[i].ref = row.src /\ b.nodes[j].ref = row.dst /\ i # j
      BY <1>1, <2>1, <2>3
    <3>. QED  BY <1>2, <2>2, <3>1 DEF LinkRefs
  <2>. QED  BY <2>3, <2>4, <2>5, EdgesBetween
<1>4. CASE row.key.role = "use"
  <2>1. PICK targets : targets = ResolveMember(row.key, src).targets
    OBVIOUS
  <2>2. SpecEdges(Index(b), f, row, c)
          = {e \in Ids(Index(b), {row.src}) \X Ids(Index(b), targets) : e[1] # e[2]}
    BY <1>4, <2>1 DEF SpecEdges
  <2>3. RowEdges(src, f, row) = {<<row.src, r>> : r \in targets \ {row.src}}
    BY <1>4, <2>1 DEF RowEdges
  <2>4. PICK S : S = SpecEdges(Index(b), f, row, c)
    OBVIOUS
  <2>5. S \subseteq Live(b) \X Live(b)
    BY <1>1, <2>2, <2>4
  <2>6. ASSUME NEW i \in Live(b), NEW j \in Live(b)
        PROVE  <<i, j>> \in S <=> LinkRefs(b, RowEdges(src, f, row), i, j)
    <3>1. <<i, j>> \in S <=> b.nodes[i].ref = row.src /\ b.nodes[j].ref \in targets /\ i # j
      BY <1>1, <2>2, <2>4
    <3>. QED  BY <1>2, <2>3, <3>1 DEF LinkRefs
  <2>. QED  BY <2>4, <2>5, <2>6, EdgesBetween
<1>5. CASE row.key.role = "binding"
  <2>1. PICK targets : targets = IF f \in ResolveMember(row.key, src).start THEN {}
                                 ELSE ResolveMember(row.key, src).targets
    OBVIOUS
  <2>2. SpecEdges(Index(b), f, row, c) = Ids(Index(b), {row.src}) \X Ids(Index(b), targets)
    <3>1. CASE f \in ResolveMember(row.key, src).start
      <4>1. SpecEdges(Index(b), f, row, c) = {}
        BY <1>5, <3>1 DEF SpecEdges
      <4>2. targets = {}
        BY <2>1, <3>1
      <4>. QED  BY <1>1, <4>1, <4>2
    <3>2. CASE f \notin ResolveMember(row.key, src).start
      <4>1. targets = c.memo[row.key].targets
        BY <1>5, <2>1, <3>2
      <4>2. SpecEdges(Index(b), f, row, c)
              = {e \in Ids(Index(b), {row.src}) \X Ids(Index(b), targets) : TRUE}
        BY <1>5, <3>2, <4>1 DEF SpecEdges
      <4>. QED  BY <4>2
    <3>. QED  BY <3>1, <3>2
  <2>3. RowEdges(src, f, row) = {<<row.src, r>> : r \in targets}
    BY <1>5, <2>1 DEF RowEdges
  <2>4. PICK S : S = SpecEdges(Index(b), f, row, c)
    OBVIOUS
  <2>5. S \subseteq Live(b) \X Live(b)
    BY <1>1, <2>2, <2>4
  <2>6. ASSUME NEW i \in Live(b), NEW j \in Live(b)
        PROVE  <<i, j>> \in S <=> LinkRefs(b, RowEdges(src, f, row), i, j)
    <3>1. <<i, j>> \in S <=> b.nodes[i].ref = row.src /\ b.nodes[j].ref \in targets
      BY <1>1, <2>2, <2>4
    <3>. QED  BY <2>3, <3>1 DEF LinkRefs
  <2>. QED  BY <2>4, <2>5, <2>6, EdgesBetween
<1>. QED  BY <1>0, <1>3, <1>4, <1>5

(* So do the structural edges.                                             *)
LEMMA ModulesMatch ==
  ASSUME NEW b, Carries(b), RefsPlaced(b), NEW f \in Present(src)
  PROVE  StructuralEdges(b, f) = Between(b, ModulePairs(src, f))
<1>1. PICK S : S = StructuralEdges(b, f)
  OBVIOUS
<1>2. ParentModule(src, f) \subseteq Present(src)
  BY PayloadsAssumption DEF Carries
<1>3. /\ \A g \in Present(src) : ModuleId(b, g) \in Live(b)
      /\ Block(b, f) \subseteq Live(b)
  BY BlockHolds
<1>4. S \subseteq Live(b) \X Live(b)
  BY <1>1, <1>2, <1>3 DEF StructuralEdges
<1>5. ASSUME NEW i \in Live(b), NEW j \in Live(b)
      PROVE  <<i, j>> \in S <=> LinkRefs(b, ModulePairs(src, f), i, j)
  <2>1. /\ i \in Block(b, f) <=> b.nodes[i].ref \in RefsOf(src, f)
        /\ i = ModuleId(b, f) <=> b.nodes[i].ref = PayloadNodes(src, f)[1].ref
        /\ \A g \in Present(src) : j = ModuleId(b, g) <=> b.nodes[j].ref = PayloadNodes(src, g)[1].ref
    BY SlotOfRef
  <2>2. <<i, j>> \in S <=> \/ i \in Block(b, f) /\ i # ModuleId(b, f) /\ j = ModuleId(b, f)
                           \/ i = ModuleId(b, f) /\ \E g \in ParentModule(src, f) : j = ModuleId(b, g)
    BY <1>1 DEF StructuralEdges
  <2>3. LinkRefs(b, ModulePairs(src, f), i, j)
          <=> \/ /\ b.nodes[i].ref \in RefsOf(src, f) /\ b.nodes[i].ref # PayloadNodes(src, f)[1].ref
                 /\ b.nodes[j].ref = PayloadNodes(src, f)[1].ref
              \/ /\ b.nodes[i].ref = PayloadNodes(src, f)[1].ref
                 /\ \E g \in ParentModule(src, f) : b.nodes[j].ref = PayloadNodes(src, g)[1].ref
    BY DEF LinkRefs, ModulePairs
  <2>. QED  BY <1>2, <2>1, <2>2, <2>3
<1>. QED  BY <1>1, <1>4, <1>5, EdgesBetween

(* So do the edges of a stub to its twin.                                  *)
LEMMA PeersMatch ==
  ASSUME NEW b, Carries(b), RefsPlaced(b), NEW f \in Present(src)
  PROVE  PeerEdges(Index(b), f) = Between(b, PeerPairs(src, f))
<1>1. \A refs : Ids(Index(b), refs) = {i \in Live(b) : b.nodes[i].ref \in refs}
  BY IdsAreSlots
<1>2. PICK S : S = PeerEdges(Index(b), f)
  OBVIOUS
<1>3. S \subseteq Live(b) \X Live(b)
  BY <1>1, <1>2 DEF PeerEdges
<1>4. ASSUME NEW i \in Live(b), NEW j \in Live(b)
      PROVE  <<i, j>> \in S <=> LinkRefs(b, PeerPairs(src, f), i, j)
  <2>1. <<i, j>> \in S
          <=> \E g \in PyTwin(src, f) :
                \E n \in DOMAIN ExportsByName(src, f) \cap DOMAIN ExportsByName(src, g) :
                  i \in Ids(Index(b), ExportsByName(src, f)[n]) /\ j \in Ids(Index(b), ExportsByName(src, g)[n])
    BY <1>2 DEF PeerEdges
  <2>2. LinkRefs(b, PeerPairs(src, f), i, j)
          <=> \E g \in PyTwin(src, f) :
                \E n \in DOMAIN ExportsByName(src, f) \cap DOMAIN ExportsByName(src, g) :
                  b.nodes[i].ref \in ExportsByName(src, f)[n] /\ b.nodes[j].ref \in ExportsByName(src, g)[n]
    BY DEF LinkRefs, PeerPairs
  <2>. QED  BY <1>1, <2>1, <2>2
<1>. QED  BY <1>2, <1>3, <1>4, EdgesBetween

(* So do the edges of the per-file plugins.                                *)
LEMMA OpsMatch ==
  ASSUME NEW b, Carries(b), RefsPlaced(b), NEW f \in Present(src)
  PROVE  PluginEdges(b, f) = Between(b, OpPairs(src, f))
<1> DEFINE P == PayloadNodes(src, f)
           ops == {o \in PerFileOps(src, f).edges : {o[1], o[2]} \subseteq DOMAIN P}
<1>1. PICK S : S = PluginEdges(b, f)
  OBVIOUS
<1>2. \A k \in DOMAIN P : b.blocks[f].base + k \in Live(b)
  BY FileSlotLive
<1>3. S \subseteq Live(b) \X Live(b)
  BY <1>1, <1>2 DEF PluginEdges
<1>4. ASSUME NEW i \in Live(b), NEW j \in Live(b)
      PROVE  <<i, j>> \in S <=> LinkRefs(b, OpPairs(src, f), i, j)
  <2>1. \A k \in DOMAIN P : /\ i = b.blocks[f].base + k <=> b.nodes[i].ref = P[k].ref
                            /\ j = b.blocks[f].base + k <=> b.nodes[j].ref = P[k].ref
    BY SlotOfRef
  <2>2. <<i, j>> \in S <=> \E e \in ops : i = b.blocks[f].base + e[1] /\ j = b.blocks[f].base + e[2]
    BY <1>1 DEF PluginEdges
  <2>3. LinkRefs(b, OpPairs(src, f), i, j)
          <=> \E e \in ops : b.nodes[i].ref = P[e[1]].ref /\ b.nodes[j].ref = P[e[2]].ref
    BY DEF LinkRefs, OpPairs
  <2>4. \A e \in ops : e[1] \in DOMAIN P /\ e[2] \in DOMAIN P
    OBVIOUS
  <2> HIDE DEF ops, P
  <2>. QED  BY <2>1, <2>2, <2>3, <2>4
<1>. QED  BY <1>1, <1>3, <1>4, EdgesBetween

(* A part is the edges the sources give the file.                          *)
LEMMA PartMatches ==
  ASSUME NEW b, Carries(b), RefsPlaced(b), NEW f \in Present(src), NEW c, c.rows[f] = RefSpecs(src, f),
         \A k \in MemberKeys(RefSpecs(src, f)) : c.memo[k] = ResolveMember(k, src)
  PROVE  Part(b, Index(b), f, c) = Between(b, ExpectedEdges(src, f))
<1>1. ASSUME NEW row \in RefSpecs(src, f)
      PROVE  SpecEdges(Index(b), f, row, c) = Between(b, RowEdges(src, f, row))
  <2>1. row.key.role # "local" => row.key \in MemberKeys(RefSpecs(src, f))
    BY PayloadsAssumption DEF Carries
  <2>. QED  BY <2>1, RowsMatch
<1>2. UNION {SpecEdges(Index(b), f, row, c) : row \in c.rows[f]} = Between(b, RowPairs(src, f))
  <2>1. UNION {SpecEdges(Index(b), f, row, c) : row \in c.rows[f]}
          = UNION {Between(b, RowEdges(src, f, row)) : row \in RefSpecs(src, f)}
    BY <1>1
  <2>. QED  BY <2>1 DEF Between, RowPairs
<1>3. Part(b, Index(b), f, c)
        = Between(b, RowPairs(src, f)) \cup Between(b, ModulePairs(src, f))
            \cup Between(b, PeerPairs(src, f)) \cup Between(b, OpPairs(src, f))
  BY <1>2, ModulesMatch, PeersMatch, OpsMatch DEF Part
<1>. QED  BY <1>3, ExpectedIs DEF Between

(* A node as the snapshot has it, without what plugin passes added.        *)
BaseNode(b, i) == [ref |-> b.nodes[i].ref, flags |-> b.baseFlags[i]]

(* Minting keeps the base nodes of the clean files and the anchors, and    *)
(* gives every dirty file its new nodes.                                   *)
LEMMA MintedContents ==
  ASSUME NEW b, SlotsOK(b), FlagsOK(b), NEW dirty, CleanFits(b, dirty), NEW m, m = Minted(b, dirty)
  PROVE  /\ \A i \in Live(b) \ OldSlots(b, dirty) : m.nodes[i] = BaseNode(b, i)
         /\ \A f \in dirty : \A i \in DOMAIN PayloadNodes(src, f) :
              m.nodes[m.blocks[f].base + i] = NewNode(src, f, i)
         /\ \A f \in Present(src) \ dirty : /\ m.blocks[f] = b.blocks[f]
                                            /\ Block(b, f) \subseteq Live(b) \ OldSlots(b, dirty)
<1>1. PICK l \in Nat : l = Len(b.nodes) /\ DOMAIN b.nodes = 1 .. l
  BY DEF SlotsOK, NodesOK, IsSequence
<1>2. PICK new : new = NewNodes(dirty) /\ new \in Seq(NewNodesOf(dirty))
  BY NewNodesPlaced DEF CleanFits
<1>3. PICK k \in Nat : k = Len(new) /\ DOMAIN new = 1 .. k
  BY <1>2
<1>4. /\ \A i \in 1 .. l : m.nodes[i] = IF i \in OldSlots(b, dirty) THEN Blank ELSE Restored(b)[i]
      /\ \A i \in 1 .. k : m.nodes[l + i] = new[i]
  <2>1. \A i \in 1 .. l : m.nodes[i] = IF i \in OldSlots(b, dirty) THEN Blank ELSE Restored(b)[i]
    BY <1>1, <1>2, <1>3, MintedNodes
  <2>2. \A i \in 1 .. k : m.nodes[l + i] = new[i]
    BY <1>1, <1>2, <1>3, MintedNodes
  <2>. QED  BY <2>1, <2>2
<1>5. ASSUME NEW i \in Live(b) \ OldSlots(b, dirty) PROVE m.nodes[i] = BaseNode(b, i)
  <2>1. i \in 1 .. l /\ m.nodes[i] = Restored(b)[i]
    BY <1>1, <1>4 DEF Live
  <2>2. Restored(b)[i] = [b.nodes[i] EXCEPT !.flags = b.baseFlags[i]]
    BY <1>1, <2>1 DEF Restored
  <2>3. PICK n, r, g, h : n = b.nodes[i] /\ r = n.ref /\ g = n.flags /\ h = b.baseFlags[i]
    OBVIOUS
  <2>4. n = [ref |-> r, flags |-> g]
    BY <1>1, <2>1, <2>3 DEF SlotsOK, NodesOK
  <2>5. [n EXCEPT !.flags = h] = [ref |-> r, flags |-> h]
    BY <2>4
  <2>. QED  BY <2>1, <2>2, <2>3, <2>5 DEF BaseNode
<1>6. ASSUME NEW f \in dirty, NEW i \in DOMAIN PayloadNodes(src, f)
      PROVE  m.nodes[m.blocks[f].base + i] = NewNode(src, f, i)
  <2>1. m.blocks[f].base = l + Offset(dirty, f)
    BY <1>1, MintedBlocks
  <2>2. Offset(dirty, f) \in Nat /\ Offset(dirty, f) + i \in 1 .. k /\ new[Offset(dirty, f) + i] = NewNode(src, f, i)
    BY <1>2, <1>3, NewNodesPlaced DEF CleanFits
  <2>3. i \in Nat
    BY PayloadsAssumption DEF CleanFits
  <2>4. m.blocks[f].base + i = l + (Offset(dirty, f) + i)
    BY <2>1, <2>2, <2>3
  <2>. QED  BY <1>4, <2>2, <2>4
<1>7. ASSUME NEW f \in Present(src) \ dirty
      PROVE  m.blocks[f] = b.blocks[f] /\ Block(b, f) \subseteq Live(b) \ OldSlots(b, dirty)
  <2>1. m.blocks[f] = b.blocks[f] /\ Block(b, f) \subseteq Live(b)
    BY <1>1, MintedBlocks
  <2>2. Block(b, f) \cap OldSlots(b, dirty) = {}
    <3> SUFFICES ASSUME NEW g \in dirty PROVE Block(b, f) \cap Block(b, g) = {}
      BY DEF OldSlots
    <3>1. f \in DOMAIN b.blocks /\ f # g
      BY DEF CleanFits
    <3>. QED  BY <3>1 DEF SlotsOK, BlocksOK, Block
  <2>. QED  BY <2>1, <2>2
<1>. QED  BY <1>5, <1>6, <1>7

(* Interning keeps what is in blocks, and leaves exactly the wanted anchors *)
(* alive, each with its node.                                              *)
LEMMA InternedContents ==
  ASSUME NEW b, Carries(b), NEW wanted, AnchorsWanted(wanted), NEW new, new = NewAnchors(b, wanted),
         NEW z, z = Interned(b, wanted, new),
         \A r \in DOMAIN b.externals : b.externals[r] \in Live(b) => b.nodes[b.externals[r]] = AnchorNode(r)
  PROVE  /\ \A i \in BlockSlots(b) : z.nodes[i] = b.nodes[i]
         /\ \A r \in DOMAIN z.externals : z.externals[r] \in Live(z) <=> r \in wanted
         /\ \A r \in wanted : r \in DOMAIN z.externals /\ z.nodes[z.externals[r]] = AnchorNode(r)
<1>0. SlotsOK(b)
  BY DEF Carries
<1>1. PICK l \in Nat : l = Len(b.nodes) /\ DOMAIN b.nodes = 1 .. l
  BY <1>0 DEF SlotsOK, NodesOK, IsSequence
<1>2. PICK k \in Nat : k = Len(new)
  BY NewAnchorsListed
<1>3. /\ z.externals = AnchorIds(b, wanted, new)
      /\ z.tombstoned = (b.tombstoned \ RevivedSlots(b, wanted)) \cup Stale(b, wanted)
  BY <1>0, InternedFields DEF SlotsOK
<1>4. /\ \A i \in 1 .. l : z.nodes[i] = InternedSlot(b, wanted, i)
      /\ \A j \in 1 .. k : z.nodes[l + j] = AnchorNode(new[j])
  BY <1>0, <1>1, <1>2, InternedNodes
<1>5. PICK x : x = z.externals /\ AnchorsAt(b, wanted, new, x, l, k)
  BY <1>0, <1>1, <1>2, <1>3, AnchorsPlaced
<1>6. /\ \A r \in DOMAIN b.externals : b.externals[r] \in 1 .. l
      /\ \A r \in DOMAIN b.externals : \A q \in DOMAIN b.externals : b.externals[q] = b.externals[r] => q = r
  BY <1>0, <1>1 DEF SlotsOK, AnchorsOK
<1>7. \A i \in BlockSlots(b) : i \in Live(b) /\ i \in 1 .. l /\ i \notin AnchorSlots(b)
  BY <1>0, <1>1 DEF SlotsOK, BlocksOK, AnchorsOK, BlockSlots, AnchorSlots, Live
<1>8. ASSUME NEW i \in BlockSlots(b) PROVE z.nodes[i] = b.nodes[i]
  <2>1. ~ \E r \in Revived(b, wanted) : b.externals[r] = i
    BY <1>7 DEF Revived, AnchorSlots
  <2>2. i \notin Stale(b, wanted)
    BY <1>7 DEF Stale, AnchorSlots
  <2>. QED  BY <1>4, <1>7, <2>1, <2>2 DEF InternedSlot
<1>9. ASSUME NEW r \in DOMAIN b.externals \ wanted PROVE x[r] \notin Live(z)
  <2>1. x[r] = b.externals[r]
    BY <1>5 DEF AnchorsAt
  <2>2. CASE b.externals[r] \in b.tombstoned
    <3>1. b.externals[r] \notin RevivedSlots(b, wanted)
      BY <1>6 DEF RevivedSlots, Revived
    <3>. QED  BY <1>3, <2>1, <2>2, <3>1 DEF Live
  <2>3. CASE b.externals[r] \notin b.tombstoned
    BY <1>3, <2>1, <2>3 DEF Stale, Live
  <2>. QED  BY <2>2, <2>3
<1>10. ASSUME NEW r \in wanted PROVE r \in DOMAIN x /\ x[r] \in Live(z)
  BY <1>5, InternedCarries
<1>11. ASSUME NEW r \in wanted PROVE z.nodes[x[r]] = AnchorNode(r)
  <2>1. CASE r \in DOMAIN b.externals
    <3>1. x[r] = b.externals[r] /\ x[r] \in 1 .. l
      BY <1>5, <2>1 DEF AnchorsAt
    <3>2. CASE x[r] \in b.tombstoned
      <4>1. r \in Revived(b, wanted)
        BY <2>1, <3>1, <3>2 DEF Revived
      <4>2. (CHOOSE q \in Revived(b, wanted) : b.externals[q] = x[r]) = r
        BY <1>6, <3>1, <4>1 DEF Revived
      <4>. QED  BY <1>4, <3>1, <4>1, <4>2 DEF InternedSlot, AnchorNode
    <3>3. CASE x[r] \notin b.tombstoned
      <4>1. ~ \E q \in Revived(b, wanted) : b.externals[q] = x[r]
        BY <3>3 DEF Revived
      <4>2. x[r] \notin Stale(b, wanted)
        BY <1>6, <2>1, <3>1 DEF Stale
      <4>3. z.nodes[x[r]] = b.nodes[x[r]]
        BY <1>4, <3>1, <4>1, <4>2 DEF InternedSlot
      <4>4. x[r] \in Live(b)
        BY <1>1, <3>1, <3>3 DEF Live
      <4>. QED  BY <2>1, <3>1, <4>3, <4>4
    <3>. QED  BY <3>2, <3>3
  <2>2. CASE r \notin DOMAIN b.externals
    <3>1. PICK j \in 1 .. k : j = x[r] - l /\ new[j] = r
      BY <1>5, <2>2 DEF AnchorsAt
    <3>2. x[r] = l + j
      BY <1>5, <3>1 DEF AnchorsAt
    <3>. QED  BY <1>4, <3>1, <3>2
  <2>. QED  BY <2>1, <2>2
<1>12. \A r \in DOMAIN x : r \in wanted \/ r \in DOMAIN b.externals \ wanted
  BY <1>5 DEF AnchorsAt
<1>. QED  BY <1>5, <1>8, <1>9, <1>10, <1>11, <1>12

(* What a builder holds is what the sources s say: its base nodes, its     *)
(* anchors and its parts.                                                  *)
TellsNodes(b, s) ==
  \A f \in Present(s) : \A i \in DOMAIN PayloadNodes(s, f) :
    BaseNode(b, b.blocks[f].base + i) = FileNode(s, f, i)

TellsAnchors(b, s) ==
  /\ ExternalsOf(s) \subseteq DOMAIN b.externals
  /\ \A r \in DOMAIN b.externals :
       /\ b.externals[r] \in Live(b) <=> r \in ExternalsOf(s)
       /\ r \in ExternalsOf(s) => BaseNode(b, b.externals[r]) = AnchorNode(r)

TellsParts(b, s) == \A f \in Present(s) : b.parts[f] = Between(b, ExpectedEdges(s, f))

Tells(b, s) == TellsNodes(b, s) /\ TellsAnchors(b, s) /\ TellsParts(b, s)

(* What a clean file does not notice of the edits since s.                 *)
Unchanged(s, f, dirty, redone) ==
  /\ PayloadNodes(s, f) = PayloadNodes(src, f) /\ RefSpecs(s, f) = RefSpecs(src, f)
  /\ ExportsByName(s, f) = ExportsByName(src, f) /\ PerFileOps(s, f) = PerFileOps(src, f)
  /\ PyTwin(s, f) = PyTwin(src, f) /\ ParentModule(s, f) = ParentModule(src, f)
  /\ \A g \in PyTwin(src, f) : g \notin dirty /\ ExportsByName(s, g) = ExportsByName(src, g)
  /\ \A row \in RefSpecs(src, f) :
       row.key.role # "local" /\ row.key \notin redone
         => ResolveMember(row.key, s) = ResolveMember(row.key, src)

OldBuilder(b, s) ==
  /\ s \in Sources /\ Present(s) = Present(src)
  /\ DOMAIN b.blocks = Present(s) /\ Sized(b, s) /\ Tells(b, s)

(* What a build may find: anchors that are what they are for, and, if a    *)
(* file is clean, the builder of sources in which the file was the same.   *)
AnchorsTold(b) ==
  \A r \in DOMAIN b.externals : b.externals[r] \in Live(b) => BaseNode(b, b.externals[r]) = AnchorNode(r)

CleanTold(b, s, dirty, redone) ==
  \A f \in Present(src) \ dirty : OldBuilder(b, s) /\ Unchanged(s, f, dirty, redone)

(* An import, and one that dangles.                                        *)
Imported(s, f, i) == \E row \in Imports(s, f) : row.src = PayloadNodes(s, f)[i].ref
Dangles(s, f, i)  == \E row \in Dangling(s, f) : row.src = PayloadNodes(s, f)[i].ref

(* A node with the stamp taken off, and put on.                            *)
Weathered(s, f, i, p, q) ==
  [ref |-> PayloadNodes(s, f)[i].ref, flags |-> (NewNode(s, f, i).flags \ StampIf(p)) \cup StampIf(q)]

(* A node of a file is the new one, stamped if it dangles.                 *)
LEMMA FileNodeIs ==
  ASSUME NEW s, NEW f, NEW i
  PROVE  /\ FileNode(s, f, i) = Weathered(s, f, i, Imported(s, f, i), Dangles(s, f, i))
         /\ NewNode(s, f, i) = Weathered(s, f, i, FALSE, FALSE)
<1>1. PICK r, g : r = PayloadNodes(s, f)[i].ref /\ g = NewNode(s, f, i).flags
  OBVIOUS
<1>2. NewNode(s, f, i) = [ref |-> r, flags |-> g]
  BY <1>1 DEF NewNode
<1>3. PICK x, y : x = StampIf(Imported(s, f, i)) /\ y = StampIf(Dangles(s, f, i))
  OBVIOUS
<1>4. FileNode(s, f, i) = [NewNode(s, f, i) EXCEPT !.flags = (NewNode(s, f, i).flags \ x) \cup y]
  BY <1>1, <1>2, <1>3 DEF FileNode, Imported, Dangles, StampIf
<1>5. FileNode(s, f, i) = [ref |-> r, flags |-> (g \ x) \cup y]
  BY <1>2, <1>4
<1>6. NewNode(s, f, i) = [ref |-> r, flags |-> (g \ StampIf(FALSE)) \cup StampIf(FALSE)]
  BY <1>2 DEF StampIf
<1>. QED  BY <1>1, <1>3, <1>5, <1>6 DEF Weathered

(* A clean file's new nodes are what they were.                            *)
LEMMA UnchangedNodes ==
  ASSUME NEW s, NEW f, NEW dirty, NEW redone, Unchanged(s, f, dirty, redone), NEW i, NEW p, NEW q
  PROVE  /\ Weathered(s, f, i, p, q) = Weathered(src, f, i, p, q)
         /\ Imported(s, f, i) <=> Imported(src, f, i)
<1>1. NewNode(s, f, i) = NewNode(src, f, i)
  <2>1. \A n : StubOnly(s, f, n) <=> StubOnly(src, f, n)
    BY DEF Unchanged, StubOnly
  <2>. QED  BY <2>1 DEF Unchanged, NewNode
<1>. QED  BY <1>1 DEF Weathered, Unchanged, Imported, Imports

(* What stages 1 and 2 make of the builder: the slots hold what they are   *)
(* for, a clean file what it held before.                                  *)
SizedFrom(b, s, dirty, z) ==
  /\ Carries(z) /\ RefsPlaced(z)
  /\ \A f \in dirty : \A i \in DOMAIN PayloadNodes(src, f) :
       z.nodes[z.blocks[f].base + i] = Weathered(src, f, i, FALSE, FALSE)
  /\ \A f \in Present(src) \ dirty :
       /\ z.blocks[f] = b.blocks[f]
       /\ \A i \in DOMAIN PayloadNodes(src, f) :
            z.nodes[z.blocks[f].base + i] = Weathered(src, f, i, Imported(src, f, i), Dangles(s, f, i))
  /\ \A r \in DOMAIN z.externals : z.externals[r] \in Live(z) <=> r \in ExternalsOf(src)
  /\ \A r \in ExternalsOf(src) : r \in DOMAIN z.externals /\ z.nodes[z.externals[r]] = AnchorNode(r)
  /\ \A r \in DOMAIN b.externals : r \in DOMAIN z.externals /\ z.externals[r] = b.externals[r]

(* Minting and interning give just that.                                   *)
LEMMA SizedContents ==
  ASSUME NEW b, SlotsOK(b), FlagsOK(b), NEW dirty, CleanFits(b, dirty), NEW c, Resolves(c),
         NEW m, m = Minted(b, dirty), NEW new, new = NewAnchors(m, LiveExternals(c)),
         NEW z, z = Interned(m, LiveExternals(c), new),
         NEW s, NEW redone, AnchorsTold(b), CleanTold(b, s, dirty, redone)
  PROVE  SizedFrom(b, s, dirty, z)
<1>0. src \in Sources /\ dirty \subseteq Present(src)
  BY DEF CleanFits
<1>1. PICK wanted : wanted = LiveExternals(c) /\ wanted = ExternalsOf(src) /\ AnchorsWanted(wanted)
  <2>1. LiveExternals(c) = ExternalsOf(src)
    BY DEF LiveExternals, ExternalsOf, Resolves
  <2>. QED  BY <1>0, <2>1, WantedAnchors
<1>2. /\ Carries(m) /\ m.externals = b.externals
      /\ m.tombstoned = b.tombstoned \cup OldSlots(b, dirty)
  BY MintedCarries
<1>3. /\ \A i \in Live(b) \ OldSlots(b, dirty) : m.nodes[i] = BaseNode(b, i)
      /\ \A f \in dirty : \A i \in DOMAIN PayloadNodes(src, f) : m.nodes[m.blocks[f].base + i] = NewNode(src, f, i)
      /\ \A f \in Present(src) \ dirty : /\ m.blocks[f] = b.blocks[f]
                                         /\ Block(b, f) \subseteq Live(b) \ OldSlots(b, dirty)
  BY MintedContents
<1>4. \A r \in DOMAIN m.externals : m.externals[r] \in Live(m) => m.nodes[m.externals[r]] = AnchorNode(r)
  <2> SUFFICES ASSUME NEW r \in DOMAIN b.externals, b.externals[r] \in Live(m)
               PROVE  m.nodes[b.externals[r]] = AnchorNode(r)
    BY <1>2
  <2>1. b.externals[r] \in Live(b) \ OldSlots(b, dirty)
    BY <1>2 DEF Live, SlotsOK, AnchorsOK
  <2>2. BaseNode(b, b.externals[r]) = AnchorNode(r)
    BY <2>1 DEF AnchorsTold
  <2>. QED  BY <1>3, <2>1, <2>2
<1>5. /\ Carries(z) /\ z.blocks = m.blocks
      /\ \A r \in DOMAIN m.externals : r \in DOMAIN z.externals /\ z.externals[r] = m.externals[r]
  BY <1>1, <1>2, InternedCarries
<1>6. /\ \A i \in BlockSlots(m) : z.nodes[i] = m.nodes[i]
      /\ \A r \in DOMAIN z.externals : z.externals[r] \in Live(z) <=> r \in wanted
      /\ \A r \in wanted : r \in DOMAIN z.externals /\ z.nodes[z.externals[r]] = AnchorNode(r)
  BY <1>1, <1>2, <1>4, InternedContents
<1>7. ASSUME NEW f \in Present(src), NEW i \in DOMAIN PayloadNodes(src, f)
      PROVE  z.nodes[z.blocks[f].base + i] = m.nodes[m.blocks[f].base + i]
  BY <1>2, <1>5, <1>6, BlockHolds
<1>8. ASSUME NEW f \in dirty, NEW i \in DOMAIN PayloadNodes(src, f)
      PROVE  z.nodes[z.blocks[f].base + i] = Weathered(src, f, i, FALSE, FALSE)
  <2>1. m.nodes[m.blocks[f].base + i] = NewNode(src, f, i)
    BY <1>3
  <2>2. f \in Present(src)
    BY <1>0
  <2>3. z.nodes[z.blocks[f].base + i] = NewNode(src, f, i)
    BY <1>7, <2>1, <2>2
  <2>4. NewNode(src, f, i) = Weathered(src, f, i, FALSE, FALSE)
    BY FileNodeIs
  <2>. QED  BY <2>3, <2>4
<1>9. ASSUME NEW f \in Present(src) \ dirty, NEW i \in DOMAIN PayloadNodes(src, f)
      PROVE  z.nodes[z.blocks[f].base + i] = Weathered(src, f, i, Imported(src, f, i), Dangles(s, f, i))
  <2>1. OldBuilder(b, s) /\ Unchanged(s, f, dirty, redone)
    BY DEF CleanTold
  <2>2. m.blocks[f].base = b.blocks[f].base /\ Block(m, f) = Block(b, f)
    BY <1>2, <1>3, <2>1 DEF Block, OldBuilder, Carries
  <2>3. b.blocks[f].base + i \in Live(b) \ OldSlots(b, dirty)
    BY <1>2, <1>3, <2>2, BlockHolds
  <2>4. BaseNode(b, b.blocks[f].base + i) = FileNode(s, f, i)
    BY <2>1 DEF OldBuilder, Tells, TellsNodes, Unchanged
  <2>5. FileNode(s, f, i) = Weathered(src, f, i, Imported(s, f, i), Dangles(s, f, i))
    <3>1. PICK p, q : p = Imported(s, f, i) /\ q = Dangles(s, f, i)
      OBVIOUS
    <3>2. FileNode(s, f, i) = Weathered(s, f, i, p, q)
      BY <3>1, FileNodeIs
    <3>3. Weathered(s, f, i, p, q) = Weathered(src, f, i, p, q)
      BY <2>1, UnchangedNodes
    <3>. QED  BY <3>1, <3>2, <3>3
  <2>6. Imported(s, f, i) = Imported(src, f, i)
    BY <2>1, UnchangedNodes DEF Imported
  <2>. QED  BY <1>3, <1>7, <2>2, <2>3, <2>4, <2>5, <2>6
<1>10. RefsPlaced(z)
  <2>1. ASSUME NEW f \in Present(src), NEW i \in DOMAIN PayloadNodes(src, f)
        PROVE  z.nodes[z.blocks[f].base + i].ref = PayloadNodes(src, f)[i].ref
    <3>1. PICK p, q : z.nodes[z.blocks[f].base + i] = Weathered(src, f, i, p, q)
      <4>1. CASE f \in dirty
        BY <1>8, <4>1
      <4>2. CASE f \notin dirty
        BY <1>9, <4>2
      <4>. QED  BY <4>1, <4>2
    <3>. QED  BY <3>1 DEF Weathered
  <2>2. ASSUME NEW r \in DOMAIN z.externals, z.externals[r] \in Live(z)
        PROVE  z.nodes[z.externals[r]].ref = r
    <3>1. z.nodes[z.externals[r]] = AnchorNode(r)
      BY <1>6, <2>2
    <3>. QED  BY <3>1 DEF AnchorNode
  <2>. QED  BY <2>1, <2>2 DEF RefsPlaced
<1>. QED  BY <1>1, <1>2, <1>3, <1>5, <1>6, <1>8, <1>9, <1>10 DEF SizedFrom

(* A node of some file.                                                    *)
NodeOf(s, r) == \E g \in Present(s) : r \in RefsOf(s, g)

(* The ends of an edge of a file.                                          *)
Leaves(f, r) == r.file = f /\ r.node # "external"

Reaches(s, f, r) ==
  \/ r.node = "external" /\ r \in ExternalsOf(s)
  \/ r.node # "external" /\ (r.file = f \/ r.file \in PyTwin(s, f) \/ NodeOf(s, r))

(* A row leads from its file to a node, or to an external anchor that is   *)
(* wanted.                                                                 *)
LEMMA RowEnds ==
  ASSUME NEW s \in Sources, NEW f \in Present(s), NEW row \in RefSpecs(s, f), NEW e \in RowEdges(s, f, row)
  PROVE  e = <<e[1], e[2]>> /\ Leaves(f, e[1]) /\ Reaches(s, f, e[2])
<1>1. /\ row.key.role \in {"local", "use", "binding"}
      /\ Leaves(f, row.src)
      /\ row.key.role = "local" => row.dst.file = f /\ row.dst.node # "external"
      /\ row.key.role # "local" => row.key \in MemberKeys(RefSpecs(s, f))
  BY PayloadsAssumption DEF Leaves
<1>2. CASE row.key.role = "local"
  <2>1. e = <<row.src, row.dst>>
    BY <1>2 DEF RowEdges
  <2>. QED  BY <1>1, <1>2, <2>1 DEF Reaches
<1>3. CASE row.key.role # "local"
  <2>1. PICK r \in ResolveMember(row.key, s).targets : e = <<row.src, r>>
    <3>1. CASE row.key.role = "use"
      BY <3>1 DEF RowEdges
    <3>2. CASE row.key.role = "binding"
      <4>1. RowEdges(s, f, row)
              = {<<row.src, r>> : r \in IF f \in ResolveMember(row.key, s).start THEN {}
                                        ELSE ResolveMember(row.key, s).targets}
        BY <3>2 DEF RowEdges
      <4>2. PICK r \in IF f \in ResolveMember(row.key, s).start THEN {} ELSE ResolveMember(row.key, s).targets :
              e = <<row.src, r>>
        BY <4>1
      <4>. QED  BY <4>2
    <3>. QED  BY <1>1, <1>3, <3>1, <3>2
  <2>2. row.key \in LiveKeys(s)
    BY <1>1, <1>3 DEF LiveKeys
  <2>3. CASE r.node = "external"
    BY <1>1, <2>1, <2>2, <2>3 DEF Reaches, ExternalsOf
  <2>4. CASE r.node # "external"
    <3>1. NodeOf(s, r)
      BY <2>2, <2>4, AnswersAreNodes DEF NodeOf, RefsOf
    <3>. QED  BY <1>1, <2>1, <2>4, <3>1 DEF Reaches
  <2>. QED  BY <2>3, <2>4
<1>. QED  BY <1>2, <1>3

(* So do all the edges of a file.                                          *)
LEMMA ExpectedEnds ==
  ASSUME NEW s \in Sources, NEW f \in Present(s), NEW e \in ExpectedEdges(s, f)
  PROVE  e = <<e[1], e[2]>> /\ Leaves(f, e[1]) /\ Reaches(s, f, e[2])
<1>1. \A g \in Present(s) : /\ \A r \in RefsOf(s, g) : Leaves(g, r) /\ Reaches(s, g, r) /\ NodeOf(s, r)
                            /\ PayloadNodes(s, g)[1].ref \in RefsOf(s, g)
  <2> SUFFICES ASSUME NEW g \in Present(s)
               PROVE  /\ \A r \in RefsOf(s, g) : Leaves(g, r) /\ Reaches(s, g, r) /\ NodeOf(s, r)
                      /\ PayloadNodes(s, g)[1].ref \in RefsOf(s, g)
    OBVIOUS
  <2>1. \A r \in RefsOf(s, g) : r.file = g /\ r.node # "external"
    BY PayloadsAssumption DEF RefsOf
  <2>2. 1 \in DOMAIN PayloadNodes(s, g)
    BY PayloadsAssumption
  <2>. QED  BY <2>1, <2>2 DEF Leaves, Reaches, NodeOf, RefsOf
<1>2. CASE e \in RowPairs(s, f)
  <2>1. PICK row \in RefSpecs(s, f) : e \in RowEdges(s, f, row)
    BY <1>2 DEF RowPairs
  <2>. QED  BY <2>1, RowEnds
<1>3. CASE e \in ModulePairs(s, f)
  <2>1. CASE e \in (RefsOf(s, f) \ {PayloadNodes(s, f)[1].ref}) \X {PayloadNodes(s, f)[1].ref}
    <3>1. e = <<e[1], e[2]>> /\ e[1] \in RefsOf(s, f) /\ e[2] \in RefsOf(s, f)
      BY <1>1, <2>1
    <3>. QED  BY <1>1, <3>1
  <2>2. CASE e \in {<<PayloadNodes(s, f)[1].ref, PayloadNodes(s, g)[1].ref>> : g \in ParentModule(s, f)}
    <3>1. PICK g \in ParentModule(s, f) : e = <<PayloadNodes(s, f)[1].ref, PayloadNodes(s, g)[1].ref>>
      BY <2>2
    <3>2. g \in Present(s)
      BY PayloadsAssumption
    <3>3. e = <<e[1], e[2]>> /\ e[1] \in RefsOf(s, f) /\ e[2] \in RefsOf(s, g)
      BY <1>1, <3>1, <3>2
    <3>4. Leaves(f, e[1]) /\ Leaves(g, e[2]) /\ NodeOf(s, e[2])
      BY <1>1, <3>2, <3>3
    <3>. QED  BY <3>3, <3>4 DEF Leaves, Reaches
  <2>. QED  BY <1>3, <2>1, <2>2 DEF ModulePairs
<1>4. CASE e \in PeerPairs(s, f)
  <2>1. PICK g \in PyTwin(s, f) :
          \E n \in DOMAIN ExportsByName(s, f) \cap DOMAIN ExportsByName(s, g) :
            e \in ExportsByName(s, f)[n] \X ExportsByName(s, g)[n]
    BY <1>4 DEF PeerPairs
  <2>2. PICK n \in DOMAIN ExportsByName(s, f) \cap DOMAIN ExportsByName(s, g) :
          e \in ExportsByName(s, f)[n] \X ExportsByName(s, g)[n]
    BY <2>1
  <2>3. g \in Present(s)
    BY TwinsPresent
  <2>4. e = <<e[1], e[2]>> /\ e[1] \in ExportsByName(s, f)[n] /\ e[2] \in ExportsByName(s, g)[n]
    BY <2>2
  <2>5. Leaves(f, e[1]) /\ Leaves(g, e[2])
    BY <2>2, <2>3, <2>4, PayloadsAssumption DEF Leaves
  <2>. QED  BY <2>4, <2>5 DEF Leaves, Reaches
<1>5. CASE e \in OpPairs(s, f)
  <2>1. PICK i, j : /\ i \in DOMAIN PayloadNodes(s, f) /\ j \in DOMAIN PayloadNodes(s, f)
                    /\ e = <<PayloadNodes(s, f)[i].ref, PayloadNodes(s, f)[j].ref>>
    BY <1>5 DEF OpPairs
  <2>2. e = <<e[1], e[2]>> /\ e[1] \in RefsOf(s, f) /\ e[2] \in RefsOf(s, f)
    BY <2>1 DEF RefsOf
  <2>. QED  BY <1>1, <2>2
<1>. QED  BY <1>2, <1>3, <1>4, <1>5, ExpectedIs

(* The edges of a clean file are what they were, if its answers and its    *)
(* parent are.                                                             *)
LEMMA UnchangedEdges ==
  ASSUME NEW s \in Sources, NEW f \in Present(s), src \in Sources, Present(s) = Present(src),
         NEW dirty, NEW redone, Unchanged(s, f, dirty, redone),
         MemberKeys(RefSpecs(src, f)) \cap redone = {},
         \A g \in ParentModule(src, f) : PayloadNodes(s, g) = PayloadNodes(src, g)
  PROVE  ExpectedEdges(s, f) = ExpectedEdges(src, f)
<1>1. RowPairs(s, f) = RowPairs(src, f)
  <2>1. RefSpecs(s, f) = RefSpecs(src, f)
    BY DEF Unchanged
  <2>2. ASSUME NEW row \in RefSpecs(src, f) PROVE RowEdges(s, f, row) = RowEdges(src, f, row)
    <3>1. row.key.role # "local" => ResolveMember(row.key, s) = ResolveMember(row.key, src)
      BY PayloadsAssumption DEF Unchanged
    <3>2. row.key.role \in {"local", "use", "binding"}
      BY PayloadsAssumption
    <3>3. CASE row.key.role = "local"
      BY <3>3 DEF RowEdges
    <3>4. CASE row.key.role # "local"
      <4>1. PICK a : a = ResolveMember(row.key, s) /\ a = ResolveMember(row.key, src)
        BY <3>1, <3>4
      <4>. QED  BY <4>1 DEF RowEdges
    <3>. QED  BY <3>3, <3>4
  <2>. QED  BY <2>1, <2>2 DEF RowPairs
<1>2. ModulePairs(s, f) = ModulePairs(src, f)
  BY DEF Unchanged, ModulePairs, RefsOf
<1>3. PeerPairs(s, f) = PeerPairs(src, f)
  BY DEF Unchanged, PeerPairs
<1>4. OpPairs(s, f) = OpPairs(src, f)
  BY DEF Unchanged, OpPairs
<1>. QED  BY <1>1, <1>2, <1>3, <1>4, ExpectedIs

(* The carried builder has a live slot for every node there was.           *)
LEMMA OldSlotHolds ==
  ASSUME NEW b, SlotsOK(b), NEW s, OldBuilder(b, s), NEW g \in Present(s), NEW k \in DOMAIN PayloadNodes(s, g)
  PROVE  /\ b.blocks[g].base + k \in Block(b, g) /\ b.blocks[g].base + k \in Live(b)
         /\ b.nodes[b.blocks[g].base + k].ref = PayloadNodes(s, g)[k].ref
<1>1. PICK base \in Nat, len \in Nat :
        base = b.blocks[g].base /\ len = b.blocks[g].len /\ DOMAIN PayloadNodes(s, g) = 1 .. len
  BY PayloadsAssumption DEF OldBuilder, SlotsOK, BlocksOK, Sized
<1>2. Block(b, g) = (base + 1) .. (base + len) /\ Block(b, g) \subseteq Live(b)
  BY <1>1 DEF Block, OldBuilder, SlotsOK, BlocksOK
<1>3. base + k \in Block(b, g)
  BY <1>1, <1>2
<1>4. BaseNode(b, base + k) = FileNode(s, g, k)
  BY <1>1 DEF OldBuilder, Tells, TellsNodes
<1>5. FileNode(s, g, k).ref = PayloadNodes(s, g)[k].ref
  <2>1. PICK p, q : p = Imported(s, g, k) /\ q = Dangles(s, g, k)
    OBVIOUS
  <2>2. FileNode(s, g, k) = Weathered(s, g, k, p, q)
    BY <2>1, FileNodeIs
  <2>. QED  BY <2>2 DEF Weathered
<1>6. BaseNode(b, base + k).ref = b.nodes[base + k].ref
  BY DEF BaseNode
<1>. QED  BY <1>1, <1>2, <1>3, <1>4, <1>5, <1>6

(* A part that is not translated again is what translating it would give:  *)
(* its edges still say what they said, and there are no new ones, as every *)
(* node it could reach had its slot before.                                *)
LEMMA KeptMatches ==
  ASSUME NEW b, SlotsOK(b), NEW dirty, CleanFits(b, dirty), NEW c, Resolves(c), DOMAIN b.parts = DOMAIN b.blocks,
         NEW s, NEW redone, CleanTold(b, s, dirty, redone), NEW z, SizedFrom(b, s, dirty, z),
         \A j \in Live(b) : z.nodes[j].ref \in {b.nodes[j].ref, Absent},
         NEW f \in Present(src), f \notin Retranslated(b, dirty, redone, c),
         \A e \in b.parts[f] : GoodEdge(z, f, e)
  PROVE  b.parts[f] = Between(z, ExpectedEdges(src, f))
<1>0. src \in Sources /\ dirty \subseteq Present(src) /\ Carries(z) /\ RefsPlaced(z)
  BY DEF CleanFits, SizedFrom
<1>1. f \notin dirty /\ MemberKeys(RefSpecs(src, f)) \cap redone = {}
  <2>1. c.rows[f] = RefSpecs(src, f)
    BY DEF Resolves
  <2>. QED  BY <2>1 DEF Retranslated
<1>2. OldBuilder(b, s) /\ \A g \in Present(src) \ dirty : Unchanged(s, g, dirty, redone)
  BY <1>1 DEF CleanTold
<1>3. s \in Sources /\ Present(s) = Present(src) /\ b.parts[f] = Between(b, ExpectedEdges(s, f))
  BY <1>2 DEF OldBuilder, Tells, TellsParts
<1>4. ASSUME NEW i \in Live(b), NEW j \in Live(b), LinkRefs(b, ExpectedEdges(s, f), i, j),
             NEW g \in dirty, j \in Block(b, g)
      PROVE  FALSE
  <2>1. <<i, j>> \in b.parts[f]
    BY <1>3, <1>4 DEF Between, LinkRefs
  <2>2. f \in DOMAIN b.parts
    BY <1>2, <1>3 DEF OldBuilder
  <2>3. j \in UNION {Block(b, h) : h \in dirty}
    BY <1>4
  <2>. QED  BY <2>1, <2>2, <2>3 DEF Retranslated
<1>5. ASSUME NEW g \in Present(src) \ dirty, NEW j \in Live(z), z.nodes[j].ref \in RefsOf(src, g)
      PROVE  j \in Live(b) /\ b.nodes[j].ref = z.nodes[j].ref
  <2>1. PICK k \in DOMAIN PayloadNodes(src, g) : z.nodes[j].ref = PayloadNodes(src, g)[k].ref
    BY <1>5 DEF RefsOf
  <2>2. j = z.blocks[g].base + k
    BY <1>0, <2>1, SlotOfRef
  <2>3. j = b.blocks[g].base + k
    BY <2>2 DEF SizedFrom
  <2>4. PayloadNodes(s, g) = PayloadNodes(src, g)
    BY <1>2 DEF Unchanged
  <2>. QED  BY <1>2, <1>3, <2>1, <2>3, <2>4, OldSlotHolds
<1>6. ExpectedEdges(s, f) = ExpectedEdges(src, f)
  <2>1. ASSUME NEW g \in ParentModule(src, f) PROVE PayloadNodes(s, g) = PayloadNodes(src, g)
    <3>1. g \in Present(s) /\ g \in ParentModule(s, f)
      BY <1>0, <1>1, <1>2, <1>3, PayloadsAssumption DEF Unchanged
    <3>2. 1 \in DOMAIN PayloadNodes(s, f) /\ 1 \in DOMAIN PayloadNodes(s, g)
      BY <1>3, <3>1, PayloadsAssumption
    <3>3. PICK i \in Live(b) : b.nodes[i].ref = PayloadNodes(s, f)[1].ref
      BY <1>2, <1>3, <3>2, OldSlotHolds
    <3>4. PICK j \in Live(b) : j \in Block(b, g) /\ b.nodes[j].ref = PayloadNodes(s, g)[1].ref
      BY <1>2, <1>3, <3>1, <3>2, OldSlotHolds
    <3>5. LinkRefs(b, ExpectedEdges(s, f), i, j)
      <4>1. <<b.nodes[i].ref, b.nodes[j].ref>> \in ModulePairs(s, f)
        BY <3>1, <3>3, <3>4 DEF ModulePairs
      <4>. QED  BY <4>1, ExpectedIs DEF LinkRefs
    <3>6. g \notin dirty
      BY <1>4, <3>4, <3>5
    <3>. QED  BY <1>2, <1>3, <3>1, <3>6 DEF Unchanged
  <2>. QED  BY <1>0, <1>1, <1>2, <1>3, <2>1, UnchangedEdges
<1>7. ASSUME NEW i \in Live(b), NEW j \in Live(b), <<i, j>> \in b.parts[f]
      PROVE  i \in Live(z) /\ j \in Live(z) /\ LinkRefs(z, ExpectedEdges(src, f), i, j)
  <2>1. i \in Block(z, f) /\ j \in Live(z)
    BY <1>7 DEF GoodEdge
  <2>2. i \in Live(z)
    BY <1>0, <2>1, BlockHolds
  <2>3. \A k \in Live(z) : z.nodes[k].ref # Absent
    BY <1>0 DEF Carries, SlotsOK, NodesOK, Live
  <2>4. z.nodes[i].ref = b.nodes[i].ref /\ z.nodes[j].ref = b.nodes[j].ref
    BY <2>1, <2>2, <2>3
  <2>5. LinkRefs(b, ExpectedEdges(s, f), i, j)
    BY <1>3, <1>7 DEF Between, LinkRefs
  <2>. QED  BY <1>6, <2>1, <2>2, <2>4, <2>5 DEF LinkRefs
<1>8. ASSUME NEW i \in Live(z), NEW j \in Live(z), LinkRefs(z, ExpectedEdges(src, f), i, j)
      PROVE  <<i, j>> \in b.parts[f]
  <2>1. PICK r, q : r = z.nodes[i].ref /\ q = z.nodes[j].ref /\ <<r, q>> \in ExpectedEdges(s, f)
    BY <1>6, <1>8 DEF LinkRefs
  <2>2. Leaves(f, r) /\ Reaches(s, f, q)
    <3>1. PICK e \in ExpectedEdges(s, f) : e = <<r, q>>
      BY <2>1
    <3>2. Leaves(f, e[1]) /\ Reaches(s, f, e[2])
      BY <1>3, ExpectedEnds
    <3>. QED  BY <3>1, <3>2
  <2>3. ASSUME NEW k \in Live(z), z.nodes[k].ref.node # "external"
        PROVE  \E g \in Present(src) : z.nodes[k].ref \in RefsOf(src, g) /\ z.nodes[k].ref.file = g
    <3>1. PICK g \in Present(src) : \E h \in DOMAIN PayloadNodes(src, g) : FileSlot(z, g, h, k)
      BY <1>0, <2>3, LiveSlot
    <3>2. PICK h \in DOMAIN PayloadNodes(src, g) : FileSlot(z, g, h, k)
      BY <3>1
    <3>3. z.nodes[k].ref = PayloadNodes(src, g)[h].ref /\ PayloadNodes(src, g)[h].ref.file = g
      BY <1>0, <3>2, FileSlotLive DEF FileSlot
    <3>. QED  BY <3>3 DEF RefsOf
  <2>4. i \in Live(b) /\ b.nodes[i].ref = r
    <3>1. r \in RefsOf(src, f)
      BY <2>1, <2>2, <2>3 DEF Leaves
    <3>. QED  BY <1>1, <1>5, <2>1, <3>1
  <2>5. j \in Live(b) /\ b.nodes[j].ref = q
    <3>1. CASE q.node = "external"
      <4>1. q \in ExternalsOf(s)
        BY <2>2, <3>1 DEF Reaches
      <4>2. z.externals[q] = j
        <5>1. ASSUME NEW g \in Present(src), NEW h \in DOMAIN PayloadNodes(src, g), FileSlot(z, g, h, j)
              PROVE  FALSE
          BY <1>0, <2>1, <3>1, <5>1, FileSlotLive DEF FileSlot
        <5>. QED  BY <1>0, <2>1, <5>1, LiveSlot
      <4>3. /\ q \in DOMAIN b.externals /\ b.externals[q] \in Live(b)
            /\ BaseNode(b, b.externals[q]) = AnchorNode(q)
        BY <1>2, <4>1 DEF OldBuilder, Tells, TellsAnchors
      <4>4. j = b.externals[q]
        BY <4>2, <4>3 DEF SizedFrom
      <4>. QED  BY <4>3, <4>4 DEF BaseNode, AnchorNode
    <3>2. CASE q.node # "external"
      <4>1. PICK g \in Present(src) : q \in RefsOf(src, g) /\ q.file = g
        BY <2>1, <2>3, <3>2
      <4>2. g \notin dirty
        <5>1. CASE NodeOf(s, q)
          <6>1. PICK h \in Present(s) : q \in RefsOf(s, h)
            BY <5>1 DEF NodeOf
          <6>2. PICK k \in DOMAIN PayloadNodes(s, h) : q = PayloadNodes(s, h)[k].ref
            BY <6>1 DEF RefsOf
          <6>3. h = g
            BY <1>3, <4>1, <6>2, PayloadsAssumption
          <6>4. PICK l \in Live(b) : l \in Block(b, g) /\ b.nodes[l].ref = q
            BY <1>2, <1>3, <6>2, <6>3, OldSlotHolds
          <6>. QED  BY <1>4, <2>1, <2>4, <6>4 DEF LinkRefs
        <5>2. CASE q.file = f
          BY <1>1, <4>1, <5>2
        <5>3. CASE q.file \in PyTwin(s, f)
          BY <1>1, <1>2, <4>1, <5>3 DEF Unchanged
        <5>. QED  BY <2>2, <3>2, <5>1, <5>2, <5>3 DEF Reaches
      <4>. QED  BY <1>5, <2>1, <4>1, <4>2
    <3>. QED  BY <3>1, <3>2
  <2>6. LinkRefs(b, ExpectedEdges(s, f), i, j)
    BY <2>1, <2>4, <2>5 DEF LinkRefs
  <2>. QED  BY <1>3, <2>4, <2>5, <2>6 DEF Between, LinkRefs
<1>9. b.parts[f] \subseteq Live(b) \X Live(b)
  BY <1>3 DEF Between
<1>10. b.parts[f] \subseteq Live(z) \X Live(z)
  BY <1>7, <1>9
<1>11. \A i, j \in Live(z) : <<i, j>> \in b.parts[f] <=> LinkRefs(z, ExpectedEdges(src, f), i, j)
  BY <1>7, <1>8, <1>9
<1>. QED  BY <1>10, <1>11, EdgesBetween

(* An import that does not dangle.                                         *)
Settles(s, f, i) ==
  \E row \in Imports(s, f) :
    row.src = PayloadNodes(s, f)[i].ref /\ ~ResolveMember(row.key, s).unresolved

(* A clean file's imports dangle as they did, if none was resolved again.  *)
LEMMA UnchangedStamps ==
  ASSUME src \in Sources, NEW f \in Present(src), NEW s, NEW dirty, NEW redone, Unchanged(s, f, dirty, redone), NEW i
  PROVE  /\ Dangles(s, f, i) => Imported(src, f, i)
         /\ MemberKeys(RefSpecs(src, f)) \cap redone = {} => (Dangles(s, f, i) <=> Dangles(src, f, i))
<1>1. RefSpecs(s, f) = RefSpecs(src, f) /\ PayloadNodes(s, f) = PayloadNodes(src, f)
  BY DEF Unchanged
<1>2. Imports(s, f) = Imports(src, f)
  BY <1>1 DEF Imports
<1>3. Dangles(s, f, i) => Imported(src, f, i)
  BY <1>1, <1>2 DEF Dangles, Dangling, Imported
<1>4. ASSUME MemberKeys(RefSpecs(src, f)) \cap redone = {}
      PROVE  Dangles(s, f, i) <=> Dangles(src, f, i)
  <2>1. \A row \in Imports(src, f) : ResolveMember(row.key, s) = ResolveMember(row.key, src)
    BY <1>4, PayloadsAssumption DEF Unchanged, Imports
  <2>2. Dangling(s, f) = Dangling(src, f)
    BY <1>2, <2>1 DEF Dangling
  <2>. QED  BY <1>1, <2>2 DEF Dangles
<1>. QED  BY <1>3, <1>4

(* Which slots the stamping touches.                                       *)
LEMMA StampedSlots ==
  ASSUME NEW z, Carries(z), RefsPlaced(z), NEW c, Resolves(c), NEW files, files \subseteq Present(src),
         NEW i \in Live(z)
  PROVE  /\ \A f \in Present(src) : \A k \in DOMAIN PayloadNodes(src, f) :
              i = z.blocks[f].base + k =>
                /\ i \in GoodSlots(Index(z), files, c) <=> f \in files /\ Settles(src, f, k)
                /\ i \in BadSlots(Index(z), files, c) <=> f \in files /\ Dangles(src, f, k)
         /\ z.nodes[i].ref.node = "external" =>
              i \notin GoodSlots(Index(z), files, c) /\ i \notin BadSlots(Index(z), files, c)
<1>0. src \in Sources
  BY DEF Carries
<1>1. \A refs : Ids(Index(z), refs) = {j \in Live(z) : z.nodes[j].ref \in refs}
  BY IdsAreSlots
<1>2. ASSUME NEW f \in files
      PROVE  /\ {row \in c.rows[f] : row.key.role = "binding"} = Imports(src, f)
             /\ \A row \in Imports(src, f) : /\ c.memo[row.key] = ResolveMember(row.key, src)
                                             /\ row.src.file = f /\ row.src.node # "external"
  <2>1. c.rows[f] = RefSpecs(src, f)
    BY DEF Resolves
  <2>2. ASSUME NEW row \in Imports(src, f)
        PROVE  c.memo[row.key] = ResolveMember(row.key, src) /\ row.src.file = f /\ row.src.node # "external"
    <3>1. row \in RefSpecs(src, f) /\ row.key.role = "binding"
      BY DEF Imports
    <3>2. row.key \in LiveKeys(src)
      BY <1>0, <3>1, PayloadsAssumption DEF LiveKeys
    <3>. QED  BY <1>0, <3>1, <3>2, PayloadsAssumption DEF Resolves
  <2>. QED  BY <2>1, <2>2 DEF Imports
<1>3. i \in GoodSlots(Index(z), files, c)
        <=> \E f \in files : \E row \in Imports(src, f) :
              z.nodes[i].ref = row.src /\ ~ResolveMember(row.key, src).unresolved
  <2>1. ASSUME NEW row \in ImportRows(files, c)
        PROVE  /\ i \in Ids(Index(z), {row.src}) <=> z.nodes[i].ref = row.src
               /\ c.memo[row.key] = ResolveMember(row.key, src)
               /\ \E f \in files : row \in Imports(src, f)
    BY <1>1, <1>2 DEF ImportRows
  <2>2. ASSUME i \in GoodSlots(Index(z), files, c)
        PROVE  \E f \in files : \E row \in Imports(src, f) :
                 z.nodes[i].ref = row.src /\ ~ResolveMember(row.key, src).unresolved
    <3>1. PICK row \in ImportRows(files, c) : i \in Ids(Index(z), {row.src}) /\ ~c.memo[row.key].unresolved
      BY <2>2 DEF GoodSlots
    <3>2. z.nodes[i].ref = row.src /\ ~ResolveMember(row.key, src).unresolved
      BY <2>1, <3>1
    <3>. QED  BY <2>1, <3>2
  <2>3. ASSUME NEW f \in files, NEW row \in Imports(src, f),
               z.nodes[i].ref = row.src, ~ResolveMember(row.key, src).unresolved
        PROVE  i \in GoodSlots(Index(z), files, c)
    <3>1. row \in ImportRows(files, c)
      BY <1>2 DEF ImportRows
    <3>2. i \in Ids(Index(z), {row.src}) /\ ~c.memo[row.key].unresolved
      BY <2>1, <2>3, <3>1
    <3>. QED  BY <3>1, <3>2 DEF GoodSlots
  <2>. QED  BY <2>2, <2>3
<1>4. i \in BadSlots(Index(z), files, c)
        <=> \E f \in files : \E row \in Imports(src, f) :
              z.nodes[i].ref = row.src /\ ResolveMember(row.key, src).unresolved
  <2>1. ASSUME NEW row \in ImportRows(files, c)
        PROVE  /\ i \in Ids(Index(z), {row.src}) <=> z.nodes[i].ref = row.src
               /\ c.memo[row.key] = ResolveMember(row.key, src)
               /\ \E f \in files : row \in Imports(src, f)
    BY <1>1, <1>2 DEF ImportRows
  <2>2. ASSUME i \in BadSlots(Index(z), files, c)
        PROVE  \E f \in files : \E row \in Imports(src, f) :
                 z.nodes[i].ref = row.src /\ ResolveMember(row.key, src).unresolved
    <3>1. PICK row \in ImportRows(files, c) : i \in Ids(Index(z), {row.src}) /\ c.memo[row.key].unresolved
      BY <2>2 DEF BadSlots
    <3>2. z.nodes[i].ref = row.src /\ ResolveMember(row.key, src).unresolved
      BY <2>1, <3>1
    <3>. QED  BY <2>1, <3>2
  <2>3. ASSUME NEW f \in files, NEW row \in Imports(src, f),
               z.nodes[i].ref = row.src, ResolveMember(row.key, src).unresolved
        PROVE  i \in BadSlots(Index(z), files, c)
    <3>1. row \in ImportRows(files, c)
      BY <1>2 DEF ImportRows
    <3>2. i \in Ids(Index(z), {row.src}) /\ c.memo[row.key].unresolved
      BY <2>1, <2>3, <3>1
    <3>. QED  BY <3>1, <3>2 DEF BadSlots
  <2>. QED  BY <2>2, <2>3
<1>5. ASSUME NEW f \in Present(src), NEW k \in DOMAIN PayloadNodes(src, f), i = z.blocks[f].base + k
      PROVE  /\ i \in GoodSlots(Index(z), files, c) <=> f \in files /\ Settles(src, f, k)
             /\ i \in BadSlots(Index(z), files, c) <=> f \in files /\ Dangles(src, f, k)
  <2>1. z.nodes[i].ref = PayloadNodes(src, f)[k].ref /\ z.nodes[i].ref.file = f
    BY <1>5, FileSlotLive DEF FileSlot
  <2>2. \A g \in files : \A row \in Imports(src, g) : z.nodes[i].ref = row.src => g = f
    BY <1>2, <2>1
  <2>3. i \in GoodSlots(Index(z), files, c) <=> f \in files /\ Settles(src, f, k)
    BY <1>3, <2>1, <2>2 DEF Settles
  <2>4. i \in BadSlots(Index(z), files, c) <=> f \in files /\ Dangles(src, f, k)
    BY <1>4, <2>1, <2>2 DEF Dangles, Dangling
  <2>. QED  BY <2>3, <2>4
<1>6. z.nodes[i].ref.node = "external" =>
        i \notin GoodSlots(Index(z), files, c) /\ i \notin BadSlots(Index(z), files, c)
  BY <1>2, <1>3, <1>4
<1>. QED  BY <1>5, <1>6

(* What a build starts from, and what stages 1 and 2 make of it.           *)
Sizing(b, s, dirty, redone, c, z, files) ==
  /\ SlotsOK(b) /\ CleanFits(b, dirty) /\ Resolves(c) /\ DOMAIN b.parts = DOMAIN b.blocks
  /\ CleanTold(b, s, dirty, redone)
  /\ SizedFrom(b, s, dirty, z)
  /\ files = Retranslated(b, dirty, redone, c)

(* The stamping leaves every node of a file as the sources say, and the    *)
(* anchors alone.                                                          *)
LEMMA StampedContents ==
  ASSUME NEW b, NEW s, NEW dirty, NEW redone, NEW c, NEW z, NEW files, Sizing(b, s, dirty, redone, c, z, files),
         NEW st, st = Stamped(z, Index(z), files, c)
  PROVE  /\ Reflagged(z, st)
         /\ \A f \in Present(src) : \A k \in DOMAIN PayloadNodes(src, f) :
              st.nodes[z.blocks[f].base + k] = FileNode(src, f, k)
         /\ \A r \in ExternalsOf(src) : st.nodes[z.externals[r]] = AnchorNode(r)
<1>1. /\ src \in Sources /\ Carries(z) /\ RefsPlaced(z) /\ Resolves(c) /\ SlotsOK(z) /\ IsBuilder(z) /\ NodesOK(z)
      /\ dirty \subseteq Present(src)
  BY DEF Sizing, SizedFrom, CleanFits, Carries, SlotsOK
<1>2. /\ files \subseteq Present(src) /\ dirty \subseteq files
      /\ \A f \in Present(src) \ files : MemberKeys(RefSpecs(src, f)) \cap redone = {}
  <2>1. \A f \in Present(src) : c.rows[f] = RefSpecs(src, f)
    BY <1>1 DEF Resolves
  <2>2. DOMAIN b.parts \subseteq Present(src)
    BY DEF Sizing, CleanFits
  <2>. QED  BY <1>1, <2>1, <2>2 DEF Sizing, Retranslated
<1>3. \A x \in Index(z) : x[2] \in Live(z)
  BY <1>1, IndexEntries
<1>4. /\ Reflagged(z, st)
      /\ \A i \in DOMAIN z.nodes :
           st.nodes[i].flags = (z.nodes[i].flags \ StampIf(i \in GoodSlots(Index(z), files, c)))
                                 \cup StampIf(i \in BadSlots(Index(z), files, c))
  <2>1. Reflagged(z, st)
    BY <1>1, <1>3, StampedReflags
  <2>2. \A i \in DOMAIN z.nodes :
           st.nodes[i].flags = (z.nodes[i].flags \ StampIf(i \in GoodSlots(Index(z), files, c)))
                                 \cup StampIf(i \in BadSlots(Index(z), files, c))
    BY <1>1, <1>3, StampedReflags
  <2>. QED  BY <2>1, <2>2
<1>5. ASSUME NEW f \in Present(src), NEW k \in DOMAIN PayloadNodes(src, f)
      PROVE  st.nodes[z.blocks[f].base + k] = FileNode(src, f, k)
  <2>1. PICK i : i = z.blocks[f].base + k /\ i \in Live(z) /\ i \in DOMAIN z.nodes
    BY <1>1, FileSlotLive DEF Live
  <2>2. PICK x \in BOOLEAN, y \in BOOLEAN, good \in BOOLEAN, old \in BOOLEAN :
          /\ x = Imported(src, f, k) /\ y = Dangles(src, f, k) /\ good = Settles(src, f, k)
          /\ old = Dangles(s, f, k)
    BY DEF Imported, Dangles, Settles
  <2>3. (y => x) /\ (x => good \/ y) /\ (good => x)
    <3>1. Dangles(src, f, k) => Imported(src, f, k)
      BY DEF Dangles, Dangling, Imported
    <3>2. Settles(src, f, k) => Imported(src, f, k)
      BY DEF Settles, Imported
    <3>3. Imported(src, f, k) => Settles(src, f, k) \/ Dangles(src, f, k)
      BY DEF Settles, Imported, Dangles, Dangling
    <3>. QED  BY <2>2, <3>1, <3>2, <3>3
  <2>4. PICK p \in BOOLEAN, q \in BOOLEAN :
          /\ z.nodes[i] = Weathered(src, f, k, p, q)
          /\ p \/ q => x
          /\ f \notin files => (p <=> x) /\ (q <=> y)
    <3>1. CASE f \in dirty
      <4>1. z.nodes[i] = Weathered(src, f, k, FALSE, FALSE)
        BY <2>1, <3>1 DEF Sizing, SizedFrom
      <4>. QED  BY <1>2, <3>1, <4>1
    <3>2. CASE f \notin dirty
      <4>1. Unchanged(s, f, dirty, redone)
        BY <3>2 DEF Sizing, CleanTold
      <4>2. /\ Dangles(s, f, k) => Imported(src, f, k)
            /\ MemberKeys(RefSpecs(src, f)) \cap redone = {} => (Dangles(s, f, k) <=> Dangles(src, f, k))
        BY <1>1, <4>1, UnchangedStamps
      <4>3. z.nodes[i] = Weathered(src, f, k, Imported(src, f, k), Dangles(s, f, k))
        BY <2>1, <3>2 DEF Sizing, SizedFrom
      <4>4. z.nodes[i] = Weathered(src, f, k, x, old)
        BY <2>2, <4>3
      <4>. QED  BY <1>2, <2>2, <4>2, <4>4
    <3>. QED  BY <3>1, <3>2
  <2>5. PICK u \in BOOLEAN, v \in BOOLEAN :
          (u <=> i \in GoodSlots(Index(z), files, c)) /\ (v <=> i \in BadSlots(Index(z), files, c))
    OBVIOUS
  <2>6. PICK t \in BOOLEAN : t <=> f \in files
    OBVIOUS
  <2>7. (u <=> t /\ good) /\ (v <=> t /\ y)
    <3>1. /\ i \in GoodSlots(Index(z), files, c) <=> f \in files /\ Settles(src, f, k)
          /\ i \in BadSlots(Index(z), files, c) <=> f \in files /\ Dangles(src, f, k)
      BY <1>1, <1>2, <2>1, StampedSlots
    <3>. QED  BY <2>2, <2>5, <2>6, <3>1
  <2>8. PICK g, r : g = NewNode(src, f, k).flags /\ r = PayloadNodes(src, f)[k].ref
    OBVIOUS
  <2>9. z.nodes[i] = [ref |-> r, flags |-> (g \ StampIf(p)) \cup StampIf(q)]
    BY <2>4, <2>8 DEF Weathered
  <2>10. st.nodes[i].flags = (z.nodes[i].flags \ StampIf(u)) \cup StampIf(v)
    BY <1>4, <2>1, <2>5 DEF StampIf
  <2>11. st.nodes[i].flags = (((g \ StampIf(p)) \cup StampIf(q)) \ StampIf(u)) \cup StampIf(v)
    BY <2>9, <2>10
  <2>12. (((g \ StampIf(p)) \cup StampIf(q)) \ StampIf(u)) \cup StampIf(v) = (g \ StampIf(x)) \cup StampIf(y)
    <3>1. (p \/ q => x) /\ (~t => (p <=> x) /\ (q <=> y))
      BY <2>4, <2>6
    <3>2. CASE t
      BY <2>3, <2>7, <3>1, <3>2 DEF StampIf
    <3>3. CASE ~t
      BY <2>3, <2>7, <3>1, <3>3 DEF StampIf
    <3>. QED  BY <3>2, <3>3
  <2>13. st.nodes[i] = [ref |-> r, flags |-> (g \ StampIf(x)) \cup StampIf(y)]
    <3>1. st.nodes[i] = [ref |-> z.nodes[i].ref, flags |-> st.nodes[i].flags]
      BY <1>4, <2>1 DEF Reflagged
    <3>2. z.nodes[i].ref = r
      BY <2>9
    <3>. QED  BY <2>11, <2>12, <3>1, <3>2
  <2>14. FileNode(src, f, k) = [ref |-> r, flags |-> (g \ StampIf(x)) \cup StampIf(y)]
    <3>1. FileNode(src, f, k) = Weathered(src, f, k, Imported(src, f, k), Dangles(src, f, k))
      BY FileNodeIs
    <3>2. FileNode(src, f, k) = Weathered(src, f, k, x, y)
      BY <2>2, <3>1
    <3>. QED  BY <2>8, <3>2 DEF Weathered
  <2>. QED  BY <2>1, <2>13, <2>14
<1>6. ASSUME NEW r \in ExternalsOf(src) PROVE st.nodes[z.externals[r]] = AnchorNode(r)
  <2>1. PICK i : i = z.externals[r] /\ i \in Live(z) /\ i \in DOMAIN z.nodes /\ z.nodes[i] = AnchorNode(r)
    BY DEF Sizing, SizedFrom, Live
  <2>2. z.nodes[i].ref = r /\ z.nodes[i].flags = {} /\ r.node = "external"
    BY <2>1 DEF AnchorNode, ExternalsOf
  <2>3. i \notin GoodSlots(Index(z), files, c) /\ i \notin BadSlots(Index(z), files, c)
    BY <1>1, <1>2, <2>1, <2>2, StampedSlots
  <2>4. st.nodes[i].flags = {}
    BY <1>4, <2>1, <2>2, <2>3 DEF StampIf
  <2>5. st.nodes[i] = [ref |-> r, flags |-> {}]
    BY <1>4, <2>1, <2>2, <2>4 DEF Reflagged
  <2>. QED  BY <2>1, <2>5 DEF AnchorNode
<1>. QED  BY <1>4, <1>5, <1>6

(* Other flags leave the nodes where they are.                             *)
LEMMA ReflaggedKeepsRefs ==
  ASSUME NEW b, NEW w, Carries(b), Reflagged(b, w)
  PROVE  /\ Carries(w) /\ Live(w) = Live(b) /\ w.blocks = b.blocks /\ w.externals = b.externals
         /\ \A i \in DOMAIN b.nodes : w.nodes[i].ref = b.nodes[i].ref
         /\ RefsPlaced(b) => RefsPlaced(w)
         /\ \A pairs : Between(w, pairs) = Between(b, pairs)
<1>1. /\ Carries(w) /\ Live(w) = Live(b) /\ w.blocks = b.blocks /\ w.externals = b.externals
      /\ \A i \in DOMAIN b.nodes : w.nodes[i].ref = b.nodes[i].ref
  <2>1. Carries(w)
    BY ReflaggedKeepsEdges
  <2>2. Live(w) = Live(b)
    BY ReflaggedKeepsSlots DEF Carries
  <2>3. ASSUME NEW i \in DOMAIN b.nodes PROVE w.nodes[i].ref = b.nodes[i].ref
    <3>1. w.nodes[i] = [ref |-> b.nodes[i].ref, flags |-> w.nodes[i].flags]
      BY DEF Reflagged
    <3>. QED  BY <3>1
  <2>4. w.blocks = b.blocks /\ w.externals = b.externals
    BY DEF Reflagged
  <2>. QED  BY <2>1, <2>2, <2>3, <2>4
<1>2. \A i \in Live(b) : w.nodes[i].ref = b.nodes[i].ref
  BY <1>1 DEF Live
<1>3. ASSUME RefsPlaced(b) PROVE RefsPlaced(w)
  <2>1. ASSUME NEW f \in Present(src), NEW i \in DOMAIN PayloadNodes(src, f)
        PROVE  w.nodes[w.blocks[f].base + i].ref = PayloadNodes(src, f)[i].ref
    <3>1. PICK j \in Live(b) : j = b.blocks[f].base + i /\ b.nodes[j].ref = PayloadNodes(src, f)[i].ref
      BY <1>3, FileSlotLive DEF FileSlot
    <3>. QED  BY <1>1, <1>2, <3>1
  <2>. QED  BY <1>1, <1>2, <1>3, <2>1 DEF RefsPlaced
<1>4. ASSUME NEW pairs PROVE Between(w, pairs) = Between(b, pairs)
  BY <1>1, <1>2 DEF Between
<1>. QED  BY <1>1, <1>3, <1>4

(* A builder that holds what the sources say, before the plugin pass.      *)
Finished(w) ==
  /\ Carries(w) /\ RefsPlaced(w) /\ Tells(w, src)
  /\ \A i \in Live(w) : w.nodes[i] = BaseNode(w, i)
  /\ w.edges = UNION {w.parts[f] : f \in Present(src)}

(* The refold: every part, translated again or kept, is what the sources   *)
(* say, and so is the snapshot.                                            *)
LEMMA RefoldedTells ==
  ASSUME NEW b, NEW s, NEW dirty, NEW redone, NEW c, NEW z, NEW files, Sizing(b, s, dirty, redone, c, z, files),
         z.parts = b.parts, \A j \in Live(b) : z.nodes[j].ref \in {b.nodes[j].ref, Absent},
         \A f \in Present(src) \ files : \A e \in b.parts[f] : GoodEdge(z, f, e),
         NEW st, st = Stamped(z, Index(z), files, c), NEW r, r = Refolded(st, Index(z), files, c)
  PROVE  Finished(r)
<1>1. src \in Sources /\ Carries(z) /\ RefsPlaced(z) /\ Resolves(c) /\ IsBuilder(z) /\ NodesOK(z)
  BY DEF Sizing, SizedFrom, CleanFits, Carries, SlotsOK
<1>2. /\ Reflagged(z, st)
      /\ \A f \in Present(src) : \A k \in DOMAIN PayloadNodes(src, f) :
           st.nodes[z.blocks[f].base + k] = FileNode(src, f, k)
      /\ \A q \in ExternalsOf(src) : st.nodes[z.externals[q]] = AnchorNode(q)
  BY StampedContents
<1>3. st.parts = b.parts
  <2>1. \A x \in Index(z) : x[2] \in Live(z)
    BY <1>1, IndexEntries
  <2>. QED  BY <1>1, <2>1, StampedReflags
<1>4. /\ Carries(st) /\ RefsPlaced(st) /\ Live(st) = Live(z) /\ st.blocks = z.blocks /\ st.externals = z.externals
      /\ \A pairs : Between(st, pairs) = Between(z, pairs)
  BY <1>1, <1>2, ReflaggedKeepsRefs
<1>5. Index(st) = Index(z) /\ IsBuilder(st) /\ NodesOK(st)
  BY <1>1, <1>2, <1>4, ReflaggedKeepsEdges DEF Carries, SlotsOK
<1>6. /\ Reflagged(st, r) /\ r.nodes = st.nodes
      /\ r.parts = PartsOf(st, Index(z), files, c)
      /\ r.edges = UNION {PartsOf(st, Index(z), files, c)[f] : f \in Present(src)}
      /\ r.baseFlags = [i \in DOMAIN st.nodes |-> st.nodes[i].flags]
  BY <1>5, RefoldedFields
<1>7. /\ Carries(r) /\ RefsPlaced(r) /\ Live(r) = Live(z) /\ r.blocks = z.blocks /\ r.externals = z.externals
      /\ \A pairs : Between(r, pairs) = Between(z, pairs)
  BY <1>4, <1>6, ReflaggedKeepsRefs
<1>8. ASSUME NEW i \in Live(r) PROVE r.nodes[i] = BaseNode(r, i) /\ r.nodes[i] = st.nodes[i]
  <2>1. i \in DOMAIN st.nodes
    BY <1>4, <1>7 DEF Live
  <2>2. st.nodes[i] = [ref |-> st.nodes[i].ref, flags |-> st.nodes[i].flags]
    BY <1>5, <2>1 DEF NodesOK
  <2>. QED  BY <1>6, <2>1, <2>2 DEF BaseNode
<1>9. TellsNodes(r, src)
  <2> SUFFICES ASSUME NEW f \in Present(src), NEW k \in DOMAIN PayloadNodes(src, f)
               PROVE  BaseNode(r, r.blocks[f].base + k) = FileNode(src, f, k)
    BY DEF TellsNodes
  <2>1. r.blocks[f].base + k \in Live(r)
    BY <1>7, FileSlotLive
  <2>. QED  BY <1>2, <1>7, <1>8, <2>1
<1>10. TellsAnchors(r, src)
  <2>1. /\ ExternalsOf(src) \subseteq DOMAIN r.externals
        /\ \A q \in DOMAIN r.externals : r.externals[q] \in Live(r) <=> q \in ExternalsOf(src)
    BY <1>7 DEF Sizing, SizedFrom
  <2>2. ASSUME NEW q \in ExternalsOf(src) PROVE BaseNode(r, r.externals[q]) = AnchorNode(q)
    <3>1. r.externals[q] \in Live(r)
      BY <2>1
    <3>. QED  BY <1>2, <1>7, <1>8, <3>1
  <2>. QED  BY <2>1, <2>2 DEF TellsAnchors
<1>11. TellsParts(r, src)
  <2> SUFFICES ASSUME NEW f \in Present(src) PROVE r.parts[f] = Between(r, ExpectedEdges(src, f))
    BY DEF TellsParts
  <2>1. CASE f \in files
    <3>1. r.parts[f] = Part(st, Index(st), f, c)
      BY <1>5, <1>6, <2>1 DEF PartsOf
    <3>2. c.rows[f] = RefSpecs(src, f) /\ \A k \in MemberKeys(RefSpecs(src, f)) : c.memo[k] = ResolveMember(k, src)
      BY <1>1 DEF Resolves, LiveKeys
    <3>3. Part(st, Index(st), f, c) = Between(st, ExpectedEdges(src, f))
      BY <1>4, <3>2, PartMatches
    <3>. QED  BY <1>4, <1>7, <3>1, <3>3
  <2>2. CASE f \notin files
    <3>1. r.parts[f] = b.parts[f]
      BY <1>3, <1>6, <2>2 DEF PartsOf
    <3>2. b.parts[f] = Between(z, ExpectedEdges(src, f))
      BY <2>2, KeptMatches DEF Sizing
    <3>. QED  BY <1>7, <3>1, <3>2
  <2>. QED  BY <2>1, <2>2
<1>. QED  BY <1>6, <1>7, <1>8, <1>9, <1>10, <1>11 DEF Finished, Tells

(* What the queries see of a builder.                                      *)
ServedOf(b) ==
  [size  |-> Cardinality(Live(b)),
   nodes |-> {b.nodes[i] : i \in Live(b)},
   edges |-> {<<b.nodes[e[1]].ref, b.nodes[e[2]].ref>> : e \in b.edges}]

(* The operations of the plugin pass, if it succeeds, and what they do to  *)
(* a node.                                                                 *)
OpsOf(applied) == IF applied THEN ProjectOps(src) ELSE [flagged |-> {}, edges |-> {}]

KeptIf(p) == IF p THEN {"ENTRYPOINT"} ELSE {}

Told(ops, node) == [ref |-> node.ref, flags |-> node.flags \cup KeptIf(node.ref \in ops.flagged)]

(* A builder after the plugin pass.                                        *)
Published(w, ops) ==
  /\ Carries(w) /\ RefsPlaced(w) /\ Tells(w, src)
  /\ \A i \in Live(w) : w.nodes[i] = Told(ops, BaseNode(w, i))
  /\ w.edges = (UNION {Between(w, ExpectedEdges(src, f)) : f \in Present(src)}) \cup Between(w, ops.edges)

(* When the pass fails nothing is added.                                   *)
LEMMA FailedPassPublishes ==
  ASSUME NEW b, Finished(b)
  PROVE  Published(b, OpsOf(FALSE))
<1>1. OpsOf(FALSE).flagged = {} /\ OpsOf(FALSE).edges = {}
  BY DEF OpsOf
<1>2. ASSUME NEW i \in Live(b) PROVE b.nodes[i] = Told(OpsOf(FALSE), BaseNode(b, i))
  <2>1. b.nodes[i] = [ref |-> b.nodes[i].ref, flags |-> b.baseFlags[i]]
    BY DEF Finished, BaseNode
  <2>2. Told(OpsOf(FALSE), BaseNode(b, i)) = [ref |-> b.nodes[i].ref, flags |-> b.baseFlags[i]]
    BY <1>1 DEF Told, BaseNode, KeptIf
  <2>. QED  BY <2>1, <2>2
<1>3. UNION {b.parts[f] : f \in Present(src)} = UNION {Between(b, ExpectedEdges(src, f)) : f \in Present(src)}
  BY DEF Finished, Tells, TellsParts
<1>4. Between(b, OpsOf(FALSE).edges) = {}
  BY <1>1 DEF Between
<1>. QED  BY <1>2, <1>3, <1>4 DEF Finished, Published

(* When it succeeds its flags and edges are added.                         *)
LEMMA PassPublishes ==
  ASSUME NEW b, Finished(b), NEW w, w = WithProjectOps(b)
  PROVE  Published(w, OpsOf(TRUE))
<1>0. /\ Carries(b) /\ RefsPlaced(b) /\ IsBuilder(b) /\ NodesOK(b) /\ Tells(b, src) /\ src \in Sources
      /\ OpsOf(TRUE) = ProjectOps(src)
  BY DEF Finished, Carries, SlotsOK, OpsOf
<1>1. /\ Reflagged(b, w) /\ w.parts = b.parts /\ w.baseFlags = b.baseFlags
      /\ w.edges = b.edges \cup AddedEdges(b)
  BY <1>0, IndexEntries, ProjectOpsReflag
<1>2. \A i \in DOMAIN b.nodes :
        w.nodes[i].flags = b.nodes[i].flags \cup KeptIf(i \in Ids(Index(b), ProjectOps(src).flagged))
  <2>1. \A i \in DOMAIN b.nodes :
          w.nodes[i].flags = b.nodes[i].flags
                               \cup (IF i \in Ids(Index(b), ProjectOps(src).flagged) THEN {"ENTRYPOINT"} ELSE {})
    BY <1>0, IndexEntries, ProjectOpsReflag
  <2>. QED  BY <2>1 DEF KeptIf
<1>3. /\ Carries(w) /\ Live(w) = Live(b) /\ w.blocks = b.blocks /\ w.externals = b.externals
      /\ \A i \in DOMAIN b.nodes : w.nodes[i].ref = b.nodes[i].ref
      /\ RefsPlaced(w) /\ \A pairs : Between(w, pairs) = Between(b, pairs)
  BY <1>0, <1>1, ReflaggedKeepsRefs
<1>4. \A refs : Ids(Index(b), refs) = {i \in Live(b) : b.nodes[i].ref \in refs}
  BY <1>0, IdsAreSlots
<1>5. \A i \in Live(b) : i \in DOMAIN b.nodes /\ BaseNode(w, i) = BaseNode(b, i)
  BY <1>1, <1>3 DEF BaseNode, Live
<1>6. Tells(w, src)
  <2>1. TellsNodes(w, src)
    <3> SUFFICES ASSUME NEW f \in Present(src), NEW k \in DOMAIN PayloadNodes(src, f)
                 PROVE  BaseNode(w, w.blocks[f].base + k) = FileNode(src, f, k)
      BY DEF TellsNodes
    <3>1. b.blocks[f].base + k \in Live(b)
      BY <1>0, FileSlotLive
    <3>. QED  BY <1>0, <1>3, <1>5, <3>1 DEF Tells, TellsNodes
  <2>2. TellsAnchors(w, src)
    BY <1>0, <1>3, <1>5 DEF Tells, TellsAnchors
  <2>3. TellsParts(w, src)
    BY <1>0, <1>1, <1>3 DEF Tells, TellsParts
  <2>. QED  BY <2>1, <2>2, <2>3 DEF Tells
<1>7. ASSUME NEW i \in Live(w) PROVE w.nodes[i] = Told(ProjectOps(src), BaseNode(w, i))
  <2>1. i \in Live(b) /\ i \in DOMAIN b.nodes
    BY <1>3 DEF Live
  <2>2. PICK r, g : r = b.nodes[i].ref /\ g = b.baseFlags[i]
    OBVIOUS
  <2>3. b.nodes[i] = [ref |-> r, flags |-> g] /\ BaseNode(w, i) = [ref |-> r, flags |-> g]
    BY <1>5, <2>1, <2>2 DEF Finished, BaseNode
  <2>4. i \in Ids(Index(b), ProjectOps(src).flagged) <=> r \in ProjectOps(src).flagged
    BY <1>4, <2>1, <2>2
  <2>5. w.nodes[i].flags = g \cup KeptIf(r \in ProjectOps(src).flagged)
    BY <1>2, <2>1, <2>3, <2>4 DEF KeptIf
  <2>6. w.nodes[i] = [ref |-> r, flags |-> w.nodes[i].flags]
    BY <1>1, <2>1, <2>2 DEF Reflagged
  <2>. QED  BY <2>3, <2>5, <2>6 DEF Told
<1>8. AddedEdges(b) = Between(b, ProjectOps(src).edges)
  <2>0. \A o : Ids(Index(b), {o[1]}) \X Ids(Index(b), {o[2]})
                = {i \in Live(b) : b.nodes[i].ref = o[1]} \X {i \in Live(b) : b.nodes[i].ref = o[2]}
    BY <1>4
  <2>1. AddedEdges(b) \subseteq Live(b) \X Live(b)
    <3> SUFFICES ASSUME NEW o \in ProjectOps(src).edges, NEW e \in Ids(Index(b), {o[1]}) \X Ids(Index(b), {o[2]})
                 PROVE  e \in Live(b) \X Live(b)
      BY DEF AddedEdges
    <3>. QED  BY <2>0
  <2>2. ASSUME NEW i \in Live(b), NEW j \in Live(b)
        PROVE  <<i, j>> \in AddedEdges(b) <=> LinkRefs(b, ProjectOps(src).edges, i, j)
    <3>1. <<i, j>> \in AddedEdges(b)
            <=> \E e \in ProjectOps(src).edges : b.nodes[i].ref = e[1] /\ b.nodes[j].ref = e[2]
      <4>1. <<i, j>> \in AddedEdges(b)
              <=> \E o \in ProjectOps(src).edges : <<i, j>> \in Ids(Index(b), {o[1]}) \X Ids(Index(b), {o[2]})
        BY DEF AddedEdges
      <4>2. \A o : <<i, j>> \in Ids(Index(b), {o[1]}) \X Ids(Index(b), {o[2]})
                     <=> b.nodes[i].ref = o[1] /\ b.nodes[j].ref = o[2]
        BY <2>0
      <4>. QED  BY <4>1, <4>2
    <3>2. \A e \in ProjectOps(src).edges : e = <<e[1], e[2]>>
      BY <1>0, OpsAssumption
    <3>3. LinkRefs(b, ProjectOps(src).edges, i, j)
            <=> \E e \in ProjectOps(src).edges : b.nodes[i].ref = e[1] /\ b.nodes[j].ref = e[2]
      BY <3>2 DEF LinkRefs
    <3>. QED  BY <3>1, <3>3
  <2>. QED  BY <2>1, <2>2, EdgesBetween
<1>9. UNION {b.parts[f] : f \in Present(src)} = UNION {Between(b, ExpectedEdges(src, f)) : f \in Present(src)}
  BY <1>0 DEF Tells, TellsParts
<1>10. w.edges = (UNION {Between(w, ExpectedEdges(src, f)) : f \in Present(src)}) \cup Between(w, ProjectOps(src).edges)
  BY <1>1, <1>3, <1>8, <1>9 DEF Finished
<1>. QED  BY <1>0, <1>3, <1>6, <1>7, <1>10 DEF Published

(* The graph the sources determine, by its parts.                          *)
ToldNodes(ops) == {Told(ops, node) : node \in NodesOf(src)}

ToldEdges(ops) ==
  {e \in (UNION {ExpectedEdges(src, f) : f \in Present(src)}) \cup ops.edges :
     {e[1], e[2]} \subseteq {node.ref : node \in ToldNodes(ops)}}

(* The nodes the sources determine.                                        *)
LEMMA NodesAre ==
  ASSUME NEW node
  PROVE  node \in NodesOf(src)
           <=> \/ \E f \in Present(src) : \E k \in DOMAIN PayloadNodes(src, f) : node = FileNode(src, f, k)
               \/ \E r \in ExternalsOf(src) : node = AnchorNode(r)
<1>1. PICK F, A : /\ F = UNION {{FileNode(src, f, k) : k \in DOMAIN PayloadNodes(src, f)} : f \in Present(src)}
                  /\ A = {AnchorNode(r) : r \in ExternalsOf(src)}
  OBVIOUS
<1>2. NodesOf(src) = F \cup A
  BY <1>1 DEF NodesOf, AnchorNode
<1>3. node \in F
        <=> \E f \in Present(src) : \E k \in DOMAIN PayloadNodes(src, f) : node = FileNode(src, f, k)
  BY <1>1
<1>4. node \in A <=> \E r \in ExternalsOf(src) : node = AnchorNode(r)
  BY <1>1
<1>. QED  BY <1>2, <1>3, <1>4

(* The graph is made of them.                                              *)
LEMMA GraphIs ==
  ASSUME NEW applied \in BOOLEAN, \A node \in NodesOf(src) : node = [ref |-> node.ref, flags |-> node.flags]
  PROVE  Graph(src, applied) = [size  |-> Cardinality(ToldNodes(OpsOf(applied))),
                                nodes |-> ToldNodes(OpsOf(applied)), edges |-> ToldEdges(OpsOf(applied))]
<1> DEFINE ops == IF applied THEN ProjectOps(src) ELSE [flagged |-> {}, edges |-> {}]
           Kept(node) == IF node.ref \in ops.flagged THEN {"ENTRYPOINT"} ELSE {}
           nodes == {[node EXCEPT !.flags = @ \cup Kept(node)] : node \in NodesOf(src)}
           refs == {node.ref : node \in nodes}
           edges == (UNION {ExpectedEdges(src, f) : f \in Present(src)}) \cup ops.edges
<1>1. Graph(src, applied)
        = [size |-> Cardinality(nodes), nodes |-> nodes, edges |-> {e \in edges : {e[1], e[2]} \subseteq refs}]
  BY DEF Graph
<1>2. ops = OpsOf(applied)
  BY DEF OpsOf
<1>3. ASSUME NEW node \in NodesOf(src)
      PROVE  [node EXCEPT !.flags = @ \cup Kept(node)] = Told(OpsOf(applied), node)
  <2>1. PICK r, g : node = [ref |-> r, flags |-> g] /\ r = node.ref /\ g = node.flags
    OBVIOUS
  <2>2. Kept(node) = KeptIf(node.ref \in OpsOf(applied).flagged)
    BY <1>2 DEF KeptIf
  <2>3. PICK k : k = Kept(node)
    OBVIOUS
  <2> HIDE DEF Kept
  <2>4. [node EXCEPT !.flags = @ \cup Kept(node)] = [ref |-> r, flags |-> g \cup k]
    <3>1. [node EXCEPT !.flags = @ \cup Kept(node)] = [node EXCEPT !.flags = g \cup k]
      BY <2>1, <2>3
    <3>. QED  BY <2>1, <3>1
  <2>. QED  BY <2>1, <2>2, <2>3, <2>4 DEF Told
<1>4. nodes = ToldNodes(OpsOf(applied))
  BY <1>3 DEF ToldNodes
<1>5. {e \in edges : {e[1], e[2]} \subseteq refs} = ToldEdges(OpsOf(applied))
  BY <1>2, <1>4 DEF ToldEdges
<1> HIDE DEF nodes, edges, refs
<1>. QED  BY <1>1, <1>4, <1>5

(* What is published is that graph: a live slot for every node of it, and  *)
(* the edges between them.                                                 *)
LEMMA PublishedIsGraph ==
  ASSUME NEW applied \in BOOLEAN, NEW w, Published(w, OpsOf(applied))
  PROVE  ServedOf(w) = Graph(src, applied)
<1>0. PICK ops : ops = OpsOf(applied)
  OBVIOUS
<1>1. /\ Carries(w) /\ RefsPlaced(w) /\ src \in Sources
      /\ TellsNodes(w, src) /\ TellsAnchors(w, src)
      /\ \A i \in Live(w) : w.nodes[i] = Told(ops, BaseNode(w, i))
  BY <1>0 DEF Published, Carries, Tells
<1>2. \A i \in Live(w) : w.nodes[i].ref = BaseNode(w, i).ref
  BY DEF BaseNode
<1>3. ASSUME NEW i \in Live(w) PROVE BaseNode(w, i) \in NodesOf(src)
  <2>1. ASSUME NEW f \in Present(src), NEW k \in DOMAIN PayloadNodes(src, f), FileSlot(w, f, k, i)
        PROVE  BaseNode(w, i) \in NodesOf(src)
    <3>1. BaseNode(w, i) = FileNode(src, f, k)
      BY <1>1, <2>1 DEF FileSlot, TellsNodes
    <3>. QED  BY <3>1, NodesAre
  <2>2. ASSUME w.nodes[i].ref \in DOMAIN w.externals, w.externals[w.nodes[i].ref] = i
        PROVE  BaseNode(w, i) \in NodesOf(src)
    <3>1. PICK r \in DOMAIN w.externals : w.externals[r] = i
      BY <2>2
    <3>2. r \in ExternalsOf(src) /\ BaseNode(w, i) = AnchorNode(r)
      BY <1>1, <3>1 DEF TellsAnchors
    <3>. QED  BY <3>2, NodesAre
  <2>. QED  BY <1>1, <2>1, <2>2, LiveSlot
<1>4. ASSUME NEW node \in NodesOf(src) PROVE \E i \in Live(w) : node = BaseNode(w, i)
  <2>1. ASSUME NEW f \in Present(src), NEW k \in DOMAIN PayloadNodes(src, f), node = FileNode(src, f, k)
        PROVE  \E i \in Live(w) : node = BaseNode(w, i)
    BY <1>1, <2>1, FileSlotLive DEF TellsNodes
  <2>2. ASSUME NEW r \in ExternalsOf(src), node = AnchorNode(r)
        PROVE  \E i \in Live(w) : node = BaseNode(w, i)
    BY <1>1, <2>2 DEF TellsAnchors
  <2>3. \/ \E f \in Present(src) : \E k \in DOMAIN PayloadNodes(src, f) : node = FileNode(src, f, k)
        \/ \E r \in ExternalsOf(src) : node = AnchorNode(r)
    BY NodesAre
  <2>. QED  BY <2>1, <2>2, <2>3
<1>5. NodesOf(src) = {BaseNode(w, i) : i \in Live(w)}
  BY <1>3, <1>4
<1>6. Graph(src, applied)
        = [size |-> Cardinality(ToldNodes(ops)), nodes |-> ToldNodes(ops), edges |-> ToldEdges(ops)]
  <2>1. \A node \in NodesOf(src) : node = [ref |-> node.ref, flags |-> node.flags]
    BY <1>5 DEF BaseNode
  <2>. QED  BY <1>0, <2>1, GraphIs
<1>7. ToldNodes(ops) = {w.nodes[i] : i \in Live(w)}
  BY <1>1, <1>5 DEF ToldNodes
<1>8. Cardinality(ToldNodes(ops)) = Cardinality(Live(w))
  <2>1. IsFiniteSet(Live(w))
    <3>1. PICK l \in Nat : DOMAIN w.nodes = 1 .. l
      BY <1>1 DEF Carries, SlotsOK, NodesOK, IsSequence
    <3>2. IsFiniteSet(1 .. l)
      BY <3>1, FS_Interval
    <3>. QED  BY <3>1, <3>2, FS_Subset DEF Live
  <2>2. PICK h : h = [i \in Live(w) |-> w.nodes[i]]
    OBVIOUS
  <2>3. h \in [Live(w) -> ToldNodes(ops)]
    BY <1>7, <2>2
  <2>4. \A i, j \in Live(w) : h[i] = h[j] => i = j
    BY <1>1, <2>2, RefsOnce
  <2>5. \A node \in ToldNodes(ops) : \E i \in Live(w) : h[i] = node
    BY <1>7, <2>2
  <2>6. h \in Bijection(Live(w), ToldNodes(ops))
    BY <2>3, <2>4, <2>5 DEF Bijection, Injection, Surjection, IsInjective
  <2>7. ExistsBijection(Live(w), ToldNodes(ops))
    BY <2>6 DEF ExistsBijection
  <2>. QED  BY <2>1, <2>7, FS_Bijection
<1>9. {<<w.nodes[e[1]].ref, w.nodes[e[2]].ref>> : e \in w.edges} = ToldEdges(ops)
  <2>1. PICK all : all = (UNION {ExpectedEdges(src, f) : f \in Present(src)}) \cup ops.edges
    OBVIOUS
  <2>2. \A e \in all : e = <<e[1], e[2]>>
    <3>1. \A f \in Present(src) : \A e \in ExpectedEdges(src, f) : e = <<e[1], e[2]>>
      BY <1>1, ExpectedEnds
    <3>2. \A e \in ops.edges : e = <<e[1], e[2]>>
      BY <1>0, <1>1, OpsAssumption DEF OpsOf
    <3>. QED  BY <2>1, <3>1, <3>2
  <2>3. w.edges = Between(w, all)
    <3>1. w.edges = (UNION {Between(w, ExpectedEdges(src, f)) : f \in Present(src)}) \cup Between(w, ops.edges)
      BY <1>0 DEF Published
    <3>. QED  BY <2>1, <3>1 DEF Between
  <2>4. {node.ref : node \in ToldNodes(ops)} = {w.nodes[i].ref : i \in Live(w)}
    BY <1>7
  <2>5. ASSUME NEW e \in w.edges PROVE <<w.nodes[e[1]].ref, w.nodes[e[2]].ref>> \in ToldEdges(ops)
    <3>1. e[1] \in Live(w) /\ e[2] \in Live(w) /\ <<w.nodes[e[1]].ref, w.nodes[e[2]].ref>> \in all
      BY <2>3 DEF Between
    <3>. QED  BY <2>1, <2>4, <3>1 DEF ToldEdges
  <2>6. ASSUME NEW x \in ToldEdges(ops)
        PROVE  \E e \in w.edges : x = <<w.nodes[e[1]].ref, w.nodes[e[2]].ref>>
    <3>1. x \in all /\ x[1] \in {w.nodes[i].ref : i \in Live(w)} /\ x[2] \in {w.nodes[i].ref : i \in Live(w)}
      BY <2>1, <2>4 DEF ToldEdges
    <3>2. PICK i \in Live(w), j \in Live(w) : x[1] = w.nodes[i].ref /\ x[2] = w.nodes[j].ref
      BY <3>1
    <3>3. x = <<w.nodes[i].ref, w.nodes[j].ref>>
      BY <2>2, <3>1, <3>2
    <3>4. <<i, j>> \in w.edges
      BY <2>3, <3>1, <3>3 DEF Between
    <3>. QED  BY <3>3, <3>4
  <2>. QED  BY <2>5, <2>6
<1>. QED  BY <1>6, <1>7, <1>8, <1>9 DEF ServedOf

(* assemble_graph and the plugin pass publish what the sources say.        *)
LEMMA AssemblyPublishes ==
  ASSUME NEW b, SlotsOK(b), FlagsOK(b), NEW dirty, CleanFits(b, dirty), NEW redone, CleanParts(b, dirty, redone),
         DOMAIN b.parts = DOMAIN b.blocks,
         NEW c, Resolves(c), NEW m, m = Minted(b, dirty),
         NEW new, new = NewAnchors(m, LiveExternals(c)), NEW z, z = Interned(m, LiveExternals(c), new),
         NEW files, files = Retranslated(b, dirty, redone, c),
         NEW st, st = Stamped(z, Index(z), files, c),
         NEW r, r = Refolded(st, Index(z), files, c), NEW w, w \in {r, WithProjectOps(r)},
         NEW s, AnchorsTold(b), CleanTold(b, s, dirty, redone)
  PROVE  \E applied \in BOOLEAN : Published(w, OpsOf(applied))
<1>1. SizedFrom(b, s, dirty, z)
  BY SizedContents
<1>2. Sizing(b, s, dirty, redone, c, z, files)
  BY <1>1 DEF Sizing
<1>3. src \in Sources /\ AnchorsWanted(LiveExternals(c))
  BY WantedAnchors DEF CleanFits
<1>4. /\ Carries(m) /\ m.parts = b.parts
      /\ \A i \in DOMAIN b.nodes : i \in DOMAIN m.nodes
  BY MintedCarries
<1>5. /\ Carries(z) /\ z.parts = m.parts
      /\ \A i \in DOMAIN m.nodes : i \in DOMAIN z.nodes
  BY <1>3, <1>4, InternedCarries
<1>6. \A j \in Live(b) : z.nodes[j].ref \in {b.nodes[j].ref, Absent}
  <2>1. KeepsIds(b, r)
    BY Assembly
  <2>2. IsBuilder(z) /\ NodesOK(z) /\ \A x \in Index(z) : x[2] \in Live(z)
    BY <1>5, IndexEntries DEF Carries, SlotsOK
  <2>3. Reflagged(z, st)
    BY <2>2, StampedReflags
  <2>4. Carries(st) /\ \A i \in DOMAIN z.nodes : st.nodes[i].ref = z.nodes[i].ref
    BY <1>5, <2>3, ReflaggedKeepsRefs
  <2>5. /\ Reflagged(st, r) /\ r.nodes = st.nodes
        /\ r.baseFlags = [i \in DOMAIN st.nodes |-> st.nodes[i].flags]
    <3>1. IsBuilder(st) /\ NodesOK(st)
      BY <2>4 DEF Carries, SlotsOK
    <3>. QED  BY <3>1, RefoldedFields
  <2>6. \A j \in Live(b) : j \in DOMAIN z.nodes
    BY <1>4, <1>5 DEF Live
  <2>. QED  BY <2>1, <2>4, <2>5, <2>6 DEF KeepsIds
<1>7. \A f \in Present(src) \ files : \A e \in b.parts[f] : GoodEdge(z, f, e)
  BY KeptParts
<1>8. Finished(r)
  BY <1>2, <1>4, <1>5, <1>6, <1>7, RefoldedTells
<1>9. CASE w = r
  BY <1>8, <1>9, FailedPassPublishes
<1>10. CASE w = WithProjectOps(r)
  BY <1>8, <1>10, PassPublishes
<1>. QED  BY <1>9, <1>10

(* What a step that builds serves.                                         *)
LEMMA AssemblesPublishes ==
  ASSUME NEW b, SlotsOK(b), FlagsOK(b), NEW dirty, CleanFits(b, dirty), NEW redone, CleanParts(b, dirty, redone),
         DOMAIN b.parts = DOMAIN b.blocks,
         NEW c, Resolves(c), Assembles(b, dirty, redone, c), NEW w, w = builder',
         NEW s, AnchorsTold(b), CleanTold(b, s, dirty, redone)
  PROVE  \E applied \in BOOLEAN : Published(w, OpsOf(applied))
<1>1. PICK m : m = Minted(b, dirty)
  OBVIOUS
<1>2. PICK wanted : wanted = LiveExternals(c)
  OBVIOUS
<1>3. PICK new : new = NewAnchors(m, wanted)
  OBVIOUS
<1>4. PICK z, files : z = Interned(m, wanted, new) /\ files = Retranslated(b, dirty, redone, c)
  OBVIOUS
<1>5. PICK st : st = Stamped(z, Index(z), files, c)
  OBVIOUS
<1>6. PICK r : r = Refolded(st, Index(z), files, c)
  OBVIOUS
<1>7. w \in {r, WithProjectOps(r)}
  BY <1>1, <1>2, <1>3, <1>4, <1>5, <1>6 DEF Assembles
<1>. QED  BY <1>1, <1>2, <1>3, <1>4, <1>5, <1>6, <1>7, AssemblyPublishes

(* A build from nothing has no clean file.                                 *)
LEMMA FreshPublishes ==
  ASSUME IInv, MaterializeFresh, NEW w, w = builder'
  PROVE  \E applied \in BOOLEAN : Published(w, OpsOf(applied))
<1>1. PICK c : c = cache'
  OBVIOUS
<1>2. Resolves(c)
  BY <1>1, FullBuildResolves DEF MaterializeFresh
<1>3. Assembles(EmptyBuilder, Present(src), {}, c)
  BY <1>1 DEF MaterializeFresh
<1>4. CleanFits(EmptyBuilder, Present(src)) /\ CleanParts(EmptyBuilder, Present(src), {})
  BY EmptyBuilderOK DEF CleanFits, CleanParts, IInv, TypeOK
<1>5. AnchorsTold(EmptyBuilder) /\ CleanTold(EmptyBuilder, src, Present(src), {})
  BY DEF AnchorsTold, CleanTold, EmptyBuilder, EmptyMemo
<1>. QED  BY <1>2, <1>3, <1>4, <1>5, EmptyBuilderOK, AssemblesPublishes

(* The builder of the last completed build says what its sources say.      *)
ToldBuilt == cache.valid => Tells(builder, built)

(* A clean file is as it was.                                              *)
LEMMA CleanIsUnchanged ==
  ASSUME IInv, InScope, NEW f \in Present(src), f \notin Dirty
  PROVE  Unchanged(built, f, Dirty, Redo)
<1>1. /\ Present(src) = Present(built) /\ src \in Sources /\ built \in Sources /\ cache.valid
      /\ Present(built) = Present(src)
  BY DEF IInv, TypeOK, ScopeCoversEdits, InScope
<1>2. \A g \in Present(src) : g \notin scope.files /\ g \notin Moved => SameFile(built, src, g)
  BY UnchangedFileIsSame
<1>3. f \notin scope.files /\ f \notin Moved /\ PyTwin(src, f) \cap (scope.files \cup Moved) = {}
  BY DEF Dirty
<1>4. SameFile(built, src, f)
  BY <1>2, <1>3
<1>5. /\ PayloadNodes(built, f) = PayloadNodes(src, f)
      /\ ExportsByName(built, f) = ExportsByName(src, f)
      /\ PerFileOps(built, f) = PerFileOps(src, f)
  BY <1>1, <1>4, PayloadsHonest
<1>6. PyTwin(built, f) = PyTwin(src, f) /\ ParentModule(built, f) = ParentModule(src, f)
  BY <1>1, PathsHonest
<1>7. RefSpecs(built, f) = RefSpecs(src, f)
  <2>1. cache.rows[f] = RefSpecs(src, f)
    BY CleanRowsAreFresh
  <2>2. cache.rows = [g \in Present(built) |-> RefSpecs(built, g)]
    BY <1>1 DEF IInv, CacheMatchesBuilt
  <2>. QED  BY <1>1, <2>1, <2>2
<1>8. ASSUME NEW g \in PyTwin(src, f)
      PROVE  g \notin Dirty /\ ExportsByName(built, g) = ExportsByName(src, g)
  <2>1. g \in Present(src) /\ g \notin scope.files /\ g \notin Moved
    BY <1>1, <1>3, TwinsPresent
  <2>2. PyTwin(src, g) = {}
    BY <1>1, <2>1, TwinsOfStubs
  <2>3. g \notin Dirty
    BY <2>1, <2>2 DEF Dirty
  <2>4. SameFile(built, src, g)
    BY <1>2, <2>1
  <2>. QED  BY <1>1, <2>1, <2>3, <2>4, PayloadsHonest
<1>9. ASSUME NEW row \in RefSpecs(src, f), row.key.role # "local", row.key \notin Redo
      PROVE  ResolveMember(row.key, built) = ResolveMember(row.key, src)
  <2>1. row.key \in LiveKeys(src)
    BY <1>1, <1>9, PayloadsAssumption DEF LiveKeys
  <2>2. cache.memo[row.key] = ResolveMember(row.key, src)
    BY <1>9, <2>1, KeptAnswersAreFresh
  <2>3. row.key \in cache.live
    BY <1>9, <2>1, GatherIsFresh DEF Redo
  <2>4. cache.memo[row.key] = ResolveMember(row.key, built)
    BY <1>1, <2>3 DEF IInv, CacheMatchesBuilt
  <2>. QED  BY <2>2, <2>4
<1>. QED  BY <1>5, <1>6, <1>7, <1>8, <1>9 DEF Unchanged

(* So the carried builder is one to start from.                            *)
LEMMA IncrementalPublishes ==
  ASSUME BuilderIInv, ToldBuilt, MaterializeIncremental, NEW w, w = builder'
  PROVE  \E applied \in BOOLEAN : Published(w, OpsOf(applied))
<1>1. PICK c : c = cache'
  OBVIOUS
<1>2. Resolves(c)
  BY <1>1, IncrementalBuildResolves DEF MaterializeIncremental, BuilderIInv
<1>3. Assembles(builder, Dirty, Redo, c)
  BY <1>1 DEF MaterializeIncremental
<1>4. CleanFits(builder, Dirty) /\ CleanParts(builder, Dirty, Redo)
  BY CarriedFits DEF MaterializeIncremental
<1>5. SlotsOK(builder) /\ FlagsOK(builder) /\ DOMAIN builder.parts = DOMAIN builder.blocks
  BY DEF BuilderIInv, BuilderOK, EdgesOK
<1>6. /\ InScope /\ IInv /\ Present(built) = Present(src) /\ built \in Sources
      /\ DOMAIN builder.blocks = Present(built) /\ Sized(builder, built) /\ Tells(builder, built)
  BY DEF MaterializeIncremental, Gate, BuilderIInv, OfBuilt, ToldBuilt, IInv, TypeOK, ScopeCoversEdits, InScope
<1>7. AnchorsTold(builder)
  BY <1>6 DEF Tells, TellsAnchors, AnchorsTold
<1>8. CleanTold(builder, built, Dirty, Redo)
  BY <1>6, CleanIsUnchanged DEF CleanTold, OldBuilder
<1>. QED  BY <1>2, <1>3, <1>4, <1>5, <1>7, <1>8, AssemblesPublishes

(* What is published says what the sources say.                            *)
LEMMA PublishedIsTold ==
  ASSUME NEW w, w = builder', NEW ops, Published(w, ops), built' = src
  PROVE  ToldBuilt'
<1>1. Tells(w, src)
  BY DEF Published
<1>. QED  BY <1>1 DEF ToldBuilt

(* The invariant is inductive.                                             *)
LEMMA ToldStep ==
  ASSUME BuilderIInv, ToldBuilt, [GraphNext]_allVars
  PROVE  ToldBuilt'
<1>1. ASSUME UNCHANGED <<builder, cache, built>> PROVE ToldBuilt'
  BY <1>1 DEF ToldBuilt
<1>2. CASE MaterializeFresh
  <2>1. PICK w : w = builder'
    OBVIOUS
  <2>2. built' = src
    BY <1>2 DEF MaterializeFresh, FullBuild, BuildCompleted
  <2>. QED  BY <1>2, <2>1, <2>2, FreshPublishes, PublishedIsTold DEF BuilderIInv
<1>3. CASE MaterializeIncremental
  <2>1. PICK w : w = builder'
    OBVIOUS
  <2>2. built' = src
    BY <1>3 DEF MaterializeIncremental, IncrementalBuild, BuildCompleted
  <2>. QED  BY <1>3, <2>1, <2>2, IncrementalPublishes, PublishedIsTold
<1>4. CASE MaterializeFails
  BY <1>4 DEF MaterializeFails, BuildFails, EmptyCache, ToldBuilt
<1>5. ASSUME NEW f \in File, NEW s \in Sources, ApplyChanged(f, s) \/ ApplyStructural(f, s), UNCHANGED builder
      PROVE  ToldBuilt'
  BY <1>1, <1>5 DEF ApplyChanged, ApplyStructural
<1>. QED  BY <1>1, <1>2, <1>3, <1>4, <1>5 DEF GraphNext, allVars

(* The builder of the last completed build holds the nodes, flags, anchors *)
(* and edges that its sources alone determine.                             *)
THEOREM BuilderTellsSources == GraphSpec => [](cache.valid => Tells(builder, built))
<1>1. GraphInit => ToldBuilt
  BY DEF GraphInit, Init, EmptyCache, ToldBuilt
<1>2. BuilderIInv /\ ToldBuilt /\ [GraphNext]_allVars => ToldBuilt'
  BY ToldStep
<1>3. ToldBuilt => (cache.valid => Tells(builder, built))
  BY DEF ToldBuilt
<1>. QED  BY <1>1, <1>2, <1>3, BuilderInvariant, PTL DEF GraphSpec

(* The graph that is published is the one the sources determine.           *)
LEMMA PublishStep ==
  ASSUME NEW w, w = builder', \E applied \in BOOLEAN : Published(w, OpsOf(applied)), src' = src,
         src \in Sources
  PROVE  Fresh!Publish
<1>1. PICK applied \in BOOLEAN : Published(w, OpsOf(applied))
  OBVIOUS
<1>2. ServedOf(w) = Graph(src, applied)
  BY <1>1, PublishedIsGraph
<1>3. Served' = ServedOf(w)
  BY DEF Served, ServedOf, Live
<1>4. TabledGraph(src, applied) = Graph(src, applied)
  <2>1. Table([b \in BOOLEAN |-> Graph(src, b)])[applied] = Graph(src, applied)
    BY DEF Table
  <2>2. GraphTable[src] = Table([b \in BOOLEAN |-> Graph(src, b)])
    BY DEF GraphTable, Table
  <2>. QED  BY <2>1, <2>2 DEF TabledGraph
<1>. QED  BY <1>2, <1>3, <1>4 DEF Fresh!Publish

(* Every step is one of the graph that is promised: a build publishes, a   *)
(* failed build leaves nothing, an edit leaves what is served.             *)
LEMMA FreshGraphStep ==
  ASSUME BuilderIInv, ToldBuilt, [GraphNext]_allVars
  PROVE  [Fresh!Next]_<<src, Served>>
<1>0. src \in Sources
  BY DEF BuilderIInv, IInv, TypeOK
<1>1. ASSUME src' \in Sources, UNCHANGED builder PROVE Fresh!Next
  <2>1. Served' = Served
    BY <1>1 DEF Served, Live
  <2>. QED  BY <1>1, <2>1 DEF Fresh!Edit, Fresh!Next
<1>2. CASE MaterializeFresh
  <2>1. PICK w : w = builder'
    OBVIOUS
  <2>2. src' = src
    BY <1>2 DEF MaterializeFresh, FullBuild, BuildCompleted
  <2>3. \E applied \in BOOLEAN : Published(w, OpsOf(applied))
    BY <1>2, <2>1, FreshPublishes DEF BuilderIInv
  <2>. QED  BY <1>0, <2>1, <2>2, <2>3, PublishStep DEF Fresh!Next
<1>3. CASE MaterializeIncremental
  <2>1. PICK w : w = builder'
    OBVIOUS
  <2>2. src' = src
    BY <1>3 DEF MaterializeIncremental, IncrementalBuild, BuildCompleted
  <2>3. \E applied \in BOOLEAN : Published(w, OpsOf(applied))
    BY <1>3, <2>1, IncrementalPublishes
  <2>. QED  BY <1>0, <2>1, <2>2, <2>3, PublishStep DEF Fresh!Next
<1>4. CASE MaterializeFails
  <2>1. builder' = EmptyBuilder /\ src' = src
    BY <1>4 DEF MaterializeFails, BuildFails
  <2>2. Served' = NothingServed
    <3>1. Live(EmptyBuilder) = {} /\ EmptyBuilder.edges = {}
      BY DEF Live, EmptyBuilder
    <3>2. Cardinality({}) = 0
      BY FS_EmptySet
    <3>3. Served' = ServedOf(EmptyBuilder)
      BY <2>1 DEF Served, ServedOf, Live
    <3>. QED  BY <3>1, <3>2, <3>3 DEF ServedOf, NothingServed
  <2>. QED  BY <2>1, <2>2 DEF Fresh!Fail, Fresh!Next
<1>5. ASSUME NEW f \in File, NEW s \in Sources, ApplyChanged(f, s) \/ ApplyStructural(f, s), UNCHANGED builder
      PROVE  Fresh!Next
  BY <1>1, <1>5 DEF ApplyChanged, ApplyStructural
<1>6. CASE UNCHANGED allVars
  BY <1>6 DEF allVars, Served, Live
<1>. QED  BY <1>2, <1>3, <1>4, <1>5, <1>6 DEF GraphNext

(* Whatever was built before, a completed build serves the graph its       *)
(* sources alone determine: the nodes, their flags, the edges and no more, *)
(* with what the plugins contribute when their pass succeeds.              *)
THEOREM BuildsServeFreshGraph == GraphSpec => ServesFreshGraph
<1>1. GraphInit => Fresh!Init
  <2> SUFFICES ASSUME GraphInit PROVE Fresh!Init
    OBVIOUS
  <2>1. Live(EmptyBuilder) = {} /\ EmptyBuilder.edges = {} /\ builder = EmptyBuilder
    BY DEF Live, EmptyBuilder, GraphInit
  <2>2. Cardinality({}) = 0
    BY FS_EmptySet
  <2>3. Served = ServedOf(EmptyBuilder)
    BY <2>1 DEF Served, ServedOf
  <2>4. Served = NothingServed
    BY <2>1, <2>2, <2>3 DEF ServedOf, NothingServed
  <2>. QED  BY <2>4 DEF GraphInit, Init, Fresh!Init
<1>2. BuilderIInv /\ ToldBuilt /\ [GraphNext]_allVars => [Fresh!Next]_<<src, Served>>
  BY FreshGraphStep
<1>3. GraphInit => ToldBuilt
  BY DEF GraphInit, Init, EmptyCache, ToldBuilt
<1>4. BuilderIInv /\ ToldBuilt /\ [GraphNext]_allVars => ToldBuilt'
  BY ToldStep
<1>. QED  BY <1>1, <1>2, <1>3, <1>4, BuilderInvariant, PTL DEF GraphSpec, ServesFreshGraph, Fresh!Spec
-----------------------------------------------------------------------------
(* A graph that is saved and loaded again.                                 *)

OnDisk == INSTANCE GraphFileProofs

(* Everything live is a NodeRef: it is of a payload, or an anchor.         *)
NodeRefs == \A i \in Live(builder) : IsNodeRef(builder.nodes[i].ref)

(* A builder is carried only by a build that completed.                    *)
EmptyUnlessBuilt == cache.valid \/ builder = EmptyBuilder

LEMMA CarriedOnlyWhenBuilt == GraphSpec => []EmptyUnlessBuilt
<1>1. GraphInit => EmptyUnlessBuilt
  BY DEF GraphInit, EmptyUnlessBuilt
<1>2. EmptyUnlessBuilt /\ [GraphNext]_allVars => EmptyUnlessBuilt'
  <2> SUFFICES ASSUME EmptyUnlessBuilt, [GraphNext]_allVars PROVE EmptyUnlessBuilt'
    OBVIOUS
  <2>1. ASSUME UNCHANGED <<builder, cache>> PROVE EmptyUnlessBuilt'
    BY <2>1 DEF EmptyUnlessBuilt
  <2>2. CASE MaterializeFresh
    BY <2>2 DEF MaterializeFresh, FullBuild, EmptyUnlessBuilt
  <2>3. CASE MaterializeIncremental
    BY <2>3 DEF MaterializeIncremental, IncrementalBuild, EmptyUnlessBuilt
  <2>4. CASE MaterializeFails
    BY <2>4 DEF MaterializeFails, EmptyUnlessBuilt
  <2>5. ASSUME NEW f \in File, NEW s \in Sources, ApplyChanged(f, s) \/ ApplyStructural(f, s), UNCHANGED builder
        PROVE  EmptyUnlessBuilt'
    BY <2>1, <2>5 DEF ApplyChanged, ApplyStructural
  <2>. QED  BY <2>1, <2>2, <2>3, <2>4, <2>5 DEF GraphNext, allVars
<1>. QED  BY <1>1, <1>2, PTL DEF GraphSpec

(* What is live is a node of a file of the sources of the last build, or   *)
(* an anchor they target.                                                  *)
LEMMA LiveAreNodeRefs ==
  ASSUME BuilderIInv, EmptyUnlessBuilt, cache.valid => Tells(builder, built)
  PROVE  NodeRefs
<1>1. CASE builder = EmptyBuilder
  BY <1>1 DEF NodeRefs, Live, EmptyBuilder
<1>2. CASE cache.valid
  <2> SUFFICES ASSUME NEW i \in Live(builder) PROVE IsNodeRef(builder.nodes[i].ref)
    BY DEF NodeRefs
  <2>1. /\ SlotsOK(builder) /\ Tells(builder, built) /\ built \in Sources
        /\ DOMAIN builder.blocks = Present(built) /\ Sized(builder, built)
    BY <1>2 DEF BuilderIInv, BuilderOK, OfBuilt, IInv, TypeOK, CacheMatchesBuilt
  <2>2. CASE i \in AnchorSlots(builder)
    <3>1. PICK r \in DOMAIN builder.externals : builder.externals[r] = i
      BY <2>2 DEF AnchorSlots
    <3>2. r \in ExternalsOf(built) /\ BaseNode(builder, i) = AnchorNode(r)
      BY <2>1, <3>1 DEF Tells, TellsAnchors
    <3>3. builder.nodes[i].ref = r
      BY <3>2 DEF BaseNode, AnchorNode
    <3>4. IsNodeRef(r)
      BY <2>1, <3>2, NodeRefsAssumption DEF ExternalsOf
    <3>. QED  BY <3>3, <3>4
  <2>3. CASE i \in BlockSlots(builder)
    <3>1. PICK f \in Present(built) : i \in Block(builder, f)
      BY <2>1, <2>3 DEF BlockSlots
    <3>2. PICK base \in Nat, len \in Nat :
            base = builder.blocks[f].base /\ len = builder.blocks[f].len /\ len = Len(PayloadNodes(built, f))
      BY <2>1 DEF SlotsOK, BlocksOK, Sized
    <3>3. i \in (base + 1) .. (base + len)
      BY <2>1, <3>1, <3>2 DEF Block
    <3>4. DOMAIN PayloadNodes(built, f) = 1 .. len
      BY <2>1, <3>2, PayloadsAssumption
    <3>5. PICK k : k \in 1 .. len /\ i = base + k
      <4>1. i - base \in 1 .. len /\ i = base + (i - base)
        BY <3>3
      <4>. QED  BY <4>1
    <3>6. BaseNode(builder, i) = FileNode(built, f, k)
      BY <2>1, <3>2, <3>4, <3>5 DEF Tells, TellsNodes
    <3>7. builder.nodes[i].ref = PayloadNodes(built, f)[k].ref
      <4>1. PICK r, fl : FileNode(built, f, k) = [ref |-> r, flags |-> fl] /\ r = PayloadNodes(built, f)[k].ref
        BY FileNodeIs DEF Weathered
      <4>2. BaseNode(builder, i).ref = builder.nodes[i].ref
        BY DEF BaseNode
      <4>. QED  BY <3>6, <4>1, <4>2
    <3>. QED  BY <2>1, <3>4, <3>5, <3>7, NodeRefsAssumption
  <2>. QED  BY <2>1, <2>2, <2>3 DEF SlotsOK
<1>. QED  BY <1>1, <1>2 DEF EmptyUnlessBuilt

(* What write_graph reads is a live graph, its blanks the tombstones.      *)
LEMMA ContextIsLive ==
  ASSUME BuilderIInv, NodeRefs
  PROVE  OnDisk!LiveGraph(Context, Len(builder.nodes)) /\ OnDisk!Keep(builder.nodes) = Live(builder)
<1>1. NodesOK(builder) /\ EdgesOK(builder)
  BY DEF BuilderIInv, BuilderOK, SlotsOK
<1>2. DOMAIN builder.nodes = 1 .. Len(builder.nodes) /\ Len(builder.nodes) \in Nat
  BY <1>1 DEF NodesOK, IsSequence
<1>3. OnDisk!Keep(builder.nodes) = Live(builder)
  <2>1. Blank.ref = Absent
    BY DEF Blank
  <2>2. \A i \in DOMAIN builder.nodes : builder.nodes[i] = Blank <=> i \in builder.tombstoned
    BY <1>1, <2>1 DEF NodesOK
  <2>. QED  BY <2>2 DEF OnDisk!Keep, Live
<1>4. Context.nodes = builder.nodes /\ Context.edges = builder.edges
  BY DEF Context
<1>5. \A i \in Live(builder) : OnDisk!IsNode(builder.nodes[i])
  BY <1>1 DEF NodesOK, NodeRefs, IsNodeRef, OnDisk!IsNode, Live
<1>. QED  BY <1>1, <1>2, <1>3, <1>4, <1>5 DEF OnDisk!LiveGraph, EdgesOK

(* The graph file of module GraphAssembly is that of module                *)
(* GraphFileProofs.                                                        *)
LEMMA CardinalityIsOnDisk ==
  ASSUME NEW S
  PROVE  Disk!Cardinality(S) = Cardinality(S) /\ OnDisk!Cardinality(S) = Cardinality(S)
BY DEF Cardinality, Disk!Cardinality, OnDisk!Cardinality

(* write_graph, operator by operator.                                      *)
LEMMA WrittenIsOnDisk == ASSUME NEW g PROVE Disk!Written(g) = OnDisk!Written(g)
<1>1. \A nodes : Disk!Keep(nodes) = OnDisk!Keep(nodes)
  BY DEF Disk!Keep, OnDisk!Keep
<1>2. \A S, k : Disk!Nth(S, k) = OnDisk!Nth(S, k)
  BY CardinalityIsOnDisk DEF Disk!Nth, OnDisk!Nth
<1>3. \A nodes : Disk!Remap(nodes) = OnDisk!Remap(nodes)
  BY <1>1, CardinalityIsOnDisk DEF Disk!Remap, OnDisk!Remap
<1>4. \A nodes : Disk!Packed(nodes) = OnDisk!Packed(nodes)
  BY <1>1, <1>2, CardinalityIsOnDisk DEF Disk!Packed, OnDisk!Packed
<1>5. \A packed : Disk!PathTable(packed) = OnDisk!PathTable(packed)
  BY <1>2, CardinalityIsOnDisk DEF Disk!PathTable, OnDisk!PathTable, Disk!Firsts, OnDisk!Firsts
<1>6. \A paths, node : Disk!Record(paths, node) = OnDisk!Record(paths, node)
  BY DEF Disk!Record, OnDisk!Record, Disk!PathIdx, OnDisk!PathIdx
<1>. QED  BY <1>1, <1>3, <1>4, <1>5, <1>6 DEF Disk!Written, OnDisk!Written

(* read_graph and reachable.                                               *)
LEMMA LoadedIsOnDisk ==
  ASSUME NEW g, NEW mask
  PROVE  Disk!Loaded(g) = OnDisk!Loaded(g) /\ Disk!Reachable(g, mask) = OnDisk!Reachable(g, mask)
<1>1. Disk!Loaded(g) = OnDisk!Loaded(g)
  BY DEF Disk!Loaded, Disk!Ref, OnDisk!Loaded, OnDisk!Ref
<1>2. Disk!Reachable(g, mask) = OnDisk!Reachable(g, mask)
  BY DEF Disk!Reachable, Disk!Visited, Disk!Visit, Disk!Seeds,
         OnDisk!Reachable, OnDisk!Visited, OnDisk!Visit, OnDisk!Seeds
<1>. QED  BY <1>1, <1>2

(* At any point of a session the graph that is saved and loaded again has  *)
(* the nodes, edges and answers of the live one, and writes the same file. *)
THEOREM SavedGraphsAnswerTheSame == GraphSpec => []SavedGraphAnswersTheSame
<1>1. BuilderIInv /\ NodeRefs => SavedGraphAnswersTheSame
  <2> SUFFICES ASSUME BuilderIInv, NodeRefs PROVE SavedGraphAnswersTheSame
    OBVIOUS
  <2>1. PICK n : n = Len(builder.nodes) /\ OnDisk!LiveGraph(Context, n) /\ OnDisk!Keep(builder.nodes) = Live(builder)
    BY ContextIsLive
  <2>2. PICK file : file = OnDisk!Written(Context)
    OBVIOUS
  <2>3. PICK loaded : loaded = OnDisk!Loaded(file)
    OBVIOUS
  <2>4. Context.nodes = builder.nodes /\ Context.edges = builder.edges
    BY DEF Context
  <2>5. Blank.flags \cap {"ENTRYPOINT"} = {}
    BY DEF Blank
  <2>6. /\ OnDisk!SameGraph(Context, loaded)
        /\ OnDisk!Reachable(loaded, {"ENTRYPOINT"}) = OnDisk!Reachable(Context, {"ENTRYPOINT"})
        /\ OnDisk!Written(loaded) = file
    BY <2>1, <2>2, <2>3, <2>5, OnDisk!SavedGraphRoundTrips
  <2>7. PICK served : served = Served
    OBVIOUS
  <2>8. /\ served.size = Cardinality(Live(builder)) /\ served.nodes = {builder.nodes[i] : i \in Live(builder)}
        /\ served.edges = {<<builder.nodes[e[1]].ref, builder.nodes[e[2]].ref>> : e \in builder.edges}
    BY <2>7 DEF Served
  <2>9. /\ Len(loaded.nodes) = served.size
        /\ {loaded.nodes[k] : k \in DOMAIN loaded.nodes} = served.nodes
        /\ \A e \in loaded.edges : {e[1], e[2]} \subseteq DOMAIN loaded.nodes
        /\ {<<loaded.nodes[e[1]].ref, loaded.nodes[e[2]].ref>> : e \in loaded.edges} = served.edges
    <3>1. Len(loaded.nodes) = OnDisk!Cardinality(OnDisk!Keep(Context.nodes))
      BY <2>6 DEF OnDisk!SameGraph
    <3>2. {loaded.nodes[k] : k \in DOMAIN loaded.nodes} = {Context.nodes[i] : i \in OnDisk!Keep(Context.nodes)}
      BY <2>6 DEF OnDisk!SameGraph
    <3>3. \A e \in loaded.edges : {e[1], e[2]} \subseteq DOMAIN loaded.nodes
      BY <2>6 DEF OnDisk!SameGraph
    <3>4. {<<loaded.nodes[e[1]].ref, loaded.nodes[e[2]].ref>> : e \in loaded.edges}
            = {<<Context.nodes[e[1]].ref, Context.nodes[e[2]].ref>> : e \in Context.edges}
      BY <2>6 DEF OnDisk!SameGraph
    <3>5. Len(loaded.nodes) = served.size
      BY <2>1, <2>4, <2>8, <3>1, CardinalityIsOnDisk
    <3>6. {loaded.nodes[k] : k \in DOMAIN loaded.nodes} = served.nodes
      BY <2>1, <2>4, <2>8, <3>2
    <3>7. {<<loaded.nodes[e[1]].ref, loaded.nodes[e[2]].ref>> : e \in loaded.edges} = served.edges
      BY <2>4, <2>8, <3>4
    <3>. QED  BY <3>3, <3>5, <3>6, <3>7
  <2>10. /\ file = Disk!Written(Context) /\ loaded = Disk!Loaded(file)
         /\ Disk!Reachable(loaded, {"ENTRYPOINT"}) = Disk!Reachable(Context, {"ENTRYPOINT"})
         /\ Disk!Written(loaded) = file
    BY <2>2, <2>3, <2>6, WrittenIsOnDisk, LoadedIsOnDisk
  <2>. QED  BY <2>7, <2>9, <2>10 DEF SavedGraphAnswersTheSame
<1>2. BuilderIInv /\ EmptyUnlessBuilt /\ (cache.valid => Tells(builder, built)) => NodeRefs
  BY LiveAreNodeRefs
<1>. QED  BY <1>1, <1>2, BuilderInvariant, CarriedOnlyWhenBuilt, BuilderTellsSources, PTL
=============================================================================
