---------------------------- MODULE GraphAssembly ----------------------------
(***************************************************************************)
(* The graph builder across builds: assemble_graph, materialize            *)
(* (src/runtime/src/project.rs) and GraphBuilder (src/runtime/src/         *)
(* builder.rs), on top of the resolve cache.                               *)
(*                                                                         *)
(* A file's nodes are one contiguous block of dense ids.  An incremental   *)
(* build keeps the block and the cached out-edges (the part) of a clean    *)
(* file, tombstones the block of a dirty one and appends a new block at    *)
(* the tail; external anchors are interned by name, tombstoned while       *)
(* nothing targets them and revived at the same id.  Node flags are        *)
(* restored from the snapshot taken before the project-wide plugins        *)
(* added theirs, and the edges are the union of the parts.  When the       *)
(* tombstones outweigh the nodes the next build starts from nothing.       *)
(*                                                                         *)
(* Ids are positions in `nodes', from 1.  Edge flags, the order of equal   *)
(* edges and overload anchors are left out.  The build and the plugin pass *)
(* of one materialize call are one step.                                   *)
(***************************************************************************)
EXTENDS ResolveCache, Naturals, SequencesExt

CONSTANTS
  FileOrder,             \* the files in the order of their paths
  ExternalOrder,         \* the external modules in the order of their names
  PayloadNodes(_, _),    \* file_to_nodes: [ref, name, flags], the module first
  ExportsByName(_, _),   \* exports_by_name: name -> refs
  ParentModule(_, _),    \* parent_module_file, as a set
  PerFileOps(_, _),      \* [flags : {<<local, flag>>}, edges : {<<local, local>>}]
  ProjectOps(_)          \* [flagged : {ref}, edges : {<<ref, ref>>}]

Enumerates(order, S) ==
  /\ order \in Seq(S)
  /\ \A x \in S : \E i \in DOMAIN order : order[i] = x
  /\ \A i, j \in DOMAIN order : order[i] = order[j] => i = j

(* Paths are distinct, and so are the names of external modules.            *)
ASSUME OrdersAssumption ==
  /\ Enumerates(FileOrder, File)
  /\ Enumerates(ExternalOrder, {ExternalOrder[i] : i \in DOMAIN ExternalOrder})

(* A payload starts with the module and names no node twice; its refs, rows *)
(* and exports are of the file itself, and a row that is not local asks for *)
(* a member key.                                                            *)
ASSUME PayloadsAssumption ==
  \A s \in Sources : \A f \in Present(s) :
    /\ Len(PayloadNodes(s, f)) \in Nat \ {0}
    /\ DOMAIN PayloadNodes(s, f) = 1 .. Len(PayloadNodes(s, f))
    /\ \A i \in DOMAIN PayloadNodes(s, f) :
         LET ref == PayloadNodes(s, f)[i].ref
         IN  /\ ref # Absent /\ ref.file = f /\ ref.node # "external"
             /\ \A j \in DOMAIN PayloadNodes(s, f) : PayloadNodes(s, f)[j].ref = ref => j = i
    /\ \A row \in RefSpecs(s, f) :
         /\ row.key.role \in {"local", "use", "binding"}
         /\ row.src.file = f /\ row.src.node # "external"
         /\ IF row.key.role = "local" THEN row.dst.file = f /\ row.dst.node # "external"
            ELSE row.key \in MemberKeys(RefSpecs(s, f))
    /\ \A n \in DOMAIN ExportsByName(s, f) : \A ref \in ExportsByName(s, f)[n] :
         ref.file = f /\ ref.node # "external"
    /\ ParentModule(s, f) \subseteq Present(s)

(* A file that looks the same has the same payload, exports and operations. *)
ASSUME PayloadsHonest ==
  \A s, t \in Sources :
    Present(s) = Present(t) =>
      \A f \in Present(s) :
        SameFile(s, t, f) =>
          /\ PayloadNodes(s, f) = PayloadNodes(t, f)
          /\ ExportsByName(s, f) = ExportsByName(t, f)
          /\ PerFileOps(s, f) = PerFileOps(t, f)

(* Only a stub has a twin, and that is not a stub.                          *)
ASSUME TwinsOfStubs ==
  \A s \in Sources : \A f \in Present(s) :
    PyTwin(s, f) \cap Stub = {} /\ (f \notin Stub => PyTwin(s, f) = {})

(* Twins and parents are found by path.                                     *)
ASSUME PathsHonest ==
  \A s, t \in Sources :
    Present(s) = Present(t) =>
      \A f \in Present(s) : PyTwin(s, f) = PyTwin(t, f) /\ ParentModule(s, f) = ParentModule(t, f)

(* What an answer targets is a node of some file, or an external anchor.    *)
ASSUME AnswersAreNodes ==
  \A s \in Sources : \A k \in LiveKeys(s) : \A r \in ResolveMember(k, s).targets :
    \/ r.node = "external"
    \/ \E f \in Present(s) : \E i \in DOMAIN PayloadNodes(s, f) : PayloadNodes(s, f)[i].ref = r

(* A NodeRef is a record that says of which file or external module it is.  *)
IsNodeRef(ref) == "file" \in DOMAIN ref /\ ref = [field \in DOMAIN ref |-> ref[field]]

ASSUME NodeRefsAssumption ==
  \A s \in Sources :
    /\ \A f \in Present(s) : \A i \in DOMAIN PayloadNodes(s, f) : IsNodeRef(PayloadNodes(s, f)[i].ref)
    /\ \A k \in LiveKeys(s) : \A r \in ResolveMember(k, s).targets : IsNodeRef(r)

(* Plugins link two nodes at a time.                                        *)
ASSUME OpsAssumption ==
  \A s \in Sources : \A e \in ProjectOps(s).edges : e = <<e[1], e[2]>>

(* External anchors go by their names.                                      *)
ASSUME ExternalsAssumption ==
  \A s \in Sources :
    LET external == {r \in UNION {ResolveMember(k, s).targets : k \in LiveKeys(s)} : r.node = "external"}
    IN  \A r \in external :
          /\ r # Absent
          /\ \E i \in DOMAIN ExternalOrder : ExternalOrder[i] = r.file
          /\ \A q \in external : q.file = r.file => q = r

VARIABLE
  builder                \* GraphBuilder

allVars == <<src, scope, known, cache, built, builder>>

Blank == [ref |-> Absent, flags |-> {}]

EmptyBuilder ==
  [nodes |-> <<>>, blocks |-> EmptyMemo, tombstoned |-> {}, parts |-> EmptyMemo,
   baseFlags |-> <<>>, externals |-> EmptyMemo, edges |-> {}]

Before(order, x, y) ==
  \E i, j \in DOMAIN order : i < j /\ order[i] = x /\ order[j] = y

Block(b, f) ==
  IF f \in DOMAIN b.blocks THEN (b.blocks[f].base + 1) .. (b.blocks[f].base + b.blocks[f].len)
  ELSE {}

-----------------------------------------------------------------------------
(* Stage 1: the blocks of the dirty files.                                 *)

(* A stub's definition that its runtime twin does not export, or that has   *)
(* no twin, is kept alive.                                                  *)
StubOnly(s, f, name) ==
  f \in Stub /\ \A g \in PyTwin(s, f) : name \notin DOMAIN ExportsByName(s, g)

NewNode(s, f, i) ==
  LET data == PayloadNodes(s, f)[i]
  IN  [ref   |-> data.ref,
       flags |-> data.flags
                   \cup (IF data.ref.node = "def" /\ StubOnly(s, f, data.name)
                         THEN {"ENTRYPOINT"} ELSE {})
                   \cup {op[2] : op \in {o \in PerFileOps(s, f).flags : o[1] = i}}]

(* Where the new block of f starts: dirty files append in path order.       *)
NewBase(b, dirty, f) ==
  Len(b.nodes)
    + Cardinality(UNION {{g} \X DOMAIN PayloadNodes(src, g) :
                            g \in {h \in dirty : Before(FileOrder, h, f)}})

NewBlocks(b, dirty) ==
  [f \in DOMAIN b.blocks \cup dirty |->
     IF f \in dirty THEN [base |-> NewBase(b, dirty, f), len |-> Len(PayloadNodes(src, f))]
     ELSE b.blocks[f]]

(* Mutant: the flags of the last plugin pass stay.                          *)
KeptFlags(b) == b.nodes

(* The flags the last plugin pass added are erased.                         *)
Restored(b) == [i \in DOMAIN b.nodes |-> [b.nodes[i] EXCEPT !.flags = b.baseFlags[i]]]

(* The new blocks, one after the other.                                     *)
NewNodes(dirty) ==
  FlattenSeq([k \in DOMAIN FileOrder |->
    IF FileOrder[k] \notin dirty THEN <<>>
    ELSE [i \in DOMAIN PayloadNodes(src, FileOrder[k]) |-> NewNode(src, FileOrder[k], i)]])

Minted(b, dirty) ==
  LET old  == UNION {Block(b, f) : f \in dirty}
      kept == Restored(b)
  IN  [b EXCEPT !.nodes = [i \in DOMAIN b.nodes |-> IF i \in old THEN Blank ELSE kept[i]]
                            \o NewNodes(dirty),
                !.blocks = NewBlocks(b, dirty),
                !.tombstoned = @ \cup old]

-----------------------------------------------------------------------------
(* Stage 2: the external anchors the live answers target.                  *)

LiveExternals(c) ==
  {r \in UNION {c.memo[k].targets : k \in c.live} : r.node = "external"}

(* Mutant: every anchor is minted again.                                    *)
AllAnchors(b, wanted) ==
  LET Rank(r) == Cardinality({q \in wanted : Before(ExternalOrder, q.file, r.file)})
  IN  [j \in 1 .. Cardinality(wanted) |-> CHOOSE r \in wanted : Rank(r) = j - 1]

(* New anchors append in the order of their names.                          *)
NewAnchors(b, wanted) ==
  LET new     == wanted \ DOMAIN b.externals
      Rank(r) == Cardinality({q \in new : Before(ExternalOrder, q.file, r.file)})
  IN  [j \in 1 .. Cardinality(new) |-> CHOOSE r \in new : Rank(r) = j - 1]

(* Mutant: an anchor that goes leaves the map.                              *)
WantedIds(b, wanted, new) ==
  [r \in wanted |-> IF r \in DOMAIN b.externals THEN b.externals[r]
                    ELSE Len(b.nodes) + (CHOOSE j \in DOMAIN new : new[j] = r)]

(* The map keeps every anchor it ever had.                                  *)
AnchorIds(b, wanted, new) ==
  [r \in DOMAIN b.externals \cup wanted |->
     IF r \in DOMAIN b.externals THEN b.externals[r]
     ELSE Len(b.nodes) + (CHOOSE j \in DOMAIN new : new[j] = r)]

(* An anchor in the map keeps its id, revived if it was a tombstone; one    *)
(* that nothing targets becomes a tombstone and stays in the map.           *)
Interned(b, wanted, new) ==
  LET revived == {r \in wanted \cap DOMAIN b.externals : b.externals[r] \in b.tombstoned}
      stale   == {b.externals[r] : r \in DOMAIN b.externals \ wanted} \ b.tombstoned
      Anchor(r) == [ref |-> r, flags |-> {}]
      Slot(i) ==
        IF \E r \in revived : b.externals[r] = i THEN Anchor(CHOOSE r \in revived : b.externals[r] = i)
        ELSE IF i \in stale THEN Blank
        ELSE b.nodes[i]
  IN  [b EXCEPT
        !.nodes = [i \in DOMAIN b.nodes |-> Slot(i)] \o [j \in DOMAIN new |-> Anchor(new[j])],
        !.tombstoned = (@ \ {b.externals[r] : r \in revived}) \cup stale,
        !.externals = AnchorIds(b, wanted, new)]

-----------------------------------------------------------------------------
(* Stage 3: the parts to translate again.  b0 is the carried builder.      *)

(* Mutant: only a re-resolved row asks for it.                              *)
RetranslatedRows(b0, dirty, redone, c) ==
  dirty \cup {f \in Present(src) : MemberKeys(c.rows[f]) \cap redone # {}}

(* Dirty files, the consumers of an answer that was resolved again, and the *)
(* files with a cached edge into a block that was tombstoned just now.      *)
Retranslated(b0, dirty, redone, c) ==
  LET old == UNION {Block(b0, f) : f \in dirty}
  IN  dirty
        \cup {f \in Present(src) : MemberKeys(c.rows[f]) \cap redone # {}}
        \cup {f \in DOMAIN b0.parts : \E e \in b0.parts[f] : e[2] \in old}

(* The dense id of every NodeRef that has one: the base of its file's block *)
(* and its place in the payload, or its anchor.                             *)
Index(b) ==
  {<<r, b.externals[r]>> : r \in {q \in DOMAIN b.externals : b.externals[q] \notin b.tombstoned}}
    \cup UNION {LET nodes == PayloadNodes(src, f)
                    base  == b.blocks[f].base
                IN  {<<nodes[i].ref, base + i>> : i \in DOMAIN nodes} : f \in Present(src)}

Ids(index, refs) == {entry[2] : entry \in {x \in index : x[1] \in refs}}

(* spec_edges: an import of the importing file itself is suppressed as a    *)
(* whole, and only an import keeps a loop.                                  *)
SpecEdges(index, f, row, c) ==
  LET local   == row.key.role = "local"
      binding == row.key.role = "binding"
      dsts    == IF local THEN {row.dst} ELSE c.memo[row.key].targets
  IN  IF binding /\ f \in c.memo[row.key].start THEN {}
      ELSE {e \in Ids(index, {row.src}) \X Ids(index, dsts) : binding \/ e[1] # e[2]}

ModuleId(b, f) == b.blocks[f].base + 1

(* Every node hangs off its module, a module off its parent package.        *)
StructuralEdges(b, f) ==
  ((Block(b, f) \ {ModuleId(b, f)}) \X {ModuleId(b, f)})
    \cup {<<ModuleId(b, f), ModuleId(b, g)>> : g \in ParentModule(src, f)}

(* A stub's definition leads to the runtime twin's of the same name.        *)
PeerEdges(index, f) ==
  UNION {UNION {Ids(index, ExportsByName(src, f)[n]) \X Ids(index, ExportsByName(src, g)[n]) :
                  n \in DOMAIN ExportsByName(src, f) \cap DOMAIN ExportsByName(src, g)} :
           g \in PyTwin(src, f)}

PluginEdges(b, f) ==
  {<<b.blocks[f].base + e[1], b.blocks[f].base + e[2]>> :
     e \in {o \in PerFileOps(src, f).edges : {o[1], o[2]} \subseteq DOMAIN PayloadNodes(src, f)}}

Part(b, index, f, c) ==
  (UNION {SpecEdges(index, f, row, c) : row \in c.rows[f]})
    \cup StructuralEdges(b, f) \cup PeerEdges(index, f) \cup PluginEdges(b, f)

(* UNRESOLVED is cleared and set on the imports of those files alone.       *)
Stamped(b, index, files, c) ==
  LET imports == UNION {{row \in c.rows[f] : row.key.role = "binding"} : f \in files}
      bad     == UNION {Ids(index, {row.src}) : row \in {r \in imports : c.memo[r.key].unresolved}}
      good    == UNION {Ids(index, {row.src}) : row \in {r \in imports : ~c.memo[r.key].unresolved}}
      Flags(i) == (b.nodes[i].flags \ (IF i \in good THEN {"UNRESOLVED"} ELSE {}))
                    \cup (IF i \in bad THEN {"UNRESOLVED"} ELSE {})
  IN  [b EXCEPT !.nodes = [i \in DOMAIN b.nodes |-> [b.nodes[i] EXCEPT !.flags = Flags(i)]]]

(* Mutant: the flags are not saved for the next build.                      *)
RefoldedWithoutSnapshot(b, index, files, c) ==
  LET parts == [f \in Present(src) |-> IF f \in files THEN Part(b, index, f, c) ELSE b.parts[f]]
  IN  [b EXCEPT !.parts = parts, !.edges = UNION {parts[f] : f \in Present(src)}]

(* Stage 4: the new parts, the refold and the snapshot.                     *)
Refolded(b, index, files, c) ==
  LET parts == [f \in Present(src) |-> IF f \in files THEN Part(b, index, f, c) ELSE b.parts[f]]
  IN  [b EXCEPT !.parts = parts,
                !.edges = UNION {parts[f] : f \in Present(src)},
                !.baseFlags = [i \in DOMAIN b.nodes |-> b.nodes[i].flags]]

(* The project-wide plugins see the finished graph; the first error drops   *)
(* the operations of all of them.                                           *)
WithProjectOps(b) ==
  LET ops   == ProjectOps(src)
      index == Index(b)
      hit   == Ids(index, ops.flagged)
  IN  [b EXCEPT
        !.nodes = [i \in DOMAIN b.nodes |->
                     IF i \in hit THEN [b.nodes[i] EXCEPT !.flags = @ \cup {"ENTRYPOINT"}] ELSE b.nodes[i]],
        !.edges = @ \cup UNION {Ids(index, {e[1]}) \X Ids(index, {e[2]}) : e \in ops.edges}]

-----------------------------------------------------------------------------
(* Builds: the carried builder is reused only when it is coherent and not   *)
(* mostly tombstones.                                                       *)

(* Mutant: the graph is never compacted.                                    *)
GateWithoutCompaction ==
  /\ InScope
  /\ Cardinality(DOMAIN builder.blocks) = Cardinality(Present(src))
  /\ Cardinality(DOMAIN builder.parts) = Cardinality(Present(src))

Gate ==
  /\ InScope
  /\ Cardinality(DOMAIN builder.blocks) = Cardinality(Present(src))
  /\ Cardinality(DOMAIN builder.parts) = Cardinality(Present(src))
  /\ Cardinality(builder.tombstoned) * 2 <= Len(builder.nodes)

(* assemble_graph, from the carried builder b0 and the new resolve cache c, *)
(* and the plugin pass.                                                     *)
Assembles(b0, dirty, redone, c) ==
  \E minted \in {Minted(b0, dirty)}, wanted \in {LiveExternals(c)} :
  \E new \in {NewAnchors(minted, wanted)} :
  \E sized \in {Interned(minted, wanted, new)}, files \in {Retranslated(b0, dirty, redone, c)} :
  \E index \in {Index(sized)} :
  \E stamped \in {Stamped(sized, index, files, c)} :
  \E b \in {Refolded(stamped, index, files, c)} :
    builder' \in {b, WithProjectOps(b)}

MaterializeFresh ==
  /\ ~Gate
  /\ FullBuild
  /\ Assembles(EmptyBuilder, Present(src), {}, cache')

MaterializeIncremental ==
  /\ Gate
  /\ IncrementalBuild
  /\ \E dirty \in {Dirty}, redone \in {Redo} : Assembles(builder, dirty, redone, cache')

(* The old outputs stay, with the empty builder left in them.               *)
MaterializeFails ==
  /\ BuildFails
  /\ builder' = EmptyBuilder

GraphInit == Init /\ builder = EmptyBuilder

GraphNext ==
  \/ \E f \in File, s \in Sources : ApplyChanged(f, s) /\ UNCHANGED builder
  \/ \E f \in File, s \in Sources : ApplyStructural(f, s) /\ UNCHANGED builder
  \/ MaterializeFresh
  \/ MaterializeIncremental
  \/ MaterializeFails

GraphSpec == GraphInit /\ [][GraphNext]_allVars

-----------------------------------------------------------------------------
(* What the queries see, told by NodeRefs instead of dense ids.            *)

Live(b) == DOMAIN b.nodes \ b.tombstoned

Served ==
  [size  |-> Cardinality(Live(builder)),
   nodes |-> {builder.nodes[i] : i \in Live(builder)},
   edges |-> {<<builder.nodes[e[1]].ref, builder.nodes[e[2]].ref>> : e \in builder.edges}]

NothingServed == [size |-> 0, nodes |-> {}, edges |-> {}]

(* What they should see: the graph the sources determine, no ids involved.  *)
RefsOf(s, f) == {PayloadNodes(s, f)[i].ref : i \in DOMAIN PayloadNodes(s, f)}

Imports(s, f)  == {row \in RefSpecs(s, f) : row.key.role = "binding"}
Dangling(s, f) == {row \in Imports(s, f) : ResolveMember(row.key, s).unresolved}

(* A node of a file; an import is UNRESOLVED exactly when it dangles.       *)
FileNode(s, f, i) ==
  LET node == NewNode(s, f, i)
      stamp(rows) == IF \E row \in rows : row.src = node.ref THEN {"UNRESOLVED"} ELSE {}
  IN  [node EXCEPT !.flags = (@ \ stamp(Imports(s, f))) \cup stamp(Dangling(s, f))]

ExternalsOf(s) == {r \in UNION {ResolveMember(k, s).targets : k \in LiveKeys(s)} : r.node = "external"}

NodesOf(s) ==
  (UNION {{FileNode(s, f, i) : i \in DOMAIN PayloadNodes(s, f)} : f \in Present(s)})
    \cup {[ref |-> r, flags |-> {}] : r \in ExternalsOf(s)}

RowEdges(s, f, row) ==
  CASE row.key.role = "local" -> {<<row.src, row.dst>>} \ {<<row.src, row.src>>}
    [] row.key.role = "use" ->
         {<<row.src, r>> : r \in ResolveMember(row.key, s).targets \ {row.src}}
    [] row.key.role = "binding" ->
         LET found == ResolveMember(row.key, s)
         IN  {<<row.src, r>> : r \in IF f \in found.start THEN {} ELSE found.targets}

ExpectedEdges(s, f) ==
  LET module == PayloadNodes(s, f)[1].ref
      Ref(i) == PayloadNodes(s, f)[i].ref
  IN  (UNION {RowEdges(s, f, row) : row \in RefSpecs(s, f)})
        \cup ((RefsOf(s, f) \ {module}) \X {module})
        \cup {<<module, PayloadNodes(s, g)[1].ref>> : g \in ParentModule(s, f)}
        \cup (UNION {UNION {ExportsByName(s, f)[n] \X ExportsByName(s, g)[n] :
                              n \in DOMAIN ExportsByName(s, f) \cap DOMAIN ExportsByName(s, g)} :
                       g \in PyTwin(s, f)})
        \cup {<<Ref(e[1]), Ref(e[2])>> :
                 e \in {o \in PerFileOps(s, f).edges :
                          {o[1], o[2]} \subseteq DOMAIN PayloadNodes(s, f)}}

Graph(s, applied) ==
  LET ops   == IF applied THEN ProjectOps(s) ELSE [flagged |-> {}, edges |-> {}]
      Kept(node) == IF node.ref \in ops.flagged THEN {"ENTRYPOINT"} ELSE {}
      nodes == {[node EXCEPT !.flags = @ \cup Kept(node)] : node \in NodesOf(s)}
      refs  == {node.ref : node \in nodes}
      edges == (UNION {ExpectedEdges(s, f) : f \in Present(s)}) \cup ops.edges
  IN  [size  |-> Cardinality(nodes), nodes |-> nodes,
       edges |-> {e \in edges : {e[1], e[2]} \subseteq refs}]

GraphTable == Table([s \in Sources |-> Table([applied \in BOOLEAN |-> Graph(s, applied)])])
TabledGraph(s, applied) == GraphTable[s][applied]

Fresh == INSTANCE FreshGraph WITH graph <- Served, NoGraph <- NothingServed, GraphOf <- TabledGraph

(* What write_graph reads of a live context.                                *)
Context == [nodes |-> builder.nodes, edges |-> builder.edges]

Disk == INSTANCE GraphFile

-----------------------------------------------------------------------------
(* Properties.                                                             *)

(* The builder's parts agree on what a dense id is.                         *)
BuilderTypeOK ==
  LET ids == 1 .. Len(builder.nodes)
  IN  /\ Len(builder.baseFlags) = Len(builder.nodes)
      /\ DOMAIN builder.blocks = DOMAIN builder.parts
      /\ builder.tombstoned \subseteq ids
      /\ \A f \in DOMAIN builder.blocks : Block(builder, f) \subseteq ids
      /\ \A r \in DOMAIN builder.externals : builder.externals[r] \in ids

(* No edge, served or cached in a part, touches a tombstone, and every edge *)
(* of a part leaves the block of its own file: a cached part never needs    *)
(* the ids in it remapped (GraphBuilder::tombstoned).                       *)
EdgesAvoidTombstones ==
  /\ \A e \in builder.edges : {e[1], e[2]} \subseteq Live(builder)
  /\ \A f \in DOMAIN builder.parts : \A e \in builder.parts[f] :
       e[1] \in Block(builder, f) /\ e[2] \in Live(builder)

(* Every id is owned by exactly one of: a block, an anchor, the tombstones. *)
EveryIdOwnedOnce ==
  \A i \in DOMAIN builder.nodes :
    LET owners == {f \in DOMAIN builder.blocks : i \in Block(builder, f)}
        anchors == {r \in DOMAIN builder.externals : builder.externals[r] = i}
    IN  /\ Cardinality(owners) + Cardinality(anchors) <= 1
        /\ i \in Live(builder) <=> builder.nodes[i] # Blank
        /\ i \in Live(builder) => owners \cup anchors # {}

(* What is served after a build is what the sources alone determine.        *)
ServesFreshGraph == Fresh!Spec

(* Saved at any point of a session, tombstones and revived anchors          *)
(* included, and loaded again, the graph has the nodes, edges and answers   *)
(* of the live one, and a file written from it is the file it was read from *)
(* ("a graph written mid-session round-trips clean").                       *)
SavedGraphAnswersTheSame ==
  \E file \in {Disk!Written(Context)}, served \in {Served} : \E loaded \in {Disk!Loaded(file)} :
    /\ Len(loaded.nodes) = served.size
    /\ {loaded.nodes[k] : k \in DOMAIN loaded.nodes} = served.nodes
    /\ \A e \in loaded.edges : {e[1], e[2]} \subseteq DOMAIN loaded.nodes
    /\ {<<loaded.nodes[e[1]].ref, loaded.nodes[e[2]].ref>> : e \in loaded.edges} = served.edges
    /\ Disk!Reachable(loaded, {"ENTRYPOINT"}) = Disk!Reachable(Context, {"ENTRYPOINT"})
    /\ Disk!Written(loaded) = file

(* While builds stay incremental an id that is live never comes to mean     *)
(* another node, and an external anchor that went away and comes back gets  *)
(* the id it had.                                                           *)
IdsStayPut ==
  [][Gate /\ builder' # EmptyBuilder =>
       /\ \A i \in Live(builder) :
            builder'.nodes[i].ref \in {builder.nodes[i].ref, Absent}
       /\ \A r \in DOMAIN builder.externals :
            r \in DOMAIN builder'.externals /\ builder'.externals[r] = builder.externals[r]
    ]_allVars

(* However long the edits go on, an incremental build leaves at most twice  *)
(* as many dead slots as there were live nodes.                             *)
DeadSlotsBounded ==
  [][Gate => Cardinality(builder'.tombstoned) <= 2 * Cardinality(Live(builder))]_allVars

=============================================================================
