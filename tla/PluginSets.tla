------------------------------- MODULE PluginSets -------------------------------
(***************************************************************************)
(* The plugins of one ProjectContext (src/runtime/src/native_plugins.rs,   *)
(* src/runtime/src/project.rs): how plugin objects get process-wide ids,   *)
(* how the per-file ones run under the query per_file_plugin_ops keyed by  *)
(* the interned list of ids, what an incremental build takes from them,    *)
(* and the pass of the project-wide ones with the registries of the names  *)
(* they declare.                                                           *)
(*                                                                         *)
(* Contents are values and one edit changes one file; which further files  *)
(* a build re-mints or re-translates is GraphAssembly's business and is    *)
(* any set here.  Locks and other threads are in Session.                  *)
(***************************************************************************)
EXTENDS FlagRegistry, FiniteSetsExt, SequencesExt

CONSTANTS
  Files,          \* the project's files, in the order of their paths
  Contents,       \* per file: what it may contain
  NodesOf,        \* per content: the number of its nodes, the module node first
  Templates,      \* the plugins there are, see TemplateOK
  HashOf,         \* per canonical config: its hash
  NodeWidth, NodeBuiltins,
  EdgeWidth, EdgeBuiltins,
  MaxHandles,     \* bound: plugin objects constructed
  MaxPlugins,     \* bound: plugins registered at once
  MaxBuilds       \* bound: calls of materialize

File == ToSet(Files)
Pairs == UNION {{f} \X Contents[f] : f \in File}
Entrypoint == 1   \* the position of NodeFlags::ENTRYPOINT
Engine == {NodeBuiltins[k][1] : k \in DOMAIN NodeBuiltins}

(* A per-file operation: [op |-> "entry" | "flag" | "edge" | "fact"] with a *)
(* file-local index, and for "flag" a bit, "edge" a target, "fact" a topic. *)
TemplateOK(t) ==
  /\ t.kind \in {"builtin", "configured", "wide", "dual"}
  /\ t.kind \in {"builtin", "configured"} => t.nodeFlags = <<>> /\ t.edgeFlags = <<>> /\ t.topics = <<>>
  /\ DOMAIN t.emits = Pairs
  /\ \A k \in Pairs : t.emits[k] \in Seq(ToSet(t.emits[k]))
  /\ \A specs \in {t.nodeFlags, t.edgeFlags, t.topics} : specs \in Seq(ToSet(specs))
  /\ \A k \in Pairs : \A o \in ToSet(t.emits[k]) : o.op = "flag" => o.bit \in Engine
  /\ t.mayFail \in BOOLEAN

(* A hash stands for one config; a per-file plugin is told no bit but the   *)
(* engine's, whose table names each bit once and reserves the names.        *)
ASSUME PluginSetsAssumption ==
  /\ \A t \in Templates : TemplateOK(t)
  /\ \A k \in Pairs : NodesOf[k[2]] \in Nat \ {0}
  /\ \A t1, t2 \in {t \in Templates : t.kind = "configured"} :
       /\ ToSet(t1.config) = ToSet(t2.config) => t1.emits = t2.emits
       /\ HashOf[ToSet(t1.config)] = HashOf[ToSet(t2.config)] => ToSet(t1.config) = ToSet(t2.config)
  /\ RegistryOK(Seeded(NodeWidth, NodeBuiltins))
  /\ RegistryOK(Seeded(EdgeWidth, EdgeBuiltins))
  /\ LET byName == Seeded(NodeWidth, NodeBuiltins).byName
     IN  /\ Engine = {byName[n] : n \in DOMAIN byName} /\ Entrypoint \in Engine
         /\ \A n \in DOMAIN byName : Reserved(n)

VARIABLES
  registry,    \* process-wide: [external, configured, byHash, sets]
  handles,     \* the NativePlugin objects: [template, id]
  plugins,     \* ProjectContext::plugins
  content,     \* the sources salsa has
  scope,       \* pending_scope: the files changed since the last build, or Everything
  memo,        \* salsa's memos of per_file_plugin_ops: <<file, set>> -> [content, ops]
  graph,       \* what the outputs hold of the plugins' work: [base, now, edges, facts]
               \* and, for the properties, under which set each file got it
  flags,       \* the persisted registries: [node, edge, topic]
  pass,        \* the call of materialize that is running
  builds       \* the calls of materialize so far

vars == <<registry, handles, plugins, content, scope, memo, graph, flags, pass, builds>>

Everything == [full |-> TRUE, files |-> {}]
Changed(fs) == [full |-> FALSE, files |-> fs]
NoSet == 0

Outcome(kind) == [kind |-> kind, error |-> 0, of |-> {}]

(* No call of materialize is running, and nothing is said of the last one.  *)
Ready == [pc |-> "idle", set |-> NoSet, scope |-> Everything, at |-> 1, regs |-> flags, results |-> <<>>, outcome |-> Outcome("none")]

-----------------------------------------------------------------------------
(* Ids.                                                                    *)

(* Mutant: the hash of a config leaves the file names out.                  *)
ConfigHashOfKind(config) == 0

ConfigHash(config) == HashOf[ToSet(config)]

PerFileIds == {"builtin", "configured", "dual"}

(* An equal hash is an equal config.                                        *)
RegisterConfigured(t) ==
  LET hash == ConfigHash(t.config)
  IN  IF hash \in DOMAIN registry.byHash
      THEN [id |-> registry.byHash[hash], reg |-> registry]
      ELSE LET id == Len(registry.configured) + 1
           IN  [id |-> id,
                reg |-> [registry EXCEPT !.configured = Append(@, t), !.byHash = With(@, hash, id)]]

RegisterExternal(t) ==
  [id |-> Len(registry.external) + 1, reg |-> [registry EXCEPT !.external = Append(@, t)]]

(* The template an id stands for when the query looks it up.                *)
PluginOf(kind, id) ==
  CASE kind = "builtin" -> id
    [] kind = "configured" -> registry.configured[id]
    [] kind = "dual" -> registry.external[id]

(* The factories of NativePlugin and load_native_plugins.                   *)
Construct(t) ==
  LET made == CASE t.kind = "builtin"    -> [id |-> t, reg |-> registry]
                [] t.kind = "configured" -> RegisterConfigured(t)
                [] t.kind = "dual"       -> RegisterExternal(t)
                [] t.kind = "wide"       -> [id |-> NoSet, reg |-> registry]
  IN  /\ pass.pc = "idle" /\ Len(handles) < MaxHandles
      /\ handles' = Append(handles, [template |-> t, id |-> made.id])
      /\ registry' = made.reg
      /\ UNCHANGED <<plugins, content, scope, memo, graph, flags, pass, builds>>

AddPlugin(h) ==
  /\ pass.pc = "idle" /\ Len(plugins) < MaxPlugins
  /\ plugins' = Append(plugins, h)
  /\ pass' = Ready
  /\ UNCHANGED <<registry, handles, content, scope, memo, graph, flags, builds>>

ClearPlugins ==
  /\ pass.pc = "idle" /\ plugins # <<>>
  /\ plugins' = <<>>
  /\ pass' = Ready
  /\ UNCHANGED <<registry, handles, content, scope, memo, graph, flags, builds>>

-----------------------------------------------------------------------------
(* The sources.                                                            *)

(* Mutant: a changed file joins a scope that is everything already.         *)
ApplyChangedBesideFull(f, c) ==
  /\ pass.pc = "idle" /\ content[f] # c
  /\ content' = [content EXCEPT ![f] = c]
  /\ scope' = [scope EXCEPT !.files = @ \cup {f}]
  /\ pass' = Ready
  /\ UNCHANGED <<registry, handles, plugins, memo, graph, flags, builds>>

ApplyChanged(f, c) ==
  /\ pass.pc = "idle" /\ content[f] # c
  /\ content' = [content EXCEPT ![f] = c]
  /\ scope' = IF scope.full THEN scope ELSE Changed(scope.files \cup {f})
  /\ pass' = Ready
  /\ UNCHANGED <<registry, handles, plugins, memo, graph, flags, builds>>

ApplyRescan ==
  /\ pass.pc = "idle" /\ ~scope.full
  /\ scope' = Everything
  /\ pass' = Ready
  /\ UNCHANGED <<registry, handles, plugins, content, memo, graph, flags, builds>>

-----------------------------------------------------------------------------
(* The build.                                                              *)

Plugin(i) == handles[plugins[i]].template

(* The ids of the per-file plugins, each once, in order of registration.    *)
IdOf(i) == <<Plugin(i).kind, handles[plugins[i]].id>>

FirstOfItsId(i) == Plugin(i).kind \in PerFileIds /\ \A j \in 1 .. (i - 1) : IdOf(j) # IdOf(i)

PerFileList == FlattenSeq([i \in DOMAIN plugins |-> IF FirstOfItsId(i) THEN <<IdOf(i)>> ELSE <<>>])

(* The interned list's id; lists are told apart by a hash of the list.      *)
SetId(list) ==
  IF \E s \in DOMAIN registry.sets : registry.sets[s] = list
  THEN CHOOSE s \in DOMAIN registry.sets : registry.sets[s] = list
  ELSE Len(registry.sets) + 1

(* materialize begins: the set is interned, the scope taken.                *)
Extract ==
  LET list == PerFileList
      set  == IF list = <<>> THEN NoSet ELSE SetId(list)
  IN  /\ pass.pc = "idle" /\ builds < MaxBuilds
      /\ builds' = builds + 1
      /\ registry' = IF set > Len(registry.sets) THEN [registry EXCEPT !.sets = Append(@, list)] ELSE registry
      /\ pass' = [Ready EXCEPT !.pc = "build", !.set = set, !.scope = scope]
      /\ scope' = Everything
      /\ UNCHANGED <<handles, plugins, content, memo, graph, flags>>

(* What the plugins of a list, looked up by their ids, emit for a file.     *)
OpsOf(list, f, c) == FlattenSeq([i \in DOMAIN list |-> PluginOf(list[i][1], list[i][2]).emits[<<f, c>>]])

(* per_file_plugin_ops: salsa's memo while the file is what it was, else    *)
(* every plugin of the set.                                                 *)
PerFileOps(f) ==
  LET key == <<f, pass.set>>
  IN  IF key \in DOMAIN memo /\ memo[key].content = content[f] THEN memo[key]
      ELSE [content |-> content[f], ops |-> OpsOf(registry.sets[pass.set], f, content[f])]

Opened == IF pass.set = NoSet THEN [f \in File |-> [content |-> content[f], ops |-> <<>>]]
          ELSE [f \in File |-> PerFileOps(f)]

Warmed(opened) ==
  LET keys == {<<f, pass.set>> : f \in File}
  IN  IF pass.set = NoSet THEN memo
      ELSE [key \in DOMAIN memo \cup keys |-> IF key \in keys THEN opened[key[1]] ELSE memo[key]]

(* An index past the file's nodes is dropped.                               *)
HasNode(f, local) == local < NodesOf[content[f]]

FlagsIn(f, ops) ==
  [n \in 0 .. (NodesOf[content[f]] - 1) |->
     UNION {IF o.op = "entry" THEN {Entrypoint} ELSE {o.bit} :
              o \in {p \in ToSet(ops) : p.op \in {"entry", "flag"} /\ p.at = n}}]

EdgesIn(f, ops) ==
  {<<o.at, o.to>> : o \in {p \in ToSet(ops) : p.op = "edge" /\ HasNode(f, p.at) /\ HasNode(f, p.to)}}

(* The facts of every file, under their topics, in the order of the files   *)
(* and of their ops.                                                        *)
FactsIn(f, ops) ==
  LET told(o) == IF o.op = "fact" /\ HasNode(f, o.at) THEN <<[topic |-> o.topic, file |-> f, at |-> o.at]>> ELSE <<>>
  IN  FlattenSeq([j \in DOMAIN ops |-> told(ops[j])])

FactsOf(ops) == FlattenSeq([i \in DOMAIN Files |-> FactsIn(Files[i], ops[Files[i]])])

(* Mutant: only the files that are minted publish their facts.              *)
FactsOfMinted(ops, fill) ==
  LET minted(fact) == fact.file \in fill
  IN  SelectSeq(FactsOf(ops), minted) \o SelectSeq(graph.facts, LAMBDA fact : ~minted(fact))

(* Facts are derived anew from every file, clean or not.                    *)
FactsAfter(ops, fill) == FactsOf(ops)

BuildFails ==
  /\ pass.pc = "build"
  /\ pass' = [Ready EXCEPT !.outcome = Outcome("failed")]
  /\ UNCHANGED <<registry, handles, plugins, content, scope, memo, graph, flags, builds>>

(* Mutant: what the last pass left on the nodes stays there.                *)
CarriedKeepingFlags(f) == graph.now[f]

(* A clean file starts from the flags it had before the last plugin pass.   *)
Carried(f) == graph.base[f]

(* Assembly: what is minted gets the flags of its ops, what is translated   *)
(* again their edges; a clean file keeps both as they are.                  *)
Assemble ==
  /\ pass.pc = "build"
  /\ \E opened \in {Opened}, more \in SUBSET File :
       LET full == pass.scope.full
           fill == IF full THEN File ELSE pass.scope.files
           redo == fill \cup more
           base == [f \in File |-> IF f \in fill THEN FlagsIn(f, opened[f].ops) ELSE Carried(f)]
           set  == IF pass.set = NoSet THEN <<>> ELSE registry.sets[pass.set]
       IN  /\ full => more = {}
           /\ memo' = Warmed(opened)
           /\ graph' = [base |-> base, now |-> base,
                        edges |-> [f \in File |-> IF f \in redo THEN EdgesIn(f, opened[f].ops) ELSE graph.edges[f]],
                        facts |-> FactsAfter([f \in File |-> opened[f].ops], fill),
                        under |-> [f \in File |-> [flags |-> IF f \in fill THEN set ELSE graph.under[f].flags,
                                                   edges |-> IF f \in redo THEN set ELSE graph.under[f].edges]]]
  /\ scope' = Changed({})
  /\ pass' = [pass EXCEPT !.pc = "declare",
                          !.regs = [node |-> Seeded(NodeWidth, NodeBuiltins),
                                    edge |-> Seeded(EdgeWidth, EdgeBuiltins),
                                    topic |-> NewTopics]]
  /\ UNCHANGED <<registry, handles, plugins, content, flags, builds>>

-----------------------------------------------------------------------------
(* The plugin pass.                                                        *)

(* What the plugins declare: each one's node flags, edge flags and topics.  *)
Declarations ==
  LET of(kind, specs) == [k \in DOMAIN specs |-> [kind |-> kind, spec |-> specs[k]]]
  IN  FlattenSeq([i \in DOMAIN plugins |->
        of("node", Plugin(i).nodeFlags) \o of("edge", Plugin(i).edgeFlags) \o of("topic", Plugin(i).topics)])

Registered(decl) ==
  IF decl.kind = "topic" THEN RegisterTopic(pass.regs.topic, decl.spec)
  ELSE RegisterPlugin(pass.regs[decl.kind], decl.spec)

(* extract_plugin_jobs: one declaration; a refusal raises.                  *)
Declare ==
  /\ pass.pc = "declare" /\ pass.at <= Len(Declarations)
  /\ \E decl \in {Declarations[pass.at]} : \E r \in {Registered(decl)} :
       \/ r.ok /\ pass' = [pass EXCEPT !.at = @ + 1, !.regs[decl.kind] = r.reg]
       \/ ~r.ok /\ pass' = [Ready EXCEPT !.outcome = Outcome("refused")]
  /\ UNCHANGED <<registry, handles, plugins, content, scope, memo, graph, flags, builds>>

StartWorkers ==
  /\ pass.pc = "declare" /\ pass.at > Len(Declarations)
  /\ pass' = [pass EXCEPT !.pc = "run"]
  /\ UNCHANGED <<registry, handles, plugins, content, scope, memo, graph, flags, builds>>

Node == UNION {{<<f, n>> : n \in 0 .. (NodesOf[content[f]] - 1)} : f \in File}

(* What a plugin marks in the frozen graph: a dual one the nodes its topics *)
(* have facts about, a wide one every module.                               *)
Marked(t, topics) ==
  LET heard == {TopicNamed(topics, topics.byName[t.topics[k].name]) : k \in DOMAIN t.topics}
  IN  CASE t.kind = "dual" -> {<<fact.file, fact.at>> : fact \in {g \in ToSet(graph.facts) : g.topic \in heard}}
        [] t.kind = "wide" -> {<<f, 0>> : f \in File}
        [] OTHER -> {}

(* ... and stamps with each node flag it declared, by the mask it is told.  *)
Stamps(t) ==
  LET masks == UNION {FlagMask(pass.regs.node, t.nodeFlags[k].name) : k \in DOMAIN t.nodeFlags}
  IN  Marked(t, pass.regs.topic) \X masks

Done == {pass.results[k].plugin : k \in DOMAIN pass.results}

(* A worker finishes; results arrive in any order.                          *)
RunPlugin(i) ==
  /\ pass.pc = "run" /\ i \notin Done
  /\ \E fails \in {FALSE, Plugin(i).mayFail} :
       pass' = [pass EXCEPT !.results =
                  Append(@, [plugin |-> i, failed |-> fails, stamps |-> IF fails THEN {} ELSE Stamps(Plugin(i))])]
  /\ UNCHANGED <<registry, handles, plugins, content, scope, memo, graph, flags, builds>>

Failures == {k \in DOMAIN pass.results : pass.results[k].failed}

(* Mutant: the results are taken in the order they came.                    *)
FirstFailureToArrive == pass.results[Min(Failures)].plugin

FirstFailure == Min({pass.results[k].plugin : k \in Failures})

(* The batch is applied and the registries stored, or the first error is    *)
(* raised and nothing is.                                                   *)
Apply ==
  /\ pass.pc = "run" /\ Done = DOMAIN plugins
  /\ IF Failures # {}
     THEN /\ pass' = [Ready EXCEPT !.outcome =
                         [kind |-> "error", error |-> FirstFailure, of |-> {pass.results[k].plugin : k \in Failures}]]
          /\ UNCHANGED <<graph, flags>>
     ELSE LET stamps == UNION {pass.results[k].stamps : k \in DOMAIN pass.results}
              after(f) == [n \in DOMAIN graph.now[f] |-> graph.now[f][n] \cup {s[2] : s \in {x \in stamps : x[1] = <<f, n>>}}]
          IN  /\ graph' = [graph EXCEPT !.now = [f \in File |-> after(f)]]
              /\ flags' = pass.regs
              /\ pass' = [Ready EXCEPT !.outcome = Outcome("done"), !.regs = pass.regs]
  /\ UNCHANGED <<registry, handles, plugins, content, scope, memo, builds>>

-----------------------------------------------------------------------------
BareGraph == [base |-> [f \in File |-> [n \in {} |-> {}]], now |-> [f \in File |-> [n \in {} |-> {}]],
              edges |-> [f \in File |-> {}], facts |-> <<>>, under |-> [f \in File |-> [flags |-> <<>>, edges |-> <<>>]]]

Init ==
  /\ registry = [external |-> <<>>, configured |-> <<>>, byHash |-> EmptyMap, sets |-> <<>>]
  /\ handles = <<>> /\ plugins = <<>>
  /\ content \in {c \in [File -> UNION {Contents[f] : f \in File}] : \A f \in File : c[f] \in Contents[f]}
  /\ scope = Everything
  /\ memo = [key \in {} |-> [content |-> {}, ops |-> <<>>]]
  /\ graph = BareGraph
  /\ flags = [node |-> Seeded(NodeWidth, NodeBuiltins), edge |-> Seeded(EdgeWidth, EdgeBuiltins), topic |-> NewTopics]
  /\ pass = Ready
  /\ builds = 0

Materialize == Extract \/ BuildFails \/ Assemble \/ Declare \/ StartWorkers \/ Apply \/ \E i \in DOMAIN plugins : RunPlugin(i)

Next ==
  \/ \E t \in Templates : Construct(t)
  \/ \E h \in DOMAIN handles : AddPlugin(h)
  \/ ClearPlugins
  \/ \E f \in File : \E c \in Contents[f] : ApplyChanged(f, c)
  \/ ApplyRescan
  \/ Materialize

Spec == Init /\ [][Next]_vars

-----------------------------------------------------------------------------
(* Properties.                                                             *)

(* What the per-file plugins registered now emit for a file as it is now,   *)
(* from the plugins themselves and no id, list, memo or scope: each plugin  *)
(* object once, and builtin or configured ones once per configuration.      *)
SamePlugin(t1, t2) ==
  \/ t1.kind = "builtin" /\ t1 = t2
  \/ t1.kind = "configured" /\ t2.kind = "configured" /\ ToSet(t1.config) = ToSet(t2.config)

EmittedNow(f) ==
  LET again(i) == \E j \in 1 .. (i - 1) : plugins[j] = plugins[i] \/ SamePlugin(Plugin(j), Plugin(i))
      runs(i) == Plugin(i).kind \in PerFileIds /\ ~again(i)
  IN  FlattenSeq([i \in DOMAIN plugins |-> IF runs(i) THEN Plugin(i).emits[<<f, content[f]>>] ELSE <<>>])

Finished == pass.outcome.kind = "done"

TypeOK ==
  /\ \A k \in DOMAIN plugins : plugins[k] \in DOMAIN handles
  /\ \A f \in File : content[f] \in Contents[f]
  /\ scope.files \subseteq File /\ (scope.full => scope = Everything)
  /\ \A key \in DOMAIN memo : key[1] \in File /\ key[2] \in DOMAIN registry.sets
  /\ pass.pc \in {"idle", "build", "declare", "run"}

(* While the set of per-file plugins stays what a file was minted under,    *)
(* incremental builds leave it the flags and the edges a fresh build gives  *)
(* it: interned ids, lists and memos never stand for another plugin.        *)
GraphHasWhatItsSetEmits ==
  Finished =>
    \A f \in File :
      LET under == graph.under[f]
      IN  /\ under.flags = PerFileList => graph.base[f] = FlagsIn(f, EmittedNow(f))
          /\ under.edges = PerFileList => graph.edges[f] = EdgesIn(f, EmittedNow(f))

(* Whatever was registered, edited and rebuilt before, the facts are those  *)
(* of the plugins and sources of this build, in the order of the paths and  *)
(* of registration ("derived state, rebuilt from every file's ops").        *)
FactsAreThisBuilds == Finished => graph.facts = FactsOf([f \in File |-> EmittedNow(f)])

(* The bits above the engine's that a node carries are those the registries *)
(* of this build name, for the plugins of this build that marked the node:  *)
(* no bit of an earlier allocation, of a dropped plugin or cut off.         *)
BitsNameTheirFlag ==
  Finished =>
    \A f \in File : \A n \in DOMAIN graph.now[f] :
      graph.now[f][n] \ Engine
        = UNION {{flags.node.byName[Plugin(i).nodeFlags[k].name] : k \in DOMAIN Plugin(i).nodeFlags} :
                   i \in {j \in DOMAIN plugins : <<f, n>> \in Marked(Plugin(j), flags.topic)}}

(* The registries of a pass and those the context keeps are sound at every  *)
(* declaration, refused ones included: names and bits are one to one and    *)
(* every bit fits the flags it is stamped into.                             *)
RegistriesOK ==
  /\ RegistryOK(pass.regs.node) /\ RegistryOK(pass.regs.edge)
  /\ RegistryOK(flags.node) /\ RegistryOK(flags.edge)

(* The error that is raised is that of the first plugin registered, in      *)
(* whatever order the workers finish.                                       *)
FirstErrorWins ==
  pass.outcome.kind = "error" => \A i \in pass.outcome.of : pass.outcome.error <= i

(* "Build the project-wide graph, run every registered plugin".             *)
EveryPluginRan == Finished => \A f \in File : graph.base[f] = FlagsIn(f, EmittedNow(f))
=============================================================================
