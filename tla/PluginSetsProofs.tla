-------------------------- MODULE PluginSetsProofs --------------------------
(***************************************************************************)
(* Proofs about PluginSets, for any files, plugins, widths and tables of   *)
(* the engine: the flag registries, and then ids, memos, what the graph    *)
(* holds of the plugins' work, the declarations and the results of a pass. *)
(* Every call only adds to what has an id (Grown), so what was said of an  *)
(* id, a list or a memo stays true; the rest is one invariant, IInv.       *)
(***************************************************************************)
EXTENDS PluginSets, FlattenProofs

(* A new flag gets the next bit, within the width, and no other flag has    *)
(* that bit.                                                                *)
LEMMA NextBitIsFree ==
  ASSUME NEW width, NEW byName, NEW specs, NEW next, Sound(width, byName, specs, next),
         next \in Nat, next < width, NEW spec, spec.name \notin DOMAIN byName
  PROVE  Sound(width, With(byName, spec.name, next), Append(specs, [bit |-> next, spec |-> spec]), next + 1)
<1> DEFINE entry == [bit |-> next, spec |-> spec]
           names == With(byName, spec.name, next)
           longer == Append(specs, entry)
           old == {specs[i] : i \in DOMAIN specs}
           all == {longer[i] : i \in DOMAIN longer}
<1>1. /\ DOMAIN names = DOMAIN byName \cup {spec.name} /\ names[spec.name] = next
      /\ \A n \in DOMAIN byName : names[n] = byName[n] /\ names[n] < next /\ names[n] \in Nat
  <2>1. \A n \in DOMAIN byName : n # spec.name /\ byName[n] \in Nat /\ byName[n] < next
    BY DEF Sound
  <2>2. /\ DOMAIN names = DOMAIN byName \cup {spec.name} /\ names[spec.name] = next
        /\ \A n \in DOMAIN byName \ {spec.name} : names[n] = byName[n]
    BY DEF With
  <2>. QED  BY <2>1, <2>2
<1>2. specs \in Seq(old)
  BY DEF Sound
<1>3. /\ Len(specs) \in Nat /\ DOMAIN specs = 1 .. Len(specs)
      /\ DOMAIN longer = 1 .. (Len(specs) + 1)
      /\ longer[Len(specs) + 1] = entry
      /\ \A i \in DOMAIN specs : longer[i] = specs[i]
  <2>1. specs \in Seq(old \cup {entry})
    BY <1>2
  <2>. QED  BY <2>1
<1> HIDE DEF longer, names
<1>4. names \in [DOMAIN names -> Nat]
  <2>1. names = [n \in DOMAIN names |-> names[n]]
    BY <1>1 DEF names, With
  <2>2. \A n \in DOMAIN names : names[n] \in Nat
    BY <1>1
  <2>. QED  BY <2>1, <2>2
<1>5. longer \in Seq(all)
  <2>1. old \subseteq all /\ entry \in all
    BY <1>3
  <2>2. specs \in [1 .. Len(specs) -> all]
    BY <1>2, <2>1
  <2>3. specs \in Seq(all)
    BY <1>3, <2>2, SeqDef
  <2>. QED  BY <2>1, <2>3 DEF longer
<1>6. \A n \in DOMAIN names : names[n] < next + 1
  BY <1>1
<1>7. \A n1, n2 \in DOMAIN names : names[n1] = names[n2] => n1 = n2
  BY <1>1 DEF Sound
<1>8. \A i \in DOMAIN longer : longer[i].spec.name \in DOMAIN names /\ longer[i].bit = names[longer[i].spec.name]
  <2>1. \A i \in DOMAIN specs : specs[i].spec.name \in DOMAIN byName /\ specs[i].bit = byName[specs[i].spec.name]
    BY DEF Sound
  <2>. QED  BY <1>1, <1>3, <2>1
<1>9. \A i, j \in DOMAIN longer : i < j => longer[i].bit < longer[j].bit
  <2>1. \A i, j \in DOMAIN specs : i < j => specs[i].bit < specs[j].bit
    BY DEF Sound
  <2>2. \A i \in DOMAIN specs : specs[i].bit < next
    BY <1>1 DEF Sound
  <2>. QED  BY <1>3, <2>1, <2>2
<1>10. width \in Nat /\ next + 1 \in Nat \cup {NoBit} /\ next + 1 <= width
  BY DEF Sound
<1>. QED  BY <1>4, <1>5, <1>6, <1>7, <1>8, <1>9, <1>10 DEF Sound, longer, names

(* What an accepted new flag makes of a registry.                           *)
LEMMA RegisteredFields ==
  ASSUME NEW reg, RegistryOK(reg), NEW spec, RegisterPlugin(reg, spec).reg # reg
  PROVE  /\ spec.name \notin DOMAIN reg.byName /\ reg.next # NoBit /\ ~(reg.next >= reg.width)
         /\ RegisterPlugin(reg, spec).reg =
              [width |-> reg.width, byName |-> With(reg.byName, spec.name, reg.next),
               specs |-> Append(reg.specs, [bit |-> reg.next, spec |-> spec]), next |-> reg.next + 1]
<1>1. /\ spec.name \notin DOMAIN reg.byName /\ reg.next # NoBit /\ ~(reg.next >= reg.width)
      /\ RegisterPlugin(reg, spec).reg = [Insert(reg, reg.next, spec) EXCEPT !.next = @ + 1]
  BY DEF RegisterPlugin, Accept, Refuse
<1>2. reg = [width |-> reg.width, byName |-> reg.byName, specs |-> reg.specs, next |-> reg.next]
  BY DEF RegistryOK
<1>3. PICK w, b, s, n : reg = [width |-> w, byName |-> b, specs |-> s, next |-> n]
  BY <1>2
<1>. QED  BY <1>1, <1>3 DEF Insert

(* Whatever a plugin declares, accepted or refused, a sound registry stays  *)
(* sound (FlagRegistry::register_plugin).                                   *)
THEOREM RegistrationKeepsRegistrySound ==
  ASSUME NEW reg, RegistryOK(reg), NEW spec
  PROVE  RegistryOK(RegisterPlugin(reg, spec).reg)
<1>1. CASE RegisterPlugin(reg, spec).reg = reg
  BY <1>1
<1>2. CASE RegisterPlugin(reg, spec).reg # reg
  <2>1. Sound(reg.width, reg.byName, reg.specs, reg.next)
    BY DEF RegistryOK
  <2>2. reg.next \in Nat /\ reg.next < reg.width
    <3>1. reg.next # NoBit /\ ~(reg.next >= reg.width)
      BY <1>2, RegisteredFields
    <3>2. reg.width \in Nat /\ reg.next \in Nat \cup {NoBit}
      BY <2>1 DEF Sound
    <3>. QED  BY <3>1, <3>2
  <2>3. Sound(reg.width, With(reg.byName, spec.name, reg.next),
              Append(reg.specs, [bit |-> reg.next, spec |-> spec]), reg.next + 1)
    BY <1>2, <2>1, <2>2, RegisteredFields, NextBitIsFree
  <2>4. RegisterPlugin(reg, spec).reg =
          [width |-> reg.width, byName |-> With(reg.byName, spec.name, reg.next),
           specs |-> Append(reg.specs, [bit |-> reg.next, spec |-> spec]), next |-> reg.next + 1]
    BY <1>2, RegisteredFields
  <2>. QED  BY <2>3, <2>4 DEF RegistryOK
<1>. QED  BY <1>1, <1>2

(* A registration never moves or drops a flag that has its bit already: a   *)
(* mask a plugin was told stays right for the whole pass.                   *)
THEOREM RegistrationKeepsBits ==
  ASSUME NEW reg, RegistryOK(reg), NEW spec, NEW name \in DOMAIN reg.byName
  PROVE  /\ name \in DOMAIN RegisterPlugin(reg, spec).reg.byName
         /\ RegisterPlugin(reg, spec).reg.byName[name] = reg.byName[name]
<1>1. CASE RegisterPlugin(reg, spec).reg = reg
  BY <1>1
<1>2. CASE RegisterPlugin(reg, spec).reg # reg
  <2>1. spec.name \notin DOMAIN reg.byName
    BY <1>2, RegisteredFields
  <2>2. RegisterPlugin(reg, spec).reg =
          [width |-> reg.width, byName |-> With(reg.byName, spec.name, reg.next),
           specs |-> Append(reg.specs, [bit |-> reg.next, spec |-> spec]), next |-> reg.next + 1]
    BY <1>2, RegisteredFields
  <2>3. RegisterPlugin(reg, spec).reg.byName = With(reg.byName, spec.name, reg.next)
    BY <2>2
  <2>. QED  BY <2>1, <2>3 DEF With
<1>. QED  BY <1>1, <1>2

-----------------------------------------------------------------------------
(* The registries of a context and of a pass.                              *)

PassOf(pc, set, sc, at, regs, results, outcome) ==
  [pc |-> pc, set |-> set, scope |-> sc, at |-> at, regs |-> regs, results |-> results, outcome |-> outcome]
Registries(node, edge, topic) == [node |-> node, edge |-> edge, topic |-> topic]

RegistriesSound(regs) ==
  /\ regs = Registries(regs.node, regs.edge, regs.topic)
  /\ RegistryOK(regs.node) /\ RegistryOK(regs.edge)

(* The inductive invariant: also that a pass and its registries are the     *)
(* records they are taken for.                                             *)
PassOK ==
  /\ pass = PassOf(pass.pc, pass.set, pass.scope, pass.at, pass.regs, pass.results, pass.outcome)
  /\ RegistriesSound(pass.regs)
  /\ RegistriesSound(flags)

(* One declaration keeps both registries sound, whichever it is for.        *)
LEMMA RegisteredSound ==
  ASSUME RegistriesSound(pass.regs), NEW decl
  PROVE  RegistriesSound([pass.regs EXCEPT ![decl.kind] = Registered(decl).reg])
<1> DEFINE new == [pass.regs EXCEPT ![decl.kind] = Registered(decl).reg]
<1>1. PICK node, edge, topic : pass.regs = Registries(node, edge, topic)
  BY DEF RegistriesSound
<1>2. RegistryOK(node) /\ RegistryOK(edge)
  BY <1>1 DEF RegistriesSound, Registries
<1>3. CASE decl.kind = "node"
  <2>1. new = Registries(RegisterPlugin(node, decl.spec).reg, edge, topic)
    BY <1>1, <1>3 DEF Registered, Registries
  <2>2. RegistryOK(RegisterPlugin(node, decl.spec).reg)
    BY <1>2, RegistrationKeepsRegistrySound
  <2>. QED  BY <1>2, <2>1, <2>2 DEF RegistriesSound, Registries
<1>4. CASE decl.kind = "edge"
  <2>1. new = Registries(node, RegisterPlugin(edge, decl.spec).reg, topic)
    BY <1>1, <1>4 DEF Registered, Registries
  <2>2. RegistryOK(RegisterPlugin(edge, decl.spec).reg)
    BY <1>2, RegistrationKeepsRegistrySound
  <2>. QED  BY <1>2, <2>1, <2>2 DEF RegistriesSound, Registries
<1>5. CASE decl.kind \notin {"node", "edge"}
  <2>1. PICK t : new = Registries(node, edge, t)
    <3>1. CASE decl.kind = "topic"
      <4>1. new = Registries(node, edge, Registered(decl).reg)
        BY <1>1, <3>1 DEF Registries
      <4>. QED  BY <4>1
    <3>2. CASE decl.kind # "topic"
      <4>1. new = Registries(node, edge, topic)
        BY <1>1, <1>5, <3>2 DEF Registries
      <4>. QED  BY <4>1
    <3>. QED  BY <3>1, <3>2
  <2>. QED  BY <1>2, <2>1 DEF RegistriesSound, Registries
<1>. QED  BY <1>3, <1>4, <1>5

(* Registries that hold the engine's tables only are sound.                 *)
LEMMA SeededSound ==
  ASSUME NEW topic
  PROVE  RegistriesSound(Registries(Seeded(NodeWidth, NodeBuiltins), Seeded(EdgeWidth, EdgeBuiltins), topic))
BY PluginSetsAssumption DEF RegistriesSound, Registries

(* A pass that is over has the registries of the context.                   *)
LEMMA ReadySound ==
  ASSUME PassOK, UNCHANGED flags,
         \/ pass' = Ready
         \/ \E o : pass' = [Ready EXCEPT !.outcome = o]
         \/ \E s, sc : pass' = [Ready EXCEPT !.pc = "build", !.set = s, !.scope = sc]
  PROVE  PassOK'
<1>1. PICK none : none = Outcome("none")
  OBVIOUS
<1>2. PICK pc, set, sc, outcome : pass' = PassOf(pc, set, sc, 1, flags, <<>>, outcome)
  <2>1. CASE pass' = Ready
    <3>1. pass' = PassOf("idle", NoSet, Everything, 1, flags, <<>>, none)
      BY <1>1, <2>1 DEF Ready, PassOf
    <3>. QED  BY <3>1
  <2>2. CASE \E o : pass' = [Ready EXCEPT !.outcome = o]
    <3>1. PICK o : pass' = [Ready EXCEPT !.outcome = o]
      BY <2>2
    <3>2. pass' = PassOf("idle", NoSet, Everything, 1, flags, <<>>, o)
      BY <3>1 DEF Ready, PassOf
    <3>. QED  BY <3>2
  <2>3. CASE \E s, c : pass' = [Ready EXCEPT !.pc = "build", !.set = s, !.scope = c]
    <3>1. PICK s, c : pass' = [Ready EXCEPT !.pc = "build", !.set = s, !.scope = c]
      BY <2>3
    <3>2. pass' = PassOf("build", s, c, 1, flags, <<>>, none)
      BY <1>1, <3>1 DEF Ready, PassOf
    <3>. QED  BY <3>2
  <2>. QED  BY <2>1, <2>2, <2>3
<1>3. pass' = PassOf(pass'.pc, pass'.set, pass'.scope, pass'.at, pass'.regs, pass'.results, pass'.outcome)
  BY <1>2 DEF PassOf
<1>4. pass'.regs = flags
  BY <1>2 DEF PassOf
<1>. QED  BY <1>3, <1>4 DEF PassOK

(* A new context has sound registries ...                                   *)
LEMMA RegistriesInit == Init => PassOK
<1> SUFFICES ASSUME Init PROVE PassOK
  OBVIOUS
<1>1. RegistriesSound(flags)
  BY SeededSound DEF Init, Registries
<1>2. pass = PassOf("idle", NoSet, Everything, 1, flags, <<>>, Outcome("none"))
  BY DEF Init, Ready, PassOf
<1>. QED  BY <1>1, <1>2 DEF PassOK, PassOf

(* ... and no call makes them unsound.                                      *)
LEMMA RegistriesStep == PassOK /\ [Next]_vars => PassOK'
<1> SUFFICES ASSUME PassOK, [Next]_vars PROVE PassOK'
  OBVIOUS
<1>0. PICK pc, set, sc, at, regs, results, outcome : pass = PassOf(pc, set, sc, at, regs, results, outcome)
  BY DEF PassOK
<1>1. CASE UNCHANGED <<pass, flags>>
  BY <1>1 DEF PassOK
<1>2. CASE (\E h \in DOMAIN handles : AddPlugin(h)) \/ ClearPlugins \/ ApplyRescan
           \/ (\E f \in File : \E c \in Contents[f] : ApplyChanged(f, c))
  <2>1. pass' = Ready /\ UNCHANGED flags
    BY <1>2 DEF AddPlugin, ClearPlugins, ApplyRescan, ApplyChanged
  <2>. QED  BY <2>1, ReadySound
<1>3. CASE Extract
  <2>1. (\E s, c : pass' = [Ready EXCEPT !.pc = "build", !.set = s, !.scope = c]) /\ UNCHANGED flags
    BY <1>3 DEF Extract
  <2>. QED  BY <2>1, ReadySound
<1>4. CASE BuildFails
  <2>1. (\E o : pass' = [Ready EXCEPT !.outcome = o]) /\ UNCHANGED flags
    BY <1>4 DEF BuildFails
  <2>. QED  BY <2>1, ReadySound
<1>5. CASE Assemble
  <2> DEFINE seeds == Registries(Seeded(NodeWidth, NodeBuiltins), Seeded(EdgeWidth, EdgeBuiltins), NewTopics)
  <2>1. pass' = [pass EXCEPT !.pc = "declare", !.regs = seeds] /\ UNCHANGED flags
    BY <1>5 DEF Assemble, Registries
  <2>2. pass' = PassOf("declare", set, sc, at, seeds, results, outcome)
    BY <1>0, <2>1 DEF PassOf
  <2>3. RegistriesSound(seeds)
    BY SeededSound
  <2>. QED  BY <2>1, <2>2, <2>3 DEF PassOK, PassOf
<1>6. CASE Declare
  <2>1. UNCHANGED flags
    BY <1>6 DEF Declare
  <2>2. CASE \E o : pass' = [Ready EXCEPT !.outcome = o]
    BY <2>1, <2>2, ReadySound
  <2>3. CASE \E decl : pass' = [pass EXCEPT !.at = @ + 1, !.regs[decl.kind] = Registered(decl).reg]
    <3>1. PICK decl : pass' = [pass EXCEPT !.at = @ + 1, !.regs[decl.kind] = Registered(decl).reg]
      BY <2>3
    <3> DEFINE new == [pass.regs EXCEPT ![decl.kind] = Registered(decl).reg]
    <3>2. RegistriesSound(new)
      BY RegisteredSound DEF PassOK
    <3>3. pass' = PassOf(pc, set, sc, at + 1, new, results, outcome)
      BY <1>0, <3>1 DEF PassOf
    <3>. QED  BY <2>1, <3>2, <3>3 DEF PassOK, PassOf
  <2>. QED  BY <1>6, <2>2, <2>3 DEF Declare
<1>7. CASE StartWorkers
  <2>1. pass' = [pass EXCEPT !.pc = "run"] /\ UNCHANGED flags
    BY <1>7 DEF StartWorkers
  <2>2. pass' = PassOf("run", set, sc, at, regs, results, outcome) /\ pass.regs = regs
    BY <1>0, <2>1 DEF PassOf
  <2>. QED  BY <2>1, <2>2 DEF PassOK, PassOf
<1>8. CASE \E i \in DOMAIN plugins : RunPlugin(i)
  <2>1. (\E r : pass' = [pass EXCEPT !.results = r]) /\ UNCHANGED flags
    BY <1>8 DEF RunPlugin
  <2>2. (\E r : pass' = PassOf(pc, set, sc, at, regs, r, outcome)) /\ pass.regs = regs
    BY <1>0, <2>1 DEF PassOf
  <2>. QED  BY <2>1, <2>2 DEF PassOK, PassOf
<1>9. CASE Apply
  <2>1. CASE (\E o : pass' = [Ready EXCEPT !.outcome = o]) /\ UNCHANGED flags
    BY <2>1, ReadySound
  <2>2. CASE flags' = pass.regs /\ pass' = [Ready EXCEPT !.outcome = Outcome("done"), !.regs = pass.regs]
    <3>1. pass' = PassOf("idle", NoSet, Everything, 1, pass.regs, <<>>, Outcome("done"))
      BY <2>2 DEF Ready, PassOf
    <3>. QED  BY <2>2, <3>1 DEF PassOK, PassOf
  <2>. QED  BY <1>9, <2>1, <2>2 DEF Apply
<1>. QED
  <2>1. CASE \E t \in Templates : Construct(t)
    BY <1>1, <2>1 DEF Construct
  <2>2. CASE UNCHANGED vars
    BY <1>1, <2>2 DEF vars
  <2>. QED  BY <2>1, <2>2, <1>2, <1>3, <1>4, <1>5, <1>6, <1>7, <1>8, <1>9 DEF Next, Materialize

(* At every point of every pass, failed and refused ones included, names    *)
(* and bits are one to one and each bit fits its width.                     *)
THEOREM RegistriesStaySound == Spec => []RegistriesOK
<1>1. PassOK => RegistriesOK
  BY DEF PassOK, RegistriesSound, RegistriesOK
<1>. QED  BY <1>1, RegistriesInit, RegistriesStep, PTL DEF Spec
-----------------------------------------------------------------------------
(* Ids.                                                                    *)

Of(kind) == {t \in Templates : t.kind = kind}

IdsIn(external, configured) ==
  ({"builtin"} \X Of("builtin")) \cup ({"configured"} \X DOMAIN configured) \cup ({"dual"} \X DOMAIN external)

Ids == IdsIn(registry.external, registry.configured)

Process(external, configured, byHash, sets) ==
  [external |-> external, configured |-> configured, byHash |-> byHash, sets |-> sets]

(* Every id of the process names a plugin, and a hash the config it is of.  *)
ProcessOK ==
  /\ registry = Process(registry.external, registry.configured, registry.byHash, registry.sets)
  /\ registry.external \in Seq(Of("dual"))
  /\ registry.configured \in Seq(Of("configured"))
  /\ \A h \in DOMAIN registry.byHash :
       /\ registry.byHash[h] \in DOMAIN registry.configured
       /\ ConfigHash(registry.configured[registry.byHash[h]].config) = h
  /\ registry.sets \in Seq(Seq(Ids))

(* The id a plugin object carries is that of its plugin.                    *)
Carries(t, id) ==
  /\ t \in Templates
  /\ t.kind = "builtin" => id = t
  /\ t.kind = "configured" => ConfigHash(t.config) \in DOMAIN registry.byHash /\ id = registry.byHash[ConfigHash(t.config)]
  /\ t.kind = "dual" => id \in DOMAIN registry.external /\ registry.external[id] = t

HandlesOK ==
  /\ handles \in Seq({handles[h] : h \in DOMAIN handles})
  /\ \A h \in DOMAIN handles : Carries(handles[h].template, handles[h].id)
  /\ \A h1, h2 \in DOMAIN handles :
       handles[h1].template.kind = "dual" /\ handles[h2].template.kind = "dual" /\ handles[h1].id = handles[h2].id
         => h1 = h2
  /\ plugins \in Seq(DOMAIN handles)

IdsOK == ProcessOK /\ HandlesOK

(* Nothing that has an id loses it or changes.                              *)
Grown ==
  /\ Ids \subseteq Ids'
  /\ \A x \in Ids : PluginOf(x[1], x[2])' = PluginOf(x[1], x[2])
  /\ \A s \in DOMAIN registry.sets : s \in DOMAIN registry'.sets /\ registry'.sets[s] = registry.sets[s]
  /\ \A h \in DOMAIN handles : h \in DOMAIN handles' /\ handles'[h] = handles[h]

(* A sequence that grows by one entry.                                      *)
LEMMA Appended ==
  ASSUME NEW S, NEW s \in Seq(S), NEW x \in S
  PROVE  /\ Append(s, x) \in Seq(S) /\ Len(s) \in Nat
         /\ DOMAIN s = 1 .. Len(s) /\ DOMAIN Append(s, x) = DOMAIN s \cup {Len(s) + 1}
         /\ Len(s) + 1 \notin DOMAIN s /\ Append(s, x)[Len(s) + 1] = x
         /\ \A i \in DOMAIN s : Append(s, x)[i] = s[i] /\ s[i] \in S
OBVIOUS

(* What a new object adds to the process.                                   *)
LEMMA ConstructGrows ==
  ASSUME IdsOK, NEW t \in Templates, Construct(t)
  PROVE  IdsOK' /\ Grown
<1> DEFINE e == registry.external
           c == registry.configured
           b == registry.byHash
           s == registry.sets
           id == Len(c) + 1
           hash == ConfigHash(t.config)
<1>1. /\ e \in Seq(Of("dual")) /\ c \in Seq(Of("configured")) /\ s \in Seq(Seq(Ids))
      /\ registry = Process(e, c, b, s)
  BY DEF IdsOK, ProcessOK
<1>2. /\ t.kind \in {"builtin", "configured", "wide", "dual"}
      /\ t.kind \in {"builtin", "wide"} => registry' = registry
      /\ t.kind = "builtin" => handles' = Append(handles, [template |-> t, id |-> t])
      /\ t.kind = "wide" => handles' = Append(handles, [template |-> t, id |-> NoSet])
      /\ t.kind = "configured" /\ hash \in DOMAIN b =>
           /\ registry' = registry
           /\ handles' = Append(handles, [template |-> t, id |-> b[hash]])
      /\ t.kind = "configured" /\ hash \notin DOMAIN b =>
           /\ registry' = [registry EXCEPT !.configured = Append(@, t), !.byHash = With(@, hash, id)]
           /\ handles' = Append(handles, [template |-> t, id |-> id])
      /\ t.kind = "dual" =>
           /\ registry' = [registry EXCEPT !.external = Append(@, t)]
           /\ handles' = Append(handles, [template |-> t, id |-> Len(e) + 1])
      /\ plugins' = plugins
  BY PluginSetsAssumption DEF Construct, TemplateOK, RegisterConfigured, RegisterExternal
<1>3. PICK x : /\ handles' = Append(handles, [template |-> t, id |-> x]) /\ plugins' = plugins
               /\ t.kind = "builtin" => x = t
               /\ t.kind = "configured" => x = IF hash \in DOMAIN b THEN b[hash] ELSE id
               /\ t.kind = "dual" => x = Len(e) + 1
  <2>1. CASE t.kind = "builtin"
    BY <1>2, <2>1
  <2>2. CASE t.kind = "configured" /\ hash \in DOMAIN b
    BY <1>2, <2>2
  <2>3. CASE t.kind = "configured" /\ hash \notin DOMAIN b
    BY <1>2, <2>3
  <2>4. CASE t.kind = "dual"
    BY <1>2, <2>4
  <2>5. CASE t.kind = "wide"
    BY <1>2, <2>5
  <2>. QED  BY <1>2, <2>1, <2>2, <2>3, <2>4, <2>5
<1> DEFINE all == {handles'[h] : h \in DOMAIN handles'}
           n == Len(handles) + 1
<1>4. /\ handles' \in Seq(all) /\ DOMAIN handles' = DOMAIN handles \cup {n} /\ n \notin DOMAIN handles
      /\ handles'[n] = [template |-> t, id |-> x] /\ \A h \in DOMAIN handles : handles'[h] = handles[h]
  <2> DEFINE some == {handles[h] : h \in DOMAIN handles} \cup {[template |-> t, id |-> x]}
  <2>1. handles \in Seq(some)
    BY DEF IdsOK, HandlesOK
  <2>2. /\ handles' \in Seq(some) /\ DOMAIN handles' = DOMAIN handles \cup {n} /\ n \notin DOMAIN handles
        /\ handles'[n] = [template |-> t, id |-> x] /\ \A h \in DOMAIN handles : handles'[h] = handles[h]
    BY <1>3, <2>1, Appended
  <2>3. some = all
    BY <2>2
  <2>. QED  BY <2>2, <2>3
<1>5. plugins' \in Seq(DOMAIN handles')
  BY <1>3, <1>4 DEF IdsOK, HandlesOK
<1> HIDE DEF n, all
<1>6. CASE t.kind \in {"builtin", "wide"} \/ (t.kind = "configured" /\ hash \in DOMAIN b)
  <2>1. registry' = registry /\ t.kind # "dual"
    BY <1>2, <1>6
  <2>2. Carries(t, x)
    BY <1>3, <1>6 DEF Carries
  <2>3. ProcessOK' /\ Ids' = Ids /\ \A y \in Ids : PluginOf(y[1], y[2])' = PluginOf(y[1], y[2])
    BY <2>1 DEF IdsOK, ProcessOK, Ids, PluginOf
  <2>4. \A h \in DOMAIN handles' : Carries(handles[h].template, handles[h].id)'
    BY <1>4, <2>1, <2>2 DEF IdsOK, HandlesOK, Carries
  <2>5. \A h1, h2 \in DOMAIN handles' :
          handles'[h1].template.kind = "dual" /\ handles'[h2].template.kind = "dual" /\ handles'[h1].id = handles'[h2].id
            => h1 = h2
    BY <1>4, <2>1 DEF IdsOK, HandlesOK
  <2>6. HandlesOK'
    BY <1>4, <1>5, <2>4, <2>5 DEF HandlesOK, all
  <2>. QED  BY <1>4, <2>1, <2>3, <2>6 DEF IdsOK, Grown
<1>7. CASE t.kind = "configured" /\ hash \notin DOMAIN b
  <2>1. registry' = Process(e, Append(c, t), With(b, hash, id), s)
    <3>1. registry' = [registry EXCEPT !.configured = Append(@, t), !.byHash = With(@, hash, id)]
      BY <1>2, <1>7
    <3> HIDE DEF id, hash
    <3>. QED  BY <1>1, <3>1 DEF Process
  <2>2. /\ registry'.external = e /\ registry'.configured = Append(c, t)
        /\ registry'.byHash = With(b, hash, id) /\ registry'.sets = s
    BY <2>1 DEF Process
  <2>3. /\ Append(c, t) \in Seq(Of("configured")) /\ DOMAIN Append(c, t) = DOMAIN c \cup {id} /\ id \notin DOMAIN c
        /\ Append(c, t)[id] = t /\ \A i \in DOMAIN c : Append(c, t)[i] = c[i]
    BY <1>1, <1>7, Appended DEF Of
  <2>4. /\ DOMAIN With(b, hash, id) = DOMAIN b \cup {hash} /\ With(b, hash, id)[hash] = id
        /\ \A h \in DOMAIN b : With(b, hash, id)[h] = b[h]
    BY <1>7 DEF With
  <2> HIDE DEF id, hash
  <2>5. Ids \subseteq Ids'
    BY <2>2, <2>3 DEF Ids, IdsIn
  <2>6. ASSUME NEW y \in Ids PROVE PluginOf(y[1], y[2])' = PluginOf(y[1], y[2])
    BY <2>2, <2>3, <2>6 DEF Ids, IdsIn, PluginOf
  <2>7. ASSUME NEW h \in DOMAIN registry'.byHash
        PROVE  /\ registry'.byHash[h] \in DOMAIN registry'.configured
               /\ ConfigHash(registry'.configured[registry'.byHash[h]].config) = h
    <3>1. CASE h = hash
      BY <2>2, <2>3, <2>4, <3>1 DEF hash
    <3>2. CASE h # hash
      BY <2>2, <2>3, <2>4, <2>7, <3>2 DEF IdsOK, ProcessOK
    <3>. QED  BY <3>1, <3>2
  <2>8. registry'.sets \in Seq(Seq(Ids'))
    BY <1>1, <2>2, <2>5
  <2>9. ProcessOK'
    BY <1>1, <2>1, <2>2, <2>3, <2>7, <2>8 DEF ProcessOK
  <2>10. \A h \in DOMAIN handles' : Carries(handles[h].template, handles[h].id)'
    <3> SUFFICES ASSUME NEW h \in DOMAIN handles' PROVE Carries(handles[h].template, handles[h].id)'
      OBVIOUS
    <3>1. CASE h = n
      <4>1. handles'[h].template = t /\ handles'[h].id = id
        BY <1>3, <1>4, <1>7, <3>1 DEF hash
      <4>. QED  BY <1>7, <2>2, <2>4, <4>1 DEF Carries, hash
    <3>2. CASE h # n
      <4>1. h \in DOMAIN handles /\ handles'[h] = handles[h] /\ Carries(handles[h].template, handles[h].id)
        BY <1>4, <3>2 DEF IdsOK, HandlesOK
      <4>. QED  BY <2>2, <2>4, <4>1 DEF Carries
    <3>. QED  BY <3>1, <3>2
  <2>11. \A h1, h2 \in DOMAIN handles' :
          handles'[h1].template.kind = "dual" /\ handles'[h2].template.kind = "dual" /\ handles'[h1].id = handles'[h2].id
            => h1 = h2
    BY <1>4, <1>7 DEF IdsOK, HandlesOK
  <2>12. HandlesOK'
    BY <1>4, <1>5, <2>10, <2>11 DEF HandlesOK, all
  <2>. QED  BY <1>4, <2>2, <2>5, <2>6, <2>9, <2>12 DEF IdsOK, Grown
<1>8. CASE t.kind = "dual"
  <2> DEFINE m == Len(e) + 1
  <2>1. registry' = Process(Append(e, t), c, b, s)
    <3>1. registry' = [registry EXCEPT !.external = Append(@, t)]
      BY <1>2, <1>8
    <3>. QED  BY <1>1, <3>1 DEF Process
  <2>2. /\ registry'.external = Append(e, t) /\ registry'.configured = c
        /\ registry'.byHash = b /\ registry'.sets = s
    BY <2>1 DEF Process
  <2>3. /\ Append(e, t) \in Seq(Of("dual")) /\ DOMAIN Append(e, t) = DOMAIN e \cup {m} /\ m \notin DOMAIN e
        /\ Append(e, t)[m] = t /\ \A i \in DOMAIN e : Append(e, t)[i] = e[i]
    BY <1>1, <1>8, Appended DEF Of
  <2> HIDE DEF m
  <2>5. Ids \subseteq Ids'
    BY <2>2, <2>3 DEF Ids, IdsIn
  <2>6. ASSUME NEW y \in Ids PROVE PluginOf(y[1], y[2])' = PluginOf(y[1], y[2])
    BY <2>2, <2>3, <2>6 DEF Ids, IdsIn, PluginOf
  <2>8. registry'.sets \in Seq(Seq(Ids'))
    BY <1>1, <2>2, <2>5
  <2>9. ProcessOK'
    BY <1>1, <2>1, <2>2, <2>3, <2>8 DEF IdsOK, ProcessOK
  <2>10. \A h \in DOMAIN handles' : Carries(handles[h].template, handles[h].id)'
    <3> SUFFICES ASSUME NEW h \in DOMAIN handles' PROVE Carries(handles[h].template, handles[h].id)'
      OBVIOUS
    <3>1. CASE h = n
      <4>1. handles'[h].template = t /\ handles'[h].id = m
        BY <1>3, <1>4, <1>8, <3>1 DEF m
      <4>. QED  BY <1>8, <2>2, <2>3, <4>1 DEF Carries
    <3>2. CASE h # n
      <4>1. h \in DOMAIN handles /\ handles'[h] = handles[h] /\ Carries(handles[h].template, handles[h].id)
        BY <1>4, <3>2 DEF IdsOK, HandlesOK
      <4>. QED  BY <2>2, <2>3, <4>1 DEF Carries
    <3>. QED  BY <3>1, <3>2
  <2>11. \A h \in DOMAIN handles : handles[h].template.kind = "dual" => handles'[h].id # m
    BY <1>4, <2>3 DEF IdsOK, HandlesOK, Carries
  <2>12. \A h1, h2 \in DOMAIN handles' :
          handles'[h1].template.kind = "dual" /\ handles'[h2].template.kind = "dual" /\ handles'[h1].id = handles'[h2].id
            => h1 = h2
    <3>1. handles'[n].id = m
      BY <1>3, <1>4, <1>8 DEF m
    <3>2. \A h1, h2 \in DOMAIN handles :
          handles[h1].template.kind = "dual" /\ handles[h2].template.kind = "dual" /\ handles[h1].id = handles[h2].id
            => h1 = h2
      BY DEF IdsOK, HandlesOK
    <3>. QED  BY <1>4, <2>11, <3>1, <3>2
  <2>13. HandlesOK'
    BY <1>4, <1>5, <2>10, <2>12 DEF HandlesOK, all
  <2>. QED  BY <1>4, <2>2, <2>5, <2>6, <2>9, <2>13 DEF IdsOK, Grown
<1>. QED  BY <1>2, <1>6, <1>7, <1>8

(* The plugins of a context are of the templates.                           *)
LEMMA PluginsOfTemplates ==
  ASSUME IdsOK, NEW i \in DOMAIN plugins
  PROVE  /\ plugins[i] \in DOMAIN handles /\ Plugin(i) \in Templates
         /\ Carries(Plugin(i), handles[plugins[i]].id)
         /\ Plugin(i).kind \in PerFileIds => IdOf(i) \in Ids
<1>1. plugins[i] \in DOMAIN handles /\ Carries(Plugin(i), handles[plugins[i]].id)
  BY DEF IdsOK, HandlesOK, Plugin
<1>2. ASSUME Plugin(i).kind \in PerFileIds PROVE IdOf(i) \in Ids
  BY <1>1, <1>2 DEF IdsOK, ProcessOK, Carries, IdOf, Ids, IdsIn, Of, PerFileIds
<1>. QED  BY <1>1, <1>2 DEF Carries

(* Two objects have one id exactly if they are one object or one builtin    *)
(* or configured plugin: ids conflate and split nothing else.               *)
LEMMA OneIdOnePlugin ==
  ASSUME IdsOK, NEW i \in DOMAIN plugins, NEW j \in DOMAIN plugins, Plugin(i).kind \in PerFileIds
  PROVE  IdOf(j) = IdOf(i) <=> plugins[j] = plugins[i] \/ SamePlugin(Plugin(j), Plugin(i))
<1> DEFINE t == Plugin(i)
           u == Plugin(j)
           x == handles[plugins[i]].id
           y == handles[plugins[j]].id
<1>1. /\ plugins[i] \in DOMAIN handles /\ t \in Templates /\ Carries(t, x)
      /\ plugins[j] \in DOMAIN handles /\ u \in Templates /\ Carries(u, y)
  BY PluginsOfTemplates
<1>2. IdOf(j) = IdOf(i) <=> u.kind = t.kind /\ y = x
  BY DEF IdOf
<1>3. plugins[j] = plugins[i] => u = t /\ y = x
  BY DEF Plugin
<1>4. CASE t.kind = "builtin"
  BY <1>1, <1>2, <1>3, <1>4 DEF Carries, SamePlugin
<1>5. CASE t.kind = "dual"
  <2>1. u.kind = "dual" /\ y = x => plugins[j] = plugins[i]
    BY <1>1, <1>5 DEF IdsOK, HandlesOK, Plugin
  <2>. QED  BY <1>2, <1>3, <1>5, <2>1 DEF SamePlugin
<1>6. CASE t.kind = "configured"
  <2>1. ASSUME u.kind = "configured"
        PROVE  y = x <=> ToSet(u.config) = ToSet(t.config)
    <3>1. /\ ConfigHash(t.config) \in DOMAIN registry.byHash /\ x = registry.byHash[ConfigHash(t.config)]
          /\ ConfigHash(u.config) \in DOMAIN registry.byHash /\ y = registry.byHash[ConfigHash(u.config)]
      BY <1>1, <1>6, <2>1 DEF Carries
    <3>2. y = x => ConfigHash(u.config) = ConfigHash(t.config)
      BY <3>1 DEF IdsOK, ProcessOK
    <3>3. ConfigHash(u.config) = ConfigHash(t.config) => ToSet(u.config) = ToSet(t.config)
      BY <1>1, <1>6, <2>1, PluginSetsAssumption DEF ConfigHash
    <3>. QED  BY <3>1, <3>2, <3>3 DEF ConfigHash
  <2>. QED  BY <1>2, <1>3, <1>6, <2>1 DEF SamePlugin
<1>. QED  BY <1>4, <1>5, <1>6 DEF PerFileIds

AllOps == UNION {UNION {ToSet(t.emits[k]) : k \in Pairs} : t \in Templates}

(* What a plugin of an id emits is a sequence of operations.                *)
LEMMA IdsEmitOps ==
  ASSUME IdsOK, NEW x \in Ids, NEW k \in Pairs
  PROVE  PluginOf(x[1], x[2]) \in Templates /\ PluginOf(x[1], x[2]).emits[k] \in Seq(AllOps)
<1>1. PluginOf(x[1], x[2]) \in Templates
  BY DEF IdsOK, ProcessOK, Ids, IdsIn, Of, PluginOf
<1>2. ASSUME NEW t \in Templates PROVE t.emits[k] \in Seq(AllOps)
  <2>1. t.emits[k] \in Seq(ToSet(t.emits[k]))
    BY PluginSetsAssumption DEF TemplateOK
  <2>2. ToSet(t.emits[k]) \subseteq AllOps
    BY DEF AllOps
  <2>. QED  BY <2>1, <2>2
<1>. QED  BY <1>1, <1>2

(* ... and an id runs what the object that carries it would.                *)
LEMMA IdsRunTheirPlugin ==
  ASSUME IdsOK, NEW i \in DOMAIN plugins, Plugin(i).kind \in PerFileIds
  PROVE  PluginOf(IdOf(i)[1], IdOf(i)[2]).emits = Plugin(i).emits
<1> DEFINE t == Plugin(i)
           x == handles[plugins[i]].id
<1>1. t \in Templates /\ Carries(t, x) /\ IdOf(i)[1] = t.kind /\ IdOf(i)[2] = x
  BY PluginsOfTemplates DEF IdOf
<1>2. CASE t.kind \in {"builtin", "dual"}
  BY <1>1, <1>2 DEF Carries, PluginOf
<1>3. CASE t.kind = "configured"
  <2>1. x \in DOMAIN registry.configured /\ ConfigHash(registry.configured[x].config) = ConfigHash(t.config)
    BY <1>1, <1>3 DEF IdsOK, ProcessOK, Carries
  <2>2. registry.configured[x] \in Of("configured")
    BY <2>1 DEF IdsOK, ProcessOK
  <2>3. registry.configured[x].emits = t.emits
    BY <1>1, <1>3, <2>1, <2>2, PluginSetsAssumption DEF Of, ConfigHash
  <2>. QED  BY <1>1, <1>3, <2>3 DEF PluginOf
<1>. QED  BY <1>2, <1>3 DEF PerFileIds

IdParts == [i \in DOMAIN plugins |-> IF FirstOfItsId(i) THEN <<IdOf(i)>> ELSE <<>>]

(* The list of the set is one of ids.                                       *)
LEMMA ListOfIds ==
  ASSUME IdsOK
  PROVE  /\ IdParts \in Seq(Seq(Ids)) /\ PerFileList = FlattenSeq(IdParts) /\ PerFileList \in Seq(Ids)
         /\ \A i \in DOMAIN IdParts : Len(IdParts[i]) <= 1
<1>1. Len(plugins) \in Nat /\ DOMAIN plugins = 1 .. Len(plugins)
  BY DEF IdsOK, HandlesOK
<1>2. ASSUME NEW i \in DOMAIN plugins
      PROVE  IdParts[i] \in Seq(Ids) /\ Len(IdParts[i]) <= 1
  <2>1. FirstOfItsId(i) => IdOf(i) \in Ids
    BY PluginsOfTemplates DEF FirstOfItsId
  <2>2. IdParts[i] = IF FirstOfItsId(i) THEN <<IdOf(i)>> ELSE <<>>
    BY DEF IdParts
  <2>. QED  BY <2>1, <2>2
<1>3. IdParts \in Seq(Seq(Ids))
  <2>1. IdParts \in [1 .. Len(plugins) -> Seq(Ids)]
    BY <1>1, <1>2 DEF IdParts
  <2>. QED  BY <1>1, <2>1, SeqDef
<1>4. PerFileList = FlattenSeq(IdParts)
  BY DEF PerFileList, IdParts
<1>5. PerFileList \in Seq(Ids)
  BY <1>3, <1>4, FlattenSeqPlaces
<1>6. DOMAIN IdParts = DOMAIN plugins
  BY DEF IdParts
<1>. QED  BY <1>2, <1>3, <1>4, <1>5, <1>6

(* A set of ids emits what the registered plugins emit, each once.          *)
LEMMA OpsAreEmitted ==
  ASSUME IdsOK, NEW f \in File, content[f] \in Contents[f]
  PROVE  OpsOf(PerFileList, f, content[f]) = EmittedNow(f)
<1> DEFINE k == <<f, content[f]>>
           E == [x \in Ids |-> PluginOf(x[1], x[2]).emits[k]]
<1>1. k \in Pairs
  BY DEF Pairs
<1>2. E \in [Ids -> Seq(AllOps)]
  BY <1>1, IdsEmitOps
<1>3. Expanded(PerFileList, E) = Singles(IdParts, E)
  <2> HIDE DEF E
  <2>. QED  BY <1>2, ListOfIds, FlattenSeqThrough
<1>4. Expanded(PerFileList, E) = OpsOf(PerFileList, f, content[f])
  <2>1. PerFileList \in Seq(Ids)
    BY ListOfIds
  <2>2. \A n \in DOMAIN PerFileList : PerFileList[n] \in Ids
    BY <2>1
  <2>3. \A n \in DOMAIN PerFileList : E[PerFileList[n]] = PluginOf(PerFileList[n][1], PerFileList[n][2]).emits[k]
    BY <2>2
  <2>. QED  BY <2>3 DEF Expanded, OpsOf
<1>5. Singles(IdParts, E) = EmittedNow(f)
  <2> DEFINE again(i) == \E j \in 1 .. (i - 1) : plugins[j] = plugins[i] \/ SamePlugin(Plugin(j), Plugin(i))
             runs(i) == Plugin(i).kind \in PerFileIds /\ ~again(i)
  <2>1. DOMAIN plugins = 1 .. Len(plugins) /\ Len(plugins) \in Nat
    BY DEF IdsOK, HandlesOK
  <2>2. ASSUME NEW i \in DOMAIN plugins PROVE FirstOfItsId(i) <=> runs(i)
    <3>1. \A j \in 1 .. (i - 1) : j \in DOMAIN plugins
      BY <2>1
    <3>. QED  BY <3>1, OneIdOnePlugin DEF FirstOfItsId
  <2>3. ASSUME NEW i \in DOMAIN plugins
        PROVE  (IF IdParts[i] = <<>> THEN <<>> ELSE E[IdParts[i][1]]) = IF runs(i) THEN Plugin(i).emits[k] ELSE <<>>
    <3>1. CASE FirstOfItsId(i)
      <4>1. IdParts[i] = <<IdOf(i)>> /\ IdParts[i][1] = IdOf(i) /\ IdParts[i] # <<>>
        BY <3>1 DEF IdParts
      <4>2. Plugin(i).kind \in PerFileIds
        BY <3>1 DEF FirstOfItsId
      <4>3. E[IdOf(i)] = Plugin(i).emits[k]
        BY <4>2, PluginsOfTemplates, IdsRunTheirPlugin
      <4> HIDE DEF E, k, runs
      <4>. QED  BY <2>2, <3>1, <4>1, <4>3
    <3>2. CASE ~FirstOfItsId(i)
      <4>1. IdParts[i] = <<>>
        BY <3>2 DEF IdParts
      <4> HIDE DEF E, k, runs
      <4>. QED  BY <2>2, <3>2, <4>1
    <3>. QED  BY <3>1, <3>2
  <2>4. DOMAIN IdParts = DOMAIN plugins
    BY DEF IdParts
  <2> DEFINE one == [i \in DOMAIN IdParts |-> IF IdParts[i] = <<>> THEN <<>> ELSE E[IdParts[i][1]]]
             other == [i \in DOMAIN plugins |-> IF runs(i) THEN Plugin(i).emits[k] ELSE <<>>]
  <2>5. one = other
    <3> HIDE DEF E, k, runs
    <3>. QED  BY <2>3, <2>4
  <2>6. EmittedNow(f) = FlattenSeq(other)
    BY DEF EmittedNow
  <2>7. Singles(IdParts, E) = FlattenSeq(one)
    BY DEF Singles
  <2> HIDE DEF one, other
  <2>. QED  BY <2>5, <2>6, <2>7
<1>. QED  BY <1>3, <1>4, <1>5

(* What is known of ids and of the plugins of a context stays so.           *)
LEMMA ListKept ==
  ASSUME IdsOK, Grown, plugins' = plugins
  PROVE  PerFileList' = PerFileList /\ \A i \in DOMAIN plugins : Plugin(i)' = Plugin(i)
<1>1. \A i \in DOMAIN plugins : plugins[i] \in DOMAIN handles /\ handles'[plugins[i]] = handles[plugins[i]]
  BY PluginsOfTemplates DEF Grown
<1>2. \A i \in DOMAIN plugins : Plugin(i)' = Plugin(i) /\ IdOf(i)' = IdOf(i)
  BY <1>1 DEF Plugin, IdOf
<1>3. DOMAIN plugins = 1 .. Len(plugins) /\ Len(plugins) \in Nat
  BY DEF IdsOK, HandlesOK
<1>4. \A i \in DOMAIN plugins : FirstOfItsId(i)' <=> FirstOfItsId(i)
  <2> SUFFICES ASSUME NEW i \in DOMAIN plugins PROVE FirstOfItsId(i)' <=> FirstOfItsId(i)
    OBVIOUS
  <2>1. \A j \in 1 .. (i - 1) : j \in DOMAIN plugins
    BY <1>3
  <2>. QED  BY <1>2, <2>1 DEF FirstOfItsId
<1>5. [i \in DOMAIN plugins |-> IF FirstOfItsId(i)' THEN <<IdOf(i)'>> ELSE <<>>]
        = [i \in DOMAIN plugins |-> IF FirstOfItsId(i) THEN <<IdOf(i)>> ELSE <<>>]
  BY <1>2, <1>4
<1>6. PerFileList' = PerFileList
  BY <1>5 DEF PerFileList
<1>. QED  BY <1>2, <1>6

(* What a list of ids emits is the same after any call.                     *)
LEMMA OpsKept ==
  ASSUME Grown, NEW list \in Seq(Ids), NEW f, NEW c
  PROVE  list \in Seq(Ids') /\ OpsOf(list, f, c)' = OpsOf(list, f, c)
<1>1. \A i \in DOMAIN list : list[i] \in Ids
  OBVIOUS
<1>2. \A i \in DOMAIN list : PluginOf(list[i][1], list[i][2])' = PluginOf(list[i][1], list[i][2])
  BY <1>1 DEF Grown
<1>3. [i \in DOMAIN list |-> PluginOf(list[i][1], list[i][2])'.emits[<<f, c>>]]
        = [i \in DOMAIN list |-> PluginOf(list[i][1], list[i][2]).emits[<<f, c>>]]
  BY <1>2
<1>4. OpsOf(list, f, c)' = OpsOf(list, f, c)
  BY <1>3 DEF OpsOf
<1>. QED  BY <1>4 DEF Grown

(* A list of ids emits operations of the plugins there are.                 *)
LEMMA OpsTyped ==
  ASSUME IdsOK, NEW list \in Seq(Ids), NEW f \in File, NEW c \in Contents[f]
  PROVE  OpsOf(list, f, c) \in Seq(AllOps)
<1> DEFINE parts == [i \in DOMAIN list |-> PluginOf(list[i][1], list[i][2]).emits[<<f, c>>]]
<1>1. <<f, c>> \in Pairs
  BY DEF Pairs
<1>2. \A i \in DOMAIN list : list[i] \in Ids
  OBVIOUS
<1>3. \A i \in DOMAIN list : parts[i] \in Seq(AllOps)
  BY <1>1, <1>2, IdsEmitOps
<1>4. parts \in Seq(Seq(AllOps))
  <2>1. DOMAIN list = 1 .. Len(list) /\ Len(list) \in Nat
    OBVIOUS
  <2>2. parts \in [1 .. Len(list) -> Seq(AllOps)]
    BY <1>3, <2>1
  <2>. QED  BY <2>1, <2>2, SeqDef
<1>5. FlattenSeq(parts) \in Seq(AllOps)
  BY <1>4, FlattenSeqPlaces
<1>. QED  BY <1>5 DEF OpsOf

(* The set a build works with is the list of the plugins.                   *)
SetIsList ==
  IF pass.set = NoSet THEN PerFileList = <<>>
  ELSE pass.set \in DOMAIN registry.sets /\ registry.sets[pass.set] = PerFileList

(* Interning the list of a build gives no other list its id.                *)
LEMMA ExtractGrows ==
  ASSUME IdsOK, Extract
  PROVE  IdsOK' /\ Grown /\ SetIsList'
<1> DEFINE list == PerFileList
           sets == registry.sets
           set == IF list = <<>> THEN NoSet ELSE SetId(list)
<1>1. /\ UNCHANGED <<handles, plugins, content>>
      /\ registry' = IF set > Len(sets) THEN [registry EXCEPT !.sets = Append(@, list)] ELSE registry
      /\ pass' = [Ready EXCEPT !.pc = "build", !.set = set, !.scope = scope]
  BY DEF Extract
<1>2. pass'.set = set
  <2> HIDE DEF set
  <2>. QED  BY <1>1 DEF Ready
<1>3. list \in Seq(Ids) /\ sets \in Seq(Seq(Ids)) /\ Len(sets) \in Nat /\ DOMAIN sets = 1 .. Len(sets)
  BY ListOfIds DEF IdsOK, ProcessOK
<1>4. /\ list = <<>> => set = 0
      /\ list # <<>> => \/ set \in DOMAIN sets /\ sets[set] = list
                        \/ set = Len(sets) + 1
  BY DEF SetId, NoSet
<1>5. list' = list
  BY <1>1 DEF PerFileList, FirstOfItsId, IdOf, Plugin
<1> HIDE DEF list, set
<1>6. CASE set > Len(sets)
  <2>1. registry' = Process(registry.external, registry.configured, registry.byHash, Append(sets, list))
    <3>1. registry' = [registry EXCEPT !.sets = Append(@, list)]
      BY <1>1, <1>6
    <3>. QED  BY <3>1 DEF IdsOK, ProcessOK, Process
  <2>2. /\ registry'.external = registry.external /\ registry'.configured = registry.configured
        /\ registry'.byHash = registry.byHash /\ registry'.sets = Append(sets, list)
    BY <2>1 DEF Process
  <2>3. /\ Append(sets, list) \in Seq(Seq(Ids)) /\ Append(sets, list)[Len(sets) + 1] = list
        /\ DOMAIN Append(sets, list) = DOMAIN sets \cup {Len(sets) + 1}
        /\ \A s \in DOMAIN sets : Append(sets, list)[s] = sets[s]
    BY <1>3, Appended
  <2>4. set = Len(sets) + 1 /\ list # <<>> /\ set # NoSet
    BY <1>3, <1>4, <1>6 DEF NoSet
  <2>5. Ids' = Ids /\ \A x \in Ids : PluginOf(x[1], x[2])' = PluginOf(x[1], x[2])
    BY <2>2 DEF Ids, IdsIn, PluginOf
  <2>6. ProcessOK'
    BY <2>1, <2>2, <2>3, <2>5 DEF IdsOK, ProcessOK
  <2>7. HandlesOK'
    BY <1>1, <2>2 DEF IdsOK, HandlesOK, Carries
  <2>8. SetIsList'
    BY <1>2, <1>5, <2>2, <2>3, <2>4 DEF SetIsList, list
  <2>. QED  BY <1>1, <2>2, <2>3, <2>5, <2>6, <2>7, <2>8 DEF IdsOK, Grown
<1>7. CASE ~(set > Len(sets))
  <2>1. registry' = registry
    BY <1>1, <1>7
  <2>2. IdsOK'
    BY <1>1, <2>1 DEF IdsOK, ProcessOK, HandlesOK, Ids, Carries
  <2>3. Grown
    BY <1>1, <2>1 DEF Grown, Ids, PluginOf
  <2>4. list = <<>> \/ (set \in DOMAIN sets /\ sets[set] = list /\ set # NoSet)
    BY <1>3, <1>4, <1>7 DEF NoSet
  <2>5. SetIsList'
    BY <1>2, <1>4, <1>5, <2>1, <2>4 DEF SetIsList, list, NoSet
  <2>. QED  BY <2>2, <2>3, <2>5
<1>. QED  BY <1>6, <1>7

(* Ids and handles at every step.                                           *)
LEMMA IdsInit == Init => IdsOK
<1> SUFFICES ASSUME Init PROVE IdsOK
  OBVIOUS
<1>1. registry = Process(<<>>, <<>>, EmptyMap, <<>>) /\ handles = <<>> /\ plugins = <<>>
  BY DEF Init, Process
<1>2. /\ registry.external = <<>> /\ registry.configured = <<>> /\ registry.byHash = EmptyMap
      /\ registry.sets = <<>>
  BY <1>1 DEF Process
<1>3. ProcessOK
  <2>1. DOMAIN registry.byHash = {}
    BY <1>2 DEF EmptyMap
  <2>2. registry = Process(registry.external, registry.configured, registry.byHash, registry.sets)
    BY <1>1, <1>2
  <2>. QED  BY <1>2, <2>1, <2>2 DEF ProcessOK
<1>4. HandlesOK
  BY <1>1 DEF HandlesOK
<1>. QED  BY <1>3, <1>4 DEF IdsOK

(* No call takes an id from what has it, or gives it to something else.     *)
LEMMA IdsStep ==
  ASSUME IdsOK, [Next]_vars
  PROVE  IdsOK' /\ Grown
<1>1. CASE UNCHANGED <<registry, handles, plugins>>
  <2>1. IdsOK'
    BY <1>1 DEF IdsOK, ProcessOK, HandlesOK, Ids, Carries
  <2>. QED  BY <1>1, <2>1 DEF Grown, Ids, PluginOf
<1>2. CASE \E t \in Templates : Construct(t)
  BY <1>2, ConstructGrows
<1>3. CASE Extract
  BY <1>3, ExtractGrows
<1>4. CASE ClearPlugins \/ \E h \in DOMAIN handles : AddPlugin(h)
  <2>1. UNCHANGED <<registry, handles>> /\ (plugins' = <<>> \/ \E h \in DOMAIN handles : plugins' = Append(plugins, h))
    BY <1>4 DEF ClearPlugins, AddPlugin
  <2>2. plugins' \in Seq(DOMAIN handles')
    <3>1. plugins \in Seq(DOMAIN handles)
      BY DEF IdsOK, HandlesOK
    <3>2. <<>> \in Seq(DOMAIN handles) /\ \A h \in DOMAIN handles : Append(plugins, h) \in Seq(DOMAIN handles)
      BY <3>1, Appended
    <3>. QED  BY <2>1, <3>2
  <2>3. IdsOK'
    BY <2>1, <2>2 DEF IdsOK, ProcessOK, HandlesOK, Ids, Carries
  <2>. QED  BY <2>1, <2>3 DEF Grown, Ids, PluginOf
<1>. QED
  <2>1. CASE UNCHANGED vars
    BY <1>1, <2>1 DEF vars
  <2>2. CASE (\E f \in File : \E c \in Contents[f] : ApplyChanged(f, c)) \/ ApplyRescan \/ BuildFails
             \/ Assemble \/ Declare \/ StartWorkers \/ Apply \/ \E i \in DOMAIN plugins : RunPlugin(i)
    <3>1. UNCHANGED <<registry, handles, plugins>>
      BY <2>2 DEF ApplyChanged, ApplyRescan, BuildFails, Assemble, Declare, StartWorkers, Apply, RunPlugin
    <3>. QED  BY <1>1, <3>1
  <2>. QED  BY <1>2, <1>3, <1>4, <2>1, <2>2 DEF Next, Materialize

-----------------------------------------------------------------------------
(* Sources, memos and what the graph holds.                                 *)

IsScope(sc) == sc = Everything \/ \E fs \in SUBSET File : sc = Changed(fs)

SourcesOK ==
  /\ DOMAIN content = File /\ \A f \in File : content[f] \in Contents[f]
  /\ IsScope(scope)
  /\ pass.pc \in {"idle", "build", "declare", "run"}
  /\ pass.outcome.kind = "done" => pass.pc = "idle"
  /\ pass.pc = "build" => IsScope(pass.scope) /\ SetIsList

(* A memo is what the plugins of its set emit for the content it is of.     *)
MemoOK ==
  \A key \in DOMAIN memo :
    /\ key[1] \in File /\ key[2] \in DOMAIN registry.sets
    /\ memo[key].content \in Contents[key[1]]
    /\ memo[key].ops = OpsOf(registry.sets[key[2]], key[1], memo[key].content)

GraphOf(base, now, edges, facts, under) ==
  [base |-> base, now |-> now, edges |-> edges, facts |-> facts, under |-> under]

(* The file has what the set it was minted under emits for it as it is.     *)
Current(f) ==
  /\ graph.base[f] = FlagsIn(f, OpsOf(graph.under[f].flags, f, content[f]))
  /\ graph.edges[f] = EdgesIn(f, OpsOf(graph.under[f].edges, f, content[f]))

CurrentBut(sc) == ~sc.full => \A f \in File \ sc.files : Current(f)

Settled == pass.pc \in {"declare", "run"} \/ Finished

OpsNow == [f \in File |-> OpsOf(PerFileList, f, content[f])]

GraphOK ==
  /\ graph = GraphOf(graph.base, graph.now, graph.edges, graph.facts, graph.under)
  /\ \A f \in File : graph.under[f].flags \in Seq(Ids) /\ graph.under[f].edges \in Seq(Ids)
  /\ CurrentBut(scope)
  /\ pass.pc = "build" => CurrentBut(pass.scope)
  /\ Settled => scope = Changed({}) /\ graph.facts = FactsOf(OpsNow)


(* The fields of a pass are what it is made of.                             *)
LEMMA PassFields ==
  ASSUME NEW pc, NEW set, NEW sc, NEW at, NEW regs, NEW results, NEW outcome
  PROVE  LET p == PassOf(pc, set, sc, at, regs, results, outcome)
         IN  /\ p.pc = pc /\ p.set = set /\ p.scope = sc /\ p.at = at
             /\ p.regs = regs /\ p.results = results /\ p.outcome = outcome
BY DEF PassOf

(* The passes that calls leave or begin with.                               *)
LEMMA ReadyAs ==
  /\ Ready = PassOf("idle", NoSet, Everything, 1, flags, <<>>, Outcome("none"))
  /\ \A o : [Ready EXCEPT !.outcome = o] = PassOf("idle", NoSet, Everything, 1, flags, <<>>, o)
  /\ \A o, r : [Ready EXCEPT !.outcome = o, !.regs = r] = PassOf("idle", NoSet, Everything, 1, r, <<>>, o)
  /\ \A s, c : [Ready EXCEPT !.pc = "build", !.set = s, !.scope = c] = PassOf("build", s, c, 1, flags, <<>>, Outcome("none"))
<1>1. PICK none : none = Outcome("none")
  OBVIOUS
<1>2. Ready = PassOf("idle", NoSet, Everything, 1, flags, <<>>, none)
  BY <1>1 DEF Ready, PassOf
<1>3. ASSUME NEW o PROVE [Ready EXCEPT !.outcome = o] = PassOf("idle", NoSet, Everything, 1, flags, <<>>, o)
  BY <1>2 DEF PassOf
<1>4. ASSUME NEW o, NEW r
      PROVE  [Ready EXCEPT !.outcome = o, !.regs = r] = PassOf("idle", NoSet, Everything, 1, r, <<>>, o)
  <2>1. ASSUME NEW p, p = [Ready EXCEPT !.outcome = o, !.regs = r]
        PROVE  p = PassOf("idle", NoSet, Everything, 1, r, <<>>, o)
    BY <1>1, <2>1 DEF Ready, PassOf
  <2>. QED  BY <2>1
<1>5. ASSUME NEW s, NEW c
      PROVE  [Ready EXCEPT !.pc = "build", !.set = s, !.scope = c] = PassOf("build", s, c, 1, flags, <<>>, none)
  <2>1. ASSUME NEW p, p = [Ready EXCEPT !.pc = "build", !.set = s, !.scope = c]
        PROVE  p = PassOf("build", s, c, 1, flags, <<>>, none)
    BY <1>1, <2>1 DEF Ready, PassOf
  <2>. QED  BY <2>1
<1>. QED  BY <1>1, <1>2, <1>3, <1>4, <1>5

(* What a file has stays what its sets emit while it stays what it is.      *)
LEMMA CurrentKept ==
  ASSUME IdsOK, GraphOK, Grown, NEW f \in File, content'[f] = content[f], Current(f),
         graph'.base[f] = graph.base[f], graph'.edges[f] = graph.edges[f], graph'.under[f] = graph.under[f]
  PROVE  Current(f)'
<1>1. graph.under[f].flags \in Seq(Ids) /\ graph.under[f].edges \in Seq(Ids)
  BY DEF GraphOK
<1>2. /\ OpsOf(graph.under[f].flags, f, content[f])' = OpsOf(graph.under[f].flags, f, content[f])
      /\ OpsOf(graph.under[f].edges, f, content[f])' = OpsOf(graph.under[f].edges, f, content[f])
  <2>1. PICK a, b, c :
          /\ a \in Seq(Ids) /\ b \in Seq(Ids)
          /\ a = graph.under[f].flags /\ a = graph'.under[f].flags
          /\ b = graph.under[f].edges /\ b = graph'.under[f].edges
          /\ c = content[f] /\ c = content'[f]
    BY <1>1
  <2>2. a \in Seq(Ids) /\ b \in Seq(Ids)
    BY <2>1
  <2>3. OpsOf(a, f, c)' = OpsOf(a, f, c) /\ OpsOf(b, f, c)' = OpsOf(b, f, c)
    BY <2>2, OpsKept
  <2>. QED  BY <2>1, <2>3
<1>3. \A ops : FlagsIn(f, ops)' = FlagsIn(f, ops) /\ EdgesIn(f, ops)' = EdgesIn(f, ops)
  BY DEF FlagsIn, EdgesIn, HasNode
<1>. QED  BY <1>2, <1>3 DEF Current

(* The operations and facts of the files, likewise.                         *)
LEMMA OpsNowKept ==
  ASSUME IdsOK, Grown, plugins' = plugins, content' = content
  PROVE  OpsNow' = OpsNow /\ \A ops : FactsOf(ops)' = FactsOf(ops)
<1>1. \A f \in File : OpsOf(PerFileList, f, content[f])' = OpsOf(PerFileList, f, content[f])
  <2> SUFFICES ASSUME NEW f \in File PROVE OpsOf(PerFileList, f, content[f])' = OpsOf(PerFileList, f, content[f])
    OBVIOUS
  <2>1. PICK a, c : a \in Seq(Ids) /\ a = PerFileList /\ a = PerFileList' /\ c = content[f] /\ c = content'[f]
    BY ListOfIds, ListKept
  <2>2. a \in Seq(Ids)
    BY <2>1
  <2>3. OpsOf(a, f, c)' = OpsOf(a, f, c)
    BY <2>2, OpsKept
  <2>. QED  BY <2>1, <2>3
<1>2. OpsNow' = OpsNow
  BY <1>1 DEF OpsNow
<1>3. \A f, ops : FactsIn(f, ops)' = FactsIn(f, ops)
  <2>1. \A f, n : HasNode(f, n)' <=> HasNode(f, n)
    BY DEF HasNode
  <2>. QED  BY <2>1 DEF FactsIn
<1>4. \A ops : FactsOf(ops)' = FactsOf(ops)
  BY <1>3 DEF FactsOf
<1>. QED  BY <1>2, <1>4

(* Where each call leaves the pass.                                         *)
Edits == (\E h \in DOMAIN handles : AddPlugin(h)) \/ ClearPlugins \/ ApplyRescan
         \/ (\E f \in File : \E c \in Contents[f] : ApplyChanged(f, c))

(* Where each call leaves the pass, and with what outcome.                  *)
LEMMA PassMoves ==
  ASSUME PassOK
  PROVE  /\ Edits => pass'.pc = "idle" /\ pass'.outcome.kind = "none"
         /\ Extract => pass'.pc = "build" /\ pass'.outcome.kind = "none" /\ pass'.scope = scope
         /\ BuildFails => pass'.pc = "idle" /\ pass'.outcome.kind = "failed"
         /\ Assemble => pass'.pc = "declare" /\ pass'.outcome = pass.outcome
         /\ Declare => \/ pass'.pc = "declare" /\ pass'.outcome = pass.outcome
                       \/ pass'.pc = "idle" /\ pass'.outcome.kind = "refused"
         /\ StartWorkers => pass'.pc = "run" /\ pass'.outcome = pass.outcome
         /\ \A i \in DOMAIN plugins : RunPlugin(i) => pass'.pc = "run" /\ pass'.outcome = pass.outcome
         /\ Apply => pass'.pc = "idle" /\ pass'.outcome.kind \in {"error", "done"}
<1>0. PICK pc, set, sc, at, regs, results, outcome : pass = PassOf(pc, set, sc, at, regs, results, outcome)
  BY DEF PassOK
<1>1. \A kind : Outcome(kind).kind = kind
  BY DEF Outcome
<1>2. ASSUME Edits PROVE pass'.pc = "idle" /\ pass'.outcome.kind = "none"
  <2>1. pass' = Ready
    BY <1>2 DEF Edits, AddPlugin, ClearPlugins, ApplyRescan, ApplyChanged
  <2>2. pass' = PassOf("idle", NoSet, Everything, 1, flags, <<>>, Outcome("none"))
    BY <2>1, ReadyAs
  <2>. QED  BY <1>1, <2>2, PassFields
<1>3. ASSUME Extract PROVE pass'.pc = "build" /\ pass'.outcome.kind = "none" /\ pass'.scope = scope
  <2>1. PICK s : pass' = [Ready EXCEPT !.pc = "build", !.set = s, !.scope = scope]
    BY <1>3 DEF Extract
  <2>2. pass' = PassOf("build", s, scope, 1, flags, <<>>, Outcome("none"))
    BY <2>1, ReadyAs
  <2>. QED  BY <1>1, <2>2, PassFields
<1>4. ASSUME BuildFails PROVE pass'.pc = "idle" /\ pass'.outcome.kind = "failed"
  <2>1. pass' = PassOf("idle", NoSet, Everything, 1, flags, <<>>, Outcome("failed"))
    BY <1>4, ReadyAs DEF BuildFails
  <2>. QED  BY <1>1, <2>1, PassFields
<1>5. ASSUME Assemble PROVE pass'.pc = "declare" /\ pass'.outcome = pass.outcome
  <2>1. \E r : pass' = [pass EXCEPT !.pc = "declare", !.regs = r]
    BY <1>5 DEF Assemble
  <2>2. \E r : pass' = PassOf("declare", set, sc, at, r, results, outcome)
    BY <1>0, <2>1 DEF PassOf
  <2>. QED  BY <1>0, <2>2, PassFields
<1>6. ASSUME Declare
      PROVE  \/ pass'.pc = "declare" /\ pass'.outcome = pass.outcome
             \/ pass'.pc = "idle" /\ pass'.outcome.kind = "refused"
  <2>0. pass.pc = "declare"
    BY <1>6 DEF Declare
  <2>1. CASE pass' = [Ready EXCEPT !.outcome = Outcome("refused")]
    <3>1. pass' = PassOf("idle", NoSet, Everything, 1, flags, <<>>, Outcome("refused"))
      BY <2>1, ReadyAs
    <3>. QED  BY <1>1, <3>1, PassFields
  <2>2. CASE \E decl : pass' = [pass EXCEPT !.at = @ + 1, !.regs[decl.kind] = Registered(decl).reg]
    <3>1. PICK decl : pass' = [pass EXCEPT !.at = @ + 1, !.regs[decl.kind] = Registered(decl).reg]
      BY <2>2
    <3>2. pass' = PassOf(pc, set, sc, at + 1, [regs EXCEPT ![decl.kind] = Registered(decl).reg], results, outcome)
      BY <1>0, <3>1 DEF PassOf
    <3>3. pass.pc = pc /\ pass.outcome = outcome
      BY <1>0, PassFields
    <3>. QED  BY <2>0, <3>2, <3>3, PassFields
  <2>3. PICK decl, r : /\ r = Registered(decl)
                       /\ \/ pass' = [pass EXCEPT !.at = @ + 1, !.regs[decl.kind] = r.reg]
                          \/ pass' = [Ready EXCEPT !.outcome = Outcome("refused")]
    BY <1>6 DEF Declare
  <2>4. CASE pass' = [pass EXCEPT !.at = @ + 1, !.regs[decl.kind] = r.reg]
    BY <2>2, <2>3, <2>4
  <2>. QED  BY <2>1, <2>3, <2>4
<1>7. ASSUME StartWorkers PROVE pass'.pc = "run" /\ pass'.outcome = pass.outcome
  <2>1. pass' = PassOf("run", set, sc, at, regs, results, outcome)
    BY <1>0, <1>7 DEF PassOf, StartWorkers
  <2>. QED  BY <1>0, <2>1, PassFields
<1>8. ASSUME NEW i \in DOMAIN plugins, RunPlugin(i) PROVE pass'.pc = "run" /\ pass'.outcome = pass.outcome
  <2>1. (\E r : pass' = [pass EXCEPT !.results = r]) /\ pass.pc = "run"
    BY <1>8 DEF RunPlugin
  <2>2. \E r : pass' = PassOf(pc, set, sc, at, regs, r, outcome)
    BY <1>0, <2>1 DEF PassOf
  <2>. QED  BY <1>0, <2>1, <2>2, PassFields
<1>9. ASSUME Apply PROVE pass'.pc = "idle" /\ pass'.outcome.kind \in {"error", "done"}
  <2> DEFINE error == [kind |-> "error", error |-> FirstFailure, of |-> {pass.results[k].plugin : k \in Failures}]
  <2>1. CASE pass' = [Ready EXCEPT !.outcome = error]
    <3>1. error.kind = "error"
      OBVIOUS
    <3> HIDE DEF error
    <3>2. pass' = PassOf("idle", NoSet, Everything, 1, flags, <<>>, error)
      BY <2>1, ReadyAs
    <3>. QED  BY <3>1, <3>2, PassFields
  <2>2. CASE pass' = [Ready EXCEPT !.outcome = Outcome("done"), !.regs = pass.regs]
    <3>1. pass' = PassOf("idle", NoSet, Everything, 1, pass.regs, <<>>, Outcome("done"))
      BY <2>2, ReadyAs
    <3>. QED  BY <1>1, <3>1, PassFields
  <2>. QED  BY <1>9, <2>1, <2>2 DEF Apply
<1>. QED  BY <1>2, <1>3, <1>4, <1>5, <1>6, <1>7, <1>8, <1>9

(* What a build opens is what the plugins' ids emit for each file.          *)
LEMMA OpenedOps ==
  ASSUME IdsOK, SourcesOK, MemoOK, pass.pc = "build", NEW f \in File
  PROVE  /\ Opened[f].content = content[f]
         /\ Opened[f].ops = OpsOf(PerFileList, f, content[f])
<1>1. CASE pass.set = NoSet
  <2>1. PerFileList = <<>>
    BY <1>1 DEF SourcesOK, SetIsList
  <2>2. OpsOf(<<>>, f, content[f]) = <<>>
    <3>1. [i \in DOMAIN <<>> |-> PluginOf(<<>>[i][1], <<>>[i][2]).emits[<<f, content[f]>>]] = <<>>
      OBVIOUS
    <3>. QED  BY <3>1, FlattenSeqEmpty DEF OpsOf
  <2>. QED  BY <1>1, <2>1, <2>2 DEF Opened
<1>2. CASE pass.set # NoSet
  <2>1. Opened[f] = PerFileOps(f)
    BY <1>2 DEF Opened
  <2>2. registry.sets[pass.set] = PerFileList
    BY <1>2 DEF SourcesOK, SetIsList
  <2> DEFINE key == <<f, pass.set>>
  <2>3. CASE key \in DOMAIN memo /\ memo[key].content = content[f]
    <3>1. PerFileOps(f) = memo[key]
      BY <2>3 DEF PerFileOps
    <3>2. memo[key].ops = OpsOf(registry.sets[pass.set], f, content[f])
      BY <2>3 DEF MemoOK
    <3>. QED  BY <2>1, <2>2, <2>3, <3>1, <3>2
  <2>4. CASE ~(key \in DOMAIN memo /\ memo[key].content = content[f])
    <3>1. PerFileOps(f) = [content |-> content[f], ops |-> OpsOf(registry.sets[pass.set], f, content[f])]
      BY <2>4 DEF PerFileOps
    <3>. QED  BY <2>1, <2>2, <3>1
  <2>. QED  BY <2>3, <2>4
<1>. QED  BY <1>1, <1>2

(* Scope and set of a build are those it began with.                        *)
LEMMA SourcesStep ==
  ASSUME PassOK, IdsOK, SourcesOK, [Next]_vars
  PROVE  SourcesOK'
<1>1. CASE UNCHANGED <<content, scope, pass>> /\ pass.pc = "idle"
  BY <1>1 DEF SourcesOK, IsScope
<1>2. CASE UNCHANGED vars
  BY <1>2 DEF vars, SourcesOK, IsScope, SetIsList, PerFileList, FirstOfItsId, IdOf, Plugin
<1>3. CASE \E t \in Templates : Construct(t)
  <2>1. UNCHANGED <<content, scope, pass>> /\ pass.pc = "idle"
    BY <1>3 DEF Construct
  <2>. QED  BY <1>1, <2>1
<1>4. CASE Edits
  <2>1. pass'.pc = "idle" /\ pass'.outcome.kind = "none"
    BY <1>4, PassMoves
  <2>2. DOMAIN content' = File /\ \A f \in File : content'[f] \in Contents[f]
    BY <1>4 DEF Edits, AddPlugin, ClearPlugins, ApplyRescan, ApplyChanged, SourcesOK
  <2>3. IsScope(scope')
    <3>1. CASE scope' \in {scope, Everything}
      BY <3>1 DEF SourcesOK, IsScope
    <3>2. CASE \E f \in File : scope' = Changed(scope.files \cup {f}) /\ ~scope.full
      <4>1. scope.files \subseteq File
        BY <3>2 DEF SourcesOK, IsScope, Everything, Changed
      <4>. QED  BY <3>2, <4>1 DEF IsScope
    <3>. QED  BY <1>4, <3>1, <3>2 DEF Edits, AddPlugin, ClearPlugins, ApplyRescan, ApplyChanged
  <2>. QED  BY <2>1, <2>2, <2>3 DEF SourcesOK
<1>5. CASE Extract
  <2>1. pass'.pc = "build" /\ pass'.outcome.kind = "none" /\ pass'.scope = scope
    BY <1>5, PassMoves
  <2>2. scope' = Everything /\ content' = content
    BY <1>5 DEF Extract
  <2>3. IsScope(scope') /\ IsScope(pass'.scope)
    BY <2>1, <2>2 DEF SourcesOK, IsScope
  <2>4. SetIsList'
    BY <1>5, ExtractGrows
  <2>. QED  BY <2>1, <2>2, <2>3, <2>4 DEF SourcesOK
<1>6. CASE BuildFails \/ Declare \/ StartWorkers \/ Apply \/ \E i \in DOMAIN plugins : RunPlugin(i)
  <2>1. UNCHANGED <<content, scope>>
    BY <1>6 DEF BuildFails, Declare, StartWorkers, Apply, RunPlugin
  <2>2. pass.pc # "idle" /\ pass'.pc \in {"idle", "declare", "run"}
    BY <1>6, PassMoves DEF BuildFails, Declare, StartWorkers, Apply, RunPlugin
  <2>3. pass'.outcome.kind = "done" => pass'.pc = "idle"
    BY <1>6, <2>2, PassMoves DEF SourcesOK
  <2>. QED  BY <2>1, <2>2, <2>3 DEF SourcesOK, IsScope
<1>7. CASE Assemble
  <2>1. content' = content /\ scope' = Changed({}) /\ pass.pc = "build"
    BY <1>7 DEF Assemble
  <2>2. pass'.pc = "declare" /\ pass'.outcome = pass.outcome
    BY <1>7, PassMoves
  <2>3. IsScope(scope')
    BY <2>1 DEF IsScope
  <2>. QED  BY <2>1, <2>2, <2>3 DEF SourcesOK
<1>. QED  BY <1>2, <1>3, <1>4, <1>5, <1>6, <1>7 DEF Next, Materialize, Edits

(* A memo stays true: its set and the plugins of its set do not change.     *)
LEMMA MemoStep ==
  ASSUME PassOK, IdsOK, SourcesOK, MemoOK, [Next]_vars
  PROVE  MemoOK'
<1>1. Grown /\ IdsOK'
  BY IdsStep
<1>2. ASSUME NEW s \in DOMAIN registry.sets, NEW f, NEW c
      PROVE  /\ s \in DOMAIN registry'.sets
             /\ OpsOf(registry.sets[s], f, c)' = OpsOf(registry.sets[s], f, c)
  <2>1. registry.sets[s] \in Seq(Ids) /\ registry'.sets[s] = registry.sets[s] /\ s \in DOMAIN registry'.sets
    BY <1>1 DEF IdsOK, ProcessOK, Grown
  <2>2. PICK a \in Seq(Ids) : a = registry.sets[s] /\ a = registry'.sets[s]
    BY <2>1
  <2>3. OpsOf(a, f, c)' = OpsOf(a, f, c)
    BY <1>1, OpsKept
  <2>. QED  BY <2>1, <2>2, <2>3
<1>3. CASE memo' = memo
  BY <1>2, <1>3 DEF MemoOK
<1>4. CASE Assemble
  <2>1. memo' = Warmed(Opened) /\ UNCHANGED <<registry, content>> /\ pass.pc = "build"
    BY <1>4 DEF Assemble
  <2>2. CASE pass.set = NoSet
    BY <1>3, <2>1, <2>2 DEF Warmed
  <2>3. CASE pass.set # NoSet
    <3> DEFINE keys == {<<f, pass.set>> : f \in File}
    <3>1. memo' = [key \in DOMAIN memo \cup keys |-> IF key \in keys THEN Opened[key[1]] ELSE memo[key]]
      BY <2>1, <2>3 DEF Warmed
    <3>2. ASSUME NEW f \in File
          PROVE  LET key == <<f, pass.set>>
                 IN  /\ pass.set \in DOMAIN registry.sets
                     /\ Opened[f].content \in Contents[f]
                     /\ Opened[f].ops = OpsOf(registry.sets[pass.set], f, Opened[f].content)
      <4>1. /\ Opened[f].content = content[f]
            /\ Opened[f].ops = OpsOf(PerFileList, f, content[f])
        BY <2>1, OpenedOps
      <4>2. pass.set \in DOMAIN registry.sets /\ registry.sets[pass.set] = PerFileList
        BY <2>1, <2>3 DEF SourcesOK, SetIsList
      <4>. QED  BY <4>1, <4>2 DEF SourcesOK
    <3> SUFFICES ASSUME NEW key \in DOMAIN memo'
                 PROVE  /\ key[1] \in File /\ key[2] \in DOMAIN registry'.sets
                        /\ memo'[key].content \in Contents[key[1]]
                        /\ memo'[key].ops = OpsOf(registry.sets[key[2]], key[1], memo[key].content)'
      BY DEF MemoOK
    <3> SUFFICES /\ key[1] \in File /\ key[2] \in DOMAIN registry.sets
                 /\ memo'[key].content \in Contents[key[1]]
                 /\ memo'[key].ops = OpsOf(registry.sets[key[2]], key[1], memo'[key].content)
      <4>1. PICK c : c = memo'[key].content
        OBVIOUS
      <4>2. OpsOf(registry.sets[key[2]], key[1], c)' = OpsOf(registry.sets[key[2]], key[1], c)
        BY <1>2
      <4>. QED  BY <2>1, <4>1, <4>2
    <3>3. CASE key \in keys
      <4>1. PICK f \in File : key = <<f, pass.set>>
        BY <3>3
      <4>2. key[1] = f /\ key[2] = pass.set /\ memo'[key] = Opened[f]
        BY <3>1, <3>3, <4>1
      <4>. QED  BY <2>1, <3>2, <4>2
    <3>4. CASE key \notin keys
      <4>1. key \in DOMAIN memo /\ memo'[key] = memo[key]
        BY <3>1, <3>4
      <4>. QED  BY <2>1, <4>1 DEF MemoOK
    <3>. QED  BY <3>3, <3>4
  <2>. QED  BY <2>2, <2>3
<1>5. CASE UNCHANGED vars
  BY <1>3, <1>5 DEF vars
<1>. QED  BY <1>3, <1>4, <1>5
          DEF Next, Materialize, Construct, AddPlugin, ClearPlugins, ApplyChanged, ApplyRescan, Extract,
              BuildFails, Declare, StartWorkers, Apply, RunPlugin

(* A call that leaves the graph's files alone leaves them current.          *)
LEMMA CurrentButKept ==
  ASSUME IdsOK, GraphOK, Grown, content' = content, graph'.base = graph.base, graph'.edges = graph.edges,
         graph'.under = graph.under, NEW sc, CurrentBut(sc)
  PROVE  CurrentBut(sc)'
<1>1. \A f \in File : Current(f) => Current(f)'
  BY CurrentKept
<1>. QED  BY <1>1 DEF CurrentBut

(* A call that leaves files, sources and plugins alone keeps the graph current. *)
LEMMA GraphKept ==
  ASSUME IdsOK, GraphOK, Grown, content' = content, scope' = scope,
         graph' = GraphOf(graph'.base, graph'.now, graph'.edges, graph'.facts, graph'.under),
         graph'.base = graph.base, graph'.edges = graph.edges, graph'.facts = graph.facts, graph'.under = graph.under,
         pass'.pc # "build", Settled' => Settled /\ plugins' = plugins
  PROVE  GraphOK'
<1>1. CurrentBut(scope)'
  <2>1. PICK sc : sc = scope /\ sc = scope'
    OBVIOUS
  <2>2. CurrentBut(sc)'
    BY <2>1, CurrentButKept DEF GraphOK
  <2>. QED  BY <2>1, <2>2 DEF CurrentBut
<1>2. ASSUME Settled' PROVE scope' = Changed({}) /\ graph'.facts = FactsOf(OpsNow)'
  <2>1. scope = Changed({}) /\ graph.facts = FactsOf(OpsNow)
    BY <1>2 DEF GraphOK
  <2>2. OpsNow' = OpsNow /\ \A ops : FactsOf(ops)' = FactsOf(ops)
    BY <1>2, OpsNowKept
  <2>3. FactsOf(OpsNow)' = FactsOf(OpsNow)
    <3>1. PICK a : a = OpsNow /\ a = OpsNow'
      BY <2>2
    <3>2. FactsOf(a)' = FactsOf(a)
      BY <2>2
    <3>. QED  BY <3>1, <3>2 DEF FactsOf, FactsIn
  <2>. QED  BY <2>1, <2>3
<1>3. \A f \in File : graph'.under[f].flags \in Seq(Ids') /\ graph'.under[f].edges \in Seq(Ids')
  BY OpsKept DEF GraphOK
<1>. QED  BY <1>1, <1>2, <1>3 DEF GraphOK

(* An edit.                                                                 *)
LEMMA EditsKeepGraph ==
  ASSUME PassOK, IdsOK, SourcesOK, GraphOK, Grown, Edits
  PROVE  GraphOK'
<1>1. pass'.pc = "idle" /\ ~Settled'
  BY PassMoves DEF Settled, Finished
<1>2. graph' = graph
  BY DEF Edits, AddPlugin, ClearPlugins, ApplyRescan, ApplyChanged
<1>3. CASE UNCHANGED <<content, scope>>
  BY <1>1, <1>2, <1>3, GraphKept DEF GraphOK
<1>4. \A f \in File : graph'.under[f].flags \in Seq(Ids') /\ graph'.under[f].edges \in Seq(Ids')
  BY <1>2, OpsKept DEF GraphOK
<1>5. ASSUME CurrentBut(scope)' PROVE GraphOK'
  BY <1>1, <1>2, <1>4, <1>5 DEF GraphOK
<1>6. CASE ApplyRescan
  <2>1. scope' = Everything
    BY <1>6 DEF ApplyRescan
  <2>2. CurrentBut(scope)'
    BY <2>1 DEF CurrentBut, Everything
  <2>. QED  BY <1>5, <2>2
<1>7. CASE \E f \in File : \E c \in Contents[f] : ApplyChanged(f, c)
  <2>1. PICK f, c : f \in File /\ ApplyChanged(f, c)
    BY <1>7
  <2>2. /\ content' = [content EXCEPT ![f] = c]
        /\ scope' = IF scope.full THEN scope ELSE Changed(scope.files \cup {f})
    BY <2>1 DEF ApplyChanged
  <2>3. CASE scope.full
    <3>1. CurrentBut(scope)'
      BY <2>2, <2>3 DEF CurrentBut
    <3>. QED  BY <1>5, <3>1
  <2>4. CASE ~scope.full
    <3>1. scope'.files = scope.files \cup {f}
      BY <2>2, <2>4 DEF Changed
    <3>2. ASSUME NEW g \in File \ scope'.files PROVE Current(g)'
      <4>1. g # f /\ g \in File \ scope.files
        BY <3>1, <3>2
      <4>2. content'[g] = content[g]
        BY <2>2, <4>1 DEF SourcesOK
      <4>3. Current(g)
        BY <2>4, <4>1 DEF GraphOK, CurrentBut
      <4>. QED  BY <1>2, <4>1, <4>2, <4>3, CurrentKept
    <3>3. CurrentBut(scope)'
      BY <3>2 DEF CurrentBut
    <3>. QED  BY <1>5, <3>3
  <2>. QED  BY <2>3, <2>4
<1>8. CASE ClearPlugins \/ \E h \in DOMAIN handles : AddPlugin(h)
  BY <1>3, <1>8 DEF ClearPlugins, AddPlugin
<1>. QED  BY <1>6, <1>7, <1>8 DEF Edits

(* A build: what it mints or translates again is current, the rest still is. *)
LEMMA AssembleGraph ==
  ASSUME PassOK, IdsOK, SourcesOK, MemoOK, GraphOK, Assemble
  PROVE  GraphOK'
<1> DEFINE list == PerFileList
           set == IF pass.set = NoSet THEN <<>> ELSE registry.sets[pass.set]
           full == pass.scope.full
           fill == IF full THEN File ELSE pass.scope.files
<1>1. PICK more \in SUBSET File :
        LET redo == fill \cup more
            base == [f \in File |-> IF f \in fill THEN FlagsIn(f, Opened[f].ops) ELSE Carried(f)]
        IN  graph' = [base |-> base, now |-> base,
                      edges |-> [f \in File |-> IF f \in redo THEN EdgesIn(f, Opened[f].ops) ELSE graph.edges[f]],
                      facts |-> FactsAfter([f \in File |-> Opened[f].ops], fill),
                      under |-> [f \in File |-> [flags |-> IF f \in fill THEN set ELSE graph.under[f].flags,
                                                 edges |-> IF f \in redo THEN set ELSE graph.under[f].edges]]]
  BY DEF Assemble
<1> DEFINE redo == fill \cup more
           base == [f \in File |-> IF f \in fill THEN FlagsIn(f, Opened[f].ops) ELSE Carried(f)]
           edges == [f \in File |-> IF f \in redo THEN EdgesIn(f, Opened[f].ops) ELSE graph.edges[f]]
           facts == FactsAfter([f \in File |-> Opened[f].ops], fill)
           under == [f \in File |-> [flags |-> IF f \in fill THEN set ELSE graph.under[f].flags,
                                     edges |-> IF f \in redo THEN set ELSE graph.under[f].edges]]
<1>2. graph' = GraphOf(base, base, edges, facts, under)
  BY <1>1 DEF GraphOf
<1> HIDE DEF base, edges, facts, under
<1>3. graph'.base = base /\ graph'.edges = edges /\ graph'.facts = facts /\ graph'.under = under /\ graph'.now = base
  BY <1>2 DEF GraphOf
<1>4. /\ UNCHANGED <<registry, handles, plugins, content>> /\ scope' = Changed({}) /\ pass.pc = "build"
      /\ pass'.pc = "declare"
  BY PassMoves DEF Assemble
<1>5. set = list /\ list \in Seq(Ids)
  BY <1>4, ListOfIds DEF SourcesOK, SetIsList
<1>6. \A f \in File : Opened[f].ops = OpsOf(list, f, content[f])
  BY <1>4, OpenedOps
<1> HIDE DEF list, set
<1>7. ASSUME NEW f \in File PROVE Current(f)' /\ under[f].flags \in Seq(Ids) /\ under[f].edges \in Seq(Ids)
  <2>1. /\ base[f] = IF f \in fill THEN FlagsIn(f, OpsOf(list, f, content[f])) ELSE graph.base[f]
        /\ edges[f] = IF f \in redo THEN EdgesIn(f, OpsOf(list, f, content[f])) ELSE graph.edges[f]
        /\ under[f].flags = IF f \in fill THEN list ELSE graph.under[f].flags
        /\ under[f].edges = IF f \in redo THEN list ELSE graph.under[f].edges
    BY <1>5, <1>6 DEF base, edges, under, Carried
  <2>2. f \notin fill => Current(f)
    BY <1>4 DEF GraphOK, CurrentBut
  <2>3. f \in fill => f \in redo
    OBVIOUS
  <2> HIDE DEF fill, redo
  <2>4. /\ base[f] = FlagsIn(f, OpsOf(under[f].flags, f, content[f]))
        /\ edges[f] = EdgesIn(f, OpsOf(under[f].edges, f, content[f]))
    BY <2>1, <2>2, <2>3 DEF Current
  <2>5. under[f].flags \in Seq(Ids) /\ under[f].edges \in Seq(Ids)
    BY <1>5, <2>1 DEF GraphOK
  <2>6. Current(f)' <=> /\ base[f] = FlagsIn(f, OpsOf(under[f].flags, f, content[f]))
                       /\ edges[f] = EdgesIn(f, OpsOf(under[f].edges, f, content[f]))
    <3>1. PICK a, b, c : a = under[f].flags /\ b = under[f].edges /\ c = content[f] /\ c = content'[f]
      BY <1>4
    <3>2. OpsOf(a, f, c)' = OpsOf(a, f, c) /\ OpsOf(b, f, c)' = OpsOf(b, f, c)
      BY <1>4 DEF OpsOf, PluginOf
    <3>3. \A ops : FlagsIn(f, ops)' = FlagsIn(f, ops) /\ EdgesIn(f, ops)' = EdgesIn(f, ops)
      BY <1>4 DEF FlagsIn, EdgesIn, HasNode
    <3>. QED  BY <1>3, <3>1, <3>2, <3>3 DEF Current
  <2>. QED  BY <2>4, <2>5, <2>6
<1>8. CurrentBut(scope)'
  BY <1>7 DEF CurrentBut
<1>9. graph'.facts = FactsOf(OpsNow)'
  <2>1. [f \in File |-> Opened[f].ops] = OpsNow
    BY <1>6 DEF OpsNow, list
  <2>2. facts = FactsOf(OpsNow)
    BY <2>1 DEF facts, FactsAfter
  <2>3. FactsOf(OpsNow)' = FactsOf(OpsNow)
    BY <1>4 DEF FactsOf, FactsIn, HasNode, OpsNow, OpsOf, PluginOf, PerFileList, FirstOfItsId, IdOf, Plugin
  <2>. QED  BY <1>3, <2>2, <2>3
<1>10. Ids' = Ids
  BY <1>4 DEF Ids
<1>11. graph' = GraphOf(graph'.base, graph'.now, graph'.edges, graph'.facts, graph'.under)
  BY <1>2, <1>3
<1>. QED  BY <1>3, <1>4, <1>7, <1>8, <1>9, <1>10, <1>11 DEF GraphOK

(* Whatever the call, what the graph holds of the plugins' work stays what  *)
(* their sets emit.                                                         *)
LEMMA GraphStep ==
  ASSUME PassOK, IdsOK, SourcesOK, MemoOK, GraphOK, [Next]_vars
  PROVE  GraphOK'
<1>1. Grown
  BY IdsStep
<1>2. CASE \E t \in Templates : Construct(t)
  <2>1. UNCHANGED <<plugins, content, scope, graph, pass>> /\ pass.pc = "idle"
    BY <1>2 DEF Construct
  <2>2. Settled' => Settled
    BY <2>1 DEF Settled, Finished
  <2>. QED  BY <1>1, <2>1, <2>2, GraphKept DEF GraphOK
<1>3. CASE Edits
  BY <1>1, <1>3, EditsKeepGraph
<1>4. CASE Extract
  <2>1. pass'.pc = "build" /\ pass'.outcome.kind = "none" /\ pass'.scope = scope
    BY <1>4, PassMoves
  <2>2. scope' = Everything /\ UNCHANGED <<content, graph>>
    BY <1>4 DEF Extract
  <2>3. \A f \in File : graph'.under[f].flags \in Seq(Ids') /\ graph'.under[f].edges \in Seq(Ids')
    BY <1>1, <2>2, OpsKept DEF GraphOK
  <2>4. CurrentBut(scope)'
    BY <2>2 DEF CurrentBut, Everything
  <2>5. CurrentBut(pass.scope)'
    <3>1. PICK sc : sc = scope /\ sc = pass'.scope
      BY <2>1
    <3>2. CurrentBut(sc)'
      BY <1>1, <2>2, <3>1, CurrentButKept DEF GraphOK
    <3>. QED  BY <3>1, <3>2 DEF CurrentBut
  <2>6. ~Settled'
    BY <2>1 DEF Settled, Finished
  <2>. QED  BY <2>2, <2>3, <2>4, <2>5, <2>6 DEF GraphOK
<1>5. CASE BuildFails \/ Declare \/ StartWorkers \/ \E i \in DOMAIN plugins : RunPlugin(i)
  <2>1. UNCHANGED <<plugins, content, scope, graph>>
    BY <1>5 DEF BuildFails, Declare, StartWorkers, RunPlugin
  <2>2. pass'.pc # "build" /\ (Settled' => Settled)
    <3>1. CASE BuildFails
      BY <3>1, PassMoves DEF Settled, Finished
    <3>2. CASE Declare
      <4>1. pass.pc = "declare"
        BY <3>2 DEF Declare
      <4>. QED  BY <3>2, <4>1, PassMoves DEF Settled, Finished
    <3>3. CASE StartWorkers
      <4>1. pass.pc = "declare"
        BY <3>3 DEF StartWorkers
      <4>. QED  BY <3>3, <4>1, PassMoves DEF Settled, Finished
    <3>4. CASE \E i \in DOMAIN plugins : RunPlugin(i)
      <4>1. pass.pc = "run"
        BY <3>4 DEF RunPlugin
      <4>. QED  BY <3>4, <4>1, PassMoves DEF Settled, Finished
    <3>. QED  BY <1>5, <3>1, <3>2, <3>3, <3>4
  <2>. QED  BY <1>1, <2>1, <2>2, GraphKept DEF GraphOK
<1>6. CASE Apply
  <2>1. pass'.pc = "idle" /\ Settled /\ UNCHANGED <<plugins, content, scope>>
    BY <1>6, PassMoves DEF Apply, Settled
  <2>2. PICK now : graph' = GraphOf(graph.base, now, graph.edges, graph.facts, graph.under)
    <3>1. PICK b, n, e, d, u : graph = GraphOf(b, n, e, d, u)
      BY DEF GraphOK
    <3>2. graph' = graph \/ \E m : graph' = [graph EXCEPT !.now = m]
      BY <1>6 DEF Apply
    <3>3. \E m : graph' = GraphOf(b, m, e, d, u)
      BY <3>1, <3>2 DEF GraphOf
    <3>. QED  BY <3>1, <3>3 DEF GraphOf
  <2>3. /\ graph'.base = graph.base /\ graph'.edges = graph.edges /\ graph'.facts = graph.facts
        /\ graph'.under = graph.under /\ graph'.now = now
    BY <2>2 DEF GraphOf
  <2>. QED  BY <1>1, <2>1, <2>2, <2>3, GraphKept
<1>7. CASE Assemble
  BY <1>7, AssembleGraph
<1>8. CASE UNCHANGED vars
  <2>1. UNCHANGED <<registry, handles, plugins, content, scope, graph, pass>>
    BY <1>8 DEF vars
  <2>2. CASE pass.pc # "build"
    BY <1>1, <2>1, <2>2, GraphKept DEF GraphOK, Settled, Finished
  <2>3. CASE pass.pc = "build"
    <3>1. ~Settled'
      BY <2>1, <2>3 DEF SourcesOK, Settled, Finished
    <3>2. CurrentBut(scope)' /\ CurrentBut(pass.scope)'
      <4>1. PICK sc, sd : sc = scope /\ sc = scope' /\ sd = pass.scope /\ sd = pass'.scope
        BY <2>1
      <4>2. CurrentBut(sc)' /\ CurrentBut(sd)'
        BY <1>1, <2>1, <2>3, <4>1, CurrentButKept DEF GraphOK
      <4>. QED  BY <4>1, <4>2 DEF CurrentBut
    <3>3. \A f \in File : graph'.under[f].flags \in Seq(Ids') /\ graph'.under[f].edges \in Seq(Ids')
      BY <1>1, <2>1, OpsKept DEF GraphOK
    <3>. QED  BY <2>1, <3>1, <3>2, <3>3 DEF GraphOK
  <2>. QED  BY <2>2, <2>3
<1>. QED  BY <1>2, <1>3, <1>4, <1>5, <1>6, <1>7, <1>8 DEF Next, Materialize, Edits

-----------------------------------------------------------------------------
(* The registries and results of a pass, and what it stamps.                *)

EngineNames == Seeded(NodeWidth, NodeBuiltins).byName

(* The engine's flags have their bits, a plugin's flag has one of its own.  *)
EngineKept(byName) == \A n \in DOMAIN EngineNames : n \in DOMAIN byName /\ byName[n] = EngineNames[n]
Declared(byName, decl) == decl.kind = "node" => decl.spec.name \in DOMAIN byName /\ ~Reserved(decl.spec.name)

(* What was declared so far is in the registries of the pass.               *)
DeclaredOK ==
  /\ pass.at \in Nat \ {0}
  /\ pass.pc \in {"idle", "build"} => pass.at = 1
  /\ pass.pc \in {"declare", "run"} =>
       /\ EngineKept(pass.regs.node.byName)
       /\ \A k \in DOMAIN Declarations : k < pass.at => Declared(pass.regs.node.byName, Declarations[k])
  /\ pass.pc = "run" => \A k \in DOMAIN Declarations : k < pass.at

(* A result is of a plugin of the context, and what that plugin stamps.     *)
ResultsOK ==
  /\ pass.results \in Seq(Entries(pass.results))
  /\ pass.pc # "run" => pass.results = <<>>
  /\ \A r \in Entries(pass.results) :
       r.plugin \in DOMAIN plugins /\ (~r.failed => r.stamps = Stamps(Plugin(r.plugin)))

(* The pass starts from what the build left on the nodes.                   *)
NowOK == pass.pc \in {"declare", "run"} => graph.now = graph.base

(* What each call does to the rest of the pass.                             *)
LEMMA PassFieldsMove ==
  ASSUME PassOK, IdsOK
  PROVE  /\ Edits \/ Extract \/ BuildFails \/ Apply => pass'.at = 1 /\ pass'.results = <<>>
         /\ Assemble => /\ pass'.at = pass.at /\ pass'.results = pass.results
                        /\ pass'.regs.node = Seeded(NodeWidth, NodeBuiltins)
         /\ Declare => \/ pass'.at = 1 /\ pass'.results = <<>> /\ pass'.pc = "idle"
                       \/ /\ pass'.at = pass.at + 1 /\ pass'.results = pass.results /\ pass'.pc = "declare"
                          /\ LET decl == Declarations[pass.at]
                             IN  /\ Registered(decl).ok
                                 /\ pass'.regs = [pass.regs EXCEPT ![decl.kind] = Registered(decl).reg]
         /\ StartWorkers => pass'.at = pass.at /\ pass'.results = pass.results /\ pass'.regs = pass.regs
         /\ \A i \in DOMAIN plugins : RunPlugin(i) =>
              /\ pass'.at = pass.at /\ pass'.regs = pass.regs
              /\ \E fails \in BOOLEAN :
                   pass'.results = Append(pass.results, [plugin |-> i, failed |-> fails,
                                                         stamps |-> IF fails THEN {} ELSE Stamps(Plugin(i))])
<1>0. PICK pc, set, sc, at, regs, results, outcome : pass = PassOf(pc, set, sc, at, regs, results, outcome)
  BY DEF PassOK
<1>00. /\ pass.pc = pc /\ pass.at = at /\ pass.regs = regs /\ pass.results = results
  BY <1>0, PassFields
<1>2. ASSUME Edits \/ Extract \/ BuildFails \/ Apply PROVE pass'.at = 1 /\ pass'.results = <<>>
  <2>1. \E p, s, c, r, o : pass' = PassOf(p, s, c, 1, r, <<>>, o)
    <3>1. CASE Edits
      <4>1. pass' = Ready
        BY <3>1 DEF Edits, AddPlugin, ClearPlugins, ApplyRescan, ApplyChanged
      <4>2. pass' = PassOf("idle", NoSet, Everything, 1, flags, <<>>, Outcome("none"))
        BY <4>1, ReadyAs
      <4>. QED  BY <4>2
    <3>2. CASE Extract
      <4>1. PICK s : pass' = [Ready EXCEPT !.pc = "build", !.set = s, !.scope = scope]
        BY <3>2 DEF Extract
      <4>2. pass' = PassOf("build", s, scope, 1, flags, <<>>, Outcome("none"))
        BY <4>1, ReadyAs
      <4>. QED  BY <4>2
    <3>3. CASE BuildFails
      <4>1. pass' = PassOf("idle", NoSet, Everything, 1, flags, <<>>, Outcome("failed"))
        BY <3>3, ReadyAs DEF BuildFails
      <4>. QED  BY <4>1
    <3>4. CASE Apply
      <4>1. (\E o : pass' = [Ready EXCEPT !.outcome = o]) \/ \E o, r : pass' = [Ready EXCEPT !.outcome = o, !.regs = r]
        BY <3>4 DEF Apply
      <4>2. CASE \E o : pass' = [Ready EXCEPT !.outcome = o]
        <5>1. PICK o : pass' = [Ready EXCEPT !.outcome = o]
          BY <4>2
        <5>2. pass' = PassOf("idle", NoSet, Everything, 1, flags, <<>>, o)
          BY <5>1, ReadyAs
        <5>. QED  BY <5>2
      <4>3. CASE \E o, r : pass' = [Ready EXCEPT !.outcome = o, !.regs = r]
        <5>1. PICK o, r : pass' = [Ready EXCEPT !.outcome = o, !.regs = r]
          BY <4>3
        <5>2. pass' = PassOf("idle", NoSet, Everything, 1, r, <<>>, o)
          BY <5>1, ReadyAs
        <5>. QED  BY <5>2
      <4>. QED  BY <4>1, <4>2, <4>3
    <3>. QED  BY <1>2, <3>1, <3>2, <3>3, <3>4
  <2>. QED  BY <2>1, PassFields
<1>3. ASSUME Assemble
      PROVE  /\ pass'.at = pass.at /\ pass'.results = pass.results
             /\ pass'.regs.node = Seeded(NodeWidth, NodeBuiltins)
  <2> DEFINE seeds == Registries(Seeded(NodeWidth, NodeBuiltins), Seeded(EdgeWidth, EdgeBuiltins), NewTopics)
  <2>1. pass' = [pass EXCEPT !.pc = "declare", !.regs = seeds]
    BY <1>3 DEF Assemble, Registries
  <2>2. seeds.node = Seeded(NodeWidth, NodeBuiltins)
    BY DEF Registries
  <2> HIDE DEF seeds
  <2>3. pass' = PassOf("declare", set, sc, at, seeds, results, outcome)
    BY <1>0, <2>1 DEF PassOf
  <2>. QED  BY <1>00, <2>2, <2>3, PassFields
<1>4. ASSUME Declare
      PROVE  \/ pass'.at = 1 /\ pass'.results = <<>> /\ pass'.pc = "idle"
             \/ /\ pass'.at = pass.at + 1 /\ pass'.results = pass.results /\ pass'.pc = "declare"
                /\ LET decl == Declarations[pass.at]
                   IN  /\ Registered(decl).ok
                       /\ pass'.regs = [pass.regs EXCEPT ![decl.kind] = Registered(decl).reg]
  <2>1. PICK decl, r : /\ decl = Declarations[pass.at] /\ r = Registered(decl)
                       /\ \/ r.ok /\ pass' = [pass EXCEPT !.at = @ + 1, !.regs[decl.kind] = r.reg]
                          \/ pass' = [Ready EXCEPT !.outcome = Outcome("refused")]
    BY <1>4 DEF Declare
  <2>2. CASE pass' = [Ready EXCEPT !.outcome = Outcome("refused")]
    <3>1. pass' = PassOf("idle", NoSet, Everything, 1, flags, <<>>, Outcome("refused"))
      BY <2>2, ReadyAs
    <3>. QED  BY <3>1, PassFields
  <2>3. CASE r.ok /\ pass' = [pass EXCEPT !.at = @ + 1, !.regs[decl.kind] = r.reg]
    <3>1. pc = "declare"
      BY <1>4, <1>00 DEF Declare
    <3>2. PICK kind, reg : kind = decl.kind /\ reg = r.reg
      OBVIOUS
    <3>3. pass' = PassOf(pc, set, sc, at + 1, [regs EXCEPT ![kind] = reg], results, outcome)
      BY <1>0, <2>3, <3>2 DEF PassOf
    <3>4. /\ pass'.at = at + 1 /\ pass'.results = results /\ pass'.pc = "declare"
          /\ pass'.regs = [regs EXCEPT ![kind] = reg]
      BY <3>1, <3>3, PassFields
    <3>. QED  BY <1>00, <2>1, <2>3, <3>2, <3>4
  <2>. QED  BY <2>1, <2>2, <2>3
<1>5. ASSUME StartWorkers PROVE pass'.at = pass.at /\ pass'.results = pass.results /\ pass'.regs = pass.regs
  <2>1. pass' = PassOf("run", set, sc, at, regs, results, outcome)
    BY <1>0, <1>5 DEF PassOf, StartWorkers
  <2>. QED  BY <1>00, <2>1, PassFields
<1>6. ASSUME NEW i \in DOMAIN plugins, RunPlugin(i)
      PROVE  /\ pass'.at = pass.at /\ pass'.regs = pass.regs
             /\ \E fails \in BOOLEAN :
                  pass'.results = Append(pass.results, [plugin |-> i, failed |-> fails,
                                                        stamps |-> IF fails THEN {} ELSE Stamps(Plugin(i))])
  <2>1. Plugin(i).mayFail \in BOOLEAN
    BY PluginsOfTemplates, PluginSetsAssumption DEF TemplateOK
  <2>2. PICK fails \in BOOLEAN :
          pass' = [pass EXCEPT !.results = Append(@, [plugin |-> i, failed |-> fails,
                                                      stamps |-> IF fails THEN {} ELSE Stamps(Plugin(i))])]
    BY <1>6, <2>1 DEF RunPlugin
  <2>3. PICK r : r = [plugin |-> i, failed |-> fails, stamps |-> IF fails THEN {} ELSE Stamps(Plugin(i))]
    OBVIOUS
  <2>4. pass' = [pass EXCEPT !.results = Append(@, r)]
    BY <2>2, <2>3, Zenon
  <2>5. pass' = PassOf(pc, set, sc, at, regs, Append(results, r), outcome)
    BY <1>0, <2>4 DEF PassOf
  <2>6. pass'.at = pass.at /\ pass'.regs = pass.regs /\ pass'.results = Append(pass.results, r)
    <3>1. PICK more : more = Append(results, r)
      OBVIOUS
    <3>2. pass' = PassOf(pc, set, sc, at, regs, more, outcome)
      BY <2>5, <3>1
    <3>3. pass'.at = at /\ pass'.regs = regs /\ pass'.results = more
      BY <3>2, PassFields
    <3>. QED  BY <1>00, <3>1, <3>3
  <2>. QED  BY <2>3, <2>6
<1>. QED  BY <1>2, <1>3, <1>4, <1>5, <1>6

(* An accepted flag is in the registry, and never under the engine's name.  *)
LEMMA AcceptedIsDeclared ==
  ASSUME NEW reg, RegistryOK(reg), NEW spec, RegisterPlugin(reg, spec).ok
  PROVE  spec.name \in DOMAIN RegisterPlugin(reg, spec).reg.byName /\ ~Reserved(spec.name)
<1>1. ~Reserved(spec.name)
  BY DEF RegisterPlugin, Refuse
<1>2. CASE RegisterPlugin(reg, spec).reg = reg
  <2>1. CASE spec.name \in DOMAIN reg.byName
    BY <1>1, <1>2, <2>1
  <2>2. CASE spec.name \notin DOMAIN reg.byName
    <3>1. ~(reg.next = NoBit \/ reg.next >= reg.width)
      BY <1>1, <2>2 DEF RegisterPlugin, Refuse
    <3>2. reg = [width |-> reg.width, byName |-> reg.byName, specs |-> reg.specs, next |-> reg.next]
      BY DEF RegistryOK
    <3>3. PICK w, b, s, n : reg = [width |-> w, byName |-> b, specs |-> s, next |-> n]
      BY <3>2
    <3>4. RegisterPlugin(reg, spec).reg = [Insert(reg, reg.next, spec) EXCEPT !.next = @ + 1]
      BY <1>1, <2>2, <3>1 DEF RegisterPlugin, Accept
    <3>5. RegisterPlugin(reg, spec).reg.byName = With(b, spec.name, n)
      BY <3>3, <3>4 DEF Insert
    <3>. QED  BY <1>1, <3>5 DEF With
  <2>. QED  BY <2>1, <2>2
<1>3. CASE RegisterPlugin(reg, spec).reg # reg
  <2>1. RegisterPlugin(reg, spec).reg =
          [width |-> reg.width, byName |-> With(reg.byName, spec.name, reg.next),
           specs |-> Append(reg.specs, [bit |-> reg.next, spec |-> spec]), next |-> reg.next + 1]
    BY <1>3, RegisteredFields
  <2>2. RegisterPlugin(reg, spec).reg.byName = With(reg.byName, spec.name, reg.next)
    BY <2>1
  <2>. QED  BY <1>1, <2>2 DEF With
<1>. QED  BY <1>2, <1>3

(* What a declaration does to the node flags.                               *)
LEMMA RegisteredNode ==
  ASSUME RegistriesSound(pass.regs), NEW decl
  PROVE  [pass.regs EXCEPT ![decl.kind] = Registered(decl).reg].node
           = IF decl.kind = "node" THEN RegisterPlugin(pass.regs.node, decl.spec).reg ELSE pass.regs.node
<1>1. PICK node, edge, topic : pass.regs = Registries(node, edge, topic)
  BY DEF RegistriesSound
<1>2. CASE decl.kind = "node"
  <2>1. PICK new : new = Registered(decl).reg /\ new = RegisterPlugin(node, decl.spec).reg /\ pass.regs.node = node
    BY <1>1, <1>2 DEF Registered, Registries
  <2>. QED  BY <1>1, <1>2, <2>1 DEF Registries
<1>3. CASE decl.kind # "node"
  <2>1. PICK new, kind : new = Registered(decl).reg /\ kind = decl.kind
    OBVIOUS
  <2>. QED  BY <1>1, <1>3, <2>1 DEF Registries
<1>. QED  BY <1>2, <1>3

(* Declarations are those of the plugins, each once at least.               *)
Listed(kind, specs) == [k \in DOMAIN specs |-> [kind |-> kind, spec |-> specs[k]]]
DeclaredBy(i) ==
  Listed("node", Plugin(i).nodeFlags) \o Listed("edge", Plugin(i).edgeFlags) \o Listed("topic", Plugin(i).topics)

(* Every node flag of every plugin of the context is among the declarations. *)
LEMMA FlagsAreDeclared ==
  ASSUME IdsOK
  PROVE  /\ DOMAIN Declarations = 1 .. Len(Declarations) /\ Len(Declarations) \in Nat
         /\ \A i \in DOMAIN plugins : \A k \in DOMAIN Plugin(i).nodeFlags :
              \E p \in DOMAIN Declarations : Declarations[p] = [kind |-> "node", spec |-> Plugin(i).nodeFlags[k]]
<1> DEFINE parts == [i \in DOMAIN plugins |-> DeclaredBy(i)]
           S == UNION {ToSet(DeclaredBy(i)) : i \in DOMAIN plugins}
<1>1. Declarations = FlattenSeq(parts)
  BY DEF Declarations, DeclaredBy, Listed
<1>2. DOMAIN plugins = 1 .. Len(plugins) /\ Len(plugins) \in Nat
  BY DEF IdsOK, HandlesOK
<1>3. ASSUME NEW kind, NEW specs, specs \in Seq(ToSet(specs))
      PROVE  Listed(kind, specs) \in Seq(ToSet(Listed(kind, specs))) /\ DOMAIN Listed(kind, specs) = DOMAIN specs
  <2>1. DOMAIN specs = 1 .. Len(specs) /\ Len(specs) \in Nat
    BY <1>3
  <2>2. Listed(kind, specs) \in [1 .. Len(specs) -> ToSet(Listed(kind, specs))]
    BY <2>1 DEF ToSet, Listed
  <2>. QED  BY <2>1, <2>2, SeqDef DEF Listed
<1>4. ASSUME NEW a, NEW b, NEW c, a \in Seq(ToSet(a)), b \in Seq(ToSet(b)), c \in Seq(ToSet(c))
      PROVE  /\ a \o b \o c \in Seq(ToSet(a \o b \o c))
             /\ \A k \in DOMAIN a : k \in DOMAIN (a \o b \o c) /\ (a \o b \o c)[k] = a[k]
  <2> DEFINE all == ToSet(a) \cup ToSet(b) \cup ToSet(c)
  <2>1. PICK R : R = all
    OBVIOUS
  <2>2. a \in Seq(R) /\ b \in Seq(R) /\ c \in Seq(R)
    BY <1>4, <2>1
  <2>3. a \o b \o c \in Seq(R)
    BY <2>2
  <2>4. PICK s : s = a \o b \o c
    OBVIOUS
  <2>5. s \in Seq(ToSet(s))
    <3>1. DOMAIN s = 1 .. Len(s) /\ Len(s) \in Nat /\ s = [k \in 1 .. Len(s) |-> s[k]]
      <4>1. s \in Seq(R)
        BY <2>3, <2>4
      <4>. QED  BY <4>1
    <3>2. s \in [1 .. Len(s) -> ToSet(s)]
      BY <3>1 DEF ToSet
    <3>. QED  BY <3>1, <3>2, SeqDef
  <2>6. \A k \in DOMAIN a : k \in DOMAIN (a \o b \o c) /\ (a \o b \o c)[k] = a[k]
    BY <2>2
  <2>. QED  BY <2>4, <2>5, <2>6
<1>5. ASSUME NEW i \in DOMAIN plugins
      PROVE  /\ DeclaredBy(i) \in Seq(ToSet(DeclaredBy(i)))
             /\ \A k \in DOMAIN Plugin(i).nodeFlags :
                  k \in DOMAIN DeclaredBy(i) /\ DeclaredBy(i)[k] = [kind |-> "node", spec |-> Plugin(i).nodeFlags[k]]
  <2>1. PICK n, e, t : /\ n = Plugin(i).nodeFlags /\ e = Plugin(i).edgeFlags /\ t = Plugin(i).topics
                       /\ n \in Seq(ToSet(n)) /\ e \in Seq(ToSet(e)) /\ t \in Seq(ToSet(t))
    BY PluginsOfTemplates, PluginSetsAssumption DEF TemplateOK
  <2>2. /\ Listed("node", n) \in Seq(ToSet(Listed("node", n))) /\ Listed("edge", e) \in Seq(ToSet(Listed("edge", e)))
        /\ Listed("topic", t) \in Seq(ToSet(Listed("topic", t))) /\ DOMAIN Listed("node", n) = DOMAIN n
    BY <1>3, <2>1
  <2>3. PICK a, b, c : a = Listed("node", n) /\ b = Listed("edge", e) /\ c = Listed("topic", t) /\ DeclaredBy(i) = a \o b \o c
    BY <2>1 DEF DeclaredBy
  <2>4. /\ DeclaredBy(i) \in Seq(ToSet(DeclaredBy(i)))
        /\ \A k \in DOMAIN a : k \in DOMAIN DeclaredBy(i) /\ DeclaredBy(i)[k] = a[k]
    BY <1>4, <2>2, <2>3
  <2>. QED  BY <2>1, <2>2, <2>3, <2>4 DEF Listed
<1>6. parts \in Seq(Seq(S))
  <2>1. ASSUME NEW i \in DOMAIN plugins PROVE DeclaredBy(i) \in Seq(S)
    <3>1. ToSet(DeclaredBy(i)) \subseteq S
      OBVIOUS
    <3>2. PICK s, R : s = DeclaredBy(i) /\ R = ToSet(DeclaredBy(i))
      OBVIOUS
    <3>3. s \in Seq(R) /\ R \subseteq S
      BY <1>5, <3>1, <3>2
    <3> HIDE DEF S
    <3>4. s \in Seq(S)
      BY <3>3
    <3>. QED  BY <3>2, <3>4
  <2> HIDE DEF S
  <2>2. parts \in [1 .. Len(plugins) -> Seq(S)]
    BY <1>2, <2>1
  <2>. QED  BY <1>2, <2>2, SeqDef
<1> HIDE DEF S
<1>7. Entries(Declarations) = UNION {Entries(parts[i]) : i \in DOMAIN parts} /\ Declarations \in Seq(S)
  <2> HIDE DEF parts
  <2>. QED  BY <1>1, <1>6, FlattenSeqEntries, FlattenSeqPlaces
<1>8. DOMAIN Declarations = 1 .. Len(Declarations) /\ Len(Declarations) \in Nat
  BY <1>7
<1>9. ASSUME NEW i \in DOMAIN plugins, NEW k \in DOMAIN Plugin(i).nodeFlags
      PROVE  \E p \in DOMAIN Declarations : Declarations[p] = [kind |-> "node", spec |-> Plugin(i).nodeFlags[k]]
  <2>1. [kind |-> "node", spec |-> Plugin(i).nodeFlags[k]] \in Entries(parts[i])
    BY <1>5 DEF Entries
  <2>2. [kind |-> "node", spec |-> Plugin(i).nodeFlags[k]] \in Entries(Declarations)
    BY <1>7, <2>1
  <2>. QED  BY <2>2 DEF Entries
<1>. QED  BY <1>8, <1>9

(* Declarations are the same while the plugins are.                         *)
LEMMA DeclarationsKept ==
  ASSUME IdsOK, Grown, plugins' = plugins
  PROVE  Declarations' = Declarations
<1>1. \A i \in DOMAIN plugins : Plugin(i)' = Plugin(i)
  BY ListKept
<1>2. [i \in DOMAIN plugins |-> DeclaredBy(i)'] = [i \in DOMAIN plugins |-> DeclaredBy(i)]
  BY <1>1 DEF DeclaredBy
<1>3. Declarations = FlattenSeq([i \in DOMAIN plugins |-> DeclaredBy(i)])
  BY DEF Declarations, DeclaredBy, Listed
<1>4. Declarations' = FlattenSeq([i \in DOMAIN plugins |-> DeclaredBy(i)'])
  BY DEF Declarations, DeclaredBy, Listed
<1>. QED  BY <1>2, <1>3, <1>4

(* Nothing is declared in a new context.                                    *)
LEMMA DeclaredInit == Init => DeclaredOK
<1> SUFFICES ASSUME Init PROVE DeclaredOK
  OBVIOUS
<1>1. pass = PassOf("idle", NoSet, Everything, 1, flags, <<>>, Outcome("none"))
  BY ReadyAs DEF Init
<1>2. pass.pc = "idle" /\ pass.at = 1
  BY <1>1, PassFields
<1>. QED  BY <1>2 DEF DeclaredOK

(* One declaration more is in the registries, or the pass is over.          *)
LEMMA DeclareKeepsDeclared ==
  ASSUME PassOK, IdsOK, DeclaredOK, Declare
  PROVE  DeclaredOK'
<1>1. pass.pc = "declare" /\ pass.at \in DOMAIN Declarations /\ pass.at \in 1 .. Len(Declarations)
  <2>1. pass.pc = "declare" /\ pass.at \in Nat \ {0} /\ pass.at <= Len(Declarations)
    BY DEF Declare, DeclaredOK
  <2>. QED  BY <2>1, FlagsAreDeclared
<1>2. Declarations' = Declarations
  BY DEF Declare, Declarations, Plugin
<1>3. CASE pass'.at = 1 /\ pass'.pc = "idle"
  BY <1>3 DEF DeclaredOK
<1>4. CASE /\ pass'.at = pass.at + 1 /\ pass'.pc = "declare"
           /\ LET decl == Declarations[pass.at]
              IN  /\ Registered(decl).ok
                  /\ pass'.regs = [pass.regs EXCEPT ![decl.kind] = Registered(decl).reg]
  <2> DEFINE decl == Declarations[pass.at]
             node == pass.regs.node
             after == IF decl.kind = "node" THEN RegisterPlugin(node, decl.spec).reg ELSE node
  <2>1. pass'.regs.node = after
    BY <1>4, RegisteredNode DEF PassOK
  <2>2. RegistryOK(node) /\ EngineKept(node.byName)
    BY <1>1 DEF PassOK, RegistriesSound, DeclaredOK
  <2>3. \A n \in DOMAIN node.byName : n \in DOMAIN after.byName /\ after.byName[n] = node.byName[n]
    BY <2>2, RegistrationKeepsBits
  <2>4. EngineKept(after.byName)
    BY <2>2, <2>3 DEF EngineKept
  <2>5. Declared(after.byName, decl)
    <3> SUFFICES ASSUME decl.kind = "node" PROVE decl.spec.name \in DOMAIN after.byName /\ ~Reserved(decl.spec.name)
      BY DEF Declared
    <3>1. RegisterPlugin(node, decl.spec).ok
      BY <1>4 DEF Registered
    <3>. QED  BY <2>2, <3>1, AcceptedIsDeclared
  <2>6. ASSUME NEW k \in DOMAIN Declarations, k < pass.at + 1 PROVE Declared(after.byName, Declarations[k])
    <3>1. CASE k = pass.at
      BY <2>5, <3>1
    <3>2. CASE k # pass.at
      <4>1. k < pass.at
        BY <1>1, <2>6, <3>2, FlagsAreDeclared
      <4>2. Declared(node.byName, Declarations[k])
        BY <1>1, <4>1 DEF DeclaredOK
      <4>. QED  BY <2>3, <4>2 DEF Declared
    <3>. QED  BY <3>1, <3>2
  <2> HIDE DEF after, decl
  <2>7. pass'.at \in Nat \ {0}
    BY <1>1, <1>4
  <2>. QED  BY <1>2, <1>4, <2>1, <2>4, <2>6, <2>7 DEF DeclaredOK
<1>. QED  BY <1>3, <1>4, PassFieldsMove

(* Every declaration that was accepted stays in the registries of the pass. *)
LEMMA DeclaredStep ==
  ASSUME PassOK, IdsOK, SourcesOK, DeclaredOK, [Next]_vars
  PROVE  DeclaredOK'
<1>1. Grown
  BY IdsStep
<1>2. CASE pass'.at = 1 /\ pass'.pc \in {"idle", "build"}
  BY <1>2 DEF DeclaredOK
<1>3. CASE \E t \in Templates : Construct(t)
  <2>1. pass' = pass /\ pass.pc = "idle"
    BY <1>3 DEF Construct
  <2>. QED  BY <1>2, <2>1 DEF DeclaredOK
<1>4. CASE Edits \/ Extract \/ BuildFails \/ Apply
  BY <1>2, <1>4, PassMoves, PassFieldsMove
<1>5. CASE Assemble
  <2>1. pass'.pc = "declare" /\ pass'.at = 1 /\ pass'.regs.node = Seeded(NodeWidth, NodeBuiltins)
    BY <1>5, PassMoves, PassFieldsMove DEF Assemble, DeclaredOK
  <2>2. EngineKept(pass'.regs.node.byName)
    BY <2>1 DEF EngineKept, EngineNames
  <2>3. Declarations' = Declarations
    BY <1>5 DEF Assemble, Declarations, Plugin
  <2>4. \A k \in DOMAIN Declarations : ~(k < 1)
    BY FlagsAreDeclared
  <2>. QED  BY <2>1, <2>2, <2>3, <2>4 DEF DeclaredOK
<1>6. CASE Declare
  BY <1>6, DeclareKeepsDeclared
<1>7. CASE StartWorkers
  <2>1. pass'.pc = "run" /\ pass'.at = pass.at /\ pass'.regs = pass.regs
    BY <1>7, PassMoves, PassFieldsMove
  <2>2. pass.pc = "declare" /\ pass.at > Len(Declarations) /\ Declarations' = Declarations
    BY <1>7 DEF StartWorkers, Declarations, Plugin
  <2>3. \A k \in DOMAIN Declarations : k < pass.at
    <3>1. pass.at \in Nat
      BY DEF DeclaredOK
    <3>. QED  BY <2>2, <3>1, FlagsAreDeclared
  <2>. QED  BY <2>1, <2>2, <2>3 DEF DeclaredOK
<1>8. CASE \E i \in DOMAIN plugins : RunPlugin(i)
  <2>1. pass'.pc = "run" /\ pass'.at = pass.at /\ pass'.regs = pass.regs
    BY <1>8, PassMoves, PassFieldsMove
  <2>2. pass.pc = "run" /\ Declarations' = Declarations
    BY <1>8 DEF RunPlugin, Declarations, Plugin
  <2>. QED  BY <2>1, <2>2 DEF DeclaredOK
<1>9. CASE UNCHANGED vars
  <2>1. pass' = pass /\ Declarations' = Declarations
    BY <1>1, <1>9, DeclarationsKept DEF vars
  <2>. QED  BY <2>1 DEF DeclaredOK
<1>. QED  BY <1>3, <1>4, <1>5, <1>6, <1>7, <1>8, <1>9 DEF Next, Materialize, Edits

(* A worker's result joins the others.                                      *)
LEMMA ResultsStep ==
  ASSUME PassOK, IdsOK, SourcesOK, ResultsOK, [Next]_vars
  PROVE  ResultsOK'
<1>1. CASE pass'.results = <<>>
  <2>1. Entries(pass'.results) = {}
    BY <1>1 DEF Entries
  <2>. QED  BY <1>1, <2>1 DEF ResultsOK
<1>2. CASE Edits \/ Extract \/ BuildFails \/ Apply
  BY <1>1, <1>2, PassFieldsMove
<1>3. CASE Assemble \/ Declare \/ StartWorkers \/ \E t \in Templates : Construct(t)
  <2>1. pass.pc # "run"
    BY <1>3 DEF Assemble, Declare, StartWorkers, Construct
  <2>2. pass'.results \in {pass.results, <<>>}
    <3>1. CASE \E t \in Templates : Construct(t)
      BY <3>1 DEF Construct
    <3>. QED  BY <1>3, <3>1, PassFieldsMove
  <2>. QED  BY <1>1, <2>1, <2>2 DEF ResultsOK
<1>4. CASE \E i \in DOMAIN plugins : RunPlugin(i)
  <2>1. PICK i \in DOMAIN plugins : RunPlugin(i)
    BY <1>4
  <2>2. UNCHANGED <<handles, plugins, graph>> /\ pass.pc = "run" /\ pass'.pc = "run"
    BY <2>1, PassMoves DEF RunPlugin
  <2>3. PICK fails \in BOOLEAN :
          /\ pass'.regs = pass.regs
          /\ pass'.results = Append(pass.results, [plugin |-> i, failed |-> fails,
                                                   stamps |-> IF fails THEN {} ELSE Stamps(Plugin(i))])
    BY <2>1, PassFieldsMove
  <2>4. \A j : Stamps(Plugin(j))' = Stamps(Plugin(j))
    <3>1. \A j : Plugin(j)' = Plugin(j)
      BY <2>2 DEF Plugin
    <3>2. \A t : Stamps(t)' = Stamps(t)
      BY <2>2, <2>3 DEF Stamps, Marked
    <3> SUFFICES ASSUME NEW j PROVE Stamps(Plugin(j))' = Stamps(Plugin(j))
      OBVIOUS
    <3>3. PICK t : t = Plugin(j) /\ t = Plugin(j)'
      BY <3>1
    <3>4. Stamps(t)' = Stamps(t)
      BY <3>2
    <3>. QED  BY <3>3, <3>4 DEF Stamps, Marked
  <2>5. PICK r : /\ r = [plugin |-> i, failed |-> fails, stamps |-> IF fails THEN {} ELSE Stamps(Plugin(i))]
                 /\ r.plugin = i /\ (~r.failed => r.stamps = Stamps(Plugin(i)))
    <3>1. PICK stamps : stamps = Stamps(Plugin(i))
      OBVIOUS
    <3>2. [plugin |-> i, failed |-> fails, stamps |-> IF fails THEN {} ELSE stamps].plugin = i
      OBVIOUS
    <3>3. ~fails => [plugin |-> i, failed |-> fails, stamps |-> IF fails THEN {} ELSE stamps].stamps = stamps
      OBVIOUS
    <3>4. [plugin |-> i, failed |-> fails, stamps |-> IF fails THEN {} ELSE stamps].failed = fails
      OBVIOUS
    <3>. QED  BY <3>1, <3>2, <3>3, <3>4
  <2>6. pass'.results = Append(pass.results, r)
    BY <2>3, <2>5
  <2>7. /\ pass'.results \in Seq(Entries(pass'.results))
        /\ Entries(pass'.results) = Entries(pass.results) \cup {r}
    <3>1. PICK s, S : s = pass.results /\ S = Entries(s) /\ s \in Seq(S)
      BY DEF ResultsOK
    <3>2. s \in Seq(S \cup {r})
      BY <3>1
    <3>3. /\ Append(s, r) \in Seq(S \cup {r}) /\ DOMAIN Append(s, r) = DOMAIN s \cup {Len(s) + 1}
          /\ Append(s, r)[Len(s) + 1] = r /\ Len(s) + 1 \notin DOMAIN s
          /\ \A k \in DOMAIN s : Append(s, r)[k] = s[k]
      BY <3>2, Appended
    <3>4. Entries(Append(s, r)) = S \cup {r}
      BY <3>1, <3>3 DEF Entries
    <3>. QED  BY <2>6, <3>1, <3>3, <3>4
  <2>. QED  BY <2>2, <2>4, <2>5, <2>7 DEF ResultsOK
<1>5. CASE UNCHANGED vars
  <2>1. UNCHANGED <<handles, plugins, graph, pass>>
    BY <1>5 DEF vars
  <2>2. \A j : Stamps(Plugin(j))' = Stamps(Plugin(j))
    BY <2>1 DEF Stamps, Marked, Plugin
  <2>. QED  BY <2>1, <2>2 DEF ResultsOK
<1>. QED  BY <1>2, <1>3, <1>4, <1>5 DEF Next, Materialize, Edits

(* No call touches the nodes between the build and the end of the pass.     *)
LEMMA NowStep ==
  ASSUME PassOK, SourcesOK, NowOK, [Next]_vars
  PROVE  NowOK'
<1>1. CASE pass'.pc \in {"idle", "build"}
  BY <1>1 DEF NowOK
<1>2. CASE Edits \/ Extract \/ BuildFails \/ Apply
  BY <1>1, <1>2, PassMoves
<1>3. CASE Assemble
  <2>1. \E b, e, d, u : graph' = [base |-> b, now |-> b, edges |-> e, facts |-> d, under |-> u]
    BY <1>3 DEF Assemble
  <2>. QED  BY <2>1 DEF NowOK
<1>4. CASE Declare \/ StartWorkers \/ \E i \in DOMAIN plugins : RunPlugin(i)
  <2>1. pass.pc \in {"declare", "run"} /\ graph' = graph
    BY <1>4 DEF Declare, StartWorkers, RunPlugin
  <2>. QED  BY <2>1 DEF NowOK
<1>5. CASE (\E t \in Templates : Construct(t)) \/ UNCHANGED vars
  <2>1. UNCHANGED <<graph, pass>>
    BY <1>5 DEF Construct, vars
  <2>. QED  BY <2>1 DEF NowOK
<1>. QED  BY <1>2, <1>3, <1>4, <1>5 DEF Next, Materialize, Edits

(* Where a pass ends: the first error, or what was stamped.                 *)
LEMMA ApplyEnds ==
  ASSUME PassOK, Apply
  PROVE  \/ /\ Failures # {} /\ UNCHANGED <<graph, flags>>
            /\ pass'.outcome.error = FirstFailure
            /\ pass'.outcome.of = {pass.results[k].plugin : k \in Failures}
         \/ /\ Failures = {} /\ flags' = pass.regs /\ pass'.outcome.kind = "done"
            /\ LET stamps == UNION {pass.results[k].stamps : k \in DOMAIN pass.results}
                   after(f) == [n \in DOMAIN graph.now[f] |->
                                  graph.now[f][n] \cup {s[2] : s \in {x \in stamps : x[1] = <<f, n>>}}]
               IN  graph' = [graph EXCEPT !.now = [f \in File |-> after(f)]]
<1>1. CASE Failures # {}
  <2> DEFINE error == [kind |-> "error", error |-> FirstFailure, of |-> {pass.results[k].plugin : k \in Failures}]
  <2>1. error.error = FirstFailure /\ error.of = {pass.results[k].plugin : k \in Failures}
    OBVIOUS
  <2>2. pass' = [Ready EXCEPT !.outcome = error] /\ UNCHANGED <<graph, flags>>
    BY <1>1 DEF Apply
  <2> HIDE DEF error
  <2>3. pass' = PassOf("idle", NoSet, Everything, 1, flags, <<>>, error)
    BY <2>2, ReadyAs
  <2>4. pass'.outcome = error
    BY <2>3, PassFields
  <2>. QED  BY <1>1, <2>1, <2>2, <2>4
<1>2. CASE Failures = {}
  <2>1. pass' = PassOf("idle", NoSet, Everything, 1, pass.regs, <<>>, Outcome("done"))
    BY <1>2, ReadyAs DEF Apply
  <2>2. pass'.outcome.kind = "done"
    BY <2>1, PassFields DEF Outcome
  <2>. QED  BY <1>2, <2>2 DEF Apply
<1>. QED  BY <1>1, <1>2

(* The least of the plugins that failed is the first registered.            *)
LEMMA FirstErrorStep ==
  ASSUME PassOK, IdsOK, ResultsOK, FirstErrorWins, [Next]_vars
  PROVE  FirstErrorWins'
<1>1. CASE pass'.outcome = pass.outcome
  BY <1>1 DEF FirstErrorWins
<1>2. CASE pass'.outcome.kind \in {"none", "failed", "refused", "done"}
  BY <1>2 DEF FirstErrorWins
<1>3. CASE Edits \/ Extract \/ BuildFails \/ Declare
  BY <1>1, <1>2, <1>3, PassMoves
<1>4. CASE Assemble \/ StartWorkers \/ \E i \in DOMAIN plugins : RunPlugin(i)
  BY <1>1, <1>4, PassMoves
<1>5. CASE (\E t \in Templates : Construct(t)) \/ UNCHANGED vars
  BY <1>1, <1>5 DEF Construct, vars
<1>6. CASE Apply
  <2>1. CASE pass'.outcome.kind = "done"
    BY <1>2, <2>1
  <2>2. CASE /\ Failures # {} /\ pass'.outcome.error = FirstFailure
             /\ pass'.outcome.of = {pass.results[k].plugin : k \in Failures}
    <3> DEFINE failed == {pass.results[k].plugin : k \in Failures}
    <3>1. failed \subseteq Nat /\ failed # {}
      <4>1. \A k \in Failures : pass.results[k] \in Entries(pass.results)
        BY DEF Failures, Entries
      <4>2. \A k \in Failures : pass.results[k].plugin \in DOMAIN plugins
        BY <4>1 DEF ResultsOK
      <4>3. DOMAIN plugins \subseteq Nat
        <5>1. plugins \in Seq(DOMAIN handles)
          BY DEF IdsOK, HandlesOK
        <5>. QED  BY <5>1
      <4>. QED  BY <2>2, <4>2, <4>3
    <3>2. FirstFailure = Min(failed)
      BY DEF FirstFailure
    <3> HIDE DEF failed
    <3>3. \A i \in failed : Min(failed) <= i
      BY <3>1, LeastElement DEF Min
    <3>. QED  BY <2>2, <3>2, <3>3 DEF FirstErrorWins, failed
  <2>. QED  BY <1>6, <2>1, <2>2, ApplyEnds
<1>. QED  BY <1>3, <1>4, <1>5, <1>6 DEF Next, Materialize, Edits

(* What the per-file plugins stamp is the engine's.                         *)
LEMMA BuildsStampEngineBits ==
  ASSUME IdsOK, SourcesOK, GraphOK, Settled, NEW f \in File, NEW n \in DOMAIN graph.base[f]
  PROVE  graph.base[f][n] \subseteq Engine
<1>1. Current(f)
  BY DEF GraphOK, CurrentBut, Changed
<1> DEFINE ops == OpsOf(graph.under[f].flags, f, content[f])
<1>2. ops \in Seq(AllOps)
  BY OpsTyped DEF GraphOK, SourcesOK
<1>3. graph.base[f] = FlagsIn(f, ops)
  BY <1>1 DEF Current
<1> HIDE DEF ops
<1>4. \A o \in ToSet(ops) : o \in AllOps
  BY <1>2 DEF ToSet
<1>5. Entrypoint \in Engine
  BY PluginSetsAssumption
<1>6. \A o \in AllOps : o.op = "flag" => o.bit \in Engine
  BY PluginSetsAssumption DEF AllOps, TemplateOK
<1>. QED  BY <1>3, <1>4, <1>5, <1>6 DEF FlagsIn

(* The masks a plugin is told are the bits its flags have, each the         *)
(* plugins' own.                                                            *)
Masks(i) == {pass.regs.node.byName[Plugin(i).nodeFlags[k].name] : k \in DOMAIN Plugin(i).nodeFlags}

(* A plugin is told the bits of its own flags, none of the engine's.        *)
LEMMA MasksAreBits ==
  ASSUME PassOK, IdsOK, DeclaredOK, pass.pc = "run", NEW i \in DOMAIN plugins
  PROVE  /\ Stamps(Plugin(i)) = Marked(Plugin(i), pass.regs.topic) \X Masks(i)
         /\ Masks(i) \cap Engine = {}
<1> DEFINE node == pass.regs.node
           flag(k) == Plugin(i).nodeFlags[k]
<1>1. RegistryOK(node) /\ EngineKept(node.byName)
  BY DEF PassOK, RegistriesSound, DeclaredOK
<1>2. ASSUME NEW k \in DOMAIN Plugin(i).nodeFlags
      PROVE  flag(k).name \in DOMAIN node.byName /\ ~Reserved(flag(k).name)
  <2>1. PICK p \in DOMAIN Declarations : Declarations[p] = [kind |-> "node", spec |-> flag(k)]
    BY FlagsAreDeclared
  <2>2. Declared(node.byName, Declarations[p])
    BY DEF DeclaredOK
  <2>3. Declarations[p].kind = "node" /\ Declarations[p].spec = flag(k)
    BY <2>1
  <2>. QED  BY <2>2, <2>3 DEF Declared
<1> HIDE DEF node, flag
<1>3. ASSUME NEW name \in DOMAIN node.byName PROVE FlagMask(node, name) = {node.byName[name]}
  <2>1. /\ node.byName[name] \in Nat /\ node.width \in Nat /\ node.next \in Int
        /\ node.byName[name] < node.next /\ node.next <= node.width
    BY <1>1 DEF RegistryOK, Sound, NoBit
  <2>2. node.byName[name] \in 0 .. (node.width - 1)
    BY <2>1
  <2>. QED  BY <2>2 DEF FlagMask
<1>4. UNION {FlagMask(node, flag(k).name) : k \in DOMAIN Plugin(i).nodeFlags} = Masks(i)
  BY <1>2, <1>3 DEF Masks, node, flag
<1>5. ASSUME NEW k \in DOMAIN Plugin(i).nodeFlags PROVE node.byName[flag(k).name] \notin Engine
  <2>1. SUFFICES ASSUME node.byName[flag(k).name] \in Engine PROVE FALSE
    OBVIOUS
  <2>2. PICK n \in DOMAIN EngineNames : node.byName[flag(k).name] = EngineNames[n]
    BY <2>1, PluginSetsAssumption DEF EngineNames
  <2>3. n \in DOMAIN node.byName /\ node.byName[n] = EngineNames[n] /\ Reserved(n)
    BY <1>1, PluginSetsAssumption DEF EngineKept, EngineNames
  <2>4. n = flag(k).name
    BY <1>1, <1>2, <2>2, <2>3 DEF RegistryOK, Sound
  <2>. QED  BY <1>2, <2>3, <2>4
<1>6. Stamps(Plugin(i)) = Marked(Plugin(i), pass.regs.topic) \X Masks(i)
  BY <1>4 DEF Stamps, node, flag
<1>. QED  BY <1>5, <1>6 DEF Masks, node, flag

(* A pass that ends well leaves on each node the engine's bits and those of *)
(* the plugins that marked it.                                              *)
LEMMA ApplyStamps ==
  ASSUME PassOK, IdsOK, SourcesOK, GraphOK, DeclaredOK, ResultsOK, NowOK, Apply, Failures = {}
  PROVE  BitsNameTheirFlag'
<1> DEFINE stamps == UNION {pass.results[k].stamps : k \in DOMAIN pass.results}
           on(f, n) == {s[2] : s \in {x \in stamps : x[1] = <<f, n>>}}
           after(f) == [n \in DOMAIN graph.now[f] |-> graph.now[f][n] \cup on(f, n)]
           topics == pass.regs.topic
           marking(f, n) == {j \in DOMAIN plugins : <<f, n>> \in Marked(Plugin(j), topics)}
<1>1. flags' = pass.regs /\ graph' = [graph EXCEPT !.now = [f \in File |-> after(f)]]
  BY ApplyEnds
<1>2. UNCHANGED <<handles, plugins>> /\ pass.pc = "run" /\ Done = DOMAIN plugins
  BY DEF Apply
<1>3. stamps = UNION {Marked(Plugin(i), topics) \X Masks(i) : i \in DOMAIN plugins}
  <2>1. \A k \in DOMAIN pass.results :
          LET i == pass.results[k].plugin
          IN  i \in DOMAIN plugins /\ pass.results[k].stamps = Marked(Plugin(i), topics) \X Masks(i)
    <3> SUFFICES ASSUME NEW k \in DOMAIN pass.results
                 PROVE  LET i == pass.results[k].plugin
                        IN  i \in DOMAIN plugins /\ pass.results[k].stamps = Marked(Plugin(i), topics) \X Masks(i)
      OBVIOUS
    <3>1. pass.results[k] \in Entries(pass.results) /\ ~pass.results[k].failed
      BY DEF Entries, Failures
    <3>2. LET i == pass.results[k].plugin IN i \in DOMAIN plugins /\ pass.results[k].stamps = Stamps(Plugin(i))
      BY <3>1 DEF ResultsOK
    <3>. QED  BY <1>2, <3>2, MasksAreBits
  <2>2. \A i \in DOMAIN plugins : \E k \in DOMAIN pass.results : pass.results[k].plugin = i
    BY <1>2 DEF Done
  <2> HIDE DEF topics
  <2>. QED  BY <2>1, <2>2
<1> HIDE DEF stamps, topics
<1>4. ASSUME NEW f, NEW n PROVE on(f, n) = UNION {Masks(i) : i \in marking(f, n)}
  <2>1. ASSUME NEW s \in stamps, s[1] = <<f, n>> PROVE \E i \in marking(f, n) : s[2] \in Masks(i)
    BY <1>3, <2>1
  <2>2. ASSUME NEW i \in marking(f, n), NEW b \in Masks(i) PROVE b \in on(f, n)
    <3>1. <<<<f, n>>, b>> \in stamps
      BY <1>3
    <3>. QED  BY <3>1
  <2>3. ASSUME NEW b \in on(f, n) PROVE \E i \in marking(f, n) : b \in Masks(i)
    <3>1. PICK s \in stamps : s[1] = <<f, n>> /\ b = s[2]
      OBVIOUS
    <3>. QED  BY <2>1, <3>1
  <2> HIDE DEF on, marking
  <2>. QED  BY <2>2, <2>3
<1>5. ASSUME NEW f \in File, NEW n \in DOMAIN after(f)
      PROVE  after(f)[n] \ Engine = UNION {Masks(i) : i \in marking(f, n)}
  <2>1. graph.now = graph.base
    BY <1>2 DEF NowOK
  <2>2. graph.now[f][n] \subseteq Engine
    BY <1>2, <2>1, BuildsStampEngineBits DEF Settled
  <2>3. on(f, n) \cap Engine = {}
    <3>1. \A i \in DOMAIN plugins : Masks(i) \cap Engine = {}
      BY <1>2, MasksAreBits
    <3>2. marking(f, n) \subseteq DOMAIN plugins
      OBVIOUS
    <3> HIDE DEF on, marking
    <3>. QED  BY <1>4, <3>1, <3>2
  <2>4. after(f)[n] = graph.now[f][n] \cup on(f, n)
    OBVIOUS
  <2> HIDE DEF after, on
  <2>. QED  BY <1>4, <2>2, <2>3, <2>4
<1> HIDE DEF after, on
<1>6. \A f \in File : graph'.now[f] = after(f)
  <2>1. PICK now : now = [f \in File |-> after(f)]
    OBVIOUS
  <2>2. PICK b, m, e, d, u : graph = GraphOf(b, m, e, d, u)
    BY DEF GraphOK
  <2>3. graph' = GraphOf(b, now, e, d, u)
    BY <1>1, <2>1, <2>2 DEF GraphOf
  <2>4. graph'.now = now
    BY <2>3 DEF GraphOf
  <2>. QED  BY <2>1, <2>4
<1>7. graph'.facts = graph.facts
  <2>1. PICK now : graph' = [graph EXCEPT !.now = now]
    BY <1>1
  <2>2. PICK b, m, e, d, u : graph = GraphOf(b, m, e, d, u)
    BY DEF GraphOK
  <2>3. graph' = GraphOf(b, now, e, d, u)
    BY <2>1, <2>2 DEF GraphOf
  <2>. QED  BY <2>2, <2>3 DEF GraphOf
<1>8. \A j \in DOMAIN plugins : Plugin(j)' = Plugin(j)
  BY <1>2 DEF Plugin
<1>9. \A t, s : Marked(t, s)' = Marked(t, s)
  BY <1>7 DEF Marked
<1>10. flags'.topic = topics /\ flags'.node.byName = pass.regs.node.byName
  BY <1>1 DEF topics
<1>11. ASSUME NEW f \in File, NEW n
       PROVE  UNION {{flags'.node.byName[Plugin(i)'.nodeFlags[k].name] : k \in DOMAIN Plugin(i)'.nodeFlags} :
                       i \in {j \in DOMAIN plugins : <<f, n>> \in Marked(Plugin(j), flags.topic)'}}
                = UNION {Masks(i) : i \in marking(f, n)}
  <2>1. \A j \in DOMAIN plugins : Marked(Plugin(j), flags.topic)' = Marked(Plugin(j), topics)
    <3> SUFFICES ASSUME NEW j \in DOMAIN plugins PROVE Marked(Plugin(j), flags.topic)' = Marked(Plugin(j), topics)
      OBVIOUS
    <3>1. PICK t, s : t = Plugin(j) /\ t = Plugin(j)' /\ s = topics /\ s = flags'.topic
      BY <1>8, <1>10
    <3>2. Marked(t, s)' = Marked(t, s)
      BY <1>9
    <3>3. Marked(Plugin(j), flags.topic)' = Marked(t, s)'
      BY <3>1 DEF Marked
    <3>. QED  BY <3>1, <3>2, <3>3
  <2>2. \A i \in DOMAIN plugins :
          {flags'.node.byName[Plugin(i)'.nodeFlags[k].name] : k \in DOMAIN Plugin(i)'.nodeFlags} = Masks(i)
    BY <1>8, <1>10 DEF Masks
  <2>. QED  BY <2>1, <2>2
<1>. QED  BY <1>2, <1>5, <1>6, <1>11 DEF BitsNameTheirFlag

(* Every other call names no bits, or those of the pass before.             *)
LEMMA BitsStep ==
  ASSUME PassOK, IdsOK, SourcesOK, GraphOK, DeclaredOK, ResultsOK, NowOK, BitsNameTheirFlag, [Next]_vars
  PROVE  BitsNameTheirFlag'
<1>1. Grown /\ SourcesOK'
  BY IdsStep, SourcesStep
<1>2. CASE ~Finished'
  BY <1>2 DEF BitsNameTheirFlag
<1>3. CASE Edits \/ Extract \/ BuildFails \/ Assemble \/ Declare \/ StartWorkers \/ \E i \in DOMAIN plugins : RunPlugin(i)
  <2>1. pass'.pc # "idle" \/ pass'.outcome.kind # "done"
    <3>1. CASE Edits \/ Extract \/ BuildFails \/ Assemble \/ StartWorkers
      BY <3>1, PassMoves
    <3>2. CASE Declare
      BY <3>2, PassMoves
    <3>3. CASE \E i \in DOMAIN plugins : RunPlugin(i)
      BY <3>3, PassMoves
    <3>. QED  BY <1>3, <3>1, <3>2, <3>3
  <2>2. ~Finished'
    BY <1>1, <2>1 DEF SourcesOK, Finished
  <2>. QED  BY <1>2, <2>2
<1>4. CASE Apply
  <2>1. CASE Failures = {}
    BY <1>4, <2>1, ApplyStamps
  <2>2. CASE Failures # {}
    <3>1. pass'.outcome.kind = "error"
      <4> DEFINE error == [kind |-> "error", error |-> FirstFailure, of |-> {pass.results[k].plugin : k \in Failures}]
      <4>1. pass' = [Ready EXCEPT !.outcome = error]
        BY <1>4, <2>2 DEF Apply
      <4>2. error.kind = "error"
        OBVIOUS
      <4> HIDE DEF error
      <4>3. pass' = PassOf("idle", NoSet, Everything, 1, flags, <<>>, error)
        BY <4>1, ReadyAs
      <4>. QED  BY <4>2, <4>3, PassFields
    <3>. QED  BY <1>2, <3>1 DEF Finished
  <2>. QED  BY <2>1, <2>2
<1>5. CASE (\E t \in Templates : Construct(t)) \/ UNCHANGED vars
  <2>1. UNCHANGED <<plugins, graph, flags, pass>>
    BY <1>5 DEF Construct, vars
  <2>2. \A j \in DOMAIN plugins : Plugin(j)' = Plugin(j)
    BY <1>1, <2>1, ListKept
  <2>3. ASSUME NEW j \in DOMAIN plugins PROVE Marked(Plugin(j), flags.topic)' = Marked(Plugin(j), flags.topic)
    <3>1. PICK t, s : t = Plugin(j) /\ t = Plugin(j)' /\ s = flags.topic /\ s = flags'.topic
      BY <2>1, <2>2
    <3>2. Marked(t, s)' = Marked(t, s)
      BY <2>1 DEF Marked
    <3>3. Marked(Plugin(j), flags.topic)' = Marked(t, s)'
      BY <3>1 DEF Marked
    <3>. QED  BY <3>1, <3>2, <3>3
  <2> DEFINE Own(i) == {flags.node.byName[Plugin(i).nodeFlags[k].name] : k \in DOMAIN Plugin(i).nodeFlags}
             Marking(f, n) == {j \in DOMAIN plugins : <<f, n>> \in Marked(Plugin(j), flags.topic)}
  <2>4. \A f, n : Marking(f, n)' = Marking(f, n)
    BY <2>1, <2>3
  <2>5. \A i \in DOMAIN plugins : Own(i)' = Own(i)
    BY <2>1, <2>2
  <2>6. ASSUME NEW f, NEW n PROVE Marking(f, n) \subseteq DOMAIN plugins
    OBVIOUS
  <2>7. BitsNameTheirFlag =
          (Finished => \A f \in File : \A n \in DOMAIN graph.now[f] :
                         graph.now[f][n] \ Engine = UNION {Own(i) : i \in Marking(f, n)})
    BY DEF BitsNameTheirFlag
  <2>8. BitsNameTheirFlag' =
          (Finished' => \A f \in File : \A n \in DOMAIN graph'.now[f] :
                          graph'.now[f][n] \ Engine = UNION {Own(i)' : i \in Marking(f, n)'})
    BY DEF BitsNameTheirFlag
  <2> HIDE DEF Own, Marking
  <2>9. \A f, n : UNION {Own(i)' : i \in Marking(f, n)'} = UNION {Own(i) : i \in Marking(f, n)}
    BY <2>4, <2>5, <2>6
  <2>10. Finished' = Finished
    BY <2>1 DEF Finished
  <2>. QED  BY <2>1, <2>7, <2>8, <2>9, <2>10
<1>. QED  BY <1>3, <1>4, <1>5 DEF Next, Materialize, Edits

(* The invariant of a context and its process.                              *)
IInv ==
  /\ PassOK /\ IdsOK /\ SourcesOK /\ MemoOK /\ GraphOK
  /\ DeclaredOK /\ ResultsOK /\ NowOK /\ FirstErrorWins /\ BitsNameTheirFlag

(* A new context satisfies the invariant ...                                *)
LEMMA InvariantInit == Init => IInv
<1> SUFFICES ASSUME Init PROVE IInv
  OBVIOUS
<1>1. pass.pc = "idle" /\ pass.outcome.kind = "none" /\ pass.scope = Everything
  <2>1. pass = PassOf("idle", NoSet, Everything, 1, flags, <<>>, Outcome("none"))
    BY ReadyAs DEF Init
  <2>. QED  BY <2>1, PassFields DEF Outcome
<1>2. SourcesOK
  BY <1>1 DEF Init, SourcesOK, IsScope
<1>3. MemoOK
  BY DEF Init, MemoOK
<1>4. GraphOK
  <2>1. graph = GraphOf(graph.base, graph.now, graph.edges, graph.facts, graph.under)
    BY DEF Init, BareGraph, GraphOf
  <2>2. \A f \in File : graph.under[f].flags = <<>> /\ graph.under[f].edges = <<>>
    BY DEF Init, BareGraph
  <2>3. CurrentBut(scope)
    BY DEF Init, CurrentBut, Everything
  <2>4. \A f \in File : graph.under[f].flags \in Seq(Ids) /\ graph.under[f].edges \in Seq(Ids)
    <3>1. PICK all : all = Ids
      OBVIOUS
    <3>2. <<>> \in Seq(all)
      OBVIOUS
    <3>. QED  BY <2>2, <3>1, <3>2
  <2>5. ~Settled /\ pass.pc # "build"
    BY <1>1 DEF Settled, Finished
  <2>. QED  BY <2>1, <2>3, <2>4, <2>5 DEF GraphOK
<1>5. ResultsOK /\ NowOK /\ FirstErrorWins /\ BitsNameTheirFlag
  <2>1. pass.results = <<>>
    <3>1. pass = PassOf("idle", NoSet, Everything, 1, flags, <<>>, Outcome("none"))
      BY ReadyAs DEF Init
    <3>. QED  BY <3>1, PassFields
  <2>2. Entries(pass.results) = {}
    BY <2>1 DEF Entries
  <2>. QED  BY <1>1, <2>1, <2>2 DEF ResultsOK, NowOK, FirstErrorWins, BitsNameTheirFlag, Finished
<1>. QED  BY <1>2, <1>3, <1>4, <1>5, RegistriesInit, IdsInit, DeclaredInit DEF IInv

(* ... every call keeps it ...                                              *)
LEMMA InvariantStep == IInv /\ [Next]_vars => IInv'
BY RegistriesStep, IdsStep, SourcesStep, MemoStep, GraphStep, DeclaredStep, ResultsStep, NowStep, FirstErrorStep, BitsStep
   DEF IInv

(* ... so it holds in every state.                                          *)
LEMMA Invariant == Spec => []IInv
BY InvariantInit, InvariantStep, PTL DEF Spec

(* Plugins are of objects there are, contents of their files, memos of      *)
(* interned sets.                                                           *)
THEOREM PluginSetsTyped == Spec => []TypeOK
<1>1. IInv => TypeOK
  <2> SUFFICES ASSUME IInv PROVE TypeOK
    OBVIOUS
  <2>1. \A k \in DOMAIN plugins : plugins[k] \in DOMAIN handles
    BY PluginsOfTemplates DEF IInv
  <2>2. scope.files \subseteq File /\ (scope.full => scope = Everything)
    BY DEF IInv, SourcesOK, IsScope, Everything, Changed
  <2>. QED  BY <2>1, <2>2 DEF IInv, SourcesOK, MemoOK, TypeOK
<1>. QED  BY <1>1, Invariant, PTL

(* After a finished build every file has what the set it was minted under   *)
(* emits for it: interned ids and lists and memos of earlier builds stand   *)
(* for no other plugin, config or content (extract_per_file_plugin_set,     *)
(* per_file_plugin_ops).                                                    *)
THEOREM FilesAreAsTheirSetEmits == Spec => []GraphHasWhatItsSetEmits
<1>1. IInv => GraphHasWhatItsSetEmits
  <2> SUFFICES ASSUME IInv, Finished, NEW f \in File
               PROVE  /\ graph.under[f].flags = PerFileList => graph.base[f] = FlagsIn(f, EmittedNow(f))
                      /\ graph.under[f].edges = PerFileList => graph.edges[f] = EdgesIn(f, EmittedNow(f))
    BY DEF GraphHasWhatItsSetEmits
  <2>1. scope = Changed({})
    BY DEF IInv, GraphOK, Settled
  <2>2. Current(f)
    BY <2>1 DEF IInv, GraphOK, CurrentBut, Changed
  <2>3. OpsOf(PerFileList, f, content[f]) = EmittedNow(f)
    BY OpsAreEmitted DEF IInv, SourcesOK
  <2>. QED  BY <2>2, <2>3 DEF Current
<1>. QED  BY <1>1, Invariant, PTL

(* The facts of a finished build are those its plugins emit for the files   *)
(* as they are, in the order of the paths and of registration.              *)
THEOREM FactsAreDerivedAnew == Spec => []FactsAreThisBuilds
<1>1. IInv => FactsAreThisBuilds
  <2> SUFFICES ASSUME IInv, Finished PROVE graph.facts = FactsOf([f \in File |-> EmittedNow(f)])
    BY DEF FactsAreThisBuilds
  <2>1. graph.facts = FactsOf(OpsNow)
    BY DEF IInv, GraphOK, Settled
  <2>2. \A f \in File : OpsOf(PerFileList, f, content[f]) = EmittedNow(f)
    BY OpsAreEmitted DEF IInv, SourcesOK
  <2>3. OpsNow = [f \in File |-> EmittedNow(f)]
    BY <2>2 DEF OpsNow
  <2>. QED  BY <2>1, <2>3
<1>. QED  BY <1>1, Invariant, PTL

(* Whatever flags were declared, dropped or registered again before, the    *)
(* bits a node carries above the engine's are those the registry of this    *)
(* pass names for plugins that marked it (FlagRegistry, ctx.node_mask).     *)
THEOREM BitsAreNamed == Spec => []BitsNameTheirFlag
<1>1. IInv => BitsNameTheirFlag
  BY DEF IInv
<1>. QED  BY <1>1, Invariant, PTL

(* However the workers finish, the error raised is that of the plugin       *)
(* registered first among those that failed.                                *)
THEOREM FirstErrorIsRaised == Spec => []FirstErrorWins
<1>1. IInv => FirstErrorWins
  BY DEF IInv
<1>. QED  BY <1>1, Invariant, PTL
=============================================================================
