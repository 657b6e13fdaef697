-------------------------------- MODULE FileFacts --------------------------------
(***************************************************************************)
(* What the build keeps of a file once its syntax tree is freed            *)
(* (src/runtime/src/file_extraction.rs), and how a name imported from a    *)
(* module is told, from the tree (src/runtime/src/helpers.rs) and from the *)
(* facts.                                                                  *)
(*                                                                         *)
(* A file is [body, joined, package, module]; statement i is on the line   *)
(* of statement i - 1 when i \in joined.  A range is the path of a         *)
(* statement with the number of a name in it.  Rows are [at, has].         *)
(***************************************************************************)
EXTENDS StringFold
LOCAL INSTANCE SequencesExt
LOCAL INSTANCE FiniteSetsExt

NameRange(i) == <<i, 0, 1>>     \* of the name that top-level statement i binds
Row(at, has) == [at |-> at, has |-> has]
Flat(body, Of(_)) == FlattenSeq([i \in DOMAIN body |-> Of(i)])

-----------------------------------------------------------------------------
(* The main block.                                                         *)

Main == <<"__main", "__">>

(* One comparison by ==, in either order; a string goes by its value.       *)
MainTest(e) ==
  /\ e.is = "eq"
  /\ \E k \in {1, 2} : e.parts[k].is = "name" /\ e.parts[k].text = Dunder
                       /\ e.parts[3 - k].is = "str" /\ e.parts[3 - k].text = Main

(* The first one, whose range is that of the statement: the tests of its    *)
(* elif are not looked at.                                                  *)
MainBlockRange(body) ==
  LET mains == {i \in DOMAIN body : body[i].is = "if" /\ MainTest(body[i].exprs[1])}
  IN  IF mains = {} THEN {} ELSE {Min(mains)}

(* The text of the file has "__main__" in it.                               *)
Says(body) ==
  \E e \in ToSet(BlockExprs(body)) :
    e.is = "str" /\ e.parts = <<>> /\ \E a, b \in DOMAIN e.text : SubSeq(e.text, a, b) = Main

-----------------------------------------------------------------------------
(* Callees.                                                                *)

Unwrap(e) == IF e.is = "sub" THEN e.parts[1] ELSE e

(* collapse_attribute_chain: a name and the attributes after it.            *)
RECURSIVE Chain(_)
Chain(e) ==
  CASE e.is = "name" -> {[root |-> e.text, attrs |-> <<>>]}
    [] e.is = "attr" -> {[c EXCEPT !.attrs = Append(@, e.text)] : c \in Chain(e.parts[1])}
    [] OTHER -> {}

Callee(e) == Chain(Unwrap(e))

Kwargs(call, ctx) ==
  [key \in ToSet(call.keys) |-> Fold(Keyword(call, CHOOSE k \in DOMAIN call.keys : call.keys[k] = key), ctx)]
NoKwargs == [key \in {} |-> {}]

Descriptor(call, ctx) == {[chain |-> c, kwargs |-> Kwargs(call, ctx)] : c \in Callee(call.parts[1])}

(* decorator_head: the innermost call of a builder chain, if there is one.  *)
RECURSIVE FirstCall(_, _)
FirstCall(e, found) ==
  CASE e.is = "call" -> FirstCall(e.parts[1], {e})
    [] e.is = "attr" -> FirstCall(e.parts[1], found)
    [] OTHER -> found

DecoratorDescriptor(dec, ctx) ==
  LET calls == FirstCall(dec, {})
  IN  IF calls = {} THEN {[chain |-> c, kwargs |-> NoKwargs] : c \in Callee(dec)}
      ELSE UNION {Descriptor(call, ctx) : call \in calls}

DecoratorRow(stmt, ctx) ==
  FlattenSeq([k \in 1 .. stmt.decs |-> SetToSeq(DecoratorDescriptor(Decorators(stmt)[k], ctx))])

(* FactoryCalleeCollector: every callee in the body, decorators left out.   *)
FactoryRow(stmt) ==
  LET calls == Calls(BlockExprs(stmt.blocks[1]))
  IN  FlattenSeq([k \in DOMAIN calls |-> SetToSeq(Callee(calls[k].parts[1]))])

-----------------------------------------------------------------------------
(* Call sites.                                                             *)

StringArg(e, ctx) ==
  IF e.is # "list" THEN {[literal |-> TRUE, of |-> <<s>>] : s \in Fold(e, ctx)}
  ELSE LET known == FlattenSeq([k \in DOMAIN e.parts |-> SetToSeq(Fold(e.parts[k], ctx))])
       IN  IF known = <<>> THEN {} ELSE {[literal |-> FALSE, of |-> known]}

CallSite(call, ctx) ==
  LET strings == [k \in 1 .. Arity(call) |-> StringArg(Args(call)[k], ctx)]
      callee  == Unwrap(call.parts[1])
  IN  IF \A k \in DOMAIN strings : strings[k] = {} THEN <<>>
      ELSE <<[attr |-> IF callee.is = "attr" THEN {callee.text} ELSE {},
              callee |-> Callee(call.parts[1]), arity |-> Arity(call),
              strings |-> strings, kwargs |-> Kwargs(call, ctx)]>>

NthString(site, n) ==
  IF n \in DOMAIN site.strings THEN {a.of[1] : a \in {b \in site.strings[n] : b.literal}} ELSE {}
Collection(site, n) ==
  IF n \in DOMAIN site.strings THEN FlattenSeq(SetToSeq({a.of : a \in site.strings[n]})) ELSE <<>>

Scoped(stmt, ctx) == IF stmt.is \in {"def", "class"} THEN WithShadowed(ctx, ScopeNames(stmt)) ELSE ctx

Sites(stmt, ctx) ==
  LET scoped == Scoped(stmt, ctx)
      calls  == Calls(Exprs(stmt))
  IN  FlattenSeq([k \in DOMAIN calls |-> CallSite(calls[k], scoped)])

-----------------------------------------------------------------------------
(* Imports.                                                                *)

Relative(level, tail, package) ==
  {base \o tail : base \in {SubSeq(p, 1, Len(p) - (level - 1)) : p \in {q \in package : level - 1 <= Len(q)}}} \ {<<>>}

Absolute(stmt, package) == IF stmt.level = 0 THEN {stmt.name} \ {<<>>} ELSE Relative(stmt.level, stmt.name, package)

ImportFact(stmt, package) ==
  CASE stmt.is = "from" -> SetToSeq({[from |-> TRUE, module |-> m, names |-> stmt.names] : m \in Absolute(stmt, package)})
    [] stmt.is = "import" -> <<[from |-> FALSE, module |-> <<>>, names |-> stmt.names]>>
    [] OTHER -> <<>>

Marker == <<"<module>">>   \* MODULE_ALIAS_MARKER

(* The last entry of a local name is the one the map keeps.                 *)
LocalMap(entries) ==
  [l \in {entries[k].local : k \in DOMAIN entries} |->
     entries[Max({k \in DOMAIN entries : entries[k].local = l})].target]

Entry(local, target) == [local |-> local, target |-> target]
Picked(names, Which(_), To(_)) ==
  LET chosen == SelectSeq(names, Which) IN [k \in DOMAIN chosen |-> Entry(chosen[k].local, To(chosen[k].name))]

(* Mutant: a submodule taken from its package is no module.                 *)
FactEntriesOfModule(fact, module, allowed) ==
  IF fact.from /\ fact.module = module
  THEN Picked(fact.names, LAMBDA n : n.name \in allowed, LAMBDA n : n)
  ELSE IF fact.from THEN <<>>
       ELSE Picked(fact.names, LAMBDA n : n.name = module, LAMBDA n : Marker)

FactEntries(fact, module, allowed) ==
  IF fact.from /\ fact.module = module
  THEN Picked(fact.names, LAMBDA n : n.name \in allowed, LAMBDA n : n)
  ELSE IF fact.from /\ Len(module) > 1 /\ fact.module = Front(module)
       THEN Picked(fact.names, LAMBDA n : n.name = <<module[Len(module)]>>, LAMBDA n : Marker)
       ELSE IF fact.from THEN <<>> ELSE Picked(fact.names, LAMBDA n : n.name = module, LAMBDA n : Marker)

(* imports_local_from_facts: the modules in turn, the facts in turn.        *)
ImportsFromFacts(facts, modules, allowed) ==
  LocalMap(Flat(modules, LAMBDA m : Flat(facts, LAMBDA k : FactEntries(facts[k], modules[m], allowed))))

(* collect_modules_imports_local, from the tree.                            *)
LiveEntries(stmt, module, allowed, package) ==
  LET sources == Absolute(stmt, package)
      submodule == <<module[Len(module)]>>
  IN  IF stmt.is = "import" THEN Picked(stmt.names, LAMBDA n : n.name = module, LAMBDA n : Marker)
      ELSE IF stmt.is # "from" \/ sources = {} THEN <<>>
      ELSE IF sources = {module} THEN Picked(stmt.names, LAMBDA n : n.name \in allowed, LAMBDA n : n)
      ELSE IF Len(module) > 1 /\ sources = {Front(module)}
           THEN Picked(stmt.names, LAMBDA n : n.name = submodule, LAMBDA n : Marker) ELSE <<>>

ImportsLive(file, modules, allowed) ==
  LET one(m) == LocalMap(Flat(file.body, LAMBDA k : LiveEntries(file.body[k], modules[m], allowed, file.package)))
  IN  FoldLeft(LAMBDA map, m : [l \in DOMAIN map \cup DOMAIN one(m) |-> IF l \in DOMAIN one(m) THEN one(m)[l] ELSE map[l]],
               [l \in {} |-> <<>>], [m \in DOMAIN modules |-> m])

TargetOf(imports, name) == {imports[l] : l \in {name} \cap DOMAIN imports}

(* match_callee_chain: the name a recorded callee stands for.               *)
MatchChain(chain, imports, modules, allowed) ==
  LET n == Len(chain.attrs)
  IN  CASE n = 0 -> TargetOf(imports, chain.root) \cap allowed
        [] n = 1 -> IF TargetOf(imports, chain.root) = {Marker} THEN {chain.attrs[1]} \cap allowed ELSE {}
        [] OTHER -> IF \E m \in DOMAIN modules : modules[m] = chain.root \o FlattenSeq(Front(chain.attrs))
                    THEN {chain.attrs[n]} \cap allowed ELSE {}

(* matched_call_target_any: the name a call in the tree stands for.         *)
MatchOne(call, imports, module, allowed) ==
  LET callee == Unwrap(call.parts[1])
  IN  CASE callee.is = "name" -> TargetOf(imports, callee.text) \cap allowed
        [] callee.is = "attr" /\ callee.text \in allowed ->
             IF callee.parts[1].is = "name"
             THEN IF TargetOf(imports, callee.parts[1].text) = {Marker} THEN {callee.text} ELSE {}
             ELSE {callee.text : c \in {d \in Chain(callee.parts[1]) : d.root \o FlattenSeq(d.attrs) = module}}
        [] OTHER -> {}

MatchLive(call, imports, modules, allowed) ==
  LET hits == SelectSeq([m \in DOMAIN modules |-> MatchOne(call, imports, modules[m], allowed)], LAMBDA h : h # {})
  IN  IF hits = <<>> THEN {} ELSE hits[1]

-----------------------------------------------------------------------------
(* file_extraction.                                                        *)

(* Methods directly in the body of a class, wherever the class is.          *)
RECURSIVE MethodRows(_, _)
MethodRows(stmt, path) ==
  LET methods == SelectSeq(stmt.blocks[1], LAMBDA s : s.is = "def")
  IN  (IF stmt.is = "class" THEN <<Row(path \o <<0, 1>>, [k \in DOMAIN methods |-> methods[k].name])>> ELSE <<>>) \o
      Flat(stmt.blocks, LAMBDA b : Flat(stmt.blocks[b], LAMBDA i : MethodRows(stmt.blocks[b][i], path \o <<b, i>>)))

MethodParams(stmt) ==
  LET methods == SelectSeq(stmt.blocks[1], LAMBDA s : s.is = "def")
      all == SelectSeq(Flat(methods, LAMBDA k : methods[k].params), LAMBDA p : p \notin {<<"self">>, <<"cls">>})
      keep(seen, p) == IF p \in ToSet(seen) THEN seen ELSE Append(seen, p)
  IN  FoldLeft(keep, <<>>, all)

Facts(file) ==
  LET body == file.body
      ctx  == [module |-> {file.module}, constants |-> Constants(body, {file.module}), shadowed |-> {}]
      rows(kinds, Of(_)) == Flat(body, LAMBDA i : IF body[i].is \in kinds /\ Of(body[i]) # <<>>
                                                  THEN <<Row(NameRange(i), Of(body[i]))>> ELSE <<>>)
      decls == {"def", "class"}
      calls(i) == AssignsName(body[i]) /\ FoldList(Value(body[i]), ctx) = {} /\ Value(body[i]).is = "call"
  IN  [main            |-> IF Says(body) THEN MainBlockRange(body) ELSE {},
       lists           |-> Flat(body, LAMBDA i : IF ~AssignsName(body[i]) THEN <<>>
                             ELSE SetToSeq({Row(Target(body[i]), l) : l \in FoldList(Value(body[i]), ctx)})),
       functionParams  |-> Flat(body, LAMBDA i : IF body[i].is = "def" THEN <<Row(NameRange(i), body[i].params)>> ELSE <<>>),
       classParams     |-> Flat(body, LAMBDA i : IF body[i].is = "class" THEN <<Row(NameRange(i), MethodParams(body[i]))>> ELSE <<>>),
       methods         |-> Flat(body, LAMBDA i : IF Simple(body[i]) THEN <<>> ELSE MethodRows(body[i], <<i>>)),
       imports         |-> Flat(body, LAMBDA i : ImportFact(body[i], file.package)),
       decorators      |-> rows(decls, LAMBDA s : DecoratorRow(s, ctx)),
       constructions   |-> Flat(body, LAMBDA i : IF ~calls(i) THEN <<>>
                             ELSE SetToSeq({Row(NameRange(i), d) : d \in Descriptor(Value(body[i]), ctx)})),
       factories       |-> rows(decls, FactoryRow),
       sites           |-> rows(decls, LAMBDA s : Sites(s, ctx)),
       moduleSites     |-> Flat(body, LAMBDA i : IF body[i].is \in decls THEN <<>> ELSE Sites(body[i], ctx))]
=============================================================================
