------------------------------ MODULE FileAnalysis ------------------------------
(***************************************************************************)
(* One file of a project is written, statement by statement; at every      *)
(* point the build may extract it.  The facts and queries of the files are *)
(* those of ProjectQueries, and the properties set what the tree says, the *)
(* facts say and the program does side by side.                            *)
(***************************************************************************)
EXTENDS MainBlock
LOCAL INSTANCE SequencesExt
LOCAL INSTANCE FiniteSetsExt

CONSTANTS
  Catalogue,      \* the statements there are to write
  Before,         \* the files ahead of it in the project
  Package,        \* its package, if it has one, and its module
  Module,
  Asked,          \* the modules plugins ask for, lists of dotted names
  Wanted,         \* the names they want of them
  Decorating,     \* the attributes that make handlers of decorators
  Via,
  MaxStatements   \* bound: statements in the file

VARIABLES body, joined

vars == <<body, joined>>

Init == body = <<>> /\ joined = {}

Write(s) == body' = Append(body, Catalogue[s]) /\ UNCHANGED joined

(* ... after a semicolon: only simple statements share a line.              *)
WriteOnSameLine(s) ==
  /\ body # <<>> /\ Simple(Catalogue[s]) /\ Simple(body[Len(body)])
  /\ body' = Append(body, Catalogue[s]) /\ joined' = joined \cup {Len(body) + 1}

Next == Len(body) < MaxStatements /\ \E s \in DOMAIN Catalogue : Write(s) \/ WriteOnSameLine(s)

Spec == Init /\ [][Next]_vars

File == [body |-> body, joined |-> joined, package |-> Package, module |-> Module]
Project == Assembled(Append(Before, File))
Own == Len(Before) + 1

-----------------------------------------------------------------------------
(* What the program does: every state of the module's names at any point,   *)
(* with statements that fail, branches taken or not and functions called    *)
(* whenever they exist.  A value is a string or Object.                     *)

Object == <<"<object>">>

RECURSIVE Evaluated(_, _)
Evaluated(e, env) ==
  LET parts == [k \in DOMAIN e.parts |-> Evaluated(e.parts[k], env)]
  IN  CASE e.is = "str" -> {e.text}
        [] e.is = "name" -> {env[n] : n \in {e.text} \cap DOMAIN env}
        [] e.is \in {"plus", "fstr", "hole"} ->
             IF \E k \in DOMAIN parts : parts[k] = {} THEN {}
             ELSE IF \E k \in DOMAIN parts : parts[k] = {Object} THEN {Object}
             ELSE {FlattenSeq([k \in DOMAIN parts |-> CHOOSE v \in parts[k] : TRUE])}
        [] OTHER -> {Object}

Bound(env, names, v) == [n \in DOMAIN env \cup names |-> IF n \in names THEN v ELSE env[n]]
Unbound(env, names) == [n \in DOMAIN env \ names |-> env[n]]

(* What calling a function that exists does to the module's names.          *)
Rebinding(stmt) ==
  LET in == ToSet(Statements(stmt))
  IN  UNION {ToSet(AliasLocals(s)) : s \in {t \in in : t.is = "global"}}

Called(env) ==
  UNION {{Bound(env, {n}, Object) : n \in Rebinding(body[i])} :
           i \in {j \in DOMAIN body : body[j].is = "def" /\ body[j].name \in DOMAIN env}}

RECURSIVE States(_, _), AfterOne(_, _)
States(block, envs) == FoldLeft(LAMBDA seen, stmt : seen \cup AfterOne(stmt, seen), envs, block)

AfterOne(stmt, envs) ==
  LET stores == {e.text : e \in ToSet(Stores(stmt))}
      done(env) ==
        CASE stmt.is = "assign" -> {Bound(env, stores, v) : v \in Evaluated(Value(stmt), env)}
          [] stmt.is \in {"def", "class"} -> {Bound(env, {stmt.name}, Object)}
          [] stmt.is \in {"import", "from"} -> {Bound(env, {<<stmt.names[k].local[1]>> : k \in DOMAIN stmt.names}, Object)}
          [] stmt.is = "if" -> UNION {States(stmt.blocks[b], {env}) : b \in DOMAIN stmt.blocks}
          [] stmt.is = "for" -> States(stmt.blocks[1], {Bound(env, stores, Object)})
          [] stmt.is = "try" -> LET tried == States(stmt.blocks[1], {env})
                                    caught == States(stmt.blocks[2], {Bound(e, {stmt.name}, Object) : e \in tried})
                                IN  tried \cup caught \cup {Unbound(e, {stmt.name}) : e \in caught}
          [] OTHER -> {env}
      after == UNION {done(env) : env \in envs}
  IN  after \cup UNION {Called(env) : env \in after}

(* The names a scope binds itself.                                          *)
RECURSIVE OwnNames(_)
OwnNames(block) ==
  UNION {LET s == block[i]
         IN  CASE s.is \in {"def", "class"} -> {s.name}
               [] s.is \in {"import", "from"} -> {<<s.names[k].local[1]>> : k \in DOMAIN s.names}
               [] OTHER -> {e.text : e \in ToSet(Stores(s))} \cup (IF s.is = "try" THEN {s.name} ELSE {})
                           \cup UNION {OwnNames(s.blocks[b]) : b \in DOMAIN s.blocks} : i \in DOMAIN block}

(* Every call with the names that are not the module's where it stands: of  *)
(* the functions around it, and of the class it is directly in.             *)
RECURSIVE CallsSeen(_, _, _)
CallsSeen(stmt, outer, class) ==
  LET here  == Calls(FlattenSeq([j \in DOMAIN stmt.exprs |-> Within(stmt.exprs[j])]))
      inner(o, c) == Flat(stmt.blocks, LAMBDA b : Flat(stmt.blocks[b], LAMBDA i : CallsSeen(stmt.blocks[b][i], o, c)))
  IN  [j \in DOMAIN here |-> <<here[j], outer \cup class>>] \o
      CASE stmt.is = "def" -> inner((outer \cup ToSet(stmt.params) \cup OwnNames(stmt.blocks[1])) \ Rebinding(stmt), {})
        [] stmt.is = "class" -> inner(outer, OwnNames(stmt.blocks[1]))
        [] OTHER -> inner(outer, class)

(* Names the module rebinds where the binder does not look: a handler's     *)
(* name, and the package of a dotted import.                                *)
Unseen ==
  LET top(stmt) == SelectSeq(Statements(stmt), LAMBDA s : s.is \in {"try", "import"})
      names(s) == IF s.is = "try" THEN {s.name} ELSE {<<s.names[k].local[1]>> : k \in {j \in DOMAIN s.names : Len(s.names[j].local) > 1}}
  IN  UNION {UNION {names(s) : s \in ToSet(top(body[i]))} : i \in {j \in DOMAIN body : body[j].is \notin {"def", "class"}}}

-----------------------------------------------------------------------------
(* Properties.                                                             *)

Real(file, ctx) ==
  LET states == States(file.body, {[n \in {Dunder} |-> file.module]})
      real(e, scoped, hidden) ==
        \A s \in Fold(e, scoped) : \A env \in states : Evaluated(e, Bound(env, hidden, Object)) \subseteq {s}
  IN  /\ \A env \in states : \A n \in DOMAIN ctx.constants \cap DOMAIN env : env[n] = ctx.constants[n]
      /\ \A i \in DOMAIN file.body :
           LET seen == CallsSeen(file.body[i], {}, {})
           IN  \A k \in DOMAIN seen : \A p \in DOMAIN seen[k][1].parts :
                 real(seen[k][1].parts[p], Scoped(file.body[i], ctx), seen[k][2])

FoldContext == [module |-> {Module}, constants |-> Constants(body, {Module}), shadowed |-> {}]

(* Every string that is recorded, of a constant or an argument, is the one  *)
(* the program has there whenever it gets there: in any order of branches,  *)
(* failures and calls, and whatever the scopes around it bind.              *)
RecordedStringsAreReal == DOMAIN FoldContext.constants \cap Unseen = {} => Real(File, FoldContext)

(* string_fold.rs: "bound exactly once at module level (assignment, def,    *)
(* class, import, loop target ... all count as bindings)".                  *)
ConstantsAreBoundOnce == Real(File, FoldContext)

Shifted(p, ns) == {p.base + n : n \in ns}
In(p, gs) == {g \in gs : g > p.base /\ g <= p.base + Len(p.nodes)}
NodesIn(rows) == {rows[k].node : k \in DOMAIN rows}
Lines(p, gs) == {LineOf(p.file, p.nodes[g - p.base].range) : g \in gs}
LineShared(p) == \E m, n \in DOMAIN p.nodes : m # n /\ LineOf(p.file, p.nodes[m].range) = LineOf(p.file, p.nodes[n].range)

(* A per-file query from the tree finds what the project's finds from the   *)
(* facts: the decls on the same lines, the same ones when lines tell them   *)
(* apart.                                                                   *)
LiveFindsWhatFactsFind ==
  \E project \in {Project} :
    LET p == project[Own]
    IN  \A modules \in Asked :
          LET made   == Shifted(p, ConstructionsIn(p.file, p.nodes, modules, Wanted))
              rows   == In(p, NodesIn(InstanceConstructions(project, modules, Wanted)))
              owners == Shifted(p, CallOwnersIn(p.file, p.nodes, modules, Wanted)) \ {p.base}
              decls  == In(p, NodesIn(FactoryDecls(project, modules, Wanted)))
          IN  /\ Lines(p, made) = Lines(p, rows) /\ Lines(p, owners) = Lines(p, decls)
              /\ LineShared(p) \/ (made = rows /\ owners = decls)

(* "a per-file plugin and its project-wide twin match identically"          *)
TwinsMatchIdentically ==
  \E project \in {Project} :
    LET p == project[Own]
    IN  \A modules \in Asked :
          Shifted(p, ConstructionsIn(p.file, p.nodes, modules, Wanted)) = In(p, NodesIn(InstanceConstructions(project, modules, Wanted)))

OwnRows(p, rows, at) == SelectSeq(rows, LAMBDA r : r[at] >= p.base)
Moved(p, rows, at) == [k \in DOMAIN rows |-> [rows[k] EXCEPT ![at] = @ + p.base]]

(* What a per-file plugin reads of the facts is what a project-wide one     *)
(* reads of its file, row for row and in the same order; a call on a        *)
(* variable is one on its attribute.                                        *)
FactTwinsAgree ==
  \E project \in {Project} :
    LET p == project[Own]
        f == p.facts
        nodes == p.nodes
        same(rows, ofNode(_)) == \A k \in DOMAIN ByLocal(rows, nodes) :
          LET row == ByLocal(rows, nodes)[k] IN ofNode(p.base + row.local) = row.has
    IN  /\ Moved(p, HandlersIn(f, nodes, <<>>, Decorating), 2) = OwnRows(p, HandlerDecorators(project, Decorating), 2)
        /\ Moved(p, HandlersIn(f, nodes, <<Via>>, Decorating), 2) = OwnRows(p, HandlerDecoratorsVia(project, Via, Decorating), 2)
        /\ \A modules \in Asked : \A name \in Wanted :
             Moved(p, CallsToImportedIn(f, nodes, modules, name, 1), 1) = OwnRows(p, CallsToImported(project, modules, name, 1), 1)
        /\ \A c \in UNION {s[2].callee : s \in ToSet(SitesIn(f, nodes))} :
             Len(c.attrs) = 1 =>
               LET on == Moved(p, CallsOnVarIn(f, nodes, c.root, c.attrs[1], 1, {1, 2}), 1)
               IN  /\ on = OwnRows(p, CallsOnVar(project, c.root, c.attrs[1], 1, {1, 2}), 1)
                   /\ ToSet(on) \subseteq ToSet(CallsOnAttr(project, c.attrs[1], 1))
        /\ same(f.functionParams, LAMBDA g : FunctionParameters(project, g))
        /\ same(f.classParams, LAMBDA g : ClassMethodParameters(project, g))
        /\ \A method \in UNION {ToSet(f.methods[k].has) : k \in DOMAIN f.methods} :
             Shifted(p, DefiningMethod(f, nodes, method)) = In(p, ClassesDefiningMethod(project, method))

(* A plugin that looks at a file only when it imports what the plugin is    *)
(* about misses no file with a name to match.                               *)
GuardAdmitsMatches ==
  \A modules \in Asked : DOMAIN ImportsLive(File, modules, Wanted) # {} => ImportsAny(File, ToSet(modules))

(* The import map and the match of every call are the same from the facts   *)
(* as from the tree.                                                        *)
MatchersAgree ==
  LET facts == Flat(body, LAMBDA i : ImportFact(body[i], Package))
      calls == Calls(BlockExprs(body))
  IN  \A modules \in Asked :
        LET live == ImportsLive(File, modules, Wanted)
        IN  /\ live = ImportsFromFacts(facts, modules, Wanted)
            /\ \A k \in DOMAIN calls :
                 MatchLive(calls[k], live, modules, Wanted)
                   = UNION {MatchChain(c, live, modules, Wanted) : c \in Callee(calls[k].parts[1])}

Styles ==
  {[inline |-> inline, spread |-> spread] :
     inline \in SUBSET {i \in DOMAIN body : Inlines(body[i])}, spread \in SUBSET DOMAIN body}

(* The statements that run when the file is run and not when it is          *)
(* imported: their test finds the name to be "__main__".                    *)
MainStatements ==
  LET holds(test, name) == LET env == [n \in {Dunder} |-> name]
                           IN  test.is = "eq" /\ Evaluated(test.parts[1], env) = Evaluated(test.parts[2], env)
  IN  {i \in DOMAIN body : /\ body[i].is = "if"
                           /\ holds(body[i].exprs[1], Main) /\ ~holds(body[i].exprs[1], Module)}

KeptIs(mains) ==
  mains # {} =>
    \E project \in {Project} :
      LET p == project[Own]
          inside == {n \in DOMAIN p.nodes : p.nodes[n].range[1] \in mains}
      IN  \A style \in Styles : \E text \in {Text(File, style)} :
            /\ MainBlockKeeps(p.file, p.nodes, text) = {0} \cup inside
            /\ Says(body) => MainBlocks(<<p>>, <<text>>) = <<[module |-> p.base, decls |-> Shifted(p, inside)]>>

(* MainBlockPlugin, by lines, and find_main_blocks_indices, by bytes, keep  *)
(* what is written in the first main block, its elif and else too, and      *)
(* nothing beside it, in every layout of the file: statements on a line     *)
(* with the next one or with their clause, or spread over lines.  The       *)
(* second needs the text to say "__main__", which a test with the string in *)
(* two literals does not.                                                   *)
MainBlockIsKept == KeptIs(IF MainStatements = {} THEN {} ELSE {Min(MainStatements)})

(* main_blocks: "Each top-level `if __name__ == "__main__":` block"; a      *)
(* second one in the file is left out.                                      *)
EveryMainBlockIsKept == KeptIs(MainStatements)
=============================================================================
