------------------------------- MODULE FileQueries -------------------------------
(***************************************************************************)
(* The queries plugins ask of a file: those of a per-file plugin           *)
(* (FileContext in src/runtime/src/native_plugins.rs, indices in the file) *)
(* and those of a project-wide one (the cores of src/runtime/src/          *)
(* project.rs, indices in the graph, where the file's nodes start at a     *)
(* base), which answer from the facts.  Node 0 is the module.              *)
(***************************************************************************)
EXTENDS FileFacts
LOCAL INSTANCE SequencesExt
LOCAL INSTANCE FiniteSetsExt

-----------------------------------------------------------------------------
(* The nodes (file_to_nodes; Resolution has what the build does with them): *)
(* every definition of the global scope in order, loop targets and          *)
(* handlers' names left out.                                                *)

RECURSIVE NodesOf(_, _)
NodesOf(stmt, path) ==
  LET node(kind, k) == [kind |-> kind, range |-> path \o <<0, k>>]
      names == CASE stmt.is = "def" -> <<node("function", 1)>>
                 [] stmt.is = "class" -> <<node("class", 1)>>
                 [] stmt.is \in {"import", "from"} -> [k \in DOMAIN stmt.names |-> node("import", k)]
                 [] stmt.is = "assign" -> [k \in DOMAIN Stores(stmt) |-> node("variable", k)]
                 [] OTHER -> <<>>
  IN  IF stmt.is \in {"def", "class"} THEN names
      ELSE names \o Flat(stmt.blocks, LAMBDA b : Flat(stmt.blocks[b], LAMBDA i : NodesOf(stmt.blocks[b][i], path \o <<b, i>>)))

Nodes(file) == Flat(file.body, LAMBDA i : NodesOf(file.body[i], <<i>>))

IsDecl(node) == node.kind # "import"

(* The line of a range: that of its statement, and of a top-level one that  *)
(* is joined to the one before it the line of that.                         *)
LineOf(file, range) ==
  LET path == SubSeq(range, 1, Len(range) - 2)
  IN  IF Len(path) = 1 THEN <<Max({i \in 1 .. path[1] : i \notin file.joined})>> ELSE path

AtRange(nodes, range) == {n \in DOMAIN nodes : IsDecl(nodes[n]) /\ nodes[n].range = range}
AtLine(file, nodes, range) ==
  LET there == {n \in DOMAIN nodes : IsDecl(nodes[n]) /\ LineOf(file, nodes[n].range) = LineOf(file, range)}
  IN  IF there = {} THEN {} ELSE {Min(there)}

-----------------------------------------------------------------------------
(* Per file, from the tree: what runs under per_file_plugin_ops.            *)

LocalByLine(file, nodes, range) == AtLine(file, nodes, range)

ConstructionsIn(file, nodes, modules, allowed) ==
  LET imports == ImportsLive(file, modules, allowed)
      body == file.body
      made == {i \in DOMAIN body : DOMAIN imports # {} /\ AssignsName(body[i]) /\ Value(body[i]).is = "call"
                                   /\ MatchLive(Value(body[i]), imports, modules, allowed) # {}}
  IN  UNION {LocalByLine(file, nodes, NameRange(i)) : i \in made}

(* FactoryCallFinder over a def's or class's body, or all of a statement.   *)
KindsIn(exprs, imports, modules, allowed) ==
  UNION {MatchLive(call, imports, modules, allowed) : call \in ToSet(Calls(exprs))}

CallOwnersIn(file, nodes, modules, allowed) ==
  LET imports == ImportsLive(file, modules, allowed)
      owner(i) == IF file.body[i].is \in {"def", "class"} THEN LocalByLine(file, nodes, NameRange(i)) ELSE {0}
      subject(i) == IF file.body[i].is \in {"def", "class"} THEN BlockExprs(file.body[i].blocks[1]) ELSE Exprs(file.body[i])
  IN  IF DOMAIN imports = {} THEN {}
      ELSE UNION {owner(i) : i \in {j \in DOMAIN file.body : KindsIn(subject(j), imports, modules, allowed) # {}}}

StartsWith(name, prefix) == Len(prefix) <= Len(name) /\ SubSeq(name, 1, Len(prefix)) = prefix

(* Mutant: from a package, nothing of a module in it is imported.           *)
ImportsAnyBelow(file, modules) ==
  \E m \in modules :
    \/ StartsWith(file.module, m)
    \/ \E i \in DOMAIN file.body : file.body[i].is = "import" /\ \E k \in DOMAIN file.body[i].names : StartsWith(file.body[i].names[k].name, m)
    \/ \E i \in DOMAIN file.body : file.body[i].is = "from" /\ \E a \in Absolute(file.body[i], file.package) : StartsWith(a, m)

ImportsAny(file, modules) ==
  \E m \in modules :
    \/ StartsWith(file.module, m)
    \/ \E i \in DOMAIN file.body :
         LET stmt == file.body[i]
         IN  \/ stmt.is = "import" /\ \E k \in DOMAIN stmt.names : StartsWith(stmt.names[k].name, m)
             \/ stmt.is = "from" /\ \E a \in Absolute(stmt, file.package) : StartsWith(a, m) \/ StartsWith(m, a)

-----------------------------------------------------------------------------
(* Per file, from the facts, through decl_name_range_to_local.             *)

ByLocal(rows, nodes) ==
  FlattenSeq([k \in DOMAIN rows |-> SetToSeq({[local |-> n, has |-> rows[k].has] : n \in AtRange(nodes, rows[k].at)})])

DefiningMethod(facts, nodes, method) ==
  LET rows == ByLocal(facts.methods, nodes)
  IN  {rows[k].local : k \in {j \in DOMAIN rows : method \in ToSet(rows[j].has)}}

(* handler_decorators_local and handler_decorators_via_local: the decorator *)
(* `owner.attr' or `owner.via.attr', once per owner.                        *)
HandlersIn(facts, nodes, via, attrs) ==
  LET rows == ByLocal(facts.decorators, nodes)
      shaped(d) == \E a \in attrs : d.chain.attrs = via \o <<a>>
      keep(seen, d) == IF shaped(d) /\ d.chain.root \notin ToSet(seen) THEN Append(seen, d.chain.root) ELSE seen
      owners(row) == FoldLeft(keep, <<>>, row.has)
  IN  Flat(rows, LAMBDA k : [j \in DOMAIN owners(rows[k]) |-> <<owners(rows[k])[j], rows[k].local>>])

(* Sites with their owners, the module's last; a def that is no node leaves *)
(* its sites to the module.                                                 *)
SitesIn(facts, nodes) ==
  LET owner(range) == CHOOSE n \in IF AtRange(nodes, range) = {} THEN {0} ELSE AtRange(nodes, range) : TRUE
  IN  Flat(facts.sites, LAMBDA k : [j \in DOMAIN facts.sites[k].has |->
                                      <<owner(facts.sites[k].at), facts.sites[k].has[j]>>]) \o
      [j \in DOMAIN facts.moduleSites |-> <<0, facts.moduleSites[j]>>]

Strings(sites, n) == FlattenSeq([k \in DOMAIN sites |-> SetToSeq({<<sites[k][1], s>> : s \in NthString(sites[k][2], n)})])

CallsToImportedIn(facts, nodes, modules, name, n) ==
  LET imports == ImportsFromFacts(facts.imports, modules, {name})
      hit(s) == \E c \in s[2].callee : MatchChain(c, imports, modules, {name}) # {}
  IN  IF DOMAIN imports = {} THEN <<>> ELSE Strings(SelectSeq(SitesIn(facts, nodes), hit), n)

CallsOnVarIn(facts, nodes, var, attr, n, arities) ==
  LET hit(s) == s[2].callee = {[root |-> var, attrs |-> <<attr>>]} /\ s[2].arity \in arities
  IN  Strings(SelectSeq(SitesIn(facts, nodes), hit), n)
=============================================================================
