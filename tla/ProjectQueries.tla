------------------------------ MODULE ProjectQueries ------------------------------
(***************************************************************************)
(* The queries a project-wide plugin asks (the cores of src/runtime/src/   *)
(* project.rs, behind FrozenView and ProjectContext).  A project is a      *)
(* sequence of [file, nodes, facts, base]: node n of a file has index      *)
(* base + n in the graph, its module base.                                 *)
(***************************************************************************)
EXTENDS FileQueries
LOCAL INSTANCE SequencesExt
LOCAL INSTANCE FiniteSetsExt

Assembled(files) ==
  LET nodes == [i \in DOMAIN files |-> Nodes(files[i])]
  IN  [i \in DOMAIN files |->
         [file |-> files[i], nodes |-> nodes[i], facts |-> Facts(files[i]),
          base |-> FoldLeft(LAMBDA n, j : n + 1 + Len(nodes[j]), 0, [j \in 1 .. (i - 1) |-> j])]]

(* decl_by_name_range and class_by_selection.                               *)
DeclAt(p, range)  == {p.base + n : n \in {m \in DOMAIN p.nodes : p.nodes[m].range = range}}
ClassAt(p, range) == {p.base + n : n \in {m \in DOMAIN p.nodes : p.nodes[m].kind = "class" /\ p.nodes[m].range = range}}

(* One row per node that the range of a row leads to.                       *)
Rows(p, rows, At(_, _)) ==
  FlattenSeq([k \in DOMAIN rows |-> SetToSeq({[node |-> g, has |-> rows[k].has] : g \in At(p, rows[k].at)})])

Everywhere(project, Of(_)) == FlattenSeq([i \in DOMAIN project |-> Of(project[i])])

(* Parameters by node: none for a node that is no function or class.        *)
ParametersOf(project, rowsOf(_), At(_, _), g) ==
  LET rows == Everywhere(project, LAMBDA p : Rows(p, rowsOf(p), At))
      own  == {rows[k].has : k \in {j \in DOMAIN rows : rows[j].node = g}}
  IN  IF own = {} THEN <<>> ELSE CHOOSE names \in own : TRUE

FunctionParameters(project, g) == ParametersOf(project, LAMBDA p : p.facts.functionParams, DeclAt, g)
ClassMethodParameters(project, g) == ParametersOf(project, LAMBDA p : p.facts.classParams, ClassAt, g)

ClassesDefiningMethod(project, method) ==
  LET rows == Everywhere(project, LAMBDA p : Rows(p, p.facts.methods, ClassAt))
  IN  {rows[k].node : k \in {j \in DOMAIN rows : method \in ToSet(rows[j].has)}}

(* Mutant: the constructions of every file resolve through the imports of   *)
(* the first.                                                               *)
ConstructionsByFirst(project, modules, allowed) ==
  LET hit(row) == MatchChain(row.has.chain, ImportsFromFacts(project[1].facts.imports, modules, allowed), modules, allowed) # {}
  IN  Everywhere(project, LAMBDA p : SelectSeq(Rows(p, p.facts.constructions, DeclAt), hit))

InstanceConstructions(project, modules, allowed) ==
  LET in(p) == LET imports == ImportsFromFacts(p.facts.imports, modules, allowed)
                   hit(row) == MatchChain(row.has.chain, imports, modules, allowed) # {}
               IN  IF DOMAIN imports = {} THEN <<>> ELSE SelectSeq(Rows(p, p.facts.constructions, DeclAt), hit)
  IN  Everywhere(project, in)

(* The constructors the body of a decl calls.                               *)
FactoryDecls(project, modules, allowed) ==
  LET in(p) == LET imports == ImportsFromFacts(p.facts.imports, modules, allowed)
                   kinds(row) == UNION {MatchChain(c, imports, modules, allowed) : c \in ToSet(row.has)}
                   rows == IF DOMAIN imports = {} THEN <<>> ELSE Rows(p, p.facts.factories, DeclAt)
               IN  FlattenSeq([k \in DOMAIN rows |-> IF kinds(rows[k]) = {} THEN <<>>
                                                     ELSE <<[node |-> rows[k].node, kinds |-> kinds(rows[k])]>>])
  IN  Everywhere(project, in)

(* Mutant: a decl handles once per decorator and not once per owner.        *)
HandlerDecoratorsEach(project, attrs) ==
  LET hits(row) == SelectSeq(row.has, LAMBDA d : Len(d.chain.attrs) = 1 /\ d.chain.attrs[1] \in attrs)
      in(p) == LET rows == Rows(p, p.facts.decorators, DeclAt)
               IN  Flat(rows, LAMBDA k : [j \in DOMAIN hits(rows[k]) |-> <<hits(rows[k])[j].chain.root, rows[k].node>>])
  IN  Everywhere(project, in)

(* Each owner's first decorator of that shape, in the order of the source.  *)
FirstOfRoot(row, Shape(_)) ==
  LET hits == SelectSeq(row.has, LAMBDA d : Shape(d.chain.attrs))
      first(j) == \A i \in 1 .. (j - 1) : hits[i].chain.root # hits[j].chain.root
      keep == SelectSeq([j \in DOMAIN hits |-> j], first)
  IN  [j \in DOMAIN keep |-> <<hits[keep[j]].chain.root, row.node>>]

HandlerDecorators(project, attrs) ==
  LET shape(chain) == Len(chain) = 1 /\ chain[1] \in attrs
      in(p) == LET rows == Rows(p, p.facts.decorators, DeclAt) IN Flat(rows, LAMBDA k : FirstOfRoot(rows[k], shape))
  IN  Everywhere(project, in)

HandlerDecoratorsVia(project, via, attrs) ==
  LET shape(chain) == Len(chain) = 2 /\ chain[1] = via /\ chain[2] \in attrs
      in(p) == LET rows == Rows(p, p.facts.decorators, DeclAt) IN Flat(rows, LAMBDA k : FirstOfRoot(rows[k], shape))
  IN  Everywhere(project, in)

(* for_each_call_site: owners and sites, what has no decl falls to the      *)
(* module.                                                                  *)
CallSites(p) ==
  LET owner(range) == IF DeclAt(p, range) = {} THEN p.base ELSE CHOOSE g \in DeclAt(p, range) : TRUE
      facts == p.facts
  IN  FlattenSeq([k \in DOMAIN facts.sites |->
        [j \in DOMAIN facts.sites[k].has |-> <<owner(facts.sites[k].at), facts.sites[k].has[j]>>]]) \o
      [j \in DOMAIN facts.moduleSites |-> <<p.base, facts.moduleSites[j]>>]

CallsOnAttr(project, attr, n) ==
  LET in(p) == LET sites == SelectSeq(CallSites(p), LAMBDA s : s[2].attr = {attr})
               IN  Flat(sites, LAMBDA k : [j \in DOMAIN Collection(sites[k][2], n) |->
                                             <<sites[k][1], Collection(sites[k][2], n)[j]>>])
  IN  Everywhere(project, in)

CallsToImported(project, modules, name, n) ==
  LET in(p) == LET imports == ImportsFromFacts(p.facts.imports, modules, {name})
                   hit(s) == \E c \in s[2].callee : MatchChain(c, imports, modules, {name}) # {}
               IN  IF DOMAIN imports = {} THEN <<>> ELSE Strings(SelectSeq(CallSites(p), hit), n)
  IN  Everywhere(project, in)

CallsOnVar(project, var, attr, n, arities) ==
  LET hit(s) == /\ s[2].arity \in arities
                /\ \E c \in s[2].callee : c.root = var /\ Len(c.attrs) = 1 /\ c.attrs[1] = attr
  IN  Everywhere(project, LAMBDA p : Strings(SelectSeq(CallSites(p), hit), n))
=============================================================================
