------------------------------ MODULE Resolution ------------------------------
(***************************************************************************)
(* The per-file payloads and the cross-file name resolution of the native  *)
(* runtime: file_payload.rs (file_to_nodes, walk_exports_chain and the     *)
(* resolution-surface fingerprint), file_ref_edges.rs (the reference rows  *)
(* of a file), refspec.rs (resolve_binding, resolve_use) and helpers.rs    *)
(* (the class-base resolution).                                            *)
(*                                                                         *)
(* Everything here is a pure function of `s', the sources as the salsa     *)
(* database sees them: s[f] is the content of file f, or Absent.  Content  *)
(* is what the resolution can tell apart:                                  *)
(*   own   the top-level names the file binds itself, each to a            *)
(*         definition [kind |-> "def"], a class [kind |-> "class",         *)
(*         base |-> <local name or NoName>], an import alias               *)
(*         [kind |-> "import", mod |-> m, name |-> d], a variable or a     *)
(*         function that denotes modules [kind, denotes |-> <their         *)
(*         module_values>], each [mod |-> m, name |-> d, steps |-> <chain  *)
(*         applied to it>];                                                *)
(*   star  the module of a `from m import *' at the top of the file;       *)
(*   uses  the chains its module-level statements read: a name, followed   *)
(*         by attributes and calls;                                        *)
(*   lay   its layout: two contents that differ only in lay have the same  *)
(*         names at other source positions.                                *)
(* Names are naturals, ordered as they are bound in a file; the star       *)
(* import comes first, so a name the file binds itself shadows it.         *)
(* The name an `import a.b' binds is taken to be one of its `as'.          *)
(***************************************************************************)
EXTENDS SourceTree, Naturals, Sequences, FiniteSets

CONSTANTS
  Module,      \* dotted names of project modules
  External,    \* dotted names of site-packages modules
  ModuleOf,    \* [File -> Module], the module a file defines
  Submodule,   \* [pkg, name, mod] records: pkg.name is the module mod
  Name,        \* top-level names, a set of naturals
  NoName, NoModule

(* The step of a chain that is a call; the others are attribute names.     *)
Call == 0

(* USE_SPLICE_DEPTH_CAP.                                                   *)
UseSpliceDepthCap == 8

(* Everything within n steps of start.                                     *)
Within(n, start, Step(_)) ==
  LET Seen[k \in 0 .. n] ==
        IF k = 0 THEN start
        ELSE LET seen == Seen[k - 1] IN seen \cup UNION {Step(x) : x \in seen}
  IN  Seen[n]

-----------------------------------------------------------------------------
(* Modules: a stub wins over its runtime twin.                             *)

FilesOf(s, m) == {f \in Present(s) : ModuleOf[f] = m}

Located(s, m) == FilesOf(s, m) # {}

FileOf(s, m) ==
  CHOOSE f \in FilesOf(s, m) : f \in Stub \/ FilesOf(s, m) \cap Stub = {}

SubmodulesNamed(s, m, n) ==
  {x.mod : x \in {y \in Submodule : y.pkg = m /\ y.name = n /\ Located(s, y.mod)}}

(* The .py twin of a stub: the stub's decls and the twin's are peers.      *)
Twin(s, f) ==
  IF f \in Stub THEN FilesOf(s, ModuleOf[f]) \ Stub ELSE {}

ParentFile(s, f) ==
  {FileOf(s, p) : p \in {x.pkg : x \in {y \in Submodule :
                          y.mod = ModuleOf[f] /\ Located(s, y.pkg)}}}

-----------------------------------------------------------------------------
(* Star imports.                                                           *)

OwnNames(s, f) == DOMAIN s[f].own

StarTarget(s, f) ==
  IF s[f].star \in Module /\ Located(s, s[f].star) THEN {FileOf(s, s[f].star)} ELSE {}

(* Every file whose names `from f import *' brings in, f included.         *)
StarClosure(s, f) ==
  LET Step(g) == StarTarget(s, g) IN Within(Cardinality(File), {f}, Step)

ExportedNames(s, f) == UNION {OwnNames(s, g) : g \in StarClosure(s, f)}

(* The names ty mints one star definition for, shadowed ones included.     *)
StarNames(s, f) == UNION {ExportedNames(s, g) : g \in StarTarget(s, f)}

(* star_reexports: a later binding of the name clears its entry.           *)
StarReexports(s, f) == StarNames(s, f) \ OwnNames(s, f)

-----------------------------------------------------------------------------
(* NodeRefs.  A decl is known by its file, its place in the file's symbol  *)
(* table and the position of its name; every name of one star statement    *)
(* shares the position of the `*' token.                                   *)

Place(s, f, n) ==
  IF n \in StarNames(s, f)
  THEN Cardinality({m \in StarNames(s, f) : m < n})
  ELSE Cardinality(StarNames(s, f)) + Cardinality({m \in OwnNames(s, f) \ StarNames(s, f) : m < n})

ModuleRef(f)      == [file |-> f, node |-> "module", place |-> 0, at |-> 0]
StarStmtRef(s, f) == [file |-> f, node |-> "starstmt", place |-> 0, at |-> 2 * s[f].lay]
StarRef(s, f, n)  == [file |-> f, node |-> "def", place |-> Place(s, f, n), at |-> 2 * s[f].lay]
OwnRef(s, f, n)   == [file |-> f, node |-> "def", place |-> Place(s, f, n), at |-> 2 * s[f].lay + 1]
ExternalRef(x)    == [file |-> x, node |-> "external", place |-> 0, at |-> 0]

(* exports_by_name: what a name is bound to at the end of the module.      *)
ExportRef(s, f, n) == IF n \in OwnNames(s, f) THEN OwnRef(s, f, n) ELSE StarRef(s, f, n)

ExportRefs(s, f, n) == IF n \in ExportedNames(s, f) THEN {ExportRef(s, f, n)} ELSE {}

(* file_to_nodes: the module, then the names in the order they are bound;   *)
(* the node of the star statement follows the first name it brings in.      *)
Ranked(S) == [i \in 1 .. Cardinality(S) |->
                CHOOSE n \in S : Cardinality({m \in S : m < n}) = i - 1]

FileNodes(s, f) ==
  LET stars == Ranked(StarNames(s, f))
      own   == Ranked(OwnNames(s, f))
      star(i) == [ref |-> StarRef(s, f, stars[i]), name |-> stars[i], flags |-> {"STAR_REEXPORT"}]
      stmt    == [ref |-> StarStmtRef(s, f), name |-> NoName, flags |-> {}]
  IN  <<[ref |-> ModuleRef(f), name |-> NoName, flags |-> {}]>>
        \o (IF stars = <<>> THEN <<>> ELSE <<star(1), stmt>>)
        \o [i \in 1 .. Len(stars) - 1 |-> star(i + 1)]
        \o [i \in 1 .. Len(own) |-> [ref |-> OwnRef(s, f, own[i]), name |-> own[i], flags |-> {}]]

(* resolution_surface_fp, as the value it hashes.                          *)
Surface(s, f) ==
  IF s[f] = Absent THEN Absent
  ELSE [exports |-> [n \in ExportedNames(s, f) |-> ExportRef(s, f, n)],
        stars   |-> [n \in StarReexports(s, f) |-> s[f].star]]

-----------------------------------------------------------------------------
(* The rows of a file: what each of its nodes refers to, in local terms.   *)
(* A member key is what the resolve cache memoizes on.                     *)

Key(role, m, n)     == [role |-> role, mod |-> m, name |-> n, chain |-> <<>>]
UseKey(m, n, chain) == [role |-> "use", mod |-> m, name |-> n, chain |-> chain]

LocalRow(from, to)   == [src |-> from, dst |-> to,   key |-> Key("local", NoModule, NoName)]
MemberRow(from, key) == [src |-> from, dst |-> from, key |-> key]

ImportAliases(s, f) == {n \in OwnNames(s, f) : s[f].own[n].kind = "import"}
Classes(s, f)       == {n \in OwnNames(s, f) : s[f].own[n].kind = "class"}

(* Who reads which chain: the module for its statements, a class its base. *)
UseSites(s, f) ==
  {<<ModuleRef(f), u>> : u \in {v \in s[f].uses : Head(v) \in ExportedNames(s, f)}}
    \cup {<<OwnRef(s, f, c), <<s[f].own[c].base>>>> :
             c \in {d \in Classes(s, f) : s[f].own[d].base \in ExportedNames(s, f)}}

(* Mutant: the call of a function stays in the chain.                      *)
DenotedKeepingCall(b, steps) ==
  CASE b.kind = "import" -> {UseKey(b.mod, b.name, steps)}
    [] b.kind \in {"variable", "function"} /\ steps # <<>> ->
         {UseKey(v.mod, v.name, v.steps \o steps) : v \in b.denotes}
    [] OTHER -> {}

(* What steps applied to a binding of a file go on to: the upstream of an   *)
(* import alias, or the modules that a variable holds or a function, when   *)
(* it is called, returns.                                                   *)
Denoted(b, steps) ==
  LET through(rest) == {UseKey(v.mod, v.name, v.steps \o rest) : v \in b.denotes}
  IN  CASE b.kind = "import" -> {UseKey(b.mod, b.name, steps)}
        [] b.kind = "variable" /\ steps # <<>> -> through(steps)
        [] b.kind = "function" /\ steps # <<>> /\ steps[1] = Call -> through(Tail(steps))
        [] OTHER -> {}

(* emit_name_use: a use also reaches past a binding that denotes modules.   *)
UpstreamUse(s, f, u) ==
  LET n == Head(u)
  IN  IF n \in OwnNames(s, f) THEN Denoted(s[f].own[n], Tail(u))
      ELSE {UseKey(s[f].star, m, Tail(u)) : m \in {n} \cap StarReexports(s, f)}

Rows(s, f) ==
  {MemberRow(OwnRef(s, f, n), Key("binding", s[f].own[n].mod, s[f].own[n].name)) :
      n \in ImportAliases(s, f)}
    \cup {LocalRow(StarRef(s, f, n), StarStmtRef(s, f)) : n \in StarNames(s, f)}
    \cup (IF StarNames(s, f) = {} THEN {}
          ELSE {MemberRow(StarStmtRef(s, f), Key("binding", s[f].star, NoName))})
    \cup {LocalRow(u[1], ExportRef(s, f, Head(u[2]))) : u \in UseSites(s, f)}
    \cup UNION {{MemberRow(u[1], k) : k \in UpstreamUse(s, f, u[2])} : u \in UseSites(s, f)}

-----------------------------------------------------------------------------
(* Member resolution, with the files whose content it read.                *)

Answer(targets, touched) ==
  [targets |-> targets, unresolved |-> FALSE, start |-> {}, touched |-> touched]

Unresolved(touched) == [Answer({}, touched) EXCEPT !.unresolved = TRUE]

(* walk_exports_chain: from f, hop through star re-exports of n.           *)
ExportsChain(s, f, n) ==
  LET Hops(g) == IF n \in StarReexports(s, g) THEN StarTarget(s, g) ELSE {}
      files   == Within(Cardinality(File), {f}, Hops)
  IN  [refs    |-> UNION {ExportRefs(s, g, n) : g \in {h \in files : Hops(h) = {}}},
       touched |-> files]

(* `from m import n' prefers a name of m over its submodule m.n.           *)
ResolveBinding(s, k) ==
  LET subs    == SubmodulesNamed(s, k.mod, k.name)
      asked   == IF subs # {} /\ Located(s, k.mod) THEN {FileOf(s, k.mod)} ELSE {}
      isDecl  == \E f \in asked : k.name \in ExportedNames(s, f)
      target  == IF subs # {} /\ ~isDecl THEN CHOOSE m \in subs : TRUE ELSE k.mod
      start   == FileOf(s, target)
      chain   == ExportsChain(s, start, k.name)
      bound   == k.name # NoName /\ target = k.mod
  IN  IF target \in External THEN Answer({ExternalRef(target)}, asked)
      ELSE IF ~Located(s, target) THEN Unresolved(asked)
      ELSE [targets    |-> {ModuleRef(start)} \cup (IF bound THEN chain.refs ELSE {}),
            unresolved |-> FALSE,
            start      |-> {start},
            touched    |-> asked \cup (IF bound THEN chain.touched ELSE {})]

(* A use prefers the submodule; then attributes lead from a module to its   *)
(* submodules, as far as there are any.                                     *)
UseTarget(s, k) ==
  LET subs == SubmodulesNamed(s, k.mod, k.name)
  IN  IF subs # {} THEN [mod |-> CHOOSE m \in subs : TRUE, name |-> NoName]
      ELSE [mod |-> k.mod, name |-> k.name]

Walked(s, m, chain) ==
  LET At[i \in 0 .. Len(chain)] ==
        IF i = 0 THEN {m} ELSE UNION {SubmodulesNamed(s, p, chain[i]) : p \in At[i - 1]}
      last == CHOOSE i \in 0 .. Len(chain) : At[i] # {} /\ \A j \in (i + 1) .. Len(chain) : At[j] = {}
  IN  [mod |-> CHOOSE p \in At[last] : TRUE, rest |-> SubSeq(chain, last + 1, Len(chain))]

(* One call of resolve_use_into: what it lands on, and the bindings whose   *)
(* value the rest of the chain is applied to.                               *)
NoLanding == [targets |-> {}, touched |-> {}, bindings |-> {}]

LandingOn(s, m, name, rest) ==
  LET file  == FileOf(s, m)
      asked == name \notin {NoName, Call}
  IN  [targets  |-> {ModuleRef(file)} \cup (IF asked THEN ExportRefs(s, file, name) ELSE {}),
       touched  |-> IF asked THEN {file} ELSE {},
       bindings |-> IF asked /\ name \in OwnNames(s, file)
                    THEN {[file |-> file, name |-> name, rest |-> rest]} ELSE {}]

Landing(s, k) ==
  LET target == UseTarget(s, k)
      walk   == Walked(s, target.mod, k.chain)
  IN  IF target.mod \in External THEN [NoLanding EXCEPT !.targets = {ExternalRef(target.mod)}]
      ELSE IF ~Located(s, target.mod) THEN NoLanding
      ELSE IF target.name # NoName THEN LandingOn(s, target.mod, target.name, k.chain)
      ELSE IF walk.rest = <<>> THEN LandingOn(s, walk.mod, NoName, <<>>)
      ELSE LandingOn(s, walk.mod, Head(walk.rest), Tail(walk.rest))

(* splice_through: nothing for a name that a star import brings in.         *)
SpliceThrough(s, k) ==
  UNION {Denoted(s[b.file].own[b.name], b.rest) :
           b \in {c \in Landing(s, k).bindings : c.rest # <<>>}}

ResolveUse(s, k) ==
  LET Splice(h) == SpliceThrough(s, h)
      landings  == {Landing(s, h) : h \in Within(UseSpliceDepthCap, {k}, Splice)}
  IN  Answer(UNION {x.targets : x \in landings}, UNION {x.touched : x \in landings})

Resolve(k, s) == IF k.role = "binding" THEN ResolveBinding(s, k) ELSE ResolveUse(s, k)

-----------------------------------------------------------------------------
(* Class bases.  MemberHop is one step of resolve_member_in_file: where    *)
(* the binding of n in f sends the search when it is not a class itself.   *)

ModuleMember(s, f, n) ==
  IF n \in ImportAliases(s, f) /\ s[f].own[n].name # NoName
    THEN {Key("class", s[f].own[n].mod, s[f].own[n].name)}
  ELSE IF n \in StarReexports(s, f) THEN {Key("class", s[f].star, n)}
  ELSE {}

MemberHop(s, at) ==
  {<<FileOf(s, k.mod), k.name>> :
     k \in {h \in ModuleMember(s, at[1], at[2]) : Located(s, h.mod)}}

ResolveClass(k, s) ==
  LET Hop(at) == MemberHop(s, at)
      start   == {<<FileOf(s, m), k.name>> : m \in {k.mod} \cap {n \in Module : Located(s, n)}}
      walk    == Within(Cardinality(File) * Cardinality(Name), start, Hop)
  IN  [targets |-> {OwnRef(s, at[1], at[2]) : at \in {w \in walk : w[2] \in Classes(s, w[1])}},
       touched |-> {at[1] : at \in walk}]

(* The class_bases payload that needs the memo, and the whole hierarchy.   *)
ClassRows(s, f) ==
  UNION {{[child |-> OwnRef(s, f, c), key |-> k] : k \in ModuleMember(s, f, s[f].own[c].base)} :
            c \in Classes(s, f)}
=============================================================================
