------------------------------- MODULE NameReads -------------------------------
(***************************************************************************)
(* What reading a chain of names looks up when Python runs it, as the      *)
(* reference that the resolution of uses (resolve_use, emit_name_use) is   *)
(* compared with.                                                          *)
(*                                                                         *)
(* A value is a module or the thing a binding defines.  Names that a star  *)
(* import brings in have no value here: splice_through does not follow     *)
(* them, "anything else: nothing".                                         *)
(***************************************************************************)
EXTENDS ResolutionTables

ModuleObject(m)  == [is |-> "module", mod |-> m]
Object(f, n)     == [is |-> "object", file |-> f, name |-> n]

(* The values of a binding, of member n of module m, and of a chain applied *)
(* to values, in at most `fuel' imports and calls.                          *)
RECURSIVE ValuesOf(_, _, _, _), Members(_, _, _, _), Applied(_, _, _, _)

(* The modules or members that a variable holds, or a function returns.     *)
Held(s, fuel, b) ==
  UNION {Applied(s, fuel,
                 IF v.name = NoName THEN {ModuleObject(v.mod)} ELSE Members(s, fuel, v.mod, v.name),
                 v.steps) : v \in b.denotes}

ValuesOf(s, fuel, f, n) ==
  LET b == s[f].own[n]
  IN  IF fuel = 0 \/ n \notin OwnNames(s, f) THEN {}
      ELSE CASE b.kind = "variable" -> Held(s, fuel - 1, b)
             [] b.kind = "import" /\ b.name = NoName -> {ModuleObject(b.mod)}
             [] b.kind = "import" /\ b.name # NoName -> Members(s, fuel - 1, b.mod, b.name)
             [] OTHER -> {Object(f, n)}

Members(s, fuel, m, n) ==
  IF ~Located(s, m) THEN {}
  ELSE IF n \in ExportedNames(s, FileOf(s, m)) THEN ValuesOf(s, fuel, FileOf(s, m), n)
  ELSE {ModuleObject(sub) : sub \in SubmodulesNamed(s, m, n)}

Step(s, fuel, v, step) ==
  IF v.is = "module" THEN IF step = Call THEN {} ELSE Members(s, fuel, v.mod, step)
  ELSE LET b == s[v.file].own[v.name]
       IN  IF step = Call /\ b.kind = "function" /\ fuel > 0 THEN Held(s, fuel - 1, b) ELSE {}

Applied(s, fuel, values, steps) ==
  IF steps = <<>> THEN values
  ELSE Applied(s, fuel, UNION {Step(s, fuel, v, Head(steps)) : v \in values}, Tail(steps))

Fuel == Cardinality(File) + 1

(* The names a chain looks up in modules when file f reads it.              *)
LookedUp(s, f, u) ==
  UNION {{<<v.mod, u[i + 1]>> :
            v \in {w \in Applied(s, Fuel, ValuesOf(s, Fuel, f, Head(u)), SubSeq(u, 2, i)) : w.is = "module"}}
         : i \in 1 .. (Len(u) - 1)}

(* What they are bound to.                                                  *)
NeedsOf(s, f) ==
  {ExportRef(s, FileOf(s, x[1]), x[2]) :
     x \in {y \in UNION {LookedUp(s, f, u) : u \in s[f].uses} :
              Located(s, y[1]) /\ y[2] \in ExportedNames(s, FileOf(s, y[1]))}}

NeedsTable == Table([s \in Sources |-> Table([f \in Present(s) |-> NeedsOf(s, f)])])

(* A package that defines the name of one of its submodules: the use lands  *)
(* on the submodule, Python on what the package bound.                      *)
NamesClash(s) ==
  \E x \in Submodule : Located(s, x.pkg) /\ Located(s, x.mod) /\ x.name \in ExportedNames(s, FileOf(s, x.pkg))

NeedsAreMet ==
  \A f \in Present(src) :
    NeedsTable[src][f] \subseteq
      UNION {cache.memo[r.key].targets :
               r \in {q \in cache.rows[f] : q.src = ModuleRef(f) /\ q.key.role # "local"}}

(* Whatever a module's statements look up in other modules when they run,   *)
(* through re-exports, variables that hold modules and functions that       *)
(* return them, the module refers to in the graph after every build,        *)
(* incremental or full: no code that is read looks unused (resolve_use:     *)
(* "the chain lands on a decl that itself denotes a module").               *)
ReadsAreResolved ==
  cache.valid /\ scope = Settled /\ ~NamesClash(src) => NeedsAreMet

(* The same wherever names clash (MemberRole::Use: "resolution lands on     *)
(* whatever is in the upstream namespace").                                 *)
UsesLandInTheNamespace == cache.valid /\ scope = Settled => NeedsAreMet
=============================================================================
