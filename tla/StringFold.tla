------------------------------- MODULE StringFold -------------------------------
(***************************************************************************)
(* Which expressions are strings that are known before the program runs    *)
(* (src/runtime/src/string_fold.rs).  A string is a sequence of atoms, and *)
(* an optional one the set of at most one.  A context has the value of     *)
(* __name__, the module's constants and the names shadowing them.          *)
(***************************************************************************)
EXTENDS PythonSyntax
LOCAL INSTANCE SequencesExt

Dunder == <<"__name__">>
NoConstants == [n \in {} |-> <<>>]
LiteralOnly == [module |-> {}, constants |-> NoConstants, shadowed |-> {}]
WithShadowed(ctx, names) == [ctx EXCEPT !.shadowed = names]

Lookup(ctx, name) ==
  IF name \in ctx.shadowed THEN {}
  ELSE IF name = Dunder THEN ctx.module
       ELSE {ctx.constants[n] : n \in {name} \cap DOMAIN ctx.constants}

Joined(left, right) == {l \o r : l \in left, r \in right}

(* fold_string_expr with fold_into and fold_interpolation.                  *)
RECURSIVE Fold(_, _)
Fold(e, ctx) ==
  CASE e.is = "str" -> {e.text}
    [] e.is = "name" -> Lookup(ctx, e.text)
    [] e.is \in {"plus", "fstr", "hole"} -> FoldLeft(LAMBDA text, part : Joined(text, Fold(part, ctx)), {<<>>}, e.parts)
    [] OTHER -> {}

FoldList(e, ctx) ==
  IF e.is = "list" /\ \A i \in DOMAIN e.parts : Fold(e.parts[i], ctx) # {}
  THEN {[i \in DOMAIN e.parts |-> CHOOSE s \in Fold(e.parts[i], ctx) : TRUE]}
  ELSE {}

-----------------------------------------------------------------------------
(* The constants of a module.                                              *)

(* helpers::top_level_assign_to_name: the statement assigns one bare name.  *)
AssignsName(stmt) == stmt.is = "assign" /\ Len(stmt.exprs) = 2 /\ stmt.exprs[2].is = "store"
Target(stmt) == stmt.exprs[2].text
Value(stmt) == stmt.exprs[1]

AliasLocals(stmt) == [k \in DOMAIN stmt.names |-> stmt.names[k].local]
StoredNames(stmt) == [k \in DOMAIN Stores(stmt) |-> Stores(stmt)[k].text]

(* TopLevelBinder: a handler's name is no expression and is not visited.    *)
RECURSIVE BoundAtTop(_)
BoundAtTop(stmt) ==
  CASE stmt.is \in {"def", "class"} -> <<stmt.name>>
    [] stmt.is \in {"import", "from"} -> AliasLocals(stmt)
    [] OTHER -> StoredNames(stmt) \o
                FlattenSeq([b \in DOMAIN stmt.blocks |->
                  FlattenSeq([i \in DOMAIN stmt.blocks[b] |-> BoundAtTop(stmt.blocks[b][i])])])

(* GlobalCollector.                                                         *)
GlobalNames(body) ==
  UNION {UNION {ToSet(AliasLocals(s)) : s \in {t \in ToSet(Statements(body[i])) : t.is = "global"}} : i \in DOMAIN body}

(* Mutant: what functions declare global is not looked at.                  *)
CandidatesDespiteGlobals(body) ==
  LET bound == FlattenSeq([i \in DOMAIN body |-> BoundAtTop(body[i])])
      once(name) == Cardinality({k \in DOMAIN bound : bound[k] = name}) = 1
  IN  {i \in DOMAIN body : AssignsName(body[i]) /\ once(Target(body[i]))}

Candidates(body) ==
  LET bound == FlattenSeq([i \in DOMAIN body |-> BoundAtTop(body[i])])
      once(name) == Cardinality({k \in DOMAIN bound : bound[k] = name}) = 1
  IN  {i \in DOMAIN body : /\ AssignsName(body[i]) /\ once(Target(body[i]))
                           /\ Target(body[i]) \notin GlobalNames(body)}

(* Each pass folds what is pending with what the passes before resolved.    *)
RECURSIVE Resolved(_, _, _, _)
Resolved(body, module, constants, pending) ==
  LET ctx   == [LiteralOnly EXCEPT !.module = module, !.constants = constants]
      newly == {i \in pending : Fold(Value(body[i]), ctx) # {}}
      more  == [name \in {Target(body[i]) : i \in newly} |->
                  CHOOSE s \in Fold(Value(body[CHOOSE i \in newly : Target(body[i]) = name]), ctx) : TRUE]
      next  == [name \in DOMAIN constants \cup DOMAIN more |-> IF name \in DOMAIN more THEN more[name] ELSE constants[name]]
  IN  IF newly = {} \/ newly = pending THEN next ELSE Resolved(body, module, next, pending \ newly)

Constants(body, module) == Resolved(body, module, NoConstants, Candidates(body))

(* scope_bound_names: whatever a def or class and all within it bind.       *)
ScopeNames(stmt) ==
  LET binds(s) == CASE s.is = "def" -> {s.name} \cup ToSet(s.params)
                    [] s.is \in {"class", "try"} -> {s.name}
                    [] s.is \in {"import", "from"} -> ToSet(AliasLocals(s))
                    [] OTHER -> {}
  IN  UNION {binds(s) \cup ToSet(StoredNames(s)) : s \in ToSet(Statements(stmt))}
=============================================================================
