------------------------------- MODULE PythonRuns -------------------------------
(***************************************************************************)
(* What may run in a module: the reference the dead regions of             *)
(* DeadBranches are held against.  It is Python's semantics, not code of   *)
(* this repository: statements run in order, any of them may raise, a      *)
(* function that was defined may be called at any time.                    *)
(*                                                                         *)
(* An environment gives each name "true", "false", "any" (a list, which    *)
(* may grow and shrink) or "unbound"; what a call returns, an argument or  *)
(* a loop's variable is one of the first two.  Assumed: context managers   *)
(* do not suppress exceptions, and assertions are on.  Left out: classes,  *)
(* global and nonlocal, match, generators.                                 *)
(***************************************************************************)
EXTENDS PythonSyntax
LOCAL INSTANCE SequencesExt

Truths(value) == CASE value \in {"true", "full"} -> {TRUE}
                   [] value \in {"false", "empty"} -> {FALSE}
                   [] OTHER -> BOOLEAN

(* A list that has a name can change; one that was just written cannot.     *)
Bound(env, name, value) == [env EXCEPT ![name] = IF value \in {"full", "empty"} THEN "any" ELSE value]

(* The values of e and the environments it leaves; none where a name is     *)
(* unbound.                                                                 *)
RECURSIVE Eval(_, _)
Eval(e, env) ==
  LET part(k, v) == Eval(e.parts[k], v)
      now(r, truth) == <<IF r[1] # "any" THEN r[1] ELSE IF truth THEN "full" ELSE "empty", r[2]>>
      else(r, stop) ==
        (IF stop \in Truths(r[1]) THEN {now(r, stop)} ELSE {}) \cup (IF ~stop \in Truths(r[1]) THEN part(2, r[2]) ELSE {})
  IN  CASE e.is \in {"true", "false"} -> {<<e.is, env>>}
        [] e.is = "list" -> {<<IF e.parts = <<>> THEN "empty" ELSE "full", env>>}
        [] e.is = "name" -> IF env[e.text] = "unbound" THEN {} ELSE {<<env[e.text], env>>}
        [] e.is = "named" -> {<<r[1], Bound(r[2], e.text, r[1])>> : r \in part(1, env)}
        [] e.is = "not" -> UNION {{<<IF t THEN "false" ELSE "true", r[2]>> : t \in Truths(r[1])} : r \in part(1, env)}
        [] e.is = "or"  -> UNION {else(r, TRUE) : r \in part(1, env)}
        [] e.is = "and" -> UNION {else(r, FALSE) : r \in part(1, env)}
        [] OTHER ->
             {"true", "false"} \X FoldLeft(LAMBDA envs, a : {r[2] : r \in UNION {Eval(a, v) : v \in envs}}, {env}, e.parts)

Results(e, envs) == UNION {Eval(e, v) : v \in envs}
After(e, envs)   == {r[2] : r \in Results(e, envs)}
When(test, truth, envs) == {r[2] : r \in {x \in Results(test, envs) : truth \in Truths(x[1])}}

(* A run, as the set of what it reaches, <<"at", path, environment>>, and   *)
(* of how it ends, <<how, <<>>, environment>>.                              *)
At(path, envs)   == {<<"at", path, v>> : v \in envs}
Ends(how, envs)  == {<<how, <<>>, v>> : v \in envs}
Left(run, hows)  == {x[3] : x \in {y \in run : y[1] \in hows}}
Minus(run, hows) == {x \in run : x[1] \notin hows}
Pending == {"next", "return", "raise", "break", "continue"}

RECURSIVE RunFrom(_, _, _, _), RunStmt(_, _, _), Clauses(_, _, _, _), Loop(_, _, _)

RunFrom(suite, p, i, envs) ==
  IF i > Len(suite) THEN Ends("next", envs)
  ELSE LET run == RunStmt(suite[i], Append(p, i), envs)
       IN  Minus(run, {"next"}) \cup IF Left(run, {"next"}) = {} THEN {} ELSE RunFrom(suite, p, i + 1, Left(run, {"next"}))

Run(suite, p, envs) == IF envs = {} THEN {} ELSE RunFrom(suite, p, 1, envs)

(* The clauses of an if from the b-th on, when the tests before it failed.  *)
Clauses(s, at, b, envs) ==
  IF b > Len(s.blocks) THEN Ends("next", envs)
  ELSE At(Append(at, b), envs) \cup
       IF b \notin DOMAIN s.exprs THEN Run(s.blocks[b], Append(at, b), envs)
       ELSE Run(s.blocks[b], Append(at, b), When(s.exprs[b], TRUE, envs))
              \cup Clauses(s, at, b + 1, When(s.exprs[b], FALSE, envs))

(* A loop, from the environments its head is known to see: to the head come *)
(* those its body ends or continues in, too.                                *)
Loop(s, at, head) ==
  LET body  == Run(s.blocks[1], Append(at, 1),
                   IF s.is = "while" THEN When(s.exprs[1], TRUE, head)
                   ELSE {Bound(v, s.exprs[2].text, t) : v \in head, t \in {"true", "false"}})
      again == Left(body, {"next", "continue"}) \ head
  IN  IF again # {} THEN Loop(s, at, head \cup again)
      ELSE Minus(body, {"next", "continue", "break"}) \cup Ends("next", Left(body, {"break"}))
             \cup Run(s.blocks[2], Append(at, 2),
                      IF s.is = "while" THEN When(s.exprs[1], FALSE, head) ELSE head)

RECURSIVE StoredIn(_, _, _)
StoredIn(env, targets, value) ==
  IF targets = <<>> THEN env ELSE StoredIn(Bound(env, Head(targets).text, value), Tail(targets), value)

RunStmt(s, at, envs) ==
  LET n        == Len(s.blocks)
      block(b, from) == Run(s.blocks[b], Append(at, b), from)
      body     == block(1, envs)
      tries    == Minus(body, {"next"}) \cup UNION {block(b, Left(body, {"raise"})) : b \in 2 .. (n - 2)}
                    \cup block(n - 1, Left(body, {"next"}))
      finally(how) == LET run == block(n, Left(tries, {how}))
                      IN  Minus(run, {"next"}) \cup Ends(how, Left(run, {"next"}))
  IN  At(at, envs) \cup Ends("raise", envs) \cup
      CASE s.is = "assign" ->
             Ends("next", {StoredIn(r[2], Tail(s.exprs), r[1]) : r \in Results(s.exprs[1], envs)})
        [] s.is = "expr" -> Ends("next", After(s.exprs[1], envs))
        [] s.is \in {"return", "raise", "break", "continue"} -> Ends(s.is, envs)
        [] s.is = "assert" -> Ends("next", When(s.exprs[1], TRUE, envs))
        [] s.is = "if" -> Clauses(s, at, 1, envs)
        [] s.is \in {"while", "for"} -> Loop(s, at, envs)
        [] s.is = "with" -> body
        [] s.is = "try" -> Minus(tries, Pending) \cup UNION {finally(how) : how \in Pending}
        [] s.is = "def" -> Ends("next", {Bound(v, s.name, "true") : v \in envs})

-----------------------------------------------------------------------------
(* Functions.                                                              *)

(* The statements of a scope: those of its suite and of the blocks in it,   *)
(* but not those of its functions.                                          *)
RECURSIVE Own(_)
Own(suite) ==
  FlattenSeq([i \in DOMAIN suite |->
    <<suite[i]>> \o IF suite[i].is \in {"def", "class"} THEN <<>>
                    ELSE FlattenSeq([b \in DOMAIN suite[i].blocks |-> Own(suite[i].blocks[b])])])

(* The names a statement binds, and those its scope does, each as often.    *)
Binds(s) ==
  LET binds == SelectSeq(FlattenSeq([j \in DOMAIN s.exprs |-> Within(s.exprs[j])]), LAMBDA e : e.is \in {"store", "named"})
  IN  (IF s.is = "def" THEN <<s.name>> ELSE <<>>) \o [j \in DOMAIN binds |-> binds[j].text]

Binders(suite) == LET own == Own(suite) IN FlattenSeq([i \in DOMAIN own |-> Binds(own[i])])

Called(def, envs) ==
  LET params == ToSet(def.params)
      locals == ToSet(Binders(def.blocks[1]))
  IN  {[n \in DOMAIN v |-> IF n \in params THEN args[n] ELSE IF n \in locals THEN "unbound" ELSE v[n]] :
         v \in envs, args \in [params -> {"true", "false"}]}

(* The statements and clauses that may be reached.                          *)
RECURSIVE Reached(_, _, _)
Reached(suite, p, starts) ==
  LET run   == Run(suite, p, starts)
      seen  == {x[3] : x \in run}
      paths == {x[2] : x \in run} \ {<<>>}
      RECURSIVE within(_, _, _)
      within(stmts, q, calls) ==
        UNION {LET s == stmts[i]
                   at == Append(q, i)
               IN  IF at \notin calls THEN {}
                   ELSE IF s.is = "def" THEN Reached(s.blocks[1], Append(at, 1), Called(s, seen))
                   ELSE UNION {within(s.blocks[b], Append(at, b), calls) : b \in DOMAIN s.blocks}
               : i \in DOMAIN stmts}
  IN  paths \cup within(suite, p, paths)

NamesOf(suite) ==
  LET all   == FlattenSeq([i \in DOMAIN suite |-> Statements(suite[i])])
      exprs == BlockExprs(suite)
  IN  {all[i].name : i \in {j \in DOMAIN all : all[j].is = "def"}} \cup UNION {ToSet(all[i].params) : i \in DOMAIN all}
        \cup {exprs[i].text : i \in {j \in DOMAIN exprs : exprs[j].is \in {"name", "store", "named"}}}

MayRun(program) == Reached(program, <<>>, {[n \in NamesOf(program) |-> "unbound"]})
=============================================================================
