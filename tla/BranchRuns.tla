------------------------------- MODULE BranchRuns -------------------------------
(***************************************************************************)
(* DeadBranches over the syntax of BranchSyntax: when its loop ends, and   *)
(* what it marks dead against what Python may run.                         *)
(***************************************************************************)
EXTENDS DeadBranches, BranchSyntax, PythonRuns
LOCAL INSTANCE SequencesExt

(* It does in a module, and in its functions when they bind at most two     *)
(* names each: a name that flips is dropped for good.                       *)
FunctionsBindTwo ==
  LET all == FlattenSeq([i \in DOMAIN program |-> Statements(program[i])])
  IN  \A i \in DOMAIN all : all[i].is = "def" => Cardinality(BoundNames(all[i].blocks[1])) <= 2

SmallScopesSettle == FunctionsBindTwo => EveryScopeSettles

(* A name whose bindings the table saw, all of them, and which no list      *)
(* is bound to.  The others, bound in a nested block, as a loop's variable, *)
(* by a parameter or an import, are what build_scope_table leaves out.      *)
FullySeen(suite, params, n) ==
  /\ n \notin ToSet(params)
  /\ Len(SelectSeq(Binders(suite), LAMBDA m : m = n)) =
       Len(SelectSeq(FlattenSeq([i \in DOMAIN suite |-> BindingsOf(suite[i])]), LAMBDA b : b.name = n))
  /\ \A b \in Bindings(suite) : b.name = n => ~\E i \in DOMAIN Within(b.value) : Within(b.value)[i].is = "list"

RECURSIVE DefAt(_, _)
DefAt(suite, at) ==
  LET s == suite[at[1]] IN IF Len(at) = 2 THEN s ELSE DefAt(s.blocks[at[2]], SubSeq(at, 3, Len(at)))

TablesSeeAll ==
  \A at \in DOMAIN tables : \A n \in DOMAIN tables[at] :
     IF at = <<>> THEN FullySeen(program, <<>>, n)
     ELSE FullySeen(SuiteAt(program, at), DefAt(program, at).params, n)

(* No statement or clause that may run is marked dead, where the tables saw *)
(* every binding of the names they hold.                                    *)
NothingDeadRuns ==
  Done /\ TablesSeeAll =>
    \A at \in MayRun(program) : ~\E d \in dead : IsPrefix(d, at)
=============================================================================
