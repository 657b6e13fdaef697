------------------------------ MODULE BranchSyntax ------------------------------
(***************************************************************************)
(* The syntax half of detect_dead_ranges (src/runtime/src/helpers.rs):     *)
(* what a scope binds, what is known of an expression, which statements    *)
(* end their suite, and the walk that marks what no execution should       *)
(* reach; the parameters of DeadBranches.                                  *)
(*                                                                         *)
(* Statement i of a suite at path p is at p \o <<i>>, and its block b at   *)
(* p \o <<i, b>>; the range of a statement or a clause is its path.        *)
(***************************************************************************)
EXTENDS PythonSyntax
LOCAL INSTANCE SequencesExt

-----------------------------------------------------------------------------
(* Constant folding.                                                       *)

(* evaluate_truthiness: `or' is true as soon as one part is, wherever.      *)
RECURSIVE Truth(_, _)
Truth(e, table) ==
  LET parts == {Truth(e.parts[k], table) : k \in DOMAIN e.parts}
  IN  CASE e.is = "true"  -> {TRUE}
        [] e.is = "false" -> {FALSE}
        [] e.is = "list"  -> {e.parts # <<>>}
        [] e.is = "name"  -> IF e.text \in DOMAIN table THEN {table[e.text]} ELSE BOOLEAN
        [] e.is = "named" -> UNION parts
        [] e.is = "not"   -> {~v : v \in UNION parts}
        [] e.is = "or"    -> IF {TRUE} \in parts THEN {TRUE} ELSE UNION parts
        [] e.is = "and"   -> IF {FALSE} \in parts THEN {FALSE} ELSE UNION parts
        [] OTHER -> BOOLEAN

-----------------------------------------------------------------------------
(* The table of a scope.                                                   *)

(* collect_walrus_in_expr.                                                  *)
RECURSIVE Walruses(_)
Walruses(e) ==
  LET own == IF e.is = "named" THEN <<[name |-> e.text, value |-> e.parts[1]]>> ELSE <<>>
  IN  IF e.is \in {"named", "or", "and", "not", "plus", "eq"}
      THEN own \o FlattenSeq([k \in DOMAIN e.parts |-> Walruses(e.parts[k])])
      ELSE <<>>

(* collect_scope_bindings: the scope's own statements and not their blocks. *)
BindingsOf(s) ==
  CASE s.is = "assign" ->
         (IF Len(s.exprs) = 2 /\ s.exprs[2].is = "store"
          THEN <<[name |-> s.exprs[2].text, value |-> s.exprs[1]]>> ELSE <<>>) \o Walruses(s.exprs[1])
    [] s.is \in {"expr", "if", "while", "return"} /\ s.exprs # <<>> -> Walruses(s.exprs[1])
    [] OTHER -> <<>>

Bindings(suite) == ToSet(FlattenSeq([i \in DOMAIN suite |-> BindingsOf(suite[i])]))
BoundNames(suite) == {b.name : b \in Bindings(suite)}

(* What the bindings of a name agree on.                                    *)
Agreed(suite, name, table) ==
  LET truths == {Truth(b.value, table) : b \in {c \in Bindings(suite) : c.name = name}}
  IN  IF Cardinality(truths) = 1 THEN UNION truths ELSE BOOLEAN

(* The suite of the scope that a path names: the module, or a def's body.   *)
RECURSIVE SuiteAt(_, _)
SuiteAt(suite, at) ==
  IF at = <<>> THEN suite ELSE SuiteAt(suite[at[1]].blocks[at[2]], SubSeq(at, 3, Len(at)))

-----------------------------------------------------------------------------
(* The walk.                                                               *)

RECURSIVE Terminates(_, _)

SuiteTerminates(suite, table) == \E i \in DOMAIN suite : Terminates(suite[i], table)

(* Mutant: an if needs no else.                                             *)
IfTerminatesWithoutElse(s, table) ==
  LET test == Truth(s.exprs[1], table)
  IN  \/ test = {TRUE} /\ SuiteTerminates(s.blocks[1], table)
      \/ /\ test # {TRUE}
         /\ test = {FALSE} \/ SuiteTerminates(s.blocks[1], table)
         /\ \A b \in 2 .. Len(s.blocks) : SuiteTerminates(s.blocks[b], table)

(* An if that is always taken, or every branch of one that has an else.     *)
IfTerminates(s, table) ==
  LET test == Truth(s.exprs[1], table)
  IN  \/ test = {TRUE} /\ SuiteTerminates(s.blocks[1], table)
      \/ /\ test # {TRUE}
         /\ Len(s.blocks) > Len(s.exprs)
         /\ test = {FALSE} \/ SuiteTerminates(s.blocks[1], table)
         /\ \A b \in 2 .. Len(s.blocks) : SuiteTerminates(s.blocks[b], table)

(* The body and every handler of a try, whatever its else.                  *)
TryTerminates(s, table) ==
  \/ SuiteTerminates(s.blocks[Len(s.blocks)], table)
  \/ \A b \in 1 .. (Len(s.blocks) - 2) : SuiteTerminates(s.blocks[b], table)

(* stmt_is_terminator.                                                      *)
Terminates(s, table) ==
  \/ s.is \in {"return", "raise", "break", "continue"}
  \/ s.is = "assert" /\ Truth(s.exprs[1], table) = {FALSE}
  \/ s.is = "if" /\ IfTerminates(s, table)
  \/ s.is = "with" /\ SuiteTerminates(s.blocks[1], table)
  \/ s.is = "try" /\ TryTerminates(s, table)

DeadRange(at) == [is |-> "dead", at |-> at]
Scope(at) == [is |-> "scope", at |-> at]

(* walk_suite_for_dead and walk_compound_for_dead: the dead ranges of a     *)
(* suite, and the scopes in it, each of which the code walks on the spot;   *)
(* they share nothing but the enclosing table.                              *)
RECURSIVE Walk(_, _, _)
Walk(suite, p, table) ==
  LET dropped(block, at) == {DeadRange(Append(at, i)) : i \in DOMAIN block}
      killed(i) == SuiteTerminates(SubSeq(suite, 1, i - 1), table)
      compound(s, at) ==
        LET block(b)  == Append(at, b)
            walk(b)   == Walk(s.blocks[b], block(b), table)
            test(b)   == IF b \in DOMAIN s.exprs THEN Truth(s.exprs[b], table) ELSE BOOLEAN
            taken(b)  == \E a \in 1 .. (b - 1) : test(a) = {TRUE}
        IN  CASE s.is = "if" ->
                   UNION {IF taken(b) THEN {DeadRange(block(b))}
                          ELSE IF test(b) = {FALSE} THEN dropped(s.blocks[b], block(b)) ELSE walk(b)
                          : b \in DOMAIN s.blocks}
              [] s.is = "while" ->
                   (IF test(1) = {FALSE} THEN dropped(s.blocks[1], block(1)) ELSE walk(1))
                     \cup (IF test(1) = {TRUE} THEN dropped(s.blocks[2], block(2)) ELSE walk(2))
              [] s.is \in {"def", "class"} -> {Scope(block(1))}
              [] OTHER -> UNION {walk(b) : b \in DOMAIN s.blocks}
  IN  UNION {IF killed(i) THEN {DeadRange(Append(p, i))} ELSE compound(suite[i], Append(p, i)) : i \in DOMAIN suite}

-----------------------------------------------------------------------------
(* The scopes of a program, by their paths.                                *)

RECURSIVE ScopesUnder(_, _)
ScopesUnder(suite, p) ==
  UNION {UNION {LET at == p \o <<i, b>>
                IN  ScopesUnder(suite[i].blocks[b], at) \cup IF suite[i].is \in {"def", "class"} THEN {at} ELSE {}
                : b \in DOMAIN suite[i].blocks} : i \in DOMAIN suite}

ScopesAt(program) == {<<>>} \cup ScopesUnder(program, <<>>)

NamesAt(program, at)               == BoundNames(SuiteAt(program, at))
AgreedAt(program, at, name, table) == Agreed(SuiteAt(program, at), name, table)
WalkAt(program, at, table)         == Walk(SuiteAt(program, at), at, table)
=============================================================================
