------------------------------ MODULE DeadBranches ------------------------------
(***************************************************************************)
(* The statically dead regions of a file (detect_dead_ranges,              *)
(* src/runtime/src/helpers.rs): which names are known to be true or false  *)
(* in a scope, found by visiting the scope's bindings again and again in   *)
(* the order of a hash map, and the ranges the walk then marks dead.       *)
(*                                                                         *)
(* What a scope binds, what its bindings agree on and what the walk finds  *)
(* are parameters here, put in place by BranchSyntax.  A scope goes by its *)
(* path; what is known of an expression is the set of truth values it may  *)
(* have.                                                                   *)
(***************************************************************************)
EXTENDS Naturals, FiniteSets, SequencesExt

CONSTANTS
  Programs,              \* the modules there are
  ScopesIn(_),           \* the paths of a program's scopes, <<>> the module's own
  NamesIn(_, _),         \* the names a scope binds
  AgreedIn(_, _, _, _),  \* what the bindings of a name agree on, given a table
  WalkIn(_, _, _)        \* the dead ranges in a scope, and the scopes in it

(* The tables there can be: what is known of the names.                     *)
TablesOver(names) == UNION {[known -> BOOLEAN] : known \in SUBSET names}
TablesIn(p)       == TablesOver(UNION {NamesIn(p, at) : at \in ScopesIn(p)})

ASSUME ScopesAssumption ==
  \A p \in Programs :
    /\ <<>> \in ScopesIn(p)
    /\ \A at \in ScopesIn(p) : IsFiniteSet(NamesIn(p, at))

(* Bindings that agree on nothing leave both values open; the walk of a     *)
(* scope meets the scopes inside it.                                        *)
ASSUME SyntaxAssumption ==
  \A p \in Programs : \A at \in ScopesIn(p) : \A table \in TablesIn(p) :
    /\ \A n \in NamesIn(p, at) : AgreedIn(p, at, n, table) \in {{TRUE}, {FALSE}, BOOLEAN}
    /\ IsFiniteSet(WalkIn(p, at, table))
    /\ \A x \in WalkIn(p, at, table) : x.is = "scope" => x.at \in ScopesIn(p) \ {<<>>}

Knows(more, table) == \A n \in DOMAIN table : n \in DOMAIN more /\ more[n] = table[n]

(* Who knows more names finds no expression true or false that was the      *)
(* other before: evaluate_truthiness guesses nothing.                       *)
ASSUME NothingIsGuessed ==
  \A p \in Programs : \A table, more \in TablesOver(NamesIn(p, <<>>)) :
    Knows(more, table) =>
      \A n \in NamesIn(p, <<>>) : AgreedIn(p, <<>>, n, more) \subseteq AgreedIn(p, <<>>, n, table)

VARIABLES
  program,   \* the module's suite
  pending,   \* the scopes whose table is to be built: [at, enclosing], the next one first
  scan,      \* the table being built: [at, table, poisoned, order, next, changed], or NoScan
  tables,    \* the tables that are built, by the paths of their scopes
  dead       \* the dead ranges found so far

vars == <<program, pending, scan, tables, dead>>

Empty == [n \in {} |-> TRUE]
NoScan == [at |-> <<>>, table |-> Empty, poisoned |-> {}, order |-> <<>>, next |-> 0, changed |-> FALSE]

Put(table, n, v) == [m \in DOMAIN table \cup {n} |-> IF m = n THEN v ELSE table[m]]
Drop(table, n)   == [m \in DOMAIN table \ {n} |-> table[m]]

Known(truth) == Cardinality(truth) = 1
ValueOf(truth) == CHOOSE v \in truth : TRUE

-----------------------------------------------------------------------------
(* build_scope_table.                                                      *)

Orders(names) == {o \in [1 .. Cardinality(names) -> names] : \A i, j \in DOMAIN o : o[i] = o[j] => i = j}

Begin ==
  /\ scan = NoScan /\ pending # <<>>
  /\ \E order \in Orders(NamesIn(program, Head(pending).at)) :
       scan' = [at |-> Head(pending).at, table |-> Head(pending).enclosing, poisoned |-> {},
                order |-> order, next |-> 1, changed |-> FALSE]
  /\ pending' = Tail(pending)
  /\ UNCHANGED <<program, tables, dead>>

(* Mutant: a name whose value flips takes the new value.                    *)
FoldedFlipping(name, agreed) ==
  LET table == scan.table
      put   == Known(agreed) /\ (name \notin DOMAIN table \/ {table[name]} # agreed)
      drop  == ~Known(agreed) /\ name \in DOMAIN table
  IN  [scan EXCEPT !.next = @ + 1, !.changed = @ \/ put \/ drop,
         !.table = IF put THEN Put(table, name, ValueOf(agreed)) ELSE IF drop THEN Drop(table, name) ELSE table]

(* Mutant: a name that gets a value calls for no other round.               *)
FoldedUnnoticed(name, agreed) ==
  LET table == scan.table
      new   == Known(agreed) /\ name \notin DOMAIN table
      flips == Known(agreed) /\ name \in DOMAIN table /\ {table[name]} # agreed
      lost  == ~Known(agreed) /\ name \in DOMAIN table
  IN  [scan EXCEPT !.next = @ + 1, !.changed = @ \/ flips \/ lost,
         !.poisoned = IF flips THEN @ \cup {name} ELSE @,
         !.table = IF new THEN Put(table, name, ValueOf(agreed))
                   ELSE IF flips \/ lost THEN Drop(table, name) ELSE table]

(* A name that gets a value, flips or loses it.                             *)
Folded(name, agreed) ==
  LET table == scan.table
      new   == Known(agreed) /\ name \notin DOMAIN table
      flips == Known(agreed) /\ name \in DOMAIN table /\ {table[name]} # agreed
      lost  == ~Known(agreed) /\ name \in DOMAIN table
  IN  [scan EXCEPT !.next = @ + 1, !.changed = @ \/ new \/ flips \/ lost,
         !.poisoned = IF flips THEN @ \cup {name} ELSE @,
         !.table = IF new THEN Put(table, name, ValueOf(agreed))
                   ELSE IF flips \/ lost THEN Drop(table, name) ELSE table]

Visit ==
  /\ scan # NoScan /\ scan.next <= Len(scan.order)
  /\ LET name == scan.order[scan.next]
     IN  \E agreed \in {AgreedIn(program, scan.at, name, scan.table)} :
           scan' = IF name \in scan.poisoned THEN [scan EXCEPT !.next = @ + 1] ELSE Folded(name, agreed)
  /\ UNCHANGED <<program, pending, tables, dead>>

VisitAgain ==
  /\ scan # NoScan /\ scan.next > Len(scan.order) /\ scan.changed
  /\ scan' = [scan EXCEPT !.next = 1, !.changed = FALSE]
  /\ UNCHANGED <<program, pending, tables, dead>>

-----------------------------------------------------------------------------
(* detect_dead_ranges.                                                     *)

Finish ==
  /\ scan # NoScan /\ scan.next > Len(scan.order) /\ ~scan.changed
  /\ \E found \in {WalkIn(program, scan.at, scan.table)} :
       /\ dead' = dead \cup {x.at : x \in {y \in found : y.is = "dead"}}
       /\ \E inner \in {SetToSeq({x.at : x \in {y \in found : y.is = "scope"}})} :
            pending' = [i \in DOMAIN inner |-> [at |-> inner[i], enclosing |-> scan.table]] \o pending
  /\ tables' = [at \in DOMAIN tables \cup {scan.at} |-> IF at = scan.at THEN scan.table ELSE tables[at]]
  /\ scan' = NoScan
  /\ UNCHANGED program

Init ==
  /\ program \in Programs
  /\ pending = <<[at |-> <<>>, enclosing |-> Empty]>>
  /\ scan = NoScan
  /\ tables = [at \in {} |-> Empty]
  /\ dead = {}

Next == Begin \/ Visit \/ VisitAgain \/ Finish

Spec == Init /\ [][Next]_vars /\ WF_vars(Next)

-----------------------------------------------------------------------------
(* Properties.                                                             *)

Done == pending = <<>> /\ scan = NoScan

(* Rounds that visit every name of the module at once, from nothing known:  *)
(* the reference for its table, as pairs of a name and its value.           *)
TableOf(pairs) == [n \in {x[1] : x \in pairs} |-> <<n, TRUE>> \in pairs]

Round(p, pairs) ==
  {x \in NamesIn(p, <<>>) \X BOOLEAN : AgreedIn(p, <<>>, x[1], TableOf(pairs)) = {x[2]}}

(* Each round but the last finds a name, or none after it does.             *)
Rounds(p) ==
  LET names == Cardinality(NamesIn(p, <<>>))
      round[k \in 0 .. names] == IF k = 0 THEN {} ELSE Round(p, round[k - 1])
  IN  round[names]

(* The table of the module does not depend on the order its names are       *)
(* visited in, that of a hash map: it has what follows from the literals    *)
(* through chains of bindings that agree, and nothing else.                 *)
ModuleTableHasNoOrder ==
  Done => {<<n, tables[<<>>][n]>> : n \in DOMAIN tables[<<>>]} = Rounds(program)

(* The loop over the bindings of a scope ends, whatever they are and in     *)
(* whatever order they are visited: "the poison set is the convergence      *)
(* guarantee" (build_scope_table).                                          *)
EveryScopeSettles == <>Done
=============================================================================
