--------------------------- MODULE DeadBranchesProofs ---------------------------
(***************************************************************************)
(* Proofs about DeadBranches, for any programs whose syntax satisfies its  *)
(* assumptions: the table of a module is the same in whatever order the    *)
(* hash map gives its names.                                               *)
(***************************************************************************)
EXTENDS DeadBranches, FlattenProofs

ModuleNames(p) == NamesIn(p, <<>>)
Pairs(table)   == {<<n, table[n]>> : n \in DOMAIN table}
Firsts(pairs)  == {x[1] : x \in pairs}

(* Pairs of names of the module and their values, one value for a name.     *)
Consistent(p, pairs) ==
  /\ pairs \subseteq ModuleNames(p) \X BOOLEAN
  /\ \A x, y \in pairs : x[1] = y[1] => x[2] = y[2]

-----------------------------------------------------------------------------
(* Tables and pairs.                                                       *)

(* A table over the module's names is one of the program's.                 *)
LEMMA ModuleTables ==
  ASSUME NEW p \in Programs
  PROVE  /\ <<>> \in ScopesIn(p)
         /\ TablesOver(ModuleNames(p)) \subseteq TablesIn(p)
<1>1. <<>> \in ScopesIn(p)
  BY ScopesAssumption
<1>2. ModuleNames(p) \subseteq UNION {NamesIn(p, at) : at \in ScopesIn(p)}
  BY <1>1 DEF ModuleNames
<1>. QED  BY <1>1, <1>2 DEF TablesIn, TablesOver

(* What a table knows is in its domain, with a Boolean.                     *)
LEMMA TableParts ==
  ASSUME NEW names, NEW table \in TablesOver(names)
  PROVE  /\ DOMAIN table \subseteq names
         /\ table = [n \in DOMAIN table |-> table[n]]
         /\ \A n \in DOMAIN table : table[n] \in BOOLEAN
<1>1. PICK known \in SUBSET names : table \in [known -> BOOLEAN]
  BY DEF TablesOver
<1>. QED  BY <1>1

(* The pairs of a table.                                                    *)
LEMMA PairsOfTable ==
  ASSUME NEW p, NEW table \in TablesOver(ModuleNames(p))
  PROVE  Consistent(p, Pairs(table))
BY TableParts DEF Consistent, Pairs

(* The table of pairs.                                                      *)
LEMMA TableOfPairs ==
  ASSUME NEW p, NEW X, Consistent(p, X)
  PROVE  /\ TableOf(X) \in TablesOver(ModuleNames(p))
         /\ \A x \in X : x[1] \in DOMAIN TableOf(X) /\ TableOf(X)[x[1]] = x[2]
         /\ \A n \in DOMAIN TableOf(X) : <<n, TableOf(X)[n]>> \in X
<1>1. \A x \in X : x = <<x[1], x[2]>> /\ x[1] \in ModuleNames(p) /\ x[2] \in BOOLEAN
  BY DEF Consistent
<1>2. DOMAIN TableOf(X) = {x[1] : x \in X} /\ {x[1] : x \in X} \subseteq ModuleNames(p)
  BY <1>1 DEF TableOf
<1>3. TableOf(X) \in [{x[1] : x \in X} -> BOOLEAN]
  BY DEF TableOf
<1>4. TableOf(X) \in TablesOver(ModuleNames(p))
  BY <1>2, <1>3 DEF TablesOver
<1>5. ASSUME NEW x \in X PROVE x[1] \in DOMAIN TableOf(X) /\ TableOf(X)[x[1]] = x[2]
  <2>1. x[1] \in DOMAIN TableOf(X)
    BY <1>2
  <2>2. TableOf(X)[x[1]] = (<<x[1], TRUE>> \in X)
    BY <1>2 DEF TableOf
  <2>3. CASE x[2] = TRUE
    BY <1>1, <2>1, <2>2, <2>3
  <2>4. CASE x[2] = FALSE
    <3>1. <<x[1], TRUE>> \notin X
      BY <2>4 DEF Consistent
    <3>2. ~TableOf(X)[x[1]]
      BY <2>2, <3>1, Zenon
    <3>3. TableOf(X)[x[1]] \in BOOLEAN
      BY <1>2, <1>3, <2>1
    <3>4. TableOf(X)[x[1]] = FALSE
      BY <3>2, <3>3
    <3>. QED  BY <2>1, <2>4, <3>4
  <2>. QED  BY <1>1, <2>3, <2>4
<1>6. ASSUME NEW n \in DOMAIN TableOf(X) PROVE <<n, TableOf(X)[n]>> \in X
  <2>1. PICK x \in X : x[1] = n
    BY <1>2
  <2>2. TableOf(X)[n] = x[2]
    BY <1>5, <2>1
  <2>. QED  BY <1>1, <2>1, <2>2
<1>. QED  BY <1>4, <1>5, <1>6

(* Fewer pairs, a table that knows less.                                    *)
LEMMA FewerPairs ==
  ASSUME NEW p, NEW X, NEW Y, Consistent(p, X), Consistent(p, Y), X \subseteq Y
  PROVE  Knows(TableOf(Y), TableOf(X))
<1> SUFFICES ASSUME NEW n \in DOMAIN TableOf(X)
             PROVE  n \in DOMAIN TableOf(Y) /\ TableOf(Y)[n] = TableOf(X)[n]
  BY DEF Knows
<1>1. <<n, TableOf(X)[n]>> \in Y
  BY TableOfPairs
<1>. QED  BY <1>1, TableOfPairs

(* A table among the pairs.                                                 *)
LEMMA TableAmongPairs ==
  ASSUME NEW p, NEW Y, Consistent(p, Y), NEW table \in TablesOver(ModuleNames(p))
  PROVE  /\ Pairs(table) \subseteq Y => Knows(TableOf(Y), table)
         /\ Y \subseteq Pairs(table) => Knows(table, TableOf(Y))
<1>1. ASSUME Pairs(table) \subseteq Y PROVE Knows(TableOf(Y), table)
  <2> SUFFICES ASSUME NEW n \in DOMAIN table
               PROVE  n \in DOMAIN TableOf(Y) /\ TableOf(Y)[n] = table[n]
    BY DEF Knows
  <2>1. <<n, table[n]>> \in Y
    BY <1>1 DEF Pairs
  <2>. QED  BY <2>1, TableOfPairs
<1>2. ASSUME Y \subseteq Pairs(table) PROVE Knows(table, TableOf(Y))
  <2> SUFFICES ASSUME NEW n \in DOMAIN TableOf(Y)
               PROVE  n \in DOMAIN table /\ table[n] = TableOf(Y)[n]
    BY DEF Knows
  <2>1. <<n, TableOf(Y)[n]>> \in Pairs(table)
    BY <1>2, TableOfPairs
  <2>. QED  BY <2>1 DEF Pairs
<1>. QED  BY <1>1, <1>2

-----------------------------------------------------------------------------
(* What bindings agree on.                                                 *)

(* One value or none.                                                       *)
LEMMA Agreements ==
  ASSUME NEW p \in Programs, NEW at \in ScopesIn(p), NEW table \in TablesIn(p), NEW n \in NamesIn(p, at)
  PROVE  /\ AgreedIn(p, at, n, table) \in {{TRUE}, {FALSE}, BOOLEAN}
         /\ Known(AgreedIn(p, at, n, table)) <=> AgreedIn(p, at, n, table) \in {{TRUE}, {FALSE}}
<1>1. AgreedIn(p, at, n, table) \in {{TRUE}, {FALSE}, BOOLEAN}
  BY SyntaxAssumption
<1>2. Known({TRUE}) /\ Known({FALSE})
  BY FS_Singleton DEF Known
<1>3. ~Known(BOOLEAN)
  <2>1. IsFiniteSet({TRUE}) /\ Cardinality({TRUE}) = 1
    BY FS_Singleton
  <2>2. BOOLEAN = {TRUE} \cup {FALSE} /\ FALSE \notin {TRUE}
    OBVIOUS
  <2>3. Cardinality({TRUE} \cup {FALSE}) = Cardinality({TRUE}) + 1
    BY <2>1, <2>2, FS_AddElement
  <2>4. Cardinality(BOOLEAN) = 1 + 1
    BY <2>1, <2>2, <2>3
  <2>5. 1 + 1 # 1
    OBVIOUS
  <2>. QED  BY <2>4, <2>5 DEF Known
<1>4. BOOLEAN \notin {{TRUE}, {FALSE}}
  OBVIOUS
<1> HIDE DEF Known
<1>. QED  BY <1>1, <1>2, <1>3, <1>4

(* The value of what is known.                                              *)
LEMMA KnownValues ==
  ASSUME NEW truth \in {{TRUE}, {FALSE}, BOOLEAN}, Known(truth)
  PROVE  ValueOf(truth) \in BOOLEAN
<1>1. truth # {} /\ truth \subseteq BOOLEAN
  OBVIOUS
<1>. QED  BY <1>1 DEF ValueOf

(* What is known to agree still agrees for who knows more.                  *)
LEMMA AgreementStays ==
  ASSUME NEW p \in Programs, NEW n \in ModuleNames(p), NEW v \in BOOLEAN,
         NEW table \in TablesOver(ModuleNames(p)), NEW more \in TablesOver(ModuleNames(p)),
         Knows(more, table), AgreedIn(p, <<>>, n, table) = {v}
  PROVE  AgreedIn(p, <<>>, n, more) = {v}
<1>1. AgreedIn(p, <<>>, n, more) \subseteq {v}
  BY NothingIsGuessed DEF ModuleNames
<1>2. AgreedIn(p, <<>>, n, more) \in {{TRUE}, {FALSE}, BOOLEAN}
  BY ModuleTables, Agreements DEF ModuleNames
<1>3. AgreedIn(p, <<>>, n, more) # {}
  BY <1>2
<1>. QED  BY <1>1, <1>3

(* A round gives a name one value.                                          *)
LEMMA RoundIsConsistent ==
  ASSUME NEW p, NEW X
  PROVE  Consistent(p, Round(p, X))
<1>1. Round(p, X) \subseteq ModuleNames(p) \X BOOLEAN
  BY DEF Round, ModuleNames
<1>2. ASSUME NEW x \in Round(p, X), NEW y \in Round(p, X), x[1] = y[1] PROVE x[2] = y[2]
  <2>1. {x[2]} = {y[2]}
    BY <1>2 DEF Round
  <2>. QED  BY <2>1
<1>. QED  BY <1>1, <1>2 DEF Consistent

(* A round from more finds no less.                                         *)
LEMMA RoundGrows ==
  ASSUME NEW p \in Programs, NEW X, NEW Y, Consistent(p, X), Consistent(p, Y), X \subseteq Y
  PROVE  Round(p, X) \subseteq Round(p, Y)
<1> SUFFICES ASSUME NEW x \in Round(p, X) PROVE x \in Round(p, Y)
  OBVIOUS
<1>1. x \in ModuleNames(p) \X BOOLEAN /\ AgreedIn(p, <<>>, x[1], TableOf(X)) = {x[2]}
  BY DEF Round, ModuleNames
<1>2. Knows(TableOf(Y), TableOf(X))
  BY FewerPairs
<1>3. TableOf(X) \in TablesOver(ModuleNames(p)) /\ TableOf(Y) \in TablesOver(ModuleNames(p))
  BY TableOfPairs
<1>4. x[1] \in ModuleNames(p) /\ x[2] \in BOOLEAN
  BY <1>1
<1>5. AgreedIn(p, <<>>, x[1], TableOf(Y)) = {x[2]}
  BY <1>1, <1>2, <1>3, <1>4, AgreementStays
<1>. QED  BY <1>1, <1>5 DEF Round, ModuleNames

-----------------------------------------------------------------------------
(* Rounds: as many of them as the module has names find all there is.      *)

RoundsOf(round, p, n) == round = [k \in 0 .. n |-> IF k = 0 THEN {} ELSE Round(p, round[k - 1])]

(* The recursion of Rounds has a solution.                                  *)
LEMMA RoundsExist ==
  ASSUME NEW p, NEW n \in Nat
  PROVE  \E round : RoundsOf(round, p, n)
<1> DEFINE T == {k \in Nat : ~ \E round : RoundsOf(round, p, k)}
<1> SUFFICES ASSUME T # {} PROVE FALSE
  OBVIOUS
<1>1. PICK m \in T : \A k \in T : m <= k
  BY LeastElement
<1>2. m # 0
  <2>1. RoundsOf([k \in 0 .. 0 |-> {}], p, 0)
    BY DEF RoundsOf
  <2>. QED  BY <1>1, <2>1
<1>3. PICK g : RoundsOf(g, p, m - 1)
  BY <1>1, <1>2
<1> DEFINE f == [k \in 0 .. m |-> IF k = 0 THEN {} ELSE Round(p, g[k - 1])]
<1>4. m \in Nat /\ \A k \in 0 .. (m - 1) : g[k] = IF k = 0 THEN {} ELSE Round(p, g[k - 1])
  BY <1>1, <1>3 DEF RoundsOf
<1>5. \A k \in 0 .. (m - 1) : f[k] = g[k]
  BY <1>4
<1>6. \A k \in 0 .. m : k # 0 => k - 1 \in 0 .. (m - 1)
  BY <1>4
<1>7. f = [k \in 0 .. m |-> IF k = 0 THEN {} ELSE Round(p, f[k - 1])]
  <2>. \A k \in 0 .. m : f[k] = IF k = 0 THEN {} ELSE Round(p, f[k - 1])
    BY <1>5, <1>6
  <2>. QED  OBVIOUS
<1>. QED  BY <1>1, <1>7 DEF RoundsOf

(* Rounds is the last of them.                                              *)
LEMMA RoundsIsLast ==
  ASSUME NEW p \in Programs
  PROVE  /\ Cardinality(ModuleNames(p)) \in Nat /\ IsFiniteSet(ModuleNames(p))
         /\ \E round : /\ RoundsOf(round, p, Cardinality(ModuleNames(p)))
                       /\ Rounds(p) = round[Cardinality(ModuleNames(p))]
<1>1. Cardinality(ModuleNames(p)) \in Nat /\ IsFiniteSet(ModuleNames(p))
  <2>1. IsFiniteSet(NamesIn(p, <<>>))
    BY ScopesAssumption
  <2>. QED  BY <2>1, FS_CardinalityType DEF ModuleNames
<1> DEFINE f == CHOOSE round : RoundsOf(round, p, Cardinality(ModuleNames(p)))
<1>2. RoundsOf(f, p, Cardinality(ModuleNames(p)))
  BY <1>1, RoundsExist
<1>3. Rounds(p) = f[Cardinality(ModuleNames(p))]
  BY DEF Rounds, RoundsOf, ModuleNames
<1>. QED  BY <1>1, <1>2, <1>3

(* Each round has what the one before had.                                  *)
LEMMA RoundsGrow ==
  ASSUME NEW p \in Programs, NEW round, NEW n \in Nat, RoundsOf(round, p, n)
  PROVE  \A k \in 0 .. n : /\ Consistent(p, round[k])
                           /\ round[k] \subseteq Round(p, round[k])
                           /\ k # 0 => round[k] = Round(p, round[k - 1])
<1>0. \A k \in 0 .. n : round[k] = IF k = 0 THEN {} ELSE Round(p, round[k - 1])
  BY DEF RoundsOf
<1>1. \A k \in 0 .. n : Consistent(p, round[k])
  <2> SUFFICES ASSUME NEW k \in 0 .. n PROVE Consistent(p, round[k])
    OBVIOUS
  <2>1. CASE k = 0
    BY <1>0, <2>1 DEF Consistent
  <2>2. CASE k # 0
    BY <1>0, <2>2, RoundIsConsistent
  <2>. QED  BY <2>1, <2>2
<1> DEFINE T == {k \in 0 .. n : ~(round[k] \subseteq Round(p, round[k]))}
<1>2. T = {}
  <2> SUFFICES ASSUME T # {} PROVE FALSE
    OBVIOUS
  <2>1. PICK m \in T : \A k \in T : m <= k
    <3>1. T \subseteq Nat
      OBVIOUS
    <3> HIDE DEF T
    <3>. QED  BY <3>1, LeastElement
  <2>2. m \in 0 .. n /\ m # 0
    BY <1>0, <2>1
  <2>3. m - 1 \in 0 .. n /\ ~(m <= m - 1)
    BY <2>2
  <2>4. round[m - 1] \subseteq Round(p, round[m - 1])
    BY <2>1, <2>3
  <2>5. round[m] = Round(p, round[m - 1])
    BY <1>0, <2>2
  <2>6. round[m] \subseteq Round(p, round[m])
    <3>1. round[m - 1] \subseteq round[m] /\ Consistent(p, round[m - 1]) /\ Consistent(p, round[m])
      BY <1>1, <2>2, <2>3, <2>4, <2>5
    <3>. QED  BY <2>5, <3>1, RoundGrows
  <2>. QED  BY <2>1, <2>6
<1>. QED  BY <1>0, <1>1, <1>2

(* A round that finds more finds a new name.                                *)
LEMMA NewNames ==
  ASSUME NEW p, NEW X, NEW Y, Consistent(p, X), Consistent(p, Y), X \subseteq Y
  PROVE  /\ Firsts(X) \subseteq Firsts(Y) /\ Firsts(Y) \subseteq ModuleNames(p)
         /\ Firsts(X) = Firsts(Y) => X = Y
<1>1. Firsts(X) \subseteq Firsts(Y)
  BY DEF Firsts
<1>2. Firsts(Y) \subseteq ModuleNames(p)
  BY DEF Firsts, Consistent
<1>3. ASSUME Firsts(X) = Firsts(Y), NEW y \in Y PROVE y \in X
  <2>1. PICK x \in X : x[1] = y[1]
    BY <1>3 DEF Firsts
  <2>2. x \in Y /\ x[2] = y[2]
    BY <2>1 DEF Consistent
  <2>3. x = <<x[1], x[2]>> /\ y = <<y[1], y[2]>>
    BY <2>2 DEF Consistent
  <2>. QED  BY <2>1, <2>2, <2>3
<1>. QED  BY <1>1, <1>2, <1>3

(* The names of some pairs can be counted.                                  *)
LEMMA NamesCounted ==
  ASSUME NEW p \in Programs, NEW X, Consistent(p, X)
  PROVE  /\ IsFiniteSet(Firsts(X)) /\ Cardinality(Firsts(X)) \in Nat
         /\ Cardinality(Firsts(X)) <= Cardinality(ModuleNames(p))
         /\ Cardinality(Firsts(X)) = Cardinality(ModuleNames(p)) => Firsts(X) = ModuleNames(p)
<1>1. Firsts(X) \in SUBSET ModuleNames(p) /\ IsFiniteSet(ModuleNames(p))
  BY NewNames, RoundsIsLast
<1>2. IsFiniteSet(Firsts(X))
  BY <1>1, FS_Subset
<1>3. Cardinality(Firsts(X)) <= Cardinality(ModuleNames(p))
  BY <1>1, FS_Subset
<1>4. Cardinality(ModuleNames(p)) = Cardinality(Firsts(X)) => ModuleNames(p) = Firsts(X)
  BY <1>1, FS_Subset
<1>. QED  BY <1>2, <1>3, <1>4, FS_CardinalityType

(* After the last round there is nothing more to find.                      *)
LEMMA RoundsClose ==
  ASSUME NEW p \in Programs
  PROVE  Consistent(p, Rounds(p)) /\ Round(p, Rounds(p)) = Rounds(p)
<1>1. PICK n \in Nat : n = Cardinality(ModuleNames(p))
  BY RoundsIsLast
<1>2. PICK round : RoundsOf(round, p, n) /\ Rounds(p) = round[n]
  BY <1>1, RoundsIsLast
<1>3. \A k \in 0 .. n : /\ Consistent(p, round[k])
                        /\ round[k] \subseteq Round(p, round[k])
                        /\ k # 0 => round[k] = Round(p, round[k - 1])
  BY <1>2, RoundsGrow
<1> DEFINE T == {k \in 0 .. n : ~(Round(p, round[k]) = round[k] \/ k <= Cardinality(Firsts(round[k])))}
<1>4. T = {}
  <2> SUFFICES ASSUME T # {} PROVE FALSE
    OBVIOUS
  <2>1. PICK m \in T : \A k \in T : m <= k
    <3>1. T \subseteq Nat
      OBVIOUS
    <3> HIDE DEF T
    <3>. QED  BY <3>1, LeastElement
  <2>2. m \in 0 .. n /\ ~(Round(p, round[m]) = round[m]) /\ ~(m <= Cardinality(Firsts(round[m])))
    BY <2>1
  <2>3. Cardinality(Firsts(round[m])) \in Nat /\ IsFiniteSet(Firsts(round[m]))
    BY <1>3, <2>2, NamesCounted
  <2>4. m # 0
    <3>1. PICK c \in Nat : c = Cardinality(Firsts(round[m]))
      BY <2>3
    <3>2. ~(m <= c)
      BY <2>2, <3>1
    <3>. QED  BY <2>2, <3>2
  <2>5. m - 1 \in 0 .. n /\ ~(m <= m - 1)
    BY <2>2, <2>4
  <2>6. Round(p, round[m - 1]) = round[m - 1] \/ m - 1 <= Cardinality(Firsts(round[m - 1]))
    BY <2>1, <2>5
  <2>7. round[m] = Round(p, round[m - 1]) /\ round[m - 1] \subseteq round[m]
    BY <1>3, <2>2, <2>4, <2>5
  <2>8. round[m - 1] # round[m]
    BY <2>2, <2>7
  <2>9. Firsts(round[m - 1]) \subseteq Firsts(round[m]) /\ Firsts(round[m - 1]) # Firsts(round[m])
    BY <1>3, <2>2, <2>5, <2>7, <2>8, NewNames
  <2>10. Cardinality(Firsts(round[m - 1])) <= Cardinality(Firsts(round[m]))
    BY <2>3, <2>9, FS_Subset
  <2>11. Cardinality(Firsts(round[m - 1])) # Cardinality(Firsts(round[m]))
    BY <2>3, <2>9, FS_Subset
  <2>12. m - 1 <= Cardinality(Firsts(round[m - 1]))
    BY <2>6, <2>7, <2>8
  <2>13. PICK c, d \in Nat : c = Cardinality(Firsts(round[m - 1])) /\ d = Cardinality(Firsts(round[m]))
    BY <1>3, <2>3, <2>5, NamesCounted
  <2>14. m - 1 <= c /\ c <= d /\ c # d /\ ~(m <= d) /\ m \in Nat
    <3>1. m - 1 <= c /\ ~(m <= d) /\ m \in Nat
      BY <2>2, <2>12, <2>13
    <3>2. c <= d /\ c # d
      BY <2>10, <2>11, <2>13
    <3>. QED  BY <3>1, <3>2
  <2>. QED  BY <2>14
<1>5. n \in 0 .. n
  OBVIOUS
<1>6. Consistent(p, round[n]) /\ round[n] \subseteq Round(p, round[n])
  BY <1>3, <1>5
<1>7. Consistent(p, Round(p, round[n]))
  BY RoundIsConsistent
<1>8. CASE n <= Cardinality(Firsts(round[n]))
  <2>1. PICK c \in Nat : c = Cardinality(Firsts(round[n]))
    BY <1>6, NamesCounted
  <2>2. c <= n
    BY <1>1, <1>6, <2>1, NamesCounted
  <2>3. c = n
    BY <1>8, <2>1, <2>2
  <2>4. Firsts(round[n]) = ModuleNames(p)
    BY <1>1, <1>6, <2>1, <2>3, NamesCounted
  <2>5. Firsts(round[n]) = Firsts(Round(p, round[n]))
    BY <1>6, <1>7, <2>4, NewNames
  <2>. QED  BY <1>2, <1>6, <1>7, <2>5, NewNames
<1>9. CASE Round(p, round[n]) = round[n]
  BY <1>2, <1>6, <1>9
<1>. QED  BY <1>4, <1>5, <1>8, <1>9

-----------------------------------------------------------------------------
(* Tables of the module.                                                   *)

(* What the bindings of a known name agree on is its value.                 *)
Supported(p, table) == \A n \in DOMAIN table : AgreedIn(p, <<>>, n, table) = {table[n]}

(* A name that bindings agree on is known.                                  *)
Settled(p, table, n) == Known(AgreedIn(p, <<>>, n, table)) => n \in DOMAIN table

(* A name visited while all that is known is found by the rounds has a      *)
(* value they find.                                                         *)
LEMMA FoundByRounds ==
  ASSUME NEW p \in Programs, NEW table \in TablesOver(ModuleNames(p)), Pairs(table) \subseteq Rounds(p),
         NEW n \in ModuleNames(p), NEW v \in BOOLEAN, AgreedIn(p, <<>>, n, table) = {v}
  PROVE  <<n, v>> \in Rounds(p)
<1>1. Consistent(p, Rounds(p)) /\ Round(p, Rounds(p)) = Rounds(p)
  BY RoundsClose
<1>2. Knows(TableOf(Rounds(p)), table) /\ TableOf(Rounds(p)) \in TablesOver(ModuleNames(p))
  BY <1>1, TableAmongPairs, TableOfPairs
<1>3. AgreedIn(p, <<>>, n, TableOf(Rounds(p))) = {v}
  BY <1>2, AgreementStays
<1>4. <<n, v>> \in Round(p, Rounds(p))
  BY <1>3 DEF Round, ModuleNames
<1>. QED  BY <1>1, <1>4

(* A table that is supported and settled has all that the rounds find.      *)
LEMMA SettledHasRounds ==
  ASSUME NEW p \in Programs, NEW table \in TablesOver(ModuleNames(p)), Supported(p, table),
         \A n \in ModuleNames(p) : Settled(p, table, n)
  PROVE  Rounds(p) \subseteq Pairs(table)
<1>1. PICK n \in Nat : n = Cardinality(ModuleNames(p))
  BY RoundsIsLast
<1>2. PICK round : RoundsOf(round, p, n) /\ Rounds(p) = round[n]
  BY <1>1, RoundsIsLast
<1>3. \A k \in 0 .. n : Consistent(p, round[k]) /\ (k # 0 => round[k] = Round(p, round[k - 1]))
  BY <1>2, RoundsGrow
<1> DEFINE T == {k \in 0 .. n : ~(round[k] \subseteq Pairs(table))}
<1>4. T = {}
  <2> SUFFICES ASSUME T # {} PROVE FALSE
    OBVIOUS
  <2>1. PICK m \in T : \A k \in T : m <= k
    <3>1. T \subseteq Nat
      OBVIOUS
    <3> HIDE DEF T
    <3>. QED  BY <3>1, LeastElement
  <2>2. m # 0
    <3>1. 0 \in 0 .. n /\ round[0] = {}
      BY <1>2 DEF RoundsOf
    <3>. QED  BY <2>1, <3>1
  <2>3. m \in 0 .. n /\ m - 1 \in 0 .. n /\ ~(m <= m - 1)
    BY <2>1, <2>2
  <2>4. round[m - 1] \subseteq Pairs(table)
    BY <2>1, <2>3
  <2>5. Knows(table, TableOf(round[m - 1])) /\ TableOf(round[m - 1]) \in TablesOver(ModuleNames(p))
    BY <1>3, <2>3, <2>4, TableAmongPairs, TableOfPairs
  <2>6. ASSUME NEW x \in round[m] PROVE x \in Pairs(table)
    <3>1. x \in Round(p, round[m - 1])
      BY <1>3, <2>2, <2>3, <2>6
    <3>2. x \in ModuleNames(p) \X BOOLEAN /\ AgreedIn(p, <<>>, x[1], TableOf(round[m - 1])) = {x[2]}
      BY <3>1 DEF Round, ModuleNames
    <3>3. x[1] \in ModuleNames(p) /\ x[2] \in BOOLEAN /\ x = <<x[1], x[2]>>
      BY <3>2
    <3>4. AgreedIn(p, <<>>, x[1], table) = {x[2]}
      BY <2>5, <3>2, <3>3, AgreementStays
    <3>5. Known(AgreedIn(p, <<>>, x[1], table))
      BY <3>4, FS_Singleton DEF Known
    <3>6. x[1] \in DOMAIN table
      BY <3>3, <3>5 DEF Settled
    <3>7. {table[x[1]]} = {x[2]}
      BY <3>4, <3>6 DEF Supported
    <3>8. table[x[1]] = x[2]
      BY <3>7
    <3>. QED  BY <3>3, <3>6, <3>8 DEF Pairs
  <2>. QED  BY <2>1, <2>6
<1>5. n \in 0 .. n
  OBVIOUS
<1>. QED  BY <1>2, <1>4, <1>5

-----------------------------------------------------------------------------
(* The inductive invariant: the module is waiting to be scanned, is being  *)
(* scanned, or has the table the rounds find.                              *)

(* A scan of one of the program's scopes.                                   *)
ScanShape(s) ==
  s = [at |-> s.at, table |-> s.table, poisoned |-> s.poisoned, order |-> s.order, next |-> s.next,
       changed |-> s.changed]

ScanTyped(p, s) ==
  /\ ScanShape(s)
  /\ s.at \in ScopesIn(p) /\ s.table \in TablesIn(p)
  /\ s.order \in Orders(NamesIn(p, s.at))
  /\ s.next \in Nat \ {0} /\ s.changed \in BOOLEAN

TypeInv ==
  /\ program \in Programs
  /\ pending \in Seq([at : ScopesIn(program), enclosing : TablesIn(program)])
  /\ scan = NoScan \/ ScanTyped(program, scan)

ModuleWaits == pending = <<[at |-> <<>>, enclosing |-> Empty]>> /\ scan = NoScan

(* Of a scan of the module: nothing is ever poisoned, what is known is      *)
(* supported and found by the rounds, and a round that has changed nothing  *)
(* has left no name behind that could be known.                             *)
ModuleScanned(p, s) ==
  /\ s.at = <<>> /\ s.table \in TablesOver(ModuleNames(p)) /\ s.poisoned = {}
  /\ Supported(p, s.table)
  /\ Pairs(s.table) \subseteq Rounds(p)
  /\ ~s.changed => \A i \in DOMAIN s.order : i < s.next => Settled(p, s.table, s.order[i])

ModuleBeingBuilt == pending = <<>> /\ scan # NoScan /\ ModuleScanned(program, scan)

ModuleBuilt ==
  /\ <<>> \in DOMAIN tables /\ Pairs(tables[<<>>]) = Rounds(program)
  /\ \A i \in DOMAIN pending : pending[i].at # <<>>
  /\ scan = NoScan \/ scan.at # <<>>

IInv == TypeInv /\ (ModuleWaits \/ ModuleBeingBuilt \/ ModuleBuilt)

-----------------------------------------------------------------------------
(* What a step does to a scan.                                             *)

(* An order of the names visits each of them.                               *)
LEMMA OrderVisitsAll ==
  ASSUME NEW S, IsFiniteSet(S), NEW o \in Orders(S)
  PROVE  /\ o \in [1 .. Cardinality(S) -> S] /\ Cardinality(S) \in Nat
         /\ DOMAIN o = 1 .. Len(o) /\ Len(o) = Cardinality(S)
         /\ \A n \in S : \E i \in DOMAIN o : o[i] = n
<1>1. o \in [1 .. Cardinality(S) -> S] /\ Cardinality(S) \in Nat
  BY FS_CardinalityType DEF Orders
<1>2. DOMAIN o = 1 .. Len(o) /\ Len(o) = Cardinality(S)
  <2>1. PICK c \in Nat : c = Cardinality(S)
    BY <1>1
  <2>2. o \in Seq(S) /\ Len(o) = c
    BY <1>1, <2>1
  <2>. QED  BY <1>1, <2>1, <2>2
<1>3. o \in Injection(1 .. Cardinality(S), S)
  BY <1>1 DEF Orders, Injection, IsInjective
<1>4. IsFiniteSet(1 .. Cardinality(S)) /\ Cardinality(1 .. Cardinality(S)) = Cardinality(S)
  <2>1. PICK c \in Nat : c = Cardinality(S)
    BY <1>1
  <2>2. IsFiniteSet(1 .. c) /\ Cardinality(1 .. c) = c
    <3>1. 1 \in Int /\ c \in Int
      BY <2>1
    <3>2. IsFiniteSet(1 .. c) /\ Cardinality(1 .. c) = IF 1 > c THEN 0 ELSE c - 1 + 1
      BY <3>1, FS_Interval
    <3>. QED  BY <2>1, <3>2
  <2>. QED  BY <2>1, <2>2
<1>5. o \in Surjection(1 .. Cardinality(S), S)
  BY <1>3, <1>4, FS_Injection
<1>6. \A n \in S : \E i \in 1 .. Cardinality(S) : o[i] = n
  BY <1>5 DEF Surjection
<1>. QED  BY <1>1, <1>2, <1>6

Changed(s, next, changed, poisoned, table) ==
  [s EXCEPT !.next = next, !.changed = changed, !.poisoned = poisoned, !.table = table]

(* What a fold changes of a scan, part by part.                             *)
LEMMA ScanChanges ==
  ASSUME NEW s, ScanShape(s), NEW next, NEW changed, NEW poisoned, NEW table,
         NEW r, r = Changed(s, next, changed, poisoned, table)
  PROVE  /\ ScanShape(r)
         /\ r.at = s.at /\ r.order = s.order
         /\ r.next = next /\ r.changed = changed /\ r.poisoned = poisoned /\ r.table = table
<1>1. DOMAIN r = {"at", "table", "poisoned", "order", "next", "changed"}
  BY DEF ScanShape, Changed
<1>2. r = [x \in DOMAIN r |-> r[x]]
  BY DEF Changed
<1>3. ScanShape(r)
  BY <1>1, <1>2 DEF ScanShape
<1>4. r.at = s.at /\ r.order = s.order
  BY DEF ScanShape, Changed
<1>5. r.next = next /\ r.changed = changed
  BY DEF ScanShape, Changed
<1>6. r.poisoned = poisoned /\ r.table = table
  BY DEF ScanShape, Changed
<1>. QED  BY <1>3, <1>4, <1>5, <1>6

(* A name is new to a table, or lost to it: its bindings no longer agree,   *)
(* or agree on the other value.                                             *)
Gains(table, n, agreed) == Known(agreed) /\ n \notin DOMAIN table
Loses(table, n, agreed) ==
  \/ Known(agreed) /\ n \in DOMAIN table /\ {table[n]} # agreed
  \/ ~Known(agreed) /\ n \in DOMAIN table

(* A scan that a name was folded into.                                      *)
LEMMA FoldedParts ==
  ASSUME NEW s, s = scan, ScanShape(s), s.changed \in BOOLEAN, NEW n, NEW agreed, NEW r, r = Folded(n, agreed)
  PROVE  /\ ScanShape(r)
         /\ r.at = s.at /\ r.order = s.order /\ r.next = s.next + 1
         /\ ~Loses(s.table, n, agreed) => r.poisoned = s.poisoned
         /\ r.table = IF Gains(s.table, n, agreed) THEN Put(s.table, n, ValueOf(agreed))
                      ELSE IF Loses(s.table, n, agreed) THEN Drop(s.table, n) ELSE s.table
         /\ r.changed \in BOOLEAN
         /\ r.changed <=> (s.changed \/ Gains(s.table, n, agreed) \/ Loses(s.table, n, agreed))
<1> DEFINE new  == Gains(s.table, n, agreed)
           gone == Loses(s.table, n, agreed)
<1> DEFINE flips == Known(agreed) /\ n \in DOMAIN s.table /\ {s.table[n]} # agreed
           lost  == ~Known(agreed) /\ n \in DOMAIN s.table
<1>1. PICK poisoned : poisoned = IF flips THEN s.poisoned \cup {n} ELSE s.poisoned
  OBVIOUS
<1>2. PICK table : table = IF new THEN Put(s.table, n, ValueOf(agreed))
                           ELSE IF gone THEN Drop(s.table, n) ELSE s.table
  OBVIOUS
<1>3. PICK changed : changed = (s.changed \/ new \/ gone)
  OBVIOUS
<1>0. PICK next : next = s.next + 1
  OBVIOUS
<1>4. r = Changed(s, next, changed, poisoned, table)
  <2>1. (s.changed \/ new \/ flips \/ lost) = changed
    BY <1>3 DEF Gains, Loses
  <2>2. (IF new THEN Put(s.table, n, ValueOf(agreed)) ELSE IF flips \/ lost THEN Drop(s.table, n) ELSE s.table) = table
    BY <1>2 DEF Gains, Loses
  <2>. QED  BY <1>0, <1>1, <2>1, <2>2 DEF Folded, Changed, Gains, Loses
<1>5. /\ ScanShape(r)
      /\ r.at = s.at /\ r.order = s.order
      /\ r.next = next /\ r.changed = changed /\ r.poisoned = poisoned /\ r.table = table
  <2> HIDE DEF flips, lost
  <2>. QED  BY <1>4, ScanChanges
<1>6. ~gone => r.poisoned = s.poisoned
  BY <1>1, <1>5 DEF Loses
<1>. QED  BY <1>0, <1>2, <1>3, <1>5, <1>6

(* A table that gains or loses one of the names is still one of them.       *)
LEMMA TablesStay ==
  ASSUME NEW names, NEW table \in TablesOver(names), NEW n \in names, NEW v \in BOOLEAN
  PROVE  Put(table, n, v) \in TablesOver(names) /\ Drop(table, n) \in TablesOver(names)
<1>1. DOMAIN table \subseteq names /\ \A m \in DOMAIN table : table[m] \in BOOLEAN
  BY TableParts
<1>2. Put(table, n, v) \in [DOMAIN table \cup {n} -> BOOLEAN]
  BY <1>1 DEF Put
<1>3. Drop(table, n) \in [DOMAIN table \ {n} -> BOOLEAN]
  BY <1>1 DEF Drop
<1>4. DOMAIN table \cup {n} \in SUBSET names /\ DOMAIN table \ {n} \in SUBSET names
  BY <1>1
<1>. QED  BY <1>2, <1>3, <1>4 DEF TablesOver

(* A scan that has begun is one.                                            *)
LEMMA ScanIsNotNone ==
  ASSUME NEW s, s.next \in Nat \ {0}
  PROVE  s # NoScan
<1>1. NoScan.next = 0
  BY DEF NoScan
<1>. QED  BY <1>1

(* The scopes a walk meets, in the order they are walked.                   *)
LEMMA ScopesMet ==
  ASSUME NEW p \in Programs, NEW at \in ScopesIn(p), NEW table \in TablesIn(p)
  PROVE  SetToSeq({x.at : x \in {y \in WalkIn(p, at, table) : y.is = "scope"}}) \in Seq(ScopesIn(p) \ {<<>>})
<1> DEFINE found == {y \in WalkIn(p, at, table) : y.is = "scope"}
           S == {x.at : x \in found}
<1>1. IsFiniteSet(found) /\ \A x \in found : x.at \in ScopesIn(p) \ {<<>>}
  <2>1. IsFiniteSet(WalkIn(p, at, table)) /\ found \in SUBSET WalkIn(p, at, table)
    BY SyntaxAssumption
  <2>2. IsFiniteSet(found)
    BY <2>1, FS_Subset
  <2>. QED  BY <2>2, SyntaxAssumption
<1>2. S \subseteq ScopesIn(p) \ {<<>>}
  BY <1>1
<1>3. IsFiniteSet(S)
  <2> DEFINE f == [x \in found |-> x.at]
  <2>1. f \in Surjection(found, S)
    BY DEF Surjection
  <2> HIDE DEF f, S, found
  <2>. QED  BY <1>1, <2>1, FS_Surjection
<1> HIDE DEF S, found
<1>4. \E f : f \in [1 .. Cardinality(S) -> S] /\ IsInjective(f)
  <2>1. ExistsBijection(1 .. Cardinality(S), S)
    BY <1>3, FS_CardinalityType
  <2>2. PICK f : f \in Bijection(1 .. Cardinality(S), S)
    BY <2>1 DEF ExistsBijection
  <2>3. f \in [1 .. Cardinality(S) -> S] /\ IsInjective(f)
    BY <2>2 DEF Bijection, Injection, IsInjective
  <2>. QED  BY <2>3
<1>5. SetToSeq(S) \in [1 .. Cardinality(S) -> S]
  BY <1>4 DEF SetToSeq
<1>6. SetToSeq(S) \in Seq(ScopesIn(p) \ {<<>>})
  <2>1. Cardinality(S) \in Nat
    BY <1>3, FS_CardinalityType
  <2>2. SetToSeq(S) \in Seq(S)
    BY <1>5, <2>1
  <2>. QED  BY <1>2, <2>2
<1>. QED  BY <1>6 DEF S, found

-----------------------------------------------------------------------------
(* The steps.                                                              *)

(* A scan that is typed visits a name of its scope.                         *)
LEMMA NameVisited ==
  ASSUME NEW p \in Programs, NEW s, ScanTyped(p, s), s.next <= Len(s.order)
  PROVE  /\ s.next \in DOMAIN s.order /\ s.order[s.next] \in NamesIn(p, s.at)
         /\ s.next + 1 \in Nat \ {0}
<1>1. IsFiniteSet(NamesIn(p, s.at)) /\ s.order \in Orders(NamesIn(p, s.at))
  BY ScopesAssumption DEF ScanTyped
<1>2. /\ s.order \in [1 .. Cardinality(NamesIn(p, s.at)) -> NamesIn(p, s.at)]
      /\ Cardinality(NamesIn(p, s.at)) \in Nat
      /\ DOMAIN s.order = 1 .. Len(s.order) /\ Len(s.order) = Cardinality(NamesIn(p, s.at))
  BY <1>1, OrderVisitsAll
<1>3. s.next \in Nat \ {0}
  BY DEF ScanTyped
<1>4. s.next \in DOMAIN s.order
  <2>1. PICK c \in Nat : c = Len(s.order)
    BY <1>2
  <2>2. s.next \in 1 .. c
    BY <1>3, <2>1
  <2>. QED  BY <1>2, <2>1, <2>2
<1>5. s.order[s.next] \in NamesIn(p, s.at)
  BY <1>2, <1>4
<1>. QED  BY <1>3, <1>4, <1>5

(* The next name is passed over when it is poisoned.                        *)
LEMMA PassedOver ==
  ASSUME NEW p \in Programs, NEW s, ScanTyped(p, s), s.next <= Len(s.order),
         NEW r, r = [s EXCEPT !.next = @ + 1]
  PROVE  ScanTyped(p, r) /\ r.at = s.at
<1>1. ScanShape(r) /\ r.at = s.at /\ r.table = s.table /\ r.order = s.order /\ r.changed = s.changed
  BY DEF ScanTyped, ScanShape
<1>2. r.next = s.next + 1
  BY DEF ScanTyped, ScanShape
<1>3. r.next \in Nat \ {0}
  BY <1>2, NameVisited
<1>. QED  BY <1>1, <1>3 DEF ScanTyped

(* A name folded in leaves a scan of the same scope.                        *)
LEMMA FoldKeepsTypes ==
  ASSUME program \in Programs, ScanTyped(program, scan), scan.next <= Len(scan.order),
         NEW agreed \in {{TRUE}, {FALSE}, BOOLEAN}, NEW r, r = Folded(scan.order[scan.next], agreed)
  PROVE  ScanTyped(program, r) /\ r.at = scan.at
<1>1. PICK s, n : s = scan /\ n = scan.order[scan.next]
  OBVIOUS
<1>4. ScanShape(s) /\ s.changed \in BOOLEAN /\ r = Folded(n, agreed) /\ ScanTyped(program, s)
  BY <1>1 DEF ScanTyped
<1>5. ScanShape(r) /\ r.at = s.at /\ r.order = s.order /\ r.next = s.next + 1
  BY <1>1, <1>4, FoldedParts
<1>6. \/ Known(agreed) /\ r.table = Put(s.table, n, ValueOf(agreed))
      \/ r.table = Drop(s.table, n)
      \/ r.table = s.table
  BY <1>1, <1>4, FoldedParts DEF Gains
<1>7. r.changed \in BOOLEAN
  BY <1>1, <1>4, FoldedParts
<1>8. n \in NamesIn(program, s.at) /\ s.next + 1 \in Nat \ {0}
  BY <1>1, NameVisited
<1>9. r.table \in TablesIn(program)
  <2> DEFINE names == UNION {NamesIn(program, at) : at \in ScopesIn(program)}
  <2>1. n \in names /\ s.table \in TablesOver(names) /\ TablesIn(program) = TablesOver(names)
    BY <1>4, <1>8 DEF ScanTyped, TablesIn
  <2> HIDE DEF names
  <2>2. Drop(s.table, n) \in TablesOver(names) /\ \A v \in BOOLEAN : Put(s.table, n, v) \in TablesOver(names)
    BY <2>1, TablesStay
  <2>3. Known(agreed) => ValueOf(agreed) \in BOOLEAN
    BY KnownValues
  <2>. QED  BY <1>6, <2>1, <2>2, <2>3
<1>11. s.at \in ScopesIn(program) /\ s.order \in Orders(NamesIn(program, s.at))
  BY <1>4 DEF ScanTyped
<1>12. r.at \in ScopesIn(program) /\ r.order \in Orders(NamesIn(program, r.at))
  BY <1>5, <1>11
<1>13. r.next \in Nat \ {0}
  BY <1>5, <1>8
<1>14. ScanTyped(program, r)
  BY <1>5, <1>7, <1>9, <1>12, <1>13 DEF ScanTyped
<1>. QED  BY <1>1, <1>5, <1>14

(* A name of the module folded in leaves what was known as it was.          *)
LEMMA FoldKeepsModule ==
  ASSUME program \in Programs, ScanTyped(program, scan), ModuleScanned(program, scan),
         scan.next <= Len(scan.order), NEW n, n = scan.order[scan.next],
         NEW agreed, agreed = AgreedIn(program, <<>>, n, scan.table),
         NEW r, r = Folded(n, agreed)
  PROVE  ModuleScanned(program, r)
<1>1. PICK s, p : s = scan /\ p = program
  OBVIOUS
<1>2. p \in Programs /\ ScanTyped(p, s) /\ ModuleScanned(p, s) /\ ScanShape(s) /\ s.changed \in BOOLEAN
  BY <1>1 DEF ScanTyped
<1>3. /\ s.at = <<>> /\ s.table \in TablesOver(ModuleNames(p)) /\ s.poisoned = {}
      /\ Supported(p, s.table) /\ Pairs(s.table) \subseteq Rounds(p)
  BY <1>2 DEF ModuleScanned
<1>4. n \in ModuleNames(p) /\ s.next \in DOMAIN s.order
  BY <1>1, <1>2, <1>3, NameVisited DEF ModuleNames
<1>5. agreed = AgreedIn(p, <<>>, n, s.table)
  BY <1>1
<1>6. Known(agreed) <=> agreed \in {{TRUE}, {FALSE}}
  <2>1. <<>> \in ScopesIn(p) /\ s.table \in TablesIn(p) /\ n \in NamesIn(p, <<>>)
    BY <1>2, <1>3, <1>4, ModuleTables DEF ModuleNames
  <2>2. Known(AgreedIn(p, <<>>, n, s.table)) <=> AgreedIn(p, <<>>, n, s.table) \in {{TRUE}, {FALSE}}
    BY <1>2, <2>1, Agreements
  <2>. QED  BY <1>5, <2>2
<1>7. ASSUME n \in DOMAIN s.table PROVE Known(agreed) /\ {s.table[n]} = agreed
  <2>1. agreed = {s.table[n]}
    BY <1>3, <1>5, <1>7 DEF Supported
  <2>. QED  BY <2>1, FS_Singleton DEF Known
<1> DEFINE new == Gains(s.table, n, agreed)
<1>8. ~Loses(s.table, n, agreed)
  BY <1>7 DEF Loses
<1>11. r.at = s.at /\ r.order = s.order /\ r.next = s.next + 1 /\ r.poisoned = s.poisoned
  BY <1>1, <1>2, <1>8, FoldedParts
<1>12. r.table = IF new THEN Put(s.table, n, ValueOf(agreed)) ELSE s.table
  BY <1>1, <1>2, <1>8, FoldedParts
<1>13. r.changed <=> (s.changed \/ new)
  <2>1. r.changed <=> (s.changed \/ new \/ Loses(s.table, n, agreed))
    BY <1>1, <1>2, FoldedParts
  <2>. QED  BY <1>8, <2>1
<1>14. r.at = <<>> /\ r.poisoned = {}
  BY <1>3, <1>11
<1>15. CASE new
  <2>1. PICK v \in BOOLEAN : agreed = {v}
    BY <1>6, <1>15 DEF Gains
  <2>2. r.table = Put(s.table, n, v)
    <3>1. ValueOf({v}) = v
      BY DEF ValueOf
    <3>. QED  BY <1>12, <1>15, <2>1, <3>1
  <2>3. /\ r.table \in TablesOver(ModuleNames(p)) /\ DOMAIN r.table = DOMAIN s.table \cup {n}
        /\ r.table[n] = v /\ \A m \in DOMAIN s.table : m # n => r.table[m] = s.table[m]
    <3>1. s.table \in TablesOver(ModuleNames(p)) /\ n \in ModuleNames(p)
      BY <1>3, <1>4
    <3>2. \A u \in BOOLEAN : Put(s.table, n, u) \in TablesOver(ModuleNames(p))
      BY <3>1, TablesStay
    <3>3. r.table \in TablesOver(ModuleNames(p))
      BY <2>2, <3>2
    <3>4. DOMAIN r.table = DOMAIN s.table \cup {n}
      BY <2>2 DEF Put
    <3>5. r.table[n] = v /\ \A m \in DOMAIN s.table : m # n => r.table[m] = s.table[m]
      BY <2>2 DEF Put
    <3>. QED  BY <3>3, <3>4, <3>5
  <2>4. n \notin DOMAIN s.table /\ AgreedIn(p, <<>>, n, s.table) = {v}
    BY <1>5, <1>15, <2>1 DEF Gains
  <2>5. Knows(r.table, s.table)
    BY <2>3, <2>4 DEF Knows
  <2>6. \A m \in DOMAIN s.table : s.table[m] \in BOOLEAN /\ m \in ModuleNames(p)
    BY <1>3, TableParts
  <2>7. Supported(p, r.table)
    <3> SUFFICES ASSUME NEW m \in DOMAIN r.table PROVE AgreedIn(p, <<>>, m, r.table) = {r.table[m]}
      BY DEF Supported
    <3>1. CASE m \in DOMAIN s.table
      <4>1. AgreedIn(p, <<>>, m, s.table) = {s.table[m]} /\ s.table[m] = r.table[m]
        BY <1>3, <2>3, <2>4, <3>1 DEF Supported
      <4>2. AgreedIn(p, <<>>, m, r.table) = {s.table[m]}
        BY <1>2, <1>3, <2>3, <2>5, <2>6, <3>1, <4>1, AgreementStays
      <4>. QED  BY <4>1, <4>2
    <3>2. CASE m = n
      <4>1. AgreedIn(p, <<>>, n, r.table) = {v}
        BY <1>2, <1>3, <1>4, <2>3, <2>4, <2>5, AgreementStays
      <4>. QED  BY <2>3, <3>2, <4>1
    <3>. QED  BY <2>3, <3>1, <3>2
  <2>8. Pairs(r.table) \subseteq Rounds(p)
    <3> SUFFICES ASSUME NEW m \in DOMAIN r.table PROVE <<m, r.table[m]>> \in Rounds(p)
      BY DEF Pairs
    <3>1. CASE m \in DOMAIN s.table
      <4>1. <<m, s.table[m]>> \in Pairs(s.table)
        BY <3>1 DEF Pairs
      <4>2. r.table[m] = s.table[m]
        BY <2>3, <2>4, <3>1
      <4>. QED  BY <1>3, <4>1, <4>2
    <3>2. CASE m = n
      <4>1. <<n, v>> \in Rounds(p)
        BY <1>2, <1>3, <1>4, <2>4, FoundByRounds
      <4>. QED  BY <2>3, <3>2, <4>1
    <3>. QED  BY <2>3, <3>1, <3>2
  <2>9. r.changed
    BY <1>13, <1>15
  <2>. QED  BY <1>1, <1>14, <2>3, <2>7, <2>8, <2>9 DEF ModuleScanned
<1>16. CASE ~new
  <2>1. r.table = s.table
    BY <1>12, <1>16
  <2>2. ASSUME ~r.changed, NEW i \in DOMAIN r.order, i < r.next PROVE Settled(p, r.table, r.order[i])
    <3>1. ~s.changed /\ i \in DOMAIN s.order /\ r.order = s.order
      BY <1>11, <1>13, <2>2
    <3>2. DOMAIN s.order \subseteq Nat
      <4>1. IsFiniteSet(NamesIn(p, s.at)) /\ s.order \in Orders(NamesIn(p, s.at))
        BY <1>2, ScopesAssumption DEF ScanTyped
      <4>2. DOMAIN s.order = 1 .. Len(s.order)
        BY <4>1, OrderVisitsAll
      <4>. QED  BY <4>2
    <3>3. i < s.next \/ i = s.next
      <4>1. s.next \in Nat
        BY <1>4, <3>2
      <4>2. i \in Nat /\ i < s.next + 1
        BY <1>11, <2>2, <3>1, <3>2
      <4>. QED  BY <4>1, <4>2
    <3>4. CASE i < s.next
      BY <1>2, <2>1, <3>1, <3>4 DEF ModuleScanned
    <3>5. CASE i = s.next
      <4>1. s.order[i] = n
        BY <1>1, <3>5
      <4>2. Settled(p, s.table, n)
        BY <1>5, <1>16 DEF Settled, Gains
      <4>. QED  BY <2>1, <3>1, <4>1, <4>2
    <3>. QED  BY <3>3, <3>4, <3>5
  <2>. QED  BY <1>1, <1>3, <1>14, <2>1, <2>2 DEF ModuleScanned
<1>. QED  BY <1>15, <1>16

(* Begin: of the module while it waits, of a scope inside it later.         *)
LEMMA BeginKeeps ==
  ASSUME IInv, Begin
  PROVE  IInv'
<1> DEFINE places == [at : ScopesIn(program), enclosing : TablesIn(program)]
<1>1. /\ program \in Programs /\ pending \in Seq(places) /\ pending # <<>> /\ scan = NoScan
      /\ ModuleWaits \/ ModuleBeingBuilt \/ ModuleBuilt
      /\ program' = program /\ tables' = tables /\ pending' = Tail(pending)
  BY DEF IInv, TypeInv, Begin
<1>2. PICK order \in Orders(NamesIn(program, Head(pending).at)) :
        scan' = [at |-> Head(pending).at, table |-> Head(pending).enclosing, poisoned |-> {},
                 order |-> order, next |-> 1, changed |-> FALSE]
  BY DEF Begin
<1>3. Head(pending) = pending[1] /\ 1 \in DOMAIN pending /\ Head(pending) \in places
  <2> HIDE DEF places
  <2>. QED  BY <1>1
<1>4. /\ scan'.at = Head(pending).at /\ scan'.table = Head(pending).enclosing /\ scan'.poisoned = {}
      /\ scan'.order = order /\ scan'.next = 1 /\ scan'.changed = FALSE
  BY <1>2
<1>5. ScanShape(scan')
  BY <1>2, <1>4 DEF ScanShape
<1>6. Head(pending).at \in ScopesIn(program) /\ Head(pending).enclosing \in TablesIn(program)
  BY <1>3
<1>7. ScanTyped(program, scan') /\ scan' # NoScan
  <2>1. scan'.next \in Nat \ {0}
    BY <1>4
  <2>. QED  BY <1>2, <1>4, <1>5, <1>6, <2>1, ScanIsNotNone DEF ScanTyped
<1>8. pending' \in Seq(places) /\ \A i \in DOMAIN pending' : i + 1 \in DOMAIN pending /\ pending'[i] = pending[i + 1]
  <2> HIDE DEF places
  <2>. QED  BY <1>1
<1>9. TypeInv'
  BY <1>1, <1>7, <1>8 DEF TypeInv
<1>10. CASE ModuleWaits
  <2>1. pending[1] = [at |-> <<>>, enclosing |-> Empty] /\ pending' = <<>>
    BY <1>1, <1>10 DEF ModuleWaits
  <2>2. scan'.at = <<>> /\ scan'.table = Empty
    BY <1>3, <1>4, <2>1
  <2>3. DOMAIN Empty = {} /\ Empty \in TablesOver(ModuleNames(program))
    <3>1. Empty \in [{} -> BOOLEAN] /\ {} \in SUBSET ModuleNames(program)
      BY DEF Empty
    <3>. QED  BY <3>1 DEF TablesOver
  <2>4. Supported(program, Empty) /\ Pairs(Empty) \subseteq Rounds(program)
    BY <2>3 DEF Supported, Pairs
  <2>5. \A i \in DOMAIN order : ~(i < 1)
    <3>1. IsFiniteSet(NamesIn(program, Head(pending).at))
      BY <1>1, <1>6, ScopesAssumption
    <3>2. DOMAIN order = 1 .. Len(order)
      BY <3>1, OrderVisitsAll
    <3>. QED  BY <3>2
  <2>6. ModuleScanned(program, scan')
    BY <1>4, <2>2, <2>3, <2>4, <2>5 DEF ModuleScanned
  <2>. QED  BY <1>1, <1>7, <1>9, <2>1, <2>6 DEF IInv, ModuleBeingBuilt
<1>11. CASE ModuleBeingBuilt
  BY <1>1, <1>11 DEF ModuleBeingBuilt
<1>12. CASE ModuleBuilt
  <2>1. scan'.at # <<>>
    BY <1>3, <1>4, <1>12 DEF ModuleBuilt
  <2>2. \A i \in DOMAIN pending' : pending'[i].at # <<>>
    BY <1>8, <1>12 DEF ModuleBuilt
  <2>3. ModuleBuilt'
    BY <1>1, <1>12, <2>1, <2>2 DEF ModuleBuilt
  <2>. QED  BY <1>9, <2>3 DEF IInv
<1>. QED  BY <1>1, <1>10, <1>11, <1>12

(* A scan that goes on, of the same scope.                                  *)
LEMMA ScanGoesOn ==
  ASSUME IInv, scan # NoScan, ScanTyped(program, scan'), scan'.at = scan.at,
         ModuleScanned(program, scan) => ModuleScanned(program, scan'),
         UNCHANGED <<program, pending, tables>>
  PROVE  IInv'
<1>1. scan' # NoScan
  BY ScanIsNotNone DEF ScanTyped
<1>2. TypeInv'
  BY <1>1 DEF IInv, TypeInv
<1>3. ModuleBeingBuilt => ModuleBeingBuilt'
  BY <1>1 DEF ModuleBeingBuilt
<1>4. ModuleBuilt => ModuleBuilt'
  BY <1>1 DEF ModuleBuilt
<1>5. ~ModuleWaits
  BY DEF ModuleWaits
<1>. QED  BY <1>2, <1>3, <1>4, <1>5 DEF IInv

(* Visit: of a poisoned name, and of any other.                             *)
LEMMA VisitKeeps ==
  ASSUME IInv, Visit
  PROVE  IInv'
<1>1. /\ scan # NoScan /\ scan.next <= Len(scan.order) /\ program \in Programs
      /\ ScanTyped(program, scan) /\ UNCHANGED <<program, pending, tables>>
  BY DEF IInv, TypeInv, Visit
<1>2. PICK n, agreed : n = scan.order[scan.next] /\ agreed = AgreedIn(program, scan.at, n, scan.table)
  OBVIOUS
<1>3. scan' = IF n \in scan.poisoned THEN [scan EXCEPT !.next = @ + 1] ELSE Folded(n, agreed)
  BY <1>2 DEF Visit
<1>4. agreed \in {{TRUE}, {FALSE}, BOOLEAN}
  <2>1. n \in NamesIn(program, scan.at) /\ scan.at \in ScopesIn(program) /\ scan.table \in TablesIn(program)
    BY <1>1, <1>2, NameVisited DEF ScanTyped
  <2>. QED  BY <1>1, <1>2, <2>1, SyntaxAssumption
<1>5. CASE n \in scan.poisoned
  <2>1. scan' = [scan EXCEPT !.next = @ + 1]
    BY <1>3, <1>5
  <2>2. ScanTyped(program, scan') /\ scan'.at = scan.at
    BY <1>1, <2>1, PassedOver
  <2>3. ~ModuleScanned(program, scan)
    BY <1>5 DEF ModuleScanned
  <2>. QED  BY <1>1, <2>2, <2>3, ScanGoesOn
<1>6. CASE n \notin scan.poisoned
  <2>1. scan' = Folded(n, agreed)
    BY <1>3, <1>6
  <2>2. ScanTyped(program, scan') /\ scan'.at = scan.at
    BY <1>1, <1>2, <1>4, <2>1, FoldKeepsTypes
  <2>3. ASSUME ModuleScanned(program, scan) PROVE ModuleScanned(program, scan')
    <3>1. scan.at = <<>>
      BY <2>3 DEF ModuleScanned
    <3>2. agreed = AgreedIn(program, <<>>, n, scan.table)
      BY <1>2, <3>1
    <3>. QED  BY <1>1, <1>2, <2>1, <2>3, <3>2, FoldKeepsModule
  <2>. QED  BY <1>1, <2>2, <2>3, ScanGoesOn
<1>. QED  BY <1>5, <1>6

(* VisitAgain: a round of its own, that has changed nothing yet.            *)
LEMMA VisitAgainKeeps ==
  ASSUME IInv, VisitAgain
  PROVE  IInv'
<1>1. /\ scan # NoScan /\ ScanTyped(program, scan) /\ UNCHANGED <<program, pending, tables>>
      /\ scan' = [scan EXCEPT !.next = 1, !.changed = FALSE] /\ program \in Programs
  BY DEF IInv, TypeInv, VisitAgain
<1>2. /\ scan'.at = scan.at /\ scan'.table = scan.table /\ scan'.poisoned = scan.poisoned
      /\ scan'.order = scan.order /\ scan'.next = 1 /\ scan'.changed = FALSE
  BY <1>1 DEF ScanTyped, ScanShape
<1>3. ScanShape(scan')
  BY <1>1 DEF ScanTyped, ScanShape
<1>4. ScanTyped(program, scan')
  <2>1. scan'.next \in Nat \ {0}
    BY <1>2
  <2>. QED  BY <1>1, <1>2, <1>3, <2>1 DEF ScanTyped
<1>5. ASSUME ModuleScanned(program, scan) PROVE ModuleScanned(program, scan')
  <2>1. IsFiniteSet(NamesIn(program, scan.at)) /\ scan.order \in Orders(NamesIn(program, scan.at))
    BY <1>1, ScopesAssumption DEF ScanTyped
  <2>2. DOMAIN scan.order = 1 .. Len(scan.order)
    BY <2>1, OrderVisitsAll
  <2>3. \A i \in DOMAIN scan.order : ~(i < 1)
    BY <2>2
  <2>. QED  BY <1>2, <1>5, <2>3 DEF ModuleScanned
<1>. QED  BY <1>1, <1>2, <1>4, <1>5, ScanGoesOn

(* Finish of the module: all that the rounds find is known.                 *)
LEMMA ModuleIsFound ==
  ASSUME program \in Programs, ScanTyped(program, scan), ModuleScanned(program, scan),
         scan.next > Len(scan.order), ~scan.changed
  PROVE  Pairs(scan.table) = Rounds(program)
<1>1. scan.at = <<>> /\ scan.table \in TablesOver(ModuleNames(program)) /\ Supported(program, scan.table)
  BY DEF ModuleScanned
<1>2. IsFiniteSet(ModuleNames(program)) /\ scan.order \in Orders(ModuleNames(program))
  BY <1>1, ScopesAssumption DEF ScanTyped, ModuleNames
<1>3. /\ DOMAIN scan.order = 1 .. Len(scan.order) /\ Len(scan.order) \in Nat
      /\ \A n \in ModuleNames(program) : \E i \in DOMAIN scan.order : scan.order[i] = n
  BY <1>2, OrderVisitsAll
<1>4. \A i \in DOMAIN scan.order : i < scan.next
  <2>1. scan.next \in Nat
    BY DEF ScanTyped
  <2>. QED  BY <1>3, <2>1
<1>5. \A n \in ModuleNames(program) : Settled(program, scan.table, n)
  BY <1>3, <1>4 DEF ModuleScanned
<1>6. Rounds(program) \subseteq Pairs(scan.table)
  BY <1>1, <1>5, SettledHasRounds
<1>. QED  BY <1>6 DEF ModuleScanned

(* Finish: the scopes found inside wait, and what they have is known.       *)
LEMMA FinishKeeps ==
  ASSUME IInv, Finish
  PROVE  IInv'
<1> DEFINE places == [at : ScopesIn(program), enclosing : TablesIn(program)]
<1>1. /\ program \in Programs /\ pending \in Seq(places) /\ scan # NoScan /\ ScanTyped(program, scan)
      /\ scan.next > Len(scan.order) /\ ~scan.changed
      /\ program' = program /\ scan' = NoScan
      /\ tables' = [at \in DOMAIN tables \cup {scan.at} |-> IF at = scan.at THEN scan.table ELSE tables[at]]
  BY DEF IInv, TypeInv, Finish
<1>2. PICK inner :
        /\ inner = SetToSeq({x.at : x \in {y \in WalkIn(program, scan.at, scan.table) : y.is = "scope"}})
        /\ pending' = [i \in DOMAIN inner |-> [at |-> inner[i], enclosing |-> scan.table]] \o pending
  BY DEF Finish
<1>3. inner \in Seq(ScopesIn(program) \ {<<>>})
  BY <1>1, <1>2, ScopesMet DEF ScanTyped
<1>4. PICK found : found = [i \in DOMAIN inner |-> [at |-> inner[i], enclosing |-> scan.table]]
  OBVIOUS
<1>5. found \in Seq(places) /\ \A i \in DOMAIN found : found[i].at # <<>>
  <2>1. scan.table \in TablesIn(program)
    BY <1>1 DEF ScanTyped
  <2>2. PICK l \in Nat : l = Len(inner) /\ DOMAIN inner = 1 .. l
    BY <1>3
  <2>3. \A i \in 1 .. l : inner[i] \in ScopesIn(program) /\ inner[i] # <<>>
    BY <1>3, <2>2
  <2>4. \A i \in 1 .. l : found[i] = [at |-> inner[i], enclosing |-> scan.table]
    BY <1>4, <2>2
  <2>5. \A i \in 1 .. l : found[i] \in places /\ found[i].at # <<>>
    <3> SUFFICES ASSUME NEW i \in 1 .. l PROVE found[i] \in places /\ found[i].at # <<>>
      OBVIOUS
    <3>1. found[i] = [at |-> inner[i], enclosing |-> scan.table]
      BY <2>4
    <3>2. inner[i] \in ScopesIn(program) /\ inner[i] # <<>>
      BY <2>3
    <3>3. found[i].at = inner[i]
      BY <3>1
    <3>. QED  BY <2>1, <3>1, <3>2, <3>3
  <2>6. found = [i \in 1 .. l |-> found[i]]
    BY <1>4, <2>2
  <2> HIDE DEF places
  <2>7. found \in Seq(places) /\ DOMAIN found = 1 .. l
    BY <2>5, <2>6
  <2>. QED  BY <2>5, <2>7
<1>6. pending' = found \o pending
  BY <1>2, <1>4
<1>7. pending' \in Seq(places)
  <2> HIDE DEF places
  <2>. QED  BY <1>1, <1>5, <1>6
<1>8. TypeInv'
  BY <1>1, <1>7 DEF TypeInv
<1>9. ASSUME \A i \in DOMAIN pending : pending[i].at # <<>>
      PROVE  \A i \in DOMAIN pending' : pending'[i].at # <<>>
  <2> HIDE DEF places
  <2> SUFFICES ASSUME NEW i \in DOMAIN pending' PROVE pending'[i].at # <<>>
    OBVIOUS
  <2>1. PICK l, k \in Nat : l = Len(found) /\ k = Len(pending)
    BY <1>1, <1>5
  <2>2. DOMAIN found = 1 .. l /\ DOMAIN pending = 1 .. k /\ i \in 1 .. (l + k)
    BY <1>1, <1>5, <1>6, <2>1
  <2>3. pending'[i] = IF i <= l THEN found[i] ELSE pending[i - l]
    BY <1>1, <1>5, <1>6, <2>1, <2>2
  <2>4. i <= l => i \in DOMAIN found
    BY <2>2
  <2>5. ~(i <= l) => i - l \in DOMAIN pending
    BY <2>2
  <2>. QED  BY <1>5, <1>9, <2>3, <2>4, <2>5
<1>10. CASE ModuleBeingBuilt
  <2>1. Pairs(scan.table) = Rounds(program)
    BY <1>1, <1>10, ModuleIsFound DEF ModuleBeingBuilt
  <2>2. scan.at = <<>> /\ pending = <<>>
    BY <1>10 DEF ModuleBeingBuilt, ModuleScanned
  <2>3. <<>> \in DOMAIN tables' /\ tables'[<<>>] = scan.table
    BY <1>1, <2>2
  <2>4. \A i \in DOMAIN pending' : pending'[i].at # <<>>
    BY <1>9, <2>2
  <2>5. ModuleBuilt'
    BY <1>1, <2>1, <2>3, <2>4 DEF ModuleBuilt
  <2>. QED  BY <1>8, <2>5 DEF IInv
<1>11. CASE ModuleBuilt
  <2>1. scan.at # <<>> /\ <<>> \in DOMAIN tables /\ Pairs(tables[<<>>]) = Rounds(program)
    BY <1>1, <1>11 DEF ModuleBuilt
  <2>2. <<>> \in DOMAIN tables' /\ tables'[<<>>] = tables[<<>>]
    BY <1>1, <2>1
  <2>3. \A i \in DOMAIN pending' : pending'[i].at # <<>>
    BY <1>9, <1>11 DEF ModuleBuilt
  <2>4. ModuleBuilt'
    BY <1>1, <2>1, <2>2, <2>3 DEF ModuleBuilt
  <2>. QED  BY <1>8, <2>4 DEF IInv
<1>12. ~ModuleWaits
  BY <1>1 DEF ModuleWaits
<1>. QED  BY <1>10, <1>11, <1>12 DEF IInv

-----------------------------------------------------------------------------
(* The theorems.                                                           *)

(* The program begins with the module alone to be scanned.                  *)
LEMMA InitHolds ==
  ASSUME Init
  PROVE  IInv
<1>1. program \in Programs /\ pending = <<[at |-> <<>>, enclosing |-> Empty]>> /\ scan = NoScan
  BY DEF Init
<1>2. <<>> \in ScopesIn(program) /\ Empty \in TablesIn(program)
  <2>1. Empty \in [{} -> BOOLEAN] /\ {} \in SUBSET ModuleNames(program)
    BY DEF Empty
  <2>2. Empty \in TablesOver(ModuleNames(program))
    BY <2>1 DEF TablesOver
  <2>. QED  BY <1>1, <2>2, ModuleTables
<1>3. TypeInv
  BY <1>1, <1>2 DEF TypeInv
<1>. QED  BY <1>1, <1>3 DEF IInv, ModuleWaits

(* Every step keeps the invariant.                                          *)
LEMMA StepKeeps ==
  ASSUME IInv, [Next]_vars
  PROVE  IInv'
<1>1. CASE Begin
  BY <1>1, BeginKeeps
<1>2. CASE Visit
  BY <1>2, VisitKeeps
<1>3. CASE VisitAgain
  BY <1>3, VisitAgainKeeps
<1>4. CASE Finish
  BY <1>4, FinishKeeps
<1>5. CASE UNCHANGED vars
  BY <1>5 DEF vars, IInv, TypeInv, ModuleWaits, ModuleBeingBuilt, ModuleBuilt
<1>. QED  BY <1>1, <1>2, <1>3, <1>4, <1>5 DEF Next

(* The module waits, is scanned without ever poisoning a name, or has the   *)
(* table that follows from its literals.                                    *)
THEOREM ModuleScanIsSound == Spec => []IInv
<1>1. Init => IInv
  BY InitHolds
<1>2. IInv /\ [Next]_vars => IInv'
  BY StepKeeps
<1>. QED  BY <1>1, <1>2, PTL DEF Spec

(* build_scope_table gives a module the same table in whatever order its    *)
(* hash map is iterated.                                                    *)
THEOREM ModuleTableIsOrderless == Spec => []ModuleTableHasNoOrder
<1>1. IInv => ModuleTableHasNoOrder
  <2> SUFFICES ASSUME IInv, Done PROVE Pairs(tables[<<>>]) = Rounds(program)
    BY DEF ModuleTableHasNoOrder, Pairs
  <2>1. pending = <<>> /\ scan = NoScan
    BY DEF Done
  <2>2. ~ModuleWaits /\ ~ModuleBeingBuilt
    BY <2>1 DEF ModuleWaits, ModuleBeingBuilt
  <2>. QED  BY <2>2 DEF IInv, ModuleBuilt
<1>. QED  BY <1>1, ModuleScanIsSound, PTL
=============================================================================
