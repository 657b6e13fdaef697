--------------------------- MODULE GraphFileProofs ---------------------------
(***************************************************************************)
(* What write_graph and read_graph do to a graph, for every sequence of    *)
(* nodes and blanks: the remap keeps order and merges nothing, the records *)
(* are the nodes that stay, an edge joins what it joined, and what can be  *)
(* reached is the same before and after.                                   *)
(*                                                                         *)
(* Reachable is a recursion over turns; its facts are inductions, made     *)
(* from the least number at which one would fail (LeastElement).           *)
(***************************************************************************)
EXTENDS GraphFile, FlattenProofs

Below(nodes, i) == {j \in Keep(nodes) : j < i}

(* Only finitely many nodes come before one.                                *)
LEMMA BelowIsFinite ==
  ASSUME NEW nodes, NEW n \in Nat, DOMAIN nodes = 1 .. n, NEW i \in 1 .. n
  PROVE  /\ IsFiniteSet(Keep(nodes)) /\ Cardinality(Keep(nodes)) \in Nat
         /\ IsFiniteSet(Below(nodes, i)) /\ Cardinality(Below(nodes, i)) \in Nat
<1>1. IsFiniteSet(1 .. n)
  BY FS_Interval
<1>2. Keep(nodes) \subseteq 1 .. n /\ Below(nodes, i) \subseteq Keep(nodes)
  BY DEF Keep, Below
<1>3. IsFiniteSet(Keep(nodes))
  BY <1>1, <1>2, FS_Subset
<1>4. IsFiniteSet(Below(nodes, i))
  BY <1>2, <1>3, FS_Subset
<1>. QED  BY <1>3, <1>4, FS_CardinalityType

(* Nodes that stay keep their order, so no two of them get one position:    *)
(* the remap of write_graph never merges two nodes.                         *)
THEOREM RemapKeepsOrder ==
  ASSUME NEW nodes, NEW n \in Nat, DOMAIN nodes = 1 .. n,
         NEW i \in Keep(nodes), NEW j \in Keep(nodes), i < j
  PROVE  Remap(nodes)[i] < Remap(nodes)[j]
<1>1. i \in 1 .. n /\ j \in 1 .. n
  BY DEF Keep
<1>2. Below(nodes, i) \subseteq Below(nodes, j)
  BY <1>1 DEF Below, Keep
<1>3. i \in Below(nodes, j) /\ i \notin Below(nodes, i)
  BY <1>1 DEF Below
<1>4. Cardinality(Below(nodes, i)) < Cardinality(Below(nodes, j))
  <2>1. Cardinality(Below(nodes, i)) <= Cardinality(Below(nodes, j))
    BY <1>1, <1>2, BelowIsFinite, FS_Subset
  <2>2. Cardinality(Below(nodes, i)) # Cardinality(Below(nodes, j))
    BY <1>1, <1>2, <1>3, BelowIsFinite, FS_Subset
  <2>. QED  BY <1>1, <2>1, <2>2, BelowIsFinite
<1>5. /\ Remap(nodes)[i] = Cardinality(Below(nodes, i)) + 1
      /\ Remap(nodes)[j] = Cardinality(Below(nodes, j)) + 1
  BY <1>1 DEF Remap, Below
<1>. QED  BY <1>1, <1>4, <1>5, BelowIsFinite

(* Every edge that is written joins records of the file.                    *)
THEOREM RemapStaysInRange ==
  ASSUME NEW nodes, NEW n \in Nat, DOMAIN nodes = 1 .. n, NEW i \in Keep(nodes)
  PROVE  Remap(nodes)[i] \in 1 .. Cardinality(Keep(nodes))
<1>1. i \in 1 .. n
  BY DEF Keep
<1>2. Below(nodes, i) \subseteq Keep(nodes) /\ i \notin Below(nodes, i)
  BY <1>1 DEF Below
<1>3. Cardinality(Below(nodes, i)) < Cardinality(Keep(nodes))
  <2>1. Cardinality(Below(nodes, i)) <= Cardinality(Keep(nodes))
    BY <1>1, <1>2, BelowIsFinite, FS_Subset
  <2>2. Cardinality(Below(nodes, i)) # Cardinality(Keep(nodes))
    BY <1>1, <1>2, BelowIsFinite, FS_Subset
  <2>. QED  BY <1>1, <2>1, <2>2, BelowIsFinite
<1>4. Remap(nodes)[i] = Cardinality(Below(nodes, i)) + 1
  BY <1>1 DEF Remap, Below
<1>. QED  BY <1>1, <1>3, <1>4, BelowIsFinite

(* No edge between nodes that stay is lost, merged with another or made up. *)
THEOREM WrittenEdgesAreTheLiveOnes ==
  ASSUME NEW g, NEW n \in Nat, DOMAIN g.nodes = 1 .. n, g.edges \in SUBSET ((1 .. n) \X (1 .. n)),
         NEW i \in Keep(g.nodes), NEW j \in Keep(g.nodes)
  PROVE  <<Remap(g.nodes)[i], Remap(g.nodes)[j]>> \in Written(g).edges <=> <<i, j>> \in g.edges
<1> DEFINE remap == Remap(g.nodes)
           kept == {f \in g.edges : {f[1], f[2]} \subseteq Keep(g.nodes)}
<1>1. Written(g).edges = {<<remap[e[1]], remap[e[2]]>> : e \in kept}
  BY DEF Written
<1>2. \A x, y \in Keep(g.nodes) : remap[x] = remap[y] => x = y
  <2> SUFFICES ASSUME NEW x \in Keep(g.nodes), NEW y \in Keep(g.nodes), remap[x] = remap[y], x # y
               PROVE  FALSE
    OBVIOUS
  <2>1. x \in 1 .. n /\ y \in 1 .. n
    BY DEF Keep
  <2>2. remap[x] \in Nat /\ remap[y] \in Nat
    BY <2>1, BelowIsFinite, RemapStaysInRange
  <2>3. CASE x < y
    BY <2>2, <2>3, RemapKeepsOrder
  <2>4. CASE y < x
    BY <2>2, <2>4, RemapKeepsOrder
  <2>. QED  BY <2>1, <2>3, <2>4
<1>3. ASSUME <<i, j>> \in g.edges
      PROVE  <<remap[i], remap[j]>> \in Written(g).edges
  <2>1. <<i, j>> \in kept
    BY <1>3
  <2>. QED  BY <1>1, <2>1
<1>4. ASSUME <<remap[i], remap[j]>> \in Written(g).edges
      PROVE  <<i, j>> \in g.edges
  <2>1. PICK e \in kept : <<remap[i], remap[j]>> = <<remap[e[1]], remap[e[2]]>>
    BY <1>1, <1>4
  <2>2. e[1] \in Keep(g.nodes) /\ e[2] \in Keep(g.nodes) /\ e = <<e[1], e[2]>>
    OBVIOUS
  <2>3. i = e[1] /\ j = e[2]
    <3>1. remap[i] = remap[e[1]] /\ remap[j] = remap[e[2]]
      BY <2>1
    <3>. QED  BY <1>2, <2>2, <3>1
  <2>. QED  BY <2>2, <2>3
<1>. QED  BY <1>3, <1>4

(* "A fresh build has no blanks, in which case the remap is the identity":  *)
(* so is the remap of a graph that was loaded.                              *)
THEOREM RemapWithoutBlanks ==
  ASSUME NEW nodes, NEW n \in Nat, DOMAIN nodes = 1 .. n, Keep(nodes) = DOMAIN nodes
  PROVE  Remap(nodes) = [i \in 1 .. n |-> i]
<1>1. ASSUME NEW i \in 1 .. n
      PROVE  Remap(nodes)[i] = i
  <2>1. Below(nodes, i) = 1 .. (i - 1)
    BY DEF Below
  <2>2. Cardinality(1 .. (i - 1)) = i - 1
    <3>1. Cardinality(1 .. (i - 1)) = IF 1 > i - 1 THEN 0 ELSE (i - 1) - 1 + 1
      BY FS_Interval
    <3>. QED  BY <3>1
  <2>3. Remap(nodes)[i] = Cardinality(Below(nodes, i)) + 1
    BY DEF Remap, Below
  <2>. QED  BY <2>1, <2>2, <2>3
<1>. QED  BY <1>1 DEF Remap

UpTo(S, i) == {j \in S : j <= i}
Rank(S, i) == Cardinality(UpTo(S, i))

(* Only finitely many positions come before one.                            *)
LEMMA UpToIsFinite ==
  ASSUME NEW n \in Nat, NEW S, S \subseteq 1 .. n
  PROVE  /\ IsFiniteSet(S) /\ Cardinality(S) \in Nat
         /\ \A i : /\ IsFiniteSet(UpTo(S, i)) /\ UpTo(S, i) \subseteq S
                   /\ Rank(S, i) \in Nat /\ Rank(S, i) <= Cardinality(S)
<1>1. IsFiniteSet(S)
  <2>1. IsFiniteSet(1 .. n)
    BY FS_Interval
  <2>. QED  BY <2>1, FS_Subset
<1>2. ASSUME NEW i
      PROVE  /\ IsFiniteSet(UpTo(S, i)) /\ UpTo(S, i) \subseteq S
             /\ Rank(S, i) \in Nat /\ Rank(S, i) <= Cardinality(S)
  <2>1. UpTo(S, i) \subseteq S
    BY DEF UpTo
  <2>2. IsFiniteSet(UpTo(S, i)) /\ Cardinality(UpTo(S, i)) <= Cardinality(S)
    BY <1>1, <2>1, FS_Subset
  <2>. QED  BY <2>1, <2>2, FS_CardinalityType DEF Rank
<1>. QED  BY <1>1, <1>2, FS_CardinalityType

(* A later position has a higher rank.                                      *)
LEMMA RanksGrow ==
  ASSUME NEW n \in Nat, NEW S, S \subseteq 1 .. n, NEW i \in S, NEW j \in S, i < j
  PROVE  Rank(S, i) < Rank(S, j)
<1>1. i \in Int /\ j \in Int /\ \A x \in S : x \in Int
  OBVIOUS
<1>2. UpTo(S, i) \subseteq UpTo(S, j)
  <2>1. \A x \in S : x <= i => x <= j
    BY <1>1
  <2>. QED  BY <2>1 DEF UpTo
<1>3. j \in UpTo(S, j) /\ j \notin UpTo(S, i)
  BY <1>1 DEF UpTo
<1>4. IsFiniteSet(UpTo(S, j)) /\ IsFiniteSet(UpTo(S, i)) /\ Rank(S, i) \in Nat /\ Rank(S, j) \in Nat
  BY UpToIsFinite
<1>5. Cardinality(UpTo(S, i)) <= Cardinality(UpTo(S, j))
  BY <1>2, <1>4, FS_Subset
<1>6. Cardinality(UpTo(S, i)) # Cardinality(UpTo(S, j))
  BY <1>2, <1>3, <1>4, FS_Subset
<1>. QED  BY <1>4, <1>5, <1>6 DEF Rank

(* Nth and Rank are inverse to each other: the positions S are counted out  *)
(* without a gap.                                                           *)
LEMMA NthIsRanked ==
  ASSUME NEW n \in Nat, NEW S, S \subseteq 1 .. n
  PROVE  /\ \A k \in 1 .. Cardinality(S) : Nth(S, k) \in S /\ Rank(S, Nth(S, k)) = k
         /\ \A i \in S : Rank(S, i) \in 1 .. Cardinality(S) /\ Nth(S, Rank(S, i)) = i
<1> DEFINE rank == [i \in S |-> Rank(S, i)]
<1>1. PICK m \in Nat : m = Cardinality(S)
  BY UpToIsFinite
<1>2. ASSUME NEW i \in S PROVE Rank(S, i) \in 1 .. m
  <2>1. i \in UpTo(S, i)
    BY DEF UpTo
  <2>2. Rank(S, i) # 0
    BY <2>1, UpToIsFinite, FS_EmptySet DEF Rank
  <2>3. Rank(S, i) \in Nat /\ Rank(S, i) <= m
    BY <1>1, UpToIsFinite
  <2>. QED  BY <2>2, <2>3
<1>3. ASSUME NEW i \in S, NEW j \in S, Rank(S, i) = Rank(S, j) PROVE i = j
  <2>1. i \in Int /\ j \in Int
    OBVIOUS
  <2>2. PICK r \in Nat : r = Rank(S, i) /\ r = Rank(S, j)
    BY <1>3, UpToIsFinite
  <2>3. ~(i < j)
    <3>1. i < j => Rank(S, i) < Rank(S, j)
      BY RanksGrow
    <3>. QED  BY <2>2, <3>1
  <2>4. ~(j < i)
    <3>1. j < i => Rank(S, j) < Rank(S, i)
      BY RanksGrow
    <3>. QED  BY <2>2, <3>1
  <2>. QED  BY <2>1, <2>3, <2>4
<1>4. rank \in Injection(S, 1 .. m)
  BY <1>2, <1>3 DEF Injection, IsInjective
<1>5. IsFiniteSet(1 .. m) /\ Cardinality(1 .. m) = m
  BY FS_Interval
<1>6. rank \in Surjection(S, 1 .. m)
  BY <1>1, <1>4, <1>5, FS_Injection
<1>7. ASSUME NEW k \in 1 .. m PROVE Nth(S, k) \in S /\ Rank(S, Nth(S, k)) = k
  <2>1. PICK i \in S : Rank(S, i) = k
    BY <1>6 DEF Surjection
  <2>2. Nth(S, k) = CHOOSE j \in S : Rank(S, j) = k
    BY DEF Nth, Rank, UpTo
  <2>. QED  BY <2>1, <2>2
<1>8. ASSUME NEW i \in S PROVE Nth(S, Rank(S, i)) = i
  BY <1>2, <1>3, <1>7
<1>. QED  BY <1>1, <1>2, <1>7, <1>8

(* Where write_graph puts a node that stays is where Packed has it.         *)
LEMMA RemapIsRank ==
  ASSUME NEW nodes, NEW n \in Nat, DOMAIN nodes = 1 .. n, NEW i \in Keep(nodes)
  PROVE  Remap(nodes)[i] = Rank(Keep(nodes), i)
<1>1. i \in 1 .. n /\ Keep(nodes) \subseteq 1 .. n
  BY DEF Keep
<1>2. Remap(nodes)[i] = Cardinality(Below(nodes, i)) + 1
  BY <1>1 DEF Remap, Below
<1>3. UpTo(Keep(nodes), i) = Below(nodes, i) \cup {i} /\ i \notin Below(nodes, i)
  BY <1>1 DEF UpTo, Below
<1>4. Cardinality(UpTo(Keep(nodes), i)) = Cardinality(Below(nodes, i)) + 1
  BY <1>1, <1>3, BelowIsFinite, FS_AddElement
<1>. QED  BY <1>2, <1>4 DEF Rank

(* The records of a graph file are the nodes that stay, each where the      *)
(* remap says.                                                              *)
LEMMA PackedNodes ==
  ASSUME NEW nodes, NEW n \in Nat, DOMAIN nodes = 1 .. n, NEW m, m = Cardinality(Keep(nodes))
  PROVE  /\ m \in Nat /\ DOMAIN Packed(nodes) = 1 .. m
         /\ \A i \in Keep(nodes) : Remap(nodes)[i] \in 1 .. m /\ Packed(nodes)[Remap(nodes)[i]] = nodes[i]
         /\ \A k \in 1 .. m : \E i \in Keep(nodes) : Remap(nodes)[i] = k
         /\ \A i, j \in Keep(nodes) : Remap(nodes)[i] = Remap(nodes)[j] => i = j
<1>1. Keep(nodes) \subseteq 1 .. n
  BY DEF Keep
<1>2. m \in Nat /\ DOMAIN Packed(nodes) = 1 .. m
  BY <1>1, UpToIsFinite DEF Packed
<1>3. ASSUME NEW i \in Keep(nodes)
      PROVE  Remap(nodes)[i] \in 1 .. m /\ Packed(nodes)[Remap(nodes)[i]] = nodes[i]
  <2>1. Rank(Keep(nodes), i) \in 1 .. m /\ Nth(Keep(nodes), Rank(Keep(nodes), i)) = i
    BY <1>1, NthIsRanked
  <2>2. Packed(nodes)[Rank(Keep(nodes), i)] = nodes[i]
    BY <2>1 DEF Packed
  <2>. QED  BY <2>1, <2>2, RemapIsRank
<1>4. ASSUME NEW k \in 1 .. m PROVE \E i \in Keep(nodes) : Remap(nodes)[i] = k
  <2>1. Nth(Keep(nodes), k) \in Keep(nodes) /\ Rank(Keep(nodes), Nth(Keep(nodes), k)) = k
    BY <1>1, NthIsRanked
  <2>. QED  BY <2>1, RemapIsRank
<1>5. ASSUME NEW i \in Keep(nodes), NEW j \in Keep(nodes), Remap(nodes)[i] = Remap(nodes)[j] PROVE i = j
  <2>1. Rank(Keep(nodes), i) = Rank(Keep(nodes), j)
    BY <1>5, RemapIsRank
  <2>2. Nth(Keep(nodes), Rank(Keep(nodes), i)) = i /\ Nth(Keep(nodes), Rank(Keep(nodes), j)) = j
    BY <1>1, NthIsRanked
  <2>. QED  BY <2>1, <2>2
<1>. QED  BY <1>2, <1>3, <1>4, <1>5

(* The path table of a file has the path of every record.                   *)
LEMMA PathsFound ==
  ASSUME NEW packed, NEW m \in Nat, DOMAIN packed = 1 .. m, NEW k \in 1 .. m
  PROVE  PathTable(packed)[PathIdx(PathTable(packed), packed[k].ref.file)] = packed[k].ref.file
<1> DEFINE path(i) == packed[i].ref.file
           same == {i \in 1 .. m : path(i) = path(k)}
<1>1. PICK i \in same : \A j \in same : i <= j
  <2>1. same \subseteq Nat /\ same # {}
    OBVIOUS
  <2>. QED  BY <2>1, LeastElement
<1>2. i \in Firsts(packed)
  <2>1. \A j \in 1 .. (i - 1) : j \in 1 .. m /\ ~(i <= j)
    OBVIOUS
  <2>2. \A j \in 1 .. (i - 1) : path(j) # path(i)
    BY <1>1, <2>1
  <2>. QED  BY <2>2 DEF Firsts
<1>3. Firsts(packed) \subseteq 1 .. m
  BY DEF Firsts
<1> DEFINE p == Rank(Firsts(packed), i)
<1>4. p \in 1 .. Cardinality(Firsts(packed)) /\ Nth(Firsts(packed), p) = i
  BY <1>2, <1>3, NthIsRanked
<1>5. PathTable(packed)[p] = path(k) /\ p \in DOMAIN PathTable(packed)
  BY <1>4 DEF PathTable
<1> HIDE DEF p
<1>. QED  BY <1>5 DEF PathIdx

(* A function on the first m numbers is a sequence of that length.          *)
LEMMA LengthOfFunction ==
  ASSUME NEW m \in Nat, NEW f, f = [k \in 1 .. m |-> f[k]]
  PROVE  Len(f) = m
<1> DEFINE S == {f[k] : k \in 1 .. m}
<1>1. \A k \in 1 .. m : f[k] \in S
  OBVIOUS
<1> HIDE DEF S
<1>2. f \in [1 .. m -> S]
  BY <1>1
<1>3. f \in Seq(S)
  BY <1>2
<1>. QED  BY <1>2, <1>3

IsNode(node) ==
  /\ node = [ref |-> node.ref, flags |-> node.flags]
  /\ "file" \in DOMAIN node.ref
  /\ node.ref = [field \in DOMAIN node.ref |-> node.ref[field]]

(* A graph as a live context has it: n slots, some of them blank, and edges *)
(* between those that are not.                                              *)
LiveGraph(g, n) ==
  /\ n \in Nat /\ DOMAIN g.nodes = 1 .. n /\ Len(g.nodes) = n
  /\ \A i \in Keep(g.nodes) : IsNode(g.nodes[i])
  /\ \A e \in g.edges : e[1] \in Keep(g.nodes) /\ e[2] \in Keep(g.nodes)

(* read_graph makes of a record the node write_graph made it of.            *)
LEMMA RecordReadsBack ==
  ASSUME NEW node, IsNode(node), NEW paths, paths[PathIdx(paths, node.ref.file)] = node.ref.file,
         NEW record, record = Record(paths, node)
  PROVE  [ref |-> Ref(record.what, paths[record.path]), flags |-> record.flags] = node
<1>1. /\ record.what = [field \in DOMAIN node.ref \ {"file"} |-> node.ref[field]]
      /\ record.path = PathIdx(paths, node.ref.file) /\ record.flags = node.flags
  BY DEF Record
<1>2. DOMAIN record.what \cup {"file"} = DOMAIN node.ref
  BY <1>1 DEF IsNode
<1>3. Ref(record.what, node.ref.file) = [field \in DOMAIN node.ref |-> node.ref[field]]
  <2>1. \A field \in DOMAIN node.ref :
          (IF field = "file" THEN node.ref.file ELSE record.what[field]) = node.ref[field]
    BY <1>1
  <2>. QED  BY <1>2, <2>1 DEF Ref
<1>4. Ref(record.what, paths[record.path]) = node.ref
  BY <1>1, <1>3 DEF IsNode
<1>. QED  BY <1>1, <1>4 DEF IsNode

(* The nodes of a file that is read are those that stayed when it was       *)
(* written.                                                                 *)
LEMMA LoadedNodes ==
  ASSUME NEW g, NEW n, LiveGraph(g, n), NEW m, m = Cardinality(Keep(g.nodes)),
         NEW loaded, loaded = Loaded(Written(g))
  PROVE  /\ loaded.nodes = Packed(g.nodes)
         /\ DOMAIN loaded.nodes = 1 .. m /\ Len(loaded.nodes) = m
         /\ loaded.edges = Written(g).edges
         /\ loaded = [nodes |-> loaded.nodes, edges |-> loaded.edges]
<1> DEFINE packed == Packed(g.nodes)
           paths  == PathTable(packed)
           file   == Written(g)
<1>1. /\ m \in Nat /\ DOMAIN packed = 1 .. m
      /\ \A k \in 1 .. m : \E i \in Keep(g.nodes) : packed[k] = g.nodes[i]
  <2>1. DOMAIN g.nodes = 1 .. n /\ n \in Nat
    BY DEF LiveGraph
  <2>2. m \in Nat /\ DOMAIN packed = 1 .. m
    BY <2>1, PackedNodes
  <2>3. \A k \in 1 .. m : \E i \in Keep(g.nodes) : Remap(g.nodes)[i] = k
    BY <2>1, PackedNodes
  <2>4. \A i \in Keep(g.nodes) : packed[Remap(g.nodes)[i]] = g.nodes[i]
    BY <2>1, PackedNodes
  <2>. QED  BY <2>2, <2>3, <2>4
<1>2. file.paths = paths /\ file.nodes = [k \in 1 .. m |-> Record(paths, packed[k])]
  BY <1>1 DEF Written
<1>3. loaded.edges = file.edges
      /\ loaded.nodes = [k \in 1 .. m |-> [ref   |-> Ref(file.nodes[k].what, paths[file.nodes[k].path]),
                                          flags |-> file.nodes[k].flags]]
  BY <1>2 DEF Loaded
<1>4. ASSUME NEW k \in 1 .. m PROVE loaded.nodes[k] = packed[k]
  <2>1. IsNode(packed[k])
    BY <1>1 DEF LiveGraph
  <2>2. paths[PathIdx(paths, packed[k].ref.file)] = packed[k].ref.file
    BY <1>1, PathsFound
  <2>3. file.nodes[k] = Record(paths, packed[k])
    BY <1>2
  <2> HIDE DEF file, packed, paths
  <2>4. [ref |-> Ref(file.nodes[k].what, paths[file.nodes[k].path]), flags |-> file.nodes[k].flags] = packed[k]
    BY <2>1, <2>2, <2>3, RecordReadsBack
  <2>. QED  BY <1>3, <2>4
<1>5. loaded.nodes = packed /\ DOMAIN loaded.nodes = 1 .. m
  <2>1. loaded.nodes = [k \in 1 .. m |-> loaded.nodes[k]]
    BY <1>3
  <2>2. packed = [k \in 1 .. m |-> packed[k]]
    BY DEF Packed
  <2> HIDE DEF packed
  <2>. QED  BY <1>4, <2>1, <2>2
<1>6. Len(loaded.nodes) = m
  <2>1. packed = [k \in 1 .. m |-> packed[k]]
    BY DEF Packed
  <2> HIDE DEF packed
  <2>. QED  BY <1>1, <1>5, <2>1, LengthOfFunction
<1>7. loaded = [nodes |-> loaded.nodes, edges |-> loaded.edges]
  BY DEF Loaded
<1>. QED  BY <1>3, <1>5, <1>6, <1>7

(* No edge of a live graph is left out.                                     *)
LEMMA WrittenEdges ==
  ASSUME NEW g, NEW n, LiveGraph(g, n)
  PROVE  Written(g).edges = {<<Remap(g.nodes)[e[1]], Remap(g.nodes)[e[2]]>> : e \in g.edges}
<1>1. {f \in g.edges : {f[1], f[2]} \subseteq Keep(g.nodes)} = g.edges
  BY DEF LiveGraph
<1>. QED  BY <1>1 DEF Written

(* What is packed has no blanks and packs to itself.                        *)
LEMMA PackedTwice ==
  ASSUME NEW nodes, NEW n \in Nat, DOMAIN nodes = 1 .. n, NEW m, m = Cardinality(Keep(nodes)),
         NEW packed, packed = Packed(nodes)
  PROVE  Keep(packed) = 1 .. m /\ Packed(packed) = packed /\ Remap(packed) = [k \in 1 .. m |-> k]
<1>1. m \in Nat /\ DOMAIN packed = 1 .. m
  BY PackedNodes
<1>2. ASSUME NEW k \in 1 .. m PROVE packed[k] # Blank
  <2>1. PICK i \in Keep(nodes) : Remap(nodes)[i] = k
    BY PackedNodes
  <2>2. packed[k] = nodes[i]
    BY <2>1, PackedNodes
  <2>. QED  BY <2>2 DEF Keep
<1>3. Keep(packed) = 1 .. m
  BY <1>1, <1>2 DEF Keep
<1>4. Remap(packed) = [k \in 1 .. m |-> k]
  BY <1>1, <1>3, RemapWithoutBlanks
<1>5. Cardinality(Keep(packed)) = m
  <2>1. Cardinality(1 .. m) = m
    BY <1>1, FS_Interval
  <2>. QED  BY <1>3, <2>1
<1>6. DOMAIN Packed(packed) = 1 .. m /\ \A k \in 1 .. m : Packed(packed)[k] = packed[k]
  <2>1. DOMAIN Packed(packed) = 1 .. m
    BY <1>1, <1>5, PackedNodes
  <2>2. \A k \in Keep(packed) : Packed(packed)[Remap(packed)[k]] = packed[k]
    BY <1>1, <1>5, PackedNodes
  <2>. QED  BY <1>3, <1>4, <2>1, <2>2
<1>7. Packed(packed) = packed
  <2>1. Packed(packed) = [k \in 1 .. m |-> Packed(packed)[k]]
    BY <1>5 DEF Packed
  <2>2. packed = [k \in 1 .. m |-> packed[k]]
    BY DEF Packed
  <2>. QED  BY <1>6, <2>1, <2>2
<1>. QED  BY <1>3, <1>4, <1>7

(* A file written from a graph that was loaded is the file it was read      *)
(* from.                                                                    *)
THEOREM WritesBack ==
  ASSUME NEW g, NEW n, LiveGraph(g, n), NEW loaded, loaded = Loaded(Written(g))
  PROVE  Written(loaded) = Written(g)
<1> DEFINE m == Cardinality(Keep(g.nodes))
           packed == Packed(g.nodes)
           remap == Remap(g.nodes)
<1>1. /\ DOMAIN g.nodes = 1 .. n /\ n \in Nat
      /\ \A d \in g.edges : d[1] \in Keep(g.nodes) /\ d[2] \in Keep(g.nodes)
  BY DEF LiveGraph
<1>2. loaded.nodes = packed /\ loaded.edges = Written(g).edges
  BY LoadedNodes
<1>3. Keep(packed) = 1 .. m /\ Packed(packed) = packed /\ Remap(packed) = [k \in 1 .. m |-> k]
  BY <1>1, PackedTwice
<1>4. ASSUME NEW e \in loaded.edges
      PROVE  e[1] \in 1 .. m /\ e[2] \in 1 .. m /\ e = <<e[1], e[2]>>
  <2>1. PICK d \in g.edges : e = <<remap[d[1]], remap[d[2]]>>
    BY <1>2, WrittenEdges
  <2>2. d[1] \in Keep(g.nodes) /\ d[2] \in Keep(g.nodes)
    BY <1>1
  <2>3. remap[d[1]] \in 1 .. m /\ remap[d[2]] \in 1 .. m
    BY <1>1, <2>2, PackedNodes
  <2>. QED  BY <2>1, <2>3
<1>5. {f \in loaded.edges : {f[1], f[2]} \subseteq Keep(packed)} = loaded.edges
  BY <1>3, <1>4
<1>6. {<<Remap(packed)[e[1]], Remap(packed)[e[2]]>> : e \in loaded.edges} = loaded.edges
  BY <1>3, <1>4
<1>7. Written(loaded).edges = Written(g).edges
  <2>1. Written(loaded).edges =
          {<<Remap(loaded.nodes)[e[1]], Remap(loaded.nodes)[e[2]]>> :
             e \in {f \in loaded.edges : {f[1], f[2]} \subseteq Keep(loaded.nodes)}}
    BY DEF Written
  <2>. QED  BY <1>2, <1>5, <1>6, <2>1
<1>8. Written(loaded).paths = Written(g).paths /\ Written(loaded).nodes = Written(g).nodes
  BY <1>2, <1>3 DEF Written
<1>9. /\ Written(loaded) = [paths |-> Written(loaded).paths, nodes |-> Written(loaded).nodes,
                           edges |-> Written(loaded).edges]
      /\ Written(g) = [paths |-> Written(g).paths, nodes |-> Written(g).nodes, edges |-> Written(g).edges]
  BY DEF Written
<1>. QED  BY <1>7, <1>8, <1>9

-----------------------------------------------------------------------------
(* Reachability: turn by turn, n turns reach all that can be reached over n *)
(* slots.                                                                   *)

Turns(turn, seeds, edges, n) ==
  turn = [k \in 0 .. n |-> IF k = 0 THEN seeds ELSE Visit(turn[k - 1], edges)]

Closed(S, edges) == \A e \in edges : e[1] \in S => e[2] \in S

(* The recursion of Visited has a solution.                                 *)
LEMMA TurnsExist ==
  ASSUME NEW seeds, NEW edges, NEW n \in Nat
  PROVE  \E turn : Turns(turn, seeds, edges, n)
<1> DEFINE T == {k \in Nat : ~ \E turn : Turns(turn, seeds, edges, k)}
<1> SUFFICES ASSUME T # {} PROVE FALSE
  OBVIOUS
<1>1. PICK m \in T : \A k \in T : m <= k
  BY LeastElement
<1>2. m # 0
  <2>1. Turns([k \in 0 .. 0 |-> seeds], seeds, edges, 0)
    BY DEF Turns
  <2>. QED  BY <1>1, <2>1
<1>3. PICK g : Turns(g, seeds, edges, m - 1)
  BY <1>1, <1>2
<1> DEFINE f == [k \in 0 .. m |-> IF k = 0 THEN seeds ELSE Visit(g[k - 1], edges)]
<1>4. m \in Nat /\ \A k \in 0 .. (m - 1) : g[k] = IF k = 0 THEN seeds ELSE Visit(g[k - 1], edges)
  BY <1>1, <1>3 DEF Turns
<1>5. \A k \in 0 .. (m - 1) : f[k] = g[k]
  BY <1>4
<1>6. \A k \in 0 .. m : k # 0 => k - 1 \in 0 .. (m - 1)
  BY <1>4
<1>7. f = [k \in 0 .. m |-> IF k = 0 THEN seeds ELSE Visit(f[k - 1], edges)]
  <2>. \A k \in 0 .. m : f[k] = IF k = 0 THEN seeds ELSE Visit(f[k - 1], edges)
    BY <1>5, <1>6
  <2>. QED  OBVIOUS
<1>. QED  BY <1>1, <1>7 DEF Turns

(* Visited is the last of the turns.                                        *)
LEMMA VisitedIsLast ==
  ASSUME NEW seeds, NEW edges, NEW n \in Nat
  PROVE  \E turn : Turns(turn, seeds, edges, n) /\ Visited(seeds, edges, n) = turn[n]
<1> DEFINE f == CHOOSE turn : Turns(turn, seeds, edges, n)
<1>1. Turns(f, seeds, edges, n)
  BY TurnsExist
<1>2. Visited(seeds, edges, n) = f[n]
  BY DEF Visited, Turns
<1>. QED  BY <1>1, <1>2

(* No turn leaves a closed set that holds the seeds.                        *)
LEMMA TurnsStayInside ==
  ASSUME NEW turn, NEW seeds, NEW edges, NEW n \in Nat, Turns(turn, seeds, edges, n),
         NEW S, seeds \subseteq S, Closed(S, edges)
  PROVE  \A k \in 0 .. n : seeds \subseteq turn[k] /\ turn[k] \subseteq S
<1> DEFINE T == {k \in 0 .. n : ~(seeds \subseteq turn[k] /\ turn[k] \subseteq S)}
<1> SUFFICES ASSUME T # {} PROVE FALSE
  OBVIOUS
<1>1. PICK m \in T : \A k \in T : m <= k
  <2>1. T \subseteq Nat
    OBVIOUS
  <2> HIDE DEF T
  <2>. QED  BY <2>1, LeastElement
<1>2. m \in 0 .. n /\ turn[m] = IF m = 0 THEN seeds ELSE Visit(turn[m - 1], edges)
  BY <1>1 DEF Turns
<1>3. m # 0
  BY <1>1, <1>2
<1>4. seeds \subseteq turn[m - 1] /\ turn[m - 1] \subseteq S
  <2>1. m - 1 \in 0 .. n /\ ~(m <= m - 1)
    BY <1>2, <1>3
  <2>. QED  BY <1>1, <2>1
<1>5. turn[m] = turn[m - 1] \cup {e[2] : e \in {f \in edges : f[1] \in turn[m - 1]}}
  BY <1>2, <1>3 DEF Visit
<1>6. {e[2] : e \in {f \in edges : f[1] \in turn[m - 1]}} \subseteq S
  BY <1>4 DEF Closed
<1>. QED  BY <1>1, <1>4, <1>5, <1>6

(* A turn finds a node nobody visited, until there is none to find.         *)
LEMMA TurnsClose ==
  ASSUME NEW turn, NEW seeds, NEW edges, NEW n \in Nat, Turns(turn, seeds, edges, n),
         seeds \subseteq 1 .. n, \A e \in edges : e[1] \in 1 .. n /\ e[2] \in 1 .. n
  PROVE  Closed(turn[n], edges)
<1>1. Closed(1 .. n, edges)
  BY DEF Closed
<1>2. \A k \in 0 .. n : turn[k] \subseteq 1 .. n
  BY <1>1, TurnsStayInside
<1>3. \A k \in 0 .. n : IsFiniteSet(turn[k]) /\ Cardinality(turn[k]) \in Nat
  <2> SUFFICES ASSUME NEW k \in 0 .. n PROVE IsFiniteSet(turn[k]) /\ Cardinality(turn[k]) \in Nat
    OBVIOUS
  <2>1. turn[k] \subseteq 1 .. n
    BY <1>2
  <2>. QED  BY <2>1, UpToIsFinite
<1> DEFINE T == {k \in 0 .. n : ~(Closed(turn[k], edges) \/ k <= Cardinality(turn[k]))}
<1>4. T = {}
  <2> SUFFICES ASSUME T # {} PROVE FALSE
    OBVIOUS
  <2>1. PICK m \in T : \A k \in T : m <= k
    <3>1. T \subseteq Nat
      OBVIOUS
    <3> HIDE DEF T
    <3>. QED  BY <3>1, LeastElement
  <2>2. m \in 0 .. n /\ turn[m] = IF m = 0 THEN seeds ELSE Visit(turn[m - 1], edges)
    BY <2>1 DEF Turns
  <2>3. m # 0
    <3>1. \A c \in Nat : 0 <= c
      OBVIOUS
    <3>. QED  BY <1>3, <2>1, <3>1
  <2>4. m - 1 \in 0 .. n /\ ~(m <= m - 1)
    BY <2>2, <2>3
  <2>5. Closed(turn[m - 1], edges) \/ m - 1 <= Cardinality(turn[m - 1])
    BY <2>1, <2>4
  <2>6. turn[m] = turn[m - 1] \cup {e[2] : e \in {f \in edges : f[1] \in turn[m - 1]}}
    BY <2>2, <2>3 DEF Visit
  <2>7. CASE Closed(turn[m - 1], edges)
    <3>1. turn[m] = turn[m - 1]
      BY <2>6, <2>7 DEF Closed
    <3>. QED  BY <2>1, <2>7, <3>1
  <2>8. CASE ~Closed(turn[m - 1], edges)
    <3>1. turn[m] # turn[m - 1] /\ turn[m - 1] \subseteq turn[m]
      BY <2>6, <2>8 DEF Closed
    <3>2. PICK c, d \in Nat : c = Cardinality(turn[m - 1]) /\ d = Cardinality(turn[m])
      BY <1>3, <2>2, <2>4
    <3>3. c <= d /\ c # d
      <4>1. IsFiniteSet(turn[m])
        BY <1>3, <2>2
      <4>2. Cardinality(turn[m - 1]) <= Cardinality(turn[m])
        BY <3>1, <4>1, FS_Subset
      <4>3. Cardinality(turn[m - 1]) # Cardinality(turn[m])
        BY <3>1, <4>1, FS_Subset
      <4>. QED  BY <3>2, <4>2, <4>3
    <3>4. m - 1 <= c /\ m \in Nat
      BY <2>2, <2>5, <2>8, <3>2
    <3>5. m <= d
      BY <3>3, <3>4
    <3>. QED  BY <2>1, <3>2, <3>5
  <2>. QED  BY <2>7, <2>8
<1>5. n \in 0 .. n
  OBVIOUS
<1>6. CASE n <= Cardinality(turn[n])
  <2>1. IsFiniteSet(1 .. n) /\ Cardinality(1 .. n) = n
    BY FS_Interval
  <2>2. Cardinality(turn[n]) <= Cardinality(1 .. n)
    BY <1>2, <1>5, <2>1, FS_Subset
  <2>3. PICK c \in Nat : c = Cardinality(turn[n])
    BY <1>3, <1>5
  <2>4. c = n
    BY <1>6, <2>1, <2>2, <2>3
  <2>5. turn[n] = 1 .. n
    BY <1>2, <1>5, <2>1, <2>3, <2>4, FS_Subset
  <2>. QED  BY <1>1, <2>5
<1>. QED  BY <1>4, <1>5, <1>6

(* The loop visits what can be reached, and nothing else: the least closed  *)
(* set with the seeds.                                                      *)
THEOREM VisitedIsLeast ==
  ASSUME NEW n \in Nat, NEW seeds, seeds \subseteq 1 .. n, NEW edges,
         \A e \in edges : e[1] \in 1 .. n /\ e[2] \in 1 .. n
  PROVE  /\ seeds \subseteq Visited(seeds, edges, n)
         /\ Closed(Visited(seeds, edges, n), edges)
         /\ \A S : seeds \subseteq S /\ Closed(S, edges) => Visited(seeds, edges, n) \subseteq S
<1>1. PICK turn : Turns(turn, seeds, edges, n) /\ Visited(seeds, edges, n) = turn[n]
  BY VisitedIsLast
<1>2. n \in 0 .. n /\ Closed(1 .. n, edges)
  BY DEF Closed
<1>3. seeds \subseteq turn[n]
  BY <1>1, <1>2, TurnsStayInside
<1>4. Closed(turn[n], edges)
  BY <1>1, TurnsClose
<1>5. ASSUME NEW S, seeds \subseteq S, Closed(S, edges) PROVE turn[n] \subseteq S
  BY <1>1, <1>2, <1>5, TurnsStayInside
<1>. QED  BY <1>1, <1>3, <1>4, <1>5

(* What a graph that was loaded answers: the same nodes, each at its new    *)
(* place.                                                                   *)
THEOREM LoadedReachesTheSame ==
  ASSUME NEW g, NEW n, LiveGraph(g, n), NEW mask, Blank.flags \cap mask = {},
         NEW loaded, loaded = Loaded(Written(g))
  PROVE  Reachable(loaded, mask) = Reachable(g, mask)
<1> DEFINE keep    == Keep(g.nodes)
           m       == Cardinality(keep)
           remap   == Remap(g.nodes)
           packed  == Packed(g.nodes)
           seeds   == Seeds(g.nodes, mask)
           lseeds  == Seeds(packed, mask)
           ledges  == Written(g).edges
           visited == Visited(seeds, g.edges, n)
           lvisited == Visited(lseeds, ledges, m)
<1>1. /\ DOMAIN g.nodes = 1 .. n /\ n \in Nat /\ Len(g.nodes) = n /\ keep \subseteq 1 .. n
      /\ \A e \in g.edges : e[1] \in keep /\ e[2] \in keep
  BY DEF LiveGraph, Keep
<1>2. /\ m \in Nat /\ DOMAIN packed = 1 .. m
      /\ \A i \in keep : remap[i] \in 1 .. m
      /\ \A i \in keep : packed[remap[i]] = g.nodes[i]
      /\ \A k \in 1 .. m : \E i \in keep : remap[i] = k
      /\ \A i, j \in keep : remap[i] = remap[j] => i = j
  BY <1>1, PackedNodes
<1>3. loaded.nodes = packed /\ loaded.edges = ledges /\ Len(loaded.nodes) = m
  BY LoadedNodes
<1>4. ledges = {<<remap[e[1]], remap[e[2]]>> : e \in g.edges}
  BY WrittenEdges
<1>5. seeds \subseteq keep /\ seeds = {i \in keep : g.nodes[i].flags \cap mask # {}}
  <2>1. \A i \in 1 .. n : i \notin keep => g.nodes[i] = Blank
    BY <1>1 DEF Keep
  <2>. QED  BY <1>1, <2>1 DEF Seeds
<1>6. lseeds = {k \in 1 .. m : packed[k].flags \cap mask # {}}
  BY <1>2 DEF Seeds
<1> HIDE DEF m, remap, packed, seeds, lseeds, ledges, keep
<1>7. \A i \in keep : remap[i] \in lseeds <=> i \in seeds
  BY <1>2, <1>5, <1>6
<1>8. (\A e \in g.edges : e[1] \in 1 .. n /\ e[2] \in 1 .. n) /\ seeds \subseteq 1 .. n
  BY <1>1, <1>5
<1>9. (\A d \in ledges : d[1] \in 1 .. m /\ d[2] \in 1 .. m) /\ lseeds \subseteq 1 .. m
  <2>1. ASSUME NEW d \in ledges PROVE d[1] \in 1 .. m /\ d[2] \in 1 .. m
    <3>1. PICK e \in g.edges : d = <<remap[e[1]], remap[e[2]]>>
      BY <1>4
    <3>2. e[1] \in keep /\ e[2] \in keep
      BY <1>1
    <3>. QED  BY <1>2, <3>1, <3>2
  <2>. QED  BY <1>6, <2>1
<1>10. /\ seeds \subseteq visited /\ Closed(visited, g.edges)
       /\ \A S : seeds \subseteq S /\ Closed(S, g.edges) => visited \subseteq S
  BY <1>1, <1>8, VisitedIsLeast
<1>11. /\ lseeds \subseteq lvisited /\ Closed(lvisited, ledges)
       /\ \A S : lseeds \subseteq S /\ Closed(S, ledges) => lvisited \subseteq S
  BY <1>2, <1>9, VisitedIsLeast
<1> HIDE DEF visited, lvisited
<1>12. visited \subseteq {i \in keep : remap[i] \in lvisited}
  <2> DEFINE S == {i \in keep : remap[i] \in lvisited}
  <2>1. seeds \subseteq S
    BY <1>5, <1>7, <1>11
  <2>2. ASSUME NEW e \in g.edges, e[1] \in S PROVE e[2] \in S
    <3>1. <<remap[e[1]], remap[e[2]]>> \in ledges
      BY <1>4
    <3>2. remap[e[2]] \in lvisited
      BY <1>11, <2>2, <3>1 DEF Closed
    <3>. QED  BY <1>1, <3>2
  <2>3. Closed(S, g.edges)
    BY <2>2 DEF Closed
  <2> HIDE DEF S
  <2>. QED  BY <1>10, <2>1, <2>3 DEF S
<1>13. lvisited \subseteq {remap[i] : i \in visited}
  <2> DEFINE S == {remap[i] : i \in visited}
  <2>1. lseeds \subseteq S
    <3> SUFFICES ASSUME NEW k \in lseeds PROVE k \in S
      OBVIOUS
    <3>1. PICK i \in keep : remap[i] = k
      BY <1>2, <1>6
    <3>. QED  BY <1>7, <1>10, <3>1
  <2>2. ASSUME NEW d \in ledges, d[1] \in S PROVE d[2] \in S
    <3>1. PICK e \in g.edges : d = <<remap[e[1]], remap[e[2]]>>
      BY <1>4
    <3>2. PICK i \in visited : d[1] = remap[i]
      BY <2>2
    <3>3. e[1] = i
      BY <1>1, <1>2, <1>12, <3>1, <3>2
    <3>4. e[2] \in visited
      BY <1>10, <3>2, <3>3 DEF Closed
    <3>. QED  BY <3>1, <3>4
  <2>3. Closed(S, ledges)
    BY <2>2 DEF Closed
  <2> HIDE DEF S
  <2>. QED  BY <1>11, <2>1, <2>3 DEF S
<1>14. {packed[k] : k \in lvisited} = {g.nodes[i] : i \in visited}
  <2>1. ASSUME NEW k \in lvisited PROVE \E i \in visited : packed[k] = g.nodes[i]
    BY <1>2, <1>12, <1>13
  <2>2. ASSUME NEW i \in visited PROVE \E k \in lvisited : packed[k] = g.nodes[i]
    BY <1>2, <1>12
  <2>. QED  BY <2>1, <2>2
<1>15. Reachable(g, mask) = {g.nodes[i] : i \in visited}
  BY <1>1 DEF Reachable, visited, seeds
<1>16. Reachable(loaded, mask) = {packed[k] : k \in lvisited}
  BY <1>3 DEF Reachable, lvisited, lseeds
<1>. QED  BY <1>14, <1>15, <1>16

(* A graph has the nodes of g that stay, and edges between the same nodes.  *)
SameGraph(g, loaded) ==
  /\ Len(loaded.nodes) = Cardinality(Keep(g.nodes))
  /\ {loaded.nodes[k] : k \in DOMAIN loaded.nodes} = {g.nodes[i] : i \in Keep(g.nodes)}
  /\ \A e \in loaded.edges : {e[1], e[2]} \subseteq DOMAIN loaded.nodes
  /\ {<<loaded.nodes[e[1]].ref, loaded.nodes[e[2]].ref>> : e \in loaded.edges}
       = {<<g.nodes[e[1]].ref, g.nodes[e[2]].ref>> : e \in g.edges}

(* The round trip: write_graph and read_graph keep the nodes that stay, the *)
(* edges between them, what can be reached, and the file.                   *)
THEOREM SavedGraphRoundTrips ==
  ASSUME NEW g, NEW n, LiveGraph(g, n), NEW mask, Blank.flags \cap mask = {},
         NEW file, file = Written(g), NEW loaded, loaded = Loaded(file)
  PROVE  /\ SameGraph(g, loaded)
         /\ Reachable(loaded, mask) = Reachable(g, mask)
         /\ Written(loaded) = file
<1> DEFINE keep   == Keep(g.nodes)
           m      == Cardinality(keep)
           remap  == Remap(g.nodes)
           packed == Packed(g.nodes)
<1>1. /\ DOMAIN g.nodes = 1 .. n /\ n \in Nat
      /\ \A e \in g.edges : e[1] \in keep /\ e[2] \in keep
  BY DEF LiveGraph
<1>2. /\ DOMAIN packed = 1 .. m
      /\ \A i \in keep : remap[i] \in 1 .. m
      /\ \A i \in keep : packed[remap[i]] = g.nodes[i]
      /\ \A k \in 1 .. m : \E i \in keep : remap[i] = k
  BY <1>1, PackedNodes
<1>3. loaded.nodes = packed /\ Len(loaded.nodes) = m
  BY LoadedNodes
<1>4. loaded.edges = {<<remap[e[1]], remap[e[2]]>> : e \in g.edges}
  BY LoadedNodes, WrittenEdges
<1>5. Reachable(loaded, mask) = Reachable(g, mask)
  BY LoadedReachesTheSame
<1>6. Written(loaded) = file
  BY WritesBack
<1> HIDE DEF m, remap, packed, keep
<1>7. {packed[k] : k \in 1 .. m} = {g.nodes[i] : i \in keep}
  <2>1. ASSUME NEW k \in 1 .. m PROVE \E i \in keep : packed[k] = g.nodes[i]
    BY <1>2
  <2>2. ASSUME NEW i \in keep PROVE \E k \in 1 .. m : packed[k] = g.nodes[i]
    BY <1>2
  <2>. QED  BY <2>1, <2>2
<1>8. \A e \in g.edges : e[1] \in keep /\ e[2] \in keep
  BY <1>1
<1>9. ASSUME NEW d \in loaded.edges PROVE {d[1], d[2]} \subseteq 1 .. m
  <2>1. PICK e \in g.edges : d = <<remap[e[1]], remap[e[2]]>>
    BY <1>4
  <2>. QED  BY <1>2, <1>8, <2>1
<1>10. {<<packed[d[1]].ref, packed[d[2]].ref>> : d \in loaded.edges}
         = {<<g.nodes[e[1]].ref, g.nodes[e[2]].ref>> : e \in g.edges}
  <2>1. ASSUME NEW d \in loaded.edges
        PROVE  \E e \in g.edges : <<packed[d[1]].ref, packed[d[2]].ref>> = <<g.nodes[e[1]].ref, g.nodes[e[2]].ref>>
    <3>1. PICK e \in g.edges : d = <<remap[e[1]], remap[e[2]]>>
      BY <1>4
    <3>. QED  BY <1>2, <1>8, <3>1
  <2>2. ASSUME NEW e \in g.edges
        PROVE  \E d \in loaded.edges : <<packed[d[1]].ref, packed[d[2]].ref>> = <<g.nodes[e[1]].ref, g.nodes[e[2]].ref>>
    <3>1. <<remap[e[1]], remap[e[2]]>> \in loaded.edges
      BY <1>4
    <3>2. packed[remap[e[1]]] = g.nodes[e[1]] /\ packed[remap[e[2]]] = g.nodes[e[2]]
      BY <1>2, <1>8
    <3>. QED  BY <3>1, <3>2
  <2>. QED  BY <2>1, <2>2
<1>. QED  BY <1>2, <1>3, <1>5, <1>6, <1>7, <1>9, <1>10 DEF keep, m, SameGraph
=============================================================================
