------------------------------ MODULE GraphFile ------------------------------
(***************************************************************************)
(* A graph on disk: write_graph and read_graph of src/runtime/src/io.rs,   *)
(* and LoadedGraph of src/python/dead_cst/graph.py.                        *)
(*                                                                         *)
(* A graph is [nodes, edges], as nodes() and edges() of a live context or  *)
(* of a loaded graph hand it over: a sequence of nodes [ref, flags], some  *)
(* of which a live context has blanked, and pairs of positions in it, from *)
(* 1.  Header, counts, metadata and the flag registries are left out, and  *)
(* so are the errors of the file system.                                   *)
(***************************************************************************)
EXTENDS Integers, Sequences, FiniteSets

CONSTANT Blank           \* a tombstone: the node whose kind is empty

-----------------------------------------------------------------------------
(* write_graph.                                                            *)

Keep(nodes) == {i \in DOMAIN nodes : nodes[i] # Blank}

(* Mutant: `next' is raised before it is read.                              *)
RemapAfter(nodes) == [i \in DOMAIN nodes |-> Cardinality({j \in Keep(nodes) : j <= i}) + 1]

(* Where a node goes: after those before it that stay.                      *)
Remap(nodes) == [i \in DOMAIN nodes |-> Cardinality({j \in Keep(nodes) : j < i}) + 1]

(* The kth smallest of the positions S.                                     *)
Nth(S, k) == CHOOSE i \in S : Cardinality({j \in S : j <= i}) = k

(* The nodes that stay, in their order.                                     *)
Packed(nodes) == [k \in 1 .. Cardinality(Keep(nodes)) |-> nodes[Nth(Keep(nodes), k)]]

(* Every distinct path, in the order of the first node that has it.         *)
Firsts(packed) ==
  {k \in DOMAIN packed : \A j \in 1 .. (k - 1) : packed[j].ref.file # packed[k].ref.file}

PathTable(packed) ==
  [p \in 1 .. Cardinality(Firsts(packed)) |-> packed[Nth(Firsts(packed), p)].ref.file]

PathIdx(paths, path) == CHOOSE k \in DOMAIN paths : paths[k] = path

Record(paths, node) ==
  [what  |-> [field \in DOMAIN node.ref \ {"file"} |-> node.ref[field]],
   path  |-> PathIdx(paths, node.ref.file),
   flags |-> node.flags]

Written(g) ==
  LET keep   == Keep(g.nodes)
      remap  == Remap(g.nodes)
      packed == Packed(g.nodes)
      paths  == PathTable(packed)
  IN  [paths |-> paths,
       nodes |-> [k \in DOMAIN packed |-> Record(paths, packed[k])],
       edges |-> {<<remap[e[1]], remap[e[2]]>> : e \in {f \in g.edges : {f[1], f[2]} \subseteq keep}}]

-----------------------------------------------------------------------------
(* read_graph.                                                             *)

Ref(what, path) ==
  [field \in DOMAIN what \cup {"file"} |-> IF field = "file" THEN path ELSE what[field]]

Loaded(file) ==
  [nodes |-> [k \in DOMAIN file.nodes |->
                [ref   |-> Ref(file.nodes[k].what, file.paths[file.nodes[k].path]),
                 flags |-> file.nodes[k].flags]],
   edges |-> file.edges]

-----------------------------------------------------------------------------
(* LoadedGraph.reachable, and reachable of a context: one loop over a stack *)
(* (module Reachability), here turn by turn for all that is pending: no     *)
(* walk takes more turns than there are nodes.                              *)
Visit(visited, edges) == visited \cup {e[2] : e \in {f \in edges : f[1] \in visited}}

Visited(seeds, edges, n) ==
  LET turn[k \in 0 .. n] == IF k = 0 THEN seeds ELSE Visit(turn[k - 1], edges)
  IN  turn[n]

Seeds(nodes, mask) == {i \in DOMAIN nodes : nodes[i].flags \cap mask # {}}

Reachable(g, mask) ==
  {g.nodes[i] : i \in Visited(Seeds(g.nodes, mask), g.edges, Len(g.nodes))}
=============================================================================
