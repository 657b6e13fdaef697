--------------------------------- MODULE MainBlock ---------------------------------
(***************************************************************************)
(* What keeps the block `if __name__ == "__main__":' of a file alive: the  *)
(* plugin of src/runtime/src/native_plugins.rs, which goes by lines, and   *)
(* the query for project-wide plugins of src/runtime/src/project.rs, which *)
(* goes by bytes and reads the facts.                                      *)
(*                                                                         *)
(* So here a file has a text, a sequence of pieces: ends of lines, names   *)
(* and other words, with the top-level statement they are of, 0 for what   *)
(* is between statements.  Offset o is after o pieces; a range is          *)
(* [start, end) in offsets.                                                *)
(***************************************************************************)
EXTENDS ProjectQueries
LOCAL INSTANCE SequencesExt
LOCAL INSTANCE FiniteSetsExt

-----------------------------------------------------------------------------
(* Layout, as the rules of Python allow it (outside this repository): a     *)
(* suite is on the line of its clause or on lines of its own, and brackets  *)
(* spread a statement over lines.  A style is [inline, spread], sets of     *)
(* top-level statements.                                                    *)

Word(i)       == [is |-> "word", of |-> i, name |-> <<>>]
NameAt(range) == [is |-> "name", of |-> range[1], name |-> range]
NewLine(i)    == [is |-> "newline", of |-> i, name |-> <<>>]

(* Only simple statements go on the line of a clause.                       *)
Inlines(stmt) == ~Simple(stmt) /\ \A b \in DOMAIN stmt.blocks : \A j \in DOMAIN stmt.blocks[b] : Simple(stmt.blocks[b][j])

Between(parts, separator) == Flat(parts, LAMBDA k : (IF k = 1 THEN <<>> ELSE separator) \o parts[k])

(* A statement: its names, in brackets if it is spread, then its clauses.   *)
RECURSIVE Laid(_, _, _)
Laid(stmt, path, style) ==
  LET i     == path[1]
      gap   == IF i \in style.spread THEN <<NewLine(i)>> ELSE <<>>
      own   == SelectSeq(NodesOf(stmt, path), LAMBDA n : Len(n.range) = Len(path) + 2)
      names == Between([k \in DOMAIN own |-> <<NameAt(own[k].range)>>], <<Word(i)>>)
      lead  == IF stmt.is = "assign" THEN <<>> ELSE <<Word(i)>> \o gap
      tail  == IF stmt.is \in {"import", "from"} /\ gap = <<>> THEN <<>> ELSE gap \o <<Word(i)>>
      after == IF i \in style.inline THEN <<Word(i)>> ELSE <<NewLine(i)>>
      full  == SelectSeq([b \in DOMAIN stmt.blocks |-> b], LAMBDA b : stmt.blocks[b] # <<>>)
      clause(b) == after \o Between([j \in DOMAIN stmt.blocks[b] |-> Laid(stmt.blocks[b][j], path \o <<b, j>>, style)], after)
  IN  lead \o names \o tail
        \o Between([k \in DOMAIN full |-> clause(full[k])], <<NewLine(i), Word(i)>>)

Text(file, style) ==
  Flat(file.body, LAMBDA i :
    (IF i = 1 THEN <<>> ELSE IF i \in file.joined THEN <<Word(0)>> ELSE <<NewLine(0)>>) \o Laid(file.body[i], <<i>>, style))

(* Ranges: of statement i, and of the name a node has.                      *)
RangeOf(ks) == [start |-> Min(ks) - 1, end |-> Max(ks)]
StatementRange(text, i) == RangeOf({k \in DOMAIN text : text[k].of = i})
NodeRange(text, node)   == RangeOf({k \in DOMAIN text : text[k].name = node.range})

-----------------------------------------------------------------------------
(* line_column: the line of an offset, by the ends of lines before it.      *)
LineAt(text, offset) == 1 + Cardinality({k \in 1 .. offset : text[k].is = "newline"})

(* Mutant: the end of a range is taken for the byte after its last.         *)
LineSpanPast(text, range) ==
  [start |-> LineAt(text, range.start), end |-> LineAt(text, IF range.end < Len(text) THEN range.end + 1 ELSE range.end)]

LineSpan(text, range) == [start |-> LineAt(text, range.start), end |-> LineAt(text, range.end)]

(* MainBlockPlugin: the module, and the nodes on the lines of the block.    *)
MainBlockKeeps(file, nodes, text) ==
  UNION {LET block == LineSpan(text, StatementRange(text, i))
             on(n) == LineAt(text, NodeRange(text, nodes[n]).start) >= block.start
                      /\ LineAt(text, NodeRange(text, nodes[n]).end) <= block.end
         IN  {0} \cup {n \in DOMAIN nodes : on(n)} : i \in MainBlockRange(file.body)}

(* find_main_blocks_indices: modules, and definitions whose names are in    *)
(* the range that the facts have.                                           *)
MainBlocks(project, texts) ==
  LET in(k, n, i) == LET block == StatementRange(texts[k], i)
                         name  == NodeRange(texts[k], project[k].nodes[n])
                     IN  name.start >= block.start /\ name.end <= block.end
  IN  Flat(project, LAMBDA k :
        LET p == project[k]
        IN  SetToSeq({[module |-> p.base, decls |-> {p.base + n : n \in {m \in DOMAIN p.nodes : in(k, m, i)}}] :
                        i \in p.facts.main}))
=============================================================================
