------------------------------ MODULE PythonSyntax ------------------------------
(***************************************************************************)
(* Python files as the parser hands them on, and the order its visitor     *)
(* walks them in (crate ruff_python_ast, outside this repository).         *)
(*                                                                         *)
(* An expression has a kind, a text (an identifier, or the atoms of a      *)
(* string), its parts in the visitor's order, and the names of its keyword *)
(* arguments, whose values are its last parts.  A statement has its        *)
(* expressions, in the visitor's order, and after them its blocks.         *)
(* Identifiers and dotted names are sequences.                             *)
(***************************************************************************)
EXTENDS Naturals, Sequences, FiniteSets
LOCAL INSTANCE SequencesExt

Node(kind, text, parts) == [is |-> kind, text |-> text, parts |-> parts, keys |-> <<>>]

Name(id)        == Node("name", id, <<>>)
Stored(id)      == Node("store", id, <<>>)
Attr(of, id)    == Node("attr", id, <<of>>)
Subscript(of)   == Node("sub", <<>>, <<of>>)
Str(atoms)      == Node("str", atoms, <<>>)
Literals(of)    == Node("str", FlattenSeq([k \in DOMAIN of |-> of[k].text]), of)   \* "s" "t"
Plus(l, r)      == Node("plus", <<>>, <<l, r>>)
FString(parts)  == Node("fstr", <<>>, parts)
Hole(e, plain)  == Node(IF plain THEN "hole" ELSE "formatted", <<>>, <<e>>)
List(elements)  == Node("list", <<>>, elements)
True            == Node("true", <<>>, <<>>)
False           == Node("false", <<>>, <<>>)
Not(e)          == Node("not", <<>>, <<e>>)
Or(l, r)        == Node("or", <<>>, <<l, r>>)
And(l, r)       == Node("and", <<>>, <<l, r>>)
Named(id, e)    == Node("named", id, <<e>>)      \* id := e
Equals(l, r)    == Node("eq", <<>>, <<l, r>>)
Opaque          == Node("other", <<>>, <<>>)
Call(f, args, kwargs) ==
  [Node("call", <<>>, <<f>> \o args \o [k \in DOMAIN kwargs |-> kwargs[k][2]])
     EXCEPT !.keys = [k \in DOMAIN kwargs |-> kwargs[k][1]]]

Arity(call) == Len(call.parts) - 1 - Len(call.keys)
Args(call) == SubSeq(call.parts, 2, Arity(call) + 1)
Keyword(call, k) == call.parts[Arity(call) + 1 + k]

Stmt(kind, name, exprs, blocks) ==
  [is |-> kind, name |-> name, exprs |-> exprs, blocks |-> blocks,
   params |-> <<>>, decs |-> 0, names |-> <<>>, level |-> 0]

Def(name, params, decs, body) == [Stmt("def", name, decs, <<body>>) EXCEPT !.params = params, !.decs = Len(decs)]
Class(name, decs, bases, body) == [Stmt("class", name, decs \o bases, <<body>>) EXCEPT !.decs = Len(decs)]
Assign(targets, value) == Stmt("assign", <<>>, <<value>> \o targets, <<>>)
Import(names)          == [Stmt("import", <<>>, <<>>, <<>>) EXCEPT !.names = names]
From(level, module, names) == [Stmt("from", module, <<>>, <<>>) EXCEPT !.level = level, !.names = names]
If(test, body)         == Stmt("if", <<>>, <<test>>, <<body>>)
For(target, over, body) == Stmt("for", <<>>, <<over, target>>, <<body>>)
Try(body, as, handler) == Stmt("try", as, <<>>, <<body, handler, <<>>, <<>>>>)
ExprStmt(e)            == Stmt("expr", <<>>, <<e>>, <<>>)
(* The blocks of "if" are those of its tests and perhaps of an else; those  *)
(* of "while" and "for" end with the else; those of "try" are its body, its *)
(* handlers, else and finally.                                              *)
Cases(tests, blocks)   == Stmt("if", <<>>, tests, blocks)
While(test, body, else) == Stmt("while", <<>>, <<test>>, <<body, else>>)
ForElse(target, body, else) == Stmt("for", <<>>, <<Opaque, target>>, <<body, else>>)
TryAll(body, handlers, else, finally) == Stmt("try", <<>>, <<>>, <<body>> \o handlers \o <<else, finally>>)
With(body)             == Stmt("with", <<>>, <<Opaque>>, <<body>>)
Asserted(test)         == Stmt("assert", <<>>, <<test>>, <<>>)
Jump(kind)             == Stmt(kind, <<>>, <<>>, <<>>)   \* return, raise, break, continue
Global(names)          == [Stmt("global", <<>>, <<>>, <<>>) EXCEPT !.names = names]

Simple(stmt) == stmt.blocks = <<>>
Decorators(stmt) == SubSeq(stmt.exprs, 1, stmt.decs)

(* Walks, in the visitor's order: an expression, a statement and what is in *)
(* it, every expression of a statement.                                     *)
RECURSIVE Within(_)
Within(e) == <<e>> \o FlattenSeq([i \in DOMAIN e.parts |-> Within(e.parts[i])])

RECURSIVE Statements(_)
Statements(stmt) ==
  <<stmt>> \o FlattenSeq([b \in DOMAIN stmt.blocks |->
                FlattenSeq([i \in DOMAIN stmt.blocks[b] |-> Statements(stmt.blocks[b][i])])])

Exprs(stmt) ==
  LET in == Statements(stmt)
  IN  FlattenSeq([i \in DOMAIN in |-> FlattenSeq([j \in DOMAIN in[i].exprs |-> Within(in[i].exprs[j])])])

BlockExprs(block) == FlattenSeq([i \in DOMAIN block |-> Exprs(block[i])])

Calls(exprs) == SelectSeq(exprs, LAMBDA e : e.is = "call")

(* The names a statement stores into itself, not in its blocks.             *)
Stores(stmt) ==
  SelectSeq(FlattenSeq([j \in DOMAIN stmt.exprs |-> Within(stmt.exprs[j])]), LAMBDA e : e.is = "store")
=============================================================================
