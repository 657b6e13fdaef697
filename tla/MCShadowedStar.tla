---------------------------- MODULE MCShadowedStar ----------------------------
(***************************************************************************)
(* ResolveCache over two files where one shadows a star-imported name:     *)
(*   pk   module P, which may gain the name Z                              *)
(*   st   module S: `from P import *', then its own Z                      *)
(* The resolution here does not satisfy RowsHonest, so ResolveCache is     *)
(* instantiated rather than extended.                                      *)
(***************************************************************************)
EXTENDS Resolution

CONSTANTS pk, st, P, S

VARIABLES src, scope, known, cache, built

X == 1
Z == 2

MCFile      == {pk, st}
MCModule    == {P, S}
MCModuleOf  == [f \in MCFile |-> IF f = pk THEN P ELSE S]
MCName      == {X, Z}

Bound(names) ==
  [own |-> [n \in names |-> [kind |-> "def"]], star |-> NoModule, uses |-> {}, lay |-> 0]

Choices(f) ==
  IF f = pk THEN {Bound(names) : names \in {{}, {X}, {X, Z}}}
  ELSE {[Bound({Z}) EXCEPT !.star = P], Bound({Z})}

Sources == {s \in [File -> UNION {Choices(f) : f \in File}] : \A f \in File : s[f] \in Choices(f)}

KeysIn(rows)      == {r.key : r \in {q \in rows : q.key.role # "local"}}
ClassKeysIn(s, f) == {r.key : r \in ClassRows(s, f)}

RC == INSTANCE ResolveCache WITH
        SurfaceFp <- Surface, RefSpecs <- Rows, MemberKeys <- KeysIn, BaseKeys <- ClassKeysIn,
        PyTwin <- Twin, ResolveMember <- Resolve, ResolveMemberDef <- ResolveClass

Spec == RC!Spec

(* project.rs, assemble_graph: "clean-file spec row out of sync" is an     *)
(* assertion, "a mismatch means the dirtiness gate let a changed file      *)
(* through": the rows of a clean file never drift.                         *)
CleanFilesKeepTheirRows == RC!CleanRowsInSync
=============================================================================
