--------------------------- MODULE ResolutionTables ---------------------------
(***************************************************************************)
(* Module Resolution put in the place of the parameters of ResolveCache:   *)
(* its operators as tables over the sources of an instance, which TLC      *)
(* computes once, and constructors for the contents of small files.        *)
(***************************************************************************)
EXTENDS Resolution, ResolveCache

Def          == [kind |-> "def"]
Class(base)  == [kind |-> "class", base |-> base]
Import(m, n) == [kind |-> "import", mod |-> m, name |-> n]
Variable(m, n, steps) == [kind |-> "variable", denotes |-> {[mod |-> m, name |-> n, steps |-> steps]}]
Function(m, n, steps) == [kind |-> "function", denotes |-> {[mod |-> m, name |-> n, steps |-> steps]}]

Content(own, star, uses, lay) == [own |-> own, star |-> star, uses |-> uses, lay |-> lay]
Plain(own) == Content(own, NoModule, {}, 0)

None == [n \in {} |-> Def]
On(n, b) == [m \in {n} |-> b]
Both(n, b, m, c) == [i \in {n, m} |-> IF i = n THEN b ELSE c]

(* Every way to give each file one of its contents.                         *)
Combinations(Contents(_)) ==
  {s \in [File -> UNION {Contents(f) : f \in File}] : \A f \in File : s[f] \in Contents(f)}

-----------------------------------------------------------------------------
TabledMemberKeys(rows) == {r.key : r \in {q \in rows : q.key.role # "local"}}

SurfaceTable == Table([s \in Sources |-> Table([f \in File |-> Surface(s, f)])])
RowsTable    == Table([s \in Sources |-> Table([f \in Present(s) |-> Rows(s, f)])])
TwinTable    == Table([s \in Sources |-> Table([f \in File |-> Twin(s, f)])])
BasesTable   ==
  Table([s \in Sources |-> Table([f \in Present(s) |-> {r.key : r \in ClassRows(s, f)}])])

AllKeys  == UNION {UNION {TabledMemberKeys(RowsTable[s][f]) : f \in Present(s)} : s \in Sources}
AllBases == UNION {UNION {BasesTable[s][f] : f \in Present(s)} : s \in Sources}

MemberTable == Table([s \in Sources |-> Table([k \in AllKeys |-> Resolve(k, s)])])
DefTable    == Table([s \in Sources |-> Table([k \in AllBases |-> ResolveClass(k, s)])])

TabledSurfaceFp(s, f)        == SurfaceTable[s][f]
TabledRefSpecs(s, f)         == RowsTable[s][f]
TabledBaseKeys(s, f)         == BasesTable[s][f]
TabledPyTwin(s, f)           == TwinTable[s][f]
TabledResolveMember(k, s)    == MemberTable[s][k]
TabledResolveMemberDef(k, s) == DefTable[s][k]
=============================================================================
