\* ResolveCache over four files.
CONSTANTS
  pk = pk  sub = sub  st = st  us = us
  P = P  PY = PY  S = S  U = U  Ext = Ext
  NoName = NoName  NoModule = NoModule  Absent = Absent
  File <- MCFile
  Module <- MCModule
  External <- MCExternal
  ModuleOf <- MCModuleOf
  Stub = {}
  Submodule <- MCSubmodule
  Name <- MCName
  Sources <- MCSources
  SurfaceFp <- TabledSurfaceFp
  RefSpecs <- TabledRefSpecs
  MemberKeys <- TabledMemberKeys
  BaseKeys <- TabledBaseKeys
  PyTwin <- TabledPyTwin
  ResolveMember <- TabledResolveMember
  ResolveMemberDef <- TabledResolveMemberDef
SPECIFICATION Spec
INVARIANTS TypeOK ScopeCoversEdits MemoIsFresh CleanRowsInSync ReadsAreResolved
