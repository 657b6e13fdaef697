\* The graph builder over a package, a star importer and a consumer, and over
\* a stub, its runtime twin and a consumer.
CONSTANTS
  pk = pk  st = st  us = us  rt = rt  sb = sb  cs = cs
  P = P  S = S  U = U  Q = Q  R = R  C = C  ExtA = ExtA  ExtB = ExtB
  NoName = NoName  NoModule = NoModule  Absent = Absent
  File <- MCFile
  Module <- MCModule
  External <- MCExternal
  ModuleOf <- MCModuleOf
  Stub <- MCStub
  Submodule <- MCSubmodule
  Name <- MCName
  Sources <- MCSources
  SurfaceFp <- TabledSurfaceFp
  RefSpecs <- TabledRefSpecs
  MemberKeys <- TabledMemberKeys
  BaseKeys <- TabledBaseKeys
  PyTwin <- TabledPyTwin
  ResolveMember <- TabledResolveMember
  ResolveMemberDef <- TabledResolveMemberDef
  FileOrder <- MCFileOrder
  ExternalOrder <- MCExternalOrder
  PayloadNodes <- TabledPayloadNodes
  ExportsByName <- TabledExportsByName
  ParentModule <- TabledParentModule
  PerFileOps <- PairOps
  ProjectOps <- MCProjectOps
SPECIFICATION GraphSpec
INVARIANTS BuilderTypeOK EdgesAvoidTombstones EveryIdOwnedOnce SavedGraphAnswersTheSame
PROPERTIES ServesFreshGraph IdsStayPut DeadSlotsBounded
