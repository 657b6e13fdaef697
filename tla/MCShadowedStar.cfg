\* A name that a star import starts to bring in and its importer shadows.
CONSTANTS
  pk = pk  st = st
  P = P  S = S
  NoName = NoName  NoModule = NoModule  Absent = Absent
  File <- MCFile
  Module <- MCModule
  External = {}
  ModuleOf <- MCModuleOf
  Stub = {}
  Submodule = {}
  Name <- MCName
SPECIFICATION Spec
INVARIANT CleanFilesKeepTheirRows
