---------------------------- MODULE AssemblyTables ----------------------------
(***************************************************************************)
(* The rest of module Resolution as tables for GraphAssembly.              *)
(***************************************************************************)
EXTENDS ResolutionTables, GraphAssembly

PayloadTable == Table([s \in Sources |-> Table([f \in Present(s) |-> FileNodes(s, f)])])
ExportsTable ==
  Table([s \in Sources |-> Table([f \in Present(s) |->
    [n \in ExportedNames(s, f) |-> ExportRefs(s, f, n)]])])
ParentTable  == Table([s \in Sources |-> Table([f \in Present(s) |-> ParentFile(s, f)])])

TabledPayloadNodes(s, f)  == PayloadTable[s][f]
TabledExportsByName(s, f) == ExportsTable[s][f]
TabledParentModule(s, f)  == ParentTable[s][f]

(* A per-file plugin that keeps the first name of a file bound to two names *)
(* and has it use the second.                                               *)
PairOps(s, f) ==
  IF Cardinality(DOMAIN s[f].own) = 2
  THEN [flags |-> {<<2, "ENTRYPOINT">>, <<9, "ENTRYPOINT">>}, edges |-> {<<2, 3>>, <<2, 9>>}]
  ELSE [flags |-> {}, edges |-> {}]

(* A project-wide plugin that keeps the names of one file, and links every  *)
(* module to them, while another file reads some name.                      *)
KeepWhileRead(s, kept, reader) ==
  IF s[kept] # Absent /\ s[reader] # Absent /\ s[reader].uses # {}
  THEN LET names == {OwnRef(s, kept, n) : n \in OwnNames(s, kept)}
       IN  [flagged |-> names, edges |-> {ModuleRef(reader)} \X names]
  ELSE [flagged |-> {}, edges |-> {}]
=============================================================================
