\* Plugins registered, dropped and registered again between builds.
CONSTANTS
  f1 = f1  f2 = f2  main = main  plain = plain
  Files <- MCFiles
  Contents <- MCContents
  NodesOf <- MCNodesOf
  Templates <- MCTemplates
  HashOf <- MCHashOf
  NodeWidth = 4
  NodeBuiltins <- MCNodeBuiltins
  EdgeWidth = 2
  EdgeBuiltins <- MCEdgeBuiltins
  MaxHandles = 2
  MaxPlugins = 2
  MaxBuilds = 2
SPECIFICATION Spec
INVARIANTS TypeOK GraphHasWhatItsSetEmits FactsAreThisBuilds BitsNameTheirFlag RegistriesOK FirstErrorWins
CHECK_DEADLOCK FALSE
