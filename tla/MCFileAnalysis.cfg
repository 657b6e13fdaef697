SPECIFICATION Spec
CHECK_DEADLOCK FALSE
CONSTANTS
  Catalogue <- CatalogueDef
  Before <- BeforeDef
  Package <- PackageDef
  Module <- ModuleDef
  Asked <- AskedDef
  Wanted <- WantedDef
  Decorating <- DecoratingDef
  Via <- ViaDef
  MaxStatements = 3
INVARIANTS
  RecordedStringsAreReal
  LiveFindsWhatFactsFind
  FactTwinsAgree
  GuardAdmitsMatches
  MatchersAgree
  MainBlockIsKept
