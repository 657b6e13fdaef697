SPECIFICATION Spec
CONSTANTS
  Programs <- MCPrograms
  ScopesIn <- ScopesAt
  NamesIn <- NamesAt
  AgreedIn <- AgreedAt
  WalkIn <- WalkAt
INVARIANT ModuleTableHasNoOrder
INVARIANT NothingDeadRuns
PROPERTY SmallScopesSettle
CHECK_DEADLOCK FALSE
