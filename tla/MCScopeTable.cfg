SPECIFICATION Spec
CONSTANTS
  Programs <- CyclePrograms
  ScopesIn <- ScopesAt
  NamesIn <- NamesAt
  AgreedIn <- AgreedAt
  WalkIn <- WalkAt
PROPERTY EveryScopeSettles
CHECK_DEADLOCK FALSE
