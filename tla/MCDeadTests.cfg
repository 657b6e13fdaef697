\* Reachability queries and dead tests over every graph of five nodes.
CONSTANTS
  entry = entry  t1 = t1  t2 = t2  x = x  y = y
  Node = {entry, t1, t2, x, y}
  Graph <- MCGraph
  SeedFlags <- MCSeedFlags
  Asked = {x}
SPECIFICATION Spec
INVARIANTS WalkReturnsClosure DeadTestsAreTheFixpoint BlastIsTheirsAlone RemovalLosesNothing
PROPERTY QuestionsAreAnswered
\* An answered question is the end.
CHECK_DEADLOCK FALSE
