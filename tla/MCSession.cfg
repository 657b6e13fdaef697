\* A session with two threads that query while it is built and rebuilt.
CONSTANTS
  r1 = r1  r2 = r2
  e1 = e1  f1 = f1  e2 = e2  bad = bad
  Reader = {r1, r2}
  Emissions <- MCEmissions
  MaxEdits = 1
  MaxQueries = 2
SPECIFICATION Spec
INVARIANTS QueriesSeeWholeGraphs PluginsSeeFrozenGraph RebuiltIsCurrent
PROPERTIES HuskOnlyAfterFailure CallsReturn
