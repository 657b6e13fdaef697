\* A call without changes after one that failed.
CONSTANTS
  r1 = r1  r2 = r2
  e1 = e1  f1 = f1  e2 = e2  bad = bad
  Reader = {}
  Emissions <- MCEmissions
  MaxEdits = 1
  MaxQueries = 2
SPECIFICATION Spec
INVARIANT SkippedIsCurrent
