\* Progress events when every callback returns before the join times out.
CONSTANTS
  Total <- MCTotal
  Work <- MCWork
  JoinMayTimeOut = FALSE
SPECIFICATION Spec
INVARIANTS EventsWellFormed StopDeliversEverything
PROPERTY StopReturns
\* After stop() has returned nothing is left to do.
CHECK_DEADLOCK FALSE
