SPECIFICATION FairSpec
CONSTANTS
  None = None
  Callers = {c1, c2}
  Closers = {k1, k2}
  MaxCalls = 4
  MaxCloses = 2
PROPERTIES EveryCallReturns
\* Once the bounds on calls and closes are used up, nothing more happens.
CHECK_DEADLOCK FALSE
