SPECIFICATION FairSpec
CONSTANTS
  None = None
  Agents = {g, e, n, s}
  Checkpointed = {g, e, s}
  Swallowing = {s}
  Opaque = {}
  Required <- Declared
  Manifest <- LangGraph
  OwnsClient = TRUE
  OwnsTracer = TRUE
  Exports = TRUE
  CloseMayFail = TRUE
  WatchdogEnabled = TRUE
  AttachesEarly = FALSE
  ClosesFirst = TRUE
  MaxAttaches = 3
  MaxLoops = 2
INVARIANTS TypeOK HoldsAreNeverLost ClosedMeansQuiet RecordsOutliveClosing
PROPERTIES LastAttachedIsWatched AcloseReturns
\* A closed control plane with nothing left to attach does nothing more.
CHECK_DEADLOCK FALSE
