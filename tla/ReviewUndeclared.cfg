SPECIFICATION FairSpec
CONSTANTS
  None = None
  Agents = {g}
  Checkpointed = {g}
  Swallowing = {}
  Opaque = {}
  Required <- Default
  Manifest <- LangGraph
  OwnsClient = TRUE
  OwnsTracer = TRUE
  Exports = TRUE
  CloseMayFail = TRUE
  WatchdogEnabled = TRUE
  AttachesEarly = FALSE
  ClosesFirst = TRUE
  MaxAttaches = 3
  MaxLoops = 2
PROPERTIES ExpiredHoldsAreDenied
\* A closed control plane with nothing left to attach does nothing more.
CHECK_DEADLOCK FALSE
