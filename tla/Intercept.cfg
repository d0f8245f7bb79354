SPECIFICATION FairSpec
CONSTANTS
  None = None
  Collectors = {k1, k2, k3}
  Exchanges <- AnyDecision
  Manifests <- AnyManifest
INVARIANTS TypeOK ToolRunsOnlyIfAllowed OutagesAreLabelled SignalsAreCollected DecisionsAreRecorded
PROPERTIES EveryCallEnds
\* A call ends.
CHECK_DEADLOCK FALSE
