SPECIFICATION Spec
CONSTANTS
  None = None
  Tools <- ToolNames
  StateValues <- InState
  Supplies <- ResolverValues
  StateKeys <- Fields
  DefaultAgent = "unknown-agent"
  Normal <- StripLower
  Signals <- UpToTwoSignals
  FailMode = "closed"
  Destructive <- BundleDestructive
INVARIANTS ReviewStands
\* A call ends.
CHECK_DEADLOCK FALSE
