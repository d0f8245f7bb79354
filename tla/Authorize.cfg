SPECIFICATION Spec
CONSTANTS
  None = None
  Tools <- ToolNames
  StateValues <- InState
  Supplies <- ResolverValues
  StateKeys <- Fields
  DefaultAgent = "unknown-agent"
  Normal <- StripLower
  Signals <- UpToTwoSignals
  FailMode = "closed"
  Destructive <- BundleDestructive
INVARIANTS TypeOK DestructiveNeverRuns TaintedNeverRuns TrailShowsEscapes RecordsExplain
\* A call ends.
CHECK_DEADLOCK FALSE
