SPECIFICATION FairSpec
CONSTANTS
  None = None
  a = a
  b = b
  d = d
  Hosts = {h}
  Watchdog = watchdog
  Calls = {a, b}
  Thread <- SegmentedThread
  CallId <- OwnIds
  Turn <- Successive
  PolicyVerdicts <- AlwaysReview
  ReviewTimeout <- Windows
  DefaultTimeout = 2
  WatchdogEnabled = TRUE
  StateQueryMayFail = FALSE
  ResumeById = TRUE
  RefusesAmbiguous = TRUE
  SentBack = {None}
  Overlap = FALSE
  MaxLosses = 0
  Horizon = 4
PROPERTIES EveryHoldIsSettled
\* A conversation comes to its end, or waits for ever for an answer.
CHECK_DEADLOCK FALSE
