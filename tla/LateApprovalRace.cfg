SPECIFICATION Spec
CONSTANTS
  None = None
  a = a
  b = b
  d = d
  Hosts = {h}
  Watchdog = watchdog
  Calls = {a}
  Thread <- OneThread
  CallId <- OwnIds
  Turn <- Parallel
  PolicyVerdicts <- AlwaysReview
  ReviewTimeout <- Windows
  DefaultTimeout = 2
  WatchdogEnabled = TRUE
  StateQueryMayFail = FALSE
  ResumeById = TRUE
  RefusesAmbiguous = TRUE
  SentBack = {None}
  Overlap = TRUE
  MaxLosses = 0
  Horizon = 4
PROPERTIES ApprovesInWindow
\* A conversation comes to its end, or waits for ever for an answer.
CHECK_DEADLOCK FALSE
