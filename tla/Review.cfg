SPECIFICATION Spec
CONSTANTS
  None = None
  a = a
  b = b
  d = d
  Hosts = {h}
  Watchdog = watchdog
  Calls = {a, b, d}
  Thread <- OneThread
  CallId <- ReusedIds
  Turn <- HeldThenSettled
  PolicyVerdicts <- SettledLast
  ReviewTimeout <- Windows
  DefaultTimeout = 2
  WatchdogEnabled = TRUE
  StateQueryMayFail = FALSE
  ResumeById = TRUE
  RefusesAmbiguous = TRUE
  SentBack = {None}
  Overlap = FALSE
  MaxLosses = 1
  Horizon = 4
INVARIANTS TypeOK HeldRunsOnlyIfApproved RejectionsAreReviewers HoldsAreOwn DeadlineIsDurable ResolvedAtMostOnce TrailTellsWhatRan OnePendingRecord WaitingHoldsAreTracked
PROPERTIES ApprovesInWindow ImplementsLifecycle
\* A conversation comes to its end, or waits for ever for an answer.
CHECK_DEADLOCK FALSE
