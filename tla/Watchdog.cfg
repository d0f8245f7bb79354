SPECIFICATION FairSpec
CONSTANTS
  None = None
  a = a
  b = b
  d = d
  Hosts = {h}
  Watchdog = watchdog
  Calls = {a, b}
  Thread <- TwoThreads
  CallId <- OwnIds
  Turn <- Parallel
  PolicyVerdicts <- AlwaysReview
  ReviewTimeout <- Windows
  DefaultTimeout = 2
  WatchdogEnabled = TRUE
  StateQueryMayFail = TRUE
  ResumeById = TRUE
  RefusesAmbiguous = TRUE
  SentBack <- SomeDeadlines
  Overlap = TRUE
  MaxLosses = 0
  Horizon = 3
INVARIANTS ApprovalInv OnePendingRecord WaitingHoldsAreTracked
PROPERTIES EveryHoldIsSettled
\* A conversation comes to its end, or waits for ever for an answer.
CHECK_DEADLOCK FALSE
