\* A task of the API that waits for its reviews, with errors, a restart of
\* the process and three review requests, at any time.
CONSTANTS
  Providers = {p1, p2}
  Preferred = {p1}
  MaxAttempts = 2
  Waits = TRUE
  MaxPosts = 3
  None = None
CHECK_DEADLOCK FALSE
SPECIFICATION FairSpec
INVARIANTS TypeOK GateBeforeExecution WaitingIsShown CompletesOnResultOrApproval
PROPERTIES OutcomeOnlyFails EndsOrWaits
