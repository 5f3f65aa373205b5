\* The completion gate that the workflows apply, asked of the local runtime.
CONSTANTS
  Providers = {p1, p2}
  Preferred = {p1}
  MaxAttempts = 2
  Waits = TRUE
  MaxPosts = 1
  None = None
CHECK_DEADLOCK FALSE
SPECIFICATION Spec
INVARIANTS ApprovalNeedsEvidence
