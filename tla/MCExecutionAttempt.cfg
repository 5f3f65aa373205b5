CONSTANTS
  Timeout = 3
  MaxLost = 1
  MaxRounds = 2
  MaxEdits = 2
  Paths <- AllPaths
  Tracked <- TrackedPaths
  Ignored <- IgnoredPaths
  Allowed <- AllowedPaths
  Unsafe <- UnsafePaths
SPECIFICATION Spec
CHECK_DEADLOCK FALSE
INVARIANTS TypeOK ReportedIsGone UnwantedEndsSoon OwnTimeoutFirst VerifiedTree
PROPERTIES HangingEnds KeepsExecution
