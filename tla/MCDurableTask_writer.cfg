\* A task that writes a checkout and waits for reviewers, who need not answer:
\* three rounds, one executor at a time, workers lost at any time.
CONSTANTS
  Registry <- WriterRegistry
  Tasks <- SomeTasks
  Preferred <- WriterPrefers
  Required <- Writes
  Selector <- AnySelector
  GateAt = 4
  MaxAttempts = 3
  Width = 2
  Waits = TRUE
  MaxSignals = 2
  None = None
CHECK_DEADLOCK FALSE
SPECIFICATION FairSpec
INVARIANTS TypeOK WritersSerialized DecisionIsCurrent HighRiskApproved
PROPERTIES KeepsContract NoReExecution EndsOrWaits DecisionMovesOn
