\* A task whose executors may run two at a time, and which does not wait
\* for a review of its results; one of them cannot use its model selector.
CONSTANTS
  Registry <- ParallelRegistry
  Tasks <- SomeTasks
  Preferred <- ParallelPrefers
  Required <- Thinks
  Selector <- RoleSelector
  GateAt = 3
  MaxAttempts = 2
  Width = 2
  Waits = FALSE
  MaxSignals = 1
  None = None
CHECK_DEADLOCK FALSE
SPECIFICATION Spec
INVARIANTS GateBeforeExecution
PROPERTIES KeepsContract KeepsExecution
