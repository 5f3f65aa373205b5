\* A registry with a plugin whose id is not the name of its provider.
CONSTANTS
  Registry <- PluginRegistry
  Tasks <- SomeTasks
  Preferred <- PluginPrefers
  Required <- Writes
  Selector <- AnySelector
  GateAt = 4
  MaxAttempts = 1
  Width = 1
  Waits = FALSE
  MaxSignals = 1
  None = None
CHECK_DEADLOCK FALSE
SPECIFICATION Spec
INVARIANTS SelectedExecutorRuns
