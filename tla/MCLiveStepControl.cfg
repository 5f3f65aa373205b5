\* Four decisions, two efforts and room for three receipts.  Control stops
\* for good when an update is refused, is uncertain or the budget is used up.
CONSTANTS
  Decisions = {d1, d2, d3, d4}
  Supported = {medium, high}
  MaxReceipts = 3
  None = None
CHECK_DEADLOCK FALSE
SPECIFICATION Spec
INVARIANTS ReceiptsMatchUse WithinBudget
PROPERTIES NothingAfterUncertainty LatestWins
