\* Two tasks, callers who claim and record in any order, and an operator who
\* may also write a status of their own, or "running", by hand.
CONSTANTS
  Tasks = {t1, t2}
  Providers = {p1, p2}
  Sessions = {s1, s2}
  Statuses = {"failed", "running"}
  MaxLimit = 2
  NoValue = NoValue
SPECIFICATION Spec
SYMMETRY Identities
INVARIANTS RetryBudget
PROPERTIES BudgetOnlySpent
