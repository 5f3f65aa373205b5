\* One task, three commands at a time, an operator who inspects first:
\* the claims of one task, its retries, sessions and outcomes.
CONSTANTS
  Procs = {d1, d2, d3}
  Tasks = {t1}
  Providers = {p1, p2}
  Sessions = {s1, s2}
  Statuses = {"failed"}
  MaxLimit = 2
  NoValue = NoValue
  Careful = TRUE
SPECIFICATION Spec
SYMMETRY Identities
INVARIANTS TypeOK SingleWriter RunningIsHeld CompleteIsProven
PROPERTIES OutcomeIsFinal IdentityStable
