\* Liveness: two commands contend for one lock file that crashes leave behind
\* and that nobody need remove.
CONSTANTS
  Procs = {d1, d2}
  Tasks = {t1, t2}
  Providers = {p1}
  Sessions = {}
  Statuses = {"failed"}
  MaxLimit = 0
  NoValue = NoValue
  Careful = TRUE
SPECIFICATION FairSpec
PROPERTIES EveryCommandEnds ClaimSettles
