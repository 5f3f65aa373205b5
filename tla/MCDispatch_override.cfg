\* Two tasks in one file, two commands at a time, an operator who writes any
\* status, provider or session at any moment: what holds all the same.
CONSTANTS
  Procs = {d1, d2}
  Tasks = {t1, t2}
  Providers = {p1}
  Sessions = {}
  Statuses = {"failed"}
  MaxLimit = 1
  NoValue = NoValue
  Careful = FALSE
SPECIFICATION Spec
SYMMETRY Identities
VIEW FileView
PROPERTIES LedgerSpec EachIndexStartsOnce
