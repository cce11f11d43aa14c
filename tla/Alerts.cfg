\* Requests of every kind for five objectives, of whose alerts two are active.
SPECIFICATION Spec
CONSTANTS
  None = None
  plain = plain
  sibling = sibling
  grouped = grouped
  local = local
  apart = apart
  Objectives = {plain, sibling, grouped, local, apart}
  Def <- MCDef
  Requests <- MCRequests
  MaxActive = 2
INVARIANTS
  TypeOK
  AlertsShown
  InactiveComplete
  CurrentComplete
