\* In every mode: two SLOs with names of their own, failed calls and crashes.
SPECIFICATION FairSpec
CONSTANTS
  s1 = s1
  s2 = s2
  n1 = n1
  n2 = n2
  None = None
  SLOs = {s1, s2}
  Names = {n1, n2}
  NameOf <- OwnNames
  Modes = {"PrometheusRule", "ConfigMap", "Mimir"}
  DeleteMissingOK = TRUE
  MaxOps = 4
  MaxFaults = 1
INVARIANTS
  TypeOK
  SettledIsPublished
  NoOrphanGroup
PROPERTIES
  RulesNeverGoBack
  PublishesInOrder
  EventuallyConverged
\* The reconciler rests when nothing is queued.
CHECK_DEADLOCK FALSE
