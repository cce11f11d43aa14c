\* Two SLOs of one name in two namespaces.
SPECIFICATION Spec
CONSTANTS
  s1 = s1
  s2 = s2
  n1 = n1
  n2 = n2
  None = None
  SLOs = {s1, s2}
  Names = {n1}
  NameOf <- OneName
  Modes = {"Mimir"}
  DeleteMissingOK = TRUE
  MaxOps = 3
  MaxFaults = 0
INVARIANTS
  RulesForEach
\* The reconciler rests when nothing is queued.
CHECK_DEADLOCK FALSE
