\* Two List requests with different groupings.
SPECIFICATION Spec
CONSTANTS
  None = None
  Now = Now
  r1 = r1
  r2 = r2
  g0 = g0
  g1 = g1
  Handlers = {r1, r2}
  Kinds = {"List"}
  Workloads <- ListOnly
  Groupings = {g0, g1}
  Lengths = {10}
  Times = {Now}
  Counts = {1}
  ListTTL = 2
  QueryTTL = 3
  Rounding = 10
  hours12 = 20
  day = 100
  week = 700
  month = 2800
  percentiles = {500, 999}
  Target = 990
  Latency = 1
  MaxTime = 2
  MaxEdits = 0
SYMMETRY AnyHandler
INVARIANTS
  QueriesOfGrouping
\* The clock has reached its bound and every request is served.
CHECK_DEADLOCK FALSE
