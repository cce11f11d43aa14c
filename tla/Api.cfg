\* List while the objectives change, GetStatus, and the graphs for ranges of several lengths.
SPECIFICATION Spec
CONSTANTS
  None = None
  Now = Now
  r1 = r1
  r2 = r2
  g0 = g0
  Handlers = {r1, r2}
  Kinds = {"List", "Status", "Budget", "Rate", "Errors", "Duration"}
  Workloads <- Apart
  Groupings = {g0}
  Lengths = {14, 15, 24}
  Times = {Now}
  Counts = {0, 1}
  ListTTL = 2
  QueryTTL = 3
  Rounding = 10
  hours12 = 20
  day = 100
  week = 700
  month = 2800
  percentiles = {500, 999}
  Target = 990
  Latency = 1
  MaxTime = 7
  MaxEdits = 2
SYMMETRY AnyHandler
INVARIANTS
  TypeOK
  ObjectivesFresh
  ResultsConsistent
  RangeFresh
  IncompleteNotShared
  RangeLengthKept
\* The clock has reached its bound and every request is served.
CHECK_DEADLOCK FALSE
