\* Native histograms with regular expression matchers.
SPECIFICATION Spec
CONSTANTS
  Types = {"LatencyNative"}
  Labels = {"code", "job"}
  Values = {"a", "b"}
  Options <- RegexOptions
  Propagated <- NothingPropagated
  Name = "slo1"
  Threshold = "1"
  MaxRequests = 1
INVARIANTS
  TotalCounted
\* MaxRequests have been served.
CHECK_DEADLOCK FALSE
