\* A list of one group of a ratio, or of a gauge.
SPECIFICATION Spec
CONSTANTS
  Types = {"Ratio", "BoolGauge"}
  Labels = {"code", "job"}
  Values = {"a", "b"}
  Options <- AgreedOptions
  Propagated <- NothingPropagated
  Name = "slo1"
  Threshold = "1"
  MaxRequests = 2
INVARIANTS
  ListCounted
\* MaxRequests have been served.
CHECK_DEADLOCK FALSE
