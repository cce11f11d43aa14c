\* Objectives of every type, with the matchers their rules and queries agree on.
SPECIFICATION Spec
CONSTANTS
  Types = {"Ratio", "Latency", "LatencyNative", "BoolGauge"}
  Labels = {"code", "job"}
  Values = {"a", "b"}
  Options <- AgreedOptions
  Propagated <- CodePropagated
  Name = "slo1"
  Threshold = "1"
  MaxRequests = 2
INVARIANTS
  TotalCounted
  ErrorsCounted
  BudgetCounted
  BurnratesFound
  RulesEvaluate
  GenericCounted
  GroupsCounted
\* MaxRequests have been served.
CHECK_DEADLOCK FALSE
