---------------------------- MODULE GenericRules ----------------------------
(***************************************************************************)
(* The generic rules of an objective (Objective.GenericRules of            *)
(* src/slo/rules.go): pyrra_availability, read from the series that the     *)
(* increase rules record, and the rates of requests and errors, read from   *)
(* the metrics themselves. The code hands one list of matchers, which       *)
(* includes that of __name__, from rule to rule, for some indicator types   *)
(* changing the name in place; a selector whose name and __name__ matcher   *)
(* disagree selects nothing.                                               *)
(***************************************************************************)
EXTENDS RecordingRules

\* A selector of the expression: metric is its name, is the value that the __name__
\* matcher of its list has by then.
Selector(metric, is, ms) == [metric |-> metric, is |-> is, matchers |-> ms]

NoGroup == Project([l \in AllLabels |-> NoValue], {})

\* sum over the series of the service's metrics, and over recorded ones.
SumRaw(sel) ==
    IF sel.is # sel.metric THEN 0
    ELSE Cardinality({s \in Series(sel.metric) : Selects(sel.matchers, s.labels)})

SumRecorded(sel) ==
    IF sel.is # sel.metric THEN 0
    ELSE Sum(Recorded, [name |-> sel.metric, matchers |-> sel.matchers], NoGroup, {})

OfSLO(ms) == ms \cup {Eq("slo", Name)}

\* The three rules: availability as a quotient, requests and errors as counts.
Generic(good, total, requestRate, errorRate) ==
    [availability |-> [good |-> good, total |-> total],
     requests |-> requestRate, errors |-> errorRate]

\* The ratio's matchers are copied before the name is changed.
GenericRatio ==
    LET increase(metric, ms) == SumRecorded(Selector(increaseName(metric), increaseName(metric), OfSLO(ms)))
        total == increase("requests", o.total)
    IN  Generic(total - increase(o.errorsMetric, o.errors), total,
                SumRaw(Selector("requests", "requests", o.total)),
                SumRaw(Selector(o.errorsMetric, o.errorsMetric, o.errors)))

\* Mutant: the errors are computed with the name that availability has left behind.
GenericLatencyNotRestored ==
    LET total == increaseName("requests")
        success == increaseName("requests_bucket")
    IN  Generic(SumRecorded(Selector(success, success, OfSLO(o.errors))),
                SumRecorded(Selector(total, total, OfSLO(o.total \cup {Eq("le", NoValue)}))),
                SumRaw(Selector("requests", "requests", o.total)),
                SumRaw(Selector("requests", "requests", o.total))
                  - SumRaw(Selector("requests_bucket", success, o.errors)))

\* The names that the blocks of a latency objective leave in the shared lists: the
\* recorded ones, then the total's own, then both their own.
AvailabilityNames == [total |-> increaseName("requests"), success |-> increaseName("requests_bucket")]
RateNames == [AvailabilityNames EXCEPT !.total = "requests"]
ErrorsNames == [RateNames EXCEPT !.total = "requests", !.success = "requests_bucket"]

GenericLatency ==
    LET total == increaseName("requests")
        success == increaseName("requests_bucket")
    IN  Generic(SumRecorded(Selector(success, AvailabilityNames.success, OfSLO(o.errors))),
                SumRecorded(Selector(total, AvailabilityNames.total, OfSLO(o.total \cup {Eq("le", NoValue)}))),
                SumRaw(Selector("requests", RateNames.total, o.total)),
                SumRaw(Selector("requests", ErrorsNames.total, o.total))
                  - SumRaw(Selector("requests_bucket", ErrorsNames.success, o.errors)))

\* A native histogram has no other rule than availability; its matchers are left with
\* the recorded name, which nothing reads afterwards.
GenericLatencyNative ==
    LET sum(le) == SumRecorded(Selector(increaseName("requests"), increaseName("requests"),
                                        OfSLO(o.total \cup {Eq("le", le)})))
    IN  [availability |-> [good |-> sum(Threshold), total |-> sum(NoValue)]]

\* The requests and errors of a gauge are those of the whole window.
GenericBoolGauge ==
    LET sum(name) == SumRecorded(Selector(name, name, OfSLO(o.total)))
    IN  Generic(sum(sumName), sum(countName), sum(countName), sum(countName) - sum(sumName))

\* No rules for an objective with a grouping (ErrGroupingUnsupported), unless it is a
\* native histogram, whose rules are summed over the groups.
HasGenericRules == o.grouping = {} \/ o.type = "LatencyNative"

GenericRules ==
    CASE o.type = "Ratio" -> GenericRatio
      [] o.type = "Latency" -> GenericLatency
      [] o.type = "LatencyNative" -> GenericLatencyNative
      [] o.type = "BoolGauge" -> GenericBoolGauge

-----------------------------------------------------------------------------

\* The generic rules count what the objective selects: the matchers that the code
\* changes in place for one rule are right again for the next.
GenericCounted ==
    HasGenericRules =>
      /\ GenericRules.availability = [good |-> Cardinality(Total \ Failed), total |-> Cardinality(Total)]
      /\ o.type # "LatencyNative" =>
           /\ GenericRules.requests = Cardinality(Total)
           /\ GenericRules.errors = Cardinality(Failed)

=============================================================================
