--------------------------- MODULE RecordingRules ---------------------------
(***************************************************************************)
(* The rules that package slo generates for an objective (src/slo/rules.go), *)
(* evaluated by Prometheus, and the queries of the API that read what they   *)
(* have recorded (src/slo/promql.go): totals, errors, burn rates, error       *)
(* budget and availability. A rule keeps some labels and drops others; a query*)
(* finds a recorded series only if its matchers agree with that choice.      *)
(*                                                                         *)
(* The state is an objective and the requests its service has served; what   *)
(* the rules record and the queries return are functions of the two. A value *)
(* is the set of requests it counts, a regular expression the set of label    *)
(* values it accepts, one burn rate window stands for all.                   *)
(***************************************************************************)
EXTENDS Naturals, FiniteSets

\* The value of a label that is not there.
NoValue == ""

CONSTANTS
    Types,       \* indicator types: "Ratio", "Latency", "LatencyNative", "BoolGauge"
    Labels,      \* label names of the service's metrics
    Values,      \* their values
    Options,     \* by type, the matchers an objective may have, but for the label's name
    Propagated,  \* by type, the label sets that pyrra.dev/ labels may add to the rules
    Name,        \* the name of the objective
    Threshold,   \* the le of a latency objective
    MaxRequests  \* bound on the requests served

ASSUME RulesAssumption ==
    /\ Types \subseteq {"Ratio", "Latency", "LatencyNative", "BoolGauge"}
    /\ NoValue \notin Values /\ {"slo", "le"} \cap Labels = {}
    /\ Threshold \notin {NoValue, "+Inf"}
    /\ \A t \in Types : \A m \in Options[t] :
         /\ m.type \in {"=", "!=", "=~", "!~"} /\ m.values \subseteq Values \cup {NoValue}
         /\ m.type \in {"=", "!="} => \E v \in Values \cup {NoValue} : m.values = {v}
    /\ \A t \in Types : \A p \in Propagated[t] : DOMAIN p \subseteq Labels
    /\ MaxRequests \in Nat

VARIABLES
    o,        \* the objective
    requests  \* the requests served: their labels, and whether each was good

vars == <<o, requests>>

AllLabels == Labels \cup {"slo", "le"}
Request == [labels : [Labels -> Values \cup {NoValue}], good : BOOLEAN]

-----------------------------------------------------------------------------
(* Prometheus.                                                               *)

Eq(name, value) == [name |-> name, type |-> "=", values |-> {value}]

Matches(m, value) == (value \in m.values) <=> m.type \in {"=", "=~"}

Selects(ms, labels) == \A m \in ms : Matches(m, labels[m.name])

NamesOf(ms) == {m.name : m \in ms}

\* What a request adds to a series of the service, le being the bucket.
Sample(r, le) ==
    [labels  |-> [l \in AllLabels |-> IF l = "le" THEN le ELSE IF l = "slo" THEN NoValue ELSE r.labels[l]],
     request |-> r]

\* The series of a metric of the service, by the requests they count. errors counts
\* bad requests only; a histogram's buckets are that of the threshold and +Inf.
Series(metric) ==
    CASE metric = "requests" -> {Sample(r, NoValue) : r \in requests}
      [] metric = "errors" -> {Sample(r, NoValue) : r \in {r \in requests : ~r.good}}
      [] metric = "requests_bucket" ->
           {Sample(r, "+Inf") : r \in requests}
             \cup {Sample(r, Threshold) : r \in {r \in requests : r.good}}

\* The labels of both; where they have one in common, first's.
Merged(first, second) ==
    [l \in DOMAIN first \cup DOMAIN second |-> IF l \in DOMAIN first THEN first[l] ELSE second[l]]

OneLabel(name, value) == [l \in {name} |-> value]

Project(labels, by) == [l \in AllLabels |-> IF l \in by THEN labels[l] ELSE NoValue]

\* What a recording rule sums. good says that it counts the good requests only, as
\* sum_over_time of a gauge that is 0 or 1, or histogram_fraction of a native histogram, do.
Selected(rule) ==
    {s \in Series(rule.metric) :
       Selects(rule.matchers, s.labels) /\ (rule.good => s.request.good)}

\* The series it records for one value of the labels it sums by: with these labels, and
\* over them those of its own.
RecordedAs(rule, g) ==
    [name   |-> rule.record,
     labels |-> Merged(rule.labels, g),
     counts |-> {s.request : s \in {s \in Selected(rule) : Project(s.labels, rule.by) = g}}]

Record(rule) == {RecordedAs(rule, Project(s.labels, rule.by)) : s \in Selected(rule)}

Finds(query, s) == s.name = query.name /\ Selects(query.matchers, s.labels)

\* The sum of the series of a recorded metric that a query selects, in group g: how
\* often a request is counted by one of them.
Sum(series, query, g, by) ==
    LET found == {s \in series : Finds(query, s) /\ Project(s.labels, by) = g}
    IN  Cardinality({sr \in found \X requests : sr[2] \in sr[1].counts})

-----------------------------------------------------------------------------
(* The rules.                                                                *)

\* increaseName and BurnrateName strip _total, _count and _bucket.
Base(metric) == IF metric = "requests_bucket" THEN "requests" ELSE metric
increaseName(metric) == <<Base(metric), "increase">>
BurnrateName == <<"requests", "burnrate">>
countName == <<"requests", "count">>
sumName == <<"requests", "sum">>

Without(labels, names) == [l \in DOMAIN labels \ names |-> labels[l]]

commonRuleLabels == Merged(OneLabel("slo", Name), o.propagated)

\* The labels whose value is fixed by an equality matcher of the total.
EqualLabels ==
    [l \in {m.name : m \in {m \in o.total : m.type = "="}} |->
       CHOOSE v \in Values \cup {NoValue} : Eq(l, v) \in o.total]

ruleLabels == Merged(EqualLabels, commonRuleLabels)

RegexNames == {m.name : m \in {m \in o.total : m.type \in {"=~", "!~"}}}

groupingLabels == (NamesOf(o.errors) \ NamesOf(o.total)) \ {"le"}

\* Mutant: the labels that only the errors are selected by are not kept.
IncreaseGroupingOfTotal == o.grouping \cup RegexNames

\* What the increase rules of ratio and latency objectives are grouped by.
IncreaseGrouping == o.grouping \cup groupingLabels \cup RegexNames

Rule(record, metric, ms, by, good, labels) ==
    [record |-> record, metric |-> metric, matchers |-> ms, by |-> by, good |-> good,
     labels |-> labels]

RatioIncrease ==
    LET rule(metric, ms) == Rule(increaseName(metric), metric, ms, IncreaseGrouping, FALSE,
                                 Without(ruleLabels, IncreaseGrouping))
    IN  {rule("requests", o.total)} \cup
        IF o.errorsMetric = "requests" THEN {} ELSE {rule("errors", o.errors)}

LatencyIncrease ==
    LET labels == Without(ruleLabels, IncreaseGrouping)
        rule(metric, ms, ls) ==
          Rule(increaseName(metric), metric, ms, IncreaseGrouping, FALSE, ls)
    IN  {rule("requests", o.total, labels),
         rule("requests_bucket", o.errors, Merged(labels, OneLabel("le", Threshold)))}

\* Mutant: the label map of the first rule is not cloned for the second.
LatencyNativeIncreaseShared ==
    LET labels == Merged(OneLabel("le", Threshold), ruleLabels)
        rule(good) ==
          Rule(increaseName("requests"), "requests", o.total, o.grouping, good, labels)
    IN  {rule(FALSE), rule(TRUE)}

\* The rules of a native histogram are grouped by the objective's grouping alone.
LatencyNativeIncrease ==
    LET rule(labels, good) ==
          Rule(increaseName("requests"), "requests", o.total, o.grouping, good, labels)
    IN  {rule(ruleLabels, FALSE), rule(Merged(OneLabel("le", Threshold), ruleLabels), TRUE)}

\* Mutant: the labels a gauge is selected by are not kept.
BoolGaugeIncreaseGroupingOnly ==
    LET rule(name, good) ==
          Rule(name, "requests", o.total, o.grouping, good, Without(ruleLabels, o.grouping))
    IN  {rule(countName, FALSE), rule(sumName, TRUE)}

\* Those of a gauge keep every label it is selected by.
BoolGaugeIncrease ==
    LET by == o.grouping \cup NamesOf(o.total)
        rule(name, good) ==
          Rule(name, "requests", o.total, by, good, Without(ruleLabels, by))
    IN  {rule(countName, FALSE), rule(sumName, TRUE)}

IncreaseRules ==
    CASE o.type = "Ratio" -> RatioIncrease
      [] o.type = "Latency" -> LatencyIncrease
      [] o.type = "LatencyNative" -> LatencyNativeIncrease
      [] o.type = "BoolGauge" -> BoolGaugeIncrease

\* Mutant: labels that are grouped by get the value of the equality matcher, or of
\* the propagated label, instead of their own.
BurnrateRuleKeepLabels ==
    Rule(BurnrateName, "requests", o.total, o.grouping, FALSE, ruleLabels)

\* The burn rate: a quotient by the objective's grouping. Modelled by the series it
\* has when every group has errors.
BurnrateRule ==
    Rule(BurnrateName, "requests", o.total, o.grouping, FALSE, Without(ruleLabels, o.grouping))

\* The selector of the burn rate alerts, the same for short and long.
AlertQuery ==
    [name |-> BurnrateName,
     matchers |-> {m \in o.total : m.name \in o.grouping \/ m.type \in {"=", "!="}}
                    \cup {Eq("slo", Name)}]

Recorded == UNION {Record(rule) : rule \in IncreaseRules}

Burnrates == Record(BurnrateRule)

-----------------------------------------------------------------------------
(* The queries of an objective p: o itself, or o with the matchers of a request. *)
(* A query is a difference of two sums of recorded series.                     *)

Query(name, ms) == [name |-> name, matchers |-> ms \cup {Eq("slo", Name)}]

QueryTotal(p) ==
    CASE p.type = "Ratio" -> Query(increaseName("requests"), p.total)
      [] p.type \in {"Latency", "LatencyNative"} ->
           Query(increaseName("requests"), p.total \cup {Eq("le", NoValue)})
      [] p.type = "BoolGauge" -> Query(countName, p.total)

\* What QueryErrors subtracts from the total, and what the error budget divides by
\* it: the good requests.
QuerySuccess(p) ==
    CASE p.type = "Latency" -> Query(increaseName("requests_bucket"), p.errors)
      [] p.type = "LatencyNative" ->
           Query(increaseName("requests"), p.total \cup {Eq("le", Threshold)})
      [] p.type = "BoolGauge" -> Query(sumName, p.total)

RatioErrors(p) == Query(increaseName(p.errorsMetric), p.errors)

\* QueryErrors, per group, of recorded series.
QueryErrors(p, series, g) ==
    IF p.type = "Ratio" THEN Sum(series, RatioErrors(p), g, p.grouping)
    ELSE Sum(series, QueryTotal(p), g, p.grouping) - Sum(series, QuerySuccess(p), g, p.grouping)

\* QueryErrorBudget: the numerator and denominator of 1 minus the error rate, without
\* the grouping but for a gauge.
BudgetBy(p) == IF p.type = "BoolGauge" THEN p.grouping ELSE {}

QueryErrorBudget(p, series, g) ==
    LET sum(query) == Sum(series, query, Project(g, BudgetBy(p)), BudgetBy(p))
    IN  [good  |-> IF p.type = "Ratio" THEN sum(QueryTotal(p)) - sum(RatioErrors(p))
                   ELSE sum(QuerySuccess(p)),
         total |-> sum(QueryTotal(p))]

\* QueryBurnrate for one group: the equality matchers that are not grouped by, and
\* the grouping matchers of the request.
QueryBurnrate(g) ==
    Query(BurnrateName,
          {m \in o.total : m.type = "=" /\ m.name \notin o.grouping}
            \cup {Eq(l, g[l]) : l \in o.grouping})

-----------------------------------------------------------------------------
(* Objectives and requests.                                                  *)

\* At most one matcher per label.
Selectors(t) ==
    UNION { {{[name |-> l, type |-> f[l].type, values |-> f[l].values] : l \in S} :
               f \in [S -> Options[t]]}
            : S \in SUBSET Labels }

\* The errors are some of the total.
Narrower(errors, total) ==
    \A ls \in [Labels -> Values \cup {NoValue}] : Selects(errors, ls) => Selects(total, ls)

ObjectivesOf(t, ms) ==
    { [type |-> t, total |-> ms, errors |-> es, errorsMetric |-> em, grouping |-> by, propagated |-> p]
      : es \in IF t = "Ratio" THEN {es \in Selectors(t) : Narrower(es, ms)}
               ELSE IF t = "Latency" THEN {ms \cup {Eq("le", Threshold)}} ELSE {ms},
        em \in IF t = "Ratio" THEN {"requests", "errors"} ELSE {"requests"},
        by \in SUBSET Labels, p \in Propagated[t] }

Objectives == UNION {UNION {ObjectivesOf(t, ms) : ms \in Selectors(t)} : t \in Types}

Init ==
    /\ o \in Objectives
    /\ requests = {}

Serve(r) ==
    /\ Cardinality(requests) < MaxRequests
    /\ r \notin requests
    /\ requests' = requests \cup {r}
    /\ UNCHANGED o

Next == \E r \in Request : Serve(r)

Spec == Init /\ [][Next]_vars

-----------------------------------------------------------------------------
(* Properties: what is read from the recorded series is what counting the     *)
(* requests themselves gives.                                                *)

Total == {r \in requests : Selects(o.total, r.labels)}

Failed ==
    IF o.type = "Ratio"
      THEN {r \in requests : Selects(o.errors, r.labels) /\ (o.errorsMetric = "errors" => ~r.good)}
      ELSE {r \in Total : ~r.good}

ByGroup(S, g, by) == {r \in S : \A l \in by : r.labels[l] = g[l]}

Groups == {Project(Sample(r, NoValue).labels, o.grouping) : r \in Total}

\* "QueryTotal returns a PromQL query to get the total amount of requests served": for
\* every group, whatever matchers and labels the recording rule was made from.
TotalCounted ==
    LET series == Recorded
    IN  \A g \in Groups :
          Sum(series, QueryTotal(o), g, o.grouping) = Cardinality(ByGroup(Total, g, o.grouping))

\* "QueryErrors returns a PromQL query to get the amount of request errors".
ErrorsCounted ==
    LET series == Recorded
    IN  \A g \in Groups : QueryErrors(o, series, g) = Cardinality(ByGroup(Failed, g, o.grouping))

\* The error budget divides the good requests by all of them.
BudgetCounted ==
    LET series == Recorded
    IN  \A g \in Groups :
          LET all == Cardinality(ByGroup(Total, g, BudgetBy(o)))
          IN  QueryErrorBudget(o, series, g) =
                [good |-> all - Cardinality(ByGroup(Failed, g, BudgetBy(o))), total |-> all]

\* The alerts see the burn rate of every group, and the API that of the group asked
\* for and no other.
BurnratesFound ==
    /\ \A s \in Burnrates : Selects(AlertQuery.matchers, s.labels)
    /\ \A g \in Groups :
         {s \in Burnrates : Selects(QueryBurnrate(g).matchers, s.labels)}
           = {s \in Burnrates : s.counts = ByGroup(Total, g, o.grouping)}

\* No rule gives two groups the same labels: Prometheus would refuse to evaluate it.
RulesEvaluate ==
    \A rule \in IncreaseRules \cup {BurnrateRule} :
        \A s, t \in Record(rule) : s.labels = t.labels => s = t

=============================================================================
