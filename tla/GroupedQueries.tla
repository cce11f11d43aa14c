--------------------------- MODULE GroupedQueries ---------------------------
(***************************************************************************)
(* The queries of one group of an objective. A request may carry a grouping, *)
(* a label selector such as {job="a"}, which the handlers of objectiveServer *)
(* (src/main.go) merge into the objective's matchers, each in its own way,    *)
(* before they make the queries: List replaces matchers of the same name,    *)
(* GetStatus and the graphs add to them, GraphErrorBudget also takes the     *)
(* labels out of the objective's grouping. Besides the queries of recorded    *)
(* series (RecordingRules) there are those of the graphs, which read the      *)
(* service's metrics.                                                       *)
(***************************************************************************)
EXTENDS RecordingRules

\* The grouping parameter that the user interface sends for group g: a label without a
\* value is not among the labels that GetStatus has returned.
Grouping(g) == {Eq(l, g[l]) : l \in {l \in o.grouping : g[l] # NoValue}}

-----------------------------------------------------------------------------
(* Merging the grouping into the objective.                                  *)

\* Mutant: a matcher of the objective wins over that of the grouping.
ReplacedKeep(ms, gm) == ms \cup {m \in gm : m.name \notin NamesOf(ms)}

\* Matchers get the type and value of those of the grouping with their name; the rest
\* is added.
Replaced(ms, gm) == {m \in ms : m.name \notin NamesOf(gm)} \cup gm

\* List, for the first objective of a response (see below for the others).
ListMerge(gm) == [o EXCEPT !.total = Replaced(@, gm), !.errors = Replaced(@, gm)]

\* What List has left of the grouping for the next objective: the branches of native
\* histograms and gauges delete what they replace from the map they all share.
ListLeaves(gm) ==
    IF o.type \in {"Ratio", "Latency"} THEN gm
    ELSE {m \in gm : m.name \notin NamesOf(o.total)}

\* GetStatus, GraphRate, GraphErrors and GraphDuration add the matchers, and know
\* nothing of native histograms.
StatusMerge(gm) ==
    IF o.type = "LatencyNative" THEN o ELSE [o EXCEPT !.total = @ \cup gm, !.errors = @ \cup gm]

\* GraphErrorBudget dereferences the ratio of an objective that has none: its handler
\* panics for a latency objective with a grouping, and for every native histogram.
BudgetPanics(gm) == o.type = "LatencyNative" \/ (o.type = "Latency" /\ gm # {})

BudgetMerge(gm) ==
    IF o.type = "LatencyNative" THEN o
    ELSE [o EXCEPT !.total = @ \cup gm, !.errors = @ \cup gm,
                   !.grouping = @ \ NamesOf(gm)]

-----------------------------------------------------------------------------
(* The queries of the graphs. objectiveReplacer puts metric, matchers,         *)
(* grouping and range into the parsed expression.                            *)

\* What sum by (by) of a metric counts in one group of its result.
SumBy(metric, ms, by, g) ==
    Cardinality({s \in Series(metric) : Selects(ms, s.labels) /\ Project(s.labels, by) = g})

\* groupingLabels of a given objective.
ErrorLabels(p) == (NamesOf(p.errors) \ NamesOf(p.total)) \ {"le"}

\* What the curves of RequestRange and ErrorsRange are by. The errors of a gauge are
\* not by its grouping, which the code does not give to the replacer.
RequestRangeBy(p) ==
    CASE p.type = "Ratio" -> ErrorLabels(p) [] p.type = "Latency" -> {} [] OTHER -> p.grouping
ErrorsRangeBy(p) ==
    CASE p.type = "Ratio" -> ErrorLabels(p) [] p.type = "LatencyNative" -> p.grouping [] OTHER -> {}

RequestRange(p, g) == SumBy("requests", p.total, RequestRangeBy(p), g)

\* ErrorsRange is a quotient: the errors of a curve, and what they are divided by, for
\* a ratio all requests, whatever the curve.
ErrorsRange(p, g) ==
    LET by    == ErrorsRangeBy(p)
        total == IF p.type = "Ratio" THEN SumBy("requests", p.total, {}, Project(g, {}))
                 ELSE SumBy("requests", p.total, by, g)
        good  == {s \in Series("requests") :
                    s.request.good /\ Selects(p.total, s.labels) /\ Project(s.labels, by) = g}
    IN  [errors |-> CASE p.type = "Ratio" -> SumBy(p.errorsMetric, p.errors, by, g)
                      [] p.type = "Latency" -> total - SumBy("requests_bucket", p.errors, by, g)
                      [] OTHER -> total - Cardinality(good),
         total  |-> total]

\* DurationRange, a quantile over all buckets: what the buckets select, by le. (That of
\* a native histogram selects what its RequestRange does.)
DurationRange(p, g) ==
    {[le |-> s.labels["le"], request |-> s.request] :
       s \in {s \in Series("requests_bucket") :
                Selects({m \in p.errors : m.name # "le"}, s.labels)}}

-----------------------------------------------------------------------------

\* The groups that have the labels which the grouping of g names: g itself, unless one
\* of its labels has no value.
Asked(g) == {h \in Groups : Selects(Grouping(g), h)}

InGroup(S, g) == {r \in S : Selects(Grouping(g), r.labels)}

\* List keeps the errors of the group only if it does not replace a matcher by which
\* errors are told apart.
ErrorsMergeable(g) == \A m \in o.errors : m.name \in o.grouping => Matches(m, g[m.name])

CountedFor(merged, series, g, errors) ==
    \A h \in Groups :
        /\ Sum(series, QueryTotal(merged), h, o.grouping) =
             IF h \in Asked(g) THEN Cardinality(ByGroup(Total, h, o.grouping)) ELSE 0
        /\ errors =>
             QueryErrors(merged, series, h) =
               IF h \in Asked(g) THEN Cardinality(ByGroup(Failed, h, o.grouping)) ELSE 0

BudgetFor(merged, series, g) ==
    LET by  == BudgetBy(merged)
        all == ByGroup(InGroup(Total, g), g, by)
        bad == ByGroup(InGroup(Failed, g), g, by)
    IN  QueryErrorBudget(merged, series, g) =
          [good |-> Cardinality(all) - Cardinality(bad), total |-> Cardinality(all)]

Curves(by) == {Project(Sample(r, NoValue).labels, by) : r \in requests}

GraphedFor(p, g) ==
    /\ \A c \in Curves(RequestRangeBy(p)) :
         RequestRange(p, c) = Cardinality(ByGroup(InGroup(Total, g), c, RequestRangeBy(p)))
    /\ \A c \in Curves(ErrorsRangeBy(p)) :
         ErrorsRange(p, c) =
           [errors |-> Cardinality(ByGroup(InGroup(Failed, g), c, ErrorsRangeBy(p))),
            total  |-> Cardinality(ByGroup(InGroup(Total, g), c,
                                           IF p.type = "Ratio" THEN {} ELSE ErrorsRangeBy(p)))]
    /\ p.type = "Latency" =>
         DurationRange(p, g) =
           [le : {"+Inf"}, request : InGroup(Total, g)]
             \cup [le : {Threshold}, request : InGroup(Total, g) \ Failed]

\* The merged queries of a group count its requests and errors, and no others, whatever
\* matchers, grouping and propagated labels the objective has: those of the list, of the
\* status, of the graphs and of the error budget. Not counted on are
\*   - in List, what is computed from the errors, if the grouping replaces a matcher by
\*     which they are told apart: not the table's errors, budget or graphs
\*     (ErrorsMergeable; see ListCounted, which the code violates);
\*   - status and graphs of a native histogram, which ignore the grouping;
\*   - the error budget of a native histogram, and of a latency objective with a grouping,
\*     for which the handler panics (BudgetPanics).
GroupsCounted ==
    LET series == Recorded IN
    \A g \in Groups :
        LET gm == Grouping(g)
        IN  /\ CountedFor(ListMerge(gm), series, g, ErrorsMergeable(g))
            /\ ErrorsMergeable(g) => BudgetFor(ListMerge(gm), series, g) /\ GraphedFor(ListMerge(gm), g)
            /\ o.type # "LatencyNative" =>
                 CountedFor(StatusMerge(gm), series, g, TRUE) /\ GraphedFor(StatusMerge(gm), g)
            /\ ~BudgetPanics(gm) => BudgetFor(BudgetMerge(gm), series, g)

\* "If specific grouping was selected we need to merge the label matchers for the
\* queries": the table that List returns for a group counts the requests and errors of
\* that group, for the first objective of the response and for the next one of the same
\* indicator, which gets what the first has left of the grouping.
ListCounted ==
    LET series == Recorded IN
    \A g \in Groups :
        /\ CountedFor(ListMerge(Grouping(g)), series, g, TRUE)
        /\ CountedFor(ListMerge(ListLeaves(Grouping(g))), series, g, TRUE)

=============================================================================
