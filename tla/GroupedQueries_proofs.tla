------------------------ MODULE GroupedQueries_proofs ------------------------
(***************************************************************************)
(* What the queries of one group find, for any labels, matchers, groupings   *)
(* and requests on which rules and queries agree.                            *)
(***************************************************************************)
EXTENDS GroupedQueries, RecordingRules_proofs

-----------------------------------------------------------------------------
(* The grouping of a request.                                                *)

LEMMA GroupingIs ==
    ASSUME IInv, NEW g
    PROVE  /\ NamesOf(Grouping(g)) \subseteq o.grouping
           /\ \A m \in Grouping(g) : m.name \in o.grouping /\ m.name \in Labels
           /\ \A m \in Grouping(g) : \A v : Matches(m, v) <=> v = g[m.name]
           /\ \A m \in Grouping(g) : m.name # "le"
<1>1. \A l, v, w : Eq(l, v).name = l /\ (Matches(Eq(l, v), w) <=> w = v)
  BY DEF Eq, Matches
<1>2. \A m \in Grouping(g) : \E l \in o.grouping : m = Eq(l, g[l])
  BY DEF Grouping
<1>3. o.grouping \subseteq Labels /\ "le" \notin Labels
  BY Shape, Names
<1> QED
  BY <1>1, <1>2, <1>3 DEF NamesOf

\* It sees only the labels that the objective is grouped by.
LEMMA SameGroup ==
    ASSUME IInv, NEW g, NEW f, NEW h, \A l \in o.grouping : f[l] = h[l]
    PROVE  Selects(Grouping(g), f) <=> Selects(Grouping(g), h)
  BY GroupingIs DEF Selects

LEMMA InGroupIs ==
    ASSUME IInv, NEW g
    PROVE  /\ InGroup(Total, g) \in SUBSET Total
           /\ InGroup(Failed, g) = FailedIn(InGroup(Total, g))
           /\ \A r \in Total : r \in InGroup(Total, g) <=> Selects(Grouping(g), r.labels)
  BY FailedIsTotal DEF InGroup, FailedIn

\* A group has the labels of one of the requests.
LEMMA GroupOf ==
    ASSUME IInv, NEW g \in Groups
    PROVE  \E r \in Total : \A l \in o.grouping : g[l] = r.labels[l]
<1>1. PICK r \in Total : g = Project(Sample(r, NoValue).labels, o.grouping)
  BY DEF Groups
<1>2. ASSUME NEW l \in o.grouping
      PROVE  g[l] = r.labels[l]
  <2>1. l \in Labels
    BY Shape
  <2>2. Sample(r, NoValue).labels[l] = r.labels[l]
    BY <2>1, Samples
  <2> QED
    BY <1>1, <2>1, <2>2 DEF Project, AllLabels
<1> QED
  BY <1>2

-----------------------------------------------------------------------------
(* Merging it.                                                               *)

\* The matchers of the grouping are added; those of ms that are gone had their labels.
MergedWith(es, ms, g) ==
    /\ Grouping(g) \subseteq es /\ es \subseteq ms \cup Grouping(g)
    /\ \A m \in ms \ es : m.name \in NamesOf(Grouping(g))

LEMMA MergesWith ==
    ASSUME NEW ms, NEW g
    PROVE  MergedWith(ms \cup Grouping(g), ms, g) /\ MergedWith(Replaced(ms, Grouping(g)), ms, g)
  BY DEF MergedWith, Replaced

\* p is the objective with the grouping merged.
MergedObjective(p, g) ==
    /\ Like(p) /\ p.grouping \subseteq o.grouping
    /\ MergedWith(p.total, o.total, g) /\ MergedWith(p.errors, o.errors, g)

\* Those of its matchers that tell errors apart are still there, or say nothing more about
\* the group.
ErrorsKept(p, g) == o.errors \subseteq p.errors \/ ErrorsMergeable(g)

LEMMA MergeNarrows ==
    ASSUME IInv, NEW g, NEW p, MergedObjective(p, g)
    PROVE  Narrows(p.total, InGroup(Total, g))
<1> SUFFICES ASSUME NEW rule \in IncreaseRules, NEW le \in {NoValue, Threshold}, NEW r \in Total,
                    Keeps(o.total, rule.labels, rule.by)
             PROVE  r \in InGroup(Total, g) <=> Selects(p.total, Labelled(rule, Sample(r, le)))
  BY DEF Narrows
<1> DEFINE labels == Labelled(rule, Sample(r, le))
<1>1. Selects(o.total, r.labels) /\ Selects(o.total, labels)
  BY TotalFinds DEF Total
<1>2. \A l \in o.grouping : labels[l] = r.labels[l]
  <2>1. \A m \in o.total : m.name \in Labels
    BY TotalMatchers
  <2>2. Selects(o.total, Sample(r, le).labels)
    BY <1>1, <2>1, SelectsSample
  <2>3. KeptIn(o.total, rule, Sample(r, le))
    BY <2>2, Kept
  <2>4. o.grouping \subseteq rule.by /\ o.grouping \subseteq Labels
    BY DEF Keeps
  <2> QED
    BY <2>3, <2>4, Samples DEF KeptIn
<1> HIDE DEF labels
<1>3. Selects(Grouping(g), labels) <=> r \in InGroup(Total, g)
  BY <1>2, SameGroup, InGroupIs
<1>4. Selects(p.total, labels) <=> Selects(Grouping(g), labels)
  BY <1>1 DEF MergedObjective, MergedWith, Selects
<1> QED
  BY <1>3, <1>4 DEF labels

LEMMA MergeNarrowsErrors ==
    ASSUME IInv, Agreed, o.type = "Ratio", NEW g, NEW p, MergedObjective(p, g), ErrorsKept(p, g)
    PROVE  NarrowsErrors(p.errors, InGroup(Total, g))
<1> SUFFICES ASSUME NEW rule, NEW r \in Total, rule.labels = OwnLabels, rule.by = IncreaseGrouping
             PROVE  Selects(o.errors, r.labels) /\ r \in InGroup(Total, g)
                      <=> Selects(p.errors, Labelled(rule, Sample(r, NoValue)))
  BY DEF NarrowsErrors
<1> DEFINE labels == Labelled(rule, Sample(r, NoValue))
<1>1. \A m \in o.errors : Matches(m, labels[m.name]) <=> Matches(m, r.labels[m.name])
  BY ErrorsSeen
<1>2. \A l \in o.grouping : labels[l] = r.labels[l]
  <2>1. \A m \in o.total : m.name \in Labels
    BY TotalMatchers
  <2>2. Selects(o.total, Sample(r, NoValue).labels)
    BY <2>1, SelectsSample DEF Total
  <2>3. Keeps(o.total, rule.labels, rule.by)
    BY OwnLabelsKeep
  <2>4. KeptIn(o.total, rule, Sample(r, NoValue))
    BY <2>2, <2>3, Kept
  <2>5. o.grouping \subseteq rule.by /\ o.grouping \subseteq Labels
    BY <2>3 DEF Keeps
  <2> QED
    BY <2>4, <2>5, Samples DEF KeptIn
<1> HIDE DEF labels
<1>3. Selects(Grouping(g), labels) <=> r \in InGroup(Total, g)
  BY <1>2, SameGroup, InGroupIs
<1>4. Grouping(g) \subseteq p.errors /\ p.errors \subseteq o.errors \cup Grouping(g)
  BY DEF MergedObjective, MergedWith
<1>5. ASSUME Selects(Grouping(g), labels), NEW m \in o.errors \ p.errors
      PROVE  Matches(m, labels[m.name])
  <2>1. m.name \in NamesOf(Grouping(g))
    BY DEF MergedObjective, MergedWith
  <2>2. PICK n \in Grouping(g) : n.name = m.name
    BY <2>1 DEF NamesOf
  <2>3. labels[m.name] = g[m.name] /\ m.name \in o.grouping
    BY <1>5, <2>2, GroupingIs DEF Selects
  <2>4. ErrorsMergeable(g)
    BY DEF ErrorsKept
  <2> QED
    BY <2>3, <2>4 DEF ErrorsMergeable
<1>6. Selects(p.errors, labels) <=> Selects(o.errors, labels) /\ Selects(Grouping(g), labels)
  BY <1>4, <1>5 DEF Selects
<1>7. Selects(o.errors, labels) <=> Selects(o.errors, r.labels)
  BY <1>1 DEF Selects
<1> QED
  BY <1>3, <1>6, <1>7 DEF labels

\* What each handler makes of the objective.
LEMMA ObjectiveIs ==
    ASSUME IInv
    PROVE  o = [type |-> o.type, total |-> o.total, errors |-> o.errors,
                errorsMetric |-> o.errorsMetric, grouping |-> o.grouping, propagated |-> o.propagated]
  BY DEF IInv, Objectives, ObjectivesOf

LEMMA ListMerged ==
    ASSUME IInv, NEW g
    PROVE  /\ MergedObjective(ListMerge(Grouping(g)), g)
           /\ ListMerge(Grouping(g)).grouping = o.grouping
<1> DEFINE p == ListMerge(Grouping(g))
<1>1. /\ p.type = o.type /\ p.errorsMetric = o.errorsMetric /\ p.grouping = o.grouping
      /\ p.total = Replaced(o.total, Grouping(g)) /\ p.errors = Replaced(o.errors, Grouping(g))
  BY ObjectiveIs DEF ListMerge
<1> HIDE DEF p
<1>2. MergedWith(p.total, o.total, g) /\ MergedWith(p.errors, o.errors, g)
  BY <1>1, MergesWith
<1>3. ASSUME o.type = "Latency"
      PROVE  p.errors = p.total \cup {Eq("le", Threshold)}
  <2>1. o.errors = o.total \cup {Eq("le", Threshold)}
    BY <1>3, Shape
  <2>2. Eq("le", Threshold).name \notin NamesOf(Grouping(g))
    BY GroupingIs, Shape, Names DEF Eq
  <2> QED
    BY <1>1, <2>1, <2>2 DEF Replaced
<1>4. MergedObjective(p, g)
  BY <1>1, <1>2, <1>3 DEF MergedObjective, Like
<1> QED
  BY <1>1, <1>4 DEF p

LEMMA StatusMerged ==
    ASSUME IInv, NEW g, o.type # "LatencyNative"
    PROVE  /\ MergedObjective(StatusMerge(Grouping(g)), g)
           /\ StatusMerge(Grouping(g)).grouping = o.grouping
           /\ o.errors \subseteq StatusMerge(Grouping(g)).errors
<1> DEFINE p == StatusMerge(Grouping(g))
<1>1. /\ p.type = o.type /\ p.errorsMetric = o.errorsMetric /\ p.grouping = o.grouping
      /\ p.total = o.total \cup Grouping(g) /\ p.errors = o.errors \cup Grouping(g)
  BY ObjectiveIs DEF StatusMerge
<1> HIDE DEF p
<1>2. MergedWith(p.total, o.total, g) /\ MergedWith(p.errors, o.errors, g)
  BY <1>1, MergesWith
<1>3. o.type = "Latency" => p.errors = p.total \cup {Eq("le", Threshold)}
  BY <1>1, Shape
<1>4. MergedObjective(p, g)
  BY <1>1, <1>2, <1>3 DEF MergedObjective, Like
<1> QED
  BY <1>1, <1>4 DEF p

LEMMA BudgetMerged ==
    ASSUME IInv, NEW g, o.type # "LatencyNative"
    PROVE  /\ MergedObjective(BudgetMerge(Grouping(g)), g)
           /\ o.errors \subseteq BudgetMerge(Grouping(g)).errors
<1> DEFINE p == BudgetMerge(Grouping(g))
<1>1. /\ p.type = o.type /\ p.errorsMetric = o.errorsMetric /\ p.grouping \subseteq o.grouping
      /\ p.total = o.total \cup Grouping(g) /\ p.errors = o.errors \cup Grouping(g)
  BY ObjectiveIs DEF BudgetMerge
<1> HIDE DEF p
<1>2. MergedWith(p.total, o.total, g) /\ MergedWith(p.errors, o.errors, g)
  BY <1>1, MergesWith
<1>3. o.type = "Latency" => p.errors = p.total \cup {Eq("le", Threshold)}
  BY <1>1, Shape
<1>4. MergedObjective(p, g)
  BY <1>1, <1>2, <1>3 DEF MergedObjective, Like
<1> QED
  BY <1>1, <1>4 DEF p

-----------------------------------------------------------------------------
(* The queries of recorded series.                                           *)

\* What they sum up of the requests of any labels.
LEMMA MergedSums ==
    ASSUME IInv, Agreed, NEW g, NEW p, MergedObjective(p, g), NEW h, NEW by \in SUBSET o.grouping
    PROVE  LET all == Cardinality(ByGroup(InGroup(Total, g), h, by))
               bad == Cardinality(ByGroup(InGroup(Failed, g), h, by))
           IN  /\ all \in Nat /\ bad \in Nat
               /\ Sum(Recorded, QueryTotal(p), Project(h, by), by) = all
               /\ o.type # "Ratio" => Sum(Recorded, QuerySuccess(p), Project(h, by), by) = all - bad
               /\ o.type = "Ratio" /\ ErrorsKept(p, g) =>
                    Sum(Recorded, RatioErrors(p), Project(h, by), by) = bad
<1> DEFINE K == InGroup(Total, g)
<1>1. K \in SUBSET Total /\ InGroup(Failed, g) = FailedIn(K)
  BY InGroupIs
<1>2. Like(p) /\ Narrows(p.total, K)
  BY MergeNarrows DEF MergedObjective
<1>3. ASSUME o.type = "Ratio", ErrorsKept(p, g)
      PROVE  NarrowsErrors(p.errors, K)
  BY <1>3, MergeNarrowsErrors
<1> HIDE DEF K
<1>4. Sum(Recorded, QueryTotal(p), Project(h, by), by) = Cardinality(ByGroup(K, h, by))
  BY <1>1, <1>2, SumOfTotal
<1>5. ASSUME o.type # "Ratio"
      PROVE  Sum(Recorded, QuerySuccess(p), Project(h, by), by) = Cardinality(ByGroup(PassedIn(K), h, by))
  BY <1>1, <1>2, <1>5, SumOfGood
<1>6. ASSUME o.type = "Ratio", ErrorsKept(p, g)
      PROVE  Sum(Recorded, RatioErrors(p), Project(h, by), by) = Cardinality(ByGroup(FailedIn(K), h, by))
  BY <1>2, <1>3, <1>6, SumOfErrors
<1>7. /\ Cardinality(ByGroup(K, h, by)) \in Nat /\ Cardinality(ByGroup(FailedIn(K), h, by)) \in Nat
      /\ Cardinality(ByGroup(PassedIn(K), h, by)) =
           Cardinality(ByGroup(K, h, by)) - Cardinality(ByGroup(FailedIn(K), h, by))
  BY <1>1, Difference
<1> QED
  BY <1>1, <1>4, <1>5, <1>6, <1>7 DEF K

\* A group is asked for as a whole or not at all.
LEMMA AskedFor ==
    ASSUME IInv, NEW g, NEW h \in Groups
    PROVE  /\ h \in Asked(g) =>
                /\ ByGroup(InGroup(Total, g), h, o.grouping) = ByGroup(Total, h, o.grouping)
                /\ ByGroup(InGroup(Failed, g), h, o.grouping) = ByGroup(Failed, h, o.grouping)
           /\ h \notin Asked(g) =>
                /\ ByGroup(InGroup(Total, g), h, o.grouping) = {}
                /\ ByGroup(InGroup(Failed, g), h, o.grouping) = {}
<1>1. ASSUME NEW r, \A l \in o.grouping : r.labels[l] = h[l]
      PROVE  Selects(Grouping(g), r.labels) <=> h \in Asked(g)
  BY <1>1, SameGroup DEF Asked
<1> QED
  BY <1>1 DEF ByGroup, InGroup

LEMMA MergedCounted ==
    ASSUME IInv, Agreed, NEW g, NEW p, MergedObjective(p, g), p.grouping = o.grouping,
           NEW errors, errors => ErrorsKept(p, g)
    PROVE  CountedFor(p, Recorded, g, errors)
<1> SUFFICES ASSUME NEW h \in Groups
             PROVE  /\ Sum(Recorded, QueryTotal(p), h, o.grouping) =
                         IF h \in Asked(g) THEN Cardinality(ByGroup(Total, h, o.grouping)) ELSE 0
                    /\ errors =>
                         QueryErrors(p, Recorded, h) =
                           IF h \in Asked(g) THEN Cardinality(ByGroup(Failed, h, o.grouping)) ELSE 0
  BY DEF CountedFor
<1> DEFINE all == Cardinality(ByGroup(InGroup(Total, g), h, o.grouping))
           bad == Cardinality(ByGroup(InGroup(Failed, g), h, o.grouping))
<1>1. Project(h, o.grouping) = h /\ o.grouping \in SUBSET o.grouping /\ p.type = o.type
  BY GroupsAre DEF MergedObjective, Like
<1>2. /\ all \in Nat /\ bad \in Nat
      /\ Sum(Recorded, QueryTotal(p), h, o.grouping) = all
      /\ o.type # "Ratio" => Sum(Recorded, QuerySuccess(p), h, o.grouping) = all - bad
      /\ o.type = "Ratio" /\ ErrorsKept(p, g) => Sum(Recorded, RatioErrors(p), h, o.grouping) = bad
  BY <1>1, MergedSums
<1>3. /\ all = IF h \in Asked(g) THEN Cardinality(ByGroup(Total, h, o.grouping)) ELSE 0
      /\ bad = IF h \in Asked(g) THEN Cardinality(ByGroup(Failed, h, o.grouping)) ELSE 0
  BY AskedFor, FS_EmptySet
<1> HIDE DEF all, bad
<1>4. ASSUME errors
      PROVE  QueryErrors(p, Recorded, h) = bad
  <2>1. CASE o.type = "Ratio"
    BY <1>1, <1>2, <1>4, <2>1 DEF QueryErrors
  <2>2. CASE o.type # "Ratio"
    BY <1>1, <1>2, <2>2 DEF QueryErrors
  <2> QED
    BY <2>1, <2>2
<1> QED
  BY <1>2, <1>3, <1>4

LEMMA MergedBudget ==
    ASSUME IInv, Agreed, NEW g, NEW p, MergedObjective(p, g), ErrorsKept(p, g)
    PROVE  BudgetFor(p, Recorded, g)
<1> DEFINE by == BudgetBy(p)
           all == Cardinality(ByGroup(InGroup(Total, g), g, by))
           bad == Cardinality(ByGroup(InGroup(Failed, g), g, by))
           sum(query) == Sum(Recorded, query, Project(g, by), by)
<1>1. by \in SUBSET o.grouping /\ p.type = o.type
  BY DEF BudgetBy, MergedObjective, Like
<1>2. QueryErrorBudget(p, Recorded, g) =
        [good  |-> IF p.type = "Ratio" THEN sum(QueryTotal(p)) - sum(RatioErrors(p)) ELSE sum(QuerySuccess(p)),
         total |-> sum(QueryTotal(p))]
  BY DEF QueryErrorBudget
<1> HIDE DEF by
<1>3. /\ all \in Nat /\ bad \in Nat /\ sum(QueryTotal(p)) = all
      /\ o.type # "Ratio" => sum(QuerySuccess(p)) = all - bad
      /\ o.type = "Ratio" => sum(RatioErrors(p)) = bad
  BY <1>1, MergedSums
<1> HIDE DEF sum, all, bad
<1>4. QueryErrorBudget(p, Recorded, g) = [good |-> all - bad, total |-> all]
  BY <1>1, <1>2, <1>3
<1> QED
  BY <1>4 DEF BudgetFor, all, bad, by

-----------------------------------------------------------------------------
(* The queries of the graphs, which read the service's metrics.               *)

\* The matchers select, of a metric, what the requests S add to the bucket le.
RawCounts(metric, ms, S, le) ==
    {s \in Series(metric) : Selects(ms, s.labels)} = {Sample(r, le) : r \in S}

\* One curve of what they add.
LEMMA OnCurve ==
    ASSUME IInv, NEW S \in SUBSET requests, NEW le, NEW by \in SUBSET Labels, NEW f
    PROVE  Cardinality({s \in {Sample(r, le) : r \in S} : Project(s.labels, by) = Project(f, by)})
             = Cardinality(ByGroup(S, f, by))
<1> DEFINE T == ByGroup(S, f, by)
           to == [r \in T |-> Sample(r, le)]
<1>1. by \subseteq AllLabels
  BY DEF AllLabels
<1>2. ASSUME NEW r \in S
      PROVE  Project(Sample(r, le).labels, by) = Project(f, by) <=> r \in T
  <2>1. Project(Sample(r, le).labels, by) = Project(f, by) <=> \A l \in by : Sample(r, le).labels[l] = f[l]
    BY <1>1, ProjectIs
  <2>2. \A l \in by : Sample(r, le).labels[l] = r.labels[l]
    BY Samples
  <2> QED
    BY <2>1, <2>2 DEF ByGroup
<1>3. T \subseteq S
  BY DEF ByGroup
<1> HIDE DEF T
<1>4. {s \in {Sample(r, le) : r \in S} : Project(s.labels, by) = Project(f, by)} = {Sample(r, le) : r \in T}
  BY <1>2, <1>3
<1>5. \A r : Sample(r, le).request = r
  BY Samples
<1>6. to \in Bijection(T, {Sample(r, le) : r \in T})
  BY <1>5 DEF Bijection, Injection, Surjection, IsInjective
<1>7. IsFiniteSet(T)
  BY <1>3, FS_Subset DEF IInv
<1>8. Cardinality({Sample(r, le) : r \in T}) = Cardinality(T)
  BY <1>6, <1>7, FS_Bijection DEF ExistsBijection
<1> QED
  BY <1>4, <1>8 DEF T

LEMMA SumByIs ==
    ASSUME IInv, NEW metric, NEW ms, NEW S \in SUBSET requests, NEW le, RawCounts(metric, ms, S, le),
           NEW by \in SUBSET Labels, NEW f
    PROVE  SumBy(metric, ms, by, Project(f, by)) = Cardinality(ByGroup(S, f, by))
<1>1. {s \in Series(metric) : Selects(ms, s.labels) /\ Project(s.labels, by) = Project(f, by)}
        = {s \in {Sample(r, le) : r \in S} : Project(s.labels, by) = Project(f, by)}
  BY DEF RawCounts
<1> QED
  BY <1>1, OnCurve DEF SumBy

\* The matchers of the total select the requests of the group: one that the grouping has
\* replaced accepted the group's label.
LEMMA RawTotal ==
    ASSUME IInv, NEW g \in Groups, NEW p, MergedObjective(p, g), NEW r \in requests
    PROVE  Selects(p.total, r.labels) <=> r \in InGroup(Total, g)
<1>1. Grouping(g) \subseteq p.total /\ p.total \subseteq o.total \cup Grouping(g)
  BY DEF MergedObjective, MergedWith
<1>2. ASSUME Selects(Grouping(g), r.labels), NEW m \in o.total \ p.total
      PROVE  Matches(m, r.labels[m.name])
  <2>1. m.name \in NamesOf(Grouping(g))
    BY DEF MergedObjective, MergedWith
  <2>2. PICK n \in Grouping(g) : n.name = m.name
    BY <2>1 DEF NamesOf
  <2>3. r.labels[m.name] = g[m.name] /\ m.name \in o.grouping
    BY <1>2, <2>2, GroupingIs DEF Selects
  <2>4. PICK q \in Total : \A l \in o.grouping : g[l] = q.labels[l]
    BY GroupOf
  <2>5. Matches(m, q.labels[m.name])
    BY DEF Total, Selects
  <2> QED
    BY <2>3, <2>4, <2>5
<1>3. Selects(p.total, r.labels) <=> Selects(o.total, r.labels) /\ Selects(Grouping(g), r.labels)
  BY <1>1, <1>2 DEF Selects
<1> QED
  BY <1>3 DEF InGroup, Total

LEMMA RawErrors ==
    ASSUME IInv, NEW g, NEW p, MergedObjective(p, g), ErrorsKept(p, g), NEW r
    PROVE  Selects(p.errors, r.labels) <=> Selects(o.errors, r.labels) /\ Selects(Grouping(g), r.labels)
<1>1. Grouping(g) \subseteq p.errors /\ p.errors \subseteq o.errors \cup Grouping(g)
  BY DEF MergedObjective, MergedWith
<1>2. ASSUME Selects(Grouping(g), r.labels), NEW m \in o.errors \ p.errors
      PROVE  Matches(m, r.labels[m.name])
  <2>1. m.name \in NamesOf(Grouping(g))
    BY DEF MergedObjective, MergedWith
  <2>2. PICK n \in Grouping(g) : n.name = m.name
    BY <2>1 DEF NamesOf
  <2>3. r.labels[m.name] = g[m.name] /\ m.name \in o.grouping
    BY <1>2, <2>2, GroupingIs DEF Selects
  <2>4. ErrorsMergeable(g)
    BY DEF ErrorsKept
  <2> QED
    BY <2>3, <2>4 DEF ErrorsMergeable
<1> QED
  BY <1>1, <1>2 DEF Selects

\* What the merged matchers are about.
LEMMA MergedNames ==
    ASSUME IInv, NEW g, NEW p, MergedObjective(p, g)
    PROVE  /\ \A m \in p.total : m.name \in Labels
           /\ o.type # "Latency" => \A m \in p.errors : m.name \in Labels
<1>1. \A m \in o.total : m.name \in Labels
  BY TotalMatchers
<1>2. o.type # "Latency" => \A m \in o.errors : m.name \in Labels
  BY <1>1, Shape, SelectorsOf
<1>3. \A m \in Grouping(g) : m.name \in Labels
  BY GroupingIs
<1> QED
  BY <1>1, <1>2, <1>3 DEF MergedObjective, MergedWith

\* What the merged matchers select of each metric.
LEMMA RawRequests ==
    ASSUME IInv, NEW g \in Groups, NEW p, MergedObjective(p, g)
    PROVE  RawCounts("requests", p.total, InGroup(Total, g), NoValue)
<1>1. ASSUME NEW r \in requests
      PROVE  Selects(p.total, Sample(r, NoValue).labels) <=> r \in InGroup(Total, g)
  BY MergedNames, SelectsSample, RawTotal
<1>2. InGroup(Total, g) \subseteq requests
  BY DEF InGroup, Total
<1> QED
  BY <1>1, <1>2, SeriesOf DEF RawCounts

LEMMA RawFailed ==
    ASSUME IInv, o.type = "Ratio", NEW g, NEW p, MergedObjective(p, g), ErrorsKept(p, g)
    PROVE  RawCounts(p.errorsMetric, p.errors, InGroup(Failed, g), NoValue)
<1>1. p.errorsMetric = o.errorsMetric /\ p.errorsMetric \in {"requests", "errors"}
  BY Shape DEF MergedObjective, Like
<1>2. ASSUME NEW r \in requests
      PROVE  Selects(p.errors, Sample(r, NoValue).labels)
               <=> Selects(o.errors, r.labels) /\ Selects(Grouping(g), r.labels)
  BY MergedNames, SelectsSample, RawErrors
<1>3. \A r : r \in InGroup(Failed, g) <=>
        /\ r \in requests /\ (p.errorsMetric = "errors" => ~r.good)
        /\ Selects(o.errors, r.labels) /\ Selects(Grouping(g), r.labels)
  BY <1>1 DEF InGroup, Failed
<1>4. CASE p.errorsMetric = "requests"
  BY <1>2, <1>3, <1>4, SeriesOf DEF RawCounts
<1>5. CASE p.errorsMetric = "errors"
  BY <1>2, <1>3, <1>5, SeriesOf DEF RawCounts
<1> QED
  BY <1>1, <1>4, <1>5

LEMMA PassedAre ==
    ASSUME IInv, o.type # "Ratio", NEW g
    PROVE  \A r : r \in PassedIn(InGroup(Total, g)) <=> r \in InGroup(Total, g) /\ r.good
  BY DEF PassedIn, InGroup, Failed

LEMMA RawPassed ==
    ASSUME IInv, o.type = "Latency", NEW g \in Groups, NEW p, MergedObjective(p, g)
    PROVE  RawCounts("requests_bucket", p.errors, PassedIn(InGroup(Total, g)), Threshold)
<1>1. p.errors = p.total \cup {Eq("le", Threshold)}
  BY DEF MergedObjective, Like
<1>2. \A le, f : f["le"] = le => (Matches(Eq("le", Threshold), f[Eq("le", Threshold).name]) <=> le = Threshold)
  BY DEF Eq, Matches
<1>3. ASSUME NEW r \in requests, NEW le
      PROVE  Selects(p.errors, Sample(r, le).labels) <=> r \in InGroup(Total, g) /\ le = Threshold
  <2>1. Selects(p.total, Sample(r, le).labels) <=> r \in InGroup(Total, g)
    BY MergedNames, SelectsSample, RawTotal
  <2>2. Matches(Eq("le", Threshold), Sample(r, le).labels[Eq("le", Threshold).name]) <=> le = Threshold
    BY <1>2, Samples
  <2> QED
    BY <1>1, <2>1, <2>2 DEF Selects
<1>4. InGroup(Total, g) \subseteq requests
  BY DEF InGroup, Total
<1>5. \A s : s \in Series("requests_bucket") /\ Selects(p.errors, s.labels)
        <=> \E r \in PassedIn(InGroup(Total, g)) : s = Sample(r, Threshold)
  BY <1>3, <1>4, SeriesOf, PassedAre, Names
<1> QED
  BY <1>5 DEF RawCounts

LEMMA RawGood ==
    ASSUME IInv, o.type # "Ratio", NEW g \in Groups, NEW p, MergedObjective(p, g)
    PROVE  {s \in Series("requests") : s.request.good /\ Selects(p.total, s.labels)}
             = {Sample(r, NoValue) : r \in PassedIn(InGroup(Total, g))}
<1>1. {s \in Series("requests") : Selects(p.total, s.labels)} = {Sample(r, NoValue) : r \in InGroup(Total, g)}
  BY RawRequests DEF RawCounts
<1>2. \A r : Sample(r, NoValue).request = r
  BY Samples
<1> QED
  BY <1>1, <1>2, PassedAre

LEMMA CurveIs ==
    ASSUME NEW by, NEW c \in Curves(by)
    PROVE  Project(c, by) = c
  BY DEF Curves, Project

\* The labels of the curves are the service's.
LEMMA RangeBy ==
    ASSUME IInv, NEW g, NEW p, MergedObjective(p, g)
    PROVE  /\ RequestRangeBy(p) \in SUBSET Labels /\ ErrorsRangeBy(p) \in SUBSET Labels
           /\ {} \in SUBSET Labels
<1>1. p.type = o.type /\ p.grouping \subseteq Labels
  BY Shape DEF MergedObjective, Like
<1>2. o.type = "Ratio" => ErrorLabels(p) \subseteq Labels
  BY MergedNames DEF ErrorLabels, NamesOf
<1> QED
  BY <1>1, <1>2, TypesAre DEF RequestRangeBy, ErrorsRangeBy

LEMMA MergedRequestRange ==
    ASSUME IInv, NEW g \in Groups, NEW p, MergedObjective(p, g), NEW c \in Curves(RequestRangeBy(p))
    PROVE  RequestRange(p, c) = Cardinality(ByGroup(InGroup(Total, g), c, RequestRangeBy(p)))
<1> DEFINE by == RequestRangeBy(p)
<1>1. by \in SUBSET Labels /\ Project(c, by) = c
  BY RangeBy, CurveIs
<1>2. RawCounts("requests", p.total, InGroup(Total, g), NoValue) /\ InGroup(Total, g) \in SUBSET requests
  BY RawRequests DEF InGroup, Total
<1> HIDE DEF by
<1>3. SumBy("requests", p.total, by, Project(c, by)) = Cardinality(ByGroup(InGroup(Total, g), c, by))
  BY <1>1, <1>2, SumByIs
<1> QED
  BY <1>1, <1>3 DEF RequestRange, by

LEMMA MergedErrorsRange ==
    ASSUME IInv, NEW g \in Groups, NEW p, MergedObjective(p, g), ErrorsKept(p, g),
           NEW c \in Curves(ErrorsRangeBy(p))
    PROVE  ErrorsRange(p, c) =
             [errors |-> Cardinality(ByGroup(InGroup(Failed, g), c, ErrorsRangeBy(p))),
              total  |-> Cardinality(ByGroup(InGroup(Total, g), c,
                                             IF p.type = "Ratio" THEN {} ELSE ErrorsRangeBy(p)))]
<1> DEFINE by == ErrorsRangeBy(p)
           K == InGroup(Total, g)
           all == Cardinality(ByGroup(K, c, by))
           bad == Cardinality(ByGroup(InGroup(Failed, g), c, by))
           good == {s \in Series("requests") :
                      s.request.good /\ Selects(p.total, s.labels) /\ Project(s.labels, by) = c}
           total == IF p.type = "Ratio" THEN SumBy("requests", p.total, {}, Project(c, {}))
                    ELSE SumBy("requests", p.total, by, c)
<1>1. /\ by \in SUBSET Labels /\ {} \in SUBSET Labels /\ Project(c, by) = c
      /\ p.type = o.type
  BY RangeBy, CurveIs DEF MergedObjective, Like
<1>2. /\ K \in SUBSET requests /\ PassedIn(K) \in SUBSET requests
      /\ InGroup(Failed, g) \in SUBSET requests /\ InGroup(Failed, g) = FailedIn(K) /\ K \in SUBSET Total
  BY InGroupIs, FailedIsTotal DEF InGroup, Total, PassedIn
<1>3. RawCounts("requests", p.total, K, NoValue)
  BY RawRequests
<1>4. ErrorsRange(p, c) =
        [errors |-> CASE p.type = "Ratio" -> SumBy(p.errorsMetric, p.errors, by, c)
                      [] p.type = "Latency" -> total - SumBy("requests_bucket", p.errors, by, c)
                      [] OTHER -> total - Cardinality(good),
         total  |-> total]
  BY DEF ErrorsRange
<1> HIDE DEF by, K
<1>5. CASE o.type = "Ratio"
  <2>1. SumBy("requests", p.total, {}, Project(c, {})) = Cardinality(ByGroup(K, c, {}))
    BY <1>1, <1>2, <1>3, SumByIs
  <2>2. RawCounts(p.errorsMetric, p.errors, InGroup(Failed, g), NoValue)
    BY <1>5, RawFailed
  <2>3. SumBy(p.errorsMetric, p.errors, by, Project(c, by)) = bad
    BY <1>1, <1>2, <2>2, SumByIs
  <2> HIDE DEF good, bad
  <2>4. ErrorsRange(p, c) = [errors |-> bad, total |-> Cardinality(ByGroup(K, c, {}))]
    BY <1>1, <1>4, <1>5, <2>1, <2>3
  <2> QED
    BY <1>1, <1>5, <2>4 DEF by, K, bad
<1>6. CASE o.type # "Ratio"
  <2>1. SumBy("requests", p.total, by, Project(c, by)) = all
    BY <1>1, <1>2, <1>3, SumByIs
  <2>2. /\ all \in Nat /\ bad \in Nat
        /\ Cardinality(ByGroup(PassedIn(K), c, by)) = all - bad
    BY <1>2, Difference
  <2>3. ASSUME o.type = "Latency"
        PROVE  SumBy("requests_bucket", p.errors, by, c) = all - bad
    <3>1. RawCounts("requests_bucket", p.errors, PassedIn(K), Threshold)
      BY <2>3, RawPassed DEF K
    <3>2. SumBy("requests_bucket", p.errors, by, Project(c, by)) = Cardinality(ByGroup(PassedIn(K), c, by))
      BY <1>1, <1>2, <3>1, SumByIs
    <3> QED
      BY <1>1, <2>2, <3>2
  <2>4. Cardinality(good) = all - bad
    <3>1. {s \in Series("requests") : s.request.good /\ Selects(p.total, s.labels)}
            = {Sample(r, NoValue) : r \in PassedIn(K)}
      BY <1>6, RawGood DEF K
    <3>2. good = {s \in {Sample(r, NoValue) : r \in PassedIn(K)} : Project(s.labels, by) = Project(c, by)}
      BY <1>1, <3>1
    <3>3. Cardinality({s \in {Sample(r, NoValue) : r \in PassedIn(K)} : Project(s.labels, by) = Project(c, by)})
            = Cardinality(ByGroup(PassedIn(K), c, by))
      BY <1>1, <1>2, OnCurve
    <3> QED
      BY <2>2, <3>2, <3>3
  <2> HIDE DEF all, bad, good
  <2>5. ErrorsRange(p, c) = [errors |-> bad, total |-> all]
    BY <1>1, <1>4, <1>6, <2>1, <2>2, <2>3, <2>4
  <2> QED
    BY <1>1, <1>6, <2>5 DEF by, K, all, bad
<1> QED
  BY <1>5, <1>6

LEMMA MergedDurationRange ==
    ASSUME IInv, o.type = "Latency", NEW g \in Groups, NEW p, MergedObjective(p, g)
    PROVE  DurationRange(p, g) =
             [le : {"+Inf"}, request : InGroup(Total, g)]
               \cup [le : {Threshold}, request : InGroup(Total, g) \ Failed]
<1> DEFINE K == InGroup(Total, g)
           point(s) == [le |-> s.labels["le"], request |-> s.request]
<1>1. {m \in p.errors : m.name # "le"} = p.total
  BY MergedNames, Names DEF MergedObjective, Like, Eq
<1>2. ASSUME NEW r \in requests, NEW le
      PROVE  Selects(p.total, Sample(r, le).labels) <=> r \in K
  BY MergedNames, SelectsSample, RawTotal
<1>3. K \subseteq requests /\ K \ Failed = PassedIn(K)
  BY DEF InGroup, Total, PassedIn
<1>4. \A r : r \in PassedIn(K) <=> r \in K /\ r.good
  BY PassedAre
<1> HIDE DEF K
<1>5. {s \in Series("requests_bucket") : Selects(p.total, s.labels)}
        = {Sample(r, "+Inf") : r \in K} \cup {Sample(r, Threshold) : r \in PassedIn(K)}
  BY <1>2, <1>3, <1>4, SeriesOf
<1>6. \A r, le : point(Sample(r, le)) = [le |-> le, request |-> r]
  BY Samples
<1>7. DurationRange(p, g) =
        {point(s) : s \in {Sample(r, "+Inf") : r \in K} \cup {Sample(r, Threshold) : r \in PassedIn(K)}}
  BY <1>1, <1>5 DEF DurationRange
<1> HIDE DEF point
<1>8. DurationRange(p, g) =
        {[le |-> "+Inf", request |-> r] : r \in K} \cup {[le |-> Threshold, request |-> r] : r \in PassedIn(K)}
  BY <1>6, <1>7
<1>9. ASSUME NEW v, NEW S
      PROVE  {[le |-> v, request |-> r] : r \in S} = [le : {v}, request : S]
  <2>1. \A x : x \in [le : {v}, request : S] => x = [le |-> v, request |-> x.request] /\ x.request \in S
    OBVIOUS
  <2>2. \A r \in S : [le |-> v, request |-> r] \in [le : {v}, request : S]
    OBVIOUS
  <2> QED
    BY <2>1, <2>2
<1> QED
  BY <1>3, <1>8, <1>9 DEF K

LEMMA MergedGraphs ==
    ASSUME IInv, NEW g \in Groups, NEW p, MergedObjective(p, g), ErrorsKept(p, g)
    PROVE  GraphedFor(p, g)
<1>1. p.type = o.type
  BY DEF MergedObjective, Like
<1>2. ASSUME NEW c \in Curves(RequestRangeBy(p))
      PROVE  RequestRange(p, c) = Cardinality(ByGroup(InGroup(Total, g), c, RequestRangeBy(p)))
  BY MergedRequestRange
<1>3. ASSUME NEW c \in Curves(ErrorsRangeBy(p))
      PROVE  ErrorsRange(p, c) =
               [errors |-> Cardinality(ByGroup(InGroup(Failed, g), c, ErrorsRangeBy(p))),
                total  |-> Cardinality(ByGroup(InGroup(Total, g), c,
                                               IF p.type = "Ratio" THEN {} ELSE ErrorsRangeBy(p)))]
  BY MergedErrorsRange
<1>4. ASSUME p.type = "Latency"
      PROVE  DurationRange(p, g) =
               [le : {"+Inf"}, request : InGroup(Total, g)]
                 \cup [le : {Threshold}, request : InGroup(Total, g) \ Failed]
  BY <1>1, <1>4, MergedDurationRange
<1> QED
  BY <1>2, <1>3, <1>4 DEF GraphedFor

-----------------------------------------------------------------------------

\* With the grouping of a group merged as List, the status and the graphs, and
\* GraphErrorBudget do it, the queries count the requests and errors of the groups asked
\* for and no others. As GroupsCounted says, this leaves out what List computes from errors
\* one of whose own matchers it has replaced by another value, status and graphs of native
\* histograms, and GraphErrorBudget where it panics.
THEOREM GroupsCountedAlways == Spec /\ Agreed => []GroupsCounted
<1>1. IInv /\ Agreed => GroupsCounted
  <2> SUFFICES ASSUME IInv, Agreed, NEW g \in Groups
               PROVE  /\ CountedFor(ListMerge(Grouping(g)), Recorded, g, ErrorsMergeable(g))
                      /\ ErrorsMergeable(g) =>
                           /\ BudgetFor(ListMerge(Grouping(g)), Recorded, g)
                           /\ GraphedFor(ListMerge(Grouping(g)), g)
                      /\ o.type # "LatencyNative" =>
                           /\ CountedFor(StatusMerge(Grouping(g)), Recorded, g, TRUE)
                           /\ GraphedFor(StatusMerge(Grouping(g)), g)
                      /\ ~BudgetPanics(Grouping(g)) => BudgetFor(BudgetMerge(Grouping(g)), Recorded, g)
    BY DEF GroupsCounted
  <2>1. CountedFor(ListMerge(Grouping(g)), Recorded, g, ErrorsMergeable(g))
    BY ListMerged, MergedCounted DEF ErrorsKept
  <2>2. ASSUME ErrorsMergeable(g)
        PROVE  BudgetFor(ListMerge(Grouping(g)), Recorded, g) /\ GraphedFor(ListMerge(Grouping(g)), g)
    BY <2>2, ListMerged, MergedBudget, MergedGraphs DEF ErrorsKept
  <2>3. ASSUME o.type # "LatencyNative"
        PROVE  CountedFor(StatusMerge(Grouping(g)), Recorded, g, TRUE) /\ GraphedFor(StatusMerge(Grouping(g)), g)
    BY <2>3, StatusMerged, MergedCounted, MergedGraphs DEF ErrorsKept
  <2>4. ASSUME ~BudgetPanics(Grouping(g))
        PROVE  BudgetFor(BudgetMerge(Grouping(g)), Recorded, g)
    BY <2>4, BudgetMerged, MergedBudget DEF BudgetPanics, ErrorsKept
  <2> QED
    BY <2>1, <2>2, <2>3, <2>4
<1> QED
  BY <1>1, Invariance, PTL

=============================================================================
