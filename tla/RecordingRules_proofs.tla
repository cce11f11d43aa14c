------------------------ MODULE RecordingRules_proofs ------------------------
(***************************************************************************)
(* What the queries find in the recorded series, for any labels, matchers,   *)
(* groupings and requests on which rules and queries agree.                  *)
(***************************************************************************)
EXTENDS GenericRules, FiniteSetTheorems, TLAPS

\* Rules and queries agree on the objective. Of the labels it is not grouped by, a matcher
\* != finds a recorded series that has lost the label, or got a propagated one instead,
\* only if it accepts that value; and a ratio does not tell errors apart by a label that is
\* so lost. A native histogram loses the labels of its regular expressions, and its
\* propagated labels replace those it is grouped by.
Agreed ==
    /\ \A m \in o.total : m.type = "!=" /\ m.name \notin o.grouping =>
         /\ NoValue \notin m.values
         /\ m.name \in DOMAIN o.propagated => o.propagated[m.name] \notin m.values
    /\ o.type = "Ratio" =>
         \A m \in o.errors, n \in o.total :
           m.name = n.name /\ n.type = "!=" /\ n.name \notin o.grouping => m = n
    /\ o.type = "LatencyNative" =>
         /\ \A m \in o.total : m.type \in {"=~", "!~"} => m.name \in o.grouping
         /\ DOMAIN o.propagated \cap o.grouping = {}

-----------------------------------------------------------------------------
(* The objective and the requests.                                           *)

IInv == o \in Objectives /\ requests \in SUBSET Request /\ IsFiniteSet(requests)

LEMMA InitIInv == Init => IInv
  BY FS_EmptySet DEF Init, IInv

LEMMA NextIInv == IInv /\ [Next]_vars => IInv'
<1> SUFFICES ASSUME IInv, [Next]_vars PROVE IInv'
  OBVIOUS
<1>1. ASSUME NEW r \in Request, Serve(r) PROVE IInv'
  BY <1>1, FS_AddElement DEF Serve, IInv
<1>2. CASE UNCHANGED vars
  BY <1>2 DEF vars, IInv
<1> QED
  BY <1>1, <1>2 DEF Next

\* The objective is the same throughout.
LEMMA Invariance == Spec /\ Agreed => [](IInv /\ Agreed)
<1>1. Agreed /\ [Next]_vars => Agreed'
  BY DEF Next, Serve, vars, Agreed
<1> QED
  BY <1>1, InitIInv, NextIInv, PTL DEF Spec

\* What an objective consists of.
LEMMA SelectorsOf ==
    ASSUME NEW t, NEW ms \in Selectors(t), NEW m \in ms
    PROVE  /\ m.name \in Labels
           /\ \E op \in Options[t] : m = [name |-> m.name, type |-> op.type, values |-> op.values]
           /\ \A n \in ms : n.name = m.name => n = m
<1>1. PICK S \in SUBSET Labels :
        \E f \in [S -> Options[t]] :
          ms = {[name |-> l, type |-> f[l].type, values |-> f[l].values] : l \in S}
  BY DEF Selectors
<1> PICK f \in [S -> Options[t]] :
      ms = {[name |-> l, type |-> f[l].type, values |-> f[l].values] : l \in S}
  BY <1>1
<1>2. PICK l \in S : m = [name |-> l, type |-> f[l].type, values |-> f[l].values]
  BY <1>1
<1>3. f[l] \in Options[t] /\ m.name = l
  BY <1>1, <1>2
<1>4. \A n \in ms : n.name = m.name => n = m
  BY <1>1, <1>2
<1> QED
  BY <1>2, <1>3, <1>4

LEMMA Shape ==
    ASSUME IInv
    PROVE  /\ o.type \in Types /\ o.total \in Selectors(o.type)
           /\ o.grouping \subseteq Labels /\ o.propagated \in Propagated[o.type]
           /\ o.errorsMetric \in {"requests", "errors"}
           /\ o.type = "Ratio" => o.errors \in Selectors(o.type) /\ Narrower(o.errors, o.total)
           /\ o.type # "Ratio" => o.errorsMetric = "requests"
           /\ o.type = "Latency" => o.errors = o.total \cup {Eq("le", Threshold)}
           /\ o.type \notin {"Ratio", "Latency"} => o.errors = o.total
<1>1. PICK t \in Types : \E ms \in Selectors(t) : o \in ObjectivesOf(t, ms)
  BY DEF IInv, Objectives
<1> PICK ms \in Selectors(t) : o \in ObjectivesOf(t, ms)
  BY <1>1
<1>2. PICK es \in (IF t = "Ratio" THEN {es \in Selectors(t) : Narrower(es, ms)}
                   ELSE IF t = "Latency" THEN {ms \cup {Eq("le", Threshold)}} ELSE {ms}),
           em \in (IF t = "Ratio" THEN {"requests", "errors"} ELSE {"requests"}),
           by \in SUBSET Labels, p \in Propagated[t] :
        o = [type |-> t, total |-> ms, errors |-> es, errorsMetric |-> em, grouping |-> by, propagated |-> p]
  BY DEF ObjectivesOf
<1>3. /\ o.type = t /\ o.total = ms /\ o.errors = es /\ o.errorsMetric = em
      /\ o.grouping = by /\ o.propagated = p
  BY <1>2
<1> QED
  BY <1>1, <1>2, <1>3

LEMMA TypesAre ==
    ASSUME IInv
    PROVE  o.type \in {"Ratio", "Latency", "LatencyNative", "BoolGauge"}
  BY Shape, RulesAssumption DEF RulesAssumption

LEMMA Names == "slo" \notin Labels /\ "le" \notin Labels /\ Threshold \notin {NoValue, "+Inf"}
  BY RulesAssumption DEF RulesAssumption

\* The matchers of the total.
LEMMA TotalMatchers ==
    ASSUME IInv, NEW m \in o.total
    PROVE  /\ m.name \in Labels /\ m.type \in {"=", "!=", "=~", "!~"}
           /\ \A n \in o.total : n.name = m.name => n = m
           /\ m.type \in {"=", "!="} => \E v \in Values \cup {NoValue} : m.values = {v}
           /\ m.type = "=" => \E v \in Values \cup {NoValue} : m = Eq(m.name, v)
<1>1. PICK op \in Options[o.type] : m = [name |-> m.name, type |-> op.type, values |-> op.values]
  BY Shape, SelectorsOf
<1>2. /\ op.type \in {"=", "!=", "=~", "!~"}
      /\ op.type \in {"=", "!="} => \E v \in Values \cup {NoValue} : op.values = {v}
  BY Shape, RulesAssumption DEF RulesAssumption
<1>3. m.type = op.type /\ m.values = op.values
  BY <1>1
<1>4. m.name \in Labels /\ \A n \in o.total : n.name = m.name => n = m
  BY Shape, SelectorsOf
<1>5. m.type = "=" => \E v \in Values \cup {NoValue} : m = Eq(m.name, v)
  BY <1>1, <1>2, <1>3 DEF Eq
<1> QED
  BY <1>2, <1>3, <1>4, <1>5

-----------------------------------------------------------------------------
(* Series and rules.                                                         *)

LEMMA Samples ==
    ASSUME NEW r, NEW le
    PROVE  /\ Sample(r, le).request = r
           /\ \A l \in Labels : Sample(r, le).labels[l] = r.labels[l]
           /\ Sample(r, le).labels["le"] = le /\ Sample(r, le).labels["slo"] = NoValue
  BY Names DEF Sample, AllLabels

LEMMA SeriesOf ==
    /\ Series("requests") = {Sample(r, NoValue) : r \in requests}
    /\ Series("errors") = {Sample(r, NoValue) : r \in {r \in requests : ~r.good}}
    /\ Series("requests_bucket") =
         {Sample(r, "+Inf") : r \in requests} \cup {Sample(r, Threshold) : r \in {r \in requests : r.good}}
  BY DEF Series

\* Matchers of the service's labels see in a sample what they see in its request.
LEMMA SelectsSample ==
    ASSUME NEW ms, \A m \in ms : m.name \in Labels, NEW r, NEW le
    PROVE  Selects(ms, Sample(r, le).labels) <=> Selects(ms, r.labels)
<1>1. \A m \in ms : Sample(r, le).labels[m.name] = r.labels[m.name]
  <2> SUFFICES ASSUME NEW m \in ms
               PROVE  Sample(r, le).labels[m.name] = r.labels[m.name]
    OBVIOUS
  <2>1. m.name \in Labels /\ m.name # "le" /\ m.name # "slo"
    BY Names
  <2> QED
    BY <2>1 DEF Sample, AllLabels
<1> QED
  BY <1>1 DEF Selects

LEMMA RuleIs ==
    ASSUME NEW record, NEW metric, NEW ms, NEW by, NEW good, NEW labels,
           NEW rule, rule = Rule(record, metric, ms, by, good, labels)
    PROVE  /\ rule.record = record /\ rule.metric = metric /\ rule.matchers = ms
           /\ rule.by = by /\ rule.good = good /\ rule.labels = labels
  BY DEF Rule

\* The labels that the rule records for what it counts s in.
Labelled(rule, s) == Merged(rule.labels, Project(s.labels, rule.by))

\* The series it does so in.
As(rule, s) == RecordedAs(rule, Project(s.labels, rule.by))

LEMMA LabelledIs ==
    \A rule, s : \A l \in AllLabels :
      Labelled(rule, s)[l] = IF l \in DOMAIN rule.labels THEN rule.labels[l]
                             ELSE IF l \in rule.by THEN s.labels[l] ELSE NoValue
  BY DEF Labelled, Project, Merged

LEMMA AsIs ==
    ASSUME NEW rule, NEW s
    PROVE  /\ As(rule, s).name = rule.record /\ As(rule, s).labels = Labelled(rule, s)
           /\ As(rule, s).counts =
                {t.request : t \in {t \in Selected(rule) : Project(t.labels, rule.by) = Project(s.labels, rule.by)}}
  BY DEF As, RecordedAs, Labelled

LEMMA RecordIs ==
    ASSUME NEW rule
    PROVE  Record(rule) = {As(rule, s) : s \in Selected(rule)}
  BY DEF Record, As

LEMMA ProjectIs ==
    ASSUME NEW f, NEW h, NEW by, by \subseteq AllLabels
    PROVE  Project(f, by) = Project(h, by) <=> \A l \in by : f[l] = h[l]
<1>1. ASSUME \A l \in by : f[l] = h[l]
      PROVE  Project(f, by) = Project(h, by)
  BY <1>1 DEF Project
<1>2. ASSUME Project(f, by) = Project(h, by), NEW l \in by
      PROVE  f[l] = h[l]
  <2>1. Project(f, by)[l] = f[l] /\ Project(h, by)[l] = h[l]
    BY DEF Project
  <2> QED
    BY <1>2, <2>1
<1> QED
  BY <1>1, <1>2

\* A sum over the series of several rules, of which the query finds those of one, counts
\* every request of the group once.
LEMMA SumIs ==
    ASSUME IsFiniteSet(requests), NEW rules, NEW rule \in rules, NEW query, NEW g, NEW by,
           NEW S \in SUBSET requests,
           \A other \in rules : \A s \in Selected(other) :
             other # rule => ~Finds(query, As(other, s)),
           \A s \in Selected(rule) :
             s.request \in S <=> Finds(query, As(rule, s)) /\ Project(Labelled(rule, s), by) = g,
           \A r \in S : \E s \in Selected(rule) : s.request = r,
           \A s, t \in Selected(rule) : s.request = t.request => s = t
    PROVE  Sum(UNION {Record(q) : q \in rules}, query, g, by) = Cardinality(S)
<1> DEFINE series == UNION {Record(q) : q \in rules}
           found == {s \in series : Finds(query, s) /\ Project(s.labels, by) = g}
           pairs == {sr \in found \X requests : sr[2] \in sr[1].counts}
           the(r) == CHOOSE s \in Selected(rule) : s.request = r
           f == [r \in S |-> <<As(rule, the(r)), r>>]
<1>1. \A r \in S : the(r) \in Selected(rule) /\ the(r).request = r
  OBVIOUS
<1>2. \A r \in S : /\ As(rule, the(r)) \in series /\ Finds(query, As(rule, the(r)))
                   /\ Project(As(rule, the(r)).labels, by) = g /\ r \in As(rule, the(r)).counts
  <2> SUFFICES ASSUME NEW r \in S
               PROVE  /\ As(rule, the(r)) \in series /\ Finds(query, As(rule, the(r)))
                      /\ Project(As(rule, the(r)).labels, by) = g /\ r \in As(rule, the(r)).counts
    OBVIOUS
  <2> HIDE DEF the
  <2>1. the(r) \in Selected(rule) /\ the(r).request = r
    BY <1>1
  <2>2. As(rule, the(r)) \in series
    BY <2>1, RecordIs
  <2>3. Finds(query, As(rule, the(r))) /\ Project(Labelled(rule, the(r)), by) = g
    BY <2>1
  <2>4. As(rule, the(r)).labels = Labelled(rule, the(r)) /\ r \in As(rule, the(r)).counts
    BY <2>1, AsIs
  <2> QED
    BY <2>2, <2>3, <2>4
<1>3. ASSUME NEW s \in found, NEW r \in s.counts
      PROVE  r \in S /\ s = As(rule, the(r))
  <2> HIDE DEF the
  <2>1. PICK q \in rules : s \in Record(q)
    BY DEF found, series
  <2>2. PICK t \in Selected(q) : s = As(q, t)
    BY <2>1, RecordIs
  <2>3. q = rule
    BY <2>2
  <2>4. PICK u \in Selected(rule) : u.request = r /\ Project(u.labels, rule.by) = Project(t.labels, rule.by)
    BY <1>3, <2>2, <2>3, AsIs
  <2>5. As(rule, u) = s
    BY <2>2, <2>3, <2>4 DEF As
  <2>6. Project(Labelled(rule, u), by) = g
    BY <2>5, AsIs
  <2>7. r \in S
    BY <2>4, <2>5, <2>6
  <2>8. the(r) = u
    BY <2>4, <2>7, <1>1
  <2> QED
    BY <2>5, <2>7, <2>8
<1> HIDE DEF the, found
<1>4. f \in Bijection(S, pairs)
  <2>1. f \in [S -> pairs]
    BY <1>2 DEF found
  <2>2. \A r, q \in S : f[r] = f[q] => r = q
    OBVIOUS
  <2>3. \A x \in pairs : x[2] \in S /\ f[x[2]] = x
    BY <1>3
  <2> QED
    BY <2>1, <2>2, <2>3 DEF Bijection, Injection, Surjection, IsInjective
<1>5. IsFiniteSet(S)
  BY FS_Subset
<1>6. Cardinality(pairs) = Cardinality(S)
  BY <1>4, <1>5, FS_Bijection DEF ExistsBijection
<1> QED
  BY <1>6 DEF Sum, found

-----------------------------------------------------------------------------
(* What a rule keeps of the labels that it counts.                           *)

\* Labels and grouping of a rule are such that its series are found by the matchers ms
\* of the total: a label is summed by, fixed by an equality matcher, or dropped (or
\* propagated) and one that the matcher != accepts.
Keeps(ms, labels, by) ==
    /\ DOMAIN labels \subseteq AllLabels /\ by \subseteq Labels /\ o.grouping \subseteq by
    /\ "slo" \in DOMAIN labels /\ labels["slo"] = Name
    /\ \A m \in ms : m.name \notin by =>
         \/ m.type = "=" /\ m.name \in DOMAIN labels /\ m.values = {labels[m.name]}
         \/ m.type = "!=" /\ (IF m.name \in DOMAIN labels THEN labels[m.name] ELSE NoValue) \notin m.values
    /\ \A l \in by \cap DOMAIN labels :
         \E m \in o.total : m.name = l /\ m.type = "=" /\ m.values = {labels[l]}

\* What that means for the series that it counts s in.
KeptIn(ms, rule, s) ==
    /\ \A l \in rule.by : Labelled(rule, s)[l] = s.labels[l]
    /\ \A m \in ms : /\ Matches(m, Labelled(rule, s)[m.name])
                     /\ m.type = "=" => Labelled(rule, s)[m.name] = s.labels[m.name]
    /\ Labelled(rule, s)["slo"] = Name
    /\ Labelled(rule, s)["le"] = IF "le" \in DOMAIN rule.labels THEN rule.labels["le"] ELSE NoValue

LEMMA Kept ==
    ASSUME IInv, NEW ms \in SUBSET o.total, NEW rule, Keeps(ms, rule.labels, rule.by),
           NEW s, Selects(o.total, s.labels)
    PROVE  KeptIn(ms, rule, s)
<1>1. \A m \in o.total : /\ Matches(m, s.labels[m.name])
                         /\ m.type = "=" => s.labels[m.name] \in m.values
  BY DEF Selects, Matches
<1>2. ASSUME NEW l \in rule.by
      PROVE  Labelled(rule, s)[l] = s.labels[l]
  <2>1. l \in AllLabels
    BY DEF Keeps, AllLabels
  <2>2. CASE l \in DOMAIN rule.labels
    <3>1. PICK m \in o.total : m.name = l /\ m.type = "=" /\ m.values = {rule.labels[l]}
      BY <2>2 DEF Keeps
    <3>2. s.labels[l] = rule.labels[l]
      BY <3>1, <1>1
    <3> QED
      BY <3>2, <2>1, <2>2, LabelledIs
  <2>3. CASE l \notin DOMAIN rule.labels
    BY <2>1, <2>3, LabelledIs
  <2> QED
    BY <2>2, <2>3
<1>3. ASSUME NEW m \in ms
      PROVE  /\ Matches(m, Labelled(rule, s)[m.name])
             /\ m.type = "=" => Labelled(rule, s)[m.name] = s.labels[m.name]
  <2>1. m \in o.total /\ m.name \in AllLabels
    BY TotalMatchers DEF AllLabels
  <2>2. CASE m.name \in rule.by
    BY <1>1, <1>2, <2>1, <2>2
  <2>3. CASE /\ m.name \notin rule.by
             /\ m.type = "=" /\ m.name \in DOMAIN rule.labels /\ m.values = {rule.labels[m.name]}
    <3>1. Labelled(rule, s)[m.name] = rule.labels[m.name] /\ s.labels[m.name] = rule.labels[m.name]
      BY <1>1, <2>1, <2>3, LabelledIs
    <3> QED
      BY <1>1, <2>1, <3>1
  <2>4. CASE /\ m.name \notin rule.by /\ m.type = "!="
             /\ (IF m.name \in DOMAIN rule.labels THEN rule.labels[m.name] ELSE NoValue) \notin m.values
    <3>1. Labelled(rule, s)[m.name] = IF m.name \in DOMAIN rule.labels THEN rule.labels[m.name] ELSE NoValue
      BY <2>1, <2>4, LabelledIs
    <3> QED
      BY <2>4, <3>1 DEF Matches
  <2> QED
    BY <2>2, <2>3, <2>4 DEF Keeps
<1>4. Labelled(rule, s)["slo"] = Name
  BY LabelledIs DEF Keeps, AllLabels
<1>5. "le" \notin rule.by
  BY Names DEF Keeps
<1>6. Labelled(rule, s)["le"] = IF "le" \in DOMAIN rule.labels THEN rule.labels["le"] ELSE NoValue
  BY <1>5, LabelledIs DEF AllLabels
<1> QED
  BY <1>2, <1>3, <1>4, <1>6 DEF KeptIn

LEMMA OneLabelIs ==
    \A name, value : DOMAIN OneLabel(name, value) = {name} /\ OneLabel(name, value)[name] = value
  BY DEF OneLabel

EqualNames == {m.name : m \in {m \in o.total : m.type = "="}}

LEMMA EqualLabelsAre ==
    ASSUME IInv
    PROVE  /\ DOMAIN EqualLabels = EqualNames
           /\ \A m \in o.total : m.type = "=" => m.values = {EqualLabels[m.name]}
<1>1. DOMAIN EqualLabels = EqualNames
  BY DEF EqualLabels, EqualNames
<1>2. ASSUME NEW m \in o.total, m.type = "="
      PROVE  m.values = {EqualLabels[m.name]}
  <2> DEFINE w == CHOOSE v \in Values \cup {NoValue} : Eq(m.name, v) \in o.total
  <2>1. PICK v \in Values \cup {NoValue} : m = Eq(m.name, v)
    BY <1>2, TotalMatchers
  <2>2. Eq(m.name, w) \in o.total
    BY <2>1
  <2>3. EqualLabels[m.name] = w
    BY <1>2 DEF EqualLabels
  <2> HIDE DEF w
  <2>4. Eq(m.name, w).name = m.name /\ Eq(m.name, w).values = {w}
    BY DEF Eq
  <2>5. Eq(m.name, w) = m
    BY <2>2, <2>4, TotalMatchers
  <2> QED
    BY <2>3, <2>4, <2>5
<1> QED
  BY <1>1, <1>2

LEMMA RuleLabelsAre ==
    ASSUME IInv
    PROVE  /\ DOMAIN ruleLabels \subseteq AllLabels \ {"le"}
           /\ "slo" \in DOMAIN ruleLabels /\ ruleLabels["slo"] = Name
           /\ \A m \in o.total : m.type = "=" =>
                m.name \in DOMAIN ruleLabels /\ m.values = {ruleLabels[m.name]}
           /\ \A l \in DOMAIN ruleLabels : l \notin EqualNames /\ l # "slo" =>
                l \in DOMAIN o.propagated /\ ruleLabels[l] = o.propagated[l]
<1> DEFINE common == commonRuleLabels
<1>1. /\ DOMAIN common = {"slo"} \cup DOMAIN o.propagated /\ common["slo"] = Name
      /\ \A l \in DOMAIN o.propagated : l # "slo" => common[l] = o.propagated[l]
  <2> DEFINE slo == OneLabel("slo", Name)
  <2>1. common = Merged(slo, o.propagated)
    BY DEF commonRuleLabels
  <2>2. DOMAIN slo = {"slo"} /\ slo["slo"] = Name
    BY OneLabelIs
  <2> HIDE DEF slo, common
  <2>3. /\ DOMAIN Merged(slo, o.propagated) = DOMAIN slo \cup DOMAIN o.propagated
        /\ \A l \in DOMAIN slo : Merged(slo, o.propagated)[l] = slo[l]
        /\ \A l \in DOMAIN o.propagated \ DOMAIN slo : Merged(slo, o.propagated)[l] = o.propagated[l]
    BY DEF Merged
  <2> QED
    BY <2>1, <2>2, <2>3
<1>2. DOMAIN o.propagated \subseteq Labels
  BY Shape, RulesAssumption DEF RulesAssumption
<1>3. EqualNames \subseteq Labels
  BY TotalMatchers DEF EqualNames
<1> HIDE DEF common
<1>4. /\ DOMAIN ruleLabels = EqualNames \cup DOMAIN common
      /\ \A l \in EqualNames : ruleLabels[l] = EqualLabels[l]
      /\ \A l \in DOMAIN common \ EqualNames : ruleLabels[l] = common[l]
  <2> DEFINE equal == EqualLabels
  <2>1. ruleLabels = Merged(equal, common) /\ DOMAIN equal = EqualNames
    BY EqualLabelsAre DEF ruleLabels, common
  <2> HIDE DEF equal
  <2>2. /\ DOMAIN Merged(equal, common) = DOMAIN equal \cup DOMAIN common
        /\ \A l \in DOMAIN equal : Merged(equal, common)[l] = equal[l]
        /\ \A l \in DOMAIN common \ DOMAIN equal : Merged(equal, common)[l] = common[l]
    BY DEF Merged
  <2> QED
    BY <2>1, <2>2 DEF equal
<1>5. \A m \in o.total : m.type = "=" => m.name \in EqualNames
  BY DEF EqualNames
<1> QED
  BY <1>1, <1>2, <1>3, <1>4, <1>5, EqualLabelsAre, Names DEF AllLabels

\* A rule whose labels are those of the matchers and the propagated ones, but for what it
\* sums by, keeps what it must if it sums by the labels of the regular expressions.
LEMMA KeepsWithout ==
    ASSUME IInv, Agreed, NEW by \in SUBSET Labels, o.grouping \subseteq by, NEW ms \in SUBSET o.total,
           \A m \in ms : m.type \in {"=~", "!~"} => m.name \in by
    PROVE  Keeps(ms, Without(ruleLabels, by), by) /\ "le" \notin DOMAIN Without(ruleLabels, by)
<1> DEFINE labels == Without(ruleLabels, by)
<1>1. /\ DOMAIN labels = DOMAIN ruleLabels \ by
      /\ \A l \in DOMAIN labels : labels[l] = ruleLabels[l]
  BY DEF Without
<1> HIDE DEF labels
<1>2. /\ DOMAIN labels \subseteq AllLabels /\ "le" \notin DOMAIN labels
      /\ "slo" \in DOMAIN labels /\ labels["slo"] = Name
      /\ by \cap DOMAIN labels = {}
  BY <1>1, RuleLabelsAre, Names
<1>3. ASSUME NEW m \in ms, m.name \notin by
      PROVE  \/ m.type = "=" /\ m.name \in DOMAIN labels /\ m.values = {labels[m.name]}
             \/ m.type = "!=" /\ (IF m.name \in DOMAIN labels THEN labels[m.name] ELSE NoValue) \notin m.values
  <2>1. m \in o.total /\ m.name \in Labels /\ m.type \in {"=", "!="}
    BY <1>3, TotalMatchers
  <2>2. CASE m.type = "="
    BY <1>1, <1>3, <2>1, <2>2, RuleLabelsAre
  <2>3. CASE m.type = "!=" /\ m.name \notin DOMAIN labels
    BY <1>3, <2>1, <2>3 DEF Agreed
  <2>4. CASE m.type = "!=" /\ m.name \in DOMAIN labels
    <3>1. m.name \notin EqualNames
      <4>1. \A n \in o.total : n.name = m.name => n = m
        BY <2>1, TotalMatchers
      <4> QED
        BY <2>4, <4>1 DEF EqualNames
    <3>2. m.name # "slo"
      BY <2>1, Names
    <3>3. m.name \in DOMAIN o.propagated /\ labels[m.name] = o.propagated[m.name]
      BY <1>1, <2>4, <3>1, <3>2, RuleLabelsAre
    <3> QED
      BY <1>3, <2>1, <2>4, <3>3 DEF Agreed
  <2> QED
    BY <2>1, <2>2, <2>3, <2>4
<1> QED
  BY <1>2, <1>3 DEF Keeps, labels

\* So does one of a native histogram, which has the labels it sums by too.
LEMMA KeepsAll ==
    ASSUME IInv, Agreed, o.type = "LatencyNative"
    PROVE  Keeps(o.total, ruleLabels, o.grouping) /\ "le" \notin DOMAIN ruleLabels
<1>1. /\ DOMAIN ruleLabels \subseteq AllLabels /\ "le" \notin DOMAIN ruleLabels
      /\ "slo" \in DOMAIN ruleLabels /\ ruleLabels["slo"] = Name
      /\ o.grouping \subseteq Labels
  BY RuleLabelsAre, Shape
<1>2. ASSUME NEW l \in o.grouping \cap DOMAIN ruleLabels
      PROVE  \E m \in o.total : m.name = l /\ m.type = "=" /\ m.values = {ruleLabels[l]}
  <2>1. l \in EqualNames
    BY <1>1, Names, RuleLabelsAre DEF Agreed
  <2>2. PICK m \in o.total : m.name = l /\ m.type = "="
    BY <2>1 DEF EqualNames
  <2> QED
    BY <2>2, RuleLabelsAre
<1>3. ASSUME NEW m \in o.total, m.name \notin o.grouping
      PROVE  \/ m.type = "=" /\ m.name \in DOMAIN ruleLabels /\ m.values = {ruleLabels[m.name]}
             \/ m.type = "!=" /\ (IF m.name \in DOMAIN ruleLabels THEN ruleLabels[m.name] ELSE NoValue) \notin m.values
  <2>1. m.type \in {"=", "!="} /\ m.name \in Labels
    BY <1>3, TotalMatchers DEF Agreed
  <2>2. CASE m.type = "="
    BY <2>2, RuleLabelsAre
  <2>3. CASE m.type = "!=" /\ m.name \notin DOMAIN ruleLabels
    BY <1>3, <2>3 DEF Agreed
  <2>4. CASE m.type = "!=" /\ m.name \in DOMAIN ruleLabels
    <3>1. m.name # "slo"
      BY <2>1, Names
    <3>2. m.name \notin EqualNames
      BY <2>4, TotalMatchers DEF EqualNames
    <3>3. m.name \in DOMAIN o.propagated /\ ruleLabels[m.name] = o.propagated[m.name]
      BY <2>4, <3>1, <3>2, RuleLabelsAre
    <3> QED
      BY <1>3, <2>4, <3>3 DEF Agreed
  <2> QED
    BY <2>1, <2>2, <2>3, <2>4
<1> QED
  BY <1>1, <1>2, <1>3, Names DEF Keeps

\* A bucket's label does not come in the way.
LEMMA KeepsLe ==
    ASSUME IInv, NEW ms, NEW labels, NEW by, Keeps(ms, labels, by), "le" \notin DOMAIN labels,
           ms \subseteq o.total, NEW both,
           \/ both = Merged(labels, OneLabel("le", Threshold))
           \/ both = Merged(OneLabel("le", Threshold), labels)
    PROVE  Keeps(ms, both, by) /\ "le" \in DOMAIN both /\ both["le"] = Threshold
<1>1. /\ DOMAIN both = DOMAIN labels \cup {"le"}
      /\ \A l \in DOMAIN labels : both[l] = labels[l]
      /\ both["le"] = Threshold
  BY DEF Merged, OneLabel
<1>2. \A m \in ms : m.name \in Labels /\ m.name # "le"
  BY TotalMatchers, Names
<1>3. "le" \notin by /\ "le" \in AllLabels
  BY Names DEF Keeps, AllLabels
<1>4. \A m \in ms : m.name \notin by =>
        \/ m.type = "=" /\ m.name \in DOMAIN both /\ m.values = {both[m.name]}
        \/ m.type = "!=" /\ (IF m.name \in DOMAIN both THEN both[m.name] ELSE NoValue) \notin m.values
  BY <1>1, <1>2 DEF Keeps
<1> QED
  BY <1>1, <1>3, <1>4 DEF Keeps

-----------------------------------------------------------------------------
(* The increase rules, and what each counts.                                 *)

\* The rule counts the requests S, each once, in series whose bucket is le.
Counts(rule, S, le) == Selected(rule) = {Sample(r, le) : r \in S}

OwnLabels == Without(ruleLabels, IncreaseGrouping)

Increase(metric, ms, labels) ==
    Rule(increaseName(metric), metric, ms, IncreaseGrouping, FALSE, labels)

NativeIncrease(labels, good) ==
    Rule(increaseName("requests"), "requests", o.total, o.grouping, good, labels)

GaugeBy == o.grouping \cup NamesOf(o.total)

GaugeIncrease(name, good) ==
    Rule(name, "requests", o.total, GaugeBy, good, Without(ruleLabels, GaugeBy))

LEMMA IncreaseRulesAre ==
    /\ o.type = "Ratio" =>
         IncreaseRules = {Increase("requests", o.total, OwnLabels)} \cup
           IF o.errorsMetric = "requests" THEN {} ELSE {Increase("errors", o.errors, OwnLabels)}
    /\ o.type = "Latency" =>
         IncreaseRules = {Increase("requests", o.total, OwnLabels),
                          Increase("requests_bucket", o.errors, Merged(OwnLabels, OneLabel("le", Threshold)))}
    /\ o.type = "LatencyNative" =>
         IncreaseRules = {NativeIncrease(ruleLabels, FALSE),
                          NativeIncrease(Merged(OneLabel("le", Threshold), ruleLabels), TRUE)}
    /\ o.type = "BoolGauge" =>
         IncreaseRules = {GaugeIncrease(countName, FALSE), GaugeIncrease(sumName, TRUE)}
<1>1. ASSUME o.type = "Ratio"
      PROVE  IncreaseRules = {Increase("requests", o.total, OwnLabels)} \cup
               IF o.errorsMetric = "requests" THEN {} ELSE {Increase("errors", o.errors, OwnLabels)}
  BY <1>1 DEF IncreaseRules, RatioIncrease, Increase, OwnLabels
<1>2. ASSUME o.type = "Latency"
      PROVE  IncreaseRules = {Increase("requests", o.total, OwnLabels),
                              Increase("requests_bucket", o.errors, Merged(OwnLabels, OneLabel("le", Threshold)))}
  BY <1>2 DEF IncreaseRules, LatencyIncrease, Increase, OwnLabels
<1>3. ASSUME o.type = "LatencyNative"
      PROVE  IncreaseRules = {NativeIncrease(ruleLabels, FALSE),
                              NativeIncrease(Merged(OneLabel("le", Threshold), ruleLabels), TRUE)}
  BY <1>3 DEF IncreaseRules, LatencyNativeIncrease, NativeIncrease
<1>4. ASSUME o.type = "BoolGauge"
      PROVE  IncreaseRules = {GaugeIncrease(countName, FALSE), GaugeIncrease(sumName, TRUE)}
  BY <1>4 DEF IncreaseRules, BoolGaugeIncrease, GaugeIncrease, GaugeBy
<1> QED
  BY <1>1, <1>2, <1>3, <1>4

\* What a rule counts by its metric and matchers.
LEMMA CountsOf ==
    ASSUME NEW rule, NEW ms, \A m \in ms : m.name \in Labels
    PROVE  /\ rule.metric = "requests" /\ rule.matchers = ms =>
                Counts(rule, {r \in requests : Selects(ms, r.labels) /\ (rule.good => r.good)}, NoValue)
           /\ rule.metric = "errors" /\ rule.matchers = ms =>
                Counts(rule, {r \in requests : Selects(ms, r.labels) /\ ~r.good /\ (rule.good => r.good)}, NoValue)
           /\ rule.metric = "requests_bucket" /\ rule.matchers = ms \cup {Eq("le", Threshold)} =>
                Counts(rule, {r \in requests : Selects(ms, r.labels) /\ r.good}, Threshold)
<1>1. \A r, le : Sample(r, le).request = r
  BY DEF Sample
<1>2. \A r, le : Selects(ms, Sample(r, le).labels) <=> Selects(ms, r.labels)
  BY SelectsSample
<1>3. \A r, le : Sample(r, le).labels["le"] = le
  BY DEF Sample, AllLabels
<1>4. ASSUME rule.metric = "requests", rule.matchers = ms
      PROVE  Counts(rule, {r \in requests : Selects(ms, r.labels) /\ (rule.good => r.good)}, NoValue)
  BY <1>1, <1>2, <1>4, SeriesOf DEF Counts, Selected
<1>5. ASSUME rule.metric = "errors", rule.matchers = ms
      PROVE  Counts(rule, {r \in requests : Selects(ms, r.labels) /\ ~r.good /\ (rule.good => r.good)}, NoValue)
  BY <1>1, <1>2, <1>5, SeriesOf DEF Counts, Selected
<1>6. ASSUME rule.metric = "requests_bucket", rule.matchers = ms \cup {Eq("le", Threshold)}
      PROVE  Counts(rule, {r \in requests : Selects(ms, r.labels) /\ r.good}, Threshold)
  <2>1. ASSUME NEW r, NEW le
        PROVE  Selects(rule.matchers, Sample(r, le).labels) <=> Selects(ms, r.labels) /\ le = Threshold
    <3>1. Eq("le", Threshold).name = "le" /\ \A v : Matches(Eq("le", Threshold), v) <=> v = Threshold
      BY DEF Eq, Matches
    <3> QED
      BY <1>2, <1>3, <1>6, <3>1 DEF Selects
  <2> DEFINE S == {r \in requests : Selects(ms, r.labels) /\ r.good}
  <2>2. ASSUME NEW r \in S
        PROVE  Sample(r, Threshold) \in Selected(rule)
    <3>1. Sample(r, Threshold) \in Series("requests_bucket")
      BY SeriesOf
    <3> QED
      BY <1>1, <1>6, <2>1, <3>1 DEF Selected
  <2>3. ASSUME NEW s \in Selected(rule)
        PROVE  \E r \in S : s = Sample(r, Threshold)
    <3>1. s \in Series("requests_bucket") /\ Selects(rule.matchers, s.labels)
      BY <1>6 DEF Selected
    <3>2. CASE \E r \in requests : s = Sample(r, "+Inf")
      BY <2>1, <3>1, <3>2, Names
    <3>3. CASE \E r \in requests : r.good /\ s = Sample(r, Threshold)
      BY <2>1, <3>1, <3>3
    <3> QED
      BY <3>1, <3>2, <3>3, SeriesOf
  <2> QED
    BY <2>2, <2>3 DEF Counts
<1> QED
  BY <1>4, <1>5, <1>6

-----------------------------------------------------------------------------
(* What the queries count.                                                   *)

LEMMA ByGroupIs ==
    ASSUME NEW S, NEW g, NEW by, NEW r \in S
    PROVE  r \in ByGroup(S, g, by) <=> \A l \in by : r.labels[l] = g[l]
  BY DEF ByGroup

\* The matchers find, of the requests S that a rule counts, the requests G.
TellsApart(ms, rule, S, le, G) == \A r \in S : r \in G <=> Selects(ms, Labelled(rule, Sample(r, le)))

\* The query finds no series of any other rule.
FindsOnly(query, rule) ==
    \A other \in IncreaseRules : \A s \in Selected(other) : other # rule => ~Finds(query, As(other, s))

\* A query that finds the series of one rule alone counts, group by group, the requests of
\* that rule which its matchers select.
LEMMA SumOfRule ==
    ASSUME IInv, NEW rule \in IncreaseRules, Keeps(o.total, rule.labels, rule.by),
           NEW S \in SUBSET Total, NEW le, Counts(rule, S, le),
           NEW ms, NEW G \in SUBSET S, TellsApart(ms, rule, S, le, G),
           FindsOnly(Query(rule.record, ms), rule),
           NEW g, NEW by \in SUBSET o.grouping
    PROVE  Sum(Recorded, Query(rule.record, ms), Project(g, by), by) = Cardinality(ByGroup(G, g, by))
<1> DEFINE query == Query(rule.record, ms)
           T == ByGroup(G, g, by)
<1>1. T \in SUBSET requests
  BY DEF ByGroup, Total
<1>2. \A r \in S : Sample(r, le) \in Selected(rule) /\ Sample(r, le).request = r
  BY DEF Counts, Sample
<1>3. \A s \in Selected(rule) : s.request \in S /\ s = Sample(s.request, le)
  BY <1>2 DEF Counts
<1>4. by \subseteq rule.by /\ by \subseteq Labels /\ by \subseteq AllLabels
  BY DEF Keeps, AllLabels
<1>5. ASSUME NEW r \in S
      PROVE  /\ Labelled(rule, Sample(r, le))["slo"] = Name
             /\ \A l \in by : Labelled(rule, Sample(r, le))[l] = r.labels[l]
  <2>1. Selects(o.total, Sample(r, le).labels)
    <3>1. \A m \in o.total : m.name \in Labels
      BY TotalMatchers
    <3>2. Selects(o.total, Sample(r, le).labels) <=> Selects(o.total, r.labels)
      BY <3>1, SelectsSample
    <3> QED
      BY <3>2 DEF Total
  <2>2. /\ \A l \in rule.by : Labelled(rule, Sample(r, le))[l] = Sample(r, le).labels[l]
        /\ Labelled(rule, Sample(r, le))["slo"] = Name
    <3>1. KeptIn(o.total, rule, Sample(r, le))
      BY <2>1, Kept
    <3> QED
      BY <3>1 DEF KeptIn
  <2>3. ASSUME NEW l \in by PROVE Sample(r, le).labels[l] = r.labels[l]
    BY <1>4, Names DEF Sample, AllLabels
  <2> QED
    BY <1>4, <2>2, <2>3
<1>6. ASSUME NEW r \in S
      PROVE  r \in T <=> /\ Finds(query, As(rule, Sample(r, le)))
                         /\ Project(Labelled(rule, Sample(r, le)), by) = Project(g, by)
  <2> DEFINE labels == Labelled(rule, Sample(r, le))
  <2>1. As(rule, Sample(r, le)).name = rule.record /\ As(rule, Sample(r, le)).labels = labels
    BY AsIs
  <2>2. labels["slo"] = Name /\ \A l \in by : labels[l] = r.labels[l]
    BY <1>5
  <2>3. r \in G <=> Selects(ms, labels)
    BY DEF TellsApart
  <2> HIDE DEF labels
  <2>4. Selects(query.matchers, labels) <=> Selects(ms, labels)
    <3>1. query.matchers = ms \cup {Eq("slo", Name)}
      BY DEF Query
    <3>2. Eq("slo", Name).name = "slo" /\ Matches(Eq("slo", Name), Name)
      BY DEF Eq, Matches
    <3> QED
      BY <2>2, <3>1, <3>2 DEF Selects
  <2>5. query.name = rule.record
    BY DEF Query
  <2>6. Project(labels, by) = Project(g, by) <=> \A l \in by : r.labels[l] = g[l]
    BY <1>4, <2>2, ProjectIs
  <2>7. r \in T <=> r \in G /\ \A l \in by : r.labels[l] = g[l]
    BY DEF ByGroup
  <2> QED
    BY <2>1, <2>3, <2>4, <2>5, <2>6, <2>7 DEF Finds, labels
<1> HIDE DEF query
<1>7. T \subseteq S
  BY DEF ByGroup
<1>8. \A s \in Selected(rule) :
        s.request \in T <=> Finds(query, As(rule, s)) /\ Project(Labelled(rule, s), by) = Project(g, by)
  BY <1>3, <1>6
<1>9. \A r \in T : \E s \in Selected(rule) : s.request = r
  BY <1>2, <1>7
<1>10. \A s, t \in Selected(rule) : s.request = t.request => s = t
  BY <1>3
<1>11. \A other \in IncreaseRules : \A s \in Selected(other) : other # rule => ~Finds(query, As(other, s))
  BY DEF query, FindsOnly
<1>12. IsFiniteSet(requests)
  BY DEF IInv
<1> HIDE DEF T
<1>13. Sum(UNION {Record(q) : q \in IncreaseRules}, query, Project(g, by), by) = Cardinality(T)
  BY <1>1, <1>8, <1>9, <1>10, <1>11, <1>12, SumIs
<1> QED
  BY <1>13 DEF Recorded, query, T

\* The bucket that the series of a rule are of.
Bucket(rule) == IF "le" \in DOMAIN rule.labels THEN rule.labels["le"] ELSE NoValue

LEMMA OfBucket ==
    ASSUME IInv, NEW rule, Keeps(o.total, rule.labels, rule.by), NEW s
    PROVE  Labelled(rule, s)["le"] = Bucket(rule)
<1>1. "le" \notin rule.by /\ "le" \in AllLabels
  BY Names DEF Keeps, AllLabels
<1> QED
  BY <1>1, LabelledIs DEF Bucket

\* The matchers of the total find all series of a rule that counts some of the total.
LEMMA TotalFinds ==
    ASSUME IInv, NEW rule, Keeps(o.total, rule.labels, rule.by), NEW r, NEW le,
           Selects(o.total, r.labels)
    PROVE  /\ Selects(o.total, Labelled(rule, Sample(r, le)))
           /\ Selects(o.total \cup {Eq("le", Bucket(rule))}, Labelled(rule, Sample(r, le)))
<1> DEFINE labels == Labelled(rule, Sample(r, le))
<1>1. Selects(o.total, Sample(r, le).labels)
  <2>1. \A m \in o.total : m.name \in Labels
    BY TotalMatchers
  <2>2. Selects(o.total, Sample(r, le).labels) <=> Selects(o.total, r.labels)
    BY <2>1, SelectsSample
  <2> QED
    BY <2>2
<1>2. KeptIn(o.total, rule, Sample(r, le))
  BY <1>1, Kept
<1>3. \A m \in o.total : Matches(m, labels[m.name])
  BY <1>2 DEF KeptIn
<1>4. labels["le"] = Bucket(rule)
  BY OfBucket
<1> HIDE DEF labels
<1>5. Eq("le", Bucket(rule)).name = "le" /\ Matches(Eq("le", Bucket(rule)), Bucket(rule))
  BY DEF Eq, Matches
<1>6. Selects(o.total, labels) /\ Selects(o.total \cup {Eq("le", Bucket(rule))}, labels)
  BY <1>3, <1>4, <1>5 DEF Selects
<1> QED
  BY <1>6 DEF labels

\* A query finds no series of another name, and none of another bucket.
LEMMA NotFound ==
    ASSUME NEW rule, NEW s, NEW record, NEW ms,
           \/ rule.record # record
           \/ \E v : Eq("le", v) \in ms /\ Labelled(rule, s)["le"] # v
    PROVE  ~Finds(Query(record, ms), As(rule, s))
<1>1. /\ As(rule, s).name = rule.record /\ As(rule, s).labels = Labelled(rule, s)
      /\ Query(record, ms).name = record /\ ms \subseteq Query(record, ms).matchers
  BY AsIs DEF Query
<1>2. \A v : Eq("le", v).name = "le" /\ \A w : Matches(Eq("le", v), w) => w = v
  BY DEF Eq, Matches
<1> QED
  BY <1>1, <1>2 DEF Finds, Selects

LEMMA IncreaseNames ==
    /\ increaseName("requests") = <<"requests", "increase">>
    /\ increaseName("errors") = <<"errors", "increase">>
    /\ increaseName("requests_bucket") = increaseName("requests")
    /\ increaseName("requests") # increaseName("errors") /\ countName # sumName
  BY DEF increaseName, Base, countName, sumName

\* The increase rules of ratio and latency objectives keep what they must, and so do those
\* of gauges.
LEMMA OwnLabelsKeep ==
    ASSUME IInv, Agreed
    PROVE  /\ Keeps(o.total, OwnLabels, IncreaseGrouping) /\ "le" \notin DOMAIN OwnLabels
           /\ Keeps(o.total, Without(ruleLabels, GaugeBy), GaugeBy)
<1>1. o.grouping \subseteq Labels
  BY Shape
<1>2. RegexNames \subseteq Labels /\ NamesOf(o.total) \subseteq Labels
  BY TotalMatchers DEF RegexNames, NamesOf
<1>3. groupingLabels \subseteq Labels
  <2> SUFFICES ASSUME NEW m \in o.errors, m.name # "le"
               PROVE  m.name \in Labels
    BY DEF groupingLabels, NamesOf
  <2>1. CASE o.type = "Ratio"
    BY <2>1, Shape, SelectorsOf
  <2>2. CASE o.type = "Latency"
    <3>1. Eq("le", Threshold).name = "le"
      BY DEF Eq
    <3> QED
      BY <2>2, <3>1, Shape, TotalMatchers
  <2>3. CASE o.type \notin {"Ratio", "Latency"}
    BY <2>3, Shape, TotalMatchers
  <2> QED
    BY <2>1, <2>2, <2>3
<1>4. /\ IncreaseGrouping \in SUBSET Labels /\ o.grouping \subseteq IncreaseGrouping
      /\ \A m \in o.total : m.type \in {"=~", "!~"} => m.name \in IncreaseGrouping
  BY <1>1, <1>2, <1>3 DEF IncreaseGrouping, RegexNames
<1>5. /\ GaugeBy \in SUBSET Labels /\ o.grouping \subseteq GaugeBy
      /\ \A m \in o.total : m.type \in {"=~", "!~"} => m.name \in GaugeBy
  BY <1>1, <1>2 DEF GaugeBy, NamesOf
<1> QED
  BY <1>4, <1>5, KeepsWithout DEF OwnLabels

\* The matchers ms find those of the total that are in K, in the series of any rule.
Narrows(ms, K) ==
    \A rule \in IncreaseRules, le \in {NoValue, Threshold} : \A r \in Total :
        Keeps(o.total, rule.labels, rule.by) => (r \in K <=> Selects(ms, Labelled(rule, Sample(r, le))))

\* Those of the total itself find all of them.
LEMMA TotalNarrows ==
    ASSUME IInv
    PROVE  Narrows(o.total, Total)
  BY TotalFinds DEF Narrows, Total

\* The query, of the matchers ms, reads the series of one rule, which counts the requests S.
Reads(query, ms, S) ==
    \E rule \in IncreaseRules :
        /\ Keeps(o.total, rule.labels, rule.by)
        /\ \E es \in {ms, ms \cup {Eq("le", Bucket(rule))}} : query = Query(rule.record, es)
        /\ \E le \in {NoValue, Threshold} : Counts(rule, S, le)
        /\ FindsOnly(query, rule)

LEMMA SumOfRead ==
    ASSUME IInv, NEW query, NEW ms, NEW S \in SUBSET Total, Reads(query, ms, S),
           NEW K, Narrows(ms, K), NEW g, NEW by \in SUBSET o.grouping
    PROVE  Sum(Recorded, query, Project(g, by), by) = Cardinality(ByGroup(S \cap K, g, by))
<1>1. PICK rule \in IncreaseRules :
        /\ Keeps(o.total, rule.labels, rule.by)
        /\ \E es \in {ms, ms \cup {Eq("le", Bucket(rule))}} : query = Query(rule.record, es)
        /\ \E le \in {NoValue, Threshold} : Counts(rule, S, le)
        /\ FindsOnly(query, rule)
  BY DEF Reads
<1>2. PICK es \in {ms, ms \cup {Eq("le", Bucket(rule))}} : query = Query(rule.record, es)
  BY <1>1
<1>3. PICK le \in {NoValue, Threshold} : Counts(rule, S, le)
  BY <1>1
<1>4. ASSUME NEW r \in S
      PROVE  r \in K <=> Selects(es, Labelled(rule, Sample(r, le)))
  <2> DEFINE labels == Labelled(rule, Sample(r, le))
  <2>1. r \in K <=> Selects(ms, labels)
    BY <1>1 DEF Narrows
  <2>2. labels["le"] = Bucket(rule)
    BY <1>1, OfBucket
  <2>3. Eq("le", Bucket(rule)).name = "le" /\ Matches(Eq("le", Bucket(rule)), Bucket(rule))
    BY DEF Eq, Matches
  <2> HIDE DEF labels
  <2>4. Selects(es, labels) <=> Selects(ms, labels)
    BY <1>2, <2>2, <2>3 DEF Selects
  <2> QED
    BY <2>1, <2>4 DEF labels
<1>5. S \cap K \in SUBSET S /\ TellsApart(es, rule, S, le, S \cap K)
  BY <1>4 DEF TellsApart
<1>6. FindsOnly(Query(rule.record, es), rule)
  BY <1>1, <1>2
<1>7. Sum(Recorded, Query(rule.record, es), Project(g, by), by) = Cardinality(ByGroup(S \cap K, g, by))
  BY <1>1, <1>3, <1>5, <1>6, SumOfRule
<1> QED
  BY <1>2, <1>7

\* An objective that differs from o in its matchers at most, as far as queries are concerned.
Like(p) ==
    /\ p.type = o.type /\ p.errorsMetric = o.errorsMetric
    /\ p.type = "Latency" => p.errors = p.total \cup {Eq("le", Threshold)}

LEMMA LikeItself ==
    ASSUME IInv
    PROVE  Like(o)
  BY Shape DEF Like

Good == {r \in requests : Selects(o.total, r.labels) /\ r.good}

LEMMA GoodIs ==
    ASSUME IInv, o.type # "Ratio"
    PROVE  Total \ Failed = Good
  BY DEF Good, Total, Failed

\* The two rules of a latency objective differ in their bucket.
LEMMA LatencyReads ==
    ASSUME IInv, Agreed, o.type = "Latency", NEW p, Like(p)
    PROVE  Reads(QueryTotal(p), p.total, Total) /\ Reads(QuerySuccess(p), p.total, Good)
<1> DEFINE A == Increase("requests", o.total, OwnLabels)
           both == Merged(OwnLabels, OneLabel("le", Threshold))
           B == Increase("requests_bucket", o.errors, both)
<1>1. /\ A.record = increaseName("requests") /\ A.metric = "requests" /\ A.matchers = o.total
      /\ A.by = IncreaseGrouping /\ A.good = FALSE /\ A.labels = OwnLabels
      /\ B.record = increaseName("requests") /\ B.metric = "requests_bucket" /\ B.matchers = o.errors
      /\ B.by = IncreaseGrouping /\ B.good = FALSE /\ B.labels = both
  BY IncreaseNames DEF Increase, Rule
<1>2. Keeps(o.total, OwnLabels, IncreaseGrouping) /\ "le" \notin DOMAIN OwnLabels
  BY OwnLabelsKeep
<1>3. Keeps(o.total, both, IncreaseGrouping) /\ "le" \in DOMAIN both /\ both["le"] = Threshold
  BY <1>2, KeepsLe
<1>4. IncreaseRules = {A, B}
  BY IncreaseRulesAre
<1>5. o.errors = o.total \cup {Eq("le", Threshold)} /\ \A m \in o.total : m.name \in Labels
  BY Shape, TotalMatchers
<1>6. /\ QueryTotal(p) = Query(increaseName("requests"), p.total \cup {Eq("le", NoValue)})
      /\ QuerySuccess(p) = Query(increaseName("requests"), p.total \cup {Eq("le", Threshold)})
  BY <1>5, IncreaseNames DEF Like, QueryTotal, QuerySuccess
<1> HIDE DEF A, B, both
<1>7. Bucket(A) = NoValue /\ Bucket(B) = Threshold
  BY <1>1, <1>2, <1>3 DEF Bucket
<1>8. Counts(A, Total, NoValue)
  <2>1. Counts(A, {r \in requests : Selects(o.total, r.labels) /\ (A.good => r.good)}, NoValue)
    BY <1>1, <1>5, CountsOf
  <2>2. {r \in requests : Selects(o.total, r.labels) /\ (A.good => r.good)} = Total
    BY <1>1 DEF Total
  <2> QED
    BY <2>1, <2>2
<1>9. Counts(B, Good, Threshold)
  BY <1>1, <1>5, CountsOf DEF Good
<1>10. \A s : Labelled(A, s)["le"] = NoValue /\ Labelled(B, s)["le"] = Threshold
  BY <1>1, <1>2, <1>3, <1>7, OfBucket
<1>11. ASSUME NEW s
       PROVE  ~Finds(QueryTotal(p), As(B, s)) /\ ~Finds(QuerySuccess(p), As(A, s))
  <2>1. /\ Labelled(B, s)["le"] # NoValue /\ Eq("le", NoValue) \in p.total \cup {Eq("le", NoValue)}
        /\ Labelled(A, s)["le"] # Threshold /\ Eq("le", Threshold) \in p.total \cup {Eq("le", Threshold)}
    BY <1>10, Names
  <2>2. ~Finds(Query(increaseName("requests"), p.total \cup {Eq("le", NoValue)}), As(B, s))
    BY <2>1, NotFound
  <2>3. ~Finds(Query(increaseName("requests"), p.total \cup {Eq("le", Threshold)}), As(A, s))
    BY <2>1, NotFound
  <2> QED
    BY <1>6, <2>2, <2>3
<1>12. Reads(QueryTotal(p), p.total, Total)
  BY <1>1, <1>2, <1>4, <1>6, <1>7, <1>8, <1>11 DEF Reads, FindsOnly
<1>13. Reads(QuerySuccess(p), p.total, Good)
  BY <1>1, <1>3, <1>4, <1>6, <1>7, <1>9, <1>11 DEF Reads, FindsOnly
<1> QED
  BY <1>12, <1>13

\* So do those of a native histogram.
LEMMA NativeReads ==
    ASSUME IInv, Agreed, o.type = "LatencyNative", NEW p, Like(p)
    PROVE  Reads(QueryTotal(p), p.total, Total) /\ Reads(QuerySuccess(p), p.total, Good)
<1> DEFINE both == Merged(OneLabel("le", Threshold), ruleLabels)
           A == NativeIncrease(ruleLabels, FALSE)
           B == NativeIncrease(both, TRUE)
           name == increaseName("requests")
<1>1. /\ A.record = name /\ A.metric = "requests" /\ A.matchers = o.total
      /\ A.by = o.grouping /\ A.good = FALSE /\ A.labels = ruleLabels
      /\ B.record = name /\ B.metric = "requests" /\ B.matchers = o.total
      /\ B.by = o.grouping /\ B.good = TRUE /\ B.labels = both
  BY DEF NativeIncrease, Rule
<1>2. Keeps(o.total, ruleLabels, o.grouping) /\ "le" \notin DOMAIN ruleLabels
  BY KeepsAll
<1>3. Keeps(o.total, both, o.grouping) /\ "le" \in DOMAIN both /\ both["le"] = Threshold
  BY <1>2, KeepsLe
<1>4. IncreaseRules = {A, B}
  BY IncreaseRulesAre
<1>5. /\ QueryTotal(p) = Query(name, p.total \cup {Eq("le", NoValue)})
      /\ QuerySuccess(p) = Query(name, p.total \cup {Eq("le", Threshold)})
  BY DEF Like, QueryTotal, QuerySuccess
<1>6. \A m \in o.total : m.name \in Labels
  BY TotalMatchers
<1> HIDE DEF A, B, both, name
<1>7. Bucket(A) = NoValue /\ Bucket(B) = Threshold
  BY <1>1, <1>2, <1>3 DEF Bucket
<1>8. Counts(A, Total, NoValue) /\ Counts(B, Good, NoValue)
  <2>1. /\ Counts(A, {r \in requests : Selects(o.total, r.labels) /\ (A.good => r.good)}, NoValue)
        /\ Counts(B, {r \in requests : Selects(o.total, r.labels) /\ (B.good => r.good)}, NoValue)
    BY <1>1, <1>6, CountsOf
  <2>2. /\ {r \in requests : Selects(o.total, r.labels) /\ (A.good => r.good)} = Total
        /\ {r \in requests : Selects(o.total, r.labels) /\ (B.good => r.good)} = Good
    BY <1>1 DEF Total, Good
  <2> QED
    BY <2>1, <2>2
<1>9. \A s : Labelled(A, s)["le"] = NoValue /\ Labelled(B, s)["le"] = Threshold
  BY <1>1, <1>2, <1>3, <1>7, OfBucket
<1>10. ASSUME NEW s
       PROVE  ~Finds(QueryTotal(p), As(B, s)) /\ ~Finds(QuerySuccess(p), As(A, s))
  <2>1. /\ Labelled(B, s)["le"] # NoValue /\ Eq("le", NoValue) \in p.total \cup {Eq("le", NoValue)}
        /\ Labelled(A, s)["le"] # Threshold /\ Eq("le", Threshold) \in p.total \cup {Eq("le", Threshold)}
    BY <1>9, Names
  <2>2. ~Finds(Query(name, p.total \cup {Eq("le", NoValue)}), As(B, s))
    BY <2>1, NotFound
  <2>3. ~Finds(Query(name, p.total \cup {Eq("le", Threshold)}), As(A, s))
    BY <2>1, NotFound
  <2> QED
    BY <1>5, <2>2, <2>3
<1>11. Reads(QueryTotal(p), p.total, Total)
  BY <1>1, <1>2, <1>4, <1>5, <1>7, <1>8, <1>10 DEF Reads, FindsOnly
<1>12. Reads(QuerySuccess(p), p.total, Good)
  BY <1>1, <1>3, <1>4, <1>5, <1>7, <1>8, <1>10 DEF Reads, FindsOnly
<1> QED
  BY <1>11, <1>12

\* The two rules of a gauge differ in their name.
LEMMA GaugeReads ==
    ASSUME IInv, Agreed, o.type = "BoolGauge", NEW p, Like(p)
    PROVE  Reads(QueryTotal(p), p.total, Total) /\ Reads(QuerySuccess(p), p.total, Good)
<1> DEFINE labels == Without(ruleLabels, GaugeBy)
           A == GaugeIncrease(countName, FALSE)
           B == GaugeIncrease(sumName, TRUE)
<1>1. /\ A.record = countName /\ A.metric = "requests" /\ A.matchers = o.total
      /\ A.by = GaugeBy /\ A.good = FALSE /\ A.labels = labels
      /\ B.record = sumName /\ B.metric = "requests" /\ B.matchers = o.total
      /\ B.by = GaugeBy /\ B.good = TRUE /\ B.labels = labels
  BY DEF GaugeIncrease, Rule
<1>2. Keeps(o.total, labels, GaugeBy)
  BY OwnLabelsKeep
<1>3. IncreaseRules = {A, B}
  BY IncreaseRulesAre
<1>4. QueryTotal(p) = Query(countName, p.total) /\ QuerySuccess(p) = Query(sumName, p.total)
  BY DEF Like, QueryTotal, QuerySuccess
<1>5. \A m \in o.total : m.name \in Labels
  BY TotalMatchers
<1> HIDE DEF A, B, labels
<1>6. Counts(A, Total, NoValue) /\ Counts(B, Good, NoValue)
  <2>1. /\ Counts(A, {r \in requests : Selects(o.total, r.labels) /\ (A.good => r.good)}, NoValue)
        /\ Counts(B, {r \in requests : Selects(o.total, r.labels) /\ (B.good => r.good)}, NoValue)
    BY <1>1, <1>5, CountsOf
  <2>2. /\ {r \in requests : Selects(o.total, r.labels) /\ (A.good => r.good)} = Total
        /\ {r \in requests : Selects(o.total, r.labels) /\ (B.good => r.good)} = Good
    BY <1>1 DEF Total, Good
  <2> QED
    BY <2>1, <2>2
<1>7. \A s : ~Finds(QueryTotal(p), As(B, s)) /\ ~Finds(QuerySuccess(p), As(A, s))
  BY <1>1, <1>4, NotFound, IncreaseNames
<1>8. Reads(QueryTotal(p), p.total, Total)
  BY <1>1, <1>2, <1>3, <1>4, <1>6, <1>7 DEF Reads, FindsOnly
<1>9. Reads(QuerySuccess(p), p.total, Good)
  BY <1>1, <1>2, <1>3, <1>4, <1>6, <1>7 DEF Reads, FindsOnly
<1> QED
  BY <1>8, <1>9

\* The rule of the errors of a ratio, if there is one, has another name than that of the total.
LEMMA RatioReads ==
    ASSUME IInv, Agreed, o.type = "Ratio", NEW p, Like(p)
    PROVE  Reads(QueryTotal(p), p.total, Total)
<1> DEFINE A == Increase("requests", o.total, OwnLabels)
           B == Increase("errors", o.errors, OwnLabels)
<1>1. /\ A.record = increaseName("requests") /\ A.metric = "requests" /\ A.matchers = o.total
      /\ A.by = IncreaseGrouping /\ A.good = FALSE /\ A.labels = OwnLabels
      /\ B.record = increaseName("errors")
  BY DEF Increase, Rule
<1>2. Keeps(o.total, OwnLabels, IncreaseGrouping)
  BY OwnLabelsKeep
<1>3. IncreaseRules \subseteq {A, B} /\ A \in IncreaseRules
  BY IncreaseRulesAre
<1>4. QueryTotal(p) = Query(increaseName("requests"), p.total)
  BY DEF Like, QueryTotal
<1>5. \A m \in o.total : m.name \in Labels
  BY TotalMatchers
<1> HIDE DEF A, B
<1>6. Counts(A, Total, NoValue)
  <2>1. Counts(A, {r \in requests : Selects(o.total, r.labels) /\ (A.good => r.good)}, NoValue)
    BY <1>1, <1>5, CountsOf
  <2>2. {r \in requests : Selects(o.total, r.labels) /\ (A.good => r.good)} = Total
    BY <1>1 DEF Total
  <2> QED
    BY <2>1, <2>2
<1>7. \A s : ~Finds(QueryTotal(p), As(B, s))
  BY <1>1, <1>4, NotFound, IncreaseNames
<1> QED
  BY <1>1, <1>2, <1>3, <1>4, <1>6, <1>7 DEF Reads, FindsOnly

\* A rule of a ratio keeps what matters of every label that the errors are selected by: it
\* sums by the label, an equality matcher of the total fixes it, or both are selected by the
\* same matcher !=.
LEMMA ErrorsSeen ==
    ASSUME IInv, Agreed, o.type = "Ratio", NEW rule,
           rule.labels = OwnLabels, rule.by = IncreaseGrouping, NEW r \in Total, NEW m \in o.errors
    PROVE  Matches(m, Labelled(rule, Sample(r, NoValue))[m.name]) <=> Matches(m, r.labels[m.name])
<1> DEFINE s == Sample(r, NoValue)
<1>1. Keeps(o.total, rule.labels, rule.by)
  BY OwnLabelsKeep
<1>2. Selects(o.total, s.labels)
  <2>1. \A n \in o.total : n.name \in Labels
    BY TotalMatchers
  <2>2. Selects(o.total, s.labels) <=> Selects(o.total, r.labels)
    BY <2>1, SelectsSample
  <2> QED
    BY <2>2 DEF Total
<1>3. KeptIn(o.total, rule, s)
  BY <1>1, <1>2, Kept
<1>4. m.name \in Labels
  BY Shape, SelectorsOf
<1>5. s.labels[m.name] = r.labels[m.name]
  BY <1>4, Samples
<1> HIDE DEF s
<1>6. CASE m.name \in IncreaseGrouping
  BY <1>3, <1>5, <1>6 DEF KeptIn, s
<1>7. CASE m.name \notin IncreaseGrouping
  <2>1. m.name \in NamesOf(o.total)
    BY <1>4, <1>7, Names DEF IncreaseGrouping, groupingLabels, NamesOf
  <2>2. PICK n \in o.total : n.name = m.name
    BY <2>1 DEF NamesOf
  <2>3. n.type \notin {"=~", "!~"}
    BY <1>7, <2>2 DEF IncreaseGrouping, RegexNames
  <2>4. CASE n.type = "="
    BY <1>3, <1>5, <2>2, <2>4 DEF KeptIn, s
  <2>5. CASE n.type = "!="
    <3>1. m = n
      BY <1>7, <2>2, <2>5 DEF Agreed, IncreaseGrouping
    <3>2. Matches(n, Labelled(rule, s)[n.name]) /\ Matches(n, r.labels[n.name])
      BY <1>3, <2>2 DEF KeptIn, Total, Selects
    <3> QED
      BY <3>1, <3>2 DEF s
  <2> QED
    BY <2>2, <2>3, <2>4, <2>5, TotalMatchers
<1> QED
  BY <1>6, <1>7 DEF s

\* So its series tell the errors apart as the requests do. The matchers es find those
\* errors that are in K.
NarrowsErrors(es, K) ==
    \A rule : \A r \in Total : rule.labels = OwnLabels /\ rule.by = IncreaseGrouping =>
        (Selects(o.errors, r.labels) /\ r \in K <=> Selects(es, Labelled(rule, Sample(r, NoValue))))

LEMMA ErrorsNarrow ==
    ASSUME IInv, Agreed, o.type = "Ratio"
    PROVE  NarrowsErrors(o.errors, Total)
<1> SUFFICES ASSUME NEW rule, NEW r \in Total, rule.labels = OwnLabels, rule.by = IncreaseGrouping
             PROVE  Selects(o.errors, r.labels) <=> Selects(o.errors, Labelled(rule, Sample(r, NoValue)))
  BY DEF NarrowsErrors
<1>1. \A m \in o.errors :
        Matches(m, Labelled(rule, Sample(r, NoValue))[m.name]) <=> Matches(m, r.labels[m.name])
  BY ErrorsSeen
<1> QED
  BY <1>1 DEF Selects

LEMMA FailedIsTotal ==
    ASSUME IInv
    PROVE  Failed \subseteq Total
<1>1. CASE o.type # "Ratio"
  BY <1>1 DEF Failed
<1>2. CASE o.type = "Ratio"
  <2>1. Narrower(o.errors, o.total)
    BY <1>2, Shape
  <2>2. \A r \in requests : r.labels \in [Labels -> Values \cup {NoValue}]
    BY DEF IInv, Request
  <2> QED
    BY <1>2, <2>1, <2>2 DEF Narrower, Failed, Total
<1> QED
  BY <1>1, <1>2

\* Those of the requests K that have failed, and those that have not.
FailedIn(K) == Failed \cap K
PassedIn(K) == K \ Failed

LEMMA SumOfErrors ==
    ASSUME IInv, Agreed, o.type = "Ratio", NEW p, Like(p), NEW K, NarrowsErrors(p.errors, K),
           NEW g, NEW by \in SUBSET o.grouping
    PROVE  Sum(Recorded, RatioErrors(p), Project(g, by), by) = Cardinality(ByGroup(FailedIn(K), g, by))
<1> DEFINE G == FailedIn(K)
           A == Increase("requests", o.total, OwnLabels)
           B == Increase("errors", o.errors, OwnLabels)
<1>1. /\ A.record = increaseName("requests") /\ A.metric = "requests" /\ A.matchers = o.total
      /\ A.by = IncreaseGrouping /\ A.good = FALSE /\ A.labels = OwnLabels
      /\ B.record = increaseName("errors") /\ B.metric = "errors" /\ B.matchers = o.errors
      /\ B.by = IncreaseGrouping /\ B.good = FALSE /\ B.labels = OwnLabels
  BY DEF Increase, Rule
<1>2. Keeps(o.total, OwnLabels, IncreaseGrouping)
  BY OwnLabelsKeep
<1>3. IncreaseRules = {A} \cup IF o.errorsMetric = "requests" THEN {} ELSE {B}
  BY IncreaseRulesAre
<1>4. RatioErrors(p) = Query(increaseName(o.errorsMetric), p.errors)
  BY DEF RatioErrors, Like
<1>5. (\A m \in o.total : m.name \in Labels) /\ (\A m \in o.errors : m.name \in Labels)
  BY TotalMatchers, Shape, SelectorsOf
<1>6. Failed \in SUBSET Total /\ G \in SUBSET Failed
  BY FailedIsTotal DEF FailedIn
<1> HIDE DEF A, B, G
<1>7. CASE o.errorsMetric = "requests"
  <2>1. Counts(A, Total, NoValue)
    <3>1. Counts(A, {r \in requests : Selects(o.total, r.labels) /\ (A.good => r.good)}, NoValue)
      BY <1>1, <1>5, CountsOf
    <3>2. {r \in requests : Selects(o.total, r.labels) /\ (A.good => r.good)} = Total
      BY <1>1 DEF Total
    <3> QED
      BY <3>1, <3>2
  <2>2. \A r \in Total : r \in G <=> Selects(o.errors, r.labels) /\ r \in K
    BY <1>7 DEF Failed, Total, FailedIn, G
  <2>3. TellsApart(p.errors, A, Total, NoValue, G)
    BY <1>1, <2>2 DEF TellsApart, NarrowsErrors
  <2>4. FindsOnly(Query(A.record, p.errors), A) /\ A \in IncreaseRules
    BY <1>3, <1>7 DEF FindsOnly
  <2>5. Sum(Recorded, Query(A.record, p.errors), Project(g, by), by) = Cardinality(ByGroup(G, g, by))
    BY <1>1, <1>2, <1>6, <2>1, <2>3, <2>4, SumOfRule
  <2> QED
    BY <1>1, <1>4, <1>7, <2>5 DEF G
<1>8. CASE o.errorsMetric # "requests"
  <2>1. o.errorsMetric = "errors"
    BY <1>8, Shape
  <2>2. Counts(B, Failed, NoValue)
    <3>1. Counts(B, {r \in requests : Selects(o.errors, r.labels) /\ ~r.good /\ (B.good => r.good)}, NoValue)
      BY <1>1, <1>5, CountsOf
    <3>2. {r \in requests : Selects(o.errors, r.labels) /\ ~r.good /\ (B.good => r.good)} = Failed
      BY <1>1, <2>1 DEF Failed
    <3> QED
      BY <3>1, <3>2
  <2>3. \A r \in Failed : r \in G <=> Selects(o.errors, r.labels) /\ r \in K
    BY DEF Failed, FailedIn, G
  <2>4. TellsApart(p.errors, B, Failed, NoValue, G)
    BY <1>1, <1>6, <2>3 DEF TellsApart, NarrowsErrors
  <2>5. FindsOnly(Query(B.record, p.errors), B) /\ B \in IncreaseRules
    BY <1>1, <1>3, <1>8, NotFound, IncreaseNames DEF FindsOnly
  <2>6. Sum(Recorded, Query(B.record, p.errors), Project(g, by), by) = Cardinality(ByGroup(G, g, by))
    BY <1>1, <1>2, <1>6, <2>2, <2>3, <2>4, <2>5, SumOfRule
  <2> QED
    BY <1>1, <1>4, <2>1, <2>6 DEF G
<1> QED
  BY <1>7, <1>8 DEF G

-----------------------------------------------------------------------------
(* Totals, errors and error budget.                                          *)

LEMMA AllRead ==
    ASSUME IInv, Agreed, NEW p, Like(p)
    PROVE  Reads(QueryTotal(p), p.total, Total) /\ (o.type # "Ratio" => Reads(QuerySuccess(p), p.total, Good))
  BY TypesAre, LatencyReads, NativeReads, GaugeReads, RatioReads

LEMMA SumOfTotal ==
    ASSUME IInv, Agreed, NEW p, Like(p), NEW K \in SUBSET Total, Narrows(p.total, K),
           NEW g, NEW by \in SUBSET o.grouping
    PROVE  Sum(Recorded, QueryTotal(p), Project(g, by), by) = Cardinality(ByGroup(K, g, by))
<1>1. Total \in SUBSET Total /\ Reads(QueryTotal(p), p.total, Total) /\ Total \cap K = K
  BY AllRead
<1> QED
  BY <1>1, SumOfRead

LEMMA SumOfGood ==
    ASSUME IInv, Agreed, o.type # "Ratio", NEW p, Like(p), NEW K \in SUBSET Total, Narrows(p.total, K),
           NEW g, NEW by \in SUBSET o.grouping
    PROVE  Sum(Recorded, QuerySuccess(p), Project(g, by), by) = Cardinality(ByGroup(PassedIn(K), g, by))
<1>1. Good \in SUBSET Total /\ Reads(QuerySuccess(p), p.total, Good) /\ Good \cap K = PassedIn(K)
  BY AllRead, GoodIs DEF Good, Total, PassedIn
<1> QED
  BY <1>1, SumOfRead

\* Of a group of requests, those not failed are the difference.
LEMMA Difference ==
    ASSUME IInv, NEW K \in SUBSET Total, NEW g, NEW by
    PROVE  /\ Cardinality(ByGroup(K, g, by)) \in Nat /\ Cardinality(ByGroup(FailedIn(K), g, by)) \in Nat
           /\ Cardinality(ByGroup(PassedIn(K), g, by)) =
                Cardinality(ByGroup(K, g, by)) - Cardinality(ByGroup(FailedIn(K), g, by))
<1> DEFINE T == ByGroup(K, g, by)
           F == ByGroup(FailedIn(K), g, by)
<1>1. F \subseteq T /\ ByGroup(PassedIn(K), g, by) = T \ F
  BY DEF ByGroup, FailedIn, PassedIn
<1>2. IsFiniteSet(T)
  <2>1. T \subseteq requests
    BY DEF ByGroup, Total
  <2> QED
    BY <2>1, FS_Subset DEF IInv
<1> HIDE DEF T, F
<1>3. IsFiniteSet(F)
  BY <1>1, <1>2, FS_Subset
<1>4. Cardinality(T) \in Nat /\ Cardinality(F) \in Nat
  BY <1>2, <1>3, FS_CardinalityType
<1>5. Cardinality(T \ F) = Cardinality(T) - Cardinality(T \cap F)
  BY <1>2, FS_Difference
<1>6. T \cap F = F
  BY <1>1
<1> QED
  BY <1>1, <1>4, <1>5, <1>6 DEF T, F

\* The queries of the objective itself.
LEMMA OwnSums ==
    ASSUME IInv, Agreed, NEW g, NEW by \in SUBSET o.grouping
    PROVE  /\ Sum(Recorded, QueryTotal(o), Project(g, by), by) = Cardinality(ByGroup(Total, g, by))
           /\ o.type = "Ratio" =>
                Sum(Recorded, RatioErrors(o), Project(g, by), by) = Cardinality(ByGroup(Failed, g, by))
           /\ o.type # "Ratio" =>
                Sum(Recorded, QuerySuccess(o), Project(g, by), by) = Cardinality(ByGroup(Total \ Failed, g, by))
           /\ Cardinality(ByGroup(Total, g, by)) \in Nat /\ Cardinality(ByGroup(Failed, g, by)) \in Nat
           /\ Cardinality(ByGroup(Total \ Failed, g, by)) =
                Cardinality(ByGroup(Total, g, by)) - Cardinality(ByGroup(Failed, g, by))
<1>1. Total \in SUBSET Total /\ FailedIn(Total) = Failed /\ PassedIn(Total) = Total \ Failed
  BY FailedIsTotal DEF FailedIn, PassedIn
<1>2. Like(o) /\ Narrows(o.total, Total)
  BY LikeItself, TotalNarrows
<1>3. Sum(Recorded, QueryTotal(o), Project(g, by), by) = Cardinality(ByGroup(Total, g, by))
  BY <1>1, <1>2, SumOfTotal
<1>4. ASSUME o.type = "Ratio"
      PROVE  Sum(Recorded, RatioErrors(o), Project(g, by), by) = Cardinality(ByGroup(Failed, g, by))
  <2>1. NarrowsErrors(o.errors, Total)
    BY <1>4, ErrorsNarrow
  <2> QED
    BY <1>1, <1>2, <1>4, <2>1, SumOfErrors
<1>5. ASSUME o.type # "Ratio"
      PROVE  Sum(Recorded, QuerySuccess(o), Project(g, by), by) = Cardinality(ByGroup(Total \ Failed, g, by))
  BY <1>1, <1>2, <1>5, SumOfGood
<1>6. /\ Cardinality(ByGroup(Total, g, by)) \in Nat /\ Cardinality(ByGroup(FailedIn(Total), g, by)) \in Nat
      /\ Cardinality(ByGroup(Total \ Failed, g, by)) =
           Cardinality(ByGroup(Total, g, by)) - Cardinality(ByGroup(FailedIn(Total), g, by))
  BY <1>1, Difference
<1> QED
  BY <1>1, <1>3, <1>4, <1>5, <1>6

LEMMA GroupsAre ==
    ASSUME IInv, NEW g \in Groups
    PROVE  Project(g, o.grouping) = g
  BY DEF Groups, Project

\* For every group the query of the total returns the number of requests that the
\* objective selects (QueryTotal), whatever rule recorded them.
THEOREM TotalCountedAlways == Spec /\ Agreed => []TotalCounted
<1>1. IInv /\ Agreed => TotalCounted
  <2> SUFFICES ASSUME IInv, Agreed, NEW g \in Groups
               PROVE  Sum(Recorded, QueryTotal(o), g, o.grouping) = Cardinality(ByGroup(Total, g, o.grouping))
    BY DEF TotalCounted
  <2> QED
    BY GroupsAre, OwnSums
<1> QED
  BY <1>1, Invariance, PTL

\* The query of the errors returns the number of bad ones among them (QueryErrors): the
\* errors' own series of a ratio, the total without the successes of the other types.
THEOREM ErrorsCountedAlways == Spec /\ Agreed => []ErrorsCounted
<1>1. IInv /\ Agreed => ErrorsCounted
  <2> SUFFICES ASSUME IInv, Agreed, NEW g \in Groups
               PROVE  QueryErrors(o, Recorded, g) = Cardinality(ByGroup(Failed, g, o.grouping))
    BY DEF ErrorsCounted
  <2>1. Project(g, o.grouping) = g
    BY GroupsAre
  <2>2. CASE o.type = "Ratio"
    BY <2>1, <2>2, OwnSums DEF QueryErrors
  <2>3. CASE o.type # "Ratio"
    <3>1. /\ Sum(Recorded, QueryTotal(o), g, o.grouping) = Cardinality(ByGroup(Total, g, o.grouping))
          /\ Sum(Recorded, QuerySuccess(o), g, o.grouping) = Cardinality(ByGroup(Total \ Failed, g, o.grouping))
      BY <2>1, <2>3, OwnSums
    <3>2. /\ Cardinality(ByGroup(Total, g, o.grouping)) \in Nat
          /\ Cardinality(ByGroup(Failed, g, o.grouping)) \in Nat
          /\ Cardinality(ByGroup(Total \ Failed, g, o.grouping)) =
               Cardinality(ByGroup(Total, g, o.grouping)) - Cardinality(ByGroup(Failed, g, o.grouping))
      BY OwnSums
    <3> QED
      BY <2>3, <3>1, <3>2 DEF QueryErrors
  <2> QED
    BY <2>2, <2>3
<1> QED
  BY <1>1, Invariance, PTL

\* The error budget divides the good requests by all (QueryErrorBudget), group by group
\* for a gauge and over all groups for the other types.
THEOREM BudgetCountedAlways == Spec /\ Agreed => []BudgetCounted
<1>1. IInv /\ Agreed => BudgetCounted
  <2> SUFFICES ASSUME IInv, Agreed, NEW g \in Groups
               PROVE  QueryErrorBudget(o, Recorded, g) =
                        [good  |-> Cardinality(ByGroup(Total, g, BudgetBy(o))) - Cardinality(ByGroup(Failed, g, BudgetBy(o))),
                         total |-> Cardinality(ByGroup(Total, g, BudgetBy(o)))]
    BY DEF BudgetCounted
  <2> DEFINE by == BudgetBy(o)
             sum(query) == Sum(Recorded, query, Project(g, by), by)
  <2>1. by \in SUBSET o.grouping
    BY DEF BudgetBy
  <2>2. QueryErrorBudget(o, Recorded, g) =
          [good  |-> IF o.type = "Ratio" THEN sum(QueryTotal(o)) - sum(RatioErrors(o)) ELSE sum(QuerySuccess(o)),
           total |-> sum(QueryTotal(o))]
    BY DEF QueryErrorBudget
  <2> HIDE DEF by
  <2>3. sum(QueryTotal(o)) = Cardinality(ByGroup(Total, g, by))
    BY <2>1, OwnSums
  <2>4. o.type = "Ratio" => sum(RatioErrors(o)) = Cardinality(ByGroup(Failed, g, by))
    BY <2>1, OwnSums
  <2>5. o.type # "Ratio" => sum(QuerySuccess(o)) = Cardinality(ByGroup(Total \ Failed, g, by))
    BY <2>1, OwnSums
  <2>6. Cardinality(ByGroup(Total \ Failed, g, by)) =
          Cardinality(ByGroup(Total, g, by)) - Cardinality(ByGroup(Failed, g, by))
    BY <2>1, OwnSums
  <2> HIDE DEF sum
  <2> QED
    BY <2>2, <2>3, <2>4, <2>5, <2>6 DEF by
<1> QED
  BY <1>1, Invariance, PTL

-----------------------------------------------------------------------------
(* Burn rates, and the labels that rules record.                             *)

\* The matchers by which the alerts select the series of the burn rate.
AlertMatchers == {m \in o.total : m.name \in o.grouping \/ m.type \in {"=", "!="}}

LEMMA BurnrateRuleIs ==
    /\ BurnrateRule.record = BurnrateName /\ BurnrateRule.metric = "requests"
    /\ BurnrateRule.matchers = o.total /\ BurnrateRule.by = o.grouping /\ BurnrateRule.good = FALSE
    /\ BurnrateRule.labels = Without(ruleLabels, o.grouping)
  BY DEF BurnrateRule, Rule

LEMMA BurnrateKeeps ==
    ASSUME IInv, Agreed
    PROVE  Keeps(AlertMatchers, BurnrateRule.labels, BurnrateRule.by)
<1>1. o.grouping \in SUBSET Labels
  BY Shape
<1>2. /\ AlertMatchers \in SUBSET o.total
      /\ \A m \in AlertMatchers : m.type \in {"=~", "!~"} => m.name \in o.grouping
  BY DEF AlertMatchers
<1> QED
  BY <1>1, <1>2, KeepsWithout, BurnrateRuleIs

\* The series of a request's group: its labels, and what it counts.
BurnrateOf(r) == As(BurnrateRule, Sample(r, NoValue))

LEMMA BurnratesAre ==
    ASSUME IInv, Agreed
    PROVE  Burnrates = {BurnrateOf(r) : r \in Total} /\ Counts(BurnrateRule, Total, NoValue)
<1>1. Counts(BurnrateRule, Total, NoValue)
  <2>1. \A m \in o.total : m.name \in Labels
    BY TotalMatchers
  <2>2. Counts(BurnrateRule,
               {r \in requests : Selects(o.total, r.labels) /\ (BurnrateRule.good => r.good)}, NoValue)
    BY <2>1, CountsOf, BurnrateRuleIs
  <2>3. {r \in requests : Selects(o.total, r.labels) /\ (BurnrateRule.good => r.good)} = Total
    BY BurnrateRuleIs DEF Total
  <2> QED
    BY <2>2, <2>3
<1>2. Burnrates = {As(BurnrateRule, s) : s \in Selected(BurnrateRule)}
  BY RecordIs DEF Burnrates
<1> QED
  BY <1>1, <1>2 DEF Counts, BurnrateOf

LEMMA BurnrateOfIs ==
    ASSUME IInv, Agreed, NEW r \in Total
    PROVE  /\ \A m \in AlertMatchers : Matches(m, BurnrateOf(r).labels[m.name])
           /\ BurnrateOf(r).labels["slo"] = Name
           /\ \A l \in o.grouping : BurnrateOf(r).labels[l] = r.labels[l]
           /\ BurnrateOf(r).counts = ByGroup(Total, r.labels, o.grouping)
<1> DEFINE s == Sample(r, NoValue)
<1>1. Selects(o.total, s.labels)
  <2>1. \A n \in o.total : n.name \in Labels
    BY TotalMatchers
  <2>2. Selects(o.total, s.labels) <=> Selects(o.total, r.labels)
    BY <2>1, SelectsSample
  <2> QED
    BY <2>2 DEF Total
<1>2. AlertMatchers \in SUBSET o.total /\ o.grouping \subseteq Labels
  BY Shape DEF AlertMatchers
<1>3. \A q : \A l \in o.grouping : Sample(q, NoValue).labels[l] = q.labels[l]
  <2> SUFFICES ASSUME NEW q, NEW l \in o.grouping
               PROVE  Sample(q, NoValue).labels[l] = q.labels[l]
    OBVIOUS
  <2>1. l \in Labels
    BY <1>2
  <2> QED
    BY <2>1, Samples
<1>4. BurnrateOf(r).labels = Labelled(BurnrateRule, s)
  BY AsIs DEF BurnrateOf
<1>5. BurnrateOf(r).counts =
        {t.request : t \in {t \in Selected(BurnrateRule) :
                              Project(t.labels, o.grouping) = Project(s.labels, o.grouping)}}
  BY AsIs, BurnrateRuleIs DEF BurnrateOf
<1> HIDE DEF s
<1>6. KeptIn(AlertMatchers, BurnrateRule, s)
  BY <1>1, <1>2, BurnrateKeeps, Kept
<1>7. /\ \A m \in AlertMatchers : Matches(m, BurnrateOf(r).labels[m.name])
      /\ BurnrateOf(r).labels["slo"] = Name
  BY <1>4, <1>6 DEF KeptIn
<1>8. \A l \in o.grouping : BurnrateOf(r).labels[l] = r.labels[l]
  BY <1>3, <1>4, <1>6, BurnrateRuleIs DEF KeptIn, s
<1>9. BurnrateOf(r).counts = ByGroup(Total, r.labels, o.grouping)
  <2>1. \A q : Project(Sample(q, NoValue).labels, o.grouping) = Project(s.labels, o.grouping)
                 <=> \A l \in o.grouping : q.labels[l] = r.labels[l]
    <3> SUFFICES ASSUME NEW q
                 PROVE  Project(Sample(q, NoValue).labels, o.grouping) = Project(s.labels, o.grouping)
                          <=> \A l \in o.grouping : q.labels[l] = r.labels[l]
      OBVIOUS
    <3>1. o.grouping \subseteq AllLabels
      BY <1>2 DEF AllLabels
    <3>2. Project(Sample(q, NoValue).labels, o.grouping) = Project(s.labels, o.grouping)
            <=> \A l \in o.grouping : Sample(q, NoValue).labels[l] = s.labels[l]
      BY <3>1, ProjectIs
    <3> QED
      BY <1>3, <3>2 DEF s
  <2>2. Selected(BurnrateRule) = {Sample(q, NoValue) : q \in Total}
    BY BurnratesAre DEF Counts
  <2>3. \A q : Sample(q, NoValue).request = q
    BY DEF Sample
  <2> QED
    BY <1>5, <2>1, <2>2, <2>3 DEF ByGroup
<1> QED
  BY <1>7, <1>8, <1>9

\* The alerts select all series of the burn rate (AlertQuery), and the API's query for a
\* group the one series of the group (QueryBurnrate), which counts all of its requests.
THEOREM BurnratesFoundAlways == Spec /\ Agreed => []BurnratesFound
<1>1. ASSUME IInv, Agreed, NEW s \in Burnrates
      PROVE  Selects(AlertQuery.matchers, s.labels)
  <2>1. PICK r \in Total : s = BurnrateOf(r)
    BY <1>1, BurnratesAre
  <2>2. AlertQuery.matchers = AlertMatchers \cup {Eq("slo", Name)}
    BY DEF AlertQuery, AlertMatchers
  <2>3. Eq("slo", Name).name = "slo" /\ Matches(Eq("slo", Name), Name)
    BY DEF Eq, Matches
  <2>4. /\ \A m \in AlertMatchers : Matches(m, s.labels[m.name])
        /\ s.labels["slo"] = Name
    BY <1>1, <2>1, BurnrateOfIs
  <2> QED
    BY <2>2, <2>3, <2>4 DEF Selects
<1>2. ASSUME IInv, Agreed, NEW g \in Groups, NEW s \in Burnrates
      PROVE  Selects(QueryBurnrate(g).matchers, s.labels) <=> s.counts = ByGroup(Total, g, o.grouping)
  <2>1. PICK r \in Total : s = BurnrateOf(r)
    BY <1>2, BurnratesAre
  <2>2. /\ \A m \in AlertMatchers : Matches(m, s.labels[m.name])
        /\ s.labels["slo"] = Name
        /\ \A l \in o.grouping : s.labels[l] = r.labels[l]
        /\ s.counts = ByGroup(Total, r.labels, o.grouping)
    BY <1>2, <2>1, BurnrateOfIs
  <2>3. \A name, v, w : Eq(name, v).name = name /\ (Matches(Eq(name, v), w) <=> w = v)
    BY DEF Eq, Matches
  <2>4. Selects(QueryBurnrate(g).matchers, s.labels) <=> \A l \in o.grouping : s.labels[l] = g[l]
    <3> DEFINE fixed == {m \in o.total : m.type = "=" /\ m.name \notin o.grouping}
    <3>1. QueryBurnrate(g).matchers = fixed \cup {Eq(l, g[l]) : l \in o.grouping} \cup {Eq("slo", Name)}
      BY DEF QueryBurnrate, Query
    <3>2. \A m \in fixed : Matches(m, s.labels[m.name])
      BY <2>2 DEF AlertMatchers
    <3> HIDE DEF fixed
    <3> QED
      BY <2>2, <2>3, <3>1, <3>2 DEF Selects
  <2>5. (\A l \in o.grouping : r.labels[l] = g[l])
          <=> ByGroup(Total, r.labels, o.grouping) = ByGroup(Total, g, o.grouping)
    <3>1. r \in ByGroup(Total, r.labels, o.grouping)
      BY DEF ByGroup
    <3>2. r \in ByGroup(Total, g, o.grouping) <=> \A l \in o.grouping : r.labels[l] = g[l]
      BY DEF ByGroup
    <3>3. (\A l \in o.grouping : r.labels[l] = g[l])
            => ByGroup(Total, r.labels, o.grouping) = ByGroup(Total, g, o.grouping)
      BY DEF ByGroup
    <3> QED
      BY <3>1, <3>2, <3>3
  <2> QED
    BY <2>2, <2>4, <2>5
<1>3. IInv /\ Agreed => BurnratesFound
  BY <1>1, <1>2 DEF BurnratesFound
<1> QED
  BY <1>3, Invariance, PTL

\* Every rule keeps the labels of the requests it sums by.
LEMMA RulesKeep ==
    ASSUME IInv, Agreed, NEW rule \in IncreaseRules \cup {BurnrateRule}
    PROVE  Keeps({}, rule.labels, rule.by) /\ \A s \in Selected(rule) : Selects(o.total, s.labels)
<1>1. \A ms, labels, by : Keeps(ms, labels, by) => Keeps({}, labels, by)
  BY DEF Keeps
<1>2. o.total \subseteq rule.matchers => \A s \in Selected(rule) : Selects(o.total, s.labels)
  BY DEF Selected, Selects
<1>3. CASE rule = BurnrateRule
  BY <1>1, <1>2, <1>3, BurnrateKeeps, BurnrateRuleIs
<1>4. CASE rule \in IncreaseRules /\ o.type = "Ratio"
  <2>1. rule.labels = OwnLabels /\ rule.by = IncreaseGrouping
    BY <1>4, IncreaseRulesAre DEF Increase, Rule
  <2>2. Keeps({}, rule.labels, rule.by)
    BY <1>1, <2>1, OwnLabelsKeep
  <2>3. CASE rule = Increase("requests", o.total, OwnLabels)
    BY <1>2, <2>2, <2>3 DEF Increase, Rule
  <2>4. CASE rule = Increase("errors", o.errors, OwnLabels)
    <3>1. rule.metric = "errors" /\ rule.matchers = o.errors
      BY <2>4 DEF Increase, Rule
    <3> SUFFICES ASSUME NEW s \in Selected(rule) PROVE Selects(o.total, s.labels)
      BY <2>2
    <3>2. PICK r \in requests : s = Sample(r, NoValue)
      BY <3>1, SeriesOf DEF Selected
    <3>3. Selects(o.errors, s.labels)
      BY <3>1 DEF Selected
    <3>4. (\A m \in o.total : m.name \in Labels) /\ (\A m \in o.errors : m.name \in Labels)
      BY <1>4, TotalMatchers, Shape, SelectorsOf
    <3>5. /\ Selects(o.errors, s.labels) <=> Selects(o.errors, r.labels)
          /\ Selects(o.total, s.labels) <=> Selects(o.total, r.labels)
      BY <3>2, <3>4, SelectsSample
    <3>6. Narrower(o.errors, o.total) /\ r.labels \in [Labels -> Values \cup {NoValue}]
      BY <1>4, Shape DEF IInv, Request
    <3> QED
      BY <3>3, <3>5, <3>6 DEF Narrower
  <2> QED
    BY <1>4, <2>3, <2>4, IncreaseRulesAre
<1>5. CASE rule \in IncreaseRules /\ o.type = "Latency"
  <2>1. rule.by = IncreaseGrouping /\ o.total \subseteq rule.matchers
    BY <1>5, IncreaseRulesAre, Shape DEF Increase, Rule
  <2>2. \/ rule.labels = OwnLabels
        \/ rule.labels = Merged(OwnLabels, OneLabel("le", Threshold))
    BY <1>5, IncreaseRulesAre DEF Increase, Rule
  <2>3. Keeps(o.total, rule.labels, IncreaseGrouping)
    BY <2>2, OwnLabelsKeep, KeepsLe
  <2> QED
    BY <1>1, <1>2, <2>1, <2>3
<1>6. CASE rule \in IncreaseRules /\ o.type = "LatencyNative"
  <2>1. rule.by = o.grouping /\ o.total \subseteq rule.matchers
    BY <1>6, IncreaseRulesAre DEF NativeIncrease, Rule
  <2>2. rule.labels = ruleLabels \/ rule.labels = Merged(OneLabel("le", Threshold), ruleLabels)
    BY <1>6, IncreaseRulesAre DEF NativeIncrease, Rule
  <2>3. Keeps(o.total, rule.labels, o.grouping)
    BY <1>6, <2>2, KeepsAll, KeepsLe
  <2> QED
    BY <1>1, <1>2, <2>1, <2>3
<1>7. CASE rule \in IncreaseRules /\ o.type = "BoolGauge"
  <2>1. rule.by = GaugeBy /\ o.total \subseteq rule.matchers /\ rule.labels = Without(ruleLabels, GaugeBy)
    BY <1>7, IncreaseRulesAre DEF GaugeIncrease, Rule
  <2> QED
    BY <1>1, <1>2, <2>1, OwnLabelsKeep
<1> QED
  BY <1>3, <1>4, <1>5, <1>6, <1>7, TypesAre

\* No rule records two groups under the same labels: Prometheus evaluates all of them.
THEOREM RulesEvaluateAlways == Spec /\ Agreed => []RulesEvaluate
<1>1. IInv /\ Agreed => RulesEvaluate
  <2> SUFFICES ASSUME IInv, Agreed, NEW rule \in IncreaseRules \cup {BurnrateRule},
                      NEW s \in Record(rule), NEW t \in Record(rule), s.labels = t.labels
               PROVE  s = t
    BY DEF RulesEvaluate
  <2>1. PICK a \in Selected(rule) : s = As(rule, a)
    BY RecordIs
  <2>2. PICK b \in Selected(rule) : t = As(rule, b)
    BY RecordIs
  <2>3. Labelled(rule, a) = Labelled(rule, b)
    BY <2>1, <2>2, AsIs
  <2>4. /\ Keeps({}, rule.labels, rule.by) /\ {} \in SUBSET o.total
        /\ Selects(o.total, a.labels) /\ Selects(o.total, b.labels)
    BY RulesKeep
  <2>5. KeptIn({}, rule, a) /\ KeptIn({}, rule, b)
    BY <2>4, Kept
  <2>6. \A l \in rule.by : a.labels[l] = b.labels[l]
    BY <2>3, <2>5 DEF KeptIn
  <2>7. Project(a.labels, rule.by) = Project(b.labels, rule.by)
    BY <2>6 DEF Project
  <2> QED
    BY <2>1, <2>2, <2>7 DEF As
<1> QED
  BY <1>1, Invariance, PTL

-----------------------------------------------------------------------------
(* The generic rules.                                                        *)

\* They sum over all groups.
LEMMA NoGroupIs ==
    /\ \A g : Project(g, {}) = NoGroup
    /\ \A S, g : ByGroup(S, g, {}) = S
<1>1. \A g : Project(g, {}) = NoGroup
  BY DEF Project, NoGroup
<1>2. \A S, g : ByGroup(S, g, {}) = S
  BY DEF ByGroup
<1> QED
  BY <1>1, <1>2

\* A selector of recorded series sums what the query of the same matchers does, if its
\* list of matchers has the right name.
LEMMA SumRecordedIs ==
    ASSUME NEW metric, NEW ms
    PROVE  SumRecorded(Selector(metric, metric, OfSLO(ms))) = Sum(Recorded, Query(metric, ms), NoGroup, {})
<1> DEFINE sel == Selector(metric, metric, OfSLO(ms))
<1>1. sel.metric = metric /\ sel.is = metric /\ sel.matchers = OfSLO(ms)
  BY DEF Selector
<1> HIDE DEF sel
<1>2. SumRecorded(sel) = Sum(Recorded, [name |-> metric, matchers |-> OfSLO(ms)], NoGroup, {})
  BY <1>1 DEF SumRecorded
<1>3. [name |-> metric, matchers |-> OfSLO(ms)] = Query(metric, ms)
  BY DEF Query, OfSLO
<1> QED
  BY <1>2, <1>3 DEF sel

LEMMA RecordedSums ==
    ASSUME IInv, Agreed
    PROVE  /\ Sum(Recorded, QueryTotal(o), NoGroup, {}) = Cardinality(Total)
           /\ o.type = "Ratio" => Sum(Recorded, RatioErrors(o), NoGroup, {}) = Cardinality(Failed)
           /\ o.type # "Ratio" => Sum(Recorded, QuerySuccess(o), NoGroup, {}) = Cardinality(Total \ Failed)
           /\ Cardinality(Total) \in Nat /\ Cardinality(Failed) \in Nat
           /\ Cardinality(Total \ Failed) = Cardinality(Total) - Cardinality(Failed)
<1> DEFINE g == NoGroup
<1>1. {} \in SUBSET o.grouping /\ Project(g, {}) = NoGroup
  BY NoGroupIs
<1>2. ByGroup(Total, g, {}) = Total /\ ByGroup(Failed, g, {}) = Failed /\ ByGroup(Total \ Failed, g, {}) = Total \ Failed
  BY NoGroupIs
<1> HIDE DEF g
<1>3. Sum(Recorded, QueryTotal(o), Project(g, {}), {}) = Cardinality(ByGroup(Total, g, {}))
  BY <1>1, OwnSums
<1>4. o.type = "Ratio" => Sum(Recorded, RatioErrors(o), Project(g, {}), {}) = Cardinality(ByGroup(Failed, g, {}))
  BY <1>1, OwnSums
<1>5. o.type # "Ratio" => Sum(Recorded, QuerySuccess(o), Project(g, {}), {}) = Cardinality(ByGroup(Total \ Failed, g, {}))
  BY <1>1, OwnSums
<1>6. /\ Cardinality(ByGroup(Total, g, {})) \in Nat /\ Cardinality(ByGroup(Failed, g, {})) \in Nat
      /\ Cardinality(ByGroup(Total \ Failed, g, {})) =
           Cardinality(ByGroup(Total, g, {})) - Cardinality(ByGroup(Failed, g, {}))
  BY <1>1, OwnSums
<1> QED
  BY <1>1, <1>2, <1>3, <1>4, <1>5, <1>6

\* A selector of a metric of the service counts what a rule with its matchers does.
LEMMA SumRawIs ==
    ASSUME IInv, NEW metric, NEW ms, NEW S \in SUBSET requests, NEW le, NEW rule,
           Counts(rule, S, le), rule.metric = metric, rule.matchers = ms, rule.good = FALSE
    PROVE  SumRaw(Selector(metric, metric, ms)) = Cardinality(S)
<1> DEFINE sel == Selector(metric, metric, ms)
           f == [r \in S |-> Sample(r, le)]
<1>1. sel.metric = metric /\ sel.is = metric /\ sel.matchers = ms
  BY DEF Selector
<1> HIDE DEF sel
<1>2. SumRaw(sel) = Cardinality({s \in Series(metric) : Selects(ms, s.labels)})
  BY <1>1 DEF SumRaw
<1>3. {s \in Series(metric) : Selects(ms, s.labels)} = {Sample(r, le) : r \in S}
  BY DEF Counts, Selected
<1>4. \A r : Sample(r, le).request = r
  BY DEF Sample
<1>5. f \in Bijection(S, {Sample(r, le) : r \in S})
  BY <1>4 DEF Bijection, Injection, Surjection, IsInjective
<1>6. IsFiniteSet(S)
  BY FS_Subset DEF IInv
<1>7. Cardinality({Sample(r, le) : r \in S}) = Cardinality(S)
  BY <1>5, <1>6, FS_Bijection DEF ExistsBijection
<1> QED
  BY <1>2, <1>3, <1>7 DEF sel

LEMMA RawSums ==
    ASSUME IInv
    PROVE  /\ SumRaw(Selector("requests", "requests", o.total)) = Cardinality(Total)
           /\ o.type = "Ratio" =>
                SumRaw(Selector(o.errorsMetric, o.errorsMetric, o.errors)) = Cardinality(Failed)
           /\ o.type = "Latency" =>
                SumRaw(Selector("requests_bucket", "requests_bucket", o.errors)) = Cardinality(Total \ Failed)
<1>1. \A m \in o.total : m.name \in Labels
  BY TotalMatchers
<1>2. SumRaw(Selector("requests", "requests", o.total)) = Cardinality(Total)
  <2> DEFINE R == Rule(NoValue, "requests", o.total, {}, FALSE, NoGroup)
  <2>1. R.metric = "requests" /\ R.matchers = o.total /\ R.good = FALSE
    BY DEF Rule
  <2> HIDE DEF R
  <2>2. Counts(R, {r \in requests : Selects(o.total, r.labels) /\ (R.good => r.good)}, NoValue)
    BY <1>1, <2>1, CountsOf
  <2>3. {r \in requests : Selects(o.total, r.labels) /\ (R.good => r.good)} = Total /\ Total \in SUBSET requests
    BY <2>1 DEF Total
  <2>4. Counts(R, Total, NoValue)
    BY <2>2, <2>3
  <2> QED
    BY <2>1, <2>3, <2>4, SumRawIs
<1>3. ASSUME o.type = "Ratio"
      PROVE  SumRaw(Selector(o.errorsMetric, o.errorsMetric, o.errors)) = Cardinality(Failed)
  <2> DEFINE R == Rule(NoValue, o.errorsMetric, o.errors, {}, FALSE, NoGroup)
  <2>1. R.metric = o.errorsMetric /\ R.matchers = o.errors /\ R.good = FALSE
    BY DEF Rule
  <2> HIDE DEF R
  <2>2. \A m \in o.errors : m.name \in Labels
    BY <1>3, Shape, SelectorsOf
  <2>3. ASSUME o.errorsMetric = "requests" PROVE Counts(R, Failed, NoValue)
    <3>1. Counts(R, {r \in requests : Selects(o.errors, r.labels) /\ (R.good => r.good)}, NoValue)
      BY <2>1, <2>2, <2>3, CountsOf
    <3>2. {r \in requests : Selects(o.errors, r.labels) /\ (R.good => r.good)} = Failed
      BY <1>3, <2>1, <2>3 DEF Failed
    <3> QED
      BY <3>1, <3>2
  <2>4. ASSUME o.errorsMetric = "errors" PROVE Counts(R, Failed, NoValue)
    <3>1. Counts(R, {r \in requests : Selects(o.errors, r.labels) /\ ~r.good /\ (R.good => r.good)}, NoValue)
      BY <2>1, <2>2, <2>4, CountsOf
    <3>2. {r \in requests : Selects(o.errors, r.labels) /\ ~r.good /\ (R.good => r.good)} = Failed
      BY <1>3, <2>1, <2>4 DEF Failed
    <3> QED
      BY <3>1, <3>2
  <2>5. Counts(R, Failed, NoValue)
    BY <2>3, <2>4, Shape
  <2>6. Failed \in SUBSET requests
    BY <1>3 DEF Failed
  <2> QED
    BY <2>1, <2>5, <2>6, SumRawIs
<1>4. ASSUME o.type = "Latency"
      PROVE  SumRaw(Selector("requests_bucket", "requests_bucket", o.errors)) = Cardinality(Total \ Failed)
  <2> DEFINE R == Rule(NoValue, "requests_bucket", o.errors, {}, FALSE, NoGroup)
  <2>1. R.metric = "requests_bucket" /\ R.matchers = o.errors /\ R.good = FALSE
    BY DEF Rule
  <2> HIDE DEF R
  <2>2. o.errors = o.total \cup {Eq("le", Threshold)}
    BY <1>4, Shape
  <2>3. Counts(R, Good, Threshold)
    BY <1>1, <2>1, <2>2, CountsOf DEF Good
  <2>4. Total \ Failed = Good /\ Good \in SUBSET requests
    BY <1>4, GoodIs DEF Good
  <2> QED
    BY <2>1, <2>3, <2>4, SumRawIs
<1> QED
  BY <1>2, <1>3, <1>4

\* The generic rules (GenericRules) count what the objective selects, though the code
\* changes the name in one list of matchers from rule to rule.
THEOREM GenericCountedAlways == Spec /\ Agreed => []GenericCounted
<1> DEFINE total == Cardinality(Total)
           failed == Cardinality(Failed)
           good == Cardinality(Total \ Failed)
<1>1. ASSUME IInv, Agreed, o.type = "Ratio"
      PROVE  GenericRules = Generic(good, total, total, failed)
  <2>1. /\ QueryTotal(o) = Query(increaseName("requests"), o.total)
        /\ RatioErrors(o) = Query(increaseName(o.errorsMetric), o.errors)
    BY <1>1 DEF QueryTotal, RatioErrors
  <2>2. /\ SumRecorded(Selector(increaseName("requests"), increaseName("requests"), OfSLO(o.total))) = total
        /\ SumRecorded(Selector(increaseName(o.errorsMetric), increaseName(o.errorsMetric), OfSLO(o.errors))) = failed
    BY <1>1, <2>1, SumRecordedIs, RecordedSums
  <2>3. GenericRules = GenericRatio
    BY <1>1 DEF GenericRules
  <2>4. good = total - failed
    BY <1>1, RecordedSums
  <2> QED
    BY <1>1, <2>2, <2>3, <2>4, RawSums DEF GenericRatio
<1>2. ASSUME IInv, Agreed, o.type = "Latency"
      PROVE  GenericRules = Generic(good, total, total, failed)
  <2>1. /\ QueryTotal(o) = Query(increaseName("requests"), o.total \cup {Eq("le", NoValue)})
        /\ QuerySuccess(o) = Query(increaseName("requests_bucket"), o.errors)
    BY <1>2 DEF QueryTotal, QuerySuccess
  <2>2. /\ SumRecorded(Selector(increaseName("requests"), increaseName("requests"),
                                OfSLO(o.total \cup {Eq("le", NoValue)}))) = total
        /\ SumRecorded(Selector(increaseName("requests_bucket"), increaseName("requests_bucket"),
                                OfSLO(o.errors))) = good
    BY <1>2, <2>1, SumRecordedIs, RecordedSums
  <2>3. /\ AvailabilityNames.total = increaseName("requests")
        /\ AvailabilityNames.success = increaseName("requests_bucket")
        /\ RateNames.total = "requests" /\ ErrorsNames.total = "requests"
        /\ ErrorsNames.success = "requests_bucket"
    BY DEF AvailabilityNames, RateNames, ErrorsNames
  <2>4. GenericRules = GenericLatency
    BY <1>2 DEF GenericRules
  <2>5. good = total - failed /\ total \in Nat /\ failed \in Nat
    BY <1>2, RecordedSums
  <2>6. /\ SumRaw(Selector("requests", "requests", o.total)) = total
        /\ SumRaw(Selector("requests_bucket", "requests_bucket", o.errors)) = good
    BY <1>2, RawSums
  <2> HIDE DEF total, failed, good
  <2>7. GenericLatency = Generic(good, total, total, total - good)
    BY <2>2, <2>3, <2>6 DEF GenericLatency
  <2> QED
    BY <2>4, <2>5, <2>7
<1>3. ASSUME IInv, Agreed, o.type = "LatencyNative"
      PROVE  GenericRules = [availability |-> [good |-> good, total |-> total]]
  <2>1. /\ QueryTotal(o) = Query(increaseName("requests"), o.total \cup {Eq("le", NoValue)})
        /\ QuerySuccess(o) = Query(increaseName("requests"), o.total \cup {Eq("le", Threshold)})
    BY <1>3 DEF QueryTotal, QuerySuccess
  <2>2. /\ SumRecorded(Selector(increaseName("requests"), increaseName("requests"),
                                OfSLO(o.total \cup {Eq("le", NoValue)}))) = total
        /\ SumRecorded(Selector(increaseName("requests"), increaseName("requests"),
                                OfSLO(o.total \cup {Eq("le", Threshold)}))) = good
    BY <1>3, <2>1, SumRecordedIs, RecordedSums
  <2> QED
    BY <1>3, <2>2 DEF GenericRules, GenericLatencyNative
<1>4. ASSUME IInv, Agreed, o.type = "BoolGauge"
      PROVE  GenericRules = Generic(good, total, total, failed)
  <2>1. QueryTotal(o) = Query(countName, o.total) /\ QuerySuccess(o) = Query(sumName, o.total)
    BY <1>4 DEF QueryTotal, QuerySuccess
  <2>2. /\ SumRecorded(Selector(countName, countName, OfSLO(o.total))) = total
        /\ SumRecorded(Selector(sumName, sumName, OfSLO(o.total))) = good
    BY <1>4, <2>1, SumRecordedIs, RecordedSums
  <2>3. GenericRules = GenericBoolGauge
    BY <1>4 DEF GenericRules
  <2>4. good = total - failed /\ total \in Nat /\ failed \in Nat
    BY <1>4, RecordedSums
  <2> HIDE DEF total, failed, good
  <2>5. GenericBoolGauge = Generic(good, total, total, total - good)
    BY <2>2 DEF GenericBoolGauge
  <2> QED
    BY <2>3, <2>4, <2>5
<1>5. IInv /\ Agreed => GenericCounted
  <2> SUFFICES ASSUME IInv, Agreed PROVE GenericCounted
    OBVIOUS
  <2>1. /\ Generic(good, total, total, failed).availability = [good |-> good, total |-> total]
        /\ Generic(good, total, total, failed).requests = total
        /\ Generic(good, total, total, failed).errors = failed
    BY DEF Generic
  <2>2. CASE o.type = "LatencyNative"
    BY <1>3, <2>2 DEF GenericCounted
  <2>3. CASE o.type # "LatencyNative"
    BY <1>1, <1>2, <1>4, <2>1, <2>3, TypesAre DEF GenericCounted
  <2> QED
    BY <2>2, <2>3
<1> QED
  BY <1>5, Invariance, PTL

=============================================================================
