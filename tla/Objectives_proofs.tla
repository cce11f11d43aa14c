-------------------------- MODULE Objectives_proofs --------------------------
(***************************************************************************)
(* Proofs about Objectives, for any resources: what passes the webhook is    *)
(* served as the objective its rules are made for, and the page of a listed   *)
(* objective shows that one.                                                *)
(***************************************************************************)
EXTENDS Objectives, FiniteSetTheorems, TLAPS

\* What the properties rest on: in Kubernetes, what is stored has passed the webhook, and
\* its namespace and name tell it apart; in the filesystem backend, the labels that were
\* listed stay in the store, whatever is written.
Passed == webhook => \A r \in stored : Validates(r)

Keyed ==
    /\ \A r \in stored : r.namespace # ""
    /\ \A q, r \in stored : q.name = r.name /\ q.namespace = r.namespace => q = r

ShownStays ==
    backend = "filesystem" => \A o \in DOMAIN shown : \E p \in store : p.labels = o.labels

Finite == IsFiniteSet(stored) /\ IsFiniteSet(store)

IInv == TypeOK /\ Passed /\ Keyed /\ ShownStays /\ Finite /\ DetailOfListed /\ ListedIsFound

-----------------------------------------------------------------------------
(* Objectives and their messages.                                            *)

LEMMA LabelsOf ==
    ASSUME ObjectivesAssumption, NEW r \in Resources
    PROVE  /\ DOMAIN Labels(r) \subseteq LabelNames
           /\ "__name__" \in DOMAIN Labels(r) /\ Labels(r)["__name__"] = r.name
           /\ r.namespace # "" => "namespace" \in DOMAIN Labels(r)
           /\ "namespace" \in DOMAIN Labels(r) => Labels(r)["namespace"] = r.namespace
<1>1. DOMAIN Labels(r) \subseteq LabelNames
  BY DEF ObjectivesAssumption, Labels, LabelNames
<1>2. "__name__" \in DOMAIN Labels(r) /\ Labels(r)["__name__"] = r.name
  BY DEF Labels
<1>3. r.namespace # "" => "namespace" \in DOMAIN Labels(r)
  BY DEF Labels
<1>4. "namespace" \in DOMAIN Labels(r) => Labels(r)["namespace"] = r.namespace
  BY DEF Labels
<1> QED
  BY <1>1, <1>2, <1>3, <1>4

LEMMA ObjectiveIs ==
    ASSUME NEW o \in Objectives
    PROVE  o = Zero \/ \E r \in Resources : o = Internal(r)
BY DEF Objectives

LEMMA InternalIs ==
    ASSUME NEW r
    PROVE  /\ Internal(r).labels = Labels(r)
           /\ Internal(r).indicators = r.indicators
           /\ Internal(r).window = r.window
BY DEF Internal

LEMMA ZeroIs ==
    /\ DOMAIN Zero.labels = {} /\ DOMAIN Zero.indicators = {}
BY DEF Zero

LEMMA LabelNamesOf ==
    ASSUME ObjectivesAssumption, NEW o \in Objectives
    PROVE  DOMAIN o.labels \subseteq LabelNames
<1>1. CASE o = Zero
  BY <1>1, ZeroIs
<1>2. ASSUME NEW r \in Resources, o = Internal(r)
      PROVE  DOMAIN o.labels \subseteq LabelNames
  BY <1>2, InternalIs, LabelsOf
<1> QED
  BY <1>1, <1>2, ObjectiveIs

\* No objective is grouped by the name of a metric.
LEMMA NotByName ==
    ASSUME ObjectivesAssumption, NEW o \in Objectives
    PROVE  "__name__" \notin Grouping(o)
<1>1. ASSUME NEW t \in DOMAIN o.indicators
      PROVE  "__name__" \notin o.indicators[t].grouping
  BY ObjectiveIs, InternalIs, ZeroIs DEF ObjectivesAssumption
<1>2. IndicatorType(o) = "Unknown" \/ IndicatorType(o) \in DOMAIN o.indicators
  BY DEF IndicatorType, Known
<1> QED
  BY <1>1, <1>2 DEF Grouping

LEMMA MessageIs ==
    ASSUME NEW o, NEW m \in FromInternal(o)
    PROVE  /\ DOMAIN m.labels = {Sanitized(l) : l \in DOMAIN o.labels}
           /\ \A n \in DOMAIN m.labels :
                \E l \in DOMAIN o.labels : Sanitized(l) = n /\ m.labels[n] = o.labels[l]
           /\ m.indicators = MessageIndicators(o)
           /\ m.window = o.window
<1>1. PICK f \in MessageLabels(o.labels) :
        m = [labels |-> f, window |-> o.window, indicators |-> MessageIndicators(o)]
  BY DEF FromInternal
<1>2. DOMAIN f = {Sanitized(l) : l \in DOMAIN o.labels}
  BY DEF MessageLabels
<1>3. \A n \in DOMAIN f : \E l \in DOMAIN o.labels : Sanitized(l) = n /\ f[n] = o.labels[l]
  BY DEF MessageLabels
<1> QED
  BY <1>1, <1>2, <1>3

\* A label that no other is called like is found in the message under its name there.
LEMMA MessageLabel ==
    ASSUME NEW o, NEW m \in FromInternal(o), ~Ambiguous(o), NEW l \in DOMAIN o.labels
    PROVE  Sanitized(l) \in DOMAIN m.labels /\ m.labels[Sanitized(l)] = o.labels[l]
<1>1. Sanitized(l) \in DOMAIN m.labels
  BY MessageIs
<1>2. PICK k \in DOMAIN o.labels :
        Sanitized(k) = Sanitized(l) /\ m.labels[Sanitized(l)] = o.labels[k]
  BY <1>1, MessageIs
<1>3. k = l
  BY <1>2 DEF Ambiguous
<1> QED
  BY <1>1, <1>2, <1>3

LEMMA OwnNames == Sanitized("__name__") = "__name__" /\ Sanitized("namespace") = "namespace"
BY DEF Sanitized

-----------------------------------------------------------------------------
(* What the webhook accepts is served as the objective its rules are for.     *)

\* An accepted resource has one indicator, if it is not in a gap.
LEMMA OneIndicator ==
    ASSUME ObjectivesAssumption, NEW r \in Resources, Validates(r), ~Gap(r)
    PROVE  \E t \in Types : DOMAIN r.indicators = {t}
<1>1. DOMAIN r.indicators \subseteq Types /\ DOMAIN r.indicators # {}
  BY DEF ObjectivesAssumption, Validates
<1>2. IsFiniteSet(Types)
  <2>1. IsFiniteSet({"Ratio"} \cup {"Latency"})
    BY FS_Singleton, FS_AddElement
  <2>2. IsFiniteSet(({"Ratio"} \cup {"Latency"}) \cup {"LatencyNative"})
    BY <2>1, FS_AddElement
  <2>3. IsFiniteSet((({"Ratio"} \cup {"Latency"}) \cup {"LatencyNative"}) \cup {"BoolGauge"})
    BY <2>2, FS_AddElement
  <2>4. Types = (({"Ratio"} \cup {"Latency"}) \cup {"LatencyNative"}) \cup {"BoolGauge"}
    BY DEF Types
  <2> QED
    BY <2>3, <2>4
<1>3. IsFiniteSet(DOMAIN r.indicators) /\ Cardinality(DOMAIN r.indicators) \in Nat
  BY <1>1, <1>2, FS_Subset, FS_CardinalityType
<1>4. ~ (Cardinality(DOMAIN r.indicators) > 1)
  BY Zenon DEF Gap
<1>5. Cardinality(DOMAIN r.indicators) # 0
  BY <1>1, <1>3, FS_EmptySet
<1>6. Cardinality(DOMAIN r.indicators) = 1
  BY <1>3, <1>4, <1>5
<1> QED
  BY <1>1, <1>3, <1>6, FS_Singleton

LEMMA AcceptedIsServedBy ==
    ASSUME ObjectivesAssumption, NEW r \in Resources, Validates(r), ~Gap(r)
    PROVE  ServedAsIs(r)
<1>1. PICK t \in Types : DOMAIN r.indicators = {t}
  BY OneIndicator
<1> DEFINE i == r.indicators[t]
           o == Internal(r)
<1>2. i \in Indicator /\ r.indicators = [s \in {t} |-> i]
  BY <1>1 DEF ObjectivesAssumption
<1>3. Checked(t, i)
  BY <1>1 DEF Validates
<1>4. i.total.form = "selector" /\ i.total.name # ""
  BY <1>1, <1>2, <1>3 DEF Checked, Parses, Gap, Indicator, Metric, Types
<1>5. t \in {"Ratio", "Latency"} => i.part.form = "selector"
  BY <1>1, <1>2, <1>3 DEF Checked, Parses, Gap, Indicator, Metric, Types
<1>6. t = "LatencyNative" => i.duration
  BY <1>3 DEF Checked
<1>7. Converts(r)
  <2>1. r.target # "invalid" /\ r.window # None
    BY DEF Validates
  <2>2. ~ {"Ratio", "Latency"} \subseteq DOMAIN r.indicators
    BY <1>1
  <2> QED
    BY <1>1, <1>4, <1>5, <1>6, <2>1, <2>2 DEF Converts
<1>8. o.indicators = [s \in {t} |-> i] /\ o.window = r.window
  BY <1>2, InternalIs
<1>9. IndicatorType(o) = t /\ t # "Unknown"
  BY <1>4, <1>8 DEF IndicatorType, Known, Types
<1>10. Grouping(o) = i.grouping
  BY <1>8, <1>9 DEF Grouping
<1>11. MessageIndicators(o) = o.indicators
  <2>1. LastOf({t}) = t
    BY DEF LastOf, Types
  <2>2. DOMAIN o.indicators = {t}
    BY <1>8
  <2>3. MessageIndicators(o) = [s \in {t} |-> [o.indicators[s] EXCEPT !.grouping = i.grouping]]
    BY <1>10, <2>1, <2>2 DEF MessageIndicators
  <2>4. [i EXCEPT !.grouping = i.grouping] = i
    BY <1>2 DEF Indicator
  <2> QED
    BY <1>8, <2>3, <2>4
<1>12. ASSUME NEW m \in FromInternal(o)
       PROVE  LET p == ToInternal(m)
              IN  /\ IndicatorType(o) # "Unknown" /\ IndicatorType(p) = IndicatorType(o)
                  /\ p.indicators = o.indicators /\ Grouping(p) = Grouping(o)
                  /\ p.window = o.window
  <2> DEFINE p == ToInternal(m)
  <2>1. p.indicators = o.indicators /\ p.window = o.window
    BY <1>11, MessageIs DEF ToInternal
  <2>2. IndicatorType(p) = IndicatorType(o)
    BY <2>1 DEF IndicatorType, Known
  <2>3. Grouping(p) = Grouping(o)
    BY <2>1, <2>2 DEF Grouping
  <2> QED
    BY <1>9, <2>1, <2>2, <2>3
<1> QED
  BY <1>7, <1>12 DEF ServedAsIs

-----------------------------------------------------------------------------
(* The pages of listed objectives.                                           *)

\* A resource that the labels of a message select has its name and namespace.
LEMMA KubernetesDetail ==
    ASSUME ObjectivesAssumption, NEW o, NEW m \in FromInternal(o), ~Ambiguous(o),
           NEW r \in Resources, Selects(m.labels, r),
           NEW l \in DOMAIN o.labels \cap {"__name__", "namespace"}
    PROVE  LabelOf(Internal(r), l) = o.labels[l]
<1>1. l \in DOMAIN m.labels /\ m.labels[l] = o.labels[l]
  BY MessageLabel, OwnNames
<1>2. CASE l = "__name__"
  BY <1>1, <1>2, LabelsOf, InternalIs DEF Selects, LabelOf
<1>3. CASE l = "namespace"
  <2>1. o.labels[l] = r.namespace
    BY <1>1, <1>3 DEF Selects
  <2>2. CASE "namespace" \in DOMAIN Labels(r)
    BY <1>3, <2>1, <2>2, LabelsOf, InternalIs DEF LabelOf
  <2>3. CASE "namespace" \notin DOMAIN Labels(r)
    BY <1>3, <2>1, <2>3, LabelsOf, InternalIs DEF LabelOf
  <2> QED
    BY <2>2, <2>3
<1> QED
  BY <1>2, <1>3

\* The labels of a message select the resource it was made from, and no other.
LEMMA KubernetesSelf ==
    ASSUME ObjectivesAssumption, stored \subseteq Resources, Keyed, NEW r \in stored,
           NEW m \in FromInternal(Internal(r)), ~Ambiguous(Internal(r))
    PROVE  {q \in stored : Selects(m.labels, q)} = {r}
<1> DEFINE o == Internal(r)
<1>1. /\ "__name__" \in DOMAIN o.labels /\ o.labels["__name__"] = r.name
      /\ "namespace" \in DOMAIN o.labels /\ o.labels["namespace"] = r.namespace
  <2>1. r \in Resources /\ r.namespace # ""
    BY DEF Keyed
  <2>2. o.labels = Labels(r)
    BY InternalIs
  <2>3. /\ "__name__" \in DOMAIN Labels(r) /\ Labels(r)["__name__"] = r.name
        /\ r.namespace # "" => "namespace" \in DOMAIN Labels(r)
        /\ "namespace" \in DOMAIN Labels(r) => Labels(r)["namespace"] = r.namespace
    BY <2>1, LabelsOf
  <2> HIDE DEF o
  <2> QED
    BY <2>1, <2>2, <2>3
<1>2. /\ "__name__" \in DOMAIN m.labels /\ m.labels["__name__"] = r.name
      /\ "namespace" \in DOMAIN m.labels /\ m.labels["namespace"] = r.namespace
  <2> HIDE DEF o
  <2>1. \A l \in DOMAIN o.labels :
          Sanitized(l) \in DOMAIN m.labels /\ m.labels[Sanitized(l)] = o.labels[l]
    BY MessageLabel DEF o
  <2> QED
    BY <1>1, <2>1, OwnNames
<1>3. ASSUME NEW q \in stored
      PROVE  Selects(m.labels, q) <=> q = r
  BY <1>2 DEF Selects, Keyed
<1> QED
  BY <1>3

\* The labels of a message match every objective that has the labels it was made from.
LEMMA FilesystemSelf ==
    ASSUME ObjectivesAssumption, backend = "filesystem", NEW o \in Objectives,
           NEW m \in FromInternal(o), ~Ambiguous(o), NEW p, p.labels = o.labels
    PROVE  Matches(m.labels, p)
<1> SUFFICES ASSUME NEW n \in DOMAIN m.labels
             PROVE  m.labels[n] = IF LabelOf(p, n) # "" THEN LabelOf(p, n)
                                                        ELSE LabelOf(p, Prefixed(n))
  BY DEF Matches
<1>1. PICK l \in DOMAIN o.labels : Sanitized(l) = n /\ m.labels[n] = o.labels[l]
  BY MessageIs
<1>2. DOMAIN o.labels \subseteq LabelNames
  BY LabelNamesOf
<1>3. l # "pyrra.dev/my-team"
  BY DEF Ambiguous
<1>4. \A k \in DOMAIN o.labels : k # l => Sanitized(k) # Sanitized(l)
  BY DEF Ambiguous
<1>5. CASE l = "__name__"
  BY <1>1, <1>5, OwnNames DEF LabelOf, Prefixed
<1>6. CASE l = "namespace"
  <2>1. n = "namespace" /\ Prefixed(n) = "pyrra.dev/namespace"
    BY <1>1, <1>6, OwnNames DEF Prefixed
  <2>2. "pyrra.dev/namespace" \notin DOMAIN o.labels
    BY <1>4, <1>6 DEF Sanitized
  <2>3. LabelOf(p, n) = o.labels[l] /\ LabelOf(p, Prefixed(n)) = ""
    BY <1>6, <2>1, <2>2 DEF LabelOf
  <2> QED
    BY <1>1, <2>3
<1>7. CASE l = "pyrra.dev/team"
  <2>1. n = "team" /\ Prefixed(n) = l
    BY <1>1, <1>7 DEF Prefixed, Sanitized
  <2>2. "team" \notin DOMAIN o.labels
    BY <1>2 DEF LabelNames
  <2>3. LabelOf(p, n) = "" /\ LabelOf(p, Prefixed(n)) = o.labels[l]
    BY <2>1, <2>2 DEF LabelOf
  <2> QED
    BY <1>1, <2>3
<1>8. CASE l = "pyrra.dev/namespace"
  <2>1. n = "namespace" /\ Prefixed(n) = l
    BY <1>1, <1>8 DEF Prefixed, Sanitized
  <2>2. "namespace" \notin DOMAIN o.labels
    BY <1>4, <1>8 DEF Sanitized
  <2>3. LabelOf(p, n) = "" /\ LabelOf(p, Prefixed(n)) = o.labels[l]
    BY <2>1, <2>2 DEF LabelOf
  <2> QED
    BY <1>1, <2>3
<1> QED
  BY <1>2, <1>3, <1>5, <1>6, <1>7, <1>8 DEF LabelNames

\* Of the objectives that match a message, all have the name of the one it was made from.
LEMMA FilesystemName ==
    ASSUME ObjectivesAssumption, NEW o \in Objectives, o # Zero,
           NEW m \in FromInternal(o), ~Ambiguous(o),
           NEW p \in Objectives, Matches(m.labels, p)
    PROVE  LabelOf(p, "__name__") = LabelOf(o, "__name__")
<1>1. "__name__" \in DOMAIN o.labels
  <2>1. PICK r \in Resources : o = Internal(r)
    BY ObjectiveIs
  <2>2. o.labels = Labels(r)
    BY <2>1, InternalIs
  <2>3. "__name__" \in DOMAIN Labels(r)
    BY LabelsOf
  <2> QED
    BY <2>2, <2>3
<1>2. "__name__" \in DOMAIN m.labels /\ m.labels["__name__"] = o.labels["__name__"]
  <2>1. \A l \in DOMAIN o.labels :
          Sanitized(l) \in DOMAIN m.labels /\ m.labels[Sanitized(l)] = o.labels[l]
    BY MessageLabel
  <2> QED
    BY <1>1, <2>1, OwnNames
<1>3. "__name__" \notin Grouping(p)
  BY NotByName
<1>4. Prefixed("__name__") = "__name__"
  BY DEF Prefixed
<1>5. m.labels["__name__"] = LabelOf(p, "__name__")
  BY <1>2, <1>3, <1>4 DEF Matches
<1> QED
  BY <1>1, <1>2, <1>5 DEF LabelOf

-----------------------------------------------------------------------------
(* The steps.                                                                *)

LEMMA BackendListIs ==
    ASSUME stored \subseteq Resources, store \subseteq Objectives,
           backend \in {"kubernetes", "filesystem"}, NEW expr
    PROVE  /\ BackendList(expr).objectives \subseteq Objectives
           /\ backend = "filesystem" =>
                BackendList(expr).objectives = {o \in store : Matches(expr, o)}
           /\ backend = "kubernetes" =>
                \A o \in BackendList(expr).objectives :
                    \E r \in stored : Selects(expr, r) /\ o = Internal(r)
<1>1. CASE backend = "kubernetes"
  <2> DEFINE selected == {r \in stored : Selects(expr, r)}
  <2>1. BackendList(expr).objectives \in {{}, {Internal(r) : r \in selected}}
    BY <1>1 DEF BackendList, Kubernetes
  <2>2. {Internal(r) : r \in selected} \subseteq Objectives
    BY DEF Objectives
  <2> QED
    BY <1>1, <2>1, <2>2
<1>2. CASE backend = "filesystem"
  BY <1>2 DEF BackendList, Filesystem
<1> QED
  BY <1>1, <1>2

\* A page shows one of the objectives that the backend returns, if there is just one.
LEMMA GetIs ==
    ASSUME NEW o, Get(o), answer' # None
    PROVE  /\ o \in DOMAIN shown
           /\ Cardinality(BackendList(shown[o].labels).objectives) = 1
           /\ answer' \in BackendList(shown[o].labels).objectives
<1> DEFINE S == BackendList(shown[o].labels).objectives
<1>1. Cardinality(S) = 1 /\ answer' = CHOOSE p \in S : TRUE
  BY DEF Get
<1>2. S # {}
  BY <1>1, FS_EmptySet
<1> QED
  BY <1>1, <1>2 DEF Get

\* DetailOfListed of the page of o.
LEMMA DetailOfGet ==
    ASSUME ObjectivesAssumption, IInv, NEW o, Get(o), answer' # None, ~Ambiguous(o),
           NEW l \in DOMAIN o.labels \cap {"__name__", "namespace"}
    PROVE  LabelOf(answer', l) = o.labels[l]
<1> DEFINE m == shown[o]
           S == BackendList(m.labels).objectives
<1>1. o \in Objectives /\ m \in FromInternal(o) /\ o \in DOMAIN shown
  BY DEF IInv, TypeOK, Get
<1>2. Cardinality(S) = 1 /\ answer' \in S
  BY GetIs
<1>3. stored \subseteq Resources /\ store \subseteq Objectives
  BY DEF IInv, TypeOK
<1>4. backend \in {"kubernetes", "filesystem"}
  BY DEF IInv, TypeOK, ObjectivesAssumption
<1>5. CASE backend = "kubernetes"
  <2>1. PICK r \in stored : Selects(m.labels, r) /\ answer' = Internal(r)
    BY <1>2, <1>3, <1>4, <1>5, BackendListIs
  <2> QED
    BY <1>1, <1>3, <2>1, KubernetesDetail
<1>6. CASE backend = "filesystem"
  <2>1. PICK p \in store : p.labels = o.labels
    BY <1>1, <1>6 DEF IInv, ShownStays
  <2>2. S = {q \in store : Matches(m.labels, q)}
    BY <1>3, <1>4, <1>6, BackendListIs
  <2>3. p \in S
    BY <1>1, <1>6, <2>1, <2>2, FilesystemSelf
  <2>4. IsFiniteSet(S)
    BY <2>2, FS_Subset DEF IInv, Finite
  <2>5. \E x : S = {x}
    BY <1>2, <2>4, FS_Singleton
  <2>6. answer' = p
    BY <1>2, <2>3, <2>5
  <2> QED
    BY <2>1, <2>6 DEF LabelOf
<1> QED
  BY <1>4, <1>5, <1>6

\* ListedIsFound of the page of o.
LEMMA FoundByGet ==
    ASSUME ObjectivesAssumption, IInv, NEW o, Get(o), Unchanged(o), ~Ambiguous(o)
    PROVE  \/ answer' = o
           \/ backend = "filesystem" /\ \E p \in store \ {o} :
                o = Zero \/ LabelOf(p, "__name__") = LabelOf(o, "__name__")
<1> DEFINE m == shown[o]
           S == BackendList(m.labels).objectives
<1>1. o \in Objectives /\ m \in FromInternal(o) /\ o \in DOMAIN shown
  BY DEF IInv, TypeOK, Get
<1>2. stored \subseteq Resources /\ store \subseteq Objectives
  BY DEF IInv, TypeOK
<1>3. backend \in {"kubernetes", "filesystem"}
  BY DEF IInv, TypeOK, ObjectivesAssumption
<1>4. ASSUME BackendList(m.labels).ok, S = {o}
      PROVE  answer' = o
  <2>1. Cardinality(S) = 1
    BY <1>4, FS_Singleton
  <2>2. answer' = CHOOSE p \in {o} : TRUE
    BY <1>4, <2>1 DEF Get
  <2> QED
    BY <2>2
<1>5. CASE backend = "kubernetes"
  <2>1. PICK r \in stored : Converts(r) /\ Internal(r) = o
    BY <1>5 DEF Unchanged
  <2>2. {q \in stored : Selects(m.labels, q)} = {r}
    BY <1>1, <1>2, <2>1, KubernetesSelf DEF IInv
  <2>3. BackendList(m.labels).ok /\ S = {o}
    <3>1. BackendList(m.labels) = Kubernetes(m.labels)
      BY <1>5 DEF BackendList
    <3>2. Kubernetes(m.labels) = [ok |-> TRUE, objectives |-> {Internal(q) : q \in {r}}]
      BY <2>1, <2>2 DEF Kubernetes
    <3> QED
      BY <2>1, <3>1, <3>2
  <2> QED
    BY <1>4, <2>3
<1>6. CASE backend = "filesystem"
  <2>1. S = {q \in store : Matches(m.labels, q)} /\ (BackendList(m.labels).ok <=> S # {})
    BY <1>6 DEF BackendList, Filesystem
  <2>2. o \in S
    BY <1>1, <1>6, <2>1, FilesystemSelf DEF Unchanged
  <2>3. CASE S = {o}
    BY <1>4, <2>1, <2>3
  <2>4. CASE S # {o}
    <3>1. PICK p \in S : p # o
      BY <2>2, <2>4
    <3>2. p \in store \ {o} /\ p \in Objectives /\ Matches(m.labels, p)
      BY <1>2, <2>1, <3>1
    <3>3. o = Zero \/ LabelOf(p, "__name__") = LabelOf(o, "__name__")
      BY <1>1, <3>2, FilesystemName
    <3> QED
      BY <1>6, <3>2, <3>3
  <2> QED
    BY <2>3, <2>4
<1> QED
  BY <1>3, <1>5, <1>6

LEMMA Bound ==
    ASSUME ObjectivesAssumption
    PROVE  MaxApplies \in Nat
BY DEF ObjectivesAssumption

LEMMA InitInv ==
    ASSUME ObjectivesAssumption, Init
    PROVE  IInv
<1>1. TypeOK
  <2>1. DOMAIN shown = {}
    BY DEF Init
  <2>2. ops \in 0..MaxApplies
    BY Bound DEF Init
  <2> QED
    BY <2>1, <2>2 DEF TypeOK, Init
<1>2. Passed /\ Keyed /\ ShownStays
  BY DEF Init, Passed, Keyed, ShownStays
<1>3. Finite
  BY FS_EmptySet DEF Init, Finite
<1>4. DetailOfListed /\ ListedIsFound
  BY DEF Init, DetailOfListed, ListedIsFound
<1> QED
  BY <1>1, <1>2, <1>3, <1>4 DEF IInv

\* While no page is shown, nothing can be wrong with it.
LEMMA NoPage ==
    ASSUME asked' = None, answer' = None
    PROVE  DetailOfListed' /\ ListedIsFound'
BY DEF DetailOfListed, ListedIsFound

LEMMA ApplyInv ==
    ASSUME ObjectivesAssumption, IInv, NEW r \in Resources, ApplyKubernetes(r)
    PROVE  IInv'
<1>1. TypeOK'
  <2>1. ops' \in 0..MaxApplies
    <3>1. ops < MaxApplies /\ ops' = ops + 1
      BY DEF ApplyKubernetes
    <3>2. ops \in 0..MaxApplies
      BY DEF IInv, TypeOK
    <3> QED
      BY <3>1, <3>2, Bound
  <2>2. stored' \subseteq Resources
    BY DEF IInv, TypeOK, ApplyKubernetes
  <2> QED
    BY <2>1, <2>2 DEF TypeOK, IInv, ApplyKubernetes
<1>2. Passed' /\ Keyed' /\ ShownStays'
  BY DEF IInv, ApplyKubernetes, Passed, Keyed, ShownStays
<1>3. Finite'
  <2> DEFINE others == {q \in stored : <<q.namespace, q.name>> # <<r.namespace, r.name>>}
  <2>1. IsFiniteSet(others)
    BY FS_Subset DEF IInv, Finite
  <2>2. IsFiniteSet(others \cup {r})
    BY <2>1, FS_AddElement
  <2> QED
    BY <2>2 DEF IInv, Finite, ApplyKubernetes
<1>4. DetailOfListed' /\ ListedIsFound'
  BY NoPage DEF ApplyKubernetes
<1> QED
  BY <1>1, <1>2, <1>3, <1>4 DEF IInv

LEMMA DeleteInv ==
    ASSUME ObjectivesAssumption, IInv, NEW r \in Resources, DeleteKubernetes(r)
    PROVE  IInv'
<1>1. TypeOK'
  <2>1. ops' \in 0..MaxApplies
    <3>1. ops < MaxApplies /\ ops' = ops + 1
      BY DEF DeleteKubernetes
    <3>2. ops \in 0..MaxApplies
      BY DEF IInv, TypeOK
    <3> QED
      BY <3>1, <3>2, Bound
  <2>2. stored' \subseteq Resources
    BY DEF IInv, TypeOK, DeleteKubernetes
  <2> QED
    BY <2>1, <2>2 DEF TypeOK, IInv, DeleteKubernetes
<1>2. Passed' /\ Keyed' /\ ShownStays'
  BY DEF IInv, DeleteKubernetes, Passed, Keyed, ShownStays
<1>3. Finite'
  <2>1. IsFiniteSet(stored \ {r})
    BY FS_Subset DEF IInv, Finite
  <2> QED
    BY <2>1 DEF IInv, Finite, DeleteKubernetes
<1>4. DetailOfListed' /\ ListedIsFound'
  BY NoPage DEF DeleteKubernetes
<1> QED
  BY <1>1, <1>2, <1>3, <1>4 DEF IInv

LEMMA WriteFileInv ==
    ASSUME ObjectivesAssumption, IInv, NEW r \in Resources, WriteFile(r)
    PROVE  IInv'
<1> DEFINE o == IF Converts(r) THEN Internal(r) ELSE Zero
           others == {p \in store : p.labels # o.labels}
<1>1. store' = others \cup {o} /\ o \in Objectives
  BY DEF WriteFile, Objectives
<1>2. UNCHANGED <<backend, webhook, stored, shown>> /\ asked' = None /\ answer' = None
  BY DEF WriteFile
<1> HIDE DEF o
<1>3. TypeOK'
  <2>1. ops' \in 0..MaxApplies
    <3>1. ops < MaxApplies /\ ops' = ops + 1
      BY DEF WriteFile
    <3>2. ops \in 0..MaxApplies
      BY DEF IInv, TypeOK
    <3> QED
      BY <3>1, <3>2, Bound
  <2>2. store' \subseteq Objectives
    BY <1>1 DEF IInv, TypeOK
  <2>3. fresh' \in BOOLEAN
    BY DEF WriteFile
  <2> QED
    BY <1>2, <2>1, <2>2, <2>3 DEF TypeOK, IInv
<1>4. Passed' /\ Keyed'
  BY <1>2 DEF IInv, Passed, Keyed
<1>5. ShownStays'
  <2> SUFFICES ASSUME backend = "filesystem", NEW q \in DOMAIN shown
               PROVE  \E p \in others \cup {o} : p.labels = q.labels
    BY <1>1, <1>2 DEF ShownStays
  <2>1. PICK p \in store : p.labels = q.labels
    BY DEF IInv, ShownStays
  <2> QED
    BY <2>1
<1>6. Finite'
  <2>1. IsFiniteSet(others)
    BY FS_Subset DEF IInv, Finite
  <2>2. IsFiniteSet(others \cup {o})
    BY <2>1, FS_AddElement
  <2> QED
    BY <1>1, <1>2, <2>2 DEF IInv, Finite
<1>7. DetailOfListed' /\ ListedIsFound'
  BY <1>2, NoPage
<1> QED
  BY <1>3, <1>4, <1>5, <1>6, <1>7 DEF IInv

LEMMA ListInv ==
    ASSUME ObjectivesAssumption, IInv, List
    PROVE  IInv'
<1> DEFINE S == BackendList(<<>>).objectives
<1>1. /\ DOMAIN shown' = S /\ \A o \in S : shown'[o] \in FromInternal(o)
      /\ fresh' = TRUE /\ asked' = None /\ answer' = None
      /\ UNCHANGED <<backend, webhook, stored, store, ops>>
  BY DEF List
<1>2. backend \in {"kubernetes", "filesystem"}
  BY DEF IInv, TypeOK, ObjectivesAssumption
<1>3. S \subseteq Objectives /\ (backend = "filesystem" => S \subseteq store)
  BY <1>2, BackendListIs DEF IInv, TypeOK
<1>4. TypeOK'
  BY <1>1, <1>3 DEF TypeOK, IInv
<1>5. Passed' /\ Keyed' /\ Finite'
  BY <1>1 DEF IInv, Passed, Keyed, Finite
<1>6. ShownStays'
  BY <1>1, <1>3 DEF ShownStays
<1>7. DetailOfListed' /\ ListedIsFound'
  BY <1>1, NoPage
<1> QED
  BY <1>4, <1>5, <1>6, <1>7 DEF IInv

LEMMA GetInv ==
    ASSUME ObjectivesAssumption, IInv, NEW o, Get(o)
    PROVE  IInv'
<1>1. asked' = o /\ UNCHANGED <<backend, webhook, stored, store, shown, fresh, ops>>
  BY DEF Get
<1>2. o \in Objectives /\ o \in DOMAIN shown
  BY DEF IInv, TypeOK, Get
<1>3. TypeOK'
  <2>1. answer' \in Objectives \cup {None}
    BY GetIs, BackendListIs DEF IInv, TypeOK, ObjectivesAssumption
  <2> QED
    BY <1>1, <1>2, <2>1 DEF TypeOK, IInv
<1>4. Passed' /\ Keyed' /\ ShownStays' /\ Finite'
  BY <1>1 DEF IInv, Passed, Keyed, ShownStays, Finite
<1>5. DetailOfListed'
  BY <1>1, DetailOfGet DEF DetailOfListed, Ambiguous, LabelOf
<1>6. ListedIsFound'
  BY <1>1, FoundByGet DEF ListedIsFound, Ambiguous, Unchanged, LabelOf
<1> QED
  BY <1>3, <1>4, <1>5, <1>6 DEF IInv

LEMMA StutterInv ==
    ASSUME IInv, UNCHANGED vars
    PROVE  IInv'
<1>1. TypeOK' /\ Passed' /\ Keyed' /\ ShownStays' /\ Finite'
  BY DEF IInv, vars, TypeOK, Passed, Keyed, ShownStays, Finite
<1>2. DetailOfListed'
  BY DEF IInv, vars, DetailOfListed, Ambiguous
<1>3. ListedIsFound'
  BY DEF IInv, vars, ListedIsFound, Ambiguous, Unchanged
<1> QED
  BY <1>1, <1>2, <1>3 DEF IInv

LEMMA Invariance ==
    Spec => []IInv
<1>1. Init => IInv
  BY ObjectivesAssumption, InitInv
<1>2. IInv /\ [Next]_vars => IInv'
  <2> SUFFICES ASSUME IInv, [Next]_vars
               PROVE  IInv'
    OBVIOUS
  <2>1. ASSUME NEW r \in Resources, ApplyKubernetes(r)
        PROVE  IInv'
    BY <2>1, ObjectivesAssumption, ApplyInv
  <2>2. ASSUME NEW r \in Resources, DeleteKubernetes(r)
        PROVE  IInv'
    BY <2>2, ObjectivesAssumption, DeleteInv
  <2>3. ASSUME NEW r \in Resources, WriteFile(r)
        PROVE  IInv'
    BY <2>3, ObjectivesAssumption, WriteFileInv
  <2>4. CASE List
    BY <2>4, ObjectivesAssumption, ListInv
  <2>5. ASSUME NEW o \in DOMAIN shown, Get(o)
        PROVE  IInv'
    BY <2>5, ObjectivesAssumption, GetInv
  <2>6. CASE UNCHANGED vars
    BY <2>6, StutterInv
  <2> QED
    BY <2>1, <2>2, <2>3, <2>4, <2>5, <2>6 DEF Next
<1> QED
  BY <1>1, <1>2, PTL DEF Spec

-----------------------------------------------------------------------------
(* The theorems.                                                             *)

\* The state of the backends and their clients is well typed, for any resources.
THEOREM TypeCorrect ==
    Spec => []TypeOK
<1>1. IInv => TypeOK
  BY DEF IInv
<1> QED
  BY <1>1, Invariance, PTL

\* What the webhook accepts, with a single indicator whose metrics are selectors, converts,
\* and its type, metrics, grouping and window survive the message: for any resource.
THEOREM AcceptedIsServedAlways ==
    Spec => []AcceptedIsServed
<1>1. IInv => AcceptedIsServed
  BY ObjectivesAssumption, AcceptedIsServedBy DEF IInv, TypeOK, Passed, AcceptedIsServed
<1> QED
  BY <1>1, Invariance, PTL

\* The page of a listed objective never shows one of another name or namespace, for any
\* resources, and any writes between the listing and the page.
THEOREM DetailOfListedAlways ==
    Spec => []DetailOfListed
<1>1. IInv => DetailOfListed
  BY DEF IInv
<1> QED
  BY <1>1, Invariance, PTL

\* The page of a listed objective that has not changed finds it, for any resources.
THEOREM ListedIsFoundAlways ==
    Spec => []ListedIsFound
<1>1. IInv => ListedIsFound
  BY DEF IInv
<1> QED
  BY <1>1, Invariance, PTL

=============================================================================
