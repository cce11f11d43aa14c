----------------------------- MODULE Objectives -----------------------------
(***************************************************************************)
(* The way of an objective from its resource to a detail page: the webhook  *)
(* validates a ServiceLevelObjective, Internal() converts it for the rules   *)
(* and for the backends, a backend selects the objectives that match an      *)
(* expression and sends them as messages (FromInternal), and the API server  *)
(* converts them back (ToInternal) and expects exactly one where a user has   *)
(* opened one of the objectives listed before.                              *)
(***************************************************************************)
EXTENDS Naturals, FiniteSets

CONSTANTS
    Resources,  \* the ServiceLevelObjectives that users may write
    Backends,   \* "kubernetes", "filesystem"
    Webhooks,   \* whether the validation webhook is installed: BOOLEAN or {FALSE}
    MaxApplies, \* bound on the users' operations
    None

VARIABLES
    backend,  \* the backend that is run
    webhook,  \* --disable-webhooks=false, and the webhook configuration applied
    stored,   \* the resources in the Kubernetes API server
    store,    \* the objectives in the store of the filesystem backend
    shown,    \* shown[o]: the message for o in the answer to the last List
    asked,    \* the objective whose page was opened, by the labels of its message
    answer,   \* what getObjective returned for it
    fresh,    \* nothing was written since the last List
    ops

vars == <<backend, webhook, stored, store, shown, asked, answer, fresh, ops>>

-----------------------------------------------------------------------------
(* Resources and their validation.                                           *)

\* What a string is as PromQL; an expression that is not a selector has the type
\* vector or another one (scalar, matrix, string). name is the metric name of a
\* selector, "" if it only has matchers; le its first matcher of the label le.
Metric == [form : {"empty", "invalid", "scalar", "vector", "selector"}, name : STRING,
           le : {"none", "float", "other"}]

\* The part of a Ratio are its errors, that of a Latency its successes; the others have
\* none. duration says whether the latency of a LatencyNative is a duration.
Indicator == [total : Metric, part : Metric, duration : BOOLEAN, grouping : SUBSET STRING]

Types == {"Ratio", "Latency", "LatencyNative", "BoolGauge"}

\* Labels by which rules are grouped and objectives are told apart.
LabelNames == {"__name__", "namespace", "pyrra.dev/team", "pyrra.dev/my-team",
               "pyrra.dev/namespace"}

\* A resource with its indicators, and at most one label that is propagated. Nothing is
\* grouped by the name of a metric.
ASSUME ObjectivesAssumption ==
    /\ \A r \in Resources :
         /\ r.target \in {"invalid", "outside", "inside"}
         /\ r.prop \in LabelNames \cup {None}
         /\ DOMAIN r.indicators \subseteq Types
         /\ r.indicators \in [DOMAIN r.indicators -> Indicator]
         /\ \A t \in DOMAIN r.indicators : "__name__" \notin r.indicators[t].grouping
    /\ Backends \subseteq {"kubernetes", "filesystem"} /\ Webhooks \subseteq BOOLEAN
    /\ MaxApplies \in Nat

Parses(m) == m.form \notin {"empty", "invalid"}

\* What is checked of an indicator.
Checked(t, i) ==
    CASE t = "Ratio" -> Parses(i.total) /\ Parses(i.part)
      [] t = "Latency" ->
           /\ Parses(i.total) /\ i.total.form # "vector"
           /\ Parses(i.part) /\ i.part.form # "vector"
           /\ i.part.form = "selector" => i.part.le = "float"
      [] t = "LatencyNative" -> Parses(i.total) /\ i.duration
      [] t = "BoolGauge" -> Parses(i.total)

\* validate, its errors; what it only warns of is accepted.
Validates(r) ==
    /\ r.name # ""
    /\ r.target = "inside"
    /\ r.window # None
    /\ DOMAIN r.indicators # {}
    /\ \A t \in DOMAIN r.indicators : Checked(t, r.indicators[t])

-----------------------------------------------------------------------------
(* slo.Objective.                                                            *)

\* Internal() succeeds.
Converts(r) ==
    /\ r.target # "invalid"
    /\ r.window # None
    /\ ~ {"Ratio", "Latency"} \subseteq DOMAIN r.indicators
    /\ \A t \in DOMAIN r.indicators :
         /\ r.indicators[t].total.form = "selector"
         /\ t \in {"Ratio", "Latency"} => r.indicators[t].part.form = "selector"
         /\ t = "LatencyNative" => r.indicators[t].duration

Labels(r) ==
    [l \in {"__name__"} \cup (IF r.namespace = "" THEN {} ELSE {"namespace"})
                        \cup (IF r.prop = None THEN {} ELSE {r.prop}) |->
        CASE l = "__name__" -> r.name [] l = "namespace" -> r.namespace [] OTHER -> r.value]

Internal(r) ==
    [labels |-> Labels(r), window |-> r.window, indicators |-> r.indicators]

\* What objectiveFromFile returns with its errors.
Zero == [labels |-> <<>>, window |-> None, indicators |-> <<>>]

Known(o, t) == t \in DOMAIN o.indicators /\ o.indicators[t].total.name # ""

IndicatorType(o) ==
    IF Known(o, "Ratio") THEN "Ratio"
    ELSE IF Known(o, "Latency") THEN "Latency"
    ELSE IF Known(o, "LatencyNative") THEN "LatencyNative"
    ELSE IF Known(o, "BoolGauge") THEN "BoolGauge" ELSE "Unknown"

Grouping(o) ==
    IF IndicatorType(o) = "Unknown" THEN {} ELSE o.indicators[IndicatorType(o)].grouping

-----------------------------------------------------------------------------
(* The messages between a backend and the API server.                        *)

\* Without the prefix pyrra.dev/, and with underscores for what no label name may have.
Sanitized(l) ==
    CASE l = "pyrra.dev/team" -> "team"
      [] l = "pyrra.dev/my-team" -> "my_team"
      [] l = "pyrra.dev/namespace" -> "namespace"
      [] OTHER -> l

\* The labels are put into a map in no particular order: of two that are called the
\* same, the last one stays.
MessageLabels(ls) ==
    {f \in [{Sanitized(l) : l \in DOMAIN ls} -> {ls[l] : l \in DOMAIN ls}] :
        \A n \in DOMAIN f : \E l \in DOMAIN ls : Sanitized(l) = n /\ f[n] = ls[l]}

\* The one-of of the message keeps the indicator that is assigned last.
LastOf(ts) ==
    IF "BoolGauge" \in ts THEN "BoolGauge"
    ELSE IF "LatencyNative" \in ts THEN "LatencyNative"
    ELSE IF "Latency" \in ts THEN "Latency" ELSE "Ratio"

\* Mutant: the grouping is left out.
MessageIndicatorsUngrouped(o) ==
    [t \in {LastOf(DOMAIN o.indicators)} \cap DOMAIN o.indicators |->
        [o.indicators[t] EXCEPT !.grouping = {}]]

MessageIndicators(o) ==
    [t \in {LastOf(DOMAIN o.indicators)} \cap DOMAIN o.indicators |->
        [o.indicators[t] EXCEPT !.grouping = Grouping(o)]]

FromInternal(o) ==
    {[labels |-> ls, window |-> o.window, indicators |-> MessageIndicators(o)] :
        ls \in MessageLabels(o.labels)}

\* Labels, indicator and window are copied back; Alerting is not in the message.
ToInternal(m) ==
    [labels |-> m.labels, window |-> m.window, indicators |-> m.indicators]

-----------------------------------------------------------------------------
(* The backends. An expression is a function: its equality matchers.          *)

\* Mutant: the namespace does not matter.
SelectsName(expr, r) ==
    "__name__" \in DOMAIN expr => expr["__name__"] = r.name

Selects(expr, r) ==
    /\ "__name__" \in DOMAIN expr => expr["__name__"] = r.name
    /\ "namespace" \in DOMAIN expr => expr["namespace"] = r.namespace

LabelOf(o, l) == IF l \in DOMAIN o.labels THEN o.labels[l] ELSE ""

Prefixed(l) == IF l = "team" THEN "pyrra.dev/team"
               ELSE IF l = "namespace" THEN "pyrra.dev/namespace" ELSE l

Matches(expr, o) ==
    \A l \in DOMAIN expr :
        \/ expr[l] = IF LabelOf(o, l) # "" THEN LabelOf(o, l) ELSE LabelOf(o, Prefixed(l))
        \/ l \in Grouping(o)

\* Mutant: every resource is converted before it is matched.
KubernetesConvertFirst(expr) ==
    IF \A r \in stored : Converts(r)
      THEN [ok |-> TRUE, objectives |-> {Internal(r) : r \in {r \in stored : Selects(expr, r)}}]
      ELSE [ok |-> FALSE, objectives |-> {}]

\* The answer of a backend's List: the objectives, or an error.
Kubernetes(expr) ==
    LET selected == {r \in stored : Selects(expr, r)}
    IN  IF \A r \in selected : Converts(r)
          THEN [ok |-> TRUE, objectives |-> {Internal(r) : r \in selected}]
          ELSE [ok |-> FALSE, objectives |-> {}]

Filesystem(expr) ==
    LET matching == {o \in store : Matches(expr, o)}
    IN  [ok |-> matching # {}, objectives |-> matching]

BackendList(expr) == IF backend = "kubernetes" THEN Kubernetes(expr) ELSE Filesystem(expr)

-----------------------------------------------------------------------------
Init ==
    /\ backend \in Backends
    /\ webhook \in Webhooks /\ (backend = "filesystem" => ~webhook)
    /\ stored = {} /\ store = {} /\ shown = <<>>
    /\ asked = None /\ answer = None
    /\ fresh = FALSE
    /\ ops = 0

\* kubectl apply. The webhook is asked for every create and update.
ApplyKubernetes(r) ==
    /\ backend = "kubernetes" /\ ops < MaxApplies
    /\ r.name # "" /\ r.namespace # ""
    /\ webhook => Validates(r)
    /\ stored' = {q \in stored : <<q.namespace, q.name>> # <<r.namespace, r.name>>} \cup {r}
    /\ ops' = ops + 1 /\ fresh' = FALSE
    /\ asked' = None /\ answer' = None
    /\ UNCHANGED <<backend, webhook, store, shown>>

\* ValidateDelete accepts everything.
DeleteKubernetes(r) ==
    /\ backend = "kubernetes" /\ ops < MaxApplies
    /\ r \in stored
    /\ stored' = stored \ {r}
    /\ ops' = ops + 1 /\ fresh' = FALSE
    /\ asked' = None /\ answer' = None
    /\ UNCHANGED <<backend, webhook, store, shown>>

\* Mutant: objectives are stored as they are sent.
WriteFileTrimmed(r) ==
    /\ backend = "filesystem" /\ ops < MaxApplies
    /\ \E o \in FromInternal(IF Converts(r) THEN Internal(r) ELSE Zero) :
          store' = {p \in store : p.labels # o.labels} \cup {ToInternal(o)}
    /\ ops' = ops + 1 /\ fresh' = FALSE
    /\ asked' = None /\ answer' = None
    /\ UNCHANGED <<backend, webhook, stored, shown>>

\* A file is written and processed. Its objective is stored whether or not it
\* validates, under its labels.
WriteFile(r) ==
    /\ backend = "filesystem" /\ ops < MaxApplies
    /\ LET o == IF Converts(r) THEN Internal(r) ELSE Zero
       IN  store' = {p \in store : p.labels # o.labels} \cup {o}
    /\ ops' = ops + 1 /\ fresh' = FALSE
    /\ asked' = None /\ answer' = None
    /\ UNCHANGED <<backend, webhook, stored, shown>>

\* The list page: every objective, with one of the messages it may become.
List ==
    /\ ~fresh
    /\ LET result == BackendList(<<>>)
       IN  \E f \in [result.objectives -> UNION {FromInternal(o) : o \in result.objectives}] :
              /\ \A o \in result.objectives : f[o] \in FromInternal(o)
              /\ shown' = f
    /\ fresh' = TRUE
    /\ asked' = None /\ answer' = None
    /\ UNCHANGED <<backend, webhook, stored, store, ops>>

\* A detail page: getObjective with the labels of a listed objective.
Get(o) ==
    /\ o \in DOMAIN shown /\ asked = None
    /\ asked' = o
    /\ LET result == BackendList(shown[o].labels)
       IN  answer' = IF result.ok /\ Cardinality(result.objectives) = 1
                       THEN CHOOSE p \in result.objectives : TRUE ELSE None
    /\ UNCHANGED <<backend, webhook, stored, store, shown, fresh, ops>>

Next ==
    \/ \E r \in Resources : ApplyKubernetes(r) \/ DeleteKubernetes(r) \/ WriteFile(r)
    \/ List
    \/ \E o \in DOMAIN shown : Get(o)

Spec == Init /\ [][Next]_vars

-----------------------------------------------------------------------------
(* Properties.                                                               *)

Objectives == {Internal(r) : r \in Resources} \cup {Zero}

\* The type invariant of the backends and their clients.
TypeOK ==
    /\ backend \in Backends /\ webhook \in Webhooks
    /\ stored \subseteq Resources
    /\ store \subseteq Objectives
    /\ DOMAIN shown \subseteq Objectives
    /\ \A o \in DOMAIN shown : shown[o] \in FromInternal(o)
    /\ asked \in Objectives \cup {None} /\ answer \in Objectives \cup {None}
    /\ fresh \in BOOLEAN
    /\ ops \in 0..MaxApplies

\* What the webhook lets pass although it is of no use: a metric that is not a
\* selector or has no name, and more than one indicator.
Gap(r) ==
    \/ Cardinality(DOMAIN r.indicators) > 1
    \/ \E t \in DOMAIN r.indicators :
         LET i == r.indicators[t]
         IN  \/ i.total.form \in {"scalar", "vector"} \/ i.total.name = ""
             \/ t \in {"Ratio", "Latency"} /\ i.part.form \in {"scalar", "vector"}

\* The API server sees the objective the rules were made for: its type is known, and
\* type, metrics, grouping and window survive the message.
ServedAsIs(r) ==
    /\ Converts(r)
    /\ LET o == Internal(r)
       IN  \A m \in FromInternal(o) :
             LET p == ToInternal(m)
             IN  /\ IndicatorType(o) # "Unknown" /\ IndicatorType(p) = IndicatorType(o)
                 /\ p.indicators = o.indicators /\ Grouping(p) = Grouping(o)
                 /\ p.window = o.window

\* A resource that the webhook has accepted, but for the gaps above, is served as the
\* objective its rules are made for: validate() and Internal() check the same
\* resource separately, and two conversions lie between the rules and the queries.
AcceptedIsServed ==
    webhook => \A r \in stored : ~Gap(r) => ServedAsIs(r)

\* "When running `kubectl create` or `kubectl apply` the resource are first send from
\* the Kubernetes API to Pyrra and check for validity" (examples/kubernetes/README.md):
\* what has passed is not rejected by Internal(), which fails a whole listing.
AcceptedConverts ==
    webhook => \A r \in stored : Converts(r)

\* Two of its labels are called the same in a message, or one cannot be asked for.
Ambiguous(o) ==
    \E l \in DOMAIN o.labels :
        \/ \E k \in DOMAIN o.labels \ {l} : Sanitized(k) = Sanitized(l)
        \/ backend = "filesystem" /\ l = "pyrra.dev/my-team"

\* The page of a listed objective never shows an objective of another name or namespace,
\* also when objectives have been changed or deleted since they were listed.
DetailOfListed ==
    answer # None /\ ~Ambiguous(asked) =>
        \A l \in DOMAIN asked.labels \cap {"__name__", "namespace"} :
            LabelOf(answer, l) = asked.labels[l]

\* The objective is still what it was when it was listed.
Unchanged(o) ==
    IF backend = "filesystem" THEN o \in store
    ELSE \E r \in stored : Converts(r) /\ Internal(r) = o

\* The page of a listed objective that has not changed finds it, whatever has become of
\* the others. In Kubernetes that includes others that do not convert; in the filesystem
\* backend the objective needs a name of its own.
ListedIsFound ==
    asked # None /\ Unchanged(asked) /\ ~Ambiguous(asked) =>
        \/ answer = asked
        \/ backend = "filesystem" /\ \E o \in store \ {asked} :
             asked = Zero \/ LabelOf(o, "__name__") = LabelOf(asked, "__name__")

=============================================================================
