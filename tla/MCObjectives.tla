---------------------------- MODULE MCObjectives ----------------------------
(* Instances of Objectives for TLC: resources of every kind that differ from  *)
(* a good one in one respect.                                                *)
EXTENDS Objectives

Good == [form |-> "selector", name |-> "metric", le |-> "float"]

OddMetrics ==
    {[Good EXCEPT !.form = f] : f \in {"empty", "invalid", "scalar", "vector"}}
    \cup {[Good EXCEPT !.name = ""], [Good EXCEPT !.le = "none"], [Good EXCEPT !.le = "other"]}

Indicated(total, part, duration, grouping) ==
    [total |-> total, part |-> part, duration |-> duration, grouping |-> grouping]

GoodIndicator == Indicated(Good, Good, TRUE, {})

Single(t) == {[s \in {t} |-> i] : i \in
    {GoodIndicator, [GoodIndicator EXCEPT !.duration = FALSE],
     [GoodIndicator EXCEPT !.grouping = {"team"}]}
    \cup {[GoodIndicator EXCEPT !.total = m] : m \in OddMetrics}
    \cup {[GoodIndicator EXCEPT !.part = m] :
              m \in IF t \in {"Ratio", "Latency"} THEN OddMetrics ELSE {}}}

Several == {[t \in ts |-> IF t = "Ratio" THEN GoodIndicator
                          ELSE [GoodIndicator EXCEPT !.grouping = {"team"}]] :
              ts \in {ts \in SUBSET Types : Cardinality(ts) # 1}}

Resource(name, namespace, indicators) ==
    [name |-> name, namespace |-> namespace, prop |-> None, value |-> "v",
     target |-> "inside", window |-> "28d", indicators |-> indicators]

GoodResource(name, namespace) ==
    Resource(name, namespace, [t \in {"Ratio"} |-> GoodIndicator])

\* An objective in a namespace, resources like it, and others beside it.
MCResources ==
    {Resource("x", "v", i) : i \in Several \cup UNION {Single(t) : t \in Types}}
    \cup {[GoodResource("x", "w") EXCEPT !.prop = p] :
            p \in {"pyrra.dev/team", "pyrra.dev/my-team", "pyrra.dev/namespace"}}
    \cup {[GoodResource("x", "w") EXCEPT !.target = t] : t \in {"invalid", "outside"}}
    \cup {[GoodResource("y", "w") EXCEPT !.window = None]}
    \cup {GoodResource("y", "w"), GoodResource("x", ""), GoodResource("", "v")}

=============================================================================
