--------------------------- MODULE MCRecordingRules ---------------------------
(* Instances of the rules and queries for TLC: two label values, and the        *)
(* matchers that an objective may have on each label.                           *)
EXTENDS GenericRules, GroupedQueries, TLC

M(type, values) == [type |-> type, values |-> values]

Equal    == {M("=", {"a"})}
Regex    == {M("=~", {"a", "b"}), M("=~", {"b"}), M("!~", {"a"})}
NotEqual == {M("!=", {"a"})}

EqualRegex    == Equal \cup Regex
EqualNotEqual == Equal \cup NotEqual

\* A regular expression accepts one value or, with the label missing, two.
Narrow == {M("=~", {"b"}), M("!~", {"a"})}

\* Matchers that the rules and queries of the type agree on.
AgreedOptions ==
    "Ratio" :> Equal \cup Narrow @@ "Latency" :> EqualRegex \cup NotEqual
    @@ "LatencyNative" :> EqualNotEqual @@ "BoolGauge" :> EqualRegex \cup NotEqual

RegexOptions == [t \in Types |-> EqualRegex]

Nothing == [l \in {} |-> ""]
NothingPropagated == [t \in Types |-> {Nothing}]
CodePropagated ==
    [t \in Types |-> {Nothing} \cup IF t = "LatencyNative" THEN {} ELSE {"code" :> "p"}]

=============================================================================
