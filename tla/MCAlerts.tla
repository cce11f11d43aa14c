------------------------------ MODULE MCAlerts ------------------------------
(* Instances of Alerts for TLC: objectives with a namespace, a propagated label, *)
(* a grouping, and labels that their metrics also have.                        *)
EXTENDS Alerts, TLC

CONSTANTS plain, sibling, grouped, local, apart

Empty == [l \in {} |-> ""]

Objective(labels, propagated, window, equals, groups) ==
    [labels |-> labels, propagated |-> propagated, window |-> window, equals |-> equals,
     groups |-> groups]

\* 60 minutes have burn rates of 0, 1, 2 and 9 minutes.
Hour == 60
Month == 28 * 24 * 60

MCDef ==
    plain :> Objective("__name__" :> "x" @@ "namespace" :> "v", {}, Hour, "job" :> "j", {Empty})
    @@ sibling :> Objective("__name__" :> "x" @@ "namespace" :> "w", {}, Hour, Empty, {Empty})
    @@ grouped :> Objective("__name__" :> "y" @@ "namespace" :> "v" @@ "team" :> "t", {"team"},
                            Month, "job" :> "j", {"code" :> "a", "code" :> "b"})
    @@ local :> Objective("__name__" :> "z", {}, Hour, "namespace" :> "v", {Empty})
    @@ apart :> Objective("__name__" :> "a" @@ "namespace" :> "v", {}, Month,
                          "namespace" :> "w", {Empty})

Request(os, grouping, inactive, current) ==
    [objectives |-> os, grouping |-> grouping, inactive |-> inactive, current |-> current]

\* Requests for all objectives, for each, and for one with another or two groups of one.
MCRequests ==
    {Request(os, Empty, i, FALSE) :
       os \in {Objectives, {plain, local}} \cup {{o} : o \in Objectives}, i \in BOOLEAN}
    \cup {Request({grouped, plain}, "code" :> c, i, FALSE) : c \in {"a", "b"}, i \in BOOLEAN}
    \cup {Request({plain, sibling}, "job" :> "j", TRUE, TRUE),
          Request({local}, Empty, FALSE, TRUE)}

=============================================================================
