------------------------------- MODULE Alerts -------------------------------
(***************************************************************************)
(* GetAlerts of the API server (src/main.go): the alerts that Prometheus has  *)
(* pending or firing are matched with objectives by their labels and burn     *)
(* rate windows, and, for a request that wants them, the current burn rates   *)
(* of each objective are queried by a goroutine per window that writes its     *)
(* result into a map the request is still ranging over.                      *)
(***************************************************************************)
EXTENDS BurnrateWindows, FiniteSets

CONSTANTS
    Objectives, \* the objectives
    Def,        \* Def[o]: labels, window, and what the labels of its alerts are made from
    Requests,   \* the requests: objectives, grouping, inactive, current
    MaxActive,  \* bound on the alerts that are pending or firing at once
    None

\* labels are those of the API. The alerts of an objective carry its name as slo, the
\* propagated ones of its labels, the equality matchers of its metric that are not grouped
\* by, and the labels it is grouped by, with the values of a group. GetAlerts leaves
\* __name__ and slo out of a grouping.
ASSUME AlertsAssumption ==
    /\ None \notin Objectives \cup Requests
    /\ \A o \in Objectives :
         /\ "__name__" \in DOMAIN Def[o].labels
         /\ Def[o].propagated \subseteq DOMAIN Def[o].labels \ {"__name__", "namespace"}
         /\ Def[o].window \in Nat
         /\ DOMAIN Def[o].equals \cap {"__name__", "slo"} = {}
         /\ \A g \in Def[o].groups : DOMAIN g \cap ({"__name__"} \cup DOMAIN Def[o].equals) = {}
    /\ \A r \in Requests :
         /\ r.objectives \subseteq Objectives
         /\ DOMAIN r.grouping \cap {"__name__", "slo"} = {}
         /\ r.inactive \in BOOLEAN /\ r.current \in BOOLEAN
    /\ MaxActive \in Nat

VARIABLES
    phase,    \* where the request is: "idle", "next", "range", "wait", "done"
    req,      \* the request
    vector,   \* the samples of ALERTS that Prometheus has returned to it
    entries,  \* the alerts of its answer
    todo,     \* the objectives whose burn rates are still to be queried
    obj,      \* the objective whose burn rates are being queried
    windowsMap,
    spawned,  \* the windows whose goroutine has been started
    writing,  \* the goroutines that hold mtx
    finished, \* the goroutines that are done
    failed    \* the queries of the request that have returned no value

matchVars == <<req, vector, entries>>
queryVars == <<obj, windowsMap, spawned, writing, finished, failed>>
vars == <<phase, matchVars, todo, queryVars>>

-----------------------------------------------------------------------------
(* Alerts in Prometheus.                                                     *)

Labels(o) == Def[o].labels
WindowOf(o, i) == Windows(Def[o].window)[i]
Name(o) == Labels(o)["__name__"]

\* Labels ms are all among ls.
Includes(ls, ms) == \A l \in DOMAIN ms : l \in DOMAIN ls /\ ls[l] = ms[l]

\* Labels f, completed by those of g that f does not have.
Completed(f, g) == [l \in DOMAIN f \cup DOMAIN g |-> IF l \in DOMAIN f THEN f[l] ELSE g[l]]

commonRuleLabels(o) ==
    Completed([l \in {"slo"} |-> Name(o)], [l \in Def[o].propagated |-> Labels(o)[l]])

ruleLabels(o, i) ==
    Completed([l \in {"exhaustion"} |-> Exhausts(Def[o].window, WindowOf(o, i).factor)],
              Completed(Def[o].equals, commonRuleLabels(o)))

\* The labels of an alert rule override those of the series it is evaluated to.
AlertLabels(o, i, g) == Completed(ruleLabels(o, i), g)

\* The samples of ALERTS, in any order: of an objective, for a window, about a group.
Sample(o, i, g, state) ==
    [labels |-> AlertLabels(o, i, g), of |-> o, state |-> state,
     short |-> WindowOf(o, i).short, long |-> WindowOf(o, i).long]

Samples ==
    UNION {{Sample(o, i, g, state) : i \in 1..4, g \in Def[o].groups,
                                     state \in {"pending", "firing"}} : o \in Objectives}

\* An alert is either pending or firing.
Vectors ==
    UNION {{v \in [1..n -> Samples] :
              \A m, k \in 1..n : m # k => v[m] # [v[k] EXCEPT !.state = v[m].state]}
           : n \in 0..MaxActive}

Init ==
    /\ phase = "idle" /\ req = None /\ vector = <<>> /\ entries = <<>> /\ todo = {}
    /\ obj = None /\ windowsMap = <<>>
    /\ spawned = {} /\ writing = {} /\ finished = {} /\ failed = {}

-----------------------------------------------------------------------------
(* Matching.                                                                 *)

\* ALERTS{slo=~".+"} with the matchers of the grouping selects s.
Selected(r, s) == Includes(s.labels, r.grouping)

AlertName(l) == IF l = "__name__" THEN "slo" ELSE l

\* Mutant: the name of the objective is looked up under its own label.
MatchesByOwnLabels(s, o) ==
    /\ \A l \in DOMAIN Labels(o) : l \in DOMAIN s.labels => s.labels[l] = Labels(o)[l]
    /\ HasWindows(Def[o].window, s.short, s.long) # {}

Matches(s, o) ==
    /\ \A l \in DOMAIN Labels(o) :
         AlertName(l) \in DOMAIN s.labels => s.labels[AlertName(l)] = Labels(o)[l]
    /\ HasWindows(Def[o].window, s.short, s.long) # {}

\* The labels of the objective, overridden and completed by those of the sample.
LabelSet(s, o) ==
    Completed([l \in DOMAIN s.labels \ {"slo"} |-> s.labels[l]], Labels(o))

\* Values of Current: -1, the 0 of a window that is not in the map, and the result of the
\* query for an objective and window.
Unknown == <<>>
Zero == <<0>>
Result(o, w) == <<o, w>>

Entry(labels, w, state) ==
    [labels |-> labels, severity |-> w.severity, for |-> w.for, factor |-> w.factor,
     short |-> w.short, long |-> w.long, state |-> state,
     shortCurrent |-> Unknown, longCurrent |-> Unknown]

\* The window that HasWindows finds.
FoundWindow(s, o) ==
    LET found == HasWindows(Def[o].window, s.short, s.long)
    IN  WindowOf(o, CHOOSE i \in found : \A j \in found : i <= j)

\* Without inactive alerts: an entry for each sample and objective that match.
ActiveEntries(r, v) ==
    [k \in {k \in (DOMAIN v) \X r.objectives : Matches(v[k[1]], k[2])} |->
        Entry(LabelSet(v[k[1]], k[2]), FoundWindow(v[k[1]], k[2]), v[k[1]].state)]

\* Mutant: an entry is updated by its labels and its short window.
UpdatesByShort(s, o, e) ==
    /\ Matches(s, o)
    /\ Includes(LabelSet(s, o), e.labels)
    /\ e.short = s.short

\* With inactive alerts: sample s, matched with o, sets the state of entry e.
Updates(s, o, e) ==
    /\ Matches(s, o)
    /\ Includes(LabelSet(s, o), e.labels)
    /\ e.short = s.short /\ e.long = s.long

\* The positions of the samples that update entry e.
Hits(r, v, e) == {n \in DOMAIN v : \E o \in r.objectives : Updates(v[n], o, e)}

Last(S) == CHOOSE n \in S : \A m \in S : m <= n

Updated(r, v, e) ==
    IF Hits(r, v, e) = {} THEN e ELSE [e EXCEPT !.state = v[Last(Hits(r, v, e))].state]

\* An entry for each objective and window; of the samples that update it, taken in the
\* order of the vector, the last one stays.
AllEntries(r, v) ==
    [k \in r.objectives \X (1..4) |->
        Updated(r, v, Entry(Labels(k[1]), WindowOf(k[1], k[2]), "inactive"))]

\* List, the query of ALERTS and alertsMatchingObjectives.
Begin(r) ==
    /\ phase = "idle"
    /\ req' = r
    /\ vector' \in {v \in Vectors : \A n \in DOMAIN v : Selected(r, v[n])}
    /\ entries' = IF r.inactive THEN AllEntries(r, vector') ELSE ActiveEntries(r, vector')
    /\ todo' = IF r.current THEN r.objectives ELSE {}
    /\ failed' = {}
    /\ phase' = "next"
    /\ UNCHANGED <<obj, windowsMap, spawned, writing, finished>>

-----------------------------------------------------------------------------
(* The current burn rates.                                                   *)

\* The next objective of the request, in the order of the backend's answer.
NextObjective(o) ==
    /\ phase = "next" /\ o \in todo
    /\ todo' = todo \ {o}
    /\ obj' = o
    /\ windowsMap' = [w \in burnratesFromWindows(Def[o].window) |-> Unknown]
    /\ spawned' = {} /\ writing' = {} /\ finished' = {}
    /\ vector' = <<>>  \* no longer used
    /\ phase' = "range"
    /\ UNCHANGED <<req, entries, failed>>

\* The loop over windowsMap starts a goroutine, or ends.
Spawn(w) ==
    /\ phase = "range" /\ w \in DOMAIN windowsMap \ spawned
    /\ spawned' = spawned \cup {w}
    /\ UNCHANGED <<phase, matchVars, todo, obj, windowsMap, writing, finished, failed>>

EndRange ==
    /\ phase = "range" /\ spawned = DOMAIN windowsMap
    /\ phase' = "wait"
    /\ UNCHANGED <<matchVars, todo, queryVars>>

\* The loop does not hold mtx. Advancing it while a goroutine writes to the map may end
\* the process, with the request; it is started again.
RangeRaces ==
    /\ phase = "range" /\ writing # {}
    /\ phase' = "idle" /\ req' = None /\ vector' = <<>> /\ entries' = <<>> /\ todo' = {}
    /\ obj' = None /\ windowsMap' = <<>>
    /\ spawned' = {} /\ writing' = {} /\ finished' = {} /\ failed' = {}

\* A query fails, or returns nothing, several series or NaN.
QueryFails(w) ==
    /\ w \in spawned \ (finished \cup writing)
    /\ finished' = finished \cup {w}
    /\ failed' = failed \cup {Result(obj, w)}
    /\ UNCHANGED <<phase, matchVars, todo, obj, windowsMap, spawned, writing>>

\* Mutant: the results are written without mtx.
BeginWriteUnlocked(w) ==
    /\ w \in spawned \ (finished \cup writing)
    /\ writing' = writing \cup {w}
    /\ UNCHANGED <<phase, matchVars, todo, obj, windowsMap, spawned, finished, failed>>

BeginWrite(w) ==
    /\ w \in spawned \ finished /\ writing = {}
    /\ writing' = {w}
    /\ UNCHANGED <<phase, matchVars, todo, obj, windowsMap, spawned, finished, failed>>

EndWrite(w) ==
    /\ w \in writing
    /\ windowsMap' = [windowsMap EXCEPT ![w] = Result(obj, w)]
    /\ writing' = writing \ {w}
    /\ finished' = finished \cup {w}
    /\ UNCHANGED <<phase, matchVars, todo, obj, spawned, failed>>

CurrentOf(w) == IF w \in DOMAIN windowsMap THEN windowsMap[w] ELSE Zero

\* The entries whose labels all are labels of the objective get its burn rates.
SetCurrent ==
    [k \in DOMAIN entries |->
        LET e == entries[k]
        IN  IF Includes(Labels(obj), e.labels)
              THEN [e EXCEPT !.shortCurrent = CurrentOf(e.short), !.longCurrent = CurrentOf(e.long)]
              ELSE e]

\* Mutant: wg.Wait() is left out.
WaitNot ==
    /\ phase = "wait"
    /\ entries' = SetCurrent
    /\ phase' = "next"
    /\ UNCHANGED <<req, vector, todo, queryVars>>

Wait ==
    /\ phase = "wait" /\ finished = DOMAIN windowsMap
    /\ entries' = SetCurrent
    /\ phase' = "next"
    /\ UNCHANGED <<req, vector, todo, queryVars>>

Respond ==
    /\ phase = "next" /\ todo = {}
    /\ phase' = "done"
    /\ UNCHANGED <<matchVars, todo, queryVars>>

Leave ==
    /\ phase = "done"
    /\ phase' = "idle" /\ req' = None /\ vector' = <<>> /\ entries' = <<>>
    /\ obj' = None /\ windowsMap' = <<>>
    /\ spawned' = {} /\ writing' = {} /\ finished' = {} /\ failed' = {}
    /\ UNCHANGED <<todo>>

Next ==
    \/ \E r \in Requests : Begin(r)
    \/ \E o \in todo : NextObjective(o)
    \/ \E w \in DOMAIN windowsMap :
         Spawn(w) \/ QueryFails(w) \/ BeginWrite(w) \/ EndWrite(w)
    \/ EndRange \/ RangeRaces \/ Wait \/ Respond \/ Leave

Spec == Init /\ [][Next]_vars

-----------------------------------------------------------------------------
(* Properties.                                                               *)

\* The type invariant; at most one goroutine writes.
TypeOK ==
    /\ phase \in {"idle", "next", "range", "wait", "done"}
    /\ (phase = "idle") <=> (req = None)
    /\ req \in Requests \cup {None}
    /\ \A n \in DOMAIN vector : vector[n] \in Samples
    /\ todo \subseteq Objectives
    /\ phase \in {"range", "wait"} => obj \in Objectives
    /\ \A w \in DOMAIN windowsMap : windowsMap[w] \in {Unknown, Result(obj, w)}
    /\ writing \subseteq spawned /\ finished \subseteq spawned
    /\ spawned \subseteq DOMAIN windowsMap
    /\ Cardinality(writing) <= 1

\* A label of the objective is also one of its alerts', with another value.
Clash(o) ==
    \E l \in DOMAIN Labels(o) : \E g \in Def[o].groups : \E i \in 1..4 :
        LET ls == AlertLabels(o, i, g)
        IN  AlertName(l) \in DOMAIN ls /\ ls[AlertName(l)] # Labels(o)[l]

\* Another objective has the same name; in the request, one with all the labels of o.
Namesake(o) == \E p \in Objectives \ {o} : Name(p) = Name(o)
Extended(o) == \E p \in req.objectives \ {o} : Includes(Labels(p), Labels(o))

\* A request for the active alerts gets every alert of its objectives, with the group it is
\* about, and none under an objective of another name: alerts carry only some of the labels
\* of their objective, and others that are not.
AlertsShown ==
    phase = "next" /\ obj = None /\ ~req.inactive =>
        /\ \A k \in DOMAIN entries : Name(k[2]) = Name(vector[k[1]].of)
        /\ \A n \in DOMAIN vector :
             LET s == vector[n]
                 e == entries[<<n, s.of>>]
             IN  s.of \in req.objectives /\ ~Clash(s.of) =>
                    /\ <<n, s.of>> \in DOMAIN entries
                    /\ e.state = s.state /\ e.short = s.short /\ e.long = s.long
                    /\ Includes(e.labels, req.grouping)

\* The alerts of an objective for its window i; state is that of one, if there are any.
AlertsOf(v, o, i) ==
    {n \in DOMAIN v : /\ v[n].of = o
                      /\ v[n].short = WindowOf(o, i).short /\ v[n].long = WindowOf(o, i).long}

StateOfOne(v, o, i, state) ==
    /\ AlertsOf(v, o, i) = {} => state = "inactive"
    /\ AlertsOf(v, o, i) # {} => \E n \in AlertsOf(v, o, i) : state = v[n].state

\* A request for all alerts gets an entry for every window of every objective, whose
\* state is that of one of its alerts if there are any.
InactiveComplete ==
    phase = "next" /\ obj = None /\ req.inactive =>
        \A o \in req.objectives : \A i \in 1..4 :
            Clash(o) \/ Namesake(o) \/ StateOfOne(vector, o, i, entries[<<o, i>>].state)

\* The current burn rate of objective o over window w.
Right(o, w) == IF Result(o, w) \in failed THEN Unknown ELSE Result(o, w)

\* The current burn rates of an entry are the results of the queries for its objective
\* and windows, -1 only where there were none: the answer waits for all goroutines, and no
\* result is put under another window or objective.
CurrentComplete ==
    phase = "done" /\ req.inactive /\ req.current =>
        \A o \in req.objectives : \A i \in 1..4 :
            LET e == entries[<<o, i>>]
            IN  \/ Extended(o)
                \/ e.shortCurrent = Right(o, e.short) /\ e.longCurrent = Right(o, e.long)

=============================================================================
