--------------------------- MODULE BurnrateWindows ---------------------------
(***************************************************************************)
(* The windows of the multi burn rate alerts of an objective: Windows of     *)
(* src/slo/rules.go and what src/slo/slo.go derives from it. Durations are    *)
(* in minutes, and an objective's window W is taken to be whole minutes.     *)
(***************************************************************************)
EXTENDS Integers

\* W / d, rounded to a minute, half of one up. The truncation of W / d to nanoseconds
\* cannot change that.
Minutes(W, d) == (2 * W + d) \div (2 * d)

Window(severity, for, long, short, factor) ==
    [severity |-> severity, for |-> for, long |-> long, short |-> short, factor |-> factor]

Windows(W) ==
    << Window("critical", Minutes(W, 28*24*30), Minutes(W, 28*24), Minutes(W, 28*24*12), 14),
       Window("critical", Minutes(W, 28*24*4),  Minutes(W, 28*4),  Minutes(W, 28*24*2),  7),
       Window("warning",  Minutes(W, 28*24),    Minutes(W, 28),    Minutes(W, 28*12),    2),
       Window("warning",  Minutes(W, 28*8),     Minutes(W, 7),     Minutes(W, 28*4),     1) >>

\* The burn rates that are recorded, and that GetAlerts asks for.
burnratesFromWindows(W) ==
    {Windows(W)[i].short : i \in 1..4} \cup {Windows(W)[i].long : i \in 1..4}

\* The windows with this short and long burn rate; HasWindows returns the first one.
HasWindows(W, short, long) ==
    {i \in 1..4 : Windows(W)[i].short = short /\ Windows(W)[i].long = long}

\* The time in which a burn rate of this factor exhausts the budget, in seconds.
Exhausts(W, factor) == (60 * W) \div factor

\* How long metrics are absent before that is an alert; a target of 1 - e / 10000.
AbsentDuration(W, e) ==
    LET w == Windows(W)[1]
        seconds == (w.factor * e * 60 * w.long) \div 10000 + 60 * w.for
    IN  (seconds + 30) \div 60

=============================================================================
