---------------------------- MODULE Alerts_proofs ----------------------------
(***************************************************************************)
(* Proofs about GetAlerts, for any objectives and requests and any number of *)
(* active alerts, and about the windows it finds alerts by.                  *)
(***************************************************************************)
EXTENDS Alerts, FiniteSetTheorems, WellFoundedInduction, TLAPS

-----------------------------------------------------------------------------
(* What Windows promises, for every window of an objective, to those that     *)
(* build rules from it and find alerts by it.                                *)

\* The shortest window whose shortest burn rate is not rounded to nothing: 2.8 days.
Shortest == 14 * 24 * 12

\* Rounding is to the nearest minute.
LEMMA MinutesNearest ==
    ASSUME NEW W \in Nat, NEW d \in Nat \ {0}
    PROVE  /\ Minutes(W, d) \in Nat
           /\ 2 * d * Minutes(W, d) <= 2 * W + d
           /\ 2 * W + d < 2 * d * (Minutes(W, d) + 1)
BY DEF Minutes

\* The shorter of two burn rates is rounded to fewer minutes, from the shortest window on.
LEMMA MinutesApart ==
    ASSUME NEW W \in Nat, W >= Shortest
    PROVE  /\ 0 < Minutes(W, 28*24*12)
           /\ Minutes(W, 28*24*12) < Minutes(W, 28*24*2)
           /\ Minutes(W, 28*24*2) < Minutes(W, 28*12)
           /\ Minutes(W, 28*12) < Minutes(W, 28*4)
<1>1. /\ 2 * 8064 * Minutes(W, 8064) <= 2 * W + 8064
      /\ 2 * W + 8064 < 2 * 8064 * (Minutes(W, 8064) + 1)
      /\ Minutes(W, 8064) \in Nat
  BY MinutesNearest
<1>2. /\ 2 * 1344 * Minutes(W, 1344) <= 2 * W + 1344
      /\ 2 * W + 1344 < 2 * 1344 * (Minutes(W, 1344) + 1)
      /\ Minutes(W, 1344) \in Nat
  BY MinutesNearest
<1>3. /\ 2 * 336 * Minutes(W, 336) <= 2 * W + 336
      /\ 2 * W + 336 < 2 * 336 * (Minutes(W, 336) + 1)
      /\ Minutes(W, 336) \in Nat
  BY MinutesNearest
<1>4. /\ 2 * W + 112 < 2 * 112 * (Minutes(W, 112) + 1)
      /\ Minutes(W, 112) \in Nat
  BY MinutesNearest
<1>5. W >= 4032  BY DEF Shortest
<1>6. 0 < Minutes(W, 8064)  BY <1>1, <1>5
<1>7. Minutes(W, 8064) < Minutes(W, 1344)  BY <1>1, <1>2, <1>5
<1>8. Minutes(W, 1344) < Minutes(W, 336)  BY <1>2, <1>3, <1>5
<1>9. Minutes(W, 336) < Minutes(W, 112)  BY <1>3, <1>4, <1>5
<1> QED
  BY <1>6, <1>7, <1>8, <1>9

\* The long burn rates are those over the hours and days that the short ones are minutes
\* and hours of.
LEMMA LongerThanShort ==
    ASSUME NEW W \in Nat, W >= Shortest
    PROVE  /\ Minutes(W, 28*24*12) < Minutes(W, 28*24)
           /\ Minutes(W, 28*24*2) < Minutes(W, 28*4)
           /\ Minutes(W, 28*12) < Minutes(W, 28)
           /\ Minutes(W, 28*4) < Minutes(W, 7)
<1>1. /\ 2 * 8064 * Minutes(W, 8064) <= 2 * W + 8064
      /\ 2 * W + 672 < 2 * 672 * (Minutes(W, 672) + 1)
      /\ Minutes(W, 8064) \in Nat /\ Minutes(W, 672) \in Nat
  BY MinutesNearest
<1>2. /\ 2 * 1344 * Minutes(W, 1344) <= 2 * W + 1344
      /\ 2 * W + 112 < 2 * 112 * (Minutes(W, 112) + 1)
      /\ Minutes(W, 1344) \in Nat /\ Minutes(W, 112) \in Nat
  BY MinutesNearest
<1>3. /\ 2 * 336 * Minutes(W, 336) <= 2 * W + 336
      /\ 2 * W + 28 < 2 * 28 * (Minutes(W, 28) + 1)
      /\ Minutes(W, 336) \in Nat /\ Minutes(W, 28) \in Nat
  BY MinutesNearest
<1>4. /\ 2 * 112 * Minutes(W, 112) <= 2 * W + 112
      /\ 2 * W + 7 < 2 * 7 * (Minutes(W, 7) + 1)
      /\ Minutes(W, 112) \in Nat /\ Minutes(W, 7) \in Nat
  BY MinutesNearest
<1>5. W >= 4032  BY DEF Shortest
<1>6. Minutes(W, 8064) < Minutes(W, 672)  BY <1>1, <1>5
<1>7. Minutes(W, 1344) < Minutes(W, 112)  BY <1>2, <1>5
<1>8. Minutes(W, 336) < Minutes(W, 28)  BY <1>3, <1>5
<1>9. Minutes(W, 112) < Minutes(W, 7)  BY <1>4, <1>5
<1> QED
  BY <1>6, <1>7, <1>8, <1>9

\* From 2.8 days on, every burn rate that is recorded has a range that PromQL allows (not
\* 0s), and that of every alert's short window is shorter than that of its long one.
THEOREM WindowsPositive ==
    ASSUME NEW W \in Nat, W >= Shortest, NEW i \in 1..4
    PROVE  0 < Windows(W)[i].short /\ Windows(W)[i].short < Windows(W)[i].long
<1>1. i = 1 \/ i = 2 \/ i = 3 \/ i = 4
  OBVIOUS
<1>2. /\ Minutes(W, 28*24*12) \in Nat /\ Minutes(W, 28*24*2) \in Nat
      /\ Minutes(W, 28*12) \in Nat /\ Minutes(W, 28*4) \in Nat
  BY MinutesNearest
<1> QED
  BY <1>1, <1>2, MinutesApart, LongerThanShort DEF Windows, Window

\* From 2.8 days on, the short and long window of an alert, by which GetAlerts finds out
\* what an alert is about, belong to one of the four windows only: HasWindows, which
\* returns the first that it finds, never confuses two of them.
THEOREM WindowsDistinct ==
    ASSUME NEW W \in Nat, W >= Shortest, NEW i \in 1..4
    PROVE  HasWindows(W, Windows(W)[i].short, Windows(W)[i].long) = {i}
<1>1. /\ Minutes(W, 28*24*12) \in Nat /\ Minutes(W, 28*24*2) \in Nat
      /\ Minutes(W, 28*12) \in Nat /\ Minutes(W, 28*4) \in Nat
  BY MinutesNearest
<1>2. ASSUME NEW j \in 1..4, Windows(W)[j].short = Windows(W)[i].short
      PROVE  j = i
  <2>1. i = 1 \/ i = 2 \/ i = 3 \/ i = 4
    OBVIOUS
  <2>2. j = 1 \/ j = 2 \/ j = 3 \/ j = 4
    OBVIOUS
  <2> QED
    BY <1>1, <1>2, <2>1, <2>2, MinutesApart DEF Windows, Window
<1> QED
  BY <1>2 DEF HasWindows

-----------------------------------------------------------------------------
(* Samples and their labels.                                                 *)

\* A set of positions of a vector has a last one.
LEMMA LastOne ==
    ASSUME NEW n \in Nat, NEW S \in SUBSET (1..n), S # {}
    PROVE  \E m \in S : \A k \in S : k <= m
<1> DEFINE T == {t \in Nat : n - t \in S}
<1>1. \A k \in S : k \in 1..n /\ n - k \in Nat /\ n - (n - k) = k
  OBVIOUS
<1>2. T \subseteq Nat /\ T # {}
  BY <1>1
<1>3. PICK j \in T : \A i \in T : ~ (<<i, j>> \in OpToRel(<, Nat))
  BY <1>2, NatLessThanWellFounded, WFMin
<1>4. ASSUME NEW i \in T
      PROVE  j <= i
  <2>1. ~ (i < j)
    BY <1>2, <1>3 DEF OpToRel
  <2> QED
    BY <1>2, <2>1
<1>5. n - j \in S /\ j \in Nat
  OBVIOUS
<1>6. ASSUME NEW k \in S
      PROVE  k <= n - j
  <2>1. n - k \in T
    BY <1>1
  <2>2. j <= n - k
    BY <1>4, <2>1
  <2> QED
    BY <1>1, <1>5, <2>2
<1> QED
  BY <1>5, <1>6

LEMMA CompletedDomain ==
    ASSUME NEW f, NEW g
    PROVE  DOMAIN Completed(f, g) = DOMAIN f \cup DOMAIN g
  BY DEF Completed

LEMMA CompletedKept ==
    ASSUME NEW f, NEW g, NEW x \in DOMAIN f
    PROVE  Completed(f, g)[x] = f[x]
  BY DEF Completed

LEMMA CompletedFrom ==
    ASSUME NEW f, NEW g, NEW x \in DOMAIN g, x \notin DOMAIN f
    PROVE  Completed(f, g)[x] = g[x]
  BY DEF Completed

\* An alert carries the name of its objective, and no metric name.
LEMMA SampleIs ==
    ASSUME AlertsAssumption, NEW s \in Samples
    PROVE  \E o \in Objectives, i \in 1..4 : \E g \in Def[o].groups :
             /\ s.of = o /\ s.labels = AlertLabels(o, i, g)
             /\ s.short = WindowOf(o, i).short /\ s.long = WindowOf(o, i).long
             /\ "slo" \in DOMAIN s.labels /\ s.labels["slo"] = Name(o)
             /\ "__name__" \notin DOMAIN s.labels
<1>1. PICK o \in Objectives :
        s \in {Sample(o, i, g, state) : i \in 1..4, g \in Def[o].groups,
                                       state \in {"pending", "firing"}}
  BY DEF Samples
<1>2. PICK i \in 1..4, g \in Def[o].groups, state \in {"pending", "firing"} :
        s = Sample(o, i, g, state)
  BY <1>1
<1> DEFINE a == [l \in {"exhaustion"} |-> Exhausts(Def[o].window, WindowOf(o, i).factor)]
           b == [l \in {"slo"} |-> Name(o)]
           c == [l \in Def[o].propagated |-> Labels(o)[l]]
<1>3. /\ DOMAIN a = {"exhaustion"} /\ DOMAIN b = {"slo"} /\ DOMAIN c = Def[o].propagated
      /\ b["slo"] = Name(o)
  OBVIOUS
<1>4. /\ DOMAIN Def[o].equals \cap {"__name__", "slo"} = {}
      /\ "__name__" \notin Def[o].propagated /\ "__name__" \notin DOMAIN g
  BY DEF AlertsAssumption
<1>5. /\ commonRuleLabels(o) = Completed(b, c)
      /\ ruleLabels(o, i) = Completed(a, Completed(Def[o].equals, commonRuleLabels(o)))
  BY DEF commonRuleLabels, ruleLabels
<1> HIDE DEF a, b, c
<1>6. /\ DOMAIN commonRuleLabels(o) = {"slo"} \cup Def[o].propagated
      /\ commonRuleLabels(o)["slo"] = Name(o)
  <2>1. DOMAIN Completed(b, c) = DOMAIN b \cup DOMAIN c
    BY CompletedDomain
  <2>2. Completed(b, c)["slo"] = b["slo"]
    BY <1>3, CompletedKept
  <2> QED
    BY <1>3, <1>5, <2>1, <2>2
<1> DEFINE d == Completed(Def[o].equals, commonRuleLabels(o))
<1>7. DOMAIN d = DOMAIN Def[o].equals \cup DOMAIN commonRuleLabels(o) /\ d["slo"] = Name(o)
  <2>1. DOMAIN d = DOMAIN Def[o].equals \cup DOMAIN commonRuleLabels(o)
    BY CompletedDomain
  <2>2. d["slo"] = commonRuleLabels(o)["slo"]
    BY <1>4, <1>6, CompletedFrom
  <2> QED
    BY <1>6, <2>1, <2>2
<1> HIDE DEF d
<1>8. DOMAIN ruleLabels(o, i) = {"exhaustion"} \cup DOMAIN d /\ ruleLabels(o, i)["slo"] = Name(o)
  <2>1. ruleLabels(o, i) = Completed(a, d)
    BY <1>5 DEF d
  <2>2. DOMAIN Completed(a, d) = {"exhaustion"} \cup DOMAIN d
    <3>1. DOMAIN Completed(a, d) = DOMAIN a \cup DOMAIN d
      BY CompletedDomain
    <3> QED
      BY <1>3, <3>1
  <2>3. "slo" \in DOMAIN d /\ "slo" \notin DOMAIN a
    BY <1>3, <1>6, <1>7
  <2>4. Completed(a, d)["slo"] = d["slo"]
    BY <2>3, CompletedFrom
  <2> QED
    BY <1>7, <2>1, <2>2, <2>4
<1>9. /\ DOMAIN AlertLabels(o, i, g) = DOMAIN ruleLabels(o, i) \cup DOMAIN g
      /\ AlertLabels(o, i, g)["slo"] = Name(o)
  <2>1. DOMAIN AlertLabels(o, i, g) = DOMAIN ruleLabels(o, i) \cup DOMAIN g
    BY CompletedDomain DEF AlertLabels
  <2>2. "slo" \in DOMAIN ruleLabels(o, i)
    BY <1>6, <1>7, <1>8
  <2>3. AlertLabels(o, i, g)["slo"] = ruleLabels(o, i)["slo"]
    BY <2>2, CompletedKept DEF AlertLabels
  <2> QED
    BY <1>8, <2>1, <2>3
<1>10. "slo" \in DOMAIN AlertLabels(o, i, g) /\ "__name__" \notin DOMAIN AlertLabels(o, i, g)
  BY <1>4, <1>6, <1>7, <1>8, <1>9
<1>11. /\ s.of = o /\ s.labels = AlertLabels(o, i, g)
       /\ s.short = WindowOf(o, i).short /\ s.long = WindowOf(o, i).long
  BY <1>2 DEF Sample
<1> QED
  BY <1>9, <1>10, <1>11

-----------------------------------------------------------------------------
(* Matching.                                                                 *)

\* An alert is only matched with objectives of the name it carries.
LEMMA MatchesName ==
    ASSUME AlertsAssumption, NEW s \in Samples, NEW o \in Objectives, Matches(s, o)
    PROVE  s.of \in Objectives /\ Name(s.of) = Name(o)
<1>1. s.of \in Objectives /\ "slo" \in DOMAIN s.labels /\ s.labels["slo"] = Name(s.of)
  BY SampleIs
<1>2. "__name__" \in DOMAIN Labels(o)
  BY DEF AlertsAssumption, Labels
<1>3. AlertName("__name__") = "slo"
  BY DEF AlertName
<1>4. s.labels["slo"] = Labels(o)["__name__"]
  BY <1>1, <1>2, <1>3 DEF Matches
<1> QED
  BY <1>1, <1>4 DEF Name

\* An alert agrees with the labels of its own objective, unless they clash.
LEMMA AgreesWithOwn ==
    ASSUME AlertsAssumption, NEW s \in Samples, ~Clash(s.of)
    PROVE  \A l \in DOMAIN Labels(s.of) :
             AlertName(l) \in DOMAIN s.labels => s.labels[AlertName(l)] = Labels(s.of)[l]
<1>1. PICK i \in 1..4, g \in Def[s.of].groups : s.labels = AlertLabels(s.of, i, g)
  BY SampleIs
<1> QED
  BY <1>1 DEF Clash

\* The window that is found for an alert of an objective is its own.
LEMMA WindowFound ==
    ASSUME NEW s \in Samples, NEW o \in Objectives,
           HasWindows(Def[o].window, s.short, s.long) # {}
    PROVE  FoundWindow(s, o).short = s.short /\ FoundWindow(s, o).long = s.long
<1> DEFINE found == HasWindows(Def[o].window, s.short, s.long)
           first == CHOOSE i \in found : \A j \in found : i <= j
<1>1. found \subseteq {1, 2, 3, 4}
  <2>1. 1..4 = {1, 2, 3, 4}
    OBVIOUS
  <2> QED
    BY <2>1 DEF HasWindows
<1>2. \E i \in found : \A j \in found : i <= j
  <2> HIDE DEF found
  <2>1. CASE 1 \in found  BY <1>1, <2>1
  <2>2. CASE 1 \notin found /\ 2 \in found  BY <1>1, <2>2
  <2>3. CASE 1 \notin found /\ 2 \notin found /\ 3 \in found  BY <1>1, <2>3
  <2>4. CASE 1 \notin found /\ 2 \notin found /\ 3 \notin found  BY <1>1, <2>4 DEF found
  <2> QED
    BY <2>1, <2>2, <2>3, <2>4
<1>3. first \in found
  BY <1>2
<1>4. Windows(Def[o].window)[first].short = s.short /\ Windows(Def[o].window)[first].long = s.long
  BY <1>3 DEF HasWindows
<1>5. FoundWindow(s, o) = Windows(Def[o].window)[first]
  BY DEF FoundWindow, WindowOf
<1> QED
  BY <1>4, <1>5

LEMMA MatchesOwn ==
    ASSUME AlertsAssumption, NEW s \in Samples, ~Clash(s.of)
    PROVE  Matches(s, s.of)
<1>1. PICK i \in 1..4 : s.short = WindowOf(s.of, i).short /\ s.long = WindowOf(s.of, i).long
  BY SampleIs
<1>2. i \in HasWindows(Def[s.of].window, s.short, s.long)
  BY <1>1 DEF HasWindows, WindowOf
<1> QED
  BY <1>2, AgreesWithOwn DEF Matches

LEMMA LabelSetIs ==
    ASSUME NEW s, NEW o
    PROVE  /\ \A l \in DOMAIN s.labels \ {"slo"} :
                l \in DOMAIN LabelSet(s, o) /\ LabelSet(s, o)[l] = s.labels[l]
           /\ \A l \in DOMAIN Labels(o) : l \in DOMAIN LabelSet(s, o)
           /\ \A l \in DOMAIN Labels(o) \ (DOMAIN s.labels \ {"slo"}) :
                LabelSet(s, o)[l] = Labels(o)[l]
<1> DEFINE f == [l \in DOMAIN s.labels \ {"slo"} |-> s.labels[l]]
<1>1. LabelSet(s, o) = Completed(f, Labels(o))
  BY DEF LabelSet
<1>2. DOMAIN f = DOMAIN s.labels \ {"slo"} /\ \A l \in DOMAIN f : f[l] = s.labels[l]
  OBVIOUS
<1> HIDE DEF f
<1>3. DOMAIN LabelSet(s, o) = DOMAIN f \cup DOMAIN Labels(o)
  BY <1>1, CompletedDomain
<1>4. \A l \in DOMAIN f : LabelSet(s, o)[l] = f[l]
  BY <1>1, CompletedKept
<1>5. \A l \in DOMAIN Labels(o) : l \notin DOMAIN f => LabelSet(s, o)[l] = Labels(o)[l]
  BY <1>1, CompletedFrom
<1> QED
  BY <1>2, <1>3, <1>4, <1>5

-----------------------------------------------------------------------------
(* The entries of an answer.                                                 *)

LEMMA ActiveEntry ==
    ASSUME NEW r, NEW v, NEW k \in DOMAIN ActiveEntries(r, v)
    PROVE  /\ k \in (DOMAIN v) \X r.objectives /\ Matches(v[k[1]], k[2])
           /\ ActiveEntries(r, v)[k] =
                Entry(LabelSet(v[k[1]], k[2]), FoundWindow(v[k[1]], k[2]), v[k[1]].state)
  BY DEF ActiveEntries

LEMMA ActiveDomain ==
    ASSUME NEW r, NEW v, NEW n \in DOMAIN v, NEW o \in r.objectives, Matches(v[n], o)
    PROVE  <<n, o>> \in DOMAIN ActiveEntries(r, v)
  BY DEF ActiveEntries

Fields == {"labels", "severity", "for", "factor", "short", "long", "state", "shortCurrent",
           "longCurrent"}

LEMMA EntryIs ==
    ASSUME NEW labels, NEW w, NEW state
    PROVE  /\ DOMAIN Entry(labels, w, state) = Fields
           /\ Entry(labels, w, state).labels = labels
           /\ Entry(labels, w, state).short = w.short /\ Entry(labels, w, state).long = w.long
           /\ Entry(labels, w, state).state = state
  BY DEF Entry, Fields

\* The answer to a request for active alerts.
LEMMA ActiveShown ==
    ASSUME AlertsAssumption, NEW r \in Requests, NEW v,
           \A n \in DOMAIN v : v[n] \in Samples /\ Selected(r, v[n]),
           NEW E, E = ActiveEntries(r, v)
    PROVE  /\ \A k \in DOMAIN E : Name(k[2]) = Name(v[k[1]].of)
           /\ \A n \in DOMAIN v :
                v[n].of \in r.objectives /\ ~Clash(v[n].of) =>
                  /\ <<n, v[n].of>> \in DOMAIN E
                  /\ E[<<n, v[n].of>>].state = v[n].state
                  /\ E[<<n, v[n].of>>].short = v[n].short
                  /\ E[<<n, v[n].of>>].long = v[n].long
                  /\ Includes(E[<<n, v[n].of>>].labels, r.grouping)
<1>1. r.objectives \subseteq Objectives /\ DOMAIN r.grouping \cap {"__name__", "slo"} = {}
  BY DEF AlertsAssumption
<1>2. ASSUME NEW k \in DOMAIN E
      PROVE  Name(k[2]) = Name(v[k[1]].of)
  <2>1. k[1] \in DOMAIN v /\ k[2] \in r.objectives /\ Matches(v[k[1]], k[2])
    BY ActiveEntry
  <2> QED
    BY <1>1, <2>1, MatchesName
<1>3. ASSUME NEW n \in DOMAIN v, v[n].of \in r.objectives, ~Clash(v[n].of)
      PROVE  /\ <<n, v[n].of>> \in DOMAIN E
             /\ E[<<n, v[n].of>>] = Entry(LabelSet(v[n], v[n].of), FoundWindow(v[n], v[n].of), v[n].state)
             /\ FoundWindow(v[n], v[n].of).short = v[n].short
             /\ FoundWindow(v[n], v[n].of).long = v[n].long
  <2>1. Matches(v[n], v[n].of)
    BY <1>3, MatchesOwn
  <2>2. <<n, v[n].of>> \in DOMAIN E
    BY <1>3, <2>1, ActiveDomain
  <2>3. E[<<n, v[n].of>>] = Entry(LabelSet(v[n], v[n].of), FoundWindow(v[n], v[n].of), v[n].state)
    BY <2>2, ActiveEntry
  <2>4. HasWindows(Def[v[n].of].window, v[n].short, v[n].long) # {}
    BY <2>1 DEF Matches
  <2> QED
    BY <1>1, <1>3, <2>2, <2>3, <2>4, WindowFound
<1>4. ASSUME NEW n \in DOMAIN v, NEW l \in DOMAIN r.grouping
      PROVE  /\ l \in DOMAIN LabelSet(v[n], v[n].of)
             /\ LabelSet(v[n], v[n].of)[l] = r.grouping[l]
  <2>1. l \in DOMAIN v[n].labels \ {"slo"} /\ v[n].labels[l] = r.grouping[l]
    BY <1>1 DEF Selected, Includes
  <2> QED
    BY <2>1, LabelSetIs
<1>5. ASSUME NEW n \in DOMAIN v, v[n].of \in r.objectives, ~Clash(v[n].of)
      PROVE  /\ E[<<n, v[n].of>>].state = v[n].state
             /\ E[<<n, v[n].of>>].short = v[n].short
             /\ E[<<n, v[n].of>>].long = v[n].long
             /\ E[<<n, v[n].of>>].labels = LabelSet(v[n], v[n].of)
  BY <1>3, <1>5, EntryIs
<1> QED
  BY <1>2, <1>3, <1>4, <1>5 DEF Includes

\* There is an entry for each objective and window, with their labels and burn rates.
RowsOf(r, all) ==
    /\ DOMAIN all = r.objectives \X (1..4)
    /\ \A o \in r.objectives : \A i \in 1..4 :
         /\ DOMAIN all[<<o, i>>] = Fields
         /\ all[<<o, i>>].labels = Labels(o)
         /\ all[<<o, i>>].short = WindowOf(o, i).short
         /\ all[<<o, i>>].long = WindowOf(o, i).long

LEMMA AllEntry ==
    ASSUME NEW r, NEW v
    PROVE  RowsOf(r, AllEntries(r, v))
<1> DEFINE all == AllEntries(r, v)
<1> SUFFICES ASSUME NEW o \in r.objectives, NEW i \in 1..4
             PROVE  /\ DOMAIN all[<<o, i>>] = Fields
                    /\ all[<<o, i>>].labels = Labels(o)
                    /\ all[<<o, i>>].short = WindowOf(o, i).short
                    /\ all[<<o, i>>].long = WindowOf(o, i).long
  BY DEF AllEntries, RowsOf
<1> DEFINE e == Entry(Labels(o), WindowOf(o, i), "inactive")
<1>1. \A s : /\ DOMAIN [e EXCEPT !.state = s] = DOMAIN e
             /\ [e EXCEPT !.state = s].labels = e.labels
             /\ [e EXCEPT !.state = s].short = e.short
             /\ [e EXCEPT !.state = s].long = e.long
  BY DEF Entry
<1>2. /\ DOMAIN e = Fields /\ e.labels = Labels(o)
      /\ e.short = WindowOf(o, i).short /\ e.long = WindowOf(o, i).long
  BY EntryIs
<1>0. e = Entry(Labels(o), WindowOf(o, i), "inactive")
  OBVIOUS
<1> HIDE DEF e
<1>3. all[<<o, i>>] = Updated(r, v, e)
  BY <1>0 DEF AllEntries
<1>4. /\ DOMAIN Updated(r, v, e) = DOMAIN e /\ Updated(r, v, e).labels = e.labels
      /\ Updated(r, v, e).short = e.short /\ Updated(r, v, e).long = e.long
  BY <1>1 DEF Updated
<1> QED
  BY <1>2, <1>3, <1>4

\* The state of an entry in the answer to a request for all alerts: of the alerts that
\* update it, which all are its objective's and at its window, the last one counts.
LEMMA AllShown ==
    ASSUME AlertsAssumption, NEW r \in Requests, NEW N \in Nat, NEW v,
           DOMAIN v \subseteq 1..N, \A n \in DOMAIN v : v[n] \in Samples,
           NEW o \in r.objectives, NEW i \in 1..4, ~Clash(o), ~Namesake(o)
    PROVE  StateOfOne(v, o, i, AllEntries(r, v)[<<o, i>>].state)
<1> DEFINE mine == AlertsOf(v, o, i)
           e == Entry(Labels(o), WindowOf(o, i), "inactive")
           hits == Hits(r, v, e)
<1>1. /\ o \in Objectives /\ r.objectives \subseteq Objectives
      /\ "__name__" \in DOMAIN Labels(o)
      /\ \A n \in DOMAIN v : v[n] \in Samples
  BY DEF AlertsAssumption, Labels
<1>2. /\ e.labels = Labels(o) /\ e.state = "inactive"
      /\ e.short = WindowOf(o, i).short /\ e.long = WindowOf(o, i).long
      /\ \A s : [e EXCEPT !.state = s].state = s
  <2>1. \A s : [e EXCEPT !.state = s].state = s
    BY DEF Entry
  <2> QED
    BY <2>1, EntryIs
<1>0. e = Entry(Labels(o), WindowOf(o, i), "inactive")
  OBVIOUS
<1> HIDE DEF e
<1>3. AllEntries(r, v)[<<o, i>>] = Updated(r, v, e)
  BY <1>0 DEF AllEntries
<1>4. ASSUME NEW n \in hits
      PROVE  n \in mine
  <2>1. PICK p \in r.objectives : n \in DOMAIN v /\ Updates(v[n], p, e)
    BY DEF Hits
  <2>2. /\ Matches(v[n], p) /\ e.short = v[n].short /\ e.long = v[n].long
        /\ LabelSet(v[n], p)["__name__"] = Labels(o)["__name__"]
    BY <1>1, <1>2, <2>1 DEF Updates, Includes
  <2>3. v[n].of \in Objectives /\ Name(v[n].of) = Name(p)
    BY <1>1, <2>1, <2>2, MatchesName
  <2>4. "__name__" \notin DOMAIN v[n].labels /\ "__name__" \in DOMAIN Labels(p)
    BY <1>1, <2>1, SampleIs DEF AlertsAssumption, Labels
  <2>5. LabelSet(v[n], p)["__name__"] = Labels(p)["__name__"]
    BY <2>4, LabelSetIs
  <2>6. Name(v[n].of) = Name(o)
    BY <2>2, <2>3, <2>5 DEF Name
  <2>7. v[n].of = o
    BY <2>3, <2>6 DEF Namesake
  <2> QED
    BY <1>2, <2>1, <2>2, <2>7 DEF AlertsOf
<1>5. ASSUME NEW n \in mine
      PROVE  n \in hits
  <2>1. /\ n \in DOMAIN v /\ v[n] \in Samples /\ v[n].of = o
        /\ v[n].short = e.short /\ v[n].long = e.long
    BY <1>1, <1>2 DEF AlertsOf
  <2>2. Matches(v[n], o)
    BY <2>1, MatchesOwn
  <2>3. ASSUME NEW l \in DOMAIN Labels(o)
        PROVE  l \in DOMAIN LabelSet(v[n], o) /\ LabelSet(v[n], o)[l] = Labels(o)[l]
    <3>1. CASE l \in DOMAIN v[n].labels \ {"slo"}
      <4>1. l # "__name__"
        BY <2>1, <3>1, SampleIs
      <4>2. AlertName(l) = l
        BY <4>1 DEF AlertName
      <4>3. v[n].labels[l] = Labels(o)[l]
        BY <2>1, <3>1, <4>2, AgreesWithOwn
      <4> QED
        BY <3>1, <4>3, LabelSetIs
    <3>2. CASE l \notin DOMAIN v[n].labels \ {"slo"}
      BY <3>2, LabelSetIs
    <3> QED
      BY <3>1, <3>2
  <2>4. Updates(v[n], o, e)
    BY <1>2, <2>1, <2>2, <2>3 DEF Updates, Includes
  <2> QED
    BY <2>1, <2>4 DEF Hits
<1>6. hits = mine /\ hits \in SUBSET (1..N)
  BY <1>4, <1>5 DEF AlertsOf
<1> HIDE DEF hits
<1>7. CASE hits = {}
  BY <1>2, <1>3, <1>6, <1>7 DEF Updated, hits, StateOfOne
<1>8. CASE hits # {}
  <2>1. \E n \in hits : \A m \in hits : m <= n
    BY <1>6, <1>8, LastOne
  <2>2. Last(hits) \in hits
    BY <2>1 DEF Last
  <2>3. AllEntries(r, v)[<<o, i>>].state = v[Last(hits)].state
    BY <1>2, <1>3, <1>8 DEF Updated, hits
  <2> QED
    BY <1>6, <1>8, <2>2, <2>3 DEF StateOfOne
<1> QED
  BY <1>7, <1>8 DEF StateOfOne

-----------------------------------------------------------------------------
(* The inductive invariant.                                                  *)

\* Goroutines only run while the loop or Wait is at their objective.
Shape ==
    /\ phase = "idle" => obj = None
    /\ phase = "done" => todo = {}
    /\ phase \notin {"range", "wait"} => spawned \subseteq finished
    /\ phase \in {"range", "wait"} =>
         /\ obj \notin todo
         /\ DOMAIN windowsMap = burnratesFromWindows(Def[obj].window)
         /\ \A w \in DOMAIN windowsMap \ finished : windowsMap[w] = Unknown
    /\ finished \cap writing = {}
    /\ writing = {} \/ \E w : writing = {w}

\* What GetAlerts leaves of the entries that alertsMatchingObjectives has made.
Rows == req # None /\ req.inactive => RowsOf(req, entries)

HasCurrent(o) ==
    \A i \in 1..4 :
        /\ entries[<<o, i>>].shortCurrent = Right(o, entries[<<o, i>>].short)
        /\ entries[<<o, i>>].longCurrent = Right(o, entries[<<o, i>>].long)

\* Nothing has failed of the objectives that are still to do, of the present one only
\* what is in the map, and the others have their burn rates.
Burnrates ==
    req # None /\ req.inactive /\ req.current =>
        /\ todo \subseteq req.objectives
        /\ \A o \in todo : \A w : Result(o, w) \notin failed
        /\ phase \in {"range", "wait"} =>
             /\ obj \in req.objectives
             /\ \A w : Result(obj, w) \in failed => w \in finished
             /\ \A w \in finished : windowsMap[w] = Right(obj, w)
        /\ \A o \in req.objectives \ todo :
             (phase \in {"range", "wait"} /\ o = obj) \/ Extended(o) \/ HasCurrent(o)

IInv == TypeOK /\ Shape /\ Rows /\ Burnrates /\ AlertsShown /\ InactiveComplete

LEMMA Nobody == None \notin Requests /\ None \notin Objectives
  BY AlertsAssumption DEF AlertsAssumption

LEMMA EmptyDomain == DOMAIN <<>> = {}
  OBVIOUS

LEMMA AtMostOne ==
    ASSUME NEW S, S = {} \/ \E w : S = {w}
    PROVE  Cardinality(S) <= 1
<1>1. CASE S = {}
  BY <1>1, FS_EmptySet
<1>2. CASE \E w : S = {w}
  <2>1. PICK w : S = {w}
    BY <1>2
  <2>2. Cardinality({w}) = 1
    BY FS_Singleton
  <2> QED
    BY <2>1, <2>2
<1> QED
  BY <1>1, <1>2

LEMMA InitInv == Init => IInv
<1> SUFFICES ASSUME Init
             PROVE  IInv
  OBVIOUS
<1>1. Cardinality(writing) <= 1
  BY AtMostOne DEF Init
<1>2. TypeOK
  BY <1>1, Nobody, EmptyDomain DEF Init, TypeOK
<1> QED
  BY <1>2 DEF Init, IInv, Shape, Rows, RowsOf, Burnrates, AlertsShown, InactiveComplete

\* The request is gone, or the next one not yet there.
LEMMA ResetInv ==
    ASSUME IInv, phase' = "idle", req' = None, vector' = <<>>, todo' \subseteq Objectives,
           obj' = None, windowsMap' = <<>>, spawned' = {}, writing' = {}, finished' = {}
    PROVE  IInv'
<1>1. Cardinality(writing') <= 1
  BY AtMostOne
<1>2. TypeOK'
  BY <1>1, Nobody, EmptyDomain DEF TypeOK
<1> QED
  BY <1>2 DEF IInv, Shape, Rows, RowsOf, Burnrates, AlertsShown, InactiveComplete

LEMMA SamplesReturned ==
    ASSUME NEW r \in Requests, Begin(r)
    PROVE  \E n \in Nat :
             /\ DOMAIN vector' \subseteq 1..n
             /\ \A k \in DOMAIN vector' : vector'[k] \in Samples /\ Selected(r, vector'[k])
<1>1. vector' \in Vectors /\ \A k \in DOMAIN vector' : Selected(r, vector'[k])
  BY DEF Begin
<1>2. PICK n \in 0..MaxActive : vector' \in [1..n -> Samples]
  BY <1>1 DEF Vectors
<1>3. n \in Nat
  BY AlertsAssumption DEF AlertsAssumption
<1>4. DOMAIN vector' = 1..n /\ \A k \in DOMAIN vector' : vector'[k] \in Samples
  BY <1>2
<1> QED
  BY <1>1, <1>3, <1>4

LEMMA BeginInv ==
    ASSUME IInv, NEW r \in Requests, Begin(r)
    PROVE  IInv'
<1>1. /\ phase = "idle" /\ obj = None /\ obj' = None /\ phase' = "next" /\ req' = r
      /\ windowsMap' = windowsMap /\ spawned' = spawned /\ writing' = writing
      /\ finished' = finished /\ failed' = {}
      /\ todo' = (IF r.current THEN r.objectives ELSE {})
      /\ entries' = (IF r.inactive THEN AllEntries(r, vector') ELSE ActiveEntries(r, vector'))
  BY DEF IInv, Shape, Begin
<1>2. r # None /\ r.objectives \subseteq Objectives
  BY Nobody, AlertsAssumption DEF AlertsAssumption
<1>3. PICK N \in Nat :
        /\ DOMAIN vector' \subseteq 1..N
        /\ \A k \in DOMAIN vector' : vector'[k] \in Samples /\ Selected(r, vector'[k])
  BY SamplesReturned
<1>4. TypeOK'
  BY <1>1, <1>2, <1>3 DEF IInv, TypeOK
<1>5. Shape'
  BY <1>1 DEF IInv, Shape
<1>6. Rows'
  <2>1. RowsOf(r, AllEntries(r, vector'))
    BY AllEntry
  <2>2. r.inactive => RowsOf(r, entries')
    BY <1>1, <2>1
  <2> QED
    BY <1>1, <2>2 DEF Rows, RowsOf
<1>7. Burnrates'
  BY <1>1 DEF Burnrates
<1>8. AlertsShown'
  <2>1. CASE r.inactive
    BY <1>1, <2>1 DEF AlertsShown
  <2>2. CASE ~r.inactive
    <3>1. entries' = ActiveEntries(r, vector')
      BY <1>1, <2>2
    <3>2. \A o : Clash(o)' = Clash(o)
      BY DEF Clash
    <3> QED
      BY <1>1, <1>3, <3>1, <3>2, ActiveShown, AlertsAssumption DEF AlertsShown
  <2> QED
    BY <2>1, <2>2
<1>9. InactiveComplete'
  <2>1. CASE ~r.inactive
    BY <1>1, <2>1 DEF InactiveComplete
  <2>2. CASE r.inactive
    <3>1. entries' = AllEntries(r, vector')
      BY <1>1, <2>2
    <3>2. \A o : Clash(o)' = Clash(o) /\ Namesake(o)' = Namesake(o)
      BY DEF Clash, Namesake
    <3>3. DOMAIN vector' \subseteq 1..N /\ \A n \in DOMAIN vector' : vector'[n] \in Samples
      BY <1>3
    <3>4. ASSUME NEW o \in r.objectives, NEW i \in 1..4, ~Clash(o), ~Namesake(o)
          PROVE  StateOfOne(vector', o, i, entries'[<<o, i>>].state)
      BY <3>1, <3>3, <3>4, AllShown, AlertsAssumption
    <3> QED
      BY <1>1, <3>2, <3>4 DEF InactiveComplete, StateOfOne, AlertsOf, WindowOf
  <2> QED
    BY <2>1, <2>2
<1> QED
  BY <1>4, <1>5, <1>6, <1>7, <1>8, <1>9 DEF IInv

-----------------------------------------------------------------------------
(* The steps of the request and its goroutines.                              *)

LEMMA NextObjectiveInv ==
    ASSUME IInv, NEW o \in todo, NextObjective(o)
    PROVE  IInv'
<1>1. /\ todo \subseteq Objectives /\ o \in Objectives /\ o # None
      /\ phase = "next" /\ phase' = "range" /\ todo' = todo \ {o} /\ obj' = o
      /\ windowsMap' = [w \in burnratesFromWindows(Def[o].window) |-> Unknown]
      /\ spawned' = {} /\ writing' = {} /\ finished' = {} /\ vector' = <<>>
      /\ req' = req /\ entries' = entries /\ failed' = failed
  BY Nobody DEF IInv, TypeOK, NextObjective
<1>2. Cardinality(writing') <= 1
  BY <1>1, AtMostOne
<1>3. TypeOK'
  BY <1>1, <1>2, EmptyDomain DEF IInv, TypeOK
<1>4. Shape'
  BY <1>1 DEF Shape
<1>5. Rows'
  BY <1>1 DEF IInv, Rows, RowsOf
<1>6. Burnrates'
  <2> SUFFICES ASSUME req # None, req.inactive, req.current
               PROVE  Burnrates'
    BY <1>1 DEF Burnrates
  <2>1. /\ todo \subseteq req.objectives
        /\ \A p \in todo : \A w : Result(p, w) \notin failed
        /\ \A p \in req.objectives \ todo : Extended(p) \/ HasCurrent(p)
    BY <1>1 DEF IInv, Burnrates
  <2>2. \A p : Extended(p)' = Extended(p) /\ HasCurrent(p)' = HasCurrent(p)
    BY <1>1 DEF Extended, HasCurrent, Right
  <2> QED
    BY <1>1, <2>1, <2>2 DEF Burnrates, Result
<1> QED
  BY <1>1, <1>3, <1>4, <1>5, <1>6 DEF IInv, AlertsShown, InactiveComplete

\* What a step that changes neither request, entries nor failures keeps.
LEMMA AnswerKept ==
    ASSUME UNCHANGED <<req, entries, failed>>
    PROVE  /\ Rows' = Rows
           /\ \A o : Extended(o)' = Extended(o) /\ HasCurrent(o)' = HasCurrent(o)
           /\ \A o, w : Right(o, w)' = Right(o, w)
  BY DEF Rows, RowsOf, Extended, HasCurrent, Right

LEMMA SpawnInv ==
    ASSUME IInv, NEW w \in DOMAIN windowsMap, Spawn(w)
    PROVE  IInv'
<1>1. /\ phase = "range" /\ phase' = "range" /\ w \in DOMAIN windowsMap
      /\ spawned' = spawned \cup {w}
      /\ UNCHANGED <<req, vector, entries, todo, obj, windowsMap, writing, finished, failed>>
  BY DEF Spawn, matchVars
<1>2. TypeOK' /\ Shape'
  BY <1>1 DEF IInv, TypeOK, Shape
<1>3. Burnrates'
  BY <1>1, AnswerKept DEF IInv, Burnrates
<1> QED
  BY <1>1, <1>2, <1>3, AnswerKept DEF IInv, AlertsShown, InactiveComplete

LEMMA EndRangeInv ==
    ASSUME IInv, EndRange
    PROVE  IInv'
<1>1. /\ phase = "range" /\ phase' = "wait"
      /\ UNCHANGED <<req, vector, entries, todo, obj, windowsMap, spawned, writing, finished, failed>>
  BY DEF EndRange, matchVars, queryVars
<1>2. TypeOK' /\ Shape'
  BY <1>1 DEF IInv, TypeOK, Shape
<1>3. Burnrates'
  BY <1>1, AnswerKept DEF IInv, Burnrates
<1> QED
  BY <1>1, <1>2, <1>3, AnswerKept DEF IInv, AlertsShown, InactiveComplete

\* A goroutine that is not done belongs to the present objective.
LEMMA Running ==
    ASSUME IInv, NEW w \in spawned, w \notin finished
    PROVE  phase \in {"range", "wait"} /\ obj \in Objectives /\ w \in DOMAIN windowsMap
  BY DEF IInv, TypeOK, Shape

LEMMA QueryFailsInv ==
    ASSUME IInv, NEW w, QueryFails(w)
    PROVE  IInv'
<1>1. /\ w \in spawned /\ w \notin finished /\ w \notin writing
      /\ finished' = finished \cup {w} /\ failed' = failed \cup {Result(obj, w)}
      /\ UNCHANGED <<phase, req, vector, entries, todo, obj, windowsMap, spawned, writing>>
  BY DEF QueryFails, matchVars
<1>2. phase \in {"range", "wait"} /\ obj \in Objectives
  BY <1>1, Running
<1>3. TypeOK' /\ Shape'
  BY <1>1, <1>2 DEF IInv, TypeOK, Shape
<1>4. Rows'
  BY <1>1 DEF IInv, Rows, RowsOf
<1>5. Burnrates'
  <2> SUFFICES ASSUME req # None, req.inactive, req.current
               PROVE  Burnrates'
    BY <1>1 DEF Burnrates
  <2>1. /\ obj \notin todo /\ windowsMap[w] = Unknown
        /\ todo \subseteq req.objectives /\ obj \in req.objectives
        /\ \A o \in todo : \A x : Result(o, x) \notin failed
        /\ \A x : Result(obj, x) \in failed => x \in finished
        /\ \A x \in finished : windowsMap[x] = Right(obj, x)
        /\ \A o \in req.objectives \ todo : o = obj \/ Extended(o) \/ HasCurrent(o)
    BY <1>1, <1>2, Running DEF IInv, Shape, Burnrates
  <2>2. \A o, x : Result(o, x) = Result(obj, w) => o = obj /\ x = w
    BY DEF Result
  <2>3. \A o, x : o # obj \/ x # w => Right(o, x)' = Right(o, x)
    BY <1>1, <2>2 DEF Right
  <2>4. Right(obj, w)' = Unknown
    BY <1>1 DEF Right
  <2>5. \A o : o # obj => Extended(o)' = Extended(o) /\ HasCurrent(o)' = HasCurrent(o)
    BY <1>1, <2>3 DEF Extended, HasCurrent
  <2>6. \A x \in finished' : windowsMap[x] = Right(obj, x)'
    BY <1>1, <2>1, <2>3, <2>4
  <2>7. \A o \in todo : \A x : Result(o, x) \notin failed'
    BY <1>1, <2>1, <2>2
  <2>8. \A x : Result(obj, x) \in failed' => x \in finished'
    BY <1>1, <2>1, <2>2
  <2> QED
    BY <1>1, <1>2, <2>1, <2>5, <2>6, <2>7, <2>8 DEF Burnrates, Right, Result
<1> QED
  BY <1>1, <1>2, <1>3, <1>4, <1>5 DEF IInv, AlertsShown, InactiveComplete

LEMMA BeginWriteInv ==
    ASSUME IInv, NEW w, BeginWrite(w)
    PROVE  IInv'
<1>1. /\ w \in spawned /\ w \notin finished /\ writing = {} /\ writing' = {w}
      /\ UNCHANGED <<phase, req, vector, entries, todo, obj, windowsMap, spawned, finished, failed>>
  BY DEF BeginWrite, matchVars
<1>2. Cardinality(writing') <= 1
  BY <1>1, AtMostOne
<1>3. TypeOK' /\ Shape'
  BY <1>1, <1>2 DEF IInv, TypeOK, Shape
<1>4. Burnrates'
  BY <1>1, AnswerKept DEF IInv, Burnrates
<1>5. phase # "next"
  BY <1>1, Running
<1> QED
  BY <1>1, <1>3, <1>4, <1>5, AnswerKept DEF IInv, AlertsShown, InactiveComplete

LEMMA EndWriteInv ==
    ASSUME IInv, NEW w, EndWrite(w)
    PROVE  IInv'
<1>1. /\ w \in writing /\ writing' = writing \ {w} /\ finished' = finished \cup {w}
      /\ windowsMap' = [windowsMap EXCEPT ![w] = Result(obj, w)]
      /\ UNCHANGED <<phase, req, vector, entries, todo, obj, spawned, failed>>
  BY DEF EndWrite, matchVars
<1>2. w \in spawned /\ w \notin finished /\ writing = {w}
  BY <1>1 DEF IInv, TypeOK, Shape
<1>3. phase \in {"range", "wait"} /\ obj \in Objectives /\ w \in DOMAIN windowsMap
  BY <1>2, Running
<1>4. /\ DOMAIN windowsMap' = DOMAIN windowsMap /\ windowsMap'[w] = Result(obj, w)
      /\ \A x \in DOMAIN windowsMap \ {w} : windowsMap'[x] = windowsMap[x]
      /\ writing' = {}
  BY <1>1, <1>2, <1>3
<1>5. Cardinality(writing') <= 1
  BY <1>4, AtMostOne
<1>6. TypeOK'
  BY <1>1, <1>2, <1>3, <1>4, <1>5 DEF IInv, TypeOK
<1>7. Shape'
  BY <1>1, <1>2, <1>3, <1>4 DEF IInv, Shape
<1>8. Burnrates'
  <2> SUFFICES ASSUME req # None, req.inactive, req.current
               PROVE  Burnrates'
    BY <1>1 DEF Burnrates
  <2>1. Right(obj, w) = Result(obj, w)
    BY <1>2, <1>3 DEF IInv, Burnrates, Right
  <2>2. finished \subseteq DOMAIN windowsMap
    BY DEF IInv, TypeOK
  <2>3. \A x \in finished' : windowsMap'[x] = Right(obj, x)
    BY <1>1, <1>3, <1>4, <2>1, <2>2 DEF IInv, Burnrates
  <2> QED
    BY <1>1, <1>3, <2>3, AnswerKept DEF IInv, Burnrates
<1> QED
  BY <1>1, <1>3, <1>6, <1>7, <1>8, AnswerKept DEF IInv, AlertsShown, InactiveComplete

\* What SetCurrent makes of an entry of the answer.
LEMMA EntrySet ==
    ASSUME Rows, req # None, req.inactive, NEW o \in req.objectives, NEW i \in 1..4
    PROVE  /\ DOMAIN SetCurrent[<<o, i>>] = Fields
           /\ SetCurrent[<<o, i>>].labels = entries[<<o, i>>].labels
           /\ SetCurrent[<<o, i>>].short = entries[<<o, i>>].short
           /\ SetCurrent[<<o, i>>].long = entries[<<o, i>>].long
           /\ Includes(Labels(obj), Labels(o)) =>
                /\ SetCurrent[<<o, i>>].shortCurrent = CurrentOf(entries[<<o, i>>].short)
                /\ SetCurrent[<<o, i>>].longCurrent = CurrentOf(entries[<<o, i>>].long)
           /\ ~Includes(Labels(obj), Labels(o)) => SetCurrent[<<o, i>>] = entries[<<o, i>>]
<1> DEFINE e == entries[<<o, i>>]
<1>1. <<o, i>> \in DOMAIN entries /\ DOMAIN e = Fields /\ e.labels = Labels(o)
  BY DEF Rows, RowsOf
<1>2. SetCurrent[<<o, i>>] =
        IF Includes(Labels(obj), Labels(o))
          THEN [e EXCEPT !.shortCurrent = CurrentOf(e.short), !.longCurrent = CurrentOf(e.long)]
          ELSE e
  BY <1>1 DEF SetCurrent
<1> HIDE DEF e
<1>3. \A a, b :
        /\ DOMAIN [e EXCEPT !.shortCurrent = a, !.longCurrent = b] = Fields
        /\ [e EXCEPT !.shortCurrent = a, !.longCurrent = b].labels = e.labels
        /\ [e EXCEPT !.shortCurrent = a, !.longCurrent = b].short = e.short
        /\ [e EXCEPT !.shortCurrent = a, !.longCurrent = b].long = e.long
        /\ [e EXCEPT !.shortCurrent = a, !.longCurrent = b].shortCurrent = a
        /\ [e EXCEPT !.shortCurrent = a, !.longCurrent = b].longCurrent = b
  BY <1>1 DEF Fields
<1>4. CASE Includes(Labels(obj), Labels(o))
  <2>1. SetCurrent[<<o, i>>] =
          [e EXCEPT !.shortCurrent = CurrentOf(e.short), !.longCurrent = CurrentOf(e.long)]
    BY <1>2, <1>4
  <2> QED
    BY <1>3, <1>4, <2>1 DEF e
<1>5. CASE ~Includes(Labels(obj), Labels(o))
  BY <1>1, <1>2, <1>5 DEF e
<1> QED
  BY <1>4, <1>5

LEMMA WaitInv ==
    ASSUME IInv, Wait
    PROVE  IInv'
<1>1. /\ phase = "wait" /\ finished = DOMAIN windowsMap /\ phase' = "next"
      /\ entries' = SetCurrent
      /\ UNCHANGED <<req, vector, todo, obj, windowsMap, spawned, writing, finished, failed>>
  BY DEF Wait, queryVars
<1>2. obj \in Objectives /\ obj # None
  BY <1>1, Nobody DEF IInv, TypeOK
<1>3. TypeOK' /\ Shape'
  BY <1>1 DEF IInv, TypeOK, Shape
<1>4. Rows'
  <2> SUFFICES ASSUME req # None, req.inactive
               PROVE  Rows'
    BY <1>1 DEF Rows, RowsOf
  <2>1. DOMAIN entries' = DOMAIN entries
    BY <1>1 DEF SetCurrent
  <2>2. ASSUME NEW o \in req.objectives, NEW i \in 1..4
        PROVE  /\ DOMAIN entries'[<<o, i>>] = Fields
               /\ entries'[<<o, i>>].labels = entries[<<o, i>>].labels
               /\ entries'[<<o, i>>].short = entries[<<o, i>>].short
               /\ entries'[<<o, i>>].long = entries[<<o, i>>].long
    BY <1>1, EntrySet DEF IInv
  <2> QED
    BY <1>1, <2>1, <2>2 DEF IInv, Rows, RowsOf, WindowOf
<1>5. Burnrates'
  <2> SUFFICES ASSUME req # None, req.inactive, req.current
               PROVE  Burnrates'
    BY <1>1 DEF Burnrates
  <2>1. /\ todo \subseteq req.objectives /\ obj \in req.objectives
        /\ \A o \in todo : \A x : Result(o, x) \notin failed
        /\ \A x \in DOMAIN windowsMap : windowsMap[x] = Right(obj, x)
        /\ \A o \in req.objectives \ todo : o = obj \/ Extended(o) \/ HasCurrent(o)
        /\ DOMAIN windowsMap = burnratesFromWindows(Def[obj].window)
    BY <1>1 DEF IInv, Burnrates, Shape
  <2>2. \A o : Extended(o)' = Extended(o) /\ \A x : Right(o, x)' = Right(o, x)
    BY <1>1 DEF Extended, Right
  <2>3. ASSUME NEW i \in 1..4
        PROVE  /\ entries'[<<obj, i>>].shortCurrent = Right(obj, entries'[<<obj, i>>].short)
               /\ entries'[<<obj, i>>].longCurrent = Right(obj, entries'[<<obj, i>>].long)
    <3>1. /\ entries[<<obj, i>>].short = WindowOf(obj, i).short
          /\ entries[<<obj, i>>].long = WindowOf(obj, i).long
      BY <2>1 DEF IInv, Rows, RowsOf
    <3>2. /\ entries[<<obj, i>>].short \in DOMAIN windowsMap
          /\ entries[<<obj, i>>].long \in DOMAIN windowsMap
      BY <2>1, <3>1 DEF burnratesFromWindows, WindowOf
    <3>3. /\ entries'[<<obj, i>>].short = entries[<<obj, i>>].short
          /\ entries'[<<obj, i>>].long = entries[<<obj, i>>].long
          /\ entries'[<<obj, i>>].shortCurrent = CurrentOf(entries[<<obj, i>>].short)
          /\ entries'[<<obj, i>>].longCurrent = CurrentOf(entries[<<obj, i>>].long)
      <4>1. Includes(Labels(obj), Labels(obj))
        BY DEF Includes
      <4> QED
        BY <1>1, <2>1, <4>1, EntrySet DEF IInv
    <3> QED
      BY <2>1, <3>2, <3>3 DEF CurrentOf
  <2>4. ASSUME NEW o \in req.objectives, o # obj, ~Extended(o), HasCurrent(o)
        PROVE  HasCurrent(o)'
    <3>1. ~Includes(Labels(obj), Labels(o))
      BY <2>1, <2>4 DEF Extended
    <3>2. \A i \in 1..4 : entries'[<<o, i>>] = entries[<<o, i>>]
      BY <1>1, <3>1, EntrySet DEF IInv
    <3> QED
      BY <2>2, <2>4, <3>2 DEF HasCurrent
  <2>5. ASSUME NEW o, o = obj
        PROVE  HasCurrent(o)'
    BY <1>1, <2>2, <2>3, <2>5 DEF HasCurrent
  <2>6. ASSUME NEW o \in req.objectives \ todo
        PROVE  Extended(o)' \/ HasCurrent(o)'
    <3>1. CASE o = obj  BY <2>5, <3>1
    <3>2. CASE Extended(o)  BY <2>2, <3>2
    <3>3. CASE o # obj /\ ~Extended(o)  BY <2>1, <2>4, <3>3
    <3> QED
      BY <3>1, <3>2, <3>3
  <2> QED
    BY <1>1, <2>1, <2>6 DEF Burnrates, Result
<1> QED
  BY <1>1, <1>2, <1>3, <1>4, <1>5 DEF IInv, AlertsShown, InactiveComplete

LEMMA RespondInv ==
    ASSUME IInv, Respond
    PROVE  IInv'
<1>1. /\ phase = "next" /\ todo = {} /\ phase' = "done"
      /\ UNCHANGED <<req, vector, entries, todo, obj, windowsMap, spawned, writing, finished, failed>>
  BY DEF Respond, matchVars, queryVars
<1>2. TypeOK' /\ Shape'
  BY <1>1 DEF IInv, TypeOK, Shape
<1>3. Burnrates'
  BY <1>1, AnswerKept DEF IInv, Burnrates
<1> QED
  BY <1>1, <1>2, <1>3, AnswerKept DEF IInv, AlertsShown, InactiveComplete

LEMMA StutterInv ==
    ASSUME IInv, UNCHANGED vars
    PROVE  IInv'
<1>1. UNCHANGED <<phase, req, vector, entries, todo, obj, windowsMap, spawned, writing, finished,
                  failed>>
  BY DEF vars, matchVars, queryVars
<1>2. TypeOK' /\ Shape'
  BY <1>1 DEF IInv, TypeOK, Shape
<1>3. Burnrates'
  BY <1>1, AnswerKept DEF IInv, Burnrates
<1>4. AlertsShown'
  BY <1>1 DEF IInv, AlertsShown, Clash
<1>5. InactiveComplete'
  <2>1. \A o : Clash(o)' = Clash(o) /\ Namesake(o)' = Namesake(o)
    BY DEF Clash, Namesake
  <2>2. \A o, i : StateOfOne(vector', o, i, entries'[<<o, i>>].state)
                   = StateOfOne(vector, o, i, entries[<<o, i>>].state)
    BY <1>1
  <2>3. phase' = "next" /\ obj' = None /\ req'.inactive =>
          \A o \in req'.objectives : \A i \in 1..4 :
            Clash(o)' \/ Namesake(o)' \/ StateOfOne(vector', o, i, entries'[<<o, i>>].state)
    BY <1>1, <2>1, <2>2 DEF IInv, InactiveComplete
  <2> QED
    BY <2>3 DEF InactiveComplete, StateOfOne, AlertsOf, WindowOf
<1> QED
  BY <1>1, <1>2, <1>3, <1>4, <1>5, AnswerKept DEF IInv

LEMMA NextInv == IInv /\ [Next]_vars => IInv'
<1> SUFFICES ASSUME IInv, [Next]_vars
             PROVE  IInv'
  OBVIOUS
<1>1. CASE \E r \in Requests : Begin(r)
  BY <1>1, BeginInv
<1>2. CASE \E o \in todo : NextObjective(o)
  BY <1>2, NextObjectiveInv
<1>3. CASE \E w \in DOMAIN windowsMap : Spawn(w) \/ QueryFails(w) \/ BeginWrite(w) \/ EndWrite(w)
  BY <1>3, SpawnInv, QueryFailsInv, BeginWriteInv, EndWriteInv
<1>4. CASE EndRange \/ Wait \/ Respond
  BY <1>4, EndRangeInv, WaitInv, RespondInv
<1>5. CASE RangeRaces \/ Leave
  <2>1. todo \subseteq Objectives
    BY DEF IInv, TypeOK
  <2>2. /\ phase' = "idle" /\ req' = None /\ vector' = <<>> /\ todo' \subseteq Objectives
        /\ obj' = None /\ windowsMap' = <<>> /\ spawned' = {} /\ writing' = {} /\ finished' = {}
    BY <1>5, <2>1 DEF RangeRaces, Leave
  <2> QED
    BY <2>2, ResetInv
<1>6. CASE UNCHANGED vars
  BY <1>6, StutterInv
<1> QED
  BY <1>1, <1>2, <1>3, <1>4, <1>5, <1>6 DEF Next

LEMMA Invariance == Spec => []IInv
  BY InitInv, NextInv, PTL DEF Spec

-----------------------------------------------------------------------------
(* The properties of run Alerts.                                              *)

\* At most one goroutine writes to the map at a time, whatever the loop does, and what it
\* writes is the result for its own window.
THEOREM TypeCorrect == Spec => []TypeOK
<1>1. IInv => TypeOK
  BY DEF IInv
<1> QED
  BY <1>1, Invariance, PTL

\* Every active alert of the objectives asked for is shown, with the group it is about, and
\* none under an objective of another name.
THEOREM AlertsShownAlways == Spec => []AlertsShown
<1>1. IInv => AlertsShown
  BY DEF IInv
<1> QED
  BY <1>1, Invariance, PTL

\* Every window of every objective has an entry in the state of one of its alerts.
THEOREM InactiveCompleteAlways == Spec => []InactiveComplete
<1>1. IInv => InactiveComplete
  BY DEF IInv
<1> QED
  BY <1>1, Invariance, PTL

\* However the goroutines of GetAlerts are interleaved with its loop and with each other,
\* the burn rates of an answer are those of its objectives and windows.
THEOREM CurrentCompleteAlways == Spec => []CurrentComplete
<1>1. ASSUME IInv, phase = "done", req.inactive, req.current
      PROVE  \A o \in req.objectives : Extended(o) \/ HasCurrent(o)
  <2>1. req # None /\ todo = {}
    BY <1>1 DEF IInv, TypeOK, Shape
  <2> QED
    BY <1>1, <2>1 DEF IInv, Burnrates
<1>2. IInv => CurrentComplete
  BY <1>1 DEF CurrentComplete, HasCurrent
<1> QED
  BY <1>2, Invariance, PTL

=============================================================================
