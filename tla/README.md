# Pyrra in TLA+

This directory models [Pyrra](../src/README.md) in TLA+, model-checks it with TLC and
proves part of it with TLAPS. Pyrra turns service level objectives (SLOs) into Prometheus
recording and alerting rules, keeps these rules in step with the SLOs, and serves an API
that shows how much of each error budget is left.

All source paths below are relative to `src/`.

## The system

```
 SLO files ──> pyrra filesystem ──> rule files ──> Prometheus <── /-/reload
                     │ store                          │
                     └── List ──┐                     │ query, query_range
                                v                     v
                            pyrra api  <── clients (UI): List, GetStatus, Graph*, GetAlerts
                                ^
                     ┌── List ──┘
 SLO objects ─> pyrra kubernetes ──> PrometheusRule | ConfigMap | Mimir rule group
```

| component | source | state | operations | what is hard about it |
|---|---|---|---|---|
| filesystem operator | `filesystem.go` | channels `files` (16) and `reload` (16), the map of objectives, rule files on disk, a debounce timer | lister, watcher, processor, reloader, HTTP server; `List` | five goroutines, blocking sends, a file read twice, debounced reloads, shutdown order, restart |
| Kubernetes reconciler | `kubernetes/controllers/servicelevelobjective.go` | none of its own: SLOs, rules and finalizers in the API server, groups in Mimir, informer caches | `Reconcile` in three modes | stale caches, optimistic concurrency, retries, crashes between calls, finalizers |
| Mimir client | `mimir/` | none | `SetRuleGroup`, `DeleteNamespace` | partial failure |
| API server | `main.go` | `backendClientCache` (10s), `promCache` | `List`, `GetStatus`, `GraphErrorBudget`, `GraphRate`, `GraphErrors`, `GraphDuration`, `GetAlerts` | requests share caches and pointers into them |
| rules and queries | `slo/rules.go`, `slo/promql.go`, `slo/slo.go` | none (pure functions) | `IncreaseRules`, `Burnrates`, `GenericRules`, `Query*` | rules and queries must agree on the labels of what is recorded |
| windows and alerts | `slo/rules.go`, `main.go` | the answer in the making, and a map shared by the goroutines of a request | `Windows`, `GetAlerts`, `alertsMatchingObjectives` | rounding, matching of alerts to objectives, a map written by goroutines while it is ranged over |
| validation | `kubernetes/api/v1alpha1/servicelevelobjective_types.go` | none | `validate`, `Internal` | the webhook must not accept what `Internal` rejects |
| backends and conversions | `kubernetes.go`, `filesystem.go`, `proto/objectives/v1alpha1/objectives.go` | the SLO objects, the store | `List`, `getObjective`, `FromInternal`, `ToInternal` | labels are renamed on the way to a client, and objectives change between the list and the page |
| generate, proxy, UI, command line | `generate.go`, `prometheus.go`, `ui/` | none that matters here | | I/O and presentation |

What makes each component correct:

* *Operator*: no edit of an SLO file is lost on its way to the rule file, the store and
  Prometheus; the goroutines do not block each other for ever; shutdown ends.
* *Reconciler*: when it rests, what is published is what the SLOs say; it never goes back to
  an older spec; nothing is left behind for a deleted SLO; it does come to rest.
* *API*: an answer is of the objective, grouping, time and range that was asked for, up to
  the caches' times to live, and never mixes data of different requests beyond that.
* *Rules and queries*: whatever the matchers and the grouping, what a query reads from the
  recorded series is what counting the requests themselves would give; the merged queries of
  one group count that group.
* *Alerts*: every active alert is shown under its objective and with its group, and burn rates
  are shown for the windows they are of.
* *Validation and backends*: what the webhook accepts is served as what it says, and the page
  of a listed objective shows that objective.

`PROJECT.json` lists the hazards of this code line by line, with the properties that would
catch each of them going wrong, and the few that no property covers, with the reason.

## Modules

| module | models | proofs |
|---|---|---|
| `FilesystemOperator` | `pyrra filesystem` | `FilesystemOperator_proofs` |
| `KubernetesReconciler` | `pyrra kubernetes` | `KubernetesReconciler_proofs` |
| `Publication` | what an operator promises about the rules of each SLO | `Publication_proofs`: the reconciler implements it |
| `Objectives` | webhook, `Internal`, both backends' `List`, the conversions to and from messages, `getObjective` | `Objectives_proofs` |
| `ApiServer` | `pyrra api`: `List`, `GetStatus`, the four graphs, both caches | `ApiServer_proofs` |
| `RecordingRules` | rules of package `slo`, evaluated, and the queries that read them | `RecordingRules_proofs` |
| `GenericRules` | the generic rules, extending `RecordingRules` | `RecordingRules_proofs` |
| `GroupedQueries` | the queries of one group, as each handler merges them, and those of the graphs; extends `RecordingRules` | `GroupedQueries_proofs` |
| `BurnrateWindows` | the windows of the multi burn rate alerts | `Alerts_proofs` |
| `Alerts` | `GetAlerts`; extends `BurnrateWindows` | `Alerts_proofs` |

`MC*` modules extend them with the constants' values that need a definition; the `.cfg`
files hold the rest. Definitions named `...Once`, `...IgnoreError`, `...NoTimer` and the like,
marked *Mutant*, are changed forms of the definition that follows them. No specification uses
them: each is a bug that the property named in `PROJECT.json` is known to catch.

### FilesystemOperator

Every goroutine is an actor with a program counter (`lpc`, `wpc`, `ppc`, `rpc`, `spc`); a step
is what the goroutine does between two operations that others can see: channel operations,
reads and writes of files, accesses to the store, the reload request. In particular
`writeRuleFile` reads the file (`ProcessorRead`), truncates the rule file
(`ProcessorTruncate`) and writes it (`ProcessorWrite`) in steps of their own, and
`objectiveFromFile` reads the file a second time (`ProcessorLoad`). A content is a model value
that may parse, may be valid (writing its rules succeeds), and has one or more keys in the
store: `Internal()` appends the `pyrra.dev/` labels in map order, and the key prints them in
that order. `GroupInterrupt` calls the interrupt functions in the order of `gr.Add`, as
`oklog/run` does once one actor has returned; `Restart` is a kill at any moment, or the start
after an exit or a panic.

The environment edits files in place (inotify reports a Write) or by removal and rename
(anything else, which the watcher does not forward). Three history variables record what the
properties must except because the code does not promise it: `unseen` (changed with no Write
event, or outside the pattern at start), `broken` (the last write of the rule file failed)
and `reloadFailed` (the last reload failed, and the code does not retry).

### KubernetesReconciler

Each call that `Reconcile` makes to the API server or to Mimir is a step (`pc` names the next
one); `Fail` is a call that is not answered and `Crash` a kill between two calls. The API
server is external: versions, optimistic concurrency (`Current`), deletion with and without a
finalizer, garbage collection by owner. The informer caches lag behind by any amount; only
changes of SLOs queue a reconcile (`SetupWithManager` has no `Owns`). One worker is
modelled, as controller-runtime's default is; `mode` is chosen at start and never changes.
`UpdateRule` knows that after a `Create` the version is empty, which the API server refuses
for a custom resource and accepts for a ConfigMap.

`Publication` says what all of this is for, with no caches, calls or failures: for each SLO, what
its users want, and the revision of the spec that its published rules are of. A step is a
change by the users, the publication of a revision (never older than the one it replaces,
never one the SLO does not have yet) or a withdrawal (only of an SLO that is going, is gone, or
was created again since). `KubernetesReconciler` instantiates it as `Pub` with `CurrentOf` (the
stored SLO, if not deleted) and `PublishedOf` (the rule object or the Mimir group), and
`PublishesInOrder == Pub!Spec` is a property of run `Reconcile`. A step of the reconciler
changes at most one of these and most steps change none.

### Objectives

A resource is known by what decides its fate: its name, namespace, target and window, for each
indicator what its expressions are as PromQL (`Metric`: unparsable, a scalar, a vector, a
selector; with a name or not; with which `le`), and at most one propagated label. `Validates`
is what the webhook checks, `Converts` what `Internal()` does, each translated from its own
code: that they differ is the point. `Kubernetes` and `Filesystem` are the two `List`
implementations with their different matching; `MessageLabels` is a set, since two labels may
get one name and the map's order decides. `List` and `Get` are the list and detail page of a
client: it opens an objective by the labels of its message, after any number of changes.

### ApiServer

Every request is a goroutine: look into the cache, ask, receive the answer, fill the cache,
go on. The `ListResponse` lives on a heap, so that requests share what they share in the
program: a response is cached and returned by pointer, and `List` writes into it
(`WriteQueries`) before it is marshalled (`Encode`). `QueriesOf` gives the queries each kind of
request makes one after the other: `GetStatus` two instant queries, a graph one or several
range queries. A cached value is known by the time it is of and the length it was asked for,
which is what the properties compare. Keys are what the code's keys are: for objectives
the expression, for an instant query its text, for a range the text, with the interval of the
rates, and the rounded length. How long a result is kept depends on the length (`CacheTime`).
Time passes in units of 5s, `Latency` bounds a request. `SetWithTTL` may drop an entry.

### RecordingRules

The state is an objective and the requests its service has served. Rules are records with
the metric, the matchers, the labels grouped by and the labels added, as `IncreaseRules` and
`Burnrate` build them; `Record` evaluates one the way Prometheus does. Queries are the
selectors that `promql.go` builds. A recorded value is the set of requests it counts, and a sum
of such values the number of pairs of a series and a request that it counts, so that sums can be
compared with a reference that counts requests directly (`Total`, `Failed`): a request that two
series of one group count is counted twice. One
window stands for all: windows are part of the recorded name and differ in nothing else here.

`GenericRules` follows the list of matchers, which includes that of `__name__`, through the
rules that change it in place: a selector whose name and `__name__` matcher disagree finds
nothing. `GroupedQueries` has one `...Merge` operator per handler that merges a grouping into the
objective; the queries of the merged objective are those of `RecordingRules`, which take the
objective as a parameter, the recorded series stay those of the objective. Merging is different in each
handler; `ErrorsMergeable`, `ListLeaves` and `BudgetPanics` say where `List` spoils the errors' own
matchers or the grouping for the next objective, and where a handler fails. `GroupsCounted` says
that the merged queries count the group and nothing else, for `List`, status, graphs and error
budget, but for these cases and the status and graphs of a native histogram, which ignore the
grouping. For `List` there is a statement to hold the code to, the comment at `main.go:719`:
`ListCounted` has no such exceptions. Run `RulesListGrouping` refutes it with a ratio whose errors are
selected by `code="a"`: in the row of `code="b"` every request is an error. With gauges or native
histograms alone it is refuted as well, by the second objective of a response, which has lost
part of the grouping; with latency objectives alone it holds.

### BurnrateWindows and Alerts

`Windows` computes with whole minutes, as the code rounds them; PromQL and the label values
know no others. `Alerts` follows one request: `Begin` is the query of `ALERTS` and
`alertsMatchingObjectives`; the loop over the objectives (`NextObjective`) ranges over
`windowsMap` and starts a goroutine for each window (`Spawn`), each of which may fail or write
its result (`BeginWrite`, `EndWrite`, between them it holds `mtx`). The loop holds no lock: if
it advances while one writes, the Go runtime may end the process (`RangeRaces`). A current burn
rate is known by the objective and the window it was asked for.

## Runs

| run | shows |
|---|---|
| `Filesystem` | Two files, one outside the pattern, with either of two valid contents, that compete for channels of capacity one; an edit of either, or a kill and a new start, at any point; failures and shutdown: `TypeOK`, `RulesFollowDisk`, `StoreFollowsDisk`, `LoadedFollowsRules`, and under fairness `EventuallyInSync` and `ShutdownEnds`. |
| `FilesystemReloader` | Violation of `ReloaderLoopsBack`: the comment at `filesystem.go:217` promises that the outer loop starts again. |
| `Reconcile` | Two SLOs, all modes, four user operations, one fault: `TypeOK`, `SettledIsPublished`, `NoOrphanGroup`, `RulesNeverGoBack`; the refinement of `Publication` (`PublishesInOrder`); under fairness `EventuallyConverged`. |
| `ReconcileOneName` | Violation of `RulesForEach`: in Mimir mode the rule namespace is the SLO's name without its Kubernetes namespace, so two SLOs of one name overwrite each other (`README.md:61` promises rules for each). |
| `Api` | Two concurrent requests, one after another each, of every kind: `TypeOK`, `ObjectivesFresh`, `ResultsConsistent`, `RangeFresh`, `IncompleteNotShared`, `RangeLengthKept`. |
| `ApiGrouping` | Violation of `QueriesOfGrouping`: concurrent `List` requests with different groupings write their queries into one cached response (`main.go:809`, comment at `main.go:719`). |
| `Rules` | All indicator types, two labels, every combination of the matchers that rules and queries agree on, every grouping, propagated labels, up to two requests: `TotalCounted`, `ErrorsCounted`, `BudgetCounted`, `BurnratesFound`, `RulesEvaluate`, `GenericCounted`, `GroupsCounted`. |
| `RulesNativeRegex` | Violation of `TotalCounted`: the rules of native histograms drop the label of a regular expression matcher, their queries ask for it (comment at `promql.go:15`). |
| `RulesListGrouping` | Violation of `ListCounted`: `List` replaces the matchers of a ratio's errors by those of the grouping, so that every request of a group counts as an error (`main.go:732`, comments at `main.go:719` and `promql.go:75`). |
| `Objectives` | Both backends, with and without the webhook, resources that differ from a good one in each respect, listed and opened between up to three changes: `TypeOK`, `DetailOfListed`, `ListedIsFound`, `AcceptedIsServed`. |
| `ObjectivesWebhook` | Violation of `AcceptedConverts`: the webhook accepts what `Internal()` rejects (`servicelevelobjective_types.go:402`, `examples/kubernetes/README.md:72`). |
| `Alerts` | Requests of every kind for five objectives that share names, labels or groups, two active alerts: `TypeOK`, `AlertsShown`, `InactiveComplete`, `CurrentComplete`. |

`CHECK_DEADLOCK FALSE` is set everywhere because all of these systems may rest: the operator
when it has shut down or has nothing to do, the reconciler with an empty queue, the API and
the rules when their bounds are reached. That nobody waits for ever is what the liveness
runs check.

### Bounds

* *Channel capacity 1* instead of 16: every sender blocks as soon as one value is queued, so
  that all situations of a full channel occur with one or two files. The proofs are for any
  capacity.
* *Edits, crashes*: `MaxChanges` bounds the two together, and one is enough for an edit, or a
  kill, to fall between any two steps of the goroutines while another file fills the channels,
  and for the restarted operator to meet torn and complete rule files. What takes several
  changes, such as a stale rule file left by a kill after an edit, the proofs cover, which have
  no bound; the two liveness properties are checked for one change only.
* *Contents*: two valid ones, with the same labels, tell a stale rule file from a current one. Contents
  with several keys, without rules or that do not parse are left to the proofs.
* *User operations, faults* of the reconciler: four operations on two SLOs are create, update,
  delete and create again, or two lives side by side; a fault hits any call of any reconcile,
  or its retry. The proofs have no bound.
* *Requests*: two handlers are the least that race, and each serves any number of requests in
  turn; the clock goes on beyond the longest time to live and two latencies, which the bounds
  in the properties are made of. `Workloads` gives each kind of call a clock of its own length.
  The proofs are for any number of handlers and requests, any times to live and lengths.
* *Rules*: two labels with two values and the absent value tell equality, inequality and
  regular expressions apart; two requests are needed for two groups to collide. Regular
  expressions accept one value, two, or one and the absent value; those of a ratio, whose total
  and errors are combined, the first and the last. The proofs are for any labels, values, matchers
  and requests.
* *Objectives*: three changes are an objective, another one beside it, and the change of either
  between the list and the page. Each resource differs from a good one in one respect, since
  the checks are conjuncts; those with several indicators are all combinations. The proofs are
  for any resources and any number of changes.
* *Alerts*: two active alerts are the least of which one can hide another's state. The five
  objectives are each other's namesakes, share labels, have groups, or have an alert label
  that clashes with one of their own. A window of one hour has burn rates of only four lengths,
  which keeps the goroutines few; that of 28 days has its real ones. The proofs are for any
  objectives, requests and number of alerts.

### Fairness

`FilesystemOperator`: weak fairness of each goroutine and of the run group's interrupts, since
Go schedules every runnable goroutine and `select` picks among ready cases at random, and that
Prometheus answers a reload (there is no timeout). Nothing makes a user edit or the server
fail. `KubernetesReconciler`: weak fairness of calls, informers and garbage collector; strong
fairness of taking a given SLO off the queue, since the queue is first in, first out. The
Mimir API is assumed to accept the deletion of a namespace that is already gone
(`DeleteMissingOK`); if it does not, a delete whose answer is lost is never completed.

## Proofs

`FilesystemOperator_proofs` proves, for all files, contents, channel capacities, numbers of
edits and of crashes:

* `TypeCorrect`: `Spec => []TypeOK`.
* `RulesFollowDiskAlways`: `Spec => []RulesFollowDisk`. The invariant is inductive together with
  `TypeOK`: it says of each file that it is either pending somewhere on its way (`Pending`),
  or in the hands of the processor with the content the disk still has, or written. The steps
  that matter are the ones that move a file from one place to the next.
* `StoreFollowsDiskAlways`: the same for the store, with the additional assumption, made
  in the property, that no other file shares the objective's labels.
* `LoadedFollowsRulesAlways`: `Spec => []LoadedFollowsRules`. Inductive only together with
  `AbsentUnseen` (a file that does not exist is unseen), since otherwise a processor that finds
  no file would end the pending state without owing a reload; the two make `ReloadInv`.

The proofs rest on `FilesystemAssumption`, which TLC evaluates on every run of the module.

`KubernetesReconciler_proofs` proves, for all SLOs and names, in all modes, and for any number
of user operations, failed calls and crashes:

* `TypeCorrect`: `Spec => []TypeOK`.
* `NoOrphanGroupAlways`: `Spec => []NoOrphanGroup`, also when SLOs share a name.
* `RulesNeverGoBackAlways`: `Spec => RulesNeverGoBack`.
* `SettledIsPublishedAlways`: `Spec => []SettledIsPublished`, if every SLO has a name of its own
  (`OwnName`). Run `ReconcileOneName` shows what happens in Mimir mode without that.

None of them is inductive. The invariant `IInv` adds what makes optimistic concurrency work:
versions only grow, so that every copy, in the cache or in the worker's hands, is the stored
object or an older version of it (`Versions`, `Caches`, `InHand`), and a write that the API
server accepts was based on the stored object. `CacheAhead` says that the cache moves on but
never falls behind the copy taken from it: so the reconcile that takes the finalizer off can
not have a cache that still shows the SLO as alive, which would make the next reconcile write
the group again with no finalizer to delete it (`Finalizers`, `Steps`). `RulesBehind` and
`GroupsBehind` say that no copy is older than what has been published from. For
`SettledIsPublished`, `PInv` adds `Done` (an SLO that the cache knows, that is neither queued nor
being reconciled, is published) and `StatusLast` (before the last call of a reconcile the rules
are those of the copy in hand, as long as that SLO exists). The proof first sums up how a step
may move each part of the state (`NextEvolves`, `CacheMoves`, `HandMoves`, `RuleMoves`,
`GroupMoves`, `FinalizerKept`, `BecomesDue`), with one case per action, and derives the
conjuncts from these. TLC has checked `PInv` on the instance of run `Reconcile` and on two
SLOs, and `IInv` on two SLOs of one name.

The proofs rest on `ReconcilerAssumption`: the names of the SLOs, the three modes, natural
bounds, and that a missing object is no object.

`Publication_proofs` proves `PublishesInOrderAlways`: if every SLO has a name of its own, then
`Spec => PublishesInOrder`, which is that the reconciler implements `Publication`. Its invariant
`LInv` adds to `IInv` which life of an SLO, from one creation to the next, every copy and every
rule belongs to (`Lives`): a copy the worker still holds of a deleted SLO is older than the
creation of its successor. The proof has one lemma per kind of step: those that change what
users want (`ChangeStep`), those that publish (`WriteRuleStep`, `SetGroupStep`), those that
withdraw (`DeleteGroupStep`, `CollectGarbageStep`), and all others, which stutter (`OtherStep`).

`Objectives_proofs` proves, from `ObjectivesAssumption` alone (any set of resources, any number of
changes), `TypeCorrect` and the three properties of run `Objectives`: `AcceptedIsServedAlways`,
`DetailOfListedAlways`, `ListedIsFoundAlways`. The invariant `IInv` adds that what the webhook let
pass is stored (`Passed`), that stored resources differ in namespace or name (`Keyed`), that
labels that were listed stay in the filesystem backend's store (`ShownStays`), and that store and
cluster are finite, since `getObjective` counts. That the right objective is found rests on `KubernetesSelf`,
`FilesystemSelf` and `FilesystemName`: an unambiguous objective is selected by the labels of any
message it can become, and what those labels select has its name and namespace.

`Alerts_proofs` begins with two facts that no finite run can show, because they depend on the
window of the objective: from 2.8 days on every burn rate has a range of at least a minute, shorter for the short
window than for the long one (`WindowsPositive`), and `HasWindows` finds exactly the window an
alert was made for (`WindowsDistinct`). They are arithmetic on the rounding (`MinutesNearest`).
Run `Alerts` has objectives below that limit as well, where windows coincide.

Of `GetAlerts` it proves, from `AlertsAssumption` alone, `TypeCorrect` and the three properties of
run `Alerts` (`AlertsShownAlways`, `InactiveCompleteAlways`, `CurrentCompleteAlways`). The first
two are settled by `Begin`: an alert has the labels its objective matches it by (`SampleIs`,
`MatchesName`), one that updates an entry for the objective's window is of that objective
(`AgreesWithOwn`), and of those that do there is a last one (`LastOne`). The third needs the
invariant `IInv`: goroutines only run while the loop or `Wait` is at their objective (`Shape`),
entries keep the labels and windows they were made with (`Rows`), and the objectives that are done
have their burn rates, of which a result can only be missing if its goroutine has finished
(`Burnrates`).

`ApiServer_proofs` proves, from `ApiAssumption` alone (any handlers, requests, edits, times to
live and rounding), `TypeCorrect` and the five properties of run `Api`. The invariant `IInv` adds
to them what ties the actors together: what a handler holds belongs to its present call
(`Calls`), every pointer in a handler or the cache is to a response on the heap (`Pointers`), a
revision that is present or still to come has not been replaced (`Revisions`), a response is as fresh as
the TTL and the latencies of whoever fetched it allow, whoever holds it now (`Lists`), a cached
result is complete, of the length that its key says to within the rounding, and was evaluated at
most the latency before it was cached (`Cached`), and so is what a handler was given (`Recent`).
The time to live follows from the key (`KeyTime`), whose interval of the rates tells graphs apart
that are kept for different times: so a long graph's entry, kept for long, is not found by a
short one. The key does not contain the instant: `ResultsConsistentAlways` and `RangeFreshAlways`
assume that all clients ask for the present (`Present`), as in the run; without that they are
false. TLC has checked `IInv` on the instance of run `Api`.

`RecordingRules_proofs` proves the properties of run `Rules` that are about an objective's own
queries, for any labels, matchers, groupings, propagated labels and number of requests, as
`Spec /\ Agreed => []...`: `TotalCountedAlways`, `ErrorsCountedAlways`, `BudgetCountedAlways`,
`BurnratesFoundAlways`, `RulesEvaluateAlways` and `GenericCountedAlways`. `Agreed` says of the objective
on which labels rules and queries agree; it is what the proofs needed and no more. Of the labels
that the objective is not grouped by:

* a matcher `!=` accepts the empty value and the value of a propagated label of its name, since
  the recorded series have lost the label or got the propagated one;
* a ratio's errors are not selected by a label on which its total has a different matcher `!=`;
* a native histogram has no regular expression, and none of its propagated labels is one it is grouped by.

Without any one of these TLC finds an objective whose requests are not counted; run
`RulesNativeRegex` is the last one. The proof needs no induction over the behaviour beyond `IInv`
(there is an objective, and finitely many requests): it is about the labels. `Keeps` says how the
labels and the grouping of a rule must be related to the matchers for its series to be found, and
is shown of the rules of each type (`KeepsWithout`, `KeepsAll`, `KeepsLe`); `Kept` says what it
means for a series. Each query then reads the series of one rule only (`LatencyReads`,
`NativeReads`, `GaugeReads`, `RatioReads`), in which every request that its matchers narrow the
rule's down to (`Narrows`, `NarrowsErrors`) is counted once (`SumIs`, `SumOfRule`, by a bijection
from the requests to the pairs that `Sum` counts). These lemmas are about the queries of any
objective that is like the one the rules were made of, but for matchers and grouping (`Like`).

`GroupedQueries_proofs` applies them to the objectives with a grouping merged and proves
`GroupsCountedAlways` under the same `Agreed`. What the four handlers make of the objective has one
form (`MergedObjective`): the grouping's matchers are added, and the objective's own are only gone
where the grouping has one of that label (`ListMerged`, `StatusMerged`, `BudgetMerged`). Such
matchers narrow the series of every rule down to the group, because the rules keep the labels of
the grouping (`MergeNarrows`, `MergeNarrowsErrors`), and the service's own series too, because a
matcher that was replaced accepted the value of the group (`RawTotal`, `GroupOf`). Errors need that
`List` has not replaced a matcher that tells them apart (`ErrorsKept`). So the theorem has the exceptions of
`GroupsCounted`: it says nothing of what `List` computes from errors it has spoilt, of the status and the
graphs of native histograms, and of `GraphErrorBudget` where it panics.

Liveness under fairness, `ENABLED`, and facts about recursively defined data are outside of
what TLAPS can prove here: `EventuallyInSync`, `ShutdownEnds` and `EventuallyConverged` are
model-checked only. Every safety property of a passing run is stated by a theorem.

## Not modelled

* Outside of any model: the UI, generated code, the Prometheus proxy, command line, TLS and
  static files, `generate` (one sequential pass of `writeRuleFile`), HTTP and authentication of
  the Mimir client.
* A call that takes effect after the process that made it has been killed, and a second
  operator process that overlaps the first during a roll-out (leader election is off).
* Prometheus' staleness, scrape timing and extrapolation: a counter counts requests.
* How samples and matrices become percentages and JSON columns (`GetStatus`, `matrixToValues`);
  texts and thresholds of the generated alerts; alerts on absent metrics. The result of `ALERTS`
  is taken to be of the present, although it may be five seconds old.
* Weaknesses that no statement in the repository speaks about, and that the properties therefore
  except rather than refute:
  * a removed or renamed SLO file leaves its rules and its objective behind (`filesystem.go:154`);
    the store may hold an objective under two keys (`filesystem.go:43`), and the zero objective
    for a file that cannot be parsed (`filesystem.go:193`); a reload that fails is not tried
    again (`filesystem.go:222`);
  * an instant or range query for another time is answered from the cache with the present
    (`main.go:612`, `main.go:642`);
  * status and graphs ignore the grouping of a native histogram, and `GraphErrorBudget` fails for
    it and for a grouped latency (`main.go:957`);
  * a native histogram that is grouped by a label which is also propagated records all groups
    under one label set, which Prometheus refuses (`rules.go:672`);
  * `alertsMatchingObjectives` gives an alert to every objective whose labels it does not
    contradict, and hides those whose own labels clash with the objective's (`main.go:1246`);
    `GetAlerts` may be ended by the Go runtime for reading a map that is being written
    (`main.go:1122`).

  What `List` does to the errors of a group (`main.go:732`) and to the grouping of the objectives that
  follow (`main.go:789`) is not among them: `ListCounted` states that it should not, and is violated.

## Plan

1. A second worker in `KubernetesReconciler` for overlapping operators, to state which
   properties survive without leader election.
2. What the caches of `ApiServer` still promise to clients that ask for other instants than the
   present, and a proof of it without `Present`.
3. The alert rules of `Burnrates` and `IncreaseRules`, evaluated over time, so that the samples of
   `Alerts` are those that its objectives' rules can produce and not only their labels.
