------------------------ MODULE KubernetesReconciler ------------------------
(***************************************************************************)
(* `pyrra kubernetes`: ServiceLevelObjectiveReconciler of                   *)
(* src/kubernetes/controllers/servicelevelobjective.go and its environment. *)
(* The reconciler runs one worker. It reads ServiceLevelObjectives and rule *)
(* objects from informer caches that lag behind the API server, writes to   *)
(* the API server under optimistic concurrency control, and, depending on   *)
(* its mode, publishes the rules of an SLO as a PrometheusRule, as a         *)
(* ConfigMap, or as a rule group in Mimir, guarded by a finalizer.           *)
(*                                                                         *)
(* Each call to the API server or to Mimir is a step of its own: users,     *)
(* informers, the garbage collector, failures and crashes come in between.  *)
(***************************************************************************)
EXTENDS Naturals

CONSTANTS
    SLOs,        \* namespaced names of ServiceLevelObjectives
    Names,       \* their names, without the namespace
    NameOf,      \* NameOf[s]: what GetName() returns for s
    Modes,       \* the modes it may be started in: "PrometheusRule", "ConfigMap", "Mimir"
    None,        \* no such object
    DeleteMissingOK, \* Mimir answers 202 when a namespace to delete is not there
    MaxOps,      \* bound on the users' operations
    MaxFaults    \* bound on failed calls and crashes

\* A ServiceLevelObjective. spec is the revision that wrote the spec; ok says
\* whether Internal() and the rule generators accept it; status, whether
\* Status.Type has been set.
Object == [uid : Nat, rv : Nat, spec : Nat, ok : BOOLEAN,
           deleting : BOOLEAN, fin : BOOLEAN, status : BOOLEAN]

\* A PrometheusRule or ConfigMap: the UID in its owner reference, and the spec its
\* rules were generated from.
Rule == [owner : Nat, rv : 1..4, spec : Nat]

\* A Mimir rule group: what it was generated from.
Group == [slo : SLOs, spec : Nat]

ASSUME ReconcilerAssumption ==
    /\ NameOf \in [SLOs -> Names]
    /\ Modes \subseteq {"PrometheusRule", "ConfigMap", "Mimir"}
    /\ DeleteMissingOK \in BOOLEAN
    /\ MaxOps \in Nat /\ MaxFaults \in Nat
    /\ None \notin Object \cup Rule \cup Group

VARIABLES
    mode,      \* where the rules are published: --config-map-mode, --mimir-url or neither
    slo,       \* slo[s]: the ServiceLevelObjective in the API server
    rev,       \* rev[s]: its last resourceVersion, also when it is gone
    sloCache,  \* the informer cache of ServiceLevelObjectives
    rule,      \* rule[s]: the PrometheusRule or ConfigMap in the API server
    ruleCache, \* the informer cache of PrometheusRules or ConfigMaps
    group,     \* group[n]: the Mimir rule group in namespace n
    queue,     \* the work queue: SLOs to reconcile
    pc,        \* the next call of the reconcile under way, "idle" if there is none
    req,       \* the SLO being reconciled
    obj,       \* the copy of it in the hands of Reconcile
    found,     \* the copy of the rule Get has returned, None if not found
    ops, faults

cacheVars  == <<sloCache, ruleCache>>
workerVars == <<pc, req, obj, found>>

vars == <<mode, slo, rev, sloCache, rule, ruleCache, group, queue, pc, req,
          obj, found, ops, faults>>

Calls == {"addFinalizer", "setGroup", "deleteGroup", "removeFinalizer",
          "getRule", "create", "update", "status"}

\* The type invariant of the reconciler, the API server and Mimir.
TypeOK ==
    /\ mode \in Modes
    /\ slo \in [SLOs -> Object \cup {None}]
    /\ sloCache \in [SLOs -> Object \cup {None}]
    /\ rev \in [SLOs -> Nat]
    /\ rule \in [SLOs -> Rule \cup {None}]
    /\ ruleCache \in [SLOs -> Rule \cup {None}]
    /\ group \in [Names -> Group \cup {None}]
    /\ queue \subseteq SLOs
    /\ pc \in Calls \cup {"idle"}
    /\ pc # "idle" => req \in SLOs /\ obj \in Object
    /\ found \in Rule \cup {None}
    /\ ops \in 0..MaxOps /\ faults \in 0..MaxFaults

Init ==
    /\ mode \in Modes
    /\ slo = [s \in SLOs |-> None] /\ sloCache = slo
    /\ rev = [s \in SLOs |-> 0]
    /\ rule = [s \in SLOs |-> None] /\ ruleCache = rule
    /\ group = [n \in Names |-> None]
    /\ queue = {}
    /\ pc = "idle" /\ req = None /\ obj = None /\ found = None
    /\ ops = 0 /\ faults = 0

-----------------------------------------------------------------------------
(* The API server.                                                           *)

\* Store o as the new version of s, unless it is the stored one.
Store(s, o) ==
    IF o = slo[s]
      THEN UNCHANGED <<slo, rev>>
      ELSE /\ rev' = [rev EXCEPT ![s] = @ + 1]
           /\ slo' = [slo EXCEPT ![s] = [o EXCEPT !.rv = rev[s] + 1]]

\* An object that is being deleted goes when its last finalizer is removed.
Remove(s) ==
    /\ slo' = [slo EXCEPT ![s] = None]
    /\ rev' = [rev EXCEPT ![s] = @ + 1]

\* A resourceVersion for the rule of s that differs from those of all its copies.
\* Clients only compare them for equality, so they may be used again.
FreshVersion(s) ==
    CHOOSE r \in 1..4 : \A x \in {rule[s], ruleCache[s], found} \ {None} : x.rv # r

StoreRule(s, o, spec) ==
    IF rule[s] # None /\ rule[s].owner = o /\ rule[s].spec = spec
      THEN UNCHANGED rule
      ELSE rule' = [rule EXCEPT ![s] =
                      [owner |-> o, rv |-> FreshVersion(s), spec |-> spec]]

\* Users. The webhook may be off or let a spec pass that the generators reject.
UserCreate(s, ok) ==
    /\ ops < MaxOps /\ slo[s] = None
    /\ ops' = ops + 1
    /\ Store(s, [uid |-> rev[s] + 1, rv |-> 0, spec |-> rev[s] + 1, ok |-> ok,
                 deleting |-> FALSE, fin |-> FALSE, status |-> FALSE])
    /\ UNCHANGED <<mode, cacheVars, rule, group, queue, workerVars, faults>>

UserUpdate(s, ok) ==
    /\ ops < MaxOps /\ slo[s] # None
    /\ ops' = ops + 1
    /\ Store(s, [slo[s] EXCEPT !.spec = rev[s] + 1, !.ok = ok])
    /\ UNCHANGED <<mode, cacheVars, rule, group, queue, workerVars, faults>>

UserDelete(s) ==
    /\ ops < MaxOps /\ slo[s] # None
    /\ ~slo[s].deleting
    /\ ops' = ops + 1
    /\ IF slo[s].fin THEN Store(s, [slo[s] EXCEPT !.deleting = TRUE]) ELSE Remove(s)
    /\ UNCHANGED <<mode, cacheVars, rule, group, queue, workerVars, faults>>

\* The garbage collector deletes rule objects whose owner is gone.
CollectGarbage(s) ==
    /\ rule[s] # None
    /\ ~(slo[s] # None /\ slo[s].uid = rule[s].owner)
    /\ rule' = [rule EXCEPT ![s] = None]
    /\ UNCHANGED <<mode, slo, rev, cacheVars, group, queue, workerVars, ops, faults>>

\* The informer of For(&ServiceLevelObjective{}) brings its cache up to date and
\* queues the SLO. Nothing is queued for a change of a rule object.
Inform(s) ==
    /\ sloCache[s] # slo[s]
    /\ sloCache' = [sloCache EXCEPT ![s] = slo[s]]
    /\ queue' = queue \cup {s}
    /\ UNCHANGED <<mode, slo, rev, rule, ruleCache, group, workerVars, ops, faults>>

InformRule(s) ==
    /\ ruleCache[s] # rule[s]
    /\ ruleCache' = [ruleCache EXCEPT ![s] = rule[s]]
    /\ UNCHANGED <<mode, slo, rev, sloCache, rule, group, queue, workerVars, ops, faults>>

-----------------------------------------------------------------------------
(* Reconcile.                                                                *)

\* Return an error: the request is queued again.
Requeue ==
    /\ pc' = "idle"
    /\ queue' = queue \cup {req}

Return ==
    /\ pc' = "idle"
    /\ UNCHANGED queue

\* Mutant: the SLO is not found, and Reconcile goes on.
BeginNotFound(s) ==
    /\ pc = "idle" /\ s \in queue
    /\ queue' = queue \ {s}
    /\ req' = s
    /\ obj' = sloCache[s]
    /\ found' = None
    /\ pc' = "getRule"
    /\ UNCHANGED <<mode, slo, rev, cacheVars, rule, group, ops, faults>>

\* Reconcile, up to its first call that is not answered by the cache.
Begin(s) ==
    /\ pc = "idle" /\ s \in queue
    /\ queue' = queue \ {s}
    /\ req' = s
    /\ obj' = sloCache[s]
    /\ found' = None
    /\ pc' = IF sloCache[s] = None THEN "idle"
             ELSE IF mode # "Mimir" THEN "getRule"
             ELSE IF ~sloCache[s].deleting
               THEN IF sloCache[s].fin THEN "setGroup" ELSE "addFinalizer"
               ELSE IF sloCache[s].fin THEN "deleteGroup" ELSE "idle"
    /\ UNCHANGED <<mode, slo, rev, cacheVars, rule, group, ops, faults>>

\* An Update or Status().Update is refused unless it is based on the stored version.
Current == slo[req] # None /\ slo[req].uid = obj.uid /\ slo[req].rv = obj.rv

\* Mutant: the rule group is written even if the finalizer could not be added.
AddFinalizerIgnoreError ==
    /\ pc = "addFinalizer"
    /\ IF Current
         THEN /\ Store(req, [obj EXCEPT !.fin = TRUE])
              /\ obj' = slo'[req]
         ELSE UNCHANGED <<slo, rev, obj>>
    /\ pc' = "setGroup"
    /\ UNCHANGED <<mode, cacheVars, rule, group, queue, req, found, ops, faults>>

AddFinalizer ==
    /\ pc = "addFinalizer"
    /\ IF Current
         THEN /\ Store(req, [obj EXCEPT !.fin = TRUE])
              /\ obj' = slo'[req]
              /\ pc' = "setGroup"
              /\ UNCHANGED queue
         ELSE Requeue /\ UNCHANGED <<slo, rev, obj>>
    /\ UNCHANGED <<mode, cacheVars, rule, group, req, found, ops, faults>>

\* makeMimirRuleGroup and SetRuleGroup: the namespace is the SLO's name.
SetGroup ==
    /\ pc = "setGroup"
    /\ IF obj.ok
         THEN /\ group' = [group EXCEPT ![NameOf[req]] = [slo |-> req, spec |-> obj.spec]]
              /\ pc' = "status"
              /\ UNCHANGED queue
         ELSE Requeue /\ UNCHANGED group
    /\ UNCHANGED <<mode, slo, rev, cacheVars, rule, req, obj, found, ops, faults>>

\* Mutant: the finalizer is left in place.
DeleteGroupOnly ==
    /\ pc = "deleteGroup"
    /\ IF group[NameOf[req]] # None \/ DeleteMissingOK
         THEN /\ group' = [group EXCEPT ![NameOf[req]] = None]
              /\ pc' = "idle"
              /\ UNCHANGED queue
         ELSE Requeue /\ UNCHANGED group
    /\ UNCHANGED <<mode, slo, rev, cacheVars, rule, req, obj, found, ops, faults>>

\* DeleteNamespace: any status but 202 is an error.
DeleteGroup ==
    /\ pc = "deleteGroup"
    /\ IF group[NameOf[req]] # None \/ DeleteMissingOK
         THEN /\ group' = [group EXCEPT ![NameOf[req]] = None]
              /\ pc' = "removeFinalizer"
              /\ UNCHANGED queue
         ELSE Requeue /\ UNCHANGED group
    /\ UNCHANGED <<mode, slo, rev, cacheVars, rule, req, obj, found, ops, faults>>

RemoveFinalizer ==
    /\ pc = "removeFinalizer"
    /\ IF Current
         THEN Remove(req) /\ Return
         ELSE Requeue /\ UNCHANGED <<slo, rev>>
    /\ UNCHANGED <<mode, cacheVars, rule, group, req, obj, found, ops, faults>>

\* makePrometheusRule or makeConfigMap, and Get from the cache.
GetRule ==
    /\ pc = "getRule"
    /\ IF obj.ok
         THEN /\ found' = ruleCache[req]
              /\ pc' = IF ruleCache[req] = None THEN "create" ELSE "update"
              /\ UNCHANGED queue
         ELSE Requeue /\ UNCHANGED found
    /\ UNCHANGED <<mode, slo, rev, cacheVars, rule, group, req, obj, ops, faults>>

\* Create fails when the object is there and the cache did not know.
CreateRule ==
    /\ pc = "create"
    /\ IF rule[req] = None
         THEN /\ StoreRule(req, obj.uid, obj.spec)
              /\ pc' = "update"
              /\ UNCHANGED queue
         ELSE Requeue /\ UNCHANGED rule
    /\ UNCHANGED <<mode, slo, rev, cacheVars, group, req, obj, found, ops, faults>>

\* Mutant: a refused update is only logged.
UpdateRuleIgnoreError ==
    /\ pc = "update"
    /\ IF /\ rule[req] # None
          /\ \/ found # None /\ found.rv = rule[req].rv
             \/ found = None /\ mode = "ConfigMap"
         THEN StoreRule(req, obj.uid, obj.spec) /\ pc' = "status"
         ELSE pc' = "idle" /\ UNCHANGED rule
    /\ UNCHANGED <<mode, slo, rev, cacheVars, group, queue, req, obj, found, ops, faults>>

\* Mutant: the rules are written into the copy that was found, owner included.
UpdateRuleKeepOwner ==
    /\ pc = "update"
    /\ IF /\ rule[req] # None
          /\ \/ found # None /\ found.rv = rule[req].rv
             \/ found = None /\ mode = "ConfigMap"
         THEN /\ StoreRule(req, IF found # None THEN found.owner ELSE obj.uid, obj.spec)
              /\ pc' = "status"
              /\ UNCHANGED queue
         ELSE Requeue /\ UNCHANGED rule
    /\ UNCHANGED <<mode, slo, rev, cacheVars, group, req, obj, found, ops, faults>>

\* Update with the resourceVersion that Get has returned. After a Create that is
\* empty: the API server refuses such an update of a custom resource such as a
\* PrometheusRule, and takes it as unconditional for a ConfigMap.
UpdateRule ==
    /\ pc = "update"
    /\ IF /\ rule[req] # None
          /\ \/ found # None /\ found.rv = rule[req].rv
             \/ found = None /\ mode = "ConfigMap"
         THEN /\ StoreRule(req, obj.uid, obj.spec)
              /\ pc' = "status"
              /\ UNCHANGED queue
         ELSE Requeue /\ UNCHANGED rule
    /\ UNCHANGED <<mode, slo, rev, cacheVars, group, req, obj, found, ops, faults>>

\* Mutant: the whole object is written, without a resourceVersion.
UpdateStatusUnconditional ==
    /\ pc = "status"
    /\ IF slo[req] # None
         THEN Store(req, [obj EXCEPT !.status = TRUE]) /\ Return
         ELSE Requeue /\ UNCHANGED <<slo, rev>>
    /\ UNCHANGED <<mode, cacheVars, rule, group, req, obj, found, ops, faults>>

\* Status().Update, the last call of all three modes.
UpdateStatus ==
    /\ pc = "status"
    /\ IF Current
         THEN Store(req, [obj EXCEPT !.status = TRUE]) /\ Return
         ELSE Requeue /\ UNCHANGED <<slo, rev>>
    /\ UNCHANGED <<mode, cacheVars, rule, group, req, obj, found, ops, faults>>

\* The next call is not answered, or the answer of the last one was lost.
Fail ==
    /\ faults < MaxFaults /\ pc # "idle"
    /\ faults' = faults + 1
    /\ Requeue
    /\ UNCHANGED <<mode, slo, rev, cacheVars, rule, group, req, obj, found, ops>>

\* The process is killed and starts again: it lists all objects into its caches
\* and queues every SLO.
Crash ==
    /\ faults < MaxFaults
    /\ faults' = faults + 1
    /\ sloCache' = slo /\ ruleCache' = rule
    /\ queue' = {s \in SLOs : slo[s] # None}
    /\ pc' = "idle" /\ req' = None /\ obj' = None /\ found' = None
    /\ UNCHANGED <<mode, slo, rev, rule, group, ops>>

User == \E s \in SLOs : \/ \E ok \in BOOLEAN : UserCreate(s, ok) \/ UserUpdate(s, ok)
                        \/ UserDelete(s)

Call ==
    \/ AddFinalizer \/ SetGroup \/ DeleteGroup \/ RemoveFinalizer
    \/ GetRule \/ CreateRule \/ UpdateRule \/ UpdateStatus

Next ==
    \/ User
    \/ \E s \in SLOs : CollectGarbage(s) \/ Inform(s) \/ InformRule(s) \/ Begin(s)
    \/ Call
    \/ Fail \/ Crash

Spec == Init /\ [][Next]_vars

\* Informers and garbage collector make progress, a reconcile that is under way goes
\* on, and the work queue is first in, first out, so that a request that is queued
\* whenever the worker is idle is taken in the end.
FairSpec ==
    /\ Spec
    /\ WF_vars(Call)
    /\ \A s \in SLOs : /\ WF_vars(CollectGarbage(s))
                       /\ WF_vars(Inform(s)) /\ WF_vars(InformRule(s))
                       /\ SF_vars(Begin(s))

-----------------------------------------------------------------------------
(* Properties.                                                               *)

\* What the rules that are published for s come from: <<uid or SLO, spec>>.
Published(s) ==
    IF mode = "Mimir"
      THEN {<<g.slo, g.spec>> : g \in {group[NameOf[s]]} \ {None}}
      ELSE {<<r.owner, r.spec>> : r \in {rule[s]} \ {None}}

Wanted(s) == {<<IF mode = "Mimir" THEN s ELSE slo[s].uid, slo[s].spec>>}

\* The reconciler has nothing to do and has seen everything.
Settled == pc = "idle" /\ queue = {} /\ sloCache = slo

\* When everything is settled, every valid SLO that is not being deleted has
\* exactly the rules of its present spec, and its status says so: there is no
\* order of edits, cache updates, conflicts, failed calls and crashes after which
\* the reconciler believes to be done and is not.
SettledIsPublished ==
    Settled => \A s \in SLOs :
        slo[s] # None /\ slo[s].ok /\ ~slo[s].deleting =>
            Published(s) = Wanted(s) /\ slo[s].status

\* A Mimir rule group belongs to an SLO that still holds the finalizer, so that
\* deleting the SLO will delete the group: also an SLO deleted while the
\* reconciler works on an old copy of it leaves no group behind.
NoOrphanGroup ==
    \A n \in Names : group[n] # None =>
        \E s \in SLOs : NameOf[s] = n /\ slo[s] # None /\ slo[s].fin

\* Rules are never replaced by those of an older spec of the same SLO.
RulesNeverGoBack ==
    [][\A s \in SLOs :
         /\ rule[s] # None /\ rule'[s] # None => rule[s].spec <= rule'[s].spec
         /\ LET g == group[NameOf[s]]  h == group'[NameOf[s]]
            IN  g # None /\ h # None /\ g.slo = h.slo => g.spec <= h.spec]_vars

\* What the reconciler does to the rules of each SLO, seen without its caches, queue,
\* conflicts and retries.
CurrentOf(s) ==
    IF slo[s] = None THEN None
    ELSE [born |-> slo[s].uid, spec |-> slo[s].spec, ok |-> slo[s].ok, going |-> slo[s].deleting]

PublishedOf(s) ==
    IF mode = "Mimir"
      THEN IF group[NameOf[s]] = None THEN None ELSE group[NameOf[s]].spec
      ELSE IF rule[s] = None THEN None ELSE rule[s].spec

Pub == INSTANCE Publication WITH
         current   <- [s \in SLOs |-> CurrentOf(s)],
         latest    <- rev,
         published <- [s \in SLOs |-> PublishedOf(s)]

\* None is no objective and no revision either.
ASSUME NoneAssumption == None \notin Pub!Want \cup Nat

\* The reconciler implements Publication: what it publishes is of revisions of the SLO,
\* in their order, and not withdrawn while the SLO is there to stay.
PublishesInOrder == Pub!Spec

\* Once users and faults come to rest, the rules of every valid SLO are published,
\* those of deleted SLOs are gone, and deleted SLOs have lost their finalizer: what
\* Publication promises for the end, and the status says so.
Converged ==
    \A s \in SLOs : Pub!InStep(s) /\ (slo[s] # None /\ slo[s].ok => slo[s].status)

EventuallyConverged == <>[]Converged

\* "A backend watches for new SLO objects and then creates Prometheus recording
\* rules for each" (README.md): when there is nothing left to do, every valid SLO
\* has rules of its own, whatever its namespace.
RulesForEach ==
    Settled => \A s \in SLOs :
        slo[s] # None /\ slo[s].ok /\ ~slo[s].deleting => Published(s) = Wanted(s)

=============================================================================
