--------------------- MODULE KubernetesReconciler_proofs ---------------------
(* Proofs about KubernetesReconciler for any SLOs and names and any bounds.   *)
EXTENDS KubernetesReconciler, TLAPS

-----------------------------------------------------------------------------
(* The inductive invariant.                                                  *)

\* With v stored at revision r, o is v or an older version of it.
IsCopy(o, v, r) ==
    /\ o.rv <= r /\ o.uid <= o.rv /\ o.spec <= o.rv
    /\ v # None => o.spec <= v.spec /\ (v.rv = o.rv => o = v)

CopyOf(s, o) == IsCopy(o, slo[s], rev[s])

\* The API server numbers the versions of an object upwards, deletion included.
Versions == \A s \in SLOs : slo[s] # None => slo[s].rv = rev[s] /\ CopyOf(s, slo[s])

\* The cache and the worker hold versions the API server had.
Caches == \A s \in SLOs : sloCache[s] # None => CopyOf(s, sloCache[s])

InHand == pc # "idle" => CopyOf(req, obj)

\* The worker's copy comes from the cache, which moves on but never back.
CacheAhead ==
    pc # "idle" /\ sloCache[req] # None =>
        /\ obj.spec <= sloCache[req].spec
        /\ pc \in {"addFinalizer", "deleteGroup", "removeFinalizer"} =>
               obj.rv <= sloCache[req].rv

\* Only the reconcile that sees an SLO deleting takes its finalizer off.
Finalizers ==
    \A s \in SLOs :
        sloCache[s] # None /\ sloCache[s].fin /\ ~sloCache[s].deleting =>
            slo[s] # None /\ slo[s].fin

\* What each call may rely on.
Steps ==
    /\ pc \in {"addFinalizer", "setGroup", "deleteGroup", "removeFinalizer"} => mode = "Mimir"
    /\ pc \in {"getRule", "create", "update"} => mode # "Mimir"
    /\ pc = "setGroup" => slo[req] # None /\ slo[req].fin
    /\ pc \in {"deleteGroup", "removeFinalizer"} => obj.deleting
    /\ pc = "removeFinalizer" => group[NameOf[req]] = None

\* The rules generated from spec k of s: nobody holds an older spec.
Behind(s, k) ==
    /\ k <= rev[s]
    /\ slo[s] # None => k <= slo[s].spec
    /\ sloCache[s] # None => k <= sloCache[s].spec
    /\ pc # "idle" /\ req = s => k <= obj.spec

RulesBehind == \A s \in SLOs : rule[s] # None => Behind(s, rule[s].spec)

GroupsBehind == \A n \in Names : group[n] # None => Behind(group[n].slo, group[n].spec)

\* What is proved by induction for any names.
IInv ==
    /\ TypeOK
    /\ Versions /\ Caches /\ InHand /\ CacheAhead
    /\ Finalizers /\ Steps
    /\ RulesBehind /\ GroupsBehind
    /\ NoOrphanGroup

\* Every SLO has a name of its own.
OwnName == \A s, t \in SLOs : NameOf[s] = NameOf[t] => s = t

\* Before the last call of a reconcile the rules are those of the copy in hand.
StatusLast ==
    pc = "status" /\ slo[req] # None /\ slo[req].uid = obj.uid =>
        IF mode = "Mimir" THEN group[NameOf[req]] = [slo |-> req, spec |-> obj.spec]
        ELSE rule[req] # None /\ rule[req].owner = obj.uid /\ rule[req].spec = obj.spec

\* An SLO that the cache knows and that nobody is about to reconcile is published.
Done ==
    \A s \in SLOs :
        /\ slo[s] # None /\ slo[s].ok /\ ~slo[s].deleting
        /\ sloCache[s] = slo[s] /\ s \notin queue /\ ~(pc # "idle" /\ req = s)
        => Published(s) = Wanted(s) /\ slo[s].status

\* What is proved by induction if every SLO has a name of its own.
PInv == IInv /\ StatusLast /\ Done

-----------------------------------------------------------------------------
(* The API server.                                                           *)

\* Copies are told from missing objects.
LEMMA Copies ==
    /\ \A o \in Object : o # None
    /\ \A r \in Rule : r # None
    /\ \A g \in Group : g # None
  BY ReconcilerAssumption DEF ReconcilerAssumption

\* The names and bounds.
LEMMA Constants ==
    /\ NameOf \in [SLOs -> Names]
    /\ MaxOps \in Nat /\ MaxFaults \in Nat
  BY ReconcilerAssumption DEF ReconcilerAssumption

\* Writing an object either changes nothing or stores the next version of it.
LEMMA StoreNext ==
    ASSUME TypeOK, NEW s \in SLOs, NEW o \in Object, Store(s, o)
    PROVE  /\ slo' \in [SLOs -> Object \cup {None}]
           /\ rev' \in [SLOs -> Nat]
           /\ slo'[s] \in Object
           /\ \A t \in SLOs : t # s => slo'[t] = slo[t] /\ rev'[t] = rev[t]
           /\ \/ o = slo[s] /\ slo' = slo /\ rev' = rev
              \/ /\ rev'[s] = rev[s] + 1
                 /\ slo'[s] = [o EXCEPT !.rv = rev[s] + 1]
<1>1. CASE o = slo[s]
  BY <1>1 DEF Store, TypeOK
<1>2. CASE o # slo[s]
  <2>1. [o EXCEPT !.rv = rev[s] + 1] \in Object
    BY DEF Object, TypeOK
  <2>2. QED
    BY <1>2, <2>1 DEF Store, TypeOK
<1>3. QED
  BY <1>1, <1>2

\* Removing an object uses up a version.
LEMMA RemoveNext ==
    ASSUME TypeOK, NEW s \in SLOs, Remove(s)
    PROVE  /\ slo' \in [SLOs -> Object \cup {None}]
           /\ rev' \in [SLOs -> Nat]
           /\ slo'[s] = None /\ rev'[s] = rev[s] + 1
           /\ \A t \in SLOs : t # s => slo'[t] = slo[t] /\ rev'[t] = rev[t]
  BY DEF Remove, TypeOK

\* Four resourceVersions are enough to tell three copies apart from a new one.
LEMMA FreshVersionType ==
    ASSUME TypeOK, NEW s \in SLOs
    PROVE  FreshVersion(s) \in 1..4
<1> DEFINE Known == {rule[s], ruleCache[s], found} \ {None}
           Fresh(r) == \A x \in Known : x.rv # r
<1>1. Fresh(1) \/ Fresh(2) \/ Fresh(3) \/ Fresh(4)
  OBVIOUS
<1>2. \E r \in 1..4 : Fresh(r)
  BY <1>1
<1>3. QED
  BY <1>2 DEF FreshVersion

\* A rule object is written with the given owner and spec.
LEMMA StoreRuleNext ==
    ASSUME TypeOK, NEW s \in SLOs, NEW o \in Nat, NEW k \in Nat, StoreRule(s, o, k)
    PROVE  /\ rule' \in [SLOs -> Rule \cup {None}]
           /\ rule'[s] \in Rule /\ rule'[s].owner = o /\ rule'[s].spec = k
           /\ \A t \in SLOs : t # s => rule'[t] = rule[t]
<1>1. CASE rule[s] # None /\ rule[s].owner = o /\ rule[s].spec = k
  BY <1>1 DEF StoreRule, TypeOK
<1>2. CASE ~(rule[s] # None /\ rule[s].owner = o /\ rule[s].spec = k)
  <2> DEFINE new == [owner |-> o, rv |-> FreshVersion(s), spec |-> k]
  <2>1. new \in Rule
    BY FreshVersionType DEF Rule
  <2>2. rule' = [rule EXCEPT ![s] = new]
    BY <1>2 DEF StoreRule
  <2>3. QED
    BY <2>1, <2>2 DEF TypeOK
<1>3. QED
  BY <1>1, <1>2

-----------------------------------------------------------------------------
(* Type correctness.                                                         *)

\* The objects that users and the worker write.
LEMMA ObjectTypes ==
    ASSUME NEW o \in Object, NEW k \in Nat, NEW ok \in BOOLEAN
    PROVE  /\ [uid |-> k, rv |-> 0, spec |-> k, ok |-> ok,
               deleting |-> FALSE, fin |-> FALSE, status |-> FALSE] \in Object
           /\ [o EXCEPT !.spec = k, !.ok = ok] \in Object
           /\ [o EXCEPT !.deleting = TRUE] \in Object
           /\ [o EXCEPT !.fin = TRUE] \in Object
           /\ [o EXCEPT !.status = TRUE] \in Object
  BY DEF Object

LEMMA InitTypeOK == Init => TypeOK
  BY Constants DEF Init, TypeOK

LEMMA UserTypeOK ==
    ASSUME TypeOK, User
    PROVE  TypeOK'
<1>1. ASSUME NEW s \in SLOs, NEW ok \in BOOLEAN, UserCreate(s, ok)
      PROVE  TypeOK'
  <2> DEFINE new == [uid |-> rev[s] + 1, rv |-> 0, spec |-> rev[s] + 1, ok |-> ok,
                     deleting |-> FALSE, fin |-> FALSE, status |-> FALSE]
  <2>1. new \in Object
    BY DEF Object, TypeOK
  <2>2. Store(s, new)
    BY <1>1 DEF UserCreate
  <2>3. /\ slo' \in [SLOs -> Object \cup {None}]
        /\ rev' \in [SLOs -> Nat]
    BY <2>1, <2>2, StoreNext
  <2>4. QED
    BY <1>1, <2>3, Constants DEF UserCreate, TypeOK, cacheVars, workerVars
<1>2. ASSUME NEW s \in SLOs, NEW ok \in BOOLEAN, UserUpdate(s, ok)
      PROVE  TypeOK'
  <2> DEFINE new == [slo[s] EXCEPT !.spec = rev[s] + 1, !.ok = ok]
  <2>1. new \in Object
    <3>1. slo[s] \in Object /\ rev[s] + 1 \in Nat
      BY <1>2 DEF UserUpdate, TypeOK
    <3>2. QED
      BY <3>1, ObjectTypes
  <2>2. Store(s, new)
    BY <1>2 DEF UserUpdate
  <2>3. /\ slo' \in [SLOs -> Object \cup {None}]
        /\ rev' \in [SLOs -> Nat]
    BY <2>1, <2>2, StoreNext
  <2>4. QED
    BY <1>2, <2>3, Constants DEF UserUpdate, TypeOK, cacheVars, workerVars
<1>3. ASSUME NEW s \in SLOs, UserDelete(s)
      PROVE  TypeOK'
  <2> DEFINE new == [slo[s] EXCEPT !.deleting = TRUE]
  <2>1. new \in Object
    BY <1>3, ObjectTypes DEF UserDelete, TypeOK
  <2>2. Store(s, new) \/ Remove(s)
    BY <1>3 DEF UserDelete
  <2>3. /\ slo' \in [SLOs -> Object \cup {None}]
        /\ rev' \in [SLOs -> Nat]
    BY <2>1, <2>2, StoreNext, RemoveNext
  <2>4. QED
    BY <1>3, <2>3, Constants DEF UserDelete, TypeOK, cacheVars, workerVars
<1>4. QED
  BY <1>1, <1>2, <1>3 DEF User

\* The steps of informers, garbage collector and queue.
LEMMA SystemTypeOK ==
    ASSUME TypeOK, NEW s \in SLOs,
           CollectGarbage(s) \/ Inform(s) \/ InformRule(s) \/ Begin(s)
    PROVE  TypeOK'
<1>1. CASE CollectGarbage(s)
  BY <1>1 DEF CollectGarbage, TypeOK, cacheVars, workerVars
<1>2. CASE Inform(s)
  BY <1>2 DEF Inform, TypeOK, workerVars
<1>3. CASE InformRule(s)
  BY <1>3 DEF InformRule, TypeOK, workerVars
<1>4. CASE Begin(s)
  BY <1>4 DEF Begin, TypeOK, cacheVars, Calls
<1>5. QED
  BY <1>1, <1>2, <1>3, <1>4

\* The calls that write the SLO: each stores its copy, removes it, or is refused.
SLOCall ==
    /\ slo' \in [SLOs -> Object \cup {None}]
    /\ rev' \in [SLOs -> Nat]
    /\ pc # "idle" /\ req' = req /\ pc' \in Calls \cup {"idle"}
    /\ obj' \in Object
    /\ queue' \in {queue, queue \cup {req}}
    /\ UNCHANGED <<mode, sloCache, ruleCache, rule, group, found, ops, faults>>

LEMMA AddFinalizerCall ==
    ASSUME TypeOK, AddFinalizer
    PROVE  SLOCall
<1>1. req \in SLOs /\ obj \in Object /\ [obj EXCEPT !.fin = TRUE] \in Object
  BY ObjectTypes DEF TypeOK, AddFinalizer
<1>2. CASE Current
  BY <1>1, <1>2, StoreNext DEF AddFinalizer, SLOCall, Calls, cacheVars
<1>3. CASE ~Current
  BY <1>1, <1>3 DEF AddFinalizer, SLOCall, Calls, TypeOK, Requeue, cacheVars
<1>4. QED
  BY <1>2, <1>3

LEMMA RemoveFinalizerCall ==
    ASSUME TypeOK, RemoveFinalizer
    PROVE  SLOCall
<1>1. req \in SLOs /\ obj \in Object
  BY DEF TypeOK, RemoveFinalizer
<1>2. CASE Current
  BY <1>1, <1>2, RemoveNext DEF RemoveFinalizer, SLOCall, Return, cacheVars
<1>3. CASE ~Current
  BY <1>1, <1>3 DEF RemoveFinalizer, SLOCall, TypeOK, Requeue, cacheVars
<1>4. QED
  BY <1>2, <1>3

LEMMA UpdateStatusCall ==
    ASSUME TypeOK, UpdateStatus
    PROVE  SLOCall
<1>1. req \in SLOs /\ obj \in Object /\ [obj EXCEPT !.status = TRUE] \in Object
  BY ObjectTypes DEF TypeOK, UpdateStatus
<1>2. CASE Current
  BY <1>1, <1>2, StoreNext DEF UpdateStatus, SLOCall, Return, cacheVars
<1>3. CASE ~Current
  BY <1>1, <1>3 DEF UpdateStatus, SLOCall, TypeOK, Requeue, cacheVars
<1>4. QED
  BY <1>2, <1>3

LEMMA CallTypeOK ==
    ASSUME TypeOK, Call
    PROVE  TypeOK'
<1> USE Constants
<1>0. pc # "idle" => req \in SLOs /\ obj \in Object
                     /\ obj.spec \in Nat /\ obj.uid \in Nat
  BY DEF TypeOK, Object
<1>1. CASE SLOCall
  BY <1>0, <1>1 DEF SLOCall, TypeOK
<1>2. CASE SetGroup
  <2>1. [slo |-> req, spec |-> obj.spec] \in Group
    BY <1>0, <1>2 DEF SetGroup, Group
  <2>2. QED
    BY <1>0, <1>2, <2>1 DEF SetGroup, TypeOK, Requeue, Calls, cacheVars
<1>3. CASE DeleteGroup
  BY <1>0, <1>3 DEF DeleteGroup, TypeOK, Requeue, Calls, cacheVars
<1>4. CASE GetRule
  BY <1>0, <1>4 DEF GetRule, TypeOK, Requeue, Calls, cacheVars
<1>5. CASE CreateRule
  <2>1. rule' \in [SLOs -> Rule \cup {None}]
    BY <1>0, <1>5, StoreRuleNext DEF CreateRule, TypeOK
  <2>2. QED
    BY <1>0, <1>5, <2>1 DEF CreateRule, TypeOK, Requeue, Calls, cacheVars
<1>6. CASE UpdateRule
  <2>1. rule' \in [SLOs -> Rule \cup {None}]
    BY <1>0, <1>6, StoreRuleNext DEF UpdateRule, TypeOK
  <2>2. QED
    BY <1>0, <1>6, <2>1 DEF UpdateRule, TypeOK, Requeue, Calls, cacheVars
<1>7. QED
  BY <1>1, <1>2, <1>3, <1>4, <1>5, <1>6,
     AddFinalizerCall, RemoveFinalizerCall, UpdateStatusCall DEF Call

LEMMA NextTypeOK ==
    ASSUME TypeOK, [Next]_vars
    PROVE  TypeOK'
<1>1. CASE UNCHANGED vars
  BY <1>1 DEF vars, TypeOK, cacheVars
<1>2. CASE User
  BY <1>2, UserTypeOK
<1>3. CASE Call
  BY <1>3, CallTypeOK
<1>4. ASSUME NEW s \in SLOs, CollectGarbage(s) \/ Inform(s) \/ InformRule(s) \/ Begin(s)
      PROVE  TypeOK'
  BY <1>4, SystemTypeOK
<1>5. CASE Fail
  BY <1>5, Constants DEF Fail, Requeue, TypeOK, cacheVars
<1>6. CASE Crash
  BY <1>6, Constants DEF Crash, TypeOK
<1>7. QED
  BY <1>1, <1>2, <1>3, <1>4, <1>5, <1>6 DEF Next

-----------------------------------------------------------------------------
(* How a step moves each part of the state.                                  *)

\* From v at revision r to w at revision q: unchanged, or the next revision.
Evolution(v, r, w, q) ==
    \/ w = v /\ q = r
    \/ /\ q = r + 1
       /\ w # None =>
            /\ w.rv = q /\ w.uid <= q /\ w.spec <= q
            /\ v # None => w.uid = v.uid /\ v.spec <= w.spec
            /\ v = None => w.uid = q /\ w.spec = q

Evolves(s) == Evolution(slo[s], rev[s], slo'[s], rev'[s])

\* A copy remains one.
LEMMA KeepsCopy ==
    ASSUME NEW o \in Object, NEW v \in Object \cup {None}, NEW w \in Object \cup {None},
           NEW r \in Nat, NEW q \in Nat,
           v # None => v.rv = r,
           IsCopy(o, v, r), Evolution(v, r, w, q)
    PROVE  IsCopy(o, w, q)
  BY DEF IsCopy, Evolution, Object

\* The worker writes only if it holds the stored version.
LEMMA CurrentIsStored ==
    ASSUME IInv, pc # "idle", Current
    PROVE  slo[req] = obj
  BY DEF IInv, InHand, CopyOf, IsCopy, Current

\* A write of the next spec, or of the same one, is the next revision of the SLO.
LEMMA StoreEvolves ==
    ASSUME IInv, NEW s \in SLOs, NEW o \in Object, Store(s, o),
           slo[s] = None => o.uid = rev[s] + 1 /\ o.spec = rev[s] + 1,
           slo[s] # None => o.uid = slo[s].uid /\ o.spec \in {slo[s].spec, rev[s] + 1}
    PROVE  \A t \in SLOs : Evolves(t)
<1>1. TypeOK /\ rev[s] \in Nat
  BY DEF IInv, TypeOK
<1>2. \A t \in SLOs \ {s} : Evolves(t)
  BY <1>1, StoreNext DEF Evolves, Evolution
<1>3. CASE o = slo[s] /\ slo' = slo /\ rev' = rev
  BY <1>3, <1>2 DEF Evolves, Evolution
<1>4. CASE rev'[s] = rev[s] + 1 /\ slo'[s] = [o EXCEPT !.rv = rev[s] + 1]
  <2> DEFINE w == [o EXCEPT !.rv = rev[s] + 1]
  <2>1. w.rv = rev[s] + 1 /\ w.uid = o.uid /\ w.spec = o.spec
    BY DEF Object
  <2>2. slo[s] # None => /\ slo[s] \in Object /\ slo[s].rv = rev[s]
                         /\ slo[s].uid <= rev[s] /\ slo[s].spec <= rev[s]
    BY <1>1 DEF IInv, TypeOK, Versions, CopyOf, IsCopy
  <2>3. slo[s] # None => slo[s].uid \in Nat /\ slo[s].spec \in Nat
    BY <2>2 DEF Object
  <2>4. Evolution(slo[s], rev[s], w, rev[s] + 1)
    BY <1>1, <2>1, <2>2, <2>3 DEF Evolution
  <2>5. QED
    BY <1>2, <1>4, <2>4 DEF Evolves
<1>5. QED
  BY <1>1, <1>3, <1>4, StoreNext

LEMMA RemoveEvolves ==
    ASSUME TypeOK, NEW s \in SLOs, Remove(s)
    PROVE  \A t \in SLOs : Evolves(t)
  BY RemoveNext DEF Evolves, Evolution

LEMMA UserEvolves ==
    ASSUME IInv, User
    PROVE  \A t \in SLOs : Evolves(t)
<1>0. TypeOK
  BY DEF IInv
<1>1. ASSUME NEW s \in SLOs, NEW ok \in BOOLEAN, UserCreate(s, ok)
      PROVE  \A t \in SLOs : Evolves(t)
  <2> DEFINE new == [uid |-> rev[s] + 1, rv |-> 0, spec |-> rev[s] + 1, ok |-> ok,
                     deleting |-> FALSE, fin |-> FALSE, status |-> FALSE]
  <2>1. new \in Object /\ Store(s, new) /\ slo[s] = None
    BY <1>0, <1>1 DEF Object, TypeOK, UserCreate
  <2>2. new.uid = rev[s] + 1 /\ new.spec = rev[s] + 1
    OBVIOUS
  <2>3. QED
    BY <2>1, <2>2, StoreEvolves
<1>2. ASSUME NEW s \in SLOs, NEW ok \in BOOLEAN, UserUpdate(s, ok)
      PROVE  \A t \in SLOs : Evolves(t)
  <2> DEFINE new == [slo[s] EXCEPT !.spec = rev[s] + 1, !.ok = ok]
  <2>1. slo[s] \in Object /\ slo[s] # None /\ rev[s] + 1 \in Nat /\ Store(s, new)
    BY <1>0, <1>2 DEF UserUpdate, TypeOK
  <2>2. /\ new \in Object
        /\ new.uid = slo[s].uid /\ new.spec = rev[s] + 1
    BY <2>1, ObjectTypes DEF Object
  <2>3. QED
    BY <2>1, <2>2, StoreEvolves
<1>3. ASSUME NEW s \in SLOs, UserDelete(s)
      PROVE  \A t \in SLOs : Evolves(t)
  <2> DEFINE new == [slo[s] EXCEPT !.deleting = TRUE]
  <2>1. slo[s] \in Object /\ slo[s] # None
    BY <1>0, <1>3 DEF UserDelete, TypeOK
  <2>2. /\ new \in Object
        /\ new.uid = slo[s].uid /\ new.spec = slo[s].spec
    BY <2>1, ObjectTypes DEF Object
  <2>3. Store(s, new) => \A t \in SLOs : Evolves(t)
    BY <2>1, <2>2, StoreEvolves
  <2>4. QED
    BY <1>0, <1>3, <2>3, RemoveEvolves DEF UserDelete
<1>4. QED
  BY <1>1, <1>2, <1>3 DEF User

LEMMA CallEvolves ==
    ASSUME IInv, Call
    PROVE  \A t \in SLOs : Evolves(t)
<1>0. TypeOK
  BY DEF IInv
<1>1. CASE AddFinalizer /\ Current
  <2> DEFINE new == [obj EXCEPT !.fin = TRUE]
  <2>1. req \in SLOs /\ obj \in Object /\ slo[req] = obj /\ Store(req, new)
    BY <1>0, <1>1, CurrentIsStored DEF AddFinalizer, TypeOK
  <2>2. new \in Object /\ new.uid = obj.uid /\ new.spec = obj.spec
    BY <2>1, ObjectTypes DEF Object
  <2>3. QED
    BY <2>1, <2>2, Copies, StoreEvolves
<1>2. CASE UpdateStatus /\ Current
  <2> DEFINE new == [obj EXCEPT !.status = TRUE]
  <2>1. req \in SLOs /\ obj \in Object /\ slo[req] = obj /\ Store(req, new)
    BY <1>0, <1>2, CurrentIsStored DEF UpdateStatus, TypeOK
  <2>2. new \in Object /\ new.uid = obj.uid /\ new.spec = obj.spec
    BY <2>1, ObjectTypes DEF Object
  <2>3. QED
    BY <2>1, <2>2, Copies, StoreEvolves
<1>3. CASE RemoveFinalizer /\ Current
  BY <1>0, <1>3, RemoveEvolves DEF RemoveFinalizer, TypeOK
<1>4. CASE UNCHANGED <<slo, rev>>
  BY <1>4 DEF Evolves, Evolution
<1>5. QED
  BY <1>1, <1>2, <1>3, <1>4
     DEF Call, AddFinalizer, UpdateStatus, RemoveFinalizer, SetGroup, DeleteGroup,
         GetRule, CreateRule, UpdateRule

\* Every SLO is unchanged or moves to its next revision.
LEMMA NextEvolves ==
    ASSUME IInv, [Next]_vars
    PROVE  \A t \in SLOs : Evolves(t)
<1>1. CASE UNCHANGED <<slo, rev>>
  BY <1>1 DEF Evolves, Evolution
<1>2. QED
  BY <1>1, UserEvolves, CallEvolves
     DEF Next, vars, CollectGarbage, Inform, InformRule, Begin, Fail, Crash

\* The cache of an SLO stays or is brought up to date.
LEMMA CacheMoves ==
    ASSUME TypeOK, [Next]_vars, NEW s \in SLOs
    PROVE  \/ sloCache'[s] = sloCache[s]
           \/ sloCache'[s] = slo[s] /\ slo' = slo /\ rev' = rev
<1>1. CASE UNCHANGED sloCache
  BY <1>1
<1>2. CASE \E t \in SLOs : Inform(t)
  BY <1>2 DEF Inform, TypeOK
<1>3. CASE Crash
  BY <1>3 DEF Crash
<1>4. QED
  BY <1>1, <1>2, <1>3
     DEF Next, vars, User, Call, CollectGarbage, InformRule, Begin, Fail,
         UserCreate, UserUpdate, UserDelete, AddFinalizer, UpdateStatus,
         RemoveFinalizer, SetGroup, DeleteGroup, GetRule, CreateRule, UpdateRule,
         cacheVars

\* The calls that must not act on a version older than the cached one.
Guarded == {"addFinalizer", "deleteGroup", "removeFinalizer"}

\* The worker goes on with its copy, ...
KeepHand ==
    /\ pc # "idle" /\ req' = req /\ obj' = obj
    /\ pc' \in Guarded => pc \in Guarded

\* ... takes one from the cache, ...
TakeHand ==
    /\ \E s \in SLOs : Begin(s)
    /\ req' \in SLOs /\ sloCache[req'] # None /\ obj' = sloCache[req']
    /\ UNCHANGED <<slo, rev, sloCache, rule, group>>

\* ... or has the one that AddFinalizer has stored.
RefreshHand ==
    /\ AddFinalizer /\ Current
    /\ pc' = "setGroup" /\ req' = req
    /\ obj' = slo'[req] /\ obj'.spec = obj.spec /\ obj'.fin
    /\ UNCHANGED <<sloCache, rule, group>>

LEMMA AddFinalizerRefreshes ==
    ASSUME IInv, AddFinalizer, Current
    PROVE  RefreshHand
<1> DEFINE new == [obj EXCEPT !.fin = TRUE]
<1>1. TypeOK /\ req \in SLOs /\ obj \in Object /\ Store(req, new)
  BY DEF IInv, TypeOK, AddFinalizer
<1>2. /\ new \in Object /\ new.fin /\ new.spec = obj.spec
      /\ [new EXCEPT !.rv = rev[req] + 1].fin
      /\ [new EXCEPT !.rv = rev[req] + 1].spec = obj.spec
  BY <1>1, ObjectTypes DEF Object
<1>3. slo'[req] = new \/ slo'[req] = [new EXCEPT !.rv = rev[req] + 1]
  BY <1>1, <1>2, StoreNext
<1>4. slo'[req].fin /\ slo'[req].spec = obj.spec
  BY <1>2, <1>3
<1>5. QED
  BY <1>4 DEF RefreshHand, AddFinalizer, cacheVars

LEMMA HandMoves ==
    ASSUME IInv, [Next]_vars, pc' # "idle"
    PROVE  KeepHand \/ TakeHand \/ RefreshHand
<1>1. CASE UNCHANGED <<pc, req, obj>>
  BY <1>1 DEF KeepHand
<1>2. ASSUME NEW s \in SLOs, Begin(s)
      PROVE  TakeHand
  BY <1>2 DEF Begin, TakeHand, cacheVars
<1>3. CASE AddFinalizer
  BY <1>3, AddFinalizerRefreshes DEF AddFinalizer, Requeue
<1>4. CASE SetGroup \/ GetRule \/ CreateRule \/ UpdateRule \/ UpdateStatus
  BY <1>4 DEF SetGroup, GetRule, CreateRule, UpdateRule, UpdateStatus, Requeue,
              Return, KeepHand, Guarded
<1>5. CASE DeleteGroup \/ RemoveFinalizer
  BY <1>5 DEF DeleteGroup, RemoveFinalizer, Requeue, Return, KeepHand, Guarded
<1>6. QED
  BY <1>1, <1>2, <1>3, <1>4, <1>5
     DEF Next, vars, User, Call, CollectGarbage, Inform, InformRule, Fail, Crash,
         Requeue, UserCreate, UserUpdate, UserDelete, workerVars

\* A rule object is kept, deleted, or written from the copy in hand.
LEMMA RuleMoves ==
    ASSUME IInv, [Next]_vars, NEW s \in SLOs
    PROVE  \/ rule'[s] \in {rule[s], None}
           \/ /\ pc # "idle" /\ req = s /\ obj' = obj /\ req' = req
              /\ rule'[s] \in Rule
              /\ rule'[s].owner = obj.uid /\ rule'[s].spec = obj.spec
              /\ UNCHANGED <<slo, rev, sloCache>>
<1>0. TypeOK
  BY DEF IInv
<1>1. CASE UNCHANGED rule
  BY <1>1
<1>2. CASE \E t \in SLOs : CollectGarbage(t)
  BY <1>0, <1>2 DEF CollectGarbage, TypeOK
<1>3. CASE CreateRule \/ UpdateRule
  <2>1. req \in SLOs /\ obj \in Object /\ obj.uid \in Nat /\ obj.spec \in Nat
    BY <1>0, <1>3 DEF CreateRule, UpdateRule, TypeOK, Object
  <2>2. CASE StoreRule(req, obj.uid, obj.spec)
    BY <1>0, <1>3, <2>1, <2>2, StoreRuleNext DEF CreateRule, UpdateRule, cacheVars
  <2>3. QED
    BY <1>1, <1>3, <2>2 DEF CreateRule, UpdateRule
<1>4. QED
  BY <1>1, <1>2, <1>3
     DEF Next, vars, User, Call, Inform, InformRule, Begin, Fail, Crash,
         UserCreate, UserUpdate, UserDelete, AddFinalizer, UpdateStatus,
         RemoveFinalizer, SetGroup, DeleteGroup, GetRule

\* A rule group is kept, deleted, or written from the copy in hand.
LEMMA GroupMoves ==
    ASSUME IInv, [Next]_vars, NEW n \in Names
    PROVE  \/ group'[n] \in {group[n], None}
           \/ /\ SetGroup /\ req \in SLOs /\ n = NameOf[req]
              /\ group'[n] = [slo |-> req, spec |-> obj.spec]
              /\ req' = req /\ obj' = obj
              /\ UNCHANGED <<slo, rev, sloCache>>
<1>0. TypeOK
  BY DEF IInv
<1>1. CASE UNCHANGED group
  BY <1>1
<1>2. CASE DeleteGroup
  BY <1>0, <1>2 DEF DeleteGroup, TypeOK
<1>3. CASE SetGroup
  BY <1>0, <1>3 DEF SetGroup, TypeOK, cacheVars
<1>4. QED
  BY <1>1, <1>2, <1>3
     DEF Next, vars, User, Call, CollectGarbage, Inform, InformRule, Begin, Fail, Crash,
         UserCreate, UserUpdate, UserDelete, AddFinalizer, UpdateStatus,
         RemoveFinalizer, GetRule, CreateRule, UpdateRule

\* An SLO keeps its finalizer until the reconcile of its deletion takes it off.
LEMMA FinalizerKept ==
    ASSUME IInv, [Next]_vars, NEW s \in SLOs, slo[s] # None, slo[s].fin
    PROVE  \/ slo'[s] # None /\ slo'[s].fin
           \/ RemoveFinalizer /\ Current /\ req = s
<1>0. TypeOK /\ slo[s] \in Object /\ rev[s] \in Nat
  BY DEF IInv, TypeOK
<1>1. CASE UNCHANGED <<slo, rev>>
  BY <1>1
<1>2. ASSUME NEW t \in SLOs, NEW o \in Object, Store(t, o), t = s => o.fin
      PROVE  slo'[s] # None /\ slo'[s].fin
  <2>1. CASE t # s
    BY <1>0, <1>2, <2>1, StoreNext
  <2>2. CASE t = s
    <3>1. [o EXCEPT !.rv = rev[s] + 1].fin = o.fin
      BY DEF Object
    <3>2. QED
      BY <1>0, <1>2, <2>2, <3>1, StoreNext, Copies
  <2>3. QED
    BY <2>1, <2>2
<1>3. ASSUME NEW t \in SLOs, NEW ok \in BOOLEAN, UserCreate(t, ok)
      PROVE  slo'[s] # None /\ slo'[s].fin
  <2> DEFINE new == [uid |-> rev[t] + 1, rv |-> 0, spec |-> rev[t] + 1, ok |-> ok,
                     deleting |-> FALSE, fin |-> FALSE, status |-> FALSE]
  <2>1. new \in Object /\ Store(t, new) /\ t # s
    BY <1>0, <1>3 DEF Object, TypeOK, UserCreate
  <2>2. QED
    BY <1>2, <2>1
<1>4. ASSUME NEW t \in SLOs, NEW ok \in BOOLEAN, UserUpdate(t, ok)
      PROVE  slo'[s] # None /\ slo'[s].fin
  <2> DEFINE new == [slo[t] EXCEPT !.spec = rev[t] + 1, !.ok = ok]
  <2>1. slo[t] \in Object /\ rev[t] + 1 \in Nat /\ Store(t, new)
    BY <1>0, <1>4 DEF UserUpdate, TypeOK
  <2>2. new \in Object /\ new.fin = slo[t].fin
    BY <2>1, ObjectTypes DEF Object
  <2>3. QED
    BY <1>2, <2>1, <2>2
<1>5. ASSUME NEW t \in SLOs, UserDelete(t)
      PROVE  slo'[s] # None /\ slo'[s].fin
  <2> DEFINE new == [slo[t] EXCEPT !.deleting = TRUE]
  <2>1. slo[t] \in Object
    BY <1>0, <1>5 DEF UserDelete, TypeOK
  <2>2. new \in Object /\ new.fin = slo[t].fin
    BY <2>1, ObjectTypes DEF Object
  <2>3. CASE slo[t].fin
    BY <1>2, <1>5, <2>2, <2>3 DEF UserDelete
  <2>4. CASE ~slo[t].fin
    BY <1>0, <1>5, <2>4, RemoveNext DEF UserDelete
  <2>5. QED
    BY <2>3, <2>4
<1>6. CASE AddFinalizer /\ Current
  <2> DEFINE new == [obj EXCEPT !.fin = TRUE]
  <2>1. req \in SLOs /\ obj \in Object /\ Store(req, new)
    BY <1>0, <1>6 DEF AddFinalizer, TypeOK
  <2>2. new \in Object /\ new.fin
    BY <2>1, ObjectTypes DEF Object
  <2>3. QED
    BY <1>2, <2>1, <2>2
<1>7. CASE UpdateStatus /\ Current
  <2> DEFINE new == [obj EXCEPT !.status = TRUE]
  <2>1. req \in SLOs /\ obj \in Object /\ slo[req] = obj /\ Store(req, new)
    BY <1>0, <1>7, CurrentIsStored DEF UpdateStatus, TypeOK
  <2>2. new \in Object /\ new.fin = slo[req].fin
    BY <2>1, ObjectTypes DEF Object
  <2>3. QED
    BY <1>2, <2>1, <2>2
<1>8. CASE RemoveFinalizer /\ Current
  <2>1. req \in SLOs /\ Remove(req)
    BY <1>0, <1>8 DEF RemoveFinalizer, TypeOK
  <2>2. QED
    BY <1>0, <1>8, <2>1, RemoveNext
<1>9. QED
  BY <1>1, <1>3, <1>4, <1>5, <1>6, <1>7, <1>8
     DEF Next, vars, User, Call, CollectGarbage, Inform, InformRule, Begin, Fail, Crash,
         AddFinalizer, UpdateStatus, RemoveFinalizer, SetGroup, DeleteGroup, GetRule,
         CreateRule, UpdateRule

-----------------------------------------------------------------------------
(* Every conjunct of the invariant is preserved.                             *)

\* The types of what a step finds and leaves.
LEMMA StepTypes ==
    ASSUME IInv, [Next]_vars
    PROVE  /\ TypeOK /\ TypeOK'
           /\ \A s \in SLOs : /\ slo[s] \in Object \cup {None}
                              /\ slo'[s] \in Object \cup {None}
                              /\ sloCache[s] \in Object \cup {None}
                              /\ sloCache'[s] \in Object \cup {None}
                              /\ rev[s] \in Nat /\ rev'[s] \in Nat
                              /\ slo[s] # None => slo[s].rv = rev[s]
  BY NextTypeOK DEF IInv, TypeOK, Versions

\* A copy of s remains one in every step.
LEMMA CopyKept ==
    ASSUME IInv, [Next]_vars, NEW s \in SLOs
    PROVE  \A o \in Object : IsCopy(o, slo[s], rev[s]) => IsCopy(o, slo'[s], rev'[s])
  BY StepTypes, NextEvolves, KeepsCopy DEF Evolves

LEMMA VersionsNext ==
    ASSUME IInv, [Next]_vars
    PROVE  Versions'
<1> SUFFICES ASSUME NEW s \in SLOs, slo'[s] # None
             PROVE  slo'[s].rv = rev'[s] /\ IsCopy(slo'[s], slo'[s], rev'[s])
  BY DEF Versions, CopyOf
<1>1. CASE slo'[s] = slo[s] /\ rev'[s] = rev[s]
  BY <1>1 DEF IInv, Versions, CopyOf
<1>2. CASE ~(slo'[s] = slo[s] /\ rev'[s] = rev[s])
  <2>1. /\ slo'[s].rv = rev'[s] /\ slo'[s].uid <= rev'[s] /\ slo'[s].spec <= rev'[s]
        /\ slo'[s] \in Object
    BY <1>2, StepTypes, NextEvolves DEF Evolves, Evolution
  <2>2. QED
    BY <2>1, StepTypes DEF IsCopy, Object
<1>3. QED
  BY <1>1, <1>2

LEMMA CachesNext ==
    ASSUME IInv, [Next]_vars
    PROVE  Caches'
<1> SUFFICES ASSUME NEW s \in SLOs, sloCache'[s] # None
             PROVE  IsCopy(sloCache'[s], slo'[s], rev'[s])
  BY DEF Caches, CopyOf
<1>1. CASE sloCache'[s] = sloCache[s]
  BY <1>1, StepTypes, CopyKept DEF IInv, Caches, CopyOf
<1>2. CASE sloCache'[s] = slo[s] /\ slo' = slo /\ rev' = rev
  BY <1>2 DEF IInv, Versions, CopyOf
<1>3. QED
  BY <1>1, <1>2, StepTypes, CacheMoves

LEMMA InHandNext ==
    ASSUME IInv, [Next]_vars
    PROVE  InHand'
<1> SUFFICES ASSUME pc' # "idle"
             PROVE  IsCopy(obj', slo'[req'], rev'[req'])
  BY DEF InHand, CopyOf
<1>1. CASE KeepHand
  <2>1. req \in SLOs /\ obj \in Object /\ IsCopy(obj, slo[req], rev[req])
    BY <1>1 DEF KeepHand, IInv, TypeOK, InHand, CopyOf
  <2>2. QED
    BY <1>1, <2>1, CopyKept DEF KeepHand
<1>2. CASE TakeHand
  BY <1>2 DEF TakeHand, IInv, Caches, CopyOf
<1>3. CASE RefreshHand
  <2>1. req \in SLOs /\ slo'[req] # None
    BY <1>3, StepTypes, Copies DEF RefreshHand, AddFinalizer, TypeOK
  <2>2. QED
    BY <1>3, <2>1, VersionsNext DEF RefreshHand, Versions, CopyOf
<1>4. QED
  BY <1>1, <1>2, <1>3, HandMoves

LEMMA CacheAheadNext ==
    ASSUME IInv, [Next]_vars
    PROVE  CacheAhead'
<1> SUFFICES ASSUME pc' # "idle", sloCache'[req'] # None
             PROVE  /\ obj'.spec <= sloCache'[req'].spec
                    /\ pc' \in Guarded => obj'.rv <= sloCache'[req'].rv
  BY DEF CacheAhead, Guarded
<1>0. req' \in SLOs /\ obj' \in Object
  BY StepTypes DEF TypeOK
<1>1. CASE KeepHand
  <2>1. CASE sloCache'[req] = sloCache[req]
    BY <1>1, <2>1 DEF KeepHand, IInv, CacheAhead, Guarded
  <2>2. CASE sloCache'[req] = slo[req] /\ slo' = slo /\ rev' = rev
    <3>1. IsCopy(obj, slo[req], rev[req])
      BY <1>1 DEF KeepHand, IInv, InHand, CopyOf
    <3>2. QED
      BY <1>0, <1>1, <2>2, <3>1, StepTypes DEF KeepHand, IsCopy
  <2>3. QED
    BY <1>0, <1>1, <2>1, <2>2, StepTypes, CacheMoves DEF KeepHand
<1>2. CASE TakeHand
  BY <1>0, <1>2 DEF TakeHand, Object
<1>3. CASE RefreshHand
  BY <1>3 DEF RefreshHand, Guarded, IInv, CacheAhead, AddFinalizer
<1>4. QED
  BY <1>1, <1>2, <1>3, HandMoves

\* The reconcile that takes a finalizer off has no newer, live version in its cache.
LEMMA RemoveFinalizerCache ==
    ASSUME IInv, RemoveFinalizer, Current, sloCache[req] # None
    PROVE  sloCache[req].deleting
<1>1. /\ req \in SLOs /\ obj \in Object /\ sloCache[req] \in Object
      /\ slo[req] = obj /\ obj # None /\ obj.deleting /\ rev[req] \in Nat
  BY CurrentIsStored, Copies DEF IInv, TypeOK, Steps, RemoveFinalizer
<1>2. /\ obj.rv <= sloCache[req].rv /\ obj.rv = rev[req]
      /\ IsCopy(sloCache[req], slo[req], rev[req])
  BY <1>1 DEF IInv, CacheAhead, Versions, Caches, CopyOf, RemoveFinalizer
<1>3. sloCache[req].rv = obj.rv
  BY <1>1, <1>2 DEF IsCopy, Object
<1>4. QED
  BY <1>1, <1>2, <1>3 DEF IsCopy

LEMMA FinalizersNext ==
    ASSUME IInv, [Next]_vars
    PROVE  Finalizers'
<1> SUFFICES ASSUME NEW s \in SLOs, sloCache'[s] # None, sloCache'[s].fin,
                    ~sloCache'[s].deleting
             PROVE  slo'[s] # None /\ slo'[s].fin
  BY DEF Finalizers
<1>1. CASE sloCache'[s] = sloCache[s]
  <2>1. slo[s] # None /\ slo[s].fin
    BY <1>1 DEF IInv, Finalizers
  <2>2. ~(RemoveFinalizer /\ Current /\ req = s)
    BY <1>1, RemoveFinalizerCache
  <2>3. QED
    BY <2>1, <2>2, FinalizerKept
<1>2. CASE sloCache'[s] = slo[s] /\ slo' = slo /\ rev' = rev
  BY <1>2
<1>3. QED
  BY <1>1, <1>2, StepTypes, CacheMoves

LEMMA NoOrphanGroupNext ==
    ASSUME IInv, [Next]_vars
    PROVE  NoOrphanGroup'
<1> SUFFICES ASSUME NEW n \in Names, group'[n] # None
             PROVE  \E s \in SLOs : NameOf[s] = n /\ slo'[s] # None /\ slo'[s].fin
  BY DEF NoOrphanGroup
<1>1. CASE group'[n] = group[n]
  <2>1. PICK s \in SLOs : NameOf[s] = n /\ slo[s] # None /\ slo[s].fin
    BY <1>1 DEF IInv, NoOrphanGroup
  <2>2. ~(RemoveFinalizer /\ Current /\ req = s)
    BY <1>1, <2>1 DEF RemoveFinalizer, IInv, Steps
  <2>3. QED
    BY <2>1, <2>2, FinalizerKept
<1>2. CASE SetGroup /\ req \in SLOs /\ n = NameOf[req] /\ slo' = slo
  BY <1>2 DEF SetGroup, IInv, Steps
<1>3. QED
  BY <1>1, <1>2, GroupMoves

\* Whoever was not behind spec k is not behind it after a step.
LEMMA BehindKept ==
    ASSUME IInv, [Next]_vars, NEW s \in SLOs, NEW k \in Nat, Behind(s, k)
    PROVE  /\ k <= rev'[s]
           /\ slo'[s] # None => k <= slo'[s].spec
           /\ sloCache'[s] # None => k <= sloCache'[s].spec
           /\ pc' # "idle" /\ req' = s => k <= obj'.spec
<1>1. /\ k <= rev'[s]
      /\ slo'[s] # None => k <= slo'[s].spec
  BY StepTypes, NextEvolves DEF Behind, Evolves, Evolution, Object
<1>2. sloCache'[s] # None => k <= sloCache'[s].spec
  BY StepTypes, CacheMoves DEF Behind
<1>3. pc' # "idle" /\ req' = s => k <= obj'.spec
  <2> SUFFICES ASSUME pc' # "idle", req' = s
               PROVE  k <= obj'.spec
    OBVIOUS
  <2>1. KeepHand \/ TakeHand \/ RefreshHand
    BY HandMoves
  <2>2. CASE KeepHand
    BY <2>2 DEF KeepHand, Behind
  <2>3. CASE TakeHand
    BY <2>3 DEF TakeHand, Behind
  <2>4. CASE RefreshHand
    BY <2>4 DEF RefreshHand, Behind, AddFinalizer
  <2>5. QED
    BY <2>1, <2>2, <2>3, <2>4
<1>4. QED
  BY <1>1, <1>2, <1>3

\* Nobody is behind the spec in hand.
LEMMA HandBehind ==
    ASSUME IInv, pc # "idle"
    PROVE  req \in SLOs /\ obj.spec \in Nat /\ Behind(req, obj.spec)
<1>1. req \in SLOs /\ obj \in Object /\ rev[req] \in Nat
  BY DEF IInv, TypeOK
<1>2. IsCopy(obj, slo[req], rev[req])
  BY DEF IInv, InHand, CopyOf
<1>3. QED
  BY <1>1, <1>2 DEF IInv, CacheAhead, IsCopy, Behind, Object

LEMMA RulesBehindNext ==
    ASSUME IInv, [Next]_vars
    PROVE  RulesBehind'
<1> SUFFICES ASSUME NEW s \in SLOs, rule'[s] # None
             PROVE  Behind(s, rule[s].spec)'
  BY DEF RulesBehind
<1>1. CASE rule'[s] = rule[s]
  <2>1. rule[s].spec \in Nat /\ Behind(s, rule[s].spec)
    BY <1>1 DEF IInv, TypeOK, RulesBehind, Rule
  <2>2. QED
    BY <1>1, <2>1, BehindKept DEF Behind
<1>2. CASE pc # "idle" /\ req = s /\ rule'[s].spec = obj.spec
  <2>1. obj.spec \in Nat /\ Behind(s, obj.spec)
    BY <1>2, HandBehind
  <2>2. QED
    BY <1>2, <2>1, BehindKept DEF Behind
<1>3. QED
  BY <1>1, <1>2, RuleMoves

LEMMA GroupsBehindNext ==
    ASSUME IInv, [Next]_vars
    PROVE  GroupsBehind'
<1> SUFFICES ASSUME NEW n \in Names, group'[n] # None
             PROVE  Behind(group[n].slo, group[n].spec)'
  BY DEF GroupsBehind
<1>1. CASE group'[n] = group[n]
  <2>1. /\ group[n].slo \in SLOs /\ group[n].spec \in Nat
        /\ Behind(group[n].slo, group[n].spec)
    BY <1>1 DEF IInv, TypeOK, GroupsBehind, Group
  <2>2. QED
    BY <1>1, <2>1, BehindKept DEF Behind
<1>2. CASE SetGroup /\ group'[n] = [slo |-> req, spec |-> obj.spec]
  <2>1. req \in SLOs /\ obj.spec \in Nat /\ Behind(req, obj.spec)
    BY <1>2, HandBehind DEF SetGroup
  <2>2. group'[n].slo = req /\ group'[n].spec = obj.spec
    BY <1>2
  <2>3. QED
    BY <2>1, <2>2, BehindKept DEF Behind
<1>3. QED
  BY <1>1, <1>2, GroupMoves

\* A call under way may go on after a step of somebody else.
LEMMA StepsKept ==
    ASSUME IInv, [Next]_vars, UNCHANGED <<mode, pc, req, obj, group>>
    PROVE  Steps'
<1> USE DEF IInv, Steps
<1>1. ASSUME pc' = "setGroup"
      PROVE  slo'[req'] # None /\ slo'[req'].fin
  <2>1. req \in SLOs /\ slo[req] # None /\ slo[req].fin
    BY <1>1 DEF TypeOK
  <2>2. ~RemoveFinalizer
    BY <1>1 DEF RemoveFinalizer
  <2>3. QED
    BY <2>1, <2>2, FinalizerKept
<1>2. QED
  BY <1>1

LEMMA StepsNext ==
    ASSUME IInv, [Next]_vars
    PROVE  Steps'
<1> USE DEF Steps
<1>0. TypeOK /\ Steps
  BY DEF IInv
<1>1. CASE UNCHANGED <<mode, pc, req, obj, group>>
  BY <1>1, StepsKept
<1>2. CASE pc' = "idle"
  BY <1>2
<1>3. ASSUME NEW s \in SLOs, Begin(s)
      PROVE  Steps'
  <2>1. /\ mode' = mode /\ slo' = slo /\ group' = group
        /\ req' = s /\ obj' = sloCache[s]
    BY <1>3 DEF Begin
  <2>2. pc' = "setGroup" => slo[s] # None /\ slo[s].fin
    BY <1>0, <1>3 DEF Begin, IInv, Finalizers
  <2>3. pc' = "deleteGroup" => sloCache[s].deleting
    BY <1>3 DEF Begin
  <2>4. /\ pc' \in {"addFinalizer", "setGroup", "deleteGroup"} => mode = "Mimir"
        /\ pc' = "getRule" => mode # "Mimir"
        /\ pc' \in {"idle", "getRule", "addFinalizer", "setGroup", "deleteGroup"}
    BY <1>3 DEF Begin
  <2>5. QED
    BY <2>1, <2>2, <2>3, <2>4
<1>4. CASE AddFinalizer
  <2>1. CASE Current
    <3>1. RefreshHand /\ mode' = mode /\ mode = "Mimir"
      BY <1>0, <1>4, <2>1, AddFinalizerRefreshes DEF AddFinalizer
    <3>2. slo'[req] # None
      BY <1>0, <1>4, <3>1, StepTypes, Copies DEF RefreshHand, AddFinalizer, TypeOK
    <3>3. QED
      BY <3>1, <3>2 DEF RefreshHand
  <2>2. QED
    BY <1>2, <1>4, <2>1 DEF AddFinalizer, Requeue
<1>5. CASE SetGroup
  BY <1>0, <1>2, <1>5 DEF SetGroup, Requeue
<1>6. CASE DeleteGroup
  <2>1. req \in SLOs /\ NameOf[req] \in Names
    BY <1>0, <1>6, Constants DEF DeleteGroup, TypeOK
  <2>2. QED
    BY <1>0, <1>2, <1>6, <2>1 DEF DeleteGroup, Requeue, TypeOK
<1>7. CASE RemoveFinalizer \/ UpdateStatus
  BY <1>2, <1>7 DEF RemoveFinalizer, UpdateStatus, Requeue, Return
<1>8. CASE GetRule \/ CreateRule \/ UpdateRule
  BY <1>0, <1>2, <1>8 DEF GetRule, CreateRule, UpdateRule, Requeue
<1>9. CASE Fail \/ Crash
  BY <1>2, <1>9 DEF Fail, Crash, Requeue
<1>10. QED
  BY <1>1, <1>3, <1>4, <1>5, <1>6, <1>7, <1>8, <1>9
     DEF Next, vars, User, Call, CollectGarbage, Inform, InformRule,
         UserCreate, UserUpdate, UserDelete, workerVars

LEMMA InitIInv == Init => IInv
<1> SUFFICES ASSUME Init PROVE IInv
  OBVIOUS
<1> USE DEF Init
<1>1. TypeOK
  BY InitTypeOK
<1>2. Versions /\ Caches /\ InHand /\ CacheAhead
  BY DEF Versions, Caches, InHand, CacheAhead
<1>3. Finalizers /\ Steps /\ RulesBehind /\ GroupsBehind /\ NoOrphanGroup
  BY DEF Finalizers, Steps, RulesBehind, GroupsBehind, NoOrphanGroup
<1>4. QED
  BY <1>1, <1>2, <1>3 DEF IInv

LEMMA NextIInv == IInv /\ [Next]_vars => IInv'
  BY NextTypeOK, VersionsNext, CachesNext, InHandNext, CacheAheadNext, FinalizersNext,
     StepsNext, RulesBehindNext, GroupsBehindNext, NoOrphanGroupNext DEF IInv

LEMMA Inductive == Spec => []IInv
<1>1. QED
  BY InitIInv, NextIInv, PTL DEF Spec

-----------------------------------------------------------------------------
(* The theorems for any names.                                               *)

\* The state of the reconciler, the API server and Mimir has its type in every
\* reachable state.
THEOREM TypeCorrect == Spec => []TypeOK
<1>1. IInv => TypeOK
  BY DEF IInv
<1>2. QED
  BY Inductive, <1>1, PTL

\* The finalizer protocol of handleMimirFinalizers leaves no rule group behind: also
\* if SLOs share a name, the worker reads old copies, calls fail and it crashes.
THEOREM NoOrphanGroupAlways == Spec => []NoOrphanGroup
<1>1. IInv => NoOrphanGroup
  BY DEF IInv
<1>2. QED
  BY Inductive, <1>1, PTL

LEMMA NeverGoBack ==
    ASSUME IInv, [Next]_vars, NEW s \in SLOs
    PROVE  /\ rule[s] # None /\ rule'[s] # None => rule[s].spec <= rule'[s].spec
           /\ LET g == group[NameOf[s]]  h == group'[NameOf[s]]
              IN  g # None /\ h # None /\ g.slo = h.slo => g.spec <= h.spec
<1> DEFINE g == group[NameOf[s]]
           h == group'[NameOf[s]]
<1>0. /\ NameOf[s] \in Names
      /\ rule[s] # None => rule[s].spec \in Nat
      /\ g # None => g.spec \in Nat
  BY Constants DEF IInv, TypeOK, Rule, Group
<1>1. ASSUME rule[s] # None, rule'[s] # None
      PROVE  rule[s].spec <= rule'[s].spec
  <2>1. CASE rule'[s] = rule[s]
    BY <1>0, <1>1, <2>1
  <2>2. CASE pc # "idle" /\ req = s /\ rule'[s].spec = obj.spec
    BY <1>1, <2>2 DEF IInv, RulesBehind, Behind
  <2>3. QED
    BY <1>1, <2>1, <2>2, RuleMoves
<1>2. ASSUME g # None, h # None, g.slo = h.slo
      PROVE  g.spec <= h.spec
  <2>1. CASE h = g
    BY <1>0, <1>2, <2>1
  <2>2. CASE SetGroup /\ h = [slo |-> req, spec |-> obj.spec]
    <3>1. g.slo = req /\ h.spec = obj.spec /\ pc # "idle"
      BY <1>2, <2>2 DEF SetGroup
    <3>2. Behind(g.slo, g.spec)
      BY <1>0, <1>2 DEF IInv, GroupsBehind
    <3>3. QED
      BY <3>1, <3>2 DEF Behind
  <2>3. QED
    BY <1>0, <1>2, <2>1, <2>2, GroupMoves
<1>3. QED
  BY <1>1, <1>2

\* Rules are never replaced by those of an older spec: the one worker writes what
\* it has read, and no copy it can read is older than the rules.
THEOREM RulesNeverGoBackAlways == Spec => RulesNeverGoBack
<1>1. IInv /\ [Next]_vars =>
        [\A s \in SLOs :
         /\ rule[s] # None /\ rule'[s] # None => rule[s].spec <= rule'[s].spec
         /\ LET g == group[NameOf[s]]  h == group'[NameOf[s]]
            IN  g # None /\ h # None /\ g.slo = h.slo => g.spec <= h.spec]_vars
  BY NeverGoBack
<1>2. QED
  BY Inductive, <1>1, PTL DEF Spec, RulesNeverGoBack

-----------------------------------------------------------------------------
(* What a settled reconciler has published, if every SLO has its own name.   *)

\* While the SLO lives on, its rules stay as the worker has written them.
LEMMA StatusLastKept ==
    ASSUME IInv, StatusLast, [Next]_vars, UNCHANGED <<mode, pc, req, obj, group>>
    PROVE  StatusLast'
<1> SUFFICES ASSUME pc = "status", slo'[req] # None, slo'[req].uid = obj.uid
             PROVE  IF mode = "Mimir" THEN group[NameOf[req]] = [slo |-> req, spec |-> obj.spec]
                    ELSE rule'[req] # None /\ rule'[req].owner = obj.uid
                         /\ rule'[req].spec = obj.spec
  BY DEF StatusLast
<1>1. /\ req \in SLOs /\ obj \in Object /\ IsCopy(obj, slo[req], rev[req])
      /\ rev[req] \in Nat /\ rule \in [SLOs -> Rule \cup {None}]
  BY DEF IInv, TypeOK, InHand, CopyOf
<1>2. slo[req] # None /\ slo[req].uid = obj.uid
  BY <1>1, NextEvolves DEF Evolves, Evolution, IsCopy, Object
<1>3. rule'[req] = rule[req] \/ rule[req] = None \/ rule[req].owner # obj.uid
  <2>1. CASE UNCHANGED rule
    BY <2>1
  <2>2. ASSUME NEW s \in SLOs, CollectGarbage(s)
        PROVE  \/ rule'[req] = rule[req]
               \/ rule[req].owner # obj.uid
    BY <1>1, <1>2, <2>2 DEF CollectGarbage
  <2>3. CASE CreateRule \/ UpdateRule
    BY <2>3 DEF CreateRule, UpdateRule
  <2>4. QED
    BY <2>1, <2>2, <2>3
       DEF Next, vars, User, Call, Inform, InformRule, Begin, Fail, Crash,
           UserCreate, UserUpdate, UserDelete, AddFinalizer, UpdateStatus,
           RemoveFinalizer, SetGroup, DeleteGroup, GetRule
<1>4. QED
  BY <1>2, <1>3 DEF StatusLast

LEMMA StatusLastNext ==
    ASSUME IInv, StatusLast, [Next]_vars
    PROVE  StatusLast'
<1>0. TypeOK /\ Steps
  BY DEF IInv
<1>1. CASE UNCHANGED <<mode, pc, req, obj, group>>
  BY <1>1, StatusLastKept
<1>2. CASE pc' # "status"
  BY <1>2 DEF StatusLast
<1>3. CASE SetGroup
  <2>1. req \in SLOs /\ NameOf[req] \in Names /\ mode = "Mimir"
    BY <1>0, <1>3, Constants DEF SetGroup, TypeOK, Steps
  <2>2. QED
    BY <1>0, <1>2, <1>3, <2>1 DEF SetGroup, Requeue, TypeOK, StatusLast
<1>4. CASE UpdateRule
  <2>1. /\ req \in SLOs /\ obj.uid \in Nat /\ obj.spec \in Nat /\ mode # "Mimir"
        /\ mode' = mode /\ req' = req /\ obj' = obj
    BY <1>0, <1>4 DEF UpdateRule, TypeOK, Steps, Object
  <2>2. CASE StoreRule(req, obj.uid, obj.spec)
    BY <1>0, <2>1, <2>2, StoreRuleNext, Copies DEF StatusLast
  <2>3. QED
    BY <1>2, <1>4, <2>2 DEF UpdateRule, Requeue
<1>5. QED
  BY <1>1, <1>2, <1>3, <1>4
     DEF Next, vars, User, Call, CollectGarbage, Inform, InformRule, Begin, Fail, Crash,
         UserCreate, UserUpdate, UserDelete, workerVars, AddFinalizer, DeleteGroup,
         RemoveFinalizer, GetRule, CreateRule, UpdateStatus, Requeue, Return

\* The conditions under which s must be published.
Due(s) ==
    /\ slo[s] # None /\ slo[s].ok /\ ~slo[s].deleting
    /\ sloCache[s] = slo[s] /\ s \notin queue /\ ~(pc # "idle" /\ req = s)

\* An SLO becomes due only by the last call of its reconcile.
LEMMA BecomesDue ==
    ASSUME IInv, [Next]_vars, NEW s \in SLOs, Due(s)'
    PROVE  /\ slo'[s] = slo[s]
           /\ Due(s) \/ (UpdateStatus /\ Current /\ req = s)
<1>1. slo'[s] = slo[s] /\ rev'[s] = rev[s]
  <2> SUFFICES ASSUME ~(slo'[s] = slo[s] /\ rev'[s] = rev[s])
               PROVE  FALSE
    OBVIOUS
  <2>1. slo'[s] # None /\ slo'[s].rv = rev[s] + 1
    BY NextEvolves DEF Evolves, Evolution, Due
  <2>2. sloCache[s] = slo'[s]
    BY StepTypes, CacheMoves, NextEvolves DEF Due, Evolves, Evolution
  <2>3. sloCache[s].rv <= rev[s]
    BY <2>1, <2>2 DEF IInv, Caches, CopyOf, IsCopy
  <2>4. QED
    BY <2>1, <2>2, <2>3, StepTypes
<1>2. ~Crash
  BY <1>1 DEF Crash, Due
<1>3. sloCache[s] = slo[s]
  <2>1. CASE sloCache'[s] = sloCache[s]
    BY <1>1, <2>1 DEF Due
  <2>2. ASSUME NEW t \in SLOs, Inform(t)
        PROVE  sloCache'[s] = sloCache[s]
    BY <2>2, StepTypes DEF Inform, Due, TypeOK
  <2>3. QED
    BY <1>2, <2>1, <2>2
       DEF Next, vars, User, Call, CollectGarbage, InformRule, Begin, Fail,
           UserCreate, UserUpdate, UserDelete, AddFinalizer, UpdateStatus,
           RemoveFinalizer, SetGroup, DeleteGroup, GetRule, CreateRule, UpdateRule,
           cacheVars
<1>4. s \notin queue
  <2>1. ASSUME NEW t \in SLOs, Begin(t), s \in queue
        PROVE  FALSE
    BY <1>1, <1>3, <2>1 DEF Begin, Due
  <2>2. QED
    BY <1>2, <2>1
       DEF Next, vars, User, Call, CollectGarbage, Inform, InformRule, Fail,
           UserCreate, UserUpdate, UserDelete, AddFinalizer, UpdateStatus,
           RemoveFinalizer, SetGroup, DeleteGroup, GetRule, CreateRule, UpdateRule,
           Requeue, Return, Due
<1>5. ASSUME pc # "idle", req = s
      PROVE  UpdateStatus /\ Current
  <2>1. CASE RemoveFinalizer
    BY <1>1, <1>5, <2>1, StepTypes, RemoveNext DEF RemoveFinalizer, Due, Requeue
  <2>2. CASE UpdateStatus
    BY <1>5, <2>2 DEF UpdateStatus, Due, Requeue
  <2>3. QED
    BY <1>2, <1>5, <2>1, <2>2
       DEF Next, vars, User, Call, CollectGarbage, Inform, InformRule, Begin, Fail,
           UserCreate, UserUpdate, UserDelete, AddFinalizer, SetGroup, DeleteGroup,
           GetRule, CreateRule, UpdateRule, Requeue, Return, Due, workerVars
<1>6. QED
  BY <1>1, <1>3, <1>4, <1>5 DEF Due

\* What is published by a rule object and by a rule group.
LEMMA PublishedByRule ==
    ASSUME NEW s \in SLOs, mode # "Mimir"
    PROVE  Published(s) = Wanted(s) <=>
               rule[s] # None /\ rule[s].owner = slo[s].uid /\ rule[s].spec = slo[s].spec
<1>1. Wanted(s) = {<<slo[s].uid, slo[s].spec>>}
  BY DEF Wanted
<1>2. CASE rule[s] = None
  <2>1. Published(s) = {}
    BY <1>2 DEF Published
  <2>2. QED
    BY <1>1, <1>2, <2>1
<1>3. CASE rule[s] # None
  <2>1. Published(s) = {<<rule[s].owner, rule[s].spec>>}
    BY <1>3 DEF Published
  <2> DEFINE p == <<rule[s].owner, rule[s].spec>>
             q == <<slo[s].uid, slo[s].spec>>
  <2>2. p = q <=> p[1] = q[1] /\ p[2] = q[2]
    OBVIOUS
  <2>3. {p} = {q} <=> p = q
    BY Zenon
  <2>4. QED
    BY <1>1, <1>3, <2>1, <2>2, <2>3
<1>4. QED
  BY <1>2, <1>3

LEMMA PublishedByGroup ==
    ASSUME NEW s \in SLOs, mode = "Mimir", group[NameOf[s]] # None,
           group[NameOf[s]] = [slo |-> s, spec |-> slo[s].spec]
    PROVE  Published(s) = Wanted(s)
  BY DEF Published, Wanted

\* What is published for an SLO that is due stays.
LEMMA DueStays ==
    ASSUME OwnName, PInv, [Next]_vars, NEW s \in SLOs, Due(s), slo'[s] = slo[s]
    PROVE  Published(s)' = Wanted(s)'
<1>0. TypeOK /\ NameOf[s] \in Names /\ Published(s) = Wanted(s) /\ mode' = mode
  BY Constants
     DEF PInv, IInv, Done, Due, Next, vars, User, Call, CollectGarbage, Inform,
         InformRule, Begin, Fail, Crash, UserCreate, UserUpdate, UserDelete,
         AddFinalizer, SetGroup, DeleteGroup, RemoveFinalizer, GetRule, CreateRule,
         UpdateRule, UpdateStatus
<1>1. CASE mode = "Mimir"
  <2>1. group'[NameOf[s]] = group[NameOf[s]]
    <3>1. CASE UNCHANGED group
      BY <3>1
    <3>2. CASE SetGroup \/ DeleteGroup
      BY <1>0, <3>2 DEF SetGroup, DeleteGroup, OwnName, Due, TypeOK
    <3>3. QED
      BY <3>1, <3>2
         DEF Next, vars, User, Call, CollectGarbage, Inform, InformRule, Begin, Fail,
             Crash, UserCreate, UserUpdate, UserDelete, AddFinalizer, RemoveFinalizer,
             GetRule, CreateRule, UpdateRule, UpdateStatus
  <2>2. QED
    BY <1>0, <1>1, <2>1 DEF Published, Wanted
<1>2. CASE mode # "Mimir"
  <2>1. rule[s] # None /\ rule[s].owner = slo[s].uid
    BY <1>0, <1>2, PublishedByRule
  <2>2. rule'[s] = rule[s]
    <3>1. CASE UNCHANGED rule
      BY <3>1
    <3>2. CASE \E t \in SLOs : CollectGarbage(t)
      BY <1>0, <2>1, <3>2 DEF CollectGarbage, Due, TypeOK
    <3>3. CASE CreateRule \/ UpdateRule
      BY <1>0, <3>3, StoreRuleNext DEF CreateRule, UpdateRule, Due, TypeOK, Object
    <3>4. QED
      BY <3>1, <3>2, <3>3
         DEF Next, vars, User, Call, Inform, InformRule, Begin, Fail, Crash,
             UserCreate, UserUpdate, UserDelete, AddFinalizer, RemoveFinalizer,
             SetGroup, DeleteGroup, GetRule, UpdateStatus
  <2>3. QED
    BY <1>0, <1>2, <2>2 DEF Published, Wanted
<1>3. QED
  BY <1>1, <1>2

\* An SLO that becomes due has been published, and its status says so.
LEMMA LastCallPublishes ==
    ASSUME PInv, [Next]_vars, UpdateStatus, Current, slo'[req] = slo[req]
    PROVE  Published(req)' = Wanted(req)' /\ slo[req].status
<1> DEFINE new == [obj EXCEPT !.status = TRUE]
<1>1. /\ IInv /\ TypeOK /\ StatusLast /\ pc = "status"
      /\ req \in SLOs /\ obj \in Object /\ rev[req] \in Nat
  BY DEF PInv, IInv, TypeOK, UpdateStatus
<1>2. slo[req] = obj /\ obj # None /\ obj.rv = rev[req] /\ Store(req, new)
  BY <1>1, CurrentIsStored, Copies DEF UpdateStatus, IInv, Versions
<1>3. /\ new \in Object /\ new.status
      /\ [new EXCEPT !.rv = rev[req] + 1].rv = rev[req] + 1
  BY <1>1, ObjectTypes DEF Object
<1>4. new = slo[req]
  <2>1. new = slo[req] \/ slo'[req] = [new EXCEPT !.rv = rev[req] + 1]
    BY <1>1, <1>2, <1>3, StoreNext
  <2>2. ASSUME slo'[req] = [new EXCEPT !.rv = rev[req] + 1]
        PROVE  FALSE
    <3>1. slo'[req].rv = rev[req] + 1
      BY <1>3, <2>2
    <3>2. slo'[req].rv = rev[req]
      BY <1>2
    <3>3. QED
      BY <1>1, <3>1, <3>2
  <2>3. QED
    BY <2>1, <2>2
<1>5. Published(req) = Wanted(req)
  <2>1. CASE mode = "Mimir"
    <3>1. /\ group[NameOf[req]] = [slo |-> req, spec |-> slo[req].spec]
          /\ [slo |-> req, spec |-> slo[req].spec] \in Group
      BY <1>1, <1>2, <2>1 DEF StatusLast, Group, Object
    <3>2. QED
      BY <1>1, <2>1, <3>1, Copies, PublishedByGroup
  <2>2. CASE mode # "Mimir"
    BY <1>1, <1>2, <2>2, PublishedByRule DEF StatusLast
  <2>3. QED
    BY <2>1, <2>2
<1>6. Published(req)' = Published(req) /\ Wanted(req)' = Wanted(req)
  BY DEF UpdateStatus, Published, Wanted
<1>7. QED
  BY <1>3, <1>4, <1>5, <1>6

LEMMA DoneNext ==
    ASSUME OwnName, PInv, [Next]_vars
    PROVE  Done'
<1> SUFFICES ASSUME NEW s \in SLOs, Due(s)'
             PROVE  Published(s)' = Wanted(s)' /\ slo'[s].status
  BY DEF Done, Due
<1>1. slo'[s] = slo[s] /\ (Due(s) \/ (UpdateStatus /\ Current /\ req = s))
  BY BecomesDue DEF PInv
<1>2. CASE Due(s)
  <2>1. slo[s].status
    BY <1>2 DEF PInv, Done, Due
  <2>2. QED
    BY <1>1, <1>2, <2>1, DueStays
<1>3. CASE UpdateStatus /\ Current /\ req = s
  <2>1. slo'[req] = slo[req]
    BY <1>1, <1>3
  <2>2. Published(req)' = Wanted(req)' /\ slo[req].status
    BY <1>3, <2>1, LastCallPublishes
  <2>3. req' = req
    BY <1>3 DEF UpdateStatus
  <2>4. QED
    BY <1>1, <1>3, <2>2, <2>3 DEF Published, Wanted
<1>4. QED
  BY <1>1, <1>2, <1>3

LEMMA InitPInv == Init => PInv
  BY InitIInv DEF PInv, Init, StatusLast, Done

\* If every SLO has a name of its own, a reconciler that has nothing to do has
\* published every valid SLO, whatever happened before: edits, lagging caches,
\* conflicts, failed calls, crashes.
THEOREM SettledIsPublishedAlways ==
    ASSUME OwnName
    PROVE  Spec => []SettledIsPublished
<1>1. PInv /\ [Next]_vars => PInv'
  BY NextIInv, StatusLastNext, DoneNext DEF PInv
<1>2. PInv => SettledIsPublished
  BY DEF PInv, Done, SettledIsPublished, Settled
<1>3. QED
  BY InitPInv, <1>1, <1>2, PTL DEF Spec
=============================================================================
