-------------------------- MODULE Publication_proofs --------------------------
(* KubernetesReconciler implements Publication, for any SLOs and any bounds, if *)
(* every SLO has a name of its own.                                          *)
EXTENDS KubernetesReconciler_proofs

-----------------------------------------------------------------------------
(* What the refinement needs besides IInv: which life of an SLO, from one      *)
(* creation to the next, each copy and each rule is of.                      *)

\* o is a copy of v, or of an SLO of that name deleted before v was created.
Lives(o, v) ==
    /\ o.uid <= o.spec
    /\ v # None => IF o.uid = v.uid THEN o.deleting => v.deleting ELSE o.spec < v.uid

StoredLives == \A s \in SLOs : slo[s] # None => slo[s].uid <= slo[s].spec

CacheLives == \A s \in SLOs : sloCache[s] # None => Lives(sloCache[s], slo[s])

HandLives == pc # "idle" => Lives(obj, slo[req])

\* A rule object that the present SLO does not own is of a spec before its creation.
RuleLives ==
    \A s \in SLOs : rule[s] # None /\ slo[s] # None =>
        rule[s].owner = slo[s].uid \/ rule[s].spec < slo[s].uid

GroupNames == \A n \in Names : group[n] # None => NameOf[group[n].slo] = n

LInv == IInv /\ StoredLives /\ CacheLives /\ HandLives /\ RuleLives /\ GroupNames

\* An SLO that is being deleted does not come back to stay.
LEMMA DeletingKept ==
    ASSUME IInv, [Next]_vars, NEW s \in SLOs, slo[s] # None, slo[s].deleting
    PROVE  slo'[s] = None \/ slo'[s].deleting
<1>0. TypeOK /\ slo[s] \in Object /\ rev[s] \in Nat
  BY DEF IInv, TypeOK
<1>1. CASE UNCHANGED <<slo, rev>>
  BY <1>1
<1>2. ASSUME NEW t \in SLOs, NEW o \in Object, Store(t, o), t = s => o.deleting
      PROVE  slo'[s].deleting
  <2>1. CASE t # s
    BY <1>0, <1>2, <2>1, StoreNext
  <2>2. CASE t = s
    <3>1. [o EXCEPT !.rv = rev[s] + 1].deleting = o.deleting
      BY DEF Object
    <3>2. QED
      BY <1>0, <1>2, <2>2, <3>1, StoreNext
  <2>3. QED
    BY <2>1, <2>2
<1>3. ASSUME NEW t \in SLOs, NEW ok \in BOOLEAN, UserCreate(t, ok)
      PROVE  slo'[s].deleting
  <2> DEFINE new == [uid |-> rev[t] + 1, rv |-> 0, spec |-> rev[t] + 1, ok |-> ok,
                     deleting |-> FALSE, fin |-> FALSE, status |-> FALSE]
  <2>1. new \in Object /\ Store(t, new) /\ t # s
    BY <1>0, <1>3 DEF Object, TypeOK, UserCreate
  <2>2. QED
    BY <1>2, <2>1
<1>4. ASSUME NEW t \in SLOs, NEW ok \in BOOLEAN, UserUpdate(t, ok)
      PROVE  slo'[s].deleting
  <2> DEFINE new == [slo[t] EXCEPT !.spec = rev[t] + 1, !.ok = ok]
  <2>1. slo[t] \in Object /\ rev[t] + 1 \in Nat /\ Store(t, new)
    BY <1>0, <1>4 DEF UserUpdate, TypeOK
  <2>2. new \in Object /\ new.deleting = slo[t].deleting
    BY <2>1, ObjectTypes DEF Object
  <2>3. QED
    BY <1>2, <2>1, <2>2
<1>5. ASSUME NEW t \in SLOs, UserDelete(t)
      PROVE  slo'[s].deleting
  <2> DEFINE new == [slo[t] EXCEPT !.deleting = TRUE]
  <2>1. slo[t] \in Object /\ t # s
    BY <1>0, <1>5 DEF UserDelete, TypeOK
  <2>2. new \in Object
    BY <2>1, ObjectTypes
  <2>3. Store(t, new) => slo'[s].deleting
    BY <1>2, <2>1, <2>2
  <2>4. QED
    BY <1>0, <1>5, <2>1, <2>3, RemoveNext DEF UserDelete
<1>6. CASE (AddFinalizer \/ UpdateStatus) /\ Current
  <2> DEFINE add == [obj EXCEPT !.fin = TRUE]
             set == [obj EXCEPT !.status = TRUE]
  <2>1. req \in SLOs /\ obj \in Object /\ slo[req] = obj
    BY <1>0, <1>6, CurrentIsStored DEF AddFinalizer, UpdateStatus, TypeOK
  <2>2. /\ add \in Object /\ add.deleting = obj.deleting
        /\ set \in Object /\ set.deleting = obj.deleting
    <3>1. add \in Object /\ set \in Object
      BY <2>1, ObjectTypes
    <3>2. add.deleting = obj.deleting /\ set.deleting = obj.deleting
      BY <2>1 DEF Object
    <3> QED
      BY <3>1, <3>2
  <2>3. Store(req, add) \/ Store(req, set)
    BY <1>6 DEF AddFinalizer, UpdateStatus
  <2>4. QED
    BY <1>2, <2>1, <2>2, <2>3
<1>7. CASE RemoveFinalizer /\ Current
  <2>1. req \in SLOs /\ Remove(req)
    BY <1>0, <1>7 DEF RemoveFinalizer, TypeOK
  <2>2. QED
    BY <1>0, <2>1, RemoveNext
<1>8. QED
  BY <1>1, <1>3, <1>4, <1>5, <1>6, <1>7
     DEF Next, vars, User, Call, CollectGarbage, Inform, InformRule, Begin, Fail, Crash,
         AddFinalizer, UpdateStatus, RemoveFinalizer, SetGroup, DeleteGroup, GetRule,
         CreateRule, UpdateRule

\* A copy stays in its life.
LEMMA LivesKept ==
    ASSUME IInv, [Next]_vars, NEW s \in SLOs, NEW o \in Object,
           IsCopy(o, slo[s], rev[s]), Lives(o, slo[s])
    PROVE  Lives(o, slo'[s])
<1>1. /\ slo[s] # None /\ slo'[s] # None => slo'[s].uid = slo[s].uid
      /\ slo[s] = None /\ slo'[s] # None => slo'[s].uid = rev[s] + 1
  <2>1. CASE slo'[s] = slo[s] /\ rev'[s] = rev[s]
    BY <2>1
  <2>2. QED
    BY <2>1, NextEvolves DEF Evolves, Evolution
<1>2. slo[s] # None /\ slo[s].deleting => slo'[s] = None \/ slo'[s].deleting
  BY DeletingKept
<1>3. rev[s] \in Nat /\ o.uid \in Nat /\ o.spec \in Nat /\ o.rv \in Nat
  BY StepTypes DEF Object
<1>4. QED
  BY <1>1, <1>2, <1>3 DEF Lives, IsCopy

LEMMA StoredLivesNext ==
    ASSUME LInv, [Next]_vars
    PROVE  StoredLives'
<1> SUFFICES ASSUME NEW s \in SLOs, slo'[s] # None
             PROVE  slo'[s].uid <= slo'[s].spec
  BY DEF StoredLives
<1>1. CASE slo'[s] = slo[s]
  BY <1>1 DEF LInv, StoredLives
<1>2. CASE slo'[s] # slo[s]
  <2>1. IInv /\ slo[s] \in Object \cup {None} /\ slo'[s] \in Object /\ rev[s] \in Nat
    BY StepTypes DEF LInv
  <2>2. /\ slo[s] # None => slo'[s].uid = slo[s].uid /\ slo[s].spec <= slo'[s].spec
        /\ slo[s] = None => slo'[s].uid = slo'[s].spec
    BY <1>2, <2>1, NextEvolves DEF Evolves, Evolution
  <2>3. QED
    BY <2>1, <2>2 DEF LInv, StoredLives, Object
<1>3. QED
  BY <1>1, <1>2

LEMMA CacheLivesNext ==
    ASSUME LInv, [Next]_vars
    PROVE  CacheLives'
<1> SUFFICES ASSUME NEW s \in SLOs, sloCache'[s] # None
             PROVE  Lives(sloCache'[s], slo'[s])
  BY DEF CacheLives
<1>0. IInv
  BY DEF LInv
<1>1. CASE sloCache'[s] = sloCache[s]
  BY <1>0, <1>1, StepTypes, LivesKept DEF LInv, CacheLives, IInv, Caches, CopyOf
<1>2. CASE sloCache'[s] = slo[s] /\ slo' = slo
  BY <1>2 DEF LInv, StoredLives, Lives
<1>3. QED
  BY <1>0, <1>1, <1>2, StepTypes, CacheMoves

LEMMA HandLivesNext ==
    ASSUME LInv, [Next]_vars
    PROVE  HandLives'
<1> SUFFICES ASSUME pc' # "idle"
             PROVE  Lives(obj', slo'[req'])
  BY DEF HandLives
<1>0. IInv
  BY DEF LInv
<1>1. CASE KeepHand
  <2>1. req \in SLOs /\ obj \in Object /\ IsCopy(obj, slo[req], rev[req])
    BY <1>0, <1>1 DEF KeepHand, IInv, TypeOK, InHand, CopyOf
  <2>2. Lives(obj, slo[req])
    BY <1>1 DEF KeepHand, LInv, HandLives
  <2>3. QED
    BY <1>0, <1>1, <2>1, <2>2, LivesKept DEF KeepHand
<1>2. CASE TakeHand
  BY <1>2 DEF TakeHand, LInv, CacheLives
<1>3. CASE RefreshHand
  <2>1. req \in SLOs /\ slo'[req] # None
    BY <1>0, <1>3, StepTypes, Copies DEF RefreshHand, AddFinalizer, TypeOK
  <2>2. QED
    BY <1>3, <2>1, StoredLivesNext DEF RefreshHand, StoredLives, Lives
<1>4. QED
  BY <1>0, <1>1, <1>2, <1>3, HandMoves

LEMMA RuleLivesNext ==
    ASSUME LInv, [Next]_vars
    PROVE  RuleLives'
<1> SUFFICES ASSUME NEW s \in SLOs, rule'[s] # None, slo'[s] # None
             PROVE  rule'[s].owner = slo'[s].uid \/ rule'[s].spec < slo'[s].uid
  BY DEF RuleLives
<1>0. IInv /\ rev[s] \in Nat
  BY StepTypes DEF LInv
<1>1. CASE rule'[s] = rule[s]
  <2>1. rule[s].spec \in Nat /\ rule[s].spec <= rev[s]
    BY <1>0, <1>1 DEF IInv, TypeOK, Rule, RulesBehind, Behind
  <2>2. /\ slo[s] # None => slo'[s].uid = slo[s].uid
        /\ slo[s] = None => slo'[s].uid = rev[s] + 1
    <3>1. CASE slo'[s] = slo[s] /\ rev'[s] = rev[s]
      BY <3>1
    <3>2. QED
      BY <1>0, <3>1, NextEvolves DEF Evolves, Evolution
  <2>3. QED
    BY <1>0, <1>1, <2>1, <2>2 DEF LInv, RuleLives
<1>2. CASE /\ pc # "idle" /\ req = s /\ slo' = slo
           /\ rule'[s].owner = obj.uid /\ rule'[s].spec = obj.spec
  BY <1>2 DEF LInv, HandLives, Lives
<1>3. QED
  BY <1>0, <1>1, <1>2, RuleMoves

LEMMA GroupNamesNext ==
    ASSUME LInv, [Next]_vars
    PROVE  GroupNames'
<1> SUFFICES ASSUME NEW n \in Names, group'[n] # None
             PROVE  NameOf[group'[n].slo] = n
  BY DEF GroupNames
<1>1. CASE group'[n] = group[n]
  BY <1>1 DEF LInv, GroupNames
<1>2. CASE n = NameOf[req] /\ group'[n] = [slo |-> req, spec |-> obj.spec]
  BY <1>2
<1>3. QED
  BY <1>1, <1>2, GroupMoves DEF LInv

LEMMA InitLInv == Init => LInv
  BY InitIInv DEF Init, LInv, StoredLives, CacheLives, HandLives, RuleLives, GroupNames

LEMMA NextLInv == LInv /\ [Next]_vars => LInv'
  BY NextIInv, StoredLivesNext, CacheLivesNext, HandLivesNext, RuleLivesNext, GroupNamesNext
     DEF LInv

-----------------------------------------------------------------------------
(* Steps of the reconciler are steps of Publication.                          *)

\* What Publication sees of an SLO and of its rules.
Mapped ==
    \A s \in SLOs :
        /\ CurrentOf(s) = None <=> slo[s] = None
        /\ slo[s] # None => /\ CurrentOf(s) \in Pub!Want
                           /\ CurrentOf(s).born = slo[s].uid
                           /\ CurrentOf(s).spec = slo[s].spec
                           /\ CurrentOf(s).going = slo[s].deleting
        /\ PublishedOf(s) \in Nat \cup {None}

LEMMA Mapping == TypeOK => Mapped
<1> SUFFICES ASSUME TypeOK, NEW s \in SLOs
             PROVE  /\ CurrentOf(s) = None <=> slo[s] = None
                    /\ slo[s] # None => /\ CurrentOf(s) \in Pub!Want
                                       /\ CurrentOf(s).born = slo[s].uid
                                       /\ CurrentOf(s).spec = slo[s].spec
                                       /\ CurrentOf(s).going = slo[s].deleting
                    /\ PublishedOf(s) \in Nat \cup {None}
  BY DEF Mapped
<1>1. PublishedOf(s) \in Nat \cup {None}
  BY Constants DEF PublishedOf, TypeOK, Rule, Group
<1>2. CASE slo[s] = None
  BY <1>1, <1>2 DEF CurrentOf
<1>3. CASE slo[s] # None
  <2>1. slo[s] \in Object
    BY <1>3 DEF TypeOK
  <2>2. CurrentOf(s) \in Pub!Want
    BY <1>3, <2>1 DEF CurrentOf, Object, Pub!Want
  <2>3. CurrentOf(s) # None
    BY <2>2, NoneAssumption
  <2>4. QED
    BY <1>1, <1>3, <2>2, <2>3 DEF CurrentOf
<1>4. QED
  BY <1>2, <1>3

\* The same before and after a step.
LEMMA MappedTypes ==
    ASSUME LInv, [Next]_vars
    PROVE  /\ Mapped /\ Mapped'
           /\ mode' = mode
           /\ \A s \in SLOs : /\ slo[s] \in Object \cup {None}
                              /\ slo'[s] \in Object \cup {None}
                              /\ rev[s] \in Nat /\ rev'[s] \in Nat
<1>1. TypeOK' => Mapped'
  BY Mapping, PTL
<1>2. mode' = mode
  BY DEF Next, vars, User, Call, CollectGarbage, Inform, InformRule, Begin, Fail, Crash,
         UserCreate, UserUpdate, UserDelete, AddFinalizer, UpdateStatus, RemoveFinalizer,
         SetGroup, DeleteGroup, GetRule, CreateRule, UpdateRule
<1>3. QED
  BY <1>1, <1>2, Mapping, StepTypes DEF LInv

\* A step that changes one SLO at most, and no rules, is a change of it.
LEMMA ChangeStep ==
    ASSUME LInv, [Next]_vars, NEW s \in SLOs,
           \A t \in SLOs \ {s} : slo'[t] = slo[t] /\ rev'[t] = rev[t],
           \A t \in SLOs : PublishedOf(t)' = PublishedOf(t)
    PROVE  Pub!Change(s)
<1>1. /\ IInv /\ Mapped /\ Mapped'
      /\ slo[s] \in Object \cup {None} /\ slo'[s] \in Object \cup {None}
      /\ rev[s] \in Nat /\ rev'[s] \in Nat
      /\ Evolution(slo[s], rev[s], slo'[s], rev'[s])
  BY MappedTypes, NextEvolves DEF LInv, Evolves
<1>2. rev[s] <= rev'[s]
  BY <1>1 DEF Evolution
<1>3. CurrentOf(s)' \in Pub!Want \cup {None}
  BY <1>1 DEF Mapped
<1>4. ASSUME slo'[s] # None
      PROVE  /\ slo'[s].uid <= slo'[s].spec /\ slo'[s].spec <= rev'[s]
             /\ IF slo[s] = None THEN rev[s] < slo'[s].uid
                ELSE /\ slo'[s].uid = slo[s].uid /\ slo[s].spec <= slo'[s].spec
                     /\ slo[s].deleting => slo'[s].deleting
  <2>1. slo'[s].uid <= slo'[s].spec /\ slo'[s].spec <= rev'[s]
    BY <1>1, <1>4, StoredLivesNext, VersionsNext
       DEF StoredLives, Versions, CopyOf, IsCopy, Object
  <2>2. slo[s] # None /\ slo[s].deleting => slo'[s].deleting
    BY <1>1, <1>4, DeletingKept
  <2>3. CASE slo'[s] = slo[s]
    BY <1>1, <1>4, <2>1, <2>2, <2>3 DEF Object
  <2>4. CASE slo'[s] # slo[s]
    BY <1>1, <1>4, <2>1, <2>2, <2>4 DEF Evolution, Object
  <2>5. QED
    BY <2>3, <2>4
<1>5. \A t \in SLOs \ {s} : CurrentOf(t)' = CurrentOf(t) /\ rev'[t] = rev[t]
  BY DEF CurrentOf
<1>6. /\ rev \in [SLOs -> Nat] /\ rev' \in [SLOs -> Nat]
  BY StepTypes DEF LInv, TypeOK
<1>7. QED
  BY <1>1, <1>2, <1>3, <1>4, <1>5, <1>6 DEF Pub!Change, Mapped

\* A step that changes no SLO and the rules of one at most is a publication, a
\* withdrawal, or unseen.
LEMMA PublishStep ==
    ASSUME LInv, [Next]_vars, NEW s \in SLOs, UNCHANGED <<slo, rev>>,
           \A t \in SLOs \ {s} : PublishedOf(t)' = PublishedOf(t),
           \/ PublishedOf(s)' = PublishedOf(s)
           \/ /\ PublishedOf(s)' = None
              /\ slo[s] # None => slo[s].deleting \/ PublishedOf(s) < slo[s].uid
           \/ /\ PublishedOf(s)' \in Nat /\ PublishedOf(s)' <= rev[s]
              /\ slo[s] # None => PublishedOf(s)' <= slo[s].spec
              /\ PublishedOf(s) # None => PublishedOf(s) <= PublishedOf(s)'
    PROVE  Pub!Publish(s) \/ Pub!Withdraw(s) \/ UNCHANGED Pub!pubVars
<1>1. Mapped /\ Mapped'
  BY MappedTypes
<1>2. \A t \in SLOs : CurrentOf(t)' = CurrentOf(t)
  BY DEF CurrentOf
<1>3. CASE PublishedOf(s)' = PublishedOf(s)
  BY <1>2, <1>3 DEF Pub!pubVars
<1>4. CASE /\ PublishedOf(s)' = None /\ PublishedOf(s) # None
           /\ slo[s] # None => slo[s].deleting \/ PublishedOf(s) < slo[s].uid
  <2>1. Pub!Withdraw(s)
    BY <1>1, <1>2, <1>4 DEF Pub!Withdraw, Mapped
  <2>2. QED
    BY <2>1
<1>5. CASE /\ PublishedOf(s)' \in Nat /\ PublishedOf(s)' <= rev[s]
           /\ slo[s] # None => PublishedOf(s)' <= slo[s].spec
           /\ PublishedOf(s) # None => PublishedOf(s) <= PublishedOf(s)'
  <2>1. Pub!Publish(s)
    BY <1>1, <1>2, <1>5 DEF Pub!Publish, Mapped
  <2>2. QED
    BY <2>1
<1>6. QED
  BY <1>3, <1>4, <1>5

\* Steps that write or delete no rules change one SLO at most.
LEMMA OneSLO ==
    ASSUME TypeOK, [Next]_vars
    PROVE  \/ UNCHANGED <<slo, rev>>
           \/ \E s \in SLOs : \A t \in SLOs \ {s} : slo'[t] = slo[t] /\ rev'[t] = rev[t]
<1>1. ASSUME NEW s \in SLOs, NEW o, Store(s, o)
      PROVE  \A t \in SLOs \ {s} : slo'[t] = slo[t] /\ rev'[t] = rev[t]
  BY <1>1 DEF Store, TypeOK
<1>2. ASSUME NEW s \in SLOs, Remove(s)
      PROVE  \A t \in SLOs \ {s} : slo'[t] = slo[t] /\ rev'[t] = rev[t]
  BY <1>2 DEF Remove, TypeOK
<1>3. CASE User
  <2>1. \E s \in SLOs : (\E o : Store(s, o)) \/ Remove(s)
    BY <1>3 DEF User, UserCreate, UserUpdate, UserDelete
  <2>2. QED
    BY <1>1, <1>2, <2>1
<1>4. CASE (AddFinalizer \/ UpdateStatus \/ RemoveFinalizer) /\ Current
  <2>1. req \in SLOs /\ ((\E o : Store(req, o)) \/ Remove(req))
    BY <1>4 DEF AddFinalizer, UpdateStatus, RemoveFinalizer, TypeOK
  <2>2. QED
    BY <1>1, <1>2, <2>1
<1>5. QED
  BY <1>3, <1>4
     DEF Next, vars, Call, CollectGarbage, Inform, InformRule, Begin, Fail, Crash,
         AddFinalizer, UpdateStatus, RemoveFinalizer, SetGroup, DeleteGroup, GetRule,
         CreateRule, UpdateRule

\* What is in hand may be published: nothing newer is.
LEMMA HandPublishable ==
    ASSUME LInv, NEW s \in SLOs, pc # "idle", req = s
    PROVE  /\ obj.spec \in Nat /\ obj.spec <= rev[s]
           /\ slo[s] # None => obj.spec <= slo[s].spec
  BY HandBehind DEF LInv, Behind

\* The garbage collector withdraws the rules of a former SLO.
LEMMA CollectGarbageStep ==
    ASSUME LInv, [Next]_vars, NEW s \in SLOs, CollectGarbage(s)
    PROVE  [Pub!Next]_(Pub!pubVars)
<1>1. TypeOK /\ UNCHANGED <<mode, slo, rev, group>>
  BY DEF LInv, IInv, CollectGarbage
<1>2. \A t \in SLOs \ {s} : PublishedOf(t)' = PublishedOf(t)
  BY <1>1 DEF PublishedOf, CollectGarbage, TypeOK
<1>3. mode = "Mimir" => PublishedOf(s)' = PublishedOf(s)
  BY <1>1 DEF PublishedOf
<1>4. mode # "Mimir" => /\ PublishedOf(s)' = None
                        /\ slo[s] # None => PublishedOf(s) < slo[s].uid
  BY <1>1 DEF PublishedOf, CollectGarbage, TypeOK, LInv, RuleLives
<1>5. Pub!Publish(s) \/ Pub!Withdraw(s) \/ UNCHANGED Pub!pubVars
  BY <1>1, <1>2, <1>3, <1>4, PublishStep
<1>6. QED
  BY <1>5 DEF Pub!Next

\* A rule object is written from the copy in hand.
LEMMA WriteRuleStep ==
    ASSUME LInv, [Next]_vars, CreateRule \/ UpdateRule
    PROVE  [Pub!Next]_(Pub!pubVars)
<1>0. req \in SLOs /\ pc # "idle"
  BY DEF LInv, IInv, TypeOK, CreateRule, UpdateRule
<1> PICK s \in SLOs : s = req
  BY <1>0
<1>1. /\ IInv /\ TypeOK /\ obj \in Object /\ mode # "Mimir"
      /\ UNCHANGED mode /\ UNCHANGED <<slo, rev>>
  BY <1>0 DEF LInv, IInv, TypeOK, Steps, CreateRule, UpdateRule
<1>2. /\ obj.uid \in Nat /\ obj.spec \in Nat /\ obj.spec <= rev[s]
      /\ slo[s] # None => obj.spec <= slo[s].spec
  BY <1>0, <1>1, HandPublishable DEF Object
<1>3. UNCHANGED rule \/ StoreRule(s, obj.uid, obj.spec)
  BY DEF CreateRule, UpdateRule
<1>4. \A t \in SLOs \ {s} : PublishedOf(t)' = PublishedOf(t)
  <2>1. \A t \in SLOs \ {s} : rule'[t] = rule[t]
    BY <1>1, <1>2, <1>3, StoreRuleNext
  <2>2. QED
    BY <1>1, <2>1 DEF PublishedOf
<1>5. CASE rule'[s] = rule[s]
  <2>1. PublishedOf(s)' = PublishedOf(s)
    BY <1>1, <1>5 DEF PublishedOf
  <2>2. QED
    BY <1>1, <1>4, <2>1, PublishStep DEF Pub!Next
<1>6. CASE rule'[s] # rule[s]
  <2>1. rule'[s] # None /\ rule'[s].spec = obj.spec
    BY <1>1, <1>2, <1>3, <1>6, StoreRuleNext, Copies
  <2>2. PublishedOf(s)' = obj.spec
    BY <1>1, <2>1 DEF PublishedOf
  <2>3. rule[s] # None => rule[s].spec <= obj.spec
    BY <1>0, <1>1 DEF IInv, RulesBehind, Behind
  <2>4. PublishedOf(s) # None => PublishedOf(s) <= obj.spec
    <3>1. CASE rule[s] = None
      BY <1>1, <3>1 DEF PublishedOf
    <3>2. CASE rule[s] # None
      <4>1. PublishedOf(s) = rule[s].spec
        BY <1>1, <3>2 DEF PublishedOf
      <4>2. QED
        BY <2>3, <3>2, <4>1
    <3>3. QED
      BY <3>1, <3>2
  <2>5. /\ PublishedOf(s)' \in Nat /\ PublishedOf(s)' <= rev[s]
        /\ slo[s] # None => PublishedOf(s)' <= slo[s].spec
        /\ PublishedOf(s) # None => PublishedOf(s) <= PublishedOf(s)'
    BY <1>2, <2>2, <2>4
  <2>6. QED
    BY <1>1, <1>4, <2>5, PublishStep DEF Pub!Next
<1>7. QED
  BY <1>5, <1>6

\* A rule group is written from the copy in hand, into the namespace of its own name.
LEMMA SetGroupStep ==
    ASSUME OwnName, LInv, [Next]_vars, SetGroup
    PROVE  [Pub!Next]_(Pub!pubVars)
<1>0. req \in SLOs /\ pc # "idle"
  BY DEF LInv, IInv, TypeOK, SetGroup
<1> PICK s \in SLOs : s = req
  BY <1>0
<1> DEFINE n == NameOf[s]
<1>1. /\ IInv /\ TypeOK /\ obj \in Object /\ n \in Names /\ mode = "Mimir"
      /\ UNCHANGED mode /\ UNCHANGED <<slo, rev>>
  BY <1>0, Constants DEF LInv, IInv, TypeOK, Steps, SetGroup
<1>2. /\ obj.spec \in Nat /\ obj.spec <= rev[s]
      /\ slo[s] # None => obj.spec <= slo[s].spec
  BY <1>0, <1>1, HandPublishable
<1>3. \A t \in SLOs \ {s} : PublishedOf(t)' = PublishedOf(t)
  <2>1. \A t \in SLOs \ {s} : NameOf[t] \in Names \ {n}
    BY Constants DEF OwnName
  <2>2. \A m \in Names \ {n} : group'[m] = group[m]
    BY <1>1 DEF SetGroup, TypeOK
  <2>3. QED
    BY <1>1, <2>1, <2>2 DEF PublishedOf
<1>4. CASE group'[n] = group[n]
  <2>1. PublishedOf(s)' = PublishedOf(s)
    BY <1>1, <1>4 DEF PublishedOf
  <2>2. QED
    BY <1>1, <1>3, <2>1, PublishStep DEF Pub!Next
<1>5. CASE group'[n] # group[n]
  <2> DEFINE g == [slo |-> s, spec |-> obj.spec]
  <2>1. g \in Group /\ group'[n] = g
    BY <1>1, <1>2, <1>5 DEF Group, SetGroup, TypeOK
  <2>2. group'[n] # None /\ group'[n].spec = obj.spec
    BY <2>1, Copies
  <2>3. PublishedOf(s)' = obj.spec
    BY <1>1, <2>2 DEF PublishedOf
  <2>4. PublishedOf(s) # None => PublishedOf(s) <= obj.spec
    <3>1. CASE group[n] = None
      BY <1>1, <3>1 DEF PublishedOf
    <3>2. CASE group[n] # None
      <4>1. PublishedOf(s) = group[n].spec
        BY <1>1, <3>2 DEF PublishedOf
      <4>2. group[n].slo \in SLOs /\ NameOf[group[n].slo] = n
        BY <1>1, <3>2 DEF LInv, GroupNames, TypeOK, Group
      <4>3. group[n].slo = s
        BY <1>1, <4>2 DEF OwnName
      <4>4. QED
        BY <1>0, <1>1, <3>2, <4>1, <4>3 DEF IInv, GroupsBehind, Behind
    <3>3. QED
      BY <3>1, <3>2
  <2>5. /\ PublishedOf(s)' \in Nat /\ PublishedOf(s)' <= rev[s]
        /\ slo[s] # None => PublishedOf(s)' <= slo[s].spec
        /\ PublishedOf(s) # None => PublishedOf(s) <= PublishedOf(s)'
    BY <1>2, <2>3, <2>4
  <2>6. QED
    BY <1>1, <1>3, <2>5, PublishStep DEF Pub!Next
<1>6. QED
  BY <1>4, <1>5

\* The rule group of an SLO that the worker has seen deleting is withdrawn: the SLO is
\* still deleting, or gone, or was created again after the group was written.
LEMMA DeleteGroupStep ==
    ASSUME OwnName, LInv, [Next]_vars, DeleteGroup
    PROVE  [Pub!Next]_(Pub!pubVars)
<1>0. req \in SLOs /\ pc # "idle"
  BY DEF LInv, IInv, TypeOK, DeleteGroup
<1> PICK s \in SLOs : s = req
  BY <1>0
<1> DEFINE n == NameOf[s]
<1>1. /\ IInv /\ TypeOK /\ obj \in Object /\ n \in Names /\ mode = "Mimir"
      /\ obj.deleting /\ UNCHANGED mode /\ UNCHANGED <<slo, rev>>
  BY <1>0, Constants DEF LInv, IInv, TypeOK, Steps, DeleteGroup
<1>2. \A t \in SLOs \ {s} : PublishedOf(t)' = PublishedOf(t)
  <2>1. \A t \in SLOs \ {s} : NameOf[t] \in Names \ {n}
    BY Constants DEF OwnName
  <2>2. \A m \in Names \ {n} : group'[m] = group[m]
    BY <1>1 DEF DeleteGroup, TypeOK
  <2>3. QED
    BY <1>1, <2>1, <2>2 DEF PublishedOf
<1>3. CASE group'[n] = group[n]
  <2>1. PublishedOf(s)' = PublishedOf(s)
    BY <1>1, <1>3 DEF PublishedOf
  <2>2. QED
    BY <1>1, <1>2, <2>1, PublishStep DEF Pub!Next
<1>4. CASE group'[n] # group[n]
  <2>1. group'[n] = None /\ group[n] # None
    BY <1>1, <1>4 DEF DeleteGroup, TypeOK
  <2>2. PublishedOf(s)' = None /\ PublishedOf(s) = group[n].spec
    BY <1>1, <2>1 DEF PublishedOf
  <2>3. group[n] \in Group /\ group[n].slo \in SLOs /\ NameOf[group[n].slo] = n
    BY <1>1, <2>1 DEF LInv, GroupNames, TypeOK, Group
  <2>4. group[n].slo = s
    BY <1>1, <2>3 DEF OwnName
  <2>5. group[n].spec \in Nat /\ group[n].spec <= obj.spec
    BY <1>0, <1>1, <2>1, <2>3, <2>4 DEF IInv, GroupsBehind, Behind, Group
  <2>6. slo[s] # None => slo[s].deleting \/ obj.spec < slo[s].uid
    BY <1>0, <1>1 DEF LInv, HandLives, Lives
  <2>7. slo[s] # None => slo[s].uid \in Nat /\ obj.spec \in Nat
    BY <1>1 DEF TypeOK, Object
  <2>8. slo[s] # None => slo[s].deleting \/ PublishedOf(s) < slo[s].uid
    BY <2>2, <2>5, <2>6, <2>7
  <2>9. QED
    BY <1>1, <1>2, <2>2, <2>8, PublishStep DEF Pub!Next
<1>5. QED
  BY <1>3, <1>4

\* All other steps leave what is published alone.
LEMMA OtherStep ==
    ASSUME LInv, [Next]_vars, UNCHANGED <<rule, group>>
    PROVE  [Pub!Next]_(Pub!pubVars)
<1>1. /\ TypeOK /\ mode' = mode
      /\ \A t \in SLOs : PublishedOf(t)' = PublishedOf(t)
  BY MappedTypes DEF LInv, IInv, PublishedOf
<1>2. CASE UNCHANGED <<slo, rev>>
  <2>1. \A t \in SLOs : CurrentOf(t)' = CurrentOf(t)
    BY <1>2 DEF CurrentOf
  <2>2. UNCHANGED Pub!pubVars
    BY <1>1, <1>2, <2>1 DEF Pub!pubVars
  <2>3. QED
    BY <2>2
<1>3. ASSUME NEW s \in SLOs,
             \A t \in SLOs \ {s} : slo'[t] = slo[t] /\ rev'[t] = rev[t]
      PROVE  [Pub!Next]_(Pub!pubVars)
  BY <1>1, <1>3, ChangeStep DEF Pub!Next
<1>4. QED
  BY <1>1, <1>2, <1>3, OneSLO

LEMMA StepRefines ==
    ASSUME OwnName, LInv, [Next]_vars
    PROVE  [Pub!Next]_(Pub!pubVars)
<1>1. CASE UNCHANGED <<rule, group>>
  BY <1>1, OtherStep
<1>2. QED
  BY <1>1, CollectGarbageStep, WriteRuleStep, SetGroupStep, DeleteGroupStep
     DEF Next, vars, User, Call, Inform, InformRule, Begin, Fail, Crash,
         UserCreate, UserUpdate, UserDelete, AddFinalizer, UpdateStatus,
         RemoveFinalizer, GetRule

LEMMA InitRefines == Init => Pub!Init
<1> SUFFICES ASSUME Init PROVE Pub!Init
  OBVIOUS
<1>1. \A s \in SLOs : NameOf[s] \in Names
  BY Constants
<1>2. \A s \in SLOs : slo[s] = None /\ rule[s] = None /\ group[NameOf[s]] = None
  BY <1>1 DEF Init
<1>3. \A s \in SLOs : CurrentOf(s) = None /\ PublishedOf(s) = None
  BY <1>2 DEF CurrentOf, PublishedOf
<1>4. rev = [s \in SLOs |-> 0]
  BY DEF Init
<1>5. QED
  BY <1>3, <1>4 DEF Pub!Init

-----------------------------------------------------------------------------

\* If every SLO has a name of its own, the reconciler implements Publication: in any
\* mode, with any stale caches, conflicts, failed calls and crashes, the rules it
\* publishes for an SLO are of revisions of its spec, in their order, and are not
\* withdrawn while the SLO is there to stay.
THEOREM PublishesInOrderAlways ==
    ASSUME OwnName
    PROVE  Spec => PublishesInOrder
<1>1. LInv /\ [Next]_vars => [Pub!Next]_(Pub!pubVars)
  BY StepRefines
<1>2. QED
  BY InitLInv, NextLInv, InitRefines, <1>1, PTL DEF Spec, PublishesInOrder, Pub!Spec

=============================================================================
