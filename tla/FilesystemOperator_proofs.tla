---------------------- MODULE FilesystemOperator_proofs ----------------------
(* Proofs about FilesystemOperator for any files, contents, channel          *)
(* capacities and bounds.                                                    *)
EXTENDS FilesystemOperator, SequenceTheorems, TLAPS

-----------------------------------------------------------------------------
(* The constants.                                                            *)

\* The bounds of the channels and of the counters.
LEMMA Bounds ==
    /\ FilesCap \in Nat \ {0} /\ ReloadCap \in Nat \ {0}
    /\ MaxChanges \in Nat
  BY FilesystemAssumption DEF FilesystemAssumption

\* The files, and what they may hold.
LEMMA Data ==
    /\ Globbed \subseteq Files /\ Yaml \subseteq Files
    /\ Valid \subseteq Parses /\ Parses \subseteq Contents
    /\ None \notin Contents /\ Torn \notin Contents /\ Zero \notin Contents
    /\ None # Torn /\ None # Zero
  BY FilesystemAssumption DEF FilesystemAssumption

\* Every objective has a key, and it is not that of the zero Objective.
LEMMA KeysExist ==
    /\ EmptyKey \in Keys
    /\ \A f \in Files, c \in Parses :
        /\ KeysOf[f][c] \subseteq Keys
        /\ EmptyKey \notin KeysOf[f][c]
        /\ KeysOf[f][c] # {}
  BY FilesystemAssumption DEF FilesystemAssumption

-----------------------------------------------------------------------------
(* Queues.                                                                   *)

\* The empty queue.
LEMMA EmptyQueue ==
    ASSUME NEW S
    PROVE  <<>> \in Seq(S) /\ Len(<<>>) = 0 /\ \A x : ~Contains(<<>>, x)
  BY DEF Contains

\* What a queue contains after a send.
LEMMA ContainsAppend ==
    ASSUME NEW S, NEW q \in Seq(S), NEW x \in S, NEW y
    PROVE  Contains(Append(q, x), y) <=> Contains(q, y) \/ y = x
  BY DEF Contains

\* The events that inotify reports.
LEMMA EventType ==
    /\ \A f \in Files : [name |-> f, op |-> "Write"] \in Event
    /\ \A f \in Files : [name |-> f, op |-> "Other"] \in Event
    /\ \A e \in Event : e.name \in Files
  BY DEF Event

\* A receive removes nothing but the head.
LEMMA ContainsTail ==
    ASSUME NEW S, NEW q \in Seq(S), q # <<>>, NEW y, Contains(q, y), y # Head(q)
    PROVE  Contains(Tail(q), y)
<1>1. PICK i \in 1..Len(q) : q[i] = y
  BY DEF Contains
<1>2. i # 1 /\ i - 1 \in 1..Len(Tail(q)) /\ Tail(q)[i - 1] = q[i]
  BY <1>1
<1>3. QED
  BY <1>1, <1>2 DEF Contains

-----------------------------------------------------------------------------
(* Type correctness.                                                         *)

LEMMA InitTypeOK == Init => TypeOK
<1> SUFFICES ASSUME Init PROVE TypeOK
  OBVIOUS
<1> USE Bounds, Data DEF Init, ProcessInit
<1>1. DataTypeOK
  BY DEF DataTypeOK
<1>2. QueueTypeOK
  BY EmptyQueue DEF QueueTypeOK
<1>3. ActorTypeOK
  BY DEF ActorTypeOK
<1>4. CountTypeOK
  BY DEF CountTypeOK
<1>5. FlagTypeOK
  BY DEF FlagTypeOK
<1>6. QED
  BY <1>1, <1>2, <1>3, <1>4, <1>5 DEF TypeOK

LEMMA NextTypeOK == TypeOK /\ [Next]_vars => TypeOK'
<1> SUFFICES ASSUME TypeOK, [Next]_vars PROVE TypeOK'
  OBVIOUS
<1> USE Bounds, Data DEF TypeOK, diskVars, chanVars, listerVars, watcherVars, procVars,
            reloaderVars, groupVars, outVars, historyVars
<1>1. ASSUME NEW f \in Files, NEW c \in Contents, WriteInPlace(f, c) PROVE TypeOK'
  <2>1. DataTypeOK' /\ QueueTypeOK' /\ ActorTypeOK' /\ CountTypeOK'
    BY <1>1, EventType DEF WriteInPlace, Notify, DataTypeOK, QueueTypeOK, ActorTypeOK, CountTypeOK
  <2>2. FlagTypeOK'
    BY <1>1 DEF WriteInPlace, Notify, FlagTypeOK
  <2>3. QED
    BY <2>1, <2>2
<1>2. ASSUME NEW f \in Files, NEW c \in Contents \cup {None}, ReplaceOrRemove(f, c)
      PROVE  TypeOK'
  <2>1. DataTypeOK' /\ QueueTypeOK' /\ ActorTypeOK' /\ CountTypeOK'
    BY <1>2, EventType DEF ReplaceOrRemove, Notify, DataTypeOK, QueueTypeOK, ActorTypeOK, CountTypeOK
  <2>2. FlagTypeOK'
    BY <1>2 DEF ReplaceOrRemove, Notify, FlagTypeOK
  <2>3. QED
    BY <2>1, <2>2
<1>3. CASE ListerGlob
  <2>1. DataTypeOK' /\ QueueTypeOK' /\ ActorTypeOK' /\ CountTypeOK'
    BY <1>3 DEF ListerGlob, DataTypeOK, QueueTypeOK, ActorTypeOK, CountTypeOK
  <2>2. FlagTypeOK'
    BY <1>3 DEF ListerGlob, FlagTypeOK
  <2>3. QED
    BY <2>1, <2>2
<1>4. CASE ListerGlobFails
  <2>1. DataTypeOK' /\ QueueTypeOK' /\ ActorTypeOK' /\ CountTypeOK'
    BY <1>4 DEF ListerGlobFails, DataTypeOK, QueueTypeOK, ActorTypeOK, CountTypeOK
  <2>2. FlagTypeOK'
    BY <1>4 DEF ListerGlobFails, FlagTypeOK
  <2>3. QED
    BY <2>1, <2>2
<1>5. ASSUME NEW f \in todo, ListerSend(f) PROVE TypeOK'
  <2>1. DataTypeOK' /\ QueueTypeOK' /\ ActorTypeOK' /\ CountTypeOK'
    BY <1>5 DEF ListerSend, DataTypeOK, QueueTypeOK, ActorTypeOK, CountTypeOK
  <2>2. FlagTypeOK'
    BY <1>5 DEF ListerSend, FlagTypeOK
  <2>3. QED
    BY <2>1, <2>2
<1>6. CASE ListerReturn
  <2>1. DataTypeOK' /\ QueueTypeOK' /\ ActorTypeOK' /\ CountTypeOK'
    BY <1>6 DEF ListerReturn, DataTypeOK, QueueTypeOK, ActorTypeOK, CountTypeOK
  <2>2. FlagTypeOK'
    BY <1>6 DEF ListerReturn, FlagTypeOK
  <2>3. QED
    BY <2>1, <2>2
<1>7. CASE WatcherReceive
  <2>1. DataTypeOK' /\ QueueTypeOK' /\ ActorTypeOK' /\ CountTypeOK'
    BY <1>7, EventType, HeadTailProperties DEF WatcherReceive, DataTypeOK, QueueTypeOK, ActorTypeOK, CountTypeOK
  <2>2. FlagTypeOK'
    BY <1>7 DEF WatcherReceive, FlagTypeOK
  <2>3. QED
    BY <2>1, <2>2
<1>8. CASE WatcherSend
  <2>1. DataTypeOK' /\ QueueTypeOK' /\ ActorTypeOK' /\ CountTypeOK'
    BY <1>8 DEF WatcherSend, DataTypeOK, QueueTypeOK, ActorTypeOK, CountTypeOK
  <2>2. FlagTypeOK'
    BY <1>8 DEF WatcherSend, FlagTypeOK
  <2>3. QED
    BY <2>1, <2>2
<1>9. CASE WatcherReturn
  <2>1. DataTypeOK' /\ QueueTypeOK' /\ ActorTypeOK' /\ CountTypeOK'
    BY <1>9 DEF WatcherReturn, DataTypeOK, QueueTypeOK, ActorTypeOK, CountTypeOK
  <2>2. FlagTypeOK'
    BY <1>9 DEF WatcherReturn, FlagTypeOK
  <2>3. QED
    BY <2>1, <2>2
<1>10. CASE ProcessorReceive
  <2>1. DataTypeOK' /\ QueueTypeOK' /\ ActorTypeOK' /\ CountTypeOK'
    BY <1>10 DEF ProcessorReceive, DataTypeOK, QueueTypeOK, ActorTypeOK, CountTypeOK
  <2>2. FlagTypeOK'
    BY <1>10 DEF ProcessorReceive, FlagTypeOK
  <2>3. QED
    BY <2>1, <2>2
<1>11. CASE ProcessorRead
  <2>1. DataTypeOK' /\ QueueTypeOK' /\ ActorTypeOK' /\ CountTypeOK'
    BY <1>11 DEF ProcessorRead, DataTypeOK, QueueTypeOK, ActorTypeOK, CountTypeOK
  <2>2. FlagTypeOK'
    BY <1>11 DEF ProcessorRead, FlagTypeOK
  <2>3. QED
    BY <2>1, <2>2
<1>12. CASE ProcessorTruncate
  <2>1. DataTypeOK' /\ QueueTypeOK' /\ ActorTypeOK' /\ CountTypeOK'
    BY <1>12 DEF ProcessorTruncate, DataTypeOK, QueueTypeOK, ActorTypeOK, CountTypeOK
  <2>2. FlagTypeOK'
    BY <1>12 DEF ProcessorTruncate, FlagTypeOK
  <2>3. QED
    BY <2>1, <2>2
<1>13. CASE ProcessorWrite
  <2>1. DataTypeOK' /\ QueueTypeOK' /\ ActorTypeOK' /\ CountTypeOK'
    BY <1>13 DEF ProcessorWrite, DataTypeOK, QueueTypeOK, ActorTypeOK, CountTypeOK
  <2>2. FlagTypeOK'
    BY <1>13 DEF ProcessorWrite, FlagTypeOK
  <2>3. QED
    BY <2>1, <2>2
<1>14. CASE ProcessorWriteFails
  <2>1. DataTypeOK' /\ QueueTypeOK' /\ ActorTypeOK' /\ CountTypeOK'
    BY <1>14 DEF ProcessorWriteFails, DataTypeOK, QueueTypeOK, ActorTypeOK, CountTypeOK
  <2>2. FlagTypeOK'
    BY <1>14 DEF ProcessorWriteFails, FlagTypeOK
  <2>3. QED
    BY <2>1, <2>2
<1>15. CASE ProcessorLoad
  <2>1. DataTypeOK' /\ QueueTypeOK' /\ ActorTypeOK' /\ CountTypeOK'
    BY <1>15 DEF ProcessorLoad, DataTypeOK, QueueTypeOK, ActorTypeOK, CountTypeOK
  <2>2. FlagTypeOK'
    BY <1>15 DEF ProcessorLoad, FlagTypeOK
  <2>3. QED
    BY <2>1, <2>2
<1>16. CASE ProcessorSet
  <2>1. DataTypeOK'
    BY <1>16 DEF ProcessorSet, ActorTypeOK, DataTypeOK
  <2>2. QueueTypeOK' /\ ActorTypeOK' /\ CountTypeOK'
    BY <1>16 DEF ProcessorSet, QueueTypeOK, ActorTypeOK, CountTypeOK
  <2>3. FlagTypeOK'
    BY <1>16 DEF ProcessorSet, FlagTypeOK
  <2>4. QED
    BY <2>1, <2>2, <2>3
<1>17. CASE ProcessorTriggerReload
  <2>1. DataTypeOK' /\ QueueTypeOK' /\ ActorTypeOK' /\ CountTypeOK'
    BY <1>17 DEF ProcessorTriggerReload, DataTypeOK, QueueTypeOK, ActorTypeOK, CountTypeOK
  <2>2. FlagTypeOK'
    BY <1>17 DEF ProcessorTriggerReload, FlagTypeOK
  <2>3. QED
    BY <2>1, <2>2
<1>18. CASE ProcessorPanic
  <2>1. DataTypeOK' /\ QueueTypeOK' /\ ActorTypeOK' /\ CountTypeOK'
    BY <1>18 DEF ProcessorPanic, DataTypeOK, QueueTypeOK, ActorTypeOK, CountTypeOK
  <2>2. FlagTypeOK'
    BY <1>18 DEF ProcessorPanic, FlagTypeOK
  <2>3. QED
    BY <2>1, <2>2
<1>19. CASE ProcessorReturn
  <2>1. DataTypeOK' /\ QueueTypeOK' /\ ActorTypeOK' /\ CountTypeOK'
    BY <1>19 DEF ProcessorReturn, DataTypeOK, QueueTypeOK, ActorTypeOK, CountTypeOK
  <2>2. FlagTypeOK'
    BY <1>19 DEF ProcessorReturn, FlagTypeOK
  <2>3. QED
    BY <2>1, <2>2
<1>20. CASE ReloaderReceive
  <2>1. DataTypeOK' /\ QueueTypeOK' /\ ActorTypeOK' /\ CountTypeOK'
    BY <1>20 DEF ReloaderReceive, DataTypeOK, QueueTypeOK, ActorTypeOK, CountTypeOK
  <2>2. FlagTypeOK'
    BY <1>20 DEF ReloaderReceive, FlagTypeOK
  <2>3. QED
    BY <2>1, <2>2
<1>21. CASE ReloaderReturn
  <2>1. DataTypeOK' /\ QueueTypeOK' /\ ActorTypeOK' /\ CountTypeOK'
    BY <1>21 DEF ReloaderReturn, DataTypeOK, QueueTypeOK, ActorTypeOK, CountTypeOK
  <2>2. FlagTypeOK'
    BY <1>21 DEF ReloaderReturn, FlagTypeOK
  <2>3. QED
    BY <2>1, <2>2
<1>22. CASE ReloaderReset
  <2>1. DataTypeOK' /\ QueueTypeOK' /\ ActorTypeOK' /\ CountTypeOK'
    BY <1>22 DEF ReloaderReset, DataTypeOK, QueueTypeOK, ActorTypeOK, CountTypeOK
  <2>2. FlagTypeOK'
    BY <1>22 DEF ReloaderReset, FlagTypeOK
  <2>3. QED
    BY <2>1, <2>2
<1>23. CASE ReloaderTimeout
  <2>1. DataTypeOK' /\ QueueTypeOK' /\ ActorTypeOK' /\ CountTypeOK'
    BY <1>23 DEF ReloaderTimeout, DataTypeOK, QueueTypeOK, ActorTypeOK, CountTypeOK
  <2>2. FlagTypeOK'
    BY <1>23 DEF ReloaderTimeout, FlagTypeOK
  <2>3. QED
    BY <2>1, <2>2
<1>24. CASE ReloaderPosted
  <2>1. DataTypeOK' /\ QueueTypeOK' /\ ActorTypeOK' /\ CountTypeOK'
    BY <1>24 DEF ReloaderPosted, DataTypeOK, QueueTypeOK, ActorTypeOK, CountTypeOK
  <2>2. FlagTypeOK'
    BY <1>24 DEF ReloaderPosted, FlagTypeOK
  <2>3. QED
    BY <2>1, <2>2
<1>25. CASE ReloaderPostFails
  <2>1. DataTypeOK' /\ QueueTypeOK' /\ ActorTypeOK' /\ CountTypeOK'
    BY <1>25 DEF ReloaderPostFails, DataTypeOK, QueueTypeOK, ActorTypeOK, CountTypeOK
  <2>2. FlagTypeOK'
    BY <1>25 DEF ReloaderPostFails, FlagTypeOK
  <2>3. QED
    BY <2>1, <2>2
<1>26. CASE ServerFails
  <2>1. DataTypeOK' /\ QueueTypeOK' /\ ActorTypeOK' /\ CountTypeOK'
    BY <1>26 DEF ServerFails, DataTypeOK, QueueTypeOK, ActorTypeOK, CountTypeOK
  <2>2. FlagTypeOK'
    BY <1>26 DEF ServerFails, FlagTypeOK
  <2>3. QED
    BY <2>1, <2>2
<1>27. CASE GroupInterrupt
  <2>1. DataTypeOK' /\ QueueTypeOK' /\ ActorTypeOK' /\ CountTypeOK'
    BY <1>27 DEF GroupInterrupt, DataTypeOK, QueueTypeOK, ActorTypeOK, CountTypeOK
  <2>2. FlagTypeOK'
    BY <1>27 DEF GroupInterrupt, FlagTypeOK
  <2>3. QED
    BY <2>1, <2>2
<1>28. CASE Restart
  <2>1. DataTypeOK' /\ QueueTypeOK' /\ ActorTypeOK' /\ CountTypeOK'
    BY <1>28, EmptyQueue DEF Restart, DataTypeOK, QueueTypeOK, ActorTypeOK, CountTypeOK
  <2>2. FlagTypeOK'
    BY <1>28 DEF Restart, FlagTypeOK
  <2>3. QED
    BY <2>1, <2>2
<1>29. CASE UNCHANGED vars
  <2>1. DataTypeOK' /\ QueueTypeOK' /\ ActorTypeOK' /\ CountTypeOK'
    BY <1>29 DEF vars, DataTypeOK, QueueTypeOK, ActorTypeOK, CountTypeOK
  <2>2. FlagTypeOK'
    BY <1>29 DEF vars, FlagTypeOK
  <2>3. QED
    BY <2>1, <2>2
<1>30. QED
  BY <1>1, <1>2, <1>3, <1>4, <1>5, <1>6, <1>7, <1>8, <1>9, <1>10, <1>11, <1>12, <1>13, <1>14, <1>15, <1>16, <1>17, <1>18, <1>19, <1>20, <1>21, <1>22, <1>23, <1>24, <1>25, <1>26, <1>27, <1>28, <1>29
  DEF Next, Edit, Process, Lister, Watcher, Processor, Reloader

\* The state of the operator always has its type: among others, the channels never
\* exceed their capacity and the processor holds a YAML file, and a valid content
\* whenever it writes a rule file.
THEOREM TypeCorrect == Spec => []TypeOK
  BY InitTypeOK, NextTypeOK, PTL DEF Spec

-----------------------------------------------------------------------------
(* No edit is lost.                                                          *)

\* What is pending stays pending until the processor reads it. The exceptions are
\* files that are gone, and those that become unseen: when Glob fails, and when
\* the process is started again.
LEMMA PendingStep ==
    ASSUME TypeOK, Next, NEW f \in Yaml, Pending(f)
    PROVE  \/ Pending(f)'
           \/ ProcessorRead /\ pfile = f
           \/ ListerGlob /\ disk[f] = None
           \/ f \in unseen'
<1> USE Data DEF TypeOK, diskVars, chanVars, listerVars, watcherVars, procVars,
            reloaderVars, groupVars, outVars, historyVars
<1> DEFINE wrote == [name |-> f, op |-> "Write"]
<1>1. f \in Files /\ wrote \in Event
  BY EventType
<1>2. ASSUME NEW g \in Files, NEW op \in {"Write", "Other"}, Notify(g, op),
             UNCHANGED <<chanVars, listerVars, procVars, wpc, wfile>>
      PROVE  Pending(f)'
  <2>1. [name |-> g, op |-> op] \in Event
    BY DEF Event
  <2>2. Contains(events, wrote) => Contains(events', wrote)
    BY <1>2, <2>1, ContainsAppend DEF Notify, QueueTypeOK
  <2>3. QED
    BY <1>2, <2>2 DEF Pending, Contains
<1>3. CASE Edit
  BY <1>2, <1>3 DEF Edit, WriteInPlace, ReplaceOrRemove
<1>4. CASE ListerGlob
  <2>1. CASE f \in Globbed /\ disk[f] # None
    BY <1>4, <2>1 DEF ListerGlob, Pending
  <2>2. CASE f \notin Globbed
    BY <1>4, <2>2 DEF ListerGlob, Pending, Contains, ActorTypeOK
  <2>3. QED
    BY <1>4, <2>1, <2>2
<1>5. CASE ListerGlobFails
  BY <1>5 DEF ListerGlobFails, Pending, Contains
<1>6. ASSUME NEW g \in todo, ListerSend(g) PROVE Pending(f)'
  <2>1. Contains(files', f) <=> Contains(files, f) \/ f = g
    BY <1>6, ContainsAppend DEF ListerSend, QueueTypeOK, ActorTypeOK
  <2>2. QED
    BY <1>6, <2>1 DEF ListerSend, Pending, Contains
<1>7. CASE WatcherReceive
  <2>1. CASE Head(events) = wrote
    BY <1>7, <2>1 DEF WatcherReceive, Pending
  <2>2. CASE Head(events) # wrote
    <3>1. Contains(events, wrote) => Contains(events', wrote)
      BY <1>7, <2>2, ContainsTail DEF WatcherReceive, QueueTypeOK
    <3>2. QED
      BY <1>7, <3>1 DEF WatcherReceive, Pending, Contains
  <2>3. QED
    BY <2>1, <2>2
<1>8. CASE WatcherSend
  <2>1. Contains(files', f) <=> Contains(files, f) \/ f = wfile
    BY <1>8, ContainsAppend DEF WatcherSend, QueueTypeOK, ActorTypeOK
  <2>2. QED
    BY <1>8, <2>1 DEF WatcherSend, Pending, Contains
<1>9. CASE ProcessorReceive
  <2>1. CASE Head(files) = f
    BY <1>9, <2>1 DEF ProcessorReceive, Pending
  <2>2. CASE Head(files) # f
    <3>1. Contains(files, f) => Contains(files', f)
      BY <1>9, <2>2, ContainsTail DEF ProcessorReceive, QueueTypeOK
    <3>2. QED
      BY <1>9, <3>1 DEF ProcessorReceive, Pending, Contains
  <2>3. QED
    BY <2>1, <2>2
<1>10. CASE UNCHANGED <<events, files, listerVars, wpc, wfile>> /\ ppc # "read"
  BY <1>10 DEF Pending, Contains
<1>11. CASE UNCHANGED <<events, files, listerVars, wpc, wfile, ppc, pfile>>
  BY <1>11 DEF Pending, Contains
<1>12. CASE ListerReturn \/ WatcherReturn
  BY <1>12 DEF ListerReturn, WatcherReturn, Pending, Contains
<1>13. CASE ProcessorRead
  BY <1>13 DEF ProcessorRead, Pending, Contains
<1>14. CASE Restart
  BY <1>14 DEF Restart, Pending
<1>15. CASE ProcessorTruncate \/ ProcessorWrite \/ ProcessorWriteFails \/ ProcessorLoad
  BY <1>10, <1>15
  DEF ProcessorTruncate, ProcessorWrite, ProcessorWriteFails, ProcessorLoad
<1>16. CASE ProcessorSet \/ ProcessorTriggerReload \/ ProcessorPanic \/ ProcessorReturn
  BY <1>10, <1>16
  DEF ProcessorSet, ProcessorTriggerReload, ProcessorPanic, ProcessorReturn
<1>17. CASE Reloader \/ ServerFails \/ GroupInterrupt
  BY <1>11, <1>17
  DEF Reloader, ReloaderReceive, ReloaderReturn, ReloaderReset, ReloaderTimeout,
      ReloaderPosted, ReloaderPostFails, ServerFails, GroupInterrupt
<1>18. QED
  BY <1>3, <1>4, <1>5, <1>6, <1>7, <1>8, <1>9, <1>12, <1>13, <1>14, <1>15, <1>16,
     <1>17
  DEF Next, Process, Lister, Watcher, Processor

\* At the start every file that is not unseen is about to be globbed.
LEMMA InitPending == Init => \A f \in Files \ unseen : Pending(f)
<1> SUFFICES ASSUME Init, NEW f \in Files, f \notin unseen PROVE Pending(f)
  OBVIOUS
<1>1. f \in Globbed /\ lpc = "glob"
  BY DEF Init, ProcessInit
<1>2. QED
  BY <1>1 DEF Pending

\* An edit after which f is neither unseen nor pending is not an edit of f.
LEMMA EditElsewhere ==
    ASSUME TypeOK, Edit, NEW f \in Yaml, f \notin unseen', ~Pending(f)'
    PROVE  disk'[f] = disk[f] /\ f \notin unseen /\ ~Pending(f)
<1> USE Data
<1>1. disk'[f] = disk[f] /\ f \notin unseen
  <2>1. ASSUME NEW g \in Files, NEW c \in Contents, WriteInPlace(g, c)
        PROVE  disk'[f] = disk[f] /\ f \notin unseen
    <3>1. CASE g = f
      <4>1. watching /\ events' = Append(events, [name |-> f, op |-> "Write"])
        BY <2>1, <3>1 DEF WriteInPlace, Notify
      <4>2. Contains(events', [name |-> f, op |-> "Write"])
        BY <4>1, EventType, ContainsAppend DEF TypeOK, QueueTypeOK
      <4>3. QED
        BY <4>2 DEF Pending, Contains
    <3>2. CASE g # f
      BY <2>1, <3>2 DEF WriteInPlace, TypeOK, DataTypeOK
    <3>3. QED
      BY <3>1, <3>2
  <2>2. ASSUME NEW g \in Files, NEW c \in Contents \cup {None}, ReplaceOrRemove(g, c)
        PROVE  disk'[f] = disk[f] /\ f \notin unseen
    BY <2>2 DEF ReplaceOrRemove, TypeOK, DataTypeOK
  <2>3. QED
    BY <2>1, <2>2 DEF Edit
<1>2. UNCHANGED <<ppc, lpc>>
  BY DEF Edit, WriteInPlace, ReplaceOrRemove, procVars, listerVars
<1>3. ~Pending(f) \/ ProcessorRead \/ ListerGlob
  BY PendingStep DEF Next
<1>4. QED
  BY <1>1, <1>2, <1>3 DEF ProcessorRead, ListerGlob

\* No step of the operator or of its environment breaks RulesFollowDisk.
LEMMA RulesStep ==
    TypeOK /\ RulesFollowDisk /\ [Next]_vars => RulesFollowDisk'
<1> SUFFICES ASSUME TypeOK, RulesFollowDisk, Next, NEW f \in Yaml,
                    f \notin unseen', f \notin broken', ~Pending(f)', disk'[f] \in Valid
             PROVE  IF At({"write", "torn"}, f)' THEN pread' = disk'[f]
                                                 ELSE rules'[f] = disk'[f]
  BY DEF RulesFollowDisk, vars, Pending, At, Contains
<1> DEFINE ok == IF At({"write", "torn"}, f) THEN pread = disk[f]
                                            ELSE rules[f] = disk[f]
<1> USE Data DEF At, diskVars, chanVars, listerVars, watcherVars, procVars,
            reloaderVars, groupVars, outVars, historyVars
<1>1. f \in Files
  OBVIOUS
<1>2. ~Pending(f) \/ (ProcessorRead /\ pfile = f) \/ (ListerGlob /\ disk[f] = None)
  BY PendingStep
<1>3. ~Pending(f) /\ f \notin unseen \cup broken /\ disk[f] \in Valid => ok
  BY DEF RulesFollowDisk
<1>4. ASSUME UNCHANGED <<disk, rules, ppc, pfile, pread, broken>>,
             f \notin unseen, ~Pending(f)
      PROVE  ok'
  BY <1>3, <1>4
<1>5. CASE Edit
  <2>1. disk'[f] = disk[f] /\ f \notin unseen /\ ~Pending(f)
    BY <1>5, EditElsewhere
  <2>2. UNCHANGED <<procVars, outVars, broken>>
    BY <1>5 DEF Edit, WriteInPlace, ReplaceOrRemove
  <2>3. QED
    BY <1>3, <2>1, <2>2
<1>6. CASE ListerGlob
  BY <1>2, <1>4, <1>6 DEF ListerGlob, ProcessorRead
<1>7. CASE ListerGlobFails \/ (\E g \in todo : ListerSend(g)) \/ ListerReturn
  BY <1>2, <1>4, <1>7
  DEF ListerGlobFails, ListerSend, ListerReturn, ListerGlob, ProcessorRead
<1>8. CASE Watcher
  BY <1>2, <1>4, <1>8
  DEF Watcher, WatcherReceive, WatcherSend, WatcherReturn, ListerGlob, ProcessorRead
<1>9. CASE Reloader
  BY <1>2, <1>4, <1>9
  DEF Reloader, ReloaderReceive, ReloaderReturn, ReloaderReset, ReloaderTimeout,
      ReloaderPosted, ReloaderPostFails, ListerGlob, ProcessorRead
<1>10. CASE ServerFails \/ GroupInterrupt
  BY <1>2, <1>4, <1>10 DEF ServerFails, GroupInterrupt, ListerGlob, ProcessorRead
<1>11. CASE ProcessorReceive
  BY <1>2, <1>3, <1>11 DEF ProcessorReceive, ListerGlob, ProcessorRead
<1>12. CASE ProcessorRead
  BY <1>2, <1>3, <1>12 DEF ProcessorRead, ListerGlob
<1>13. CASE ProcessorTruncate
  BY <1>2, <1>3, <1>13 DEF ProcessorTruncate, ListerGlob, ProcessorRead, TypeOK, DataTypeOK
<1>14. CASE ProcessorWrite
  BY <1>2, <1>3, <1>14 DEF ProcessorWrite, ListerGlob, ProcessorRead, TypeOK, DataTypeOK
<1>15. CASE ProcessorWriteFails
  BY <1>2, <1>3, <1>15 DEF ProcessorWriteFails, ListerGlob, ProcessorRead
<1>16. CASE ProcessorLoad \/ ProcessorSet
  BY <1>2, <1>3, <1>16 DEF ProcessorLoad, ProcessorSet, ListerGlob, ProcessorRead
<1>17. CASE ProcessorTriggerReload \/ ProcessorPanic \/ ProcessorReturn
  BY <1>2, <1>3, <1>17
  DEF ProcessorTriggerReload, ProcessorPanic, ProcessorReturn, ListerGlob, ProcessorRead
<1>18. CASE Restart
  BY <1>18 DEF Restart, Pending
<1>19. QED
  BY <1>5, <1>6, <1>7, <1>8, <1>9, <1>10, <1>11, <1>12, <1>13, <1>14, <1>15,
     <1>16, <1>17, <1>18
  DEF Next, Process, Lister, Processor

\* Whatever is edited and whenever, and whatever fails, the rule file of a file
\* that is not pending is that of the content on disk.
THEOREM RulesFollowDiskAlways == Spec => []RulesFollowDisk
<1>1. Init => RulesFollowDisk
  BY InitPending, Data DEF RulesFollowDisk
<1>2. TypeOK /\ RulesFollowDisk /\ [Next]_vars => RulesFollowDisk'
  BY RulesStep
<1>3. QED
  BY <1>1, <1>2, TypeCorrect, PTL DEF Spec

\* No step breaks StoreFollowsDisk.
LEMMA StoreStep ==
    TypeOK /\ StoreFollowsDisk /\ [Next]_vars => StoreFollowsDisk'
<1> SUFFICES ASSUME TypeOK, StoreFollowsDisk, Next, NEW f \in Yaml,
                    f \notin unseen', ~Pending(f)', ~At({"write", "torn", "load"}, f)',
                    disk'[f] \in Parses, Unshared(f)'
             PROVE  IF At({"set"}, f)' THEN pread' = disk'[f]
                    ELSE \E k \in KeysOf[f][disk'[f]] : store'[k] = disk'[f]
  BY DEF StoreFollowsDisk, vars, Pending, At, Contains, Unshared
<1> DEFINE ok == IF At({"set"}, f) THEN pread = disk[f]
                 ELSE \E k \in KeysOf[f][disk[f]] : store[k] = disk[f]
<1> USE Data DEF At, diskVars, chanVars, listerVars, watcherVars, procVars,
            reloaderVars, groupVars, outVars, historyVars
<1>1. f \in Files
  OBVIOUS
<1>2. ~Pending(f) \/ (ProcessorRead /\ pfile = f) \/ (ListerGlob /\ disk[f] = None)
  BY PendingStep
<1>3. ~Pending(f) /\ f \notin unseen /\ disk'[f] = disk[f]
        /\ ~At({"write", "torn", "load"}, f) => ok
  BY DEF StoreFollowsDisk, Unshared
<1>4. ASSUME UNCHANGED <<disk, store, ppc, pfile, pread>>,
             f \notin unseen, ~Pending(f)
      PROVE  ok'
  BY <1>3, <1>4
<1>5. CASE Edit
  <2>1. disk'[f] = disk[f] /\ f \notin unseen /\ ~Pending(f)
    BY <1>5, EditElsewhere
  <2>2. UNCHANGED <<procVars, outVars, broken>>
    BY <1>5 DEF Edit, WriteInPlace, ReplaceOrRemove
  <2>3. QED
    BY <1>3, <2>1, <2>2
<1>6. CASE ListerGlob
  BY <1>2, <1>4, <1>6 DEF ListerGlob, ProcessorRead
<1>7. CASE ListerGlobFails \/ (\E g \in todo : ListerSend(g)) \/ ListerReturn
  BY <1>2, <1>4, <1>7
  DEF ListerGlobFails, ListerSend, ListerReturn, ListerGlob, ProcessorRead
<1>8. CASE Watcher
  BY <1>2, <1>4, <1>8
  DEF Watcher, WatcherReceive, WatcherSend, WatcherReturn, ListerGlob, ProcessorRead
<1>9. CASE Reloader
  BY <1>2, <1>4, <1>9
  DEF Reloader, ReloaderReceive, ReloaderReturn, ReloaderReset, ReloaderTimeout,
      ReloaderPosted, ReloaderPostFails, ListerGlob, ProcessorRead
<1>10. CASE ServerFails \/ GroupInterrupt
  BY <1>2, <1>4, <1>10 DEF ServerFails, GroupInterrupt, ListerGlob, ProcessorRead
<1>11. CASE ProcessorReceive
  BY <1>2, <1>3, <1>11 DEF ProcessorReceive, ListerGlob, ProcessorRead
<1>12. CASE ProcessorRead
  BY <1>2, <1>3, <1>12 DEF ProcessorRead, ListerGlob
<1>13. CASE ProcessorTruncate \/ ProcessorWrite \/ ProcessorWriteFails
  BY <1>2, <1>3, <1>13
  DEF ProcessorTruncate, ProcessorWrite, ProcessorWriteFails, ListerGlob, ProcessorRead
<1>14. CASE ProcessorLoad
  BY <1>2, <1>3, <1>14 DEF ProcessorLoad, ListerGlob, ProcessorRead
<1>15. CASE ProcessorSet
  <2>1. /\ ~Pending(f) /\ f \notin unseen /\ disk' = disk /\ ~At({"set"}, f)'
        /\ ppc = "set" /\ pfile \in Files
    BY <1>2, <1>15 DEF ProcessorSet, ListerGlob, ProcessorRead, TypeOK, ActorTypeOK
  <2>2. CASE pread \notin Parses
    <3>1. pfile # f
      BY <1>3, <2>1, <2>2
    <3>2. PICK k \in KeysOf[f][disk[f]] : store[k] = disk[f]
      BY <1>3, <2>1, <3>1
    <3>3. k # EmptyKey /\ store' = [store EXCEPT ![EmptyKey] = Zero]
      BY <1>1, <1>15, <2>1, <2>2, KeysExist DEF ProcessorSet
    <3>4. store'[k] = store[k]
      BY <3>3, <1>1, <2>1, KeysExist DEF TypeOK, DataTypeOK
    <3>5. QED
      BY <2>1, <3>2, <3>4
  <2>3. CASE pread \in Parses
    <3>1. PICK k \in KeysOf[pfile][pread] : store' = [store EXCEPT ![k] = pread]
      BY <1>15, <2>3 DEF ProcessorSet
    <3>2. k \in Keys
      BY <2>1, <2>3, <3>1, KeysExist
    <3>3. CASE pfile = f
      BY <1>3, <2>1, <3>1, <3>2, <3>3 DEF TypeOK, DataTypeOK
    <3>4. CASE pfile # f
      <4>1. PICK l \in KeysOf[f][disk[f]] : store[l] = disk[f]
        BY <1>3, <2>1, <3>4
      <4>2. l # k
        BY <2>1, <2>3, <3>1, <3>4 DEF Unshared
      <4>3. store'[l] = store[l]
        BY <1>1, <2>1, <3>1, <4>2, KeysExist DEF TypeOK, DataTypeOK
      <4>4. QED
        BY <2>1, <4>1, <4>3
    <3>5. QED
      BY <3>3, <3>4
  <2>4. QED
    BY <2>2, <2>3
<1>16. CASE ProcessorTriggerReload \/ ProcessorPanic \/ ProcessorReturn
  BY <1>2, <1>3, <1>16
  DEF ProcessorTriggerReload, ProcessorPanic, ProcessorReturn, ListerGlob, ProcessorRead
<1>17. CASE Restart
  BY <1>17 DEF Restart, Pending
<1>18. QED
  BY <1>5, <1>6, <1>7, <1>8, <1>9, <1>10, <1>11, <1>12, <1>13, <1>14, <1>15,
     <1>16, <1>17
  DEF Next, Process, Lister, Processor

\* The objective served for a file that is not pending is the one on disk, although
\* the processor reads the file a second time for it.
THEOREM StoreFollowsDiskAlways == Spec => []StoreFollowsDisk
<1>1. Init => StoreFollowsDisk
  BY InitPending, Data DEF StoreFollowsDisk
<1>2. TypeOK /\ StoreFollowsDisk /\ [Next]_vars => StoreFollowsDisk'
  BY StoreStep
<1>3. QED
  BY <1>1, <1>2, TypeCorrect, PTL DEF Spec

-----------------------------------------------------------------------------
(* No reload is forgotten.                                                   *)

\* Absent files are unseen at the start, and stay so.
LEMMA AbsentStep == TypeOK /\ AbsentUnseen /\ [Next]_vars => AbsentUnseen'
<1> SUFFICES ASSUME TypeOK, AbsentUnseen, Next, NEW f \in Files, disk'[f] = None
             PROVE  f \in unseen'
  BY DEF AbsentUnseen, vars
<1> USE Data DEF AbsentUnseen, TypeOK, DataTypeOK, historyVars, diskVars
<1>1. CASE Edit
  BY <1>1 DEF Edit, WriteInPlace, ReplaceOrRemove
<1>2. CASE Lister \/ Watcher
  BY <1>2
  DEF Lister, ListerGlob, ListerGlobFails, ListerSend, ListerReturn,
      Watcher, WatcherReceive, WatcherSend, WatcherReturn
<1>3. CASE ProcessorRead
  BY <1>3 DEF ProcessorRead
<1>4. CASE Processor /\ ~ProcessorRead
  BY <1>4
  DEF Processor, ProcessorReceive, ProcessorTruncate, ProcessorWrite,
      ProcessorWriteFails, ProcessorLoad, ProcessorSet, ProcessorTriggerReload,
      ProcessorPanic, ProcessorReturn
<1>5. CASE Reloader \/ ServerFails \/ GroupInterrupt
  BY <1>5
  DEF Reloader, ReloaderReceive, ReloaderReturn, ReloaderReset, ReloaderTimeout,
      ReloaderPosted, ReloaderPostFails, ServerFails, GroupInterrupt
<1>6. CASE Restart
  BY <1>6 DEF Restart
<1>7. QED
  BY <1>1, <1>2, <1>3, <1>4, <1>5, <1>6 DEF Next, Process

\* The strengthening that makes LoadedFollowsRules inductive: the lister skips
\* absent files, which must not be owed a reload.
ReloadInv == AbsentUnseen /\ LoadedFollowsRules

\* No step breaks LoadedFollowsRules.
LEMMA LoadedStep == TypeOK /\ ReloadInv /\ [Next]_vars => LoadedFollowsRules'
<1> SUFFICES ASSUME TypeOK, ReloadInv, Next, NEW f \in Yaml,
                    f \notin unseen', ~Pending(f)', ~ReloadOwed'
             PROVE  loaded'[f] = rules'[f] \/ reloadFailed'
  BY DEF ReloadInv, LoadedFollowsRules, AbsentUnseen, vars, Pending, Contains, ReloadOwed
<1> USE Data DEF diskVars, chanVars, listerVars, watcherVars, procVars,
            reloaderVars, groupVars, outVars, historyVars
<1>1. f \in Files /\ (disk[f] = None => f \in unseen)
  BY DEF ReloadInv, AbsentUnseen
<1>2. ~Pending(f) \/ (ProcessorRead /\ pfile = f) \/ (ListerGlob /\ disk[f] = None)
  BY PendingStep
<1>3. ~Pending(f) /\ f \notin unseen /\ ~ReloadOwed => loaded[f] = rules[f] \/ reloadFailed
  BY DEF ReloadInv, LoadedFollowsRules
<1>4. ASSUME UNCHANGED <<outVars, reloadFailed, ppc, reload, rpc, timer>>,
             f \notin unseen, ~Pending(f)
      PROVE  loaded'[f] = rules'[f] \/ reloadFailed'
  BY <1>3, <1>4 DEF ReloadOwed
<1>5. CASE Edit
  <2>1. f \notin unseen /\ ~Pending(f)
    BY <1>5, EditElsewhere
  <2>2. UNCHANGED <<outVars, reloadFailed, ppc, reload, rpc, timer>>
    BY <1>5 DEF Edit, WriteInPlace, ReplaceOrRemove
  <2>3. QED
    BY <1>4, <2>1, <2>2
<1>6. CASE ListerGlob
  BY <1>1, <1>2, <1>4, <1>6 DEF ListerGlob, ProcessorRead
<1>7. CASE ListerGlobFails \/ (\E g \in todo : ListerSend(g)) \/ ListerReturn
  BY <1>2, <1>4, <1>7
  DEF ListerGlobFails, ListerSend, ListerReturn, ListerGlob, ProcessorRead
<1>8. CASE Watcher
  BY <1>2, <1>4, <1>8
  DEF Watcher, WatcherReceive, WatcherSend, WatcherReturn, ListerGlob, ProcessorRead
<1>9. CASE ProcessorReceive \/ ProcessorReturn
  <2>1. f \notin unseen /\ ~Pending(f)
    BY <1>2, <1>9 DEF ProcessorReceive, ProcessorReturn, ListerGlob, ProcessorRead
  <2>2. ReloadOwed => ReloadOwed'
    BY <1>9 DEF ProcessorReceive, ProcessorReturn, ReloadOwed
  <2>3. UNCHANGED <<outVars, reloadFailed>>
    BY <1>9 DEF ProcessorReceive, ProcessorReturn
  <2>4. QED
    BY <1>3, <2>1, <2>2, <2>3
<1>10. CASE \/ ProcessorRead \/ ProcessorTruncate \/ ProcessorWrite
            \/ ProcessorWriteFails \/ ProcessorLoad \/ ProcessorSet \/ ProcessorPanic
  BY <1>10
  DEF ReloadOwed, ProcessorRead, ProcessorTruncate, ProcessorWrite,
      ProcessorWriteFails, ProcessorLoad, ProcessorSet, ProcessorPanic
<1>11. CASE ProcessorTriggerReload
  BY <1>11 DEF ProcessorTriggerReload, ReloadOwed, TypeOK, QueueTypeOK
<1>12. CASE ReloaderReceive \/ ReloaderReset \/ ReloaderTimeout
  BY <1>12 DEF ReloaderReceive, ReloaderReset, ReloaderTimeout, ReloadOwed
<1>13. CASE ReloaderReturn
  <2>1. f \notin unseen /\ ~Pending(f)
    BY <1>2, <1>13 DEF ReloaderReturn, ListerGlob, ProcessorRead
  <2>2. ReloadOwed => ReloadOwed'
    BY <1>13 DEF ReloaderReturn, ReloadOwed
  <2>3. UNCHANGED <<outVars, reloadFailed>>
    BY <1>13 DEF ReloaderReturn
  <2>4. QED
    BY <1>3, <2>1, <2>2, <2>3
<1>14. CASE ReloaderPosted \/ ReloaderPostFails
  BY <1>14 DEF ReloaderPosted, ReloaderPostFails
<1>15. CASE ServerFails \/ GroupInterrupt
  BY <1>2, <1>4, <1>15 DEF ServerFails, GroupInterrupt, ListerGlob, ProcessorRead
<1>16. CASE Restart
  BY <1>16 DEF Restart, Pending
<1>17. QED
  BY <1>5, <1>6, <1>7, <1>8, <1>9, <1>10, <1>11, <1>12, <1>13, <1>14, <1>15, <1>16
  DEF Next, Process, Lister, Processor, Reloader

\* A rule file that Prometheus has not loaded as it is now is owed a reload.
THEOREM LoadedFollowsRulesAlways == Spec => []LoadedFollowsRules
<1>1. Init => ReloadInv
  BY Data DEF Init, ProcessInit, ReloadInv, AbsentUnseen, LoadedFollowsRules
<1>2. TypeOK /\ ReloadInv /\ [Next]_vars => ReloadInv'
  BY AbsentStep, LoadedStep DEF ReloadInv
<1>3. ReloadInv => LoadedFollowsRules
  BY DEF ReloadInv
<1>4. QED
  BY <1>1, <1>2, <1>3, TypeCorrect, PTL DEF Spec

=============================================================================
