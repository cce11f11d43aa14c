--------------------------- MODULE ApiServer_proofs ---------------------------
(***************************************************************************)
(* What the handlers of the API server and the two caches they share        *)
(* guarantee for any number of concurrent requests, any TTLs and latency.    *)
(***************************************************************************)
EXTENDS ApiServer, FiniteSetTheorems, TLAPS

-----------------------------------------------------------------------------
(* The inductive invariant.                                                  *)

\* Where the request that r serves is: it came at most Latency ago, it holds a response
\* from the list step on and results from the ask step on.
Calls ==
    \A r \in Handlers :
        /\ pc[r] # "idle" =>
             /\ call[r] \in Call
             /\ begun[r] <= now /\ now <= begun[r] + Latency
             /\ call[r].time # Now => call[r].time <= now
        /\ pc[r] \in {"idle", "list", "fetch"} => ptr[r] = None
        /\ pc[r] \in {"fetched", "queries", "encode", "ask", "asked"} => ptr[r] # None
        /\ pc[r] \in {"idle", "list", "fetch", "fetched"} => \A i \in Stages : got[r][i] = None
        /\ pc[r] \in {"ask", "asked"} =>
             /\ stage[r] \in DOMAIN QueriesOf(call[r].kind)
             /\ call[r].time = Now => begun[r] <= ts[r] /\ ts[r] <= now

\* Whatever is pointed to is a response.
Pointers ==
    /\ \A r \in Handlers : ptr[r] # None => heap[ptr[r]] \in Response
    /\ listCache # None => heap[listCache.entry] \in Response

Revisions ==
    \A v \in 0..MaxEdits :
        /\ v >= backend.rev => replaced[v] = None
        /\ replaced[v] # None => replaced[v] <= now

\* Revision v was not replaced more than d before t.
Lasted(v, t, d) == replaced[v] = None \/ t <= replaced[v] + d

RevHeld(r) == heap[ptr[r]].rev
RevCached == heap[listCache.entry].rev

\* A response that has just come was current since its request came, a cached one
\* was so Latency before it was cached, and one that is held is either.
Lists ==
    /\ \A r \in Handlers :
         /\ pc[r] = "fetched" => Lasted(RevHeld(r), begun[r], 0)
         /\ ptr[r] # None => Lasted(RevHeld(r), begun[r], ListTTL + Latency)
    /\ listCache # None =>
         /\ now <= listCache.until /\ listCache.until <= now + ListTTL
         /\ Lasted(RevCached, listCache.until, ListTTL + Latency)

\* How long the results for query k are cached.
KeyTime(k) ==
    IF k.interval = 180 THEN 20 * QueryTTL ELSE IF k.interval = 60 THEN 12 * QueryTTL
    ELSE IF k.interval = 30 THEN 6 * QueryTTL ELSE IF k.interval = 15 THEN 3 * QueryTTL
    ELSE QueryTTL

\* All clients ask for the present.
Present == Times \subseteq {Now}

\* A cached result is complete, of the length that its key says, and was evaluated at
\* most Latency before it was cached.
Cached ==
    \A k \in DOMAIN promCache :
        LET e == promCache[k]
        IN  /\ e.entry.data = "full"
            /\ Rounded(e.entry.length) = k.length
            /\ Present =>
                 /\ now <= e.until /\ e.until <= now + KeyTime(k)
                 /\ e.entry.at + KeyTime(k) <= e.until
                 /\ e.until <= e.entry.at + KeyTime(k) + Latency

\* A result that a request for the present has: not too old when it was asked for, and
\* not from after it must be answered.
Recent ==
    \A r \in Handlers, i \in Stages :
        Present /\ got[r][i] # None =>
            /\ begun[r] <= ts[r]
            /\ ts[r] <= got[r][i].at + CacheTime(call[r]) + Latency
            /\ got[r][i].at <= begun[r] + Latency

IInv ==
    /\ TypeOK /\ Calls /\ Pointers /\ Revisions /\ Lists /\ Cached /\ Recent
    /\ IncompleteNotShared /\ RangeLengthKept

-----------------------------------------------------------------------------
(* The constants.                                                            *)

LEMMA Constants ==
    /\ ListTTL \in Nat /\ QueryTTL \in Nat /\ Latency \in Nat
    /\ MaxTime \in Nat /\ MaxEdits \in Nat /\ Rounding \in Nat /\ Rounding # 0
    /\ hours12 \in Nat /\ day \in Nat /\ week \in Nat /\ month \in Nat
  BY ApiAssumption DEF ApiAssumption

LEMMA Sets ==
    /\ \A t \in Times : t = Now \/ t \in Nat
    /\ \A n \in Counts : n \in Nat
    /\ \A n \in Lengths : n \in Nat
  BY ApiAssumption DEF ApiAssumption

LEMMA NotNumbers == None \notin Nat /\ None \notin Groupings /\ Now \notin Nat
  BY ApiAssumption DEF ApiAssumption

LEMMA Bounds ==
    ASSUME NEW w \in Workloads
    PROVE  w.edits \in 0..MaxEdits /\ w.until \in 0..MaxTime
  BY ApiAssumption DEF ApiAssumption

LEMMA AddressTypes == None \notin Addresses
<1>1. Cardinality(Handlers) \in Nat
  BY FS_CardinalityType, ApiAssumption DEF ApiAssumption
<1> QED
  BY <1>1, NotNumbers DEF Addresses

LEMMA CallTypes ==
    ASSUME NEW c \in Call
    PROVE  /\ c.kind \in Kinds /\ c.grouping \in Groupings /\ c.time \in Times
           /\ c.length \in Lengths \cup {0} /\ c.length \in Nat
<1>1. CASE c \in [kind : Kinds \ Graphs, grouping : Groupings, time : Times, length : {0}]
  BY <1>1
<1>2. CASE c \in [kind : Kinds \cap Graphs, grouping : Groupings, time : Times, length : Lengths]
  BY <1>2, Sets
<1> QED
  BY <1>1, <1>2 DEF Call

LEMMA ResponseTypes ==
    /\ \A v \in 0..MaxEdits, n \in Counts :
         [rev |-> v, count |-> n, queries |-> None] \in Response
    /\ \A x \in Response, g \in Groupings : [x EXCEPT !.queries = g] \in Response
    /\ \A x \in Response, g \in Groupings : [x EXCEPT !.queries = g].rev = x.rev
    /\ \A x \in Response : x.rev \in 0..MaxEdits
  BY DEF Response

LEMMA ResultTypes ==
    /\ \A a \in 0..MaxTime, n \in Lengths \cup {0}, d \in {"full", "empty", "warned"} :
         [at |-> a, length |-> n, data |-> d, cached |-> FALSE] \in Result
    /\ \A v \in Result :
         /\ [v EXCEPT !.cached = TRUE] \in Result
         /\ [v EXCEPT !.cached = TRUE].at = v.at
         /\ [v EXCEPT !.cached = TRUE].length = v.length
         /\ [v EXCEPT !.cached = TRUE].data = v.data
    /\ \A v \in Result : v.at \in Nat /\ v.length \in Nat
<1>1. \A a \in 0..MaxTime, n \in Lengths \cup {0}, d \in {"full", "empty", "warned"} :
        [at |-> a, length |-> n, data |-> d, cached |-> FALSE] \in Result
  BY DEF Result
<1>2. ASSUME NEW v \in Result
      PROVE  /\ [v EXCEPT !.cached = TRUE] \in Result
             /\ [v EXCEPT !.cached = TRUE].at = v.at
             /\ [v EXCEPT !.cached = TRUE].length = v.length
             /\ [v EXCEPT !.cached = TRUE].data = v.data
  BY DEF Result
<1>3. ASSUME NEW v \in Result
      PROVE  v.at \in Nat /\ v.length \in Nat
  <2>1. v.at \in 0..MaxTime /\ v.length \in Lengths \cup {0}
    BY DEF Result
  <2> QED
    BY <2>1, Constants, Sets
<1> QED
  BY <1>1, <1>2, <1>3

LEMMA Stage ==
    ASSUME NEW k \in Kinds
    PROVE  /\ DOMAIN QueriesOf(k) \subseteq Stages
           /\ k # "List" => 1 \in DOMAIN QueriesOf(k)
           /\ \A i \in DOMAIN QueriesOf(k) : i \in Nat
<1>1. DOMAIN QueriesOf(k) \subseteq Stages
  BY DEF Stages
<1> DEFINE asked == {p \in percentiles \cup {Target} : p <= Target}
<1>2. IsFiniteSet(percentiles \cup {Target}) /\ Target \in asked
  BY FS_AddElement, ApiAssumption DEF ApiAssumption
<1>3. IsFiniteSet(asked)
  BY <1>2, FS_Subset
<1>4. Cardinality(asked) \in Nat \ {0}
  BY <1>2, <1>3, FS_CardinalityType, FS_EmptySet
<1>5. DOMAIN GraphDuration = 1..Cardinality(asked)
  BY DEF GraphDuration
<1> HIDE DEF asked
<1>6. 1 \in DOMAIN GraphDuration /\ \A i \in DOMAIN GraphDuration : i \in Nat
  BY <1>4, <1>5
<1>7. k \in {"List", "Status", "Budget", "Rate", "Errors", "Duration"}
  BY ApiAssumption DEF ApiAssumption
<1> QED
  BY <1>1, <1>6, <1>7 DEF QueriesOf, GetStatus, GraphErrorBudget, GraphRate, GraphErrors

LEMMA CacheTimes ==
    ASSUME NEW c \in Call
    PROVE  CacheTime(c) \in Nat
  BY Constants, CallTypes DEF CacheTime, rangeCache

\* The key of a result tells how long it is cached: graphs of different lengths whose
\* results are cached for different times have different intervals in their queries.
LEMMA KeyIs ==
    ASSUME NEW r \in Handlers, call[r] \in Call
    PROVE  /\ KeyTime(KeyOf(r)) = CacheTime(call[r])
           /\ KeyOf(r).length = Rounded(call[r].length)
<1>1. call[r].length \in Nat
  BY CallTypes
<1> QED
  BY <1>1, Constants DEF KeyTime, KeyOf, CacheTime, rangeCache, rangeInterval

\* Lengths that are rounded to the same one differ by less than Rounding.
LEMMA RoundedNear ==
    ASSUME NEW m \in Nat, NEW n \in Nat, Rounded(m) = Rounded(n)
    PROVE  Distance(m, n) < Rounding
<1> DEFINE h == Rounding \div 2
           q(x) == (x + h) \div Rounding
<1>1. h \in Nat
  BY Constants
<1> HIDE DEF h
<1>2. \A x \in Nat : /\ q(x) \in Nat
                     /\ q(x) * Rounding <= x + h /\ x + h < q(x) * Rounding + Rounding
  BY <1>1, Constants
<1>3. q(m) * Rounding = q(n) * Rounding
  BY DEF Rounded, h
<1> HIDE DEF q
<1> DEFINE a == q(m) * Rounding
           b == q(n) * Rounding
<1>4. a <= m + h /\ m + h < a + Rounding /\ b <= n + h /\ n + h < b + Rounding /\ a \in Nat /\ b \in Nat
  BY <1>2, Constants
<1>5. a = b
  BY <1>3
<1> HIDE DEF a, b
<1> QED
  BY <1>1, <1>4, <1>5, Constants DEF Distance

-----------------------------------------------------------------------------
(* The initial state.                                                        *)

LEMMA InitIInv == Init => IInv
<1> SUFFICES ASSUME Init PROVE IInv
  OBVIOUS
<1>1. \A r \in Handlers : /\ pc[r] = "idle" /\ ptr[r] = None
                          /\ \A i \in Stages : got[r][i] = None
  BY DEF Init
<1>2. TypeOK
  BY Constants DEF Init, TypeOK
<1>3. Calls /\ Pointers /\ Revisions /\ Lists
  BY <1>1 DEF Init, Calls, Pointers, Revisions, Lists
<1>4. Cached /\ Recent /\ IncompleteNotShared /\ RangeLengthKept
  BY <1>1 DEF Init, Cached, Recent, IncompleteNotShared, RangeLengthKept
<1> QED
  BY <1>2, <1>3, <1>4 DEF IInv

-----------------------------------------------------------------------------
(* The environment.                                                          *)

\* Collect leaves what is pointed to.
LEMMA CollectKeeps ==
    ASSUME TypeOK, Pointers, heap' = Collect(ptr', listCache'),
           \A r \in Handlers : ptr'[r] \in {ptr[r], None}, listCache' \in {listCache, None}
    PROVE  /\ heap' \in [Addresses -> Response \cup {None}]
           /\ \A r \in Handlers : ptr'[r] # None => heap'[ptr'[r]] = heap[ptr[r]]
           /\ listCache' # None => heap'[listCache'.entry] = heap[listCache.entry]
           /\ Pointers'
<1>1. heap' \in [Addresses -> Response \cup {None}]
  BY DEF Collect, TypeOK
<1>2. ASSUME NEW r \in Handlers, ptr'[r] # None
      PROVE  heap'[ptr'[r]] = heap[ptr[r]]
  <2>1. ptr'[r] = ptr[r] /\ ptr[r] \in Addresses
    BY <1>2 DEF TypeOK
  <2> QED
    BY <2>1 DEF Collect
<1>3. ASSUME listCache' # None
      PROVE  heap'[listCache'.entry] = heap[listCache.entry]
  <2>1. listCache' = listCache /\ listCache.entry \in Addresses
    BY <1>3 DEF TypeOK, Expiring
  <2> QED
    BY <1>3, <2>1 DEF Collect
<1> QED
  BY <1>1, <1>2, <1>3 DEF Pointers

LEMMA KeyTimes == \A k : KeyTime(k) \in Nat
  BY Constants DEF KeyTime

\* What is a number, and what is a record.
LEMMA Numbers ==
    ASSUME TypeOK, Calls
    PROVE  /\ now \in Nat /\ backend.rev \in Nat
           /\ \A v \in 0..MaxEdits : replaced[v] # None => replaced[v] \in Nat
           /\ listCache # None => listCache.entry \in Addresses /\ listCache.until \in Nat
           /\ \A k \in DOMAIN promCache :
                /\ promCache[k].entry \in Result /\ promCache[k].until \in Nat
                /\ promCache[k].entry.at \in Nat /\ promCache[k].entry.length \in Nat
           /\ \A r \in Handlers :
                /\ begun[r] \in Nat /\ ts[r] \in Nat
                /\ pc[r] # "idle" =>
                     /\ CacheTime(call[r]) \in Nat /\ call[r].length \in Nat
                     /\ call[r].time # Now => call[r].time \in Nat
                /\ \A i \in Stages : got[r][i] # None =>
                     got[r][i] \in Result /\ got[r][i].at \in Nat /\ got[r][i].length \in Nat
<1>1. /\ now \in Nat /\ backend.rev \in Nat
      /\ \A r \in Handlers : begun[r] \in Nat /\ ts[r] \in Nat
      /\ \A v \in 0..MaxEdits : replaced[v] # None => replaced[v] \in Nat
  BY Constants DEF TypeOK
<1>2. listCache # None => listCache.entry \in Addresses /\ listCache.until \in Nat
  BY DEF TypeOK, Expiring
<1>3. ASSUME NEW k \in DOMAIN promCache
      PROVE  /\ promCache[k].entry \in Result /\ promCache[k].until \in Nat
             /\ promCache[k].entry.at \in Nat /\ promCache[k].entry.length \in Nat
  <2>1. promCache[k].entry \in Result /\ promCache[k].until \in Nat
    BY DEF TypeOK, Expiring
  <2> QED
    BY <2>1, ResultTypes
<1>4. ASSUME NEW r \in Handlers, pc[r] # "idle"
      PROVE  /\ CacheTime(call[r]) \in Nat /\ call[r].length \in Nat
             /\ call[r].time # Now => call[r].time \in Nat
  <2>1. call[r] \in Call
    BY <1>4 DEF Calls
  <2>2. call[r].length \in Nat /\ call[r].time \in Times
    BY <2>1, CallTypes
  <2>3. CacheTime(call[r]) \in Nat
    BY <2>1, CacheTimes
  <2> QED
    BY <2>2, <2>3, Sets
<1>5. ASSUME NEW r \in Handlers, NEW i \in Stages, got[r][i] # None
      PROVE  got[r][i] \in Result /\ got[r][i].at \in Nat /\ got[r][i].length \in Nat
  <2>1. got[r][i] \in Result
    BY <1>5 DEF TypeOK
  <2> QED
    BY <2>1, ResultTypes
<1> QED
  BY <1>1, <1>2, <1>3, <1>4, <1>5

LEMMA TickInv ==
    ASSUME IInv, Tick
    PROVE  IInv'
<1>1. /\ now < workload.until /\ now' = now + 1 /\ now \in Nat
      /\ \A r \in Handlers : pc[r] # "idle" => now < begun[r] + Latency
      /\ listCache' \in {listCache, None}
      /\ listCache' # None => now' <= listCache.until
      /\ promCache' = Expire(promCache, now') /\ heap' = Collect(ptr', listCache')
      /\ UNCHANGED <<workload, backend, replaced, pc, call, begun, ptr, stage, ts, got, answer>>
  BY Constants DEF IInv, TypeOK, Tick, Active, localVars, Expiring
<1>2. /\ heap' \in [Addresses -> Response \cup {None}]
      /\ \A r \in Handlers : ptr[r] # None => heap'[ptr[r]] = heap[ptr[r]]
      /\ listCache' # None => heap'[listCache'.entry] = heap[listCache.entry]
      /\ Pointers'
  <2>1. \A r \in Handlers : ptr'[r] \in {ptr[r], None}
    BY <1>1
  <2> QED
    BY <1>1, <2>1, CollectKeeps DEF IInv
<1>3. now' \in 0..MaxTime
  BY <1>1, Bounds, Constants DEF IInv, TypeOK
<1>4. /\ DOMAIN promCache' \subseteq DOMAIN promCache
      /\ \A k \in DOMAIN promCache' : promCache'[k] = promCache[k] /\ now' <= promCache[k].until
  BY <1>1 DEF Expire
<1>5. TypeOK'
  BY <1>1, <1>2, <1>3, <1>4 DEF IInv, TypeOK
<1>6. Calls'
  BY <1>1, Numbers, Constants DEF IInv, Calls
<1>7. Revisions'
  BY <1>1, Numbers DEF IInv, Revisions
<1>8. Lists'
  <2>1. listCache' # None =>
          /\ now' <= listCache'.until /\ listCache'.until <= now' + ListTTL
          /\ listCache' = listCache
    BY <1>1, Numbers, Constants DEF IInv, Lists
  <2>2. /\ \A r \in Handlers : ptr'[r] # None => RevHeld(r)' = RevHeld(r)
        /\ listCache' # None => RevCached' = RevCached
    BY <1>1, <1>2 DEF RevHeld, RevCached
  <2>3. \A r \in Handlers : pc'[r] = "fetched" => ptr'[r] # None
    BY <1>1 DEF IInv, Calls
  <2> QED
    BY <1>1, <2>1, <2>2, <2>3 DEF IInv, Lists, Lasted
<1>9. Cached'
  <2> SUFFICES ASSUME NEW k \in DOMAIN promCache', Present
               PROVE  now' <= promCache'[k].until /\ promCache'[k].until <= now' + KeyTime(k)
    BY <1>4 DEF IInv, Cached
  <2> QED
    BY <1>1, <1>4, Numbers, KeyTimes DEF IInv, Cached
<1>10. Recent' /\ IncompleteNotShared' /\ RangeLengthKept'
  BY <1>1 DEF IInv, Recent, IncompleteNotShared, RangeLengthKept
<1> QED
  BY <1>2, <1>5, <1>6, <1>7, <1>8, <1>9, <1>10 DEF IInv

LEMMA EditInv ==
    ASSUME IInv, NEW n \in Counts, EditObjectives(n)
    PROVE  IInv'
<1>1. /\ backend.rev \in Nat /\ backend.rev + 1 \in 0..MaxEdits /\ backend.rev \in 0..MaxEdits
      /\ backend' = [rev |-> backend.rev + 1, count |-> n]
      /\ replaced' = [replaced EXCEPT ![backend.rev] = now]
      /\ UNCHANGED <<workload, now, heap, listCache, promCache, pc, call, begun, ptr, stage, ts, got, answer>>
  <2>1. workload.edits \in 0..MaxEdits /\ backend.rev \in 0..MaxEdits
    BY Bounds DEF IInv, TypeOK
  <2> QED
    BY <2>1, Constants DEF EditObjectives, localVars
<1>2. TypeOK'
  BY <1>1 DEF IInv, TypeOK
<1>3. Calls' /\ Pointers' /\ Cached' /\ Recent' /\ IncompleteNotShared' /\ RangeLengthKept'
  BY <1>1 DEF IInv, Calls, Pointers, Cached, Recent, IncompleteNotShared, RangeLengthKept
<1>4. \A v \in 0..MaxEdits : replaced'[v] = IF v = backend.rev THEN now ELSE replaced[v]
  BY <1>1 DEF IInv, TypeOK
<1>5. Revisions'
  BY <1>1, <1>4, Numbers DEF IInv, Revisions
<1>6. Lists'
  <2>1. /\ \A r \in Handlers : RevHeld(r)' = RevHeld(r) /\ (ptr[r] # None => RevHeld(r) \in 0..MaxEdits)
        /\ RevCached' = RevCached /\ (listCache # None => RevCached \in 0..MaxEdits)
    BY <1>1, ResponseTypes DEF IInv, Pointers, RevHeld, RevCached
  <2>2. ASSUME NEW v \in 0..MaxEdits, NEW t \in Nat, NEW d \in Nat, t <= now + d, Lasted(v, t, d)
        PROVE  Lasted(v, t, d)'
    BY <2>2, <1>4 DEF Lasted
  <2>3. ASSUME NEW r \in Handlers, ptr[r] # None
        PROVE  /\ pc[r] = "fetched" => Lasted(RevHeld(r), begun[r], 0)'
               /\ Lasted(RevHeld(r), begun[r], ListTTL + Latency)'
    <3>1. begun[r] \in Nat /\ begun[r] <= now /\ now \in Nat
      BY <2>3, Numbers DEF IInv, Calls
    <3> QED
      BY <1>1, <1>4, <2>1, <2>3, <3>1, Constants DEF IInv, Lists, Lasted
  <2>4. ASSUME listCache # None
        PROVE  Lasted(RevCached, listCache.until, ListTTL + Latency)'
    <3>1. listCache.until \in Nat /\ listCache.until <= now + ListTTL /\ now \in Nat
      BY <2>4, Numbers DEF IInv, Lists
    <3> QED
      BY <1>1, <1>4, <2>1, <2>4, <3>1, Constants DEF IInv, Lists, Lasted
  <2> QED
    BY <1>1, <2>3, <2>4 DEF IInv, Lists, Calls
<1> QED
  BY <1>2, <1>3, <1>5, <1>6 DEF IInv

LEMMA BeginInv ==
    ASSUME IInv, NEW r \in Handlers, NEW c \in Call, Begin(r, c)
    PROVE  IInv'
<1>1. /\ pc[r] = "idle" /\ (c.time # Now => c.time <= now)
      /\ call' = [call EXCEPT ![r] = c] /\ begun' = [begun EXCEPT ![r] = now]
      /\ pc' = [pc EXCEPT ![r] = "list"]
      /\ UNCHANGED <<workload, now, backend, replaced, heap, listCache, promCache, ptr, stage, ts, got, answer>>
  BY DEF Begin, envVars
<1>2. TypeOK'
  BY <1>1 DEF IInv, TypeOK
<1>3. /\ call'[r] = c /\ begun'[r] = now /\ pc'[r] = "list" /\ ptr[r] = None
      /\ \A i \in Stages : got[r][i] = None
      /\ \A s \in Handlers \ {r} : call'[s] = call[s] /\ begun'[s] = begun[s] /\ pc'[s] = pc[s]
  BY <1>1 DEF IInv, TypeOK, Calls
<1>4. Calls'
  BY <1>1, <1>3, Numbers, Constants DEF IInv, Calls
<1>5. Pointers' /\ Revisions' /\ Cached'
  BY <1>1 DEF IInv, Pointers, Revisions, Cached
<1>6. Lists'
  BY <1>1, <1>3 DEF IInv, Lists, Lasted, RevHeld, RevCached
<1>7. Recent' /\ IncompleteNotShared' /\ RangeLengthKept'
  BY <1>1, <1>3 DEF IInv, Recent, IncompleteNotShared, RangeLengthKept
<1> QED
  BY <1>2, <1>4, <1>5, <1>6, <1>7 DEF IInv

-----------------------------------------------------------------------------
(* The handlers.                                                             *)

LEMMA LeaveInv ==
    ASSUME IInv, NEW r \in Handlers, Leave(r)
    PROVE  IInv'
<1>1. /\ call' = [call EXCEPT ![r] = None] /\ begun' = [begun EXCEPT ![r] = 0]
      /\ pc' = [pc EXCEPT ![r] = "idle"] /\ ptr' = [ptr EXCEPT ![r] = None]
      /\ stage' = [stage EXCEPT ![r] = None] /\ ts' = [ts EXCEPT ![r] = 0]
      /\ got' = [got EXCEPT ![r] = [i \in Stages |-> None]]
      /\ answer' = [answer EXCEPT ![r] = None] /\ heap' = Collect(ptr', listCache')
      /\ UNCHANGED <<workload, now, backend, replaced, listCache, promCache>>
  BY DEF Leave, envVars
<1>2. /\ pc'[r] = "idle" /\ ptr'[r] = None /\ \A i \in Stages : got'[r][i] = None
      /\ \A s \in Handlers \ {r} :
           /\ call'[s] = call[s] /\ begun'[s] = begun[s] /\ pc'[s] = pc[s] /\ ptr'[s] = ptr[s]
           /\ stage'[s] = stage[s] /\ ts'[s] = ts[s] /\ got'[s] = got[s]
  BY <1>1 DEF IInv, TypeOK
<1>3. /\ heap' \in [Addresses -> Response \cup {None}]
      /\ \A s \in Handlers : ptr'[s] # None => heap'[ptr'[s]] = heap[ptr[s]]
      /\ listCache' # None => heap'[listCache'.entry] = heap[listCache.entry]
      /\ Pointers'
  <2>1. \A s \in Handlers : ptr'[s] \in {ptr[s], None}
    BY <1>2
  <2> QED
    BY <1>1, <2>1, CollectKeeps DEF IInv
<1>4. TypeOK'
  <2>1. 0 \in 0..MaxTime
    BY Constants
  <2>2. /\ call' \in [Handlers -> Call \cup {None}] /\ begun' \in [Handlers -> 0..MaxTime]
        /\ ptr' \in [Handlers -> Addresses \cup {None}] /\ stage' \in [Handlers -> Stages \cup {None}]
        /\ ts' \in [Handlers -> 0..MaxTime] /\ answer' \in [Handlers -> Response \cup {None}]
    BY <1>1, <2>1 DEF IInv, TypeOK
  <2>3. /\ pc' \in [Handlers -> {"idle", "list", "fetch", "fetched", "queries", "encode", "ask", "asked", "done"}]
        /\ got' \in [Handlers -> [Stages -> Result \cup {None}]]
    BY <1>1 DEF IInv, TypeOK
  <2> QED
    BY <1>1, <1>3, <2>2, <2>3 DEF IInv, TypeOK
<1>5. Calls' /\ Revisions' /\ Cached'
  BY <1>1, <1>2 DEF IInv, Calls, Revisions, Cached
<1>6. Lists'
  <2>1. /\ \A s \in Handlers : ptr'[s] # None => RevHeld(s)' = RevHeld(s)
        /\ listCache' # None => RevCached' = RevCached
    BY <1>3 DEF RevHeld, RevCached
  <2>2. \A s \in Handlers : pc'[s] = "fetched" => ptr'[s] # None
    BY <1>2 DEF IInv, Calls
  <2> QED
    BY <1>1, <1>2, <2>1, <2>2 DEF IInv, Lists, Lasted
<1>7. Recent' /\ IncompleteNotShared' /\ RangeLengthKept'
  BY <1>1, <1>2 DEF IInv, Recent, IncompleteNotShared, RangeLengthKept
<1> QED
  BY <1>3, <1>4, <1>5, <1>6, <1>7 DEF IInv

\* A handler goes on with a response that may be used, and leaves one in the cache that
\* may be found there.
LEMMA ProceedInv ==
    ASSUME IInv, NEW r \in Handlers, pc[r] \in {"list", "fetched"},
           NEW p \in Addresses, heap[p] \in Response, Proceed(r, p, heap[p]),
           Lasted(heap[p].rev, begun[r], ListTTL + Latency),
           UNCHANGED <<workload, now, backend, replaced, heap, promCache>>,
           listCache' \in Expiring(Addresses) \cup {None},
           listCache' # None =>
             /\ heap[listCache'.entry] \in Response
             /\ now <= listCache'.until /\ listCache'.until <= now + ListTTL
             /\ Lasted(heap[listCache'.entry].rev, listCache'.until, ListTTL + Latency)
    PROVE  IInv'
<1> DEFINE k == call[r].kind
           next == IF k = "List" THEN "queries" ELSE IF heap[p].count = 1 THEN "ask" ELSE "done"
           first == IF k = "List" THEN None ELSE 1
           asks == IF call[r].time = Now THEN now ELSE call[r].time
<1>1. /\ ptr' = [ptr EXCEPT ![r] = p] /\ pc' = [pc EXCEPT ![r] = next]
      /\ stage' = [stage EXCEPT ![r] = first] /\ ts' = [ts EXCEPT ![r] = asks]
      /\ UNCHANGED <<call, begun, got, answer>>
  BY DEF Proceed
<1>2. /\ call[r] \in Call /\ k \in Kinds /\ p # None
      /\ begun[r] \in Nat /\ begun[r] <= now /\ now \in Nat
      /\ \A i \in Stages : got[r][i] = None
  BY CallTypes, Numbers, AddressTypes DEF IInv, Calls
<1>3. first \in Stages \cup {None} /\ (k # "List" => first \in DOMAIN QueriesOf(k))
  BY <1>2, Stage
<1>4. /\ asks \in 0..MaxTime /\ asks <= now
      /\ call[r].time = Now => begun[r] <= asks
  <2>1. call[r].time # Now => call[r].time \in Nat /\ call[r].time <= now
    BY <1>2, Numbers DEF IInv, Calls
  <2>2. now \in 0..MaxTime
    BY DEF IInv, TypeOK
  <2> QED
    BY <1>2, <2>1, <2>2, Constants
<1>5. next \in {"queries", "ask", "done"} /\ (next = "ask" => k # "List")
  OBVIOUS
<1> HIDE DEF next, first, asks
<1>6. /\ pc'[r] = next /\ ptr'[r] = p /\ stage'[r] = first /\ ts'[r] = asks
      /\ \A s \in Handlers \ {r} :
           pc'[s] = pc[s] /\ ptr'[s] = ptr[s] /\ stage'[s] = stage[s] /\ ts'[s] = ts[s]
  BY <1>1 DEF IInv, TypeOK
<1>7. TypeOK'
  BY <1>1, <1>3, <1>4, <1>5 DEF IInv, TypeOK
<1>8. Calls'
  BY <1>1, <1>2, <1>3, <1>4, <1>5, <1>6 DEF IInv, Calls
<1>9. Pointers' /\ Revisions' /\ Cached'
  BY <1>6 DEF IInv, Pointers, Revisions, Cached
<1>10. Lists'
  BY <1>1, <1>5, <1>6 DEF IInv, Lists, Lasted, RevHeld, RevCached
<1>11. Recent' /\ IncompleteNotShared' /\ RangeLengthKept'
  BY <1>1, <1>2, <1>6 DEF IInv, Recent, IncompleteNotShared, RangeLengthKept
<1> QED
  BY <1>7, <1>8, <1>9, <1>10, <1>11 DEF IInv

\* Only the place of a handler changes: no request is left out of what is said of it.
LEMMA GoesOn ==
    ASSUME IInv, NEW r \in Handlers, NEW q, pc' = [pc EXCEPT ![r] = q],
           \/ pc[r] = "list" /\ q = "fetch"
           \/ pc[r] = "ask" /\ q = "asked",
           UNCHANGED <<workload, now, backend, replaced, heap, listCache, promCache>>,
           UNCHANGED <<call, begun, ptr, stage, ts, got, answer>>
    PROVE  IInv'
<1>1. pc'[r] = q /\ \A s \in Handlers \ {r} : pc'[s] = pc[s]
  BY DEF IInv, TypeOK
<1>2. TypeOK'
  BY DEF IInv, TypeOK
<1>3. Calls' /\ Pointers' /\ Revisions' /\ Cached'
  BY <1>1 DEF IInv, Calls, Pointers, Revisions, Cached
<1>4. Lists'
  BY <1>1 DEF IInv, Lists, Lasted, RevHeld, RevCached
<1>5. Recent' /\ IncompleteNotShared' /\ RangeLengthKept'
  BY DEF IInv, Recent, IncompleteNotShared, RangeLengthKept
<1> QED
  BY <1>2, <1>3, <1>4, <1>5 DEF IInv

LEMMA FindObjectivesInv ==
    ASSUME IInv, NEW r \in Handlers, FindObjectives(r)
    PROVE  IInv'
<1>1. CASE listCache # None
  <2>1. /\ pc[r] = "list" /\ Proceed(r, listCache.entry, heap[listCache.entry])
        /\ UNCHANGED <<workload, now, backend, replaced, heap, listCache, promCache>>
    BY <1>1 DEF FindObjectives, envVars
  <2>2. /\ listCache.entry \in Addresses /\ listCache.until \in Nat
        /\ heap[listCache.entry] \in Response
        /\ now <= listCache.until /\ listCache.until <= now + ListTTL
        /\ Lasted(heap[listCache.entry].rev, listCache.until, ListTTL + Latency)
    BY <1>1, Numbers DEF IInv, Pointers, Lists, RevCached
  <2>3. Lasted(heap[listCache.entry].rev, begun[r], ListTTL + Latency)
    <3>1. begun[r] \in Nat /\ begun[r] <= now /\ now \in Nat
      BY <2>1, Numbers DEF IInv, Calls
    <3>2. heap[listCache.entry].rev \in 0..MaxEdits
      BY <2>2, ResponseTypes
    <3> QED
      BY <2>2, <3>1, <3>2, Numbers, Constants DEF IInv, Lasted
  <2>4. listCache' \in Expiring(Addresses) \cup {None}
    BY <2>1 DEF IInv, TypeOK
  <2> QED
    BY <2>1, <2>2, <2>3, <2>4, ProceedInv
<1>2. CASE listCache = None
  BY <1>2, GoesOn DEF FindObjectives, envVars, localVars
<1> QED
  BY <1>1, <1>2

LEMMA KeepObjectivesInv ==
    ASSUME IInv, NEW r \in Handlers, KeepObjectives(r)
    PROVE  IInv'
<1> DEFINE p == ptr[r]
<1>1. /\ pc[r] = "fetched" /\ Proceed(r, p, heap[p])
      /\ listCache' = [entry |-> p, until |-> now + ListTTL] \/ listCache' = listCache
      /\ UNCHANGED <<workload, now, backend, replaced, heap, promCache>>
  BY DEF KeepObjectives, envVars
<1>2. p \in Addresses /\ heap[p] \in Response /\ heap[p].rev \in 0..MaxEdits
  BY <1>1, ResponseTypes DEF IInv, TypeOK, Calls, Pointers
<1>3. Lasted(heap[p].rev, begun[r], 0)
  BY <1>1 DEF IInv, Lists, RevHeld
<1> HIDE DEF p
<1>4. now \in Nat /\ begun[r] \in Nat /\ begun[r] <= now /\ now <= begun[r] + Latency
  BY <1>1, Numbers DEF IInv, Calls
<1>5. /\ Lasted(heap[p].rev, begun[r], ListTTL + Latency)
      /\ Lasted(heap[p].rev, now + ListTTL, ListTTL + Latency)
  BY <1>2, <1>3, <1>4, Numbers, Constants DEF IInv, Lasted
<1>6. /\ listCache' \in Expiring(Addresses) \cup {None}
      /\ listCache' # None =>
           /\ heap[listCache'.entry] \in Response
           /\ now <= listCache'.until /\ listCache'.until <= now + ListTTL
           /\ Lasted(heap[listCache'.entry].rev, listCache'.until, ListTTL + Latency)
  <2>1. CASE listCache' = listCache
    BY <2>1 DEF IInv, TypeOK, Pointers, Lists, RevCached
  <2>2. CASE listCache' = [entry |-> p, until |-> now + ListTTL]
    BY <2>2, <1>2, <1>4, <1>5, Constants DEF Expiring
  <2> QED
    BY <1>1, <2>1, <2>2
<1> QED
  BY <1>1, <1>2, <1>5, <1>6, ProceedInv

\* The address that is written need not be free for this: whoever pointed to it would
\* then point to the backend's current objectives.
LEMMA BackendAnswersInv ==
    ASSUME IInv, NEW r \in Handlers, BackendAnswers(r)
    PROVE  IInv'
<1> DEFINE new == [rev |-> backend.rev, count |-> backend.count, queries |-> None]
<1>1. PICK a \in Addresses : heap' = [heap EXCEPT ![a] = new] /\ ptr' = [ptr EXCEPT ![r] = a]
  BY DEF BackendAnswers
<1>2. /\ pc[r] = "fetch" /\ pc' = [pc EXCEPT ![r] = "fetched"]
      /\ UNCHANGED <<workload, now, backend, replaced, listCache, promCache>>
      /\ UNCHANGED <<call, begun, stage, ts, got, answer>>
  BY DEF BackendAnswers, envVars
<1>3. new \in Response /\ new.rev = backend.rev /\ backend.rev \in 0..MaxEdits
  BY ResponseTypes DEF IInv, TypeOK
<1> HIDE DEF new
<1>4. replaced[backend.rev] = None
  BY <1>3, Constants DEF IInv, Revisions
<1>5. /\ \A b \in Addresses : heap'[b] = IF b = a THEN new ELSE heap[b]
      /\ ptr'[r] = a /\ pc'[r] = "fetched" /\ \A i \in Stages : got[r][i] = None
      /\ \A s \in Handlers \ {r} : ptr'[s] = ptr[s] /\ pc'[s] = pc[s]
  BY <1>1, <1>2 DEF IInv, TypeOK, Calls
<1>6. TypeOK'
  BY <1>1, <1>2, <1>3 DEF IInv, TypeOK
<1>7. /\ \A s \in Handlers : ptr'[s] # None => ptr'[s] \in Addresses
      /\ listCache # None => listCache.entry \in Addresses
  BY <1>6, Numbers DEF IInv, TypeOK
<1>8. Calls'
  BY <1>2, <1>5, AddressTypes DEF IInv, Calls
<1>9. Pointers'
  BY <1>2, <1>3, <1>5, <1>7 DEF IInv, Pointers
<1>10. Revisions' /\ Cached' /\ Recent' /\ IncompleteNotShared' /\ RangeLengthKept'
  BY <1>2 DEF IInv, Revisions, Cached, Recent, IncompleteNotShared, RangeLengthKept
<1>11. Lists'
  <2>1. /\ \A s \in Handlers : ptr'[s] # None =>
             \/ RevHeld(s)' = backend.rev
             \/ s # r /\ RevHeld(s)' = RevHeld(s)
        /\ listCache # None => RevCached' = backend.rev \/ RevCached' = RevCached
    <3>1. ASSUME NEW s \in Handlers, ptr'[s] # None
          PROVE  \/ heap'[ptr'[s]].rev = backend.rev
                 \/ s # r /\ heap'[ptr'[s]] = heap[ptr[s]]
      <4>1. \/ ptr'[s] = a
            \/ s # r /\ ptr'[s] = ptr[s] /\ heap'[ptr'[s]] = heap[ptr[s]]
        BY <3>1, <1>5, <1>7
      <4> QED
        BY <4>1, <1>3, <1>5
    <3>2. ASSUME listCache # None
          PROVE  \/ heap'[listCache'.entry].rev = backend.rev
                 \/ heap'[listCache'.entry] = heap[listCache.entry]
      BY <3>2, <1>2, <1>3, <1>5, <1>7
    <3> QED
      BY <3>1, <3>2 DEF RevHeld, RevCached
  <2>2. \A t, d : Lasted(backend.rev, t, d)
    BY <1>4 DEF Lasted
  <2>3. ASSUME NEW s \in Handlers
        PROVE  /\ pc'[s] = "fetched" => Lasted(RevHeld(s), begun[s], 0)'
               /\ ptr'[s] # None => Lasted(RevHeld(s), begun[s], ListTTL + Latency)'
    <3>1. pc'[s] = "fetched" => ptr'[s] # None
      BY <1>5, <1>8 DEF Calls
    <3> QED
      BY <1>2, <1>5, <2>1, <2>2, <3>1 DEF IInv, Lists, Lasted
  <2>4. listCache' # None => Lasted(RevCached, listCache.until, ListTTL + Latency)'
    BY <1>2, <2>1, <2>2 DEF IInv, Lists, Lasted
  <2> QED
    BY <1>2, <2>3, <2>4 DEF IInv, Lists
<1> QED
  BY <1>6, <1>8, <1>9, <1>10, <1>11 DEF IInv

\* The Queries of a response change for all that point to it, its revision does not.
LEMMA WriteQueriesInv ==
    ASSUME IInv, NEW r \in Handlers, WriteQueries(r)
    PROVE  IInv'
<1> DEFINE p == ptr[r]
           new == [heap[p] EXCEPT !.queries = call[r].grouping]
<1>1. /\ pc[r] = "queries" /\ pc' = [pc EXCEPT ![r] = "encode"]
      /\ heap' = [heap EXCEPT ![p] = new]
      /\ UNCHANGED <<workload, now, backend, replaced, listCache, promCache>>
      /\ UNCHANGED <<call, begun, ptr, stage, ts, got, answer>>
  BY DEF WriteQueries, envVars, localVars
<1>2. p \in Addresses /\ heap[p] \in Response /\ call[r].grouping \in Groupings
  BY <1>1, CallTypes DEF IInv, TypeOK, Calls, Pointers
<1>3. new \in Response /\ new.rev = heap[p].rev
  BY <1>2, ResponseTypes
<1> HIDE DEF new, p
<1>4. /\ \A b \in Addresses : heap'[b] = IF b = p THEN new ELSE heap[b]
      /\ pc'[r] = "encode" /\ \A s \in Handlers \ {r} : pc'[s] = pc[s]
  BY <1>1 DEF IInv, TypeOK
<1>5. TypeOK'
  BY <1>1, <1>2, <1>3 DEF IInv, TypeOK
<1>6. /\ \A s \in Handlers : ptr[s] # None => ptr[s] \in Addresses
      /\ listCache # None => listCache.entry \in Addresses
  BY Numbers DEF IInv, TypeOK
<1>7. Calls'
  BY <1>1, <1>4 DEF IInv, Calls
<1>8. Pointers'
  BY <1>1, <1>3, <1>4, <1>6 DEF IInv, Pointers
<1>9. Revisions' /\ Cached' /\ Recent' /\ IncompleteNotShared' /\ RangeLengthKept'
  BY <1>1 DEF IInv, Revisions, Cached, Recent, IncompleteNotShared, RangeLengthKept
<1>10. Lists'
  <2>1. /\ \A s \in Handlers : ptr'[s] # None => RevHeld(s)' = RevHeld(s)
        /\ listCache' # None => RevCached' = RevCached
    BY <1>1, <1>3, <1>4, <1>6 DEF RevHeld, RevCached
  <2>2. \A s \in Handlers : pc'[s] = "fetched" => pc[s] = "fetched" /\ ptr'[s] # None
    BY <1>4, <1>7 DEF Calls
  <2> QED
    BY <1>1, <2>1, <2>2 DEF IInv, Lists, Lasted
<1> QED
  BY <1>5, <1>7, <1>8, <1>9, <1>10 DEF IInv

LEMMA EncodeInv ==
    ASSUME IInv, NEW r \in Handlers, Encode(r)
    PROVE  IInv'
<1>1. /\ pc[r] = "encode" /\ pc' = [pc EXCEPT ![r] = "done"]
      /\ answer' = [answer EXCEPT ![r] = heap[ptr[r]]]
      /\ UNCHANGED <<workload, now, backend, replaced, heap, listCache, promCache>>
      /\ UNCHANGED <<call, begun, ptr, stage, ts, got>>
  BY DEF Encode, envVars
<1>2. heap[ptr[r]] \in Response
  BY <1>1 DEF IInv, Calls, Pointers
<1>3. pc'[r] = "done" /\ \A s \in Handlers \ {r} : pc'[s] = pc[s]
  BY <1>1 DEF IInv, TypeOK
<1>4. TypeOK'
  BY <1>1, <1>2 DEF IInv, TypeOK
<1>5. Calls' /\ Pointers' /\ Revisions' /\ Cached'
  BY <1>1, <1>3 DEF IInv, Calls, Pointers, Revisions, Cached
<1>6. Lists'
  BY <1>1, <1>3 DEF IInv, Lists, Lasted, RevHeld, RevCached
<1>7. Recent' /\ IncompleteNotShared' /\ RangeLengthKept'
  BY <1>1 DEF IInv, Recent, IncompleteNotShared, RangeLengthKept
<1> QED
  BY <1>4, <1>5, <1>6, <1>7 DEF IInv

\* A handler takes a result that may be used, and the cache keeps what may be found there.
LEMMA TakeInv ==
    ASSUME IInv, NEW r \in Handlers, pc[r] \in {"ask", "asked"},
           NEW v \in Result, Take(r, v),
           v.data # "full" => ~v.cached,
           Distance(v.length, call[r].length) < Rounding,
           Present => /\ ts[r] <= v.at + CacheTime(call[r]) + Latency
                      /\ v.at <= begun[r] + Latency,
           \A k \in DOMAIN promCache' : promCache'[k] \in Expiring(Result),
           Cached'
    PROVE  IInv'
<1> DEFINE ends == \/ stage[r] + 1 \notin DOMAIN QueriesOf(call[r].kind)
                   \/ v.data = "empty" /\ call[r].kind \in Graphs
           i == stage[r]
           j == IF ends THEN i ELSE i + 1
           next == IF ends THEN "done" ELSE "ask"
<1>1. /\ got' = [got EXCEPT ![r][i] = v] /\ stage' = [stage EXCEPT ![r] = j]
      /\ pc' = [pc EXCEPT ![r] = next]
      /\ UNCHANGED <<workload, now, backend, replaced, heap, listCache>>
      /\ UNCHANGED <<call, begun, ptr, ts, answer>>
  BY DEF Take, envVars
<1>2. /\ call[r] \in Call /\ call[r].kind \in Kinds /\ i \in DOMAIN QueriesOf(call[r].kind)
      /\ ptr[r] # None
      /\ call[r].time = Now => begun[r] <= ts[r] /\ ts[r] <= now
  BY CallTypes DEF IInv, Calls
<1>3. i \in Stages /\ j \in Stages /\ j \in DOMAIN QueriesOf(call[r].kind)
  BY <1>2, Stage
<1>4. next \in {"ask", "done"}
  OBVIOUS
<1> HIDE DEF i, j, next, ends
<1>5. /\ pc'[r] = next /\ stage'[r] = j /\ got'[r] = [got[r] EXCEPT ![i] = v]
      /\ \A s \in Handlers \ {r} : pc'[s] = pc[s] /\ stage'[s] = stage[s] /\ got'[s] = got[s]
  BY <1>1 DEF IInv, TypeOK
<1>6. \A s \in Handlers, n \in Stages :
        got'[s][n] = IF s = r /\ n = i THEN v ELSE got[s][n]
  BY <1>5 DEF IInv, TypeOK
<1>7. TypeOK'
  <2>1. got' \in [Handlers -> [Stages -> Result \cup {None}]]
    BY <1>1 DEF IInv, TypeOK
  <2> QED
    BY <1>1, <1>3, <1>4, <2>1 DEF IInv, TypeOK
<1>8. Calls'
  BY <1>1, <1>2, <1>3, <1>4, <1>5 DEF IInv, Calls
<1>9. Pointers' /\ Revisions'
  BY <1>1 DEF IInv, Pointers, Revisions
<1>10. Lists'
  BY <1>1, <1>4, <1>5 DEF IInv, Lists, Lasted, RevHeld, RevCached
<1>11. Recent'
  <2>1. Present => call[r].time = Now
    BY <1>2, CallTypes DEF Present
  <2> QED
    BY <1>1, <1>2, <1>6, <2>1 DEF IInv, Recent
<1>12. IncompleteNotShared' /\ RangeLengthKept'
  BY <1>1, <1>6 DEF IInv, IncompleteNotShared, RangeLengthKept
<1> QED
  BY <1>7, <1>8, <1>9, <1>10, <1>11, <1>12 DEF IInv

LEMMA FindResultInv ==
    ASSUME IInv, NEW r \in Handlers, FindResult(r)
    PROVE  IInv'
<1> DEFINE k == KeyOf(r)
           e == promCache[k]
           v == [e.entry EXCEPT !.cached = TRUE]
<1>1. CASE k \in DOMAIN promCache
  <2>1. pc[r] = "ask" /\ Take(r, v) /\ UNCHANGED <<promCache, now>>
    BY <1>1 DEF FindResult, Take, envVars
  <2>2. call[r] \in Call /\ begun[r] <= now /\ now <= begun[r] + Latency
    BY <2>1 DEF IInv, Calls
  <2>3. KeyTime(k) = CacheTime(call[r]) /\ k.length = Rounded(call[r].length)
    BY <2>2, KeyIs
  <2>4. /\ e.entry \in Result /\ e.until \in Nat /\ e.entry.at \in Nat /\ e.entry.length \in Nat
        /\ now \in Nat /\ begun[r] \in Nat /\ ts[r] \in Nat
        /\ CacheTime(call[r]) \in Nat /\ call[r].length \in Nat
    BY <1>1, <2>1, Numbers DEF IInv
  <2>5. /\ e.entry.data = "full" /\ Rounded(e.entry.length) = k.length
        /\ Present =>
             /\ now <= e.until /\ e.until <= now + KeyTime(k)
             /\ e.entry.at + KeyTime(k) <= e.until
             /\ e.until <= e.entry.at + KeyTime(k) + Latency
    BY <1>1 DEF IInv, Cached
  <2>6. /\ v \in Result /\ v.at = e.entry.at /\ v.length = e.entry.length /\ v.data = e.entry.data
    BY <2>4, ResultTypes
  <2>7. Distance(v.length, call[r].length) < Rounding
    BY <2>3, <2>4, <2>5, <2>6, RoundedNear
  <2>8. Present => ts[r] <= now
    <3>1. Present => call[r].time = Now
      BY <2>2, CallTypes DEF Present
    <3> QED
      BY <2>1, <3>1 DEF IInv, Calls
  <2>9. /\ \A x \in DOMAIN promCache' : promCache'[x] \in Expiring(Result)
        /\ Cached'
    BY <2>1 DEF IInv, TypeOK, Cached
  <2> HIDE DEF v, e, k
  <2>10. Present => /\ ts[r] <= v.at + CacheTime(call[r]) + Latency
                    /\ v.at <= begun[r] + Latency
    BY <2>2, <2>3, <2>4, <2>5, <2>6, <2>8, Constants
  <2>11. v.data # "full" => ~v.cached
    BY <2>5, <2>6
  <2> QED
    BY <2>1, <2>6, <2>7, <2>9, <2>10, <2>11, TakeInv
<1>2. CASE k \notin DOMAIN promCache
  BY <1>2, GoesOn DEF FindResult, envVars, localVars
<1> QED
  BY <1>1, <1>2

LEMMA KeepResultInv ==
    ASSUME IInv, NEW r \in Handlers, KeepResult(r)
    PROVE  IInv'
<1> DEFINE k == KeyOf(r)
           n == call[r].length
           c == CacheTime(call[r])
           Of(d) == [at |-> ts[r], length |-> n, data |-> d, cached |-> FALSE]
<1>1. PICK d \in {"full", "empty", "warned"} :
        /\ Take(r, Of(d))
        /\ \/ /\ d = "full"
              /\ promCache' = [x \in DOMAIN promCache \cup {k} |->
                                 IF x = k THEN [entry |-> Of(d), until |-> now + c]
                                 ELSE promCache[x]]
           \/ promCache' = promCache
  BY DEF KeepResult
<1> DEFINE v == Of(d)
<1>2. pc[r] = "asked" /\ now' = now
  BY <1>1 DEF KeepResult, Take, envVars
<1>3. /\ call[r] \in Call /\ n \in Lengths \cup {0} /\ n \in Nat /\ ts[r] \in 0..MaxTime
      /\ begun[r] <= now /\ now <= begun[r] + Latency
      /\ call[r].time = Now => begun[r] <= ts[r] /\ ts[r] <= now
  BY <1>2, CallTypes DEF IInv, Calls, TypeOK
<1>4. /\ v \in Result /\ v.at = ts[r] /\ v.length = n /\ v.data = d /\ ~v.cached
  BY <1>3, ResultTypes
<1>5. KeyTime(k) = c /\ k.length = Rounded(n)
  BY <1>3, KeyIs
<1>6. now \in Nat /\ begun[r] \in Nat /\ ts[r] \in Nat /\ c \in Nat
  BY <1>2, Numbers DEF IInv
<1>7. Present => call[r].time = Now
  BY <1>3, CallTypes DEF Present
<1> HIDE DEF k, n, c, v
<1>8. ASSUME NEW x \in DOMAIN promCache'
       PROVE  \/ x \in DOMAIN promCache /\ promCache'[x] = promCache[x]
              \/ d = "full" /\ x = k /\ promCache'[x] = [entry |-> v, until |-> now + c]
  BY <1>1 DEF v
<1>9. \A x \in DOMAIN promCache' : promCache'[x] \in Expiring(Result)
  <2>1. [entry |-> v, until |-> now + c] \in Expiring(Result)
    BY <1>4, <1>6 DEF Expiring
  <2> QED
    BY <1>8, <2>1 DEF IInv, TypeOK
<1>10. Cached'
  <2> SUFFICES ASSUME NEW x \in DOMAIN promCache'
               PROVE  /\ promCache'[x].entry.data = "full"
                      /\ Rounded(promCache'[x].entry.length) = x.length
                      /\ Present =>
                           /\ now <= promCache'[x].until /\ promCache'[x].until <= now + KeyTime(x)
                           /\ promCache'[x].entry.at + KeyTime(x) <= promCache'[x].until
                           /\ promCache'[x].until <= promCache'[x].entry.at + KeyTime(x) + Latency
    BY <1>2 DEF Cached
  <2>1. CASE x \in DOMAIN promCache /\ promCache'[x] = promCache[x]
    BY <2>1 DEF IInv, Cached
  <2>2. CASE d = "full" /\ x = k /\ promCache'[x] = [entry |-> v, until |-> now + c]
    BY <2>2, <1>3, <1>4, <1>5, <1>6, <1>7, Constants
  <2> QED
    BY <1>8, <2>1, <2>2
<1>11. Distance(v.length, call[r].length) < Rounding
  BY <1>3, <1>4, Constants DEF Distance, n
<1>12. Present => v.at <= begun[r] + Latency /\ ts[r] <= v.at + c + Latency
  BY <1>3, <1>4, <1>6, <1>7, Constants
<1> QED
  BY <1>1, <1>2, <1>4, <1>9, <1>10, <1>11, <1>12, TakeInv DEF v, c

LEMMA NextIInv == IInv /\ [Next]_vars => IInv'
<1> SUFFICES ASSUME IInv, [Next]_vars PROVE IInv'
  OBVIOUS
<1>1. CASE Tick
  BY <1>1, TickInv
<1>2. ASSUME NEW n \in Counts, EditObjectives(n) PROVE IInv'
  BY <1>2, EditInv
<1>3. ASSUME NEW r \in Handlers, NEW c \in Call, Begin(r, c) PROVE IInv'
  BY <1>3, BeginInv
<1>4. ASSUME NEW r \in Handlers, Handle(r) PROVE IInv'
  <2>1. CASE FindObjectives(r)
    BY <2>1, FindObjectivesInv
  <2>2. CASE BackendAnswers(r)
    BY <2>2, BackendAnswersInv
  <2>3. CASE CallFails(r)
    BY <2>3, LeaveInv DEF CallFails
  <2>4. CASE KeepObjectives(r)
    BY <2>4, KeepObjectivesInv
  <2>5. CASE WriteQueries(r)
    BY <2>5, WriteQueriesInv
  <2>6. CASE Encode(r)
    BY <2>6, EncodeInv
  <2>7. CASE FindResult(r)
    BY <2>7, FindResultInv
  <2>8. CASE KeepResult(r)
    BY <2>8, KeepResultInv
  <2>9. CASE Return(r)
    BY <2>9, LeaveInv DEF Return
  <2> QED
    BY <1>4, <2>1, <2>2, <2>3, <2>4, <2>5, <2>6, <2>7, <2>8, <2>9 DEF Handle
<1>5. CASE UNCHANGED vars
  <2>1. UNCHANGED <<workload, now, backend, replaced, heap, listCache, promCache>>
    BY <1>5 DEF vars
  <2>2. UNCHANGED <<call, begun, pc, ptr, stage, ts, got, answer>>
    BY <1>5 DEF vars
  <2>3. TypeOK'
    BY <2>1, <2>2 DEF IInv, TypeOK
  <2>4. Calls' /\ Pointers' /\ Revisions' /\ Cached'
    BY <2>1, <2>2 DEF IInv, Calls, Pointers, Revisions, Cached
  <2>5. Lists'
    BY <2>1, <2>2 DEF IInv, Lists, Lasted, RevHeld, RevCached
  <2>6. Recent' /\ IncompleteNotShared' /\ RangeLengthKept'
    BY <2>1, <2>2 DEF IInv, Recent, IncompleteNotShared, RangeLengthKept
  <2> QED
    BY <2>3, <2>4, <2>5, <2>6 DEF IInv
<1> QED
  BY <1>1, <1>2, <1>3, <1>4, <1>5 DEF Next

LEMMA Invariance == Spec => []IInv
  BY InitIInv, NextIInv, PTL DEF Spec

-----------------------------------------------------------------------------
(* Results.                                                                  *)

\* What a handler holds is a response or a result whenever it has one, and what the caches
\* refer to is there.
THEOREM TypeCorrect == Spec => []TypeOK
<1>1. IInv => TypeOK
  BY DEF IInv
<1> QED
  BY <1>1, Invariance, PTL

\* However many requests overlap, edit and cache, nobody is given objectives that were
\* replaced more than the TTL of backendClientCache and twice the latency ago.
THEOREM ObjectivesFreshAlways == Spec => []ObjectivesFresh
<1>1. ASSUME IInv, NEW r \in Handlers, ptr[r] # None
      PROVE  \/ replaced[heap[ptr[r]].rev] = None
             \/ now <= replaced[heap[ptr[r]].rev] + ListTTL + 2 * Latency
  <2>1. /\ begun[r] \in Nat /\ now \in Nat /\ begun[r] <= now /\ now <= begun[r] + Latency
    BY <1>1, Numbers DEF IInv, Calls
  <2>2. Lasted(heap[ptr[r]].rev, begun[r], ListTTL + Latency) /\ heap[ptr[r]].rev \in 0..MaxEdits
    BY <1>1, ResponseTypes DEF IInv, Lists, Pointers, RevHeld
  <2> QED
    BY <1>1, <2>1, <2>2, Numbers, Constants DEF IInv, Lasted
<1>2. IInv => ObjectivesFresh
  BY <1>1 DEF ObjectivesFresh
<1> QED
  BY <1>2, Invariance, PTL

\* What a request that has results knows of them.
LEMMA OfPresent ==
    ASSUME Present, IInv, NEW r \in Handlers, NEW i \in Stages, got[r][i] # None
    PROVE  /\ begun[r] \in Nat /\ ts[r] \in Nat /\ got[r][i].at \in Nat
           /\ CacheTime(call[r]) \in Nat
           /\ begun[r] <= ts[r]
           /\ ts[r] <= got[r][i].at + CacheTime(call[r]) + Latency
           /\ got[r][i].at <= begun[r] + Latency
<1>1. pc[r] # "idle"
  BY DEF IInv, Calls
<1> QED
  BY <1>1, Numbers DEF IInv, Recent

\* When all clients ask for the present, the results that one answer is computed from are
\* of instants no further apart than the TTL and twice the latency, whichever requests
\* have filled the entries of promCache they come from. The key of an entry does not say
\* the instant: without the hypothesis the entry of a client that asks for the past is
\* found by one that asks for the present.
THEOREM ResultsConsistentAlways ==
    ASSUME Present
    PROVE  Spec => []ResultsConsistent
<1>1. ASSUME IInv, NEW r \in Handlers, NEW i \in Stages, NEW j \in Stages,
             got[r][i] # None, got[r][j] # None
      PROVE  Distance(got[r][i].at, got[r][j].at) <= CacheTime(call[r]) + 2 * Latency
  <2>1. /\ begun[r] \in Nat /\ ts[r] \in Nat /\ got[r][i].at \in Nat /\ CacheTime(call[r]) \in Nat
        /\ begun[r] <= ts[r] /\ ts[r] <= got[r][i].at + CacheTime(call[r]) + Latency
        /\ got[r][i].at <= begun[r] + Latency
    BY <1>1, OfPresent
  <2>2. /\ got[r][j].at \in Nat
        /\ ts[r] <= got[r][j].at + CacheTime(call[r]) + Latency
        /\ got[r][j].at <= begun[r] + Latency
    BY <1>1, OfPresent
  <2> QED
    BY <2>1, <2>2, Constants DEF Distance
<1>2. IInv => ResultsConsistent
  BY <1>1 DEF ResultsConsistent
<1> QED
  BY <1>2, Invariance, PTL

\* When all clients ask for the present, a graph ends no longer ago than the TTL for its
\* length and the latency: graphs that are cached for longer have keys of their own.
THEOREM RangeFreshAlways ==
    ASSUME Present
    PROVE  Spec => []RangeFresh
<1>1. ASSUME IInv, NEW r \in Handlers, NEW i \in Stages, got[r][i] # None
      PROVE  Distance(got[r][i].at, ts[r]) <= CacheTime(call[r]) + Latency
  <2>1. /\ begun[r] \in Nat /\ ts[r] \in Nat /\ got[r][i].at \in Nat /\ CacheTime(call[r]) \in Nat
        /\ begun[r] <= ts[r] /\ ts[r] <= got[r][i].at + CacheTime(call[r]) + Latency
        /\ got[r][i].at <= begun[r] + Latency
    BY <1>1, OfPresent
  <2> QED
    BY <2>1, Constants DEF Distance
<1>2. IInv => RangeFresh
  BY <1>1 DEF RangeFresh
<1> QED
  BY <1>2, Invariance, PTL

\* A result without values or with warnings is never found in promCache.
THEOREM IncompleteNotSharedAlways == Spec => []IncompleteNotShared
<1>1. IInv => IncompleteNotShared
  BY DEF IInv
<1> QED
  BY <1>1, Invariance, PTL

\* The length of a graph is the one asked for to within the rounding of the key.
THEOREM RangeLengthKeptAlways == Spec => []RangeLengthKept
<1>1. IInv => RangeLengthKept
  BY DEF IInv
<1> QED
  BY <1>1, Invariance, PTL

=============================================================================
