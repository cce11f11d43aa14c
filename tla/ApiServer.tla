------------------------------ MODULE ApiServer ------------------------------
(***************************************************************************)
(* `pyrra api`: the handlers of objectiveServer (src/main.go) and the two    *)
(* caches they share: backendClientCache keeps the objectives the backend    *)
(* (`pyrra filesystem` or `pyrra kubernetes`) has listed, promCache the      *)
(* results of Prometheus. Every request is a goroutine of its own; a call to *)
(* the backend or to Prometheus and the answer to it are separate steps, and *)
(* so are the lookup in a cache and the filling of it.                       *)
(*                                                                         *)
(* One expression is asked for; what it selects changes with the revision of *)
(* the objectives. A value of Prometheus is known by the instant it was      *)
(* evaluated at, a matrix by its end and its length. The unit of time is 5s.*)
(***************************************************************************)
EXTENDS Naturals, FiniteSets

CONSTANTS
    Handlers,   \* the goroutines that serve requests, each one after another
    Kinds,      \* the calls that are made: "List", "Status" and the Graphs
    Workloads,  \* what goes on in a behaviour: kinds and lengths, the calls that clients
                \* make; edits and until, bounds on the revisions and on the clock
    Groupings,  \* values of the grouping parameter
    Lengths,    \* lengths of the ranges of the graphs, in seconds
    Times,      \* instants asked for by Time, or by End; Now stands for none
    Counts,     \* how many objectives the expression may select
    Now, None,
    ListTTL,    \* 10s in backendClientCache.List
    QueryTTL,   \* 15s in GetStatus, in GraphErrorBudget, and in rangeCache below 12h
    hours12, day, week, month, \* lengths from which graphs are coarser, in seconds
    percentiles, Target, \* the curves of GraphDuration and the objective's target
    Rounding,   \* 10s in promCache.QueryRange, in seconds
    Latency,    \* a handler answers within this time
    MaxTime,    \* the largest of the bounds on the clock
    MaxEdits    \* the largest of the bounds on the revisions of the objectives

ASSUME ApiAssumption ==
    /\ Kinds \subseteq {"List", "Status", "Budget", "Rate", "Errors", "Duration"}
    /\ Workloads \subseteq [kinds : SUBSET Kinds, lengths : SUBSET (Lengths \cup {0}), edits : 0..MaxEdits,
                            until : 0..MaxTime]
    /\ Now \notin Nat /\ Times \subseteq Nat \cup {Now}
    /\ Lengths \subseteq Nat \ {0} /\ Counts \subseteq Nat
    /\ None \notin Groupings \cup Nat
    /\ IsFiniteSet(Handlers)
    /\ hours12 \in Nat /\ day \in Nat /\ week \in Nat /\ month \in Nat
    /\ IsFiniteSet(percentiles) /\ percentiles \subseteq Nat /\ Target \in Nat
    /\ ListTTL \in Nat /\ QueryTTL \in Nat /\ Rounding \in Nat \ {0}
    /\ Latency \in Nat /\ MaxTime \in Nat /\ MaxEdits \in Nat

VARIABLES
    workload,  \* the one of the Workloads
    now,       \* the clock
    backend,   \* the backend's objectives: their revision and how many are selected
    replaced,  \* history: replaced[v], when revision v ceased to be the current one
    heap,      \* heap[a]: the ListResponse at address a
    listCache, \* the entry of backendClientCache: a pointer into heap, and a TTL
    promCache, \* the entries of promCache, by query
    call,      \* call[r]: what the request that r serves asks for
    begun,     \* begun[r]: when that request came
    pc,        \* pc[r]: where r is
    ptr,       \* ptr[r]: the address of the ListResponse it holds
    stage,     \* stage[r]: which of its queries it is at
    ts,        \* ts[r]: the instant it asks Prometheus for
    got,       \* got[r]: the results it has, by query
    answer     \* answer[r]: the ListResponse it has sent

envVars   == <<workload, now, backend, replaced>>
localVars == <<call, begun, ptr, stage, ts, got, answer>>
vars      == <<workload, now, backend, replaced, heap, listCache, promCache, call, begun,
               pc, ptr, stage, ts, got, answer>>

\* The queries of each handler, which it makes one after another: what is asked, and
\* for which percentile. GraphDuration asks for the target and what is below it, the
\* largest first.
GetStatus == << <<"total", 0>>, <<"errors", 0>> >>
GraphErrorBudget == << <<"budget", 0>> >>
GraphRate == << <<"rate", 0>> >>
GraphErrors == << <<"quotient", 0>> >>
GraphDuration ==
    LET asked == {p \in percentiles \cup {Target} : p <= Target}
        largest(i) == CHOOSE p \in asked : Cardinality({q \in asked : q >= p}) = i
    IN  [i \in 1..Cardinality(asked) |-> <<"duration", largest(i)>>]

QueriesOf(kind) ==
    CASE kind = "Status" -> GetStatus [] kind = "Budget" -> GraphErrorBudget
      [] kind = "Rate" -> GraphRate [] kind = "Errors" -> GraphErrors
      [] kind = "Duration" -> GraphDuration [] OTHER -> <<>>

Stages == UNION {DOMAIN QueriesOf(k) : k \in Kinds}
Graphs == {"Budget", "Rate", "Errors", "Duration"}

\* The range of the rates in the queries of a graph of length n, in minutes.
rangeInterval(n) ==
    IF n >= month THEN 180 ELSE IF n >= week THEN 60 ELSE IF n >= day THEN 30
    ELSE IF n >= hours12 THEN 15 ELSE 5

\* How long its results are cached.
rangeCache(n) ==
    IF n >= month THEN 20 * QueryTTL ELSE IF n >= week THEN 12 * QueryTTL
    ELSE IF n >= day THEN 6 * QueryTTL ELSE IF n >= hours12 THEN 3 * QueryTTL ELSE QueryTTL

Call == [kind : Kinds \ Graphs, grouping : Groupings, time : Times, length : {0}]
        \cup [kind : Kinds \cap Graphs, grouping : Groupings, time : Times, length : Lengths]

\* The TTL that a handler gives the results for its request.
CacheTime(c) ==
    IF c.kind \in {"Rate", "Errors", "Duration"} THEN rangeCache(c.length) ELSE QueryTTL

\* As many as can be in use at once: one per handler, and the cached one.
Addresses == 1..(Cardinality(Handlers) + 1)
Response == [rev : 0..MaxEdits, count : Counts, queries : Groupings \cup {None}]

\* A result: the instant and length it is of, whether it has values and came without
\* warnings, and (history) whether it was found in the cache.
Result == [at : 0..MaxTime, length : Lengths \cup {0}, data : {"full", "empty", "warned"},
           cached : BOOLEAN]
Expiring(S) == [entry : S, until : Nat]

TypeOK ==
    /\ workload \in Workloads
    /\ now \in 0..MaxTime
    /\ backend \in [rev : 0..MaxEdits, count : Counts]
    /\ replaced \in [0..MaxEdits -> 0..MaxTime \cup {None}]
    /\ heap \in [Addresses -> Response \cup {None}]
    /\ listCache \in Expiring(Addresses) \cup {None}
    /\ \A k \in DOMAIN promCache : promCache[k] \in Expiring(Result)
    /\ call \in [Handlers -> Call \cup {None}]
    /\ begun \in [Handlers -> 0..MaxTime]
    /\ pc \in [Handlers -> {"idle", "list", "fetch", "fetched", "queries", "encode",
                            "ask", "asked", "done"}]
    /\ ptr \in [Handlers -> Addresses \cup {None}]
    /\ stage \in [Handlers -> Stages \cup {None}]
    /\ ts \in [Handlers -> 0..MaxTime]
    /\ got \in [Handlers -> [Stages -> Result \cup {None}]]
    /\ answer \in [Handlers -> Response \cup {None}]

Init ==
    /\ workload \in Workloads
    /\ now = 0
    /\ backend \in [rev : {0}, count : Counts]
    /\ replaced = [v \in 0..MaxEdits |-> None]
    /\ heap = [a \in Addresses |-> None]
    /\ listCache = None
    /\ promCache = [k \in {} |-> None]
    /\ call = [r \in Handlers |-> None]
    /\ begun = [r \in Handlers |-> 0]
    /\ pc = [r \in Handlers |-> "idle"]
    /\ ptr = [r \in Handlers |-> None]
    /\ stage = [r \in Handlers |-> None]
    /\ ts = [r \in Handlers |-> 0]
    /\ got = [r \in Handlers |-> [i \in Stages |-> None]]
    /\ answer = [r \in Handlers |-> None]

-----------------------------------------------------------------------------
(* The environment.                                                          *)

Active(r) == pc[r] # "idle"

\* Ristretto's Get does not return an entry whose TTL has passed.
Expire(cache, t) == [k \in {k \in DOMAIN cache : t <= cache[k].until} |-> cache[k]]

\* What no handler and no cache refers to is collected.
Collect(pointers, cache) ==
    [a \in Addresses |->
       IF a \in {pointers[r] : r \in Handlers} \/ (cache # None /\ cache.entry = a)
         THEN heap[a] ELSE None]

Tick ==
    /\ now < workload.until
    /\ \A r \in Handlers : Active(r) => now < begun[r] + Latency
    /\ now' = now + 1
    /\ listCache' = IF listCache # None /\ now' > listCache.until THEN None ELSE listCache
    /\ promCache' = Expire(promCache, now')
    /\ heap' = Collect(ptr, listCache')
    /\ UNCHANGED <<workload, backend, replaced, pc, localVars>>

EditObjectives(n) ==
    /\ backend.rev < workload.edits
    /\ backend' = [rev |-> backend.rev + 1, count |-> n]
    /\ replaced' = [replaced EXCEPT ![backend.rev] = now]
    /\ UNCHANGED <<workload, now, heap, listCache, promCache, pc, localVars>>

\* A client sends a request.
Begin(r, c) ==
    /\ pc[r] = "idle" /\ c.kind \in workload.kinds /\ c.length \in workload.lengths
    /\ c.time # Now => c.time <= now
    /\ call' = [call EXCEPT ![r] = c]
    /\ begun' = [begun EXCEPT ![r] = now]
    /\ pc' = [pc EXCEPT ![r] = "list"]
    /\ UNCHANGED <<envVars, heap, listCache, promCache, ptr, stage, ts, got, answer>>

\* The handler of r returns, with a response or an error: its locals are gone.
Leave(r) ==
    /\ call' = [call EXCEPT ![r] = None]
    /\ begun' = [begun EXCEPT ![r] = 0]
    /\ pc' = [pc EXCEPT ![r] = "idle"]
    /\ ptr' = [ptr EXCEPT ![r] = None]
    /\ stage' = [stage EXCEPT ![r] = None]
    /\ ts' = [ts EXCEPT ![r] = 0]
    /\ got' = [got EXCEPT ![r] = [i \in Stages |-> None]]
    /\ answer' = [answer EXCEPT ![r] = None]
    /\ heap' = Collect(ptr', listCache)
    /\ UNCHANGED <<envVars, listCache, promCache>>

Return(r) == pc[r] = "done" /\ Leave(r)

-----------------------------------------------------------------------------
(* backendClientCache.List, and what the handlers do with what it returns.   *)

\* The handlers all ask with the expression alone, so there is one cache key.
\* List goes on to write the queries; GetStatus and the graphs get the one objective
\* from getObjective, which refuses any other number, and take the time.
Proceed(r, p, resp) ==
    /\ ptr' = [ptr EXCEPT ![r] = p]
    /\ pc' = [pc EXCEPT ![r] = IF call[r].kind = "List" THEN "queries"
                               ELSE IF resp.count = 1 THEN "ask" ELSE "done"]
    /\ stage' = [stage EXCEPT ![r] = IF call[r].kind = "List" THEN None ELSE 1]
    /\ ts' = [ts EXCEPT ![r] = IF call[r].time = Now THEN now ELSE call[r].time]
    /\ UNCHANGED <<call, begun, got, answer>>

\* Mutant: a hit starts the TTL anew.
FindObjectivesRenewed(r) ==
    /\ pc[r] = "list"
    /\ IF listCache # None
         THEN /\ Proceed(r, listCache.entry, heap[listCache.entry])
              /\ listCache' = [listCache EXCEPT !.until = now + ListTTL]
         ELSE pc' = [pc EXCEPT ![r] = "fetch"] /\ UNCHANGED <<localVars, listCache>>
    /\ UNCHANGED <<envVars, heap, promCache>>

FindObjectives(r) ==
    /\ pc[r] = "list"
    /\ IF listCache # None
         THEN Proceed(r, listCache.entry, heap[listCache.entry])
         ELSE pc' = [pc EXCEPT ![r] = "fetch"] /\ UNCHANGED localVars
    /\ UNCHANGED <<envVars, heap, listCache, promCache>>

Free == CHOOSE a \in Addresses :
          /\ \A r \in Handlers : ptr[r] # a
          /\ listCache = None \/ listCache.entry # a

\* The backend answers with its present objectives.
BackendAnswers(r) ==
    /\ pc[r] = "fetch"
    /\ \E a \in Addresses :
         /\ a = Free
         /\ heap' = [heap EXCEPT ![a] = [rev |-> backend.rev, count |-> backend.count,
                                         queries |-> None]]
         /\ ptr' = [ptr EXCEPT ![r] = a]
    /\ pc' = [pc EXCEPT ![r] = "fetched"]
    /\ UNCHANGED <<envVars, listCache, promCache, call, begun, stage, ts, got, answer>>

\* Mutant: an error of the backend is ignored, and the missing response cached.
CallFailsIgnored(r) ==
    /\ pc[r] = "fetch"
    /\ listCache' = [entry |-> None, until |-> now + ListTTL]
    /\ pc' = [pc EXCEPT ![r] = "done"]
    /\ UNCHANGED <<envVars, heap, promCache, localVars>>

\* The call of the backend or of Prometheus fails, and nothing is cached.
CallFails(r) ==
    /\ pc[r] \in {"fetch", "asked"}
    /\ Leave(r)

\* The response has arrived: SetWithTTL, which may drop the entry, and return it. The
\* cached response is the very one that the handler goes on with.
KeepObjectives(r) ==
    /\ pc[r] = "fetched"
    /\ \/ listCache' = [entry |-> ptr[r], until |-> now + ListTTL]
       \/ UNCHANGED listCache
    /\ Proceed(r, ptr[r], heap[ptr[r]])
    /\ UNCHANGED <<envVars, heap, promCache>>

\* List sets the Queries of the objectives in the response it holds, with the
\* matchers of its grouping merged in.
WriteQueries(r) ==
    /\ pc[r] = "queries"
    /\ heap' = [heap EXCEPT ![ptr[r]].queries = call[r].grouping]
    /\ pc' = [pc EXCEPT ![r] = "encode"]
    /\ UNCHANGED <<envVars, listCache, promCache, localVars>>

\* The response is marshalled after List has returned.
Encode(r) ==
    /\ pc[r] = "encode"
    /\ answer' = [answer EXCEPT ![r] = heap[ptr[r]]]
    /\ pc' = [pc EXCEPT ![r] = "done"]
    /\ UNCHANGED <<envVars, heap, listCache, promCache, call, begun, ptr, stage, ts, got>>

-----------------------------------------------------------------------------
(* promCache.Query and promCache.QueryRange.                                 *)

\* Mutant: ranges are rounded to a multiple of twice the rounding.
RoundedCoarse(n) == ((n + Rounding) \div (2 * Rounding)) * 2 * Rounding

\* Duration.Round: to the nearest multiple, halfway values away from zero.
Rounded(n) == ((n + Rounding \div 2) \div Rounding) * Rounding

\* Mutant: the text of the query is only what is asked for.
KeyOfAnyInterval(r) ==
    LET c == call[r]
    IN  [query |-> QueriesOf(c.kind)[stage[r]], rev |-> heap[ptr[r]].rev, grouping |-> c.grouping,
         interval |-> 0, length |-> Rounded(c.length)]

\* The key is the text of the query, which the objective, the grouping and, except in
\* the error budget, the interval of the rates determine, and for a range its rounded
\* length: never the time.
KeyOf(r) ==
    LET c == call[r]
    IN  [query |-> QueriesOf(c.kind)[stage[r]], rev |-> heap[ptr[r]].rev, grouping |-> c.grouping,
         interval |-> IF c.kind \in {"Rate", "Errors", "Duration"} THEN rangeInterval(c.length)
                      ELSE 0,
         length |-> Rounded(c.length)]

\* The handler goes on to its next query. A graph fails when there is no data.
Take(r, v) ==
    LET ends == \/ stage[r] + 1 \notin DOMAIN QueriesOf(call[r].kind)
                \/ v.data = "empty" /\ call[r].kind \in Graphs
    IN  /\ got' = [got EXCEPT ![r][stage[r]] = v]
        /\ stage' = [stage EXCEPT ![r] = IF ends THEN @ ELSE @ + 1]
        /\ pc' = [pc EXCEPT ![r] = IF ends THEN "done" ELSE "ask"]
        /\ UNCHANGED <<envVars, heap, listCache, call, begun, ptr, ts, answer>>

\* Mutant: a hit starts the TTL anew.
FindResultRenewed(r) ==
    /\ pc[r] = "ask"
    /\ IF KeyOf(r) \in DOMAIN promCache
         THEN /\ Take(r, [promCache[KeyOf(r)].entry EXCEPT !.cached = TRUE])
              /\ promCache' = [promCache EXCEPT ![KeyOf(r)].until = now + CacheTime(call[r])]
         ELSE /\ pc' = [pc EXCEPT ![r] = "asked"]
              /\ UNCHANGED <<envVars, heap, listCache, localVars, promCache>>

FindResult(r) ==
    /\ pc[r] = "ask"
    /\ IF KeyOf(r) \in DOMAIN promCache
         THEN Take(r, [promCache[KeyOf(r)].entry EXCEPT !.cached = TRUE])
         ELSE /\ pc' = [pc EXCEPT ![r] = "asked"]
              /\ UNCHANGED <<envVars, heap, listCache, localVars>>
    /\ UNCHANGED promCache

\* Mutant: whatever Prometheus returns is cached.
KeepResultAlways(r) ==
    /\ pc[r] = "asked"
    /\ \E d \in {"full", "empty", "warned"} :
         LET v == [at |-> ts[r], length |-> call[r].length, data |-> d, cached |-> FALSE]
         IN  /\ Take(r, v)
             /\ promCache' =
                  [k \in DOMAIN promCache \cup {KeyOf(r)} |->
                     IF k = KeyOf(r) THEN [entry |-> v, until |-> now + CacheTime(call[r])]
                                     ELSE promCache[k]]

\* Prometheus has answered. A result with warnings or without values is passed
\* on; any other is cached too, unless SetWithTTL drops it.
KeepResult(r) ==
    /\ pc[r] = "asked"
    /\ \E d \in {"full", "empty", "warned"} :
         LET v == [at |-> ts[r], length |-> call[r].length, data |-> d, cached |-> FALSE]
         IN  /\ Take(r, v)
             /\ \/ d = "full"
                   /\ promCache' =
                        [k \in DOMAIN promCache \cup {KeyOf(r)} |->
                           IF k = KeyOf(r) THEN [entry |-> v, until |-> now + CacheTime(call[r])]
                                           ELSE promCache[k]]
                \/ UNCHANGED promCache

Handle(r) ==
    \/ FindObjectives(r) \/ BackendAnswers(r) \/ CallFails(r) \/ KeepObjectives(r)
    \/ WriteQueries(r) \/ Encode(r) \/ FindResult(r) \/ KeepResult(r) \/ Return(r)

Next ==
    \/ Tick
    \/ \E n \in Counts : EditObjectives(n)
    \/ \E r \in Handlers : (\E c \in Call : Begin(r, c)) \/ Handle(r)

Spec == Init /\ [][Next]_vars

-----------------------------------------------------------------------------
(* Properties.                                                               *)

Distance(a, b) == IF a < b THEN b - a ELSE a - b

\* The objectives a client is given were the backend's at most a TTL and the
\* duration of two requests ago (the one that filled the cache, and its own),
\* however requests overlap, also when a slow answer overwrites a newer entry.
ObjectivesFresh ==
    \A r \in Handlers :
        ptr[r] # None =>
            \/ replaced[heap[ptr[r]].rev] = None
            \/ now <= replaced[heap[ptr[r]].rev] + ListTTL + 2 * Latency

\* The availability that GetStatus computes for the present is of one instant, up to
\* the TTL, and so are the curves of GraphDuration: the results of one request come from
\* separate cache entries, which may have been filled by different requests, and
\* expire at different times.
ResultsConsistent ==
    \A r \in Handlers, i, j \in Stages :
        got[r][i] # None /\ got[r][j] # None /\ call[r].time = Now =>
            Distance(got[r][i].at, got[r][j].at) <= CacheTime(call[r]) + 2 * Latency

\* A graph that is asked for up to the present, as the user interface does, ends no longer
\* ago than the TTL for its length, although neither its end nor its exact length is
\* part of the key, and longer ranges are cached for longer.
RangeFresh ==
    \A r \in Handlers, i \in Stages :
        got[r][i] # None /\ call[r].kind \in Graphs /\ call[r].time = Now =>
            Distance(got[r][i].at, ts[r]) <= CacheTime(call[r]) + Latency

\* A result without values, or one that Prometheus has warned about (a partial
\* one), is never given to another request than the one it was returned to.
IncompleteNotShared ==
    \A r \in Handlers, i \in Stages :
        got[r][i] # None /\ got[r][i].data # "full" => ~got[r][i].cached

\* A matrix is of a range less than Rounding longer or shorter than the one asked for.
RangeLengthKept ==
    \A r \in Handlers, i \in Stages :
        got[r][i] # None => Distance(got[r][i].length, call[r].length) < Rounding

\* "If specific grouping was selected we need to merge the label matchers for the
\* queries": the Queries that List returns are those of the grouping it was asked for.
QueriesOfGrouping ==
    \A r \in Handlers : answer[r] # None => answer[r].queries = call[r].grouping

=============================================================================
