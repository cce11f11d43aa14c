----------------------------- MODULE Publication -----------------------------
(***************************************************************************)
(* What an operator promises about the rules of each objective, whatever its *)
(* caches, queues, retries and restarts: it publishes revisions of the       *)
(* objective's spec, in order; it takes rules away only from an objective    *)
(* that is gone or going; and in the end it has published the present spec.  *)
(***************************************************************************)
EXTENDS Naturals

CONSTANTS
    SLOs,  \* the objectives
    None   \* no objective, nothing published

VARIABLES
    current,   \* current[s]: the objective as its users want it
    latest,    \* latest[s]: the last revision of it, or of its predecessors
    published  \* published[s]: the revision its published rules are of

pubVars == <<current, latest, published>>

\* born is the revision that created the objective, spec the one that wrote its spec;
\* ok says whether there are rules for that spec, going that it is to be deleted.
Want == [born : Nat, spec : Nat, ok : BOOLEAN, going : BOOLEAN]

Init ==
    /\ current = [s \in SLOs |-> None]
    /\ latest = [s \in SLOs |-> 0]
    /\ published = [s \in SLOs |-> None]

\* Users create, change and delete an objective. It is never born twice, its
\* revisions increase, and one that is going does not come back to stay.
Change(s) ==
    LET old == current[s]  new == current'[s]
    IN  /\ new \in Want \cup {None} /\ latest'[s] \in Nat
        /\ latest[s] <= latest'[s]
        /\ new # None =>
             /\ new.born <= new.spec /\ new.spec <= latest'[s]
             /\ IF old = None THEN latest[s] < new.born
                ELSE /\ new.born = old.born /\ old.spec <= new.spec
                     /\ old.going => new.going
        /\ current' = [current EXCEPT ![s] = new]
        /\ latest' = [latest EXCEPT ![s] = latest'[s]]
        /\ UNCHANGED published

\* The rules of a revision replace those of an older one, and are not of one that the
\* present objective does not have yet.
Publish(s) ==
    LET new == published'[s]
    IN  /\ new \in Nat /\ new <= latest[s]
        /\ current[s] # None => new <= current[s].spec
        /\ published[s] # None => published[s] <= new
        /\ published' = [published EXCEPT ![s] = new]
        /\ UNCHANGED <<current, latest>>

\* Rules of an objective that is there to stay are never taken away.
Withdraw(s) ==
    /\ published[s] # None
    /\ current[s] = None \/ current[s].going \/ published[s] < current[s].born
    /\ published' = [published EXCEPT ![s] = None]
    /\ UNCHANGED <<current, latest>>

Next == \E s \in SLOs : Change(s) \/ Publish(s) \/ Withdraw(s)

Spec == Init /\ [][Next]_pubVars

\* What is published is right: nothing for an objective that is gone, the rules of the
\* present spec for one that stays.
InStep(s) ==
    IF current[s] = None THEN published[s] = None
    ELSE ~current[s].going /\ (current[s].ok => published[s] = current[s].spec)

=============================================================================
