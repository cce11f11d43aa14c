------------------------- MODULE FilesystemOperator -------------------------
(***************************************************************************)
(* `pyrra filesystem` (src/filesystem.go): five goroutines of one process,  *)
(* run as the actors of an oklog/run Group, keep a directory of SLO files,  *)
(* the rule files generated from them, the in-memory objectives served to   *)
(* the API and the rules loaded by Prometheus in step.                      *)
(*                                                                         *)
(*   lister     globs the directory once and queues every file             *)
(*   watcher    queues the files that inotify reports as written           *)
(*   processor  reads a queued file, writes its rule file, reads it again, *)
(*              stores its objective and asks for a reload                 *)
(*   reloader   debounces the reload requests and POSTs /-/reload          *)
(*   server     serves the objectives over HTTP (List)                     *)
(*                                                                         *)
(* Around them: the users who edit the files, Prometheus, and the           *)
(* supervisor that restarts the process after a crash.                      *)
(***************************************************************************)
EXTENDS Naturals, Sequences

CONSTANTS
    Files,      \* names of files in the watched directory
    Globbed,    \* those that match the --config-files pattern
    Yaml,       \* those with extension .yaml or .yml
    Contents,   \* what a file may hold
    Parses,     \* contents objectiveFromFile accepts
    Valid,      \* contents writeRuleFile turns into a rule file
    Keys,       \* keys of the objectives map: Labels.String() of an objective
    KeysOf,     \* KeysOf[f][c]: the keys the objective in f may get when f holds c;
                \* Internal() appends the pyrra.dev/ labels in Go's map order, and
                \* String() prints them in that order, so there is one key per order
    EmptyKey,   \* "{}", the key of the zero slo.Objective{}
    None,       \* no such file / no such entry
    Torn,       \* a rule file truncated and not yet (fully) written
    Zero,       \* the zero slo.Objective{}
    FilesCap,   \* capacity of channel files (16 in the code)
    ReloadCap,  \* capacity of channel reload (16 in the code)
    MaxChanges  \* bound on edits of the directory and restarts of the process, together

ASSUME FilesystemAssumption ==
    /\ Globbed \subseteq Files
    /\ Yaml \subseteq Files
    /\ Valid \subseteq Parses
    /\ Parses \subseteq Contents
    /\ None \notin Contents /\ Torn \notin Contents /\ Zero \notin Contents
    /\ None # Torn /\ None # Zero
    /\ EmptyKey \in Keys
    /\ KeysOf \in [Files -> [Parses -> (SUBSET (Keys \ {EmptyKey})) \ {{}}]]
    /\ FilesCap \in Nat \ {0}
    /\ ReloadCap \in Nat \ {0}
    /\ MaxChanges \in Nat

VARIABLES
    disk,         \* disk[f]: content of SLO file f
    rules,        \* rules[f]: the content the rule file of f was generated from
    loaded,       \* loaded[f]: what Prometheus has loaded of that rule file
    events,       \* inotify events not yet received by the watcher
    watching,     \* the fsnotify watcher is open
    files,        \* channel files
    reload,       \* number of values buffered in channel reload
    reloadClosed, \* close(reload) was called
    ctxDone,      \* ctx is cancelled
    store,        \* objectives.objectives, by key
    lpc, todo,    \* lister: where it is, files it has still to send
    wpc, wfile,   \* watcher: where it is, event.Name
    ppc, pfile, pread, \* processor: where it is, f, what it read last
    rpc, timer,   \* reloader: where it is, timeout armed
    spc,          \* HTTP server: "serving" or "returned"
    interrupted,  \* how many of the five interrupt functions have been called
    edits, crashes, \* how many there have been
    unseen,       \* history: files absent, or changed with no Write event since
    broken,       \* history: files whose last rule file write failed
    reloadFailed  \* history: a reload POST failed and none succeeded since

diskVars     == <<disk, edits>>
chanVars     == <<files, reload, reloadClosed, ctxDone>>
listerVars   == <<lpc, todo>>
watcherVars  == <<wpc, wfile, events, watching>>
procVars     == <<ppc, pfile, pread>>
reloaderVars == <<rpc, timer>>
groupVars    == <<spc, interrupted, crashes>>
outVars      == <<rules, loaded, store>>
historyVars  == <<unseen, broken, reloadFailed>>

vars == <<disk, rules, loaded, events, watching, files, reload, reloadClosed,
          ctxDone, store, lpc, todo, wpc, wfile, ppc, pfile, pread, rpc, timer,
          spc, interrupted, edits, crashes, unseen, broken, reloadFailed>>

Event == [name : Files, op : {"Write", "Other"}]

DataTypeOK ==
    /\ disk \in [Files -> Contents \cup {None}]
    /\ rules \in [Files -> Valid \cup {None, Torn}]
    /\ loaded \in [Files -> Valid \cup {None, Torn}]
    /\ store \in [Keys -> Parses \cup {None, Zero}]

QueueTypeOK ==
    /\ events \in Seq(Event)
    /\ files \in Seq(Files) /\ Len(files) <= FilesCap
    /\ reload \in 0..ReloadCap

ActorTypeOK ==
    /\ lpc \in {"glob", "send", "returned"} /\ todo \in SUBSET Files
    /\ lpc = "glob" => todo = {}
    /\ wpc \in {"select", "send", "returned"} /\ wfile \in Files \cup {None}
    /\ wpc = "send" => wfile \in Files
    /\ ppc \in {"select", "read", "write", "torn", "load", "set", "send",
                "returned", "panicked"}
    /\ pfile \in Files \cup {None}
    /\ ppc \notin {"select", "returned"} => pfile \in Yaml
    /\ pread \in Contents \cup {None}
    /\ ppc \in {"write", "torn"} => pread \in Valid
    /\ rpc \in {"outer", "inner", "posting", "returned"}
    /\ spc \in {"serving", "returned"}

CountTypeOK ==
    /\ interrupted \in 0..5
    /\ edits \in Nat /\ crashes \in Nat /\ edits + crashes <= MaxChanges
    /\ unseen \subseteq Files /\ broken \subseteq Files

FlagTypeOK ==
    /\ watching \in BOOLEAN /\ reloadClosed \in BOOLEAN /\ ctxDone \in BOOLEAN
    /\ timer \in BOOLEAN /\ reloadFailed \in BOOLEAN

\* The type invariant of the operator's state.
TypeOK == DataTypeOK /\ QueueTypeOK /\ ActorTypeOK /\ CountTypeOK /\ FlagTypeOK

-----------------------------------------------------------------------------
(* Start-up: a fresh process beside a directory that already holds files.   *)

ProcessInit ==
    /\ events = <<>> /\ watching = TRUE
    /\ files = <<>> /\ reload = 0 /\ reloadClosed = FALSE /\ ctxDone = FALSE
    /\ store = [k \in Keys |-> None]
    /\ lpc = "glob" /\ todo = {}
    /\ wpc = "select" /\ wfile = None
    /\ ppc = "select" /\ pfile = None /\ pread = None
    /\ rpc = "outer" /\ timer = FALSE
    /\ spc = "serving" /\ interrupted = 0
    /\ unseen = {f \in Files : f \notin Globbed \/ disk[f] = None}
    /\ reloadFailed = FALSE

Init ==
    /\ disk \in [Files -> Contents \cup {None}]
    /\ rules = [f \in Files |-> None]
    /\ loaded = [f \in Files |-> None]
    /\ broken = {}
    /\ edits = 0 /\ crashes = 0
    /\ ProcessInit

\* A panicked goroutine takes the whole process down.
Running == ppc # "panicked"

-----------------------------------------------------------------------------
(* The environment: edits of the SLO files.                                 *)

Notify(f, op) ==
    events' = IF watching THEN Append(events, [name |-> f, op |-> op]) ELSE events

\* An editor truncates, creates or writes f in place: inotify reports a Write.
WriteInPlace(f, c) ==
    /\ edits + crashes < MaxChanges
    /\ edits' = edits + 1
    /\ disk' = [disk EXCEPT ![f] = c]
    /\ Notify(f, "Write")
    /\ unseen' = IF watching THEN unseen \ {f} ELSE unseen \cup {f}
    /\ UNCHANGED <<watching, wpc, wfile, chanVars, listerVars, procVars,
                   reloaderVars, groupVars, outVars, broken, reloadFailed>>

\* f is removed, or another file is renamed over it (how many editors save):
\* inotify reports Create, Rename or Remove.
ReplaceOrRemove(f, c) ==
    /\ edits + crashes < MaxChanges
    /\ c # disk[f]
    /\ edits' = edits + 1
    /\ disk' = [disk EXCEPT ![f] = c]
    /\ Notify(f, "Other")
    /\ unseen' = unseen \cup {f}
    /\ UNCHANGED <<watching, wpc, wfile, chanVars, listerVars, procVars,
                   reloaderVars, groupVars, outVars, broken, reloadFailed>>

Edit == \E f \in Files :
          \/ \E c \in Contents : WriteInPlace(f, c)
          \/ \E c \in Contents \cup {None} : ReplaceOrRemove(f, c)

-----------------------------------------------------------------------------
(* The lister.                                                              *)

\* Mutant: at start only the files without a rule file are listed.
ListerGlobNewOnly ==
    /\ lpc = "glob"
    /\ lpc' = "send"
    /\ todo' = {f \in Globbed : disk[f] # None /\ rules[f] = None}
    /\ UNCHANGED <<diskVars, chanVars, watcherVars, procVars, reloaderVars,
                   groupVars, outVars, historyVars>>

ListerGlob ==
    /\ lpc = "glob"
    /\ lpc' = "send"
    /\ todo' = {f \in Globbed : disk[f] # None}
    /\ UNCHANGED <<diskVars, chanVars, watcherVars, procVars, reloaderVars,
                   groupVars, outVars, historyVars>>

\* filepath.Glob rejects the pattern: the actor returns and ends the group.
ListerGlobFails ==
    /\ lpc = "glob"
    /\ lpc' = "returned"
    /\ unseen' = unseen \cup Globbed
    /\ UNCHANGED <<diskVars, chanVars, todo, watcherVars, procVars,
                   reloaderVars, groupVars, outVars, broken, reloadFailed>>

\* files <- f, blocking while the channel is full.
ListerSend(f) ==
    /\ lpc = "send" /\ f \in todo
    /\ Len(files) < FilesCap
    /\ files' = Append(files, f)
    /\ todo' = todo \ {f}
    /\ UNCHANGED <<diskVars, reload, reloadClosed, ctxDone, lpc, watcherVars,
                   procVars, reloaderVars, groupVars, outVars, historyVars>>

ListerReturn ==
    /\ lpc = "send" /\ todo = {}
    /\ ctxDone
    /\ lpc' = "returned"
    /\ UNCHANGED <<diskVars, chanVars, todo, watcherVars, procVars,
                   reloaderVars, groupVars, outVars, historyVars>>

Lister == ListerGlob \/ ListerGlobFails \/ (\E f \in todo : ListerSend(f)) \/ ListerReturn

-----------------------------------------------------------------------------
(* The watcher.                                                             *)

WatcherReceive ==
    /\ wpc = "select" /\ watching
    /\ events # <<>>
    /\ events' = Tail(events)
    /\ IF Head(events).op = "Write"
         THEN wpc' = "send" /\ wfile' = Head(events).name
         ELSE UNCHANGED <<wpc, wfile>>
    /\ UNCHANGED <<diskVars, chanVars, listerVars, watching, procVars,
                   reloaderVars, groupVars, outVars, historyVars>>

\* Mutant: a send that gives up when the channel is full.
WatcherSendOrDrop ==
    /\ wpc = "send"
    /\ files' = IF Len(files) < FilesCap THEN Append(files, wfile) ELSE files
    /\ wpc' = "select"
    /\ UNCHANGED <<diskVars, reload, reloadClosed, ctxDone, listerVars, wfile,
                   events, watching, procVars, reloaderVars, groupVars,
                   outVars, historyVars>>

\* Mutant: a channel without a bound.
WatcherSendUnbounded ==
    /\ wpc = "send"
    /\ files' = Append(files, wfile)
    /\ wpc' = "select"
    /\ UNCHANGED <<diskVars, reload, reloadClosed, ctxDone, listerVars, wfile,
                   events, watching, procVars, reloaderVars, groupVars,
                   outVars, historyVars>>

\* files <- event.Name, blocking while the channel is full.
WatcherSend ==
    /\ wpc = "send"
    /\ Len(files) < FilesCap
    /\ files' = Append(files, wfile)
    /\ wpc' = "select"
    /\ UNCHANGED <<diskVars, reload, reloadClosed, ctxDone, listerVars, wfile,
                   events, watching, procVars, reloaderVars, groupVars,
                   outVars, historyVars>>

\* Mutant: the context is looked at only after an event.
WatcherReturnOnEvent ==
    /\ wpc = "select" /\ ctxDone /\ events # <<>>
    /\ wpc' = "returned"
    /\ UNCHANGED <<diskVars, chanVars, listerVars, wfile, events, watching,
                   procVars, reloaderVars, groupVars, outVars, historyVars>>

WatcherReturn ==
    /\ wpc = "select" /\ ctxDone
    /\ wpc' = "returned"
    /\ UNCHANGED <<diskVars, chanVars, listerVars, wfile, events, watching,
                   procVars, reloaderVars, groupVars, outVars, historyVars>>

Watcher == WatcherReceive \/ WatcherSend \/ WatcherReturn

-----------------------------------------------------------------------------
(* The processor. writeRuleFile and objectiveFromFile each read the file:    *)
(* the two reads are separate steps, and os.WriteFile truncates and then     *)
(* writes.                                                                   *)

\* case f := <-files; a file without a YAML extension is ignored.
ProcessorReceive ==
    /\ ppc = "select" /\ files # <<>>
    /\ files' = Tail(files)
    /\ IF Head(files) \in Yaml
         THEN ppc' = "read" /\ pfile' = Head(files)
         ELSE UNCHANGED <<ppc, pfile>>
    /\ UNCHANGED <<diskVars, reload, reloadClosed, ctxDone, listerVars,
                   watcherVars, pread, reloaderVars, groupVars, outVars,
                   historyVars>>

\* writeRuleFile up to the generated bytes: an unreadable, unparsable or
\* invalid file only counts an error.
ProcessorRead ==
    /\ ppc = "read"
    /\ pread' = disk[pfile]
    /\ ppc' = IF disk[pfile] \in Valid THEN "write" ELSE "load"
    /\ unseen' = IF disk[pfile] = None THEN unseen ELSE unseen \ {pfile}
    /\ broken' = broken \ {pfile}
    /\ UNCHANGED <<diskVars, chanVars, listerVars, watcherVars, pfile,
                   reloaderVars, groupVars, outVars, reloadFailed>>

ProcessorTruncate ==
    /\ ppc = "write"
    /\ rules' = [rules EXCEPT ![pfile] = Torn]
    /\ ppc' = "torn"
    /\ UNCHANGED <<diskVars, chanVars, listerVars, watcherVars, pfile, pread,
                   reloaderVars, groupVars, loaded, store, historyVars>>

ProcessorWrite ==
    /\ ppc = "torn"
    /\ rules' = [rules EXCEPT ![pfile] = pread]
    /\ ppc' = "load"
    /\ UNCHANGED <<diskVars, chanVars, listerVars, watcherVars, pfile, pread,
                   reloaderVars, groupVars, loaded, store, historyVars>>

\* os.WriteFile fails to open the file, or to write it once truncated.
ProcessorWriteFails ==
    /\ ppc \in {"write", "torn"}
    /\ ppc' = "load"
    /\ broken' = broken \cup {pfile}
    /\ UNCHANGED <<diskVars, chanVars, listerVars, watcherVars, pfile, pread,
                   reloaderVars, groupVars, outVars, unseen, reloadFailed>>

\* The second read, of objectiveFromFile.
ProcessorLoad ==
    /\ ppc = "load"
    /\ pread' = disk[pfile]
    /\ ppc' = "set"
    /\ UNCHANGED <<diskVars, chanVars, listerVars, watcherVars, pfile,
                   reloaderVars, groupVars, outVars, historyVars>>

\* Mutant: an objective already in the store is kept.
ProcessorSetOnce ==
    /\ ppc = "set"
    /\ IF pread \in Parses
         THEN \E k \in KeysOf[pfile][pread] :
                store' = IF store[k] = None THEN [store EXCEPT ![k] = pread] ELSE store
         ELSE store' = [store EXCEPT ![EmptyKey] = Zero]
    /\ ppc' = "send"
    /\ UNCHANGED <<diskVars, chanVars, listerVars, watcherVars, pfile, pread,
                   reloaderVars, groupVars, rules, loaded, historyVars>>

\* objectives.Set(objective), also when objectiveFromFile has failed: it then
\* stores the zero Objective under the empty label set.
ProcessorSet ==
    /\ ppc = "set"
    /\ IF pread \in Parses
         THEN \E k \in KeysOf[pfile][pread] : store' = [store EXCEPT ![k] = pread]
         ELSE store' = [store EXCEPT ![EmptyKey] = Zero]
    /\ ppc' = "send"
    /\ UNCHANGED <<diskVars, chanVars, listerVars, watcherVars, pfile, pread,
                   reloaderVars, groupVars, rules, loaded, historyVars>>

\* reload <- struct{}{}, blocking while the channel is full.
ProcessorTriggerReload ==
    /\ ppc = "send"
    /\ ~reloadClosed /\ reload < ReloadCap
    /\ reload' = reload + 1
    /\ ppc' = "select"
    /\ UNCHANGED <<diskVars, files, reloadClosed, ctxDone, listerVars,
                   watcherVars, pfile, pread, reloaderVars, groupVars, outVars,
                   historyVars>>

\* Sending on a closed channel panics.
ProcessorPanic ==
    /\ ppc = "send" /\ reloadClosed
    /\ ppc' = "panicked"
    /\ UNCHANGED <<diskVars, chanVars, listerVars, watcherVars, pfile, pread,
                   reloaderVars, groupVars, outVars, historyVars>>

ProcessorReturn ==
    /\ ppc = "select" /\ ctxDone
    /\ ppc' = "returned"
    /\ UNCHANGED <<diskVars, chanVars, listerVars, watcherVars, pfile, pread,
                   reloaderVars, groupVars, outVars, historyVars>>

Processor ==
    \/ ProcessorReceive \/ ProcessorRead \/ ProcessorTruncate \/ ProcessorWrite
    \/ ProcessorWriteFails \/ ProcessorLoad \/ ProcessorSet
    \/ ProcessorTriggerReload \/ ProcessorPanic \/ ProcessorReturn

-----------------------------------------------------------------------------
(* The reloader. A receive from the closed channel succeeds at once.         *)

\* The outer loop's `case <-reload`: arm the timeout, enter the inner loop.
ReloaderReceive ==
    /\ rpc = "outer"
    /\ reload > 0 \/ reloadClosed
    /\ reload' = IF reload > 0 THEN reload - 1 ELSE 0
    /\ timer' = TRUE
    /\ rpc' = "inner"
    /\ UNCHANGED <<diskVars, files, reloadClosed, ctxDone, listerVars,
                   watcherVars, procVars, groupVars, outVars, historyVars>>

ReloaderReturn ==
    /\ rpc = "outer" /\ ctxDone
    /\ rpc' = "returned"
    /\ UNCHANGED <<diskVars, chanVars, listerVars, watcherVars, procVars, timer,
                   groupVars, outVars, historyVars>>

\* Mutant: a further request is taken without arming the timeout anew.
ReloaderResetNoTimer ==
    /\ rpc = "inner"
    /\ reload > 0 \/ reloadClosed
    /\ reload' = IF reload > 0 THEN reload - 1 ELSE 0
    /\ UNCHANGED <<diskVars, files, reloadClosed, ctxDone, listerVars, timer,
                   watcherVars, procVars, rpc, groupVars, outVars, historyVars>>

\* The inner loop's `case <-reload`: the timeout is armed anew.
ReloaderReset ==
    /\ rpc = "inner"
    /\ reload > 0 \/ reloadClosed
    /\ reload' = IF reload > 0 THEN reload - 1 ELSE 0
    /\ timer' = TRUE
    /\ UNCHANGED <<diskVars, files, reloadClosed, ctxDone, listerVars,
                   watcherVars, procVars, rpc, groupVars, outVars, historyVars>>

\* The inner loop's `case <-timeout`: the channel of time.After fires once.
ReloaderTimeout ==
    /\ rpc = "inner" /\ timer
    /\ timer' = FALSE
    /\ rpc' = "posting"
    /\ UNCHANGED <<diskVars, chanVars, listerVars, watcherVars, procVars,
                   groupVars, outVars, historyVars>>

\* Prometheus answers 2xx: it has loaded the rule files as they were then.
\* The inner loop goes on, without a timeout.
ReloaderPosted ==
    /\ rpc = "posting"
    /\ loaded' = rules
    /\ reloadFailed' = FALSE
    /\ rpc' = "inner"
    /\ UNCHANGED <<diskVars, chanVars, listerVars, watcherVars, procVars, timer,
                   groupVars, rules, store, unseen, broken>>

\* Do fails (`continue`) or answers another status (logged): same as above.
ReloaderPostFails ==
    /\ rpc = "posting"
    /\ reloadFailed' = TRUE
    /\ rpc' = "inner"
    /\ UNCHANGED <<diskVars, chanVars, listerVars, watcherVars, procVars, timer,
                   groupVars, outVars, unseen, broken>>

Reloader ==
    \/ ReloaderReceive \/ ReloaderReturn \/ ReloaderReset
    \/ ReloaderTimeout \/ ReloaderPosted \/ ReloaderPostFails

-----------------------------------------------------------------------------
(* The HTTP server and the run.Group.                                        *)

\* ListenAndServe fails, say because port 9444 is in use.
ServerFails ==
    /\ spc = "serving"
    /\ spc' = "returned"
    /\ UNCHANGED <<diskVars, chanVars, listerVars, watcherVars, procVars,
                   reloaderVars, interrupted, crashes, outVars, historyVars>>

SomeReturned ==
    "returned" \in {lpc, wpc, ppc, rpc, spc}

\* gr.Run: once one actor has returned, call the interrupt functions in the
\* order of gr.Add: lister, watcher, processor, reloader, server.
GroupInterrupt ==
    /\ SomeReturned
    /\ interrupted < 5
    /\ interrupted' = interrupted + 1
    /\ ctxDone' = TRUE
    /\ watching' = (watching /\ interrupted # 1)
    /\ reloadClosed' = (reloadClosed \/ interrupted = 3)
    /\ spc' = IF interrupted = 4 THEN "returned" ELSE spc
    /\ UNCHANGED <<diskVars, files, reload, listerVars, wpc, wfile, events,
                   procVars, reloaderVars, crashes, outVars, historyVars>>

\* gr.Run returns, and cmdFilesystem with it.
Exited ==
    interrupted = 5 /\ {lpc, wpc, ppc, rpc, spc} = {"returned"}

\* The process is killed, or has panicked or exited, and is started again: the
\* channels and the store are gone, the directory and Prometheus are not.
Restart ==
    /\ edits + crashes < MaxChanges
    /\ crashes' = crashes + 1
    /\ events' = <<>> /\ watching' = TRUE
    /\ files' = <<>> /\ reload' = 0 /\ reloadClosed' = FALSE /\ ctxDone' = FALSE
    /\ store' = [k \in Keys |-> None]
    /\ lpc' = "glob" /\ todo' = {}
    /\ wpc' = "select" /\ wfile' = None
    /\ ppc' = "select" /\ pfile' = None /\ pread' = None
    /\ rpc' = "outer" /\ timer' = FALSE
    /\ spc' = "serving" /\ interrupted' = 0
    /\ unseen' = {f \in Files : f \notin Globbed \/ disk[f] = None}
    /\ reloadFailed' = FALSE
    /\ UNCHANGED <<diskVars, rules, loaded, broken>>

Process == Running /\ (Lister \/ Watcher \/ Processor \/ Reloader
                       \/ ServerFails \/ GroupInterrupt)

Next == Edit \/ Process \/ Restart

Spec == Init /\ [][Next]_vars

\* Every goroutine is scheduled, Go's select picks among the ready cases at
\* random, gr.Run calls every interrupt function, and Prometheus answers. Nothing
\* makes the server fail, a user edit a file or the process crash.
FairSpec ==
    /\ Spec
    /\ WF_vars(Running /\ Lister)
    /\ WF_vars(Running /\ Watcher)
    /\ WF_vars(Running /\ Processor)
    /\ WF_vars(Running /\ Reloader)
    /\ WF_vars(Running /\ GroupInterrupt)

-----------------------------------------------------------------------------
(* Safety.                                                                   *)

Contains(queue, x) == \E i \in 1..Len(queue) : queue[i] = x

\* f is on its way to the processor: to be globbed, in an inotify event, in
\* channel files, in the hands of the lister or of the watcher, or received by
\* the processor and not yet read.
Pending(f) ==
    \/ lpc = "glob" /\ f \in Globbed
    \/ f \in todo
    \/ Contains(events, [name |-> f, op |-> "Write"])
    \/ wpc = "send" /\ wfile = f
    \/ Contains(files, f)
    \/ ppc = "read" /\ pfile = f

At(labels, f) == ppc \in labels /\ pfile = f

\* No edit is lost on the way to the rule files: unless f is pending, its rule
\* file is that of the valid content f has on disk, or the processor holds that
\* very content and is writing it. The file may change at any time, also between
\* the processor's steps; a write that fails and a change that inotify does not
\* report as a Write are excepted.
RulesFollowDisk ==
    \A f \in Yaml \ (unseen \cup broken) :
        ~Pending(f) /\ disk[f] \in Valid =>
            IF At({"write", "torn"}, f) THEN pread = disk[f]
                                        ELSE rules[f] = disk[f]

\* No other file can hold an objective with the labels of the one in f.
Unshared(f) ==
    \A g \in Files \ {f} : \A d \in Parses :
        KeysOf[g][d] \cap KeysOf[f][disk[f]] = {}

\* No edit is lost on the way to the objectives served to the API, although the
\* store is filled from a second read of the file. That is all it says: older contents
\* under other keys of f, and the zero objective, may be in the store beside it.
StoreFollowsDisk ==
    \A f \in Yaml \ unseen :
        ~Pending(f) /\ ~At({"write", "torn", "load"}, f)
          /\ disk[f] \in Parses /\ Unshared(f) =>
            IF At({"set"}, f) THEN pread = disk[f]
                              ELSE \E k \in KeysOf[f][disk[f]] : store[k] = disk[f]

\* A file that is not there is unseen: nothing will be done about it.
AbsentUnseen == \A f \in Files : disk[f] = None => f \in unseen

\* A reload of Prometheus is still to come: the processor will ask for one, a
\* request is queued, the debouncing timeout is armed, or the POST is under way.
ReloadOwed ==
    \/ ppc \in {"write", "torn", "load", "set", "send", "panicked"}
    \/ reload > 0
    \/ timer
    \/ rpc = "posting"

\* A rule file that Prometheus has not loaded as it is now will be: a reload is
\* owed. Excepted is a reload that was tried and failed, which the reloader does not
\* retry: Prometheus then keeps the old rules until the next edit. In particular a
\* rule file that was half written when a reload fired is loaded again.
LoadedFollowsRules ==
    \A f \in Yaml \ unseen :
        loaded[f] = rules[f] \/ Pending(f) \/ ReloadOwed \/ reloadFailed

-----------------------------------------------------------------------------
(* Liveness, under FairSpec.                                                 *)

InSync ==
    /\ \A f \in Yaml \ (unseen \cup broken) : disk[f] \in Valid => rules[f] = disk[f]
    /\ \A f \in Yaml \ unseen : disk[f] \in Parses /\ Unshared(f) =>
           \E k \in KeysOf[f][disk[f]] : store[k] = disk[f]
    /\ reloadFailed \/ \A f \in Yaml \ unseen : loaded[f] = rules[f]

\* Once the edits stop, rule files, store and Prometheus come to agree with the
\* directory and stay so: no two goroutines block each other for ever on the
\* channels, however small, unless the group is shutting down.
EventuallyInSync == <>[](ctxDone \/ InSync)

\* How a shutdown, once begun, ends, unless the process is killed. It completes, or the processor panics on the closed
\* channel, or gr.Run waits for ever: for a reloader that has left its outer loop,
\* or for a lister or watcher sending to a channel the processor has left full.
ShutdownEnds ==
    []<>(\/ ~ctxDone
         \/ Exited
         \/ ~Running
         \/ rpc \in {"inner", "posting"} /\ interrupted = 5
              /\ spc = "returned" /\ ppc = "returned"
         \/ Len(files) = FilesCap /\ interrupted = 5
              /\ ppc = "returned" /\ "send" \in {lpc, wpc})

\* What the comment of the inner loop promises: "Eventually we trigger a reload
\* and then start the outer loop again waiting for updates or termination".
ReloaderLoopsBack == rpc = "posting" ~> rpc = "outer"

=============================================================================
