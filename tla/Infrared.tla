------------------------------ MODULE Infrared ------------------------------
(***************************************************************************)
(* One reconciliation of the Infrared backend after another:               *)
(* infrared.ReloadingController, infrared.Controller.ReconcileChanges and  *)
(* infrared.MarkerReloader.                                                *)
(*                                                                         *)
(* Each managed server has one configuration file, which is replaced by    *)
(* renaming; Infrared loads the files when the reload marker changes.      *)
(* Files may fail to be written or removed, the context may end, the       *)
(* process may stop between two file operations, and somebody may edit or  *)
(* remove a managed file.                                                  *)
(***************************************************************************)
EXTENDS Naturals, Sequences

CONSTANTS
    Server,     \* server IDs, as numbers in the order of their file names
    Content,    \* rendered configurations
    Invalid,    \* a server ID or route that cannot be rendered
    Plans,      \* the route sequences the planner may produce
    Tampering,  \* may somebody else touch the managed files?
    NoFile

Route == [server : Server \cup {Invalid}, content : Content \cup {Invalid}]
Directory == [Server -> Content \cup {NoFile}]

ASSUME ServerAssumption == Server \subseteq Nat
ASSUME ContentAssumption == NoFile \notin Content /\ Invalid \notin Server \cup Content
ASSUME PlansAssumption == Plans \subseteq Seq(Route)
ASSUME TamperingAssumption == Tampering \in BOOLEAN

VARIABLES
    want,           \* what the planner produces now
    files,          \* the managed files
    loaded,         \* the files when the marker was last written: what Infrared serves
    reloadPending,  \* ReloadingController.reloadPending
    pc,             \* "idle", "validate", "write", "remove" or "reload"
    desired,        \* the rendered configurations by file
    queue,          \* configurations the write loop has still to visit
    todo,           \* files the removal loop has still to remove
    changed,        \* has this pass written or removed a file?
    outcome,        \* of the last pass: "none", "ok", "rejected" or "error"
    forgotten,      \* was a change made whose reload nobody remembers?
    quiet           \* has nobody else touched the files since the pass began?

disk == <<files, loaded>>
pass == <<pc, desired, queue, todo, changed, outcome>>
vars == <<want, disk, reloadPending, pass, forgotten, quiet>>

NoFiles == [s \in Server |-> NoFile]

TypeOK ==
    /\ want \in Plans /\ queue \in Seq(Route)
    /\ files \in Directory /\ loaded \in Directory /\ desired \in Directory
    /\ pc \in {"idle", "validate", "write", "remove", "reload"}
    /\ todo \subseteq Server
    /\ outcome \in {"none", "ok", "rejected", "error"}
    /\ {reloadPending, changed, forgotten, quiet} \subseteq BOOLEAN

\* The first start, on an empty directory.
Init ==
    /\ want \in Plans
    /\ files = NoFiles /\ loaded = NoFiles
    /\ pc = "idle" /\ outcome = "none" /\ changed = FALSE
    /\ desired = NoFiles /\ queue = <<>> /\ todo = {}
    /\ reloadPending = FALSE /\ forgotten = FALSE /\ quiet = TRUE

-----------------------------------------------------------------------------
\* The pass.

\* The call returns; its locals are gone (desired is kept for the properties).
Finish(o) == pc' = "idle" /\ outcome' = o /\ queue' = <<>> /\ todo' = {} /\ changed' = FALSE

HasFilename(route) == route.server # Invalid

Renders(route) == route.content # Invalid

\* Fault: the plan is taken as it comes.
AcceptedUnchecked(plan) == TRUE

\* Every route can be rendered and no two have the same server.
Accepted(plan) ==
    /\ \A i \in DOMAIN plan : HasFilename(plan[i]) /\ Renders(plan[i])
    /\ \A i, j \in DOMAIN plan : plan[i].server = plan[j].server => i = j

Rendered(plan) ==
    [s \in Server |->
        IF \E i \in DOMAIN plan : plan[i].server = s
        THEN plan[CHOOSE i \in DOMAIN plan : plan[i].server = s].content
        ELSE NoFile]

Synchronize ==
    /\ pc = "idle"
    /\ pc' = "validate" /\ outcome' = "none" /\ changed' = FALSE /\ quiet' = TRUE
    /\ UNCHANGED <<want, disk, reloadPending, desired, queue, todo, forgotten>>

\* All configurations are rendered before any file is touched.
Prepare ==
    /\ pc = "validate"
    /\ IF Accepted(want)
       THEN /\ desired' = Rendered(want) /\ queue' = want
            /\ pc' = "write"
            /\ UNCHANGED <<todo, changed, outcome>>
       ELSE Finish("rejected") /\ UNCHANGED desired
    /\ UNCHANGED <<want, disk, reloadPending, forgotten, quiet>>

\* Fault: a file that exists is left as it is.
NeedsFile(r) == files[r.server] = NoFile

NeedsUpdate(r) == files[r.server] # r.content

\* writeFileAtomic renames a complete file into place.
Replaced(r) == [files EXCEPT ![r.server] = r.content]

Write ==
    /\ pc = "write" /\ queue # <<>>
    /\ LET r == Head(queue)
       IN  /\ files' = IF NeedsUpdate(r) THEN Replaced(r) ELSE files
           /\ changed' = (changed \/ NeedsUpdate(r))
    /\ queue' = Tail(queue)
    /\ UNCHANGED <<want, loaded, reloadPending, pc, desired, todo, outcome, forgotten, quiet>>

\* Fault: files of other servers are not looked for.
StaleNone == {}

Stale == {s \in Server : files[s] # NoFile /\ desired[s] = NoFile}

\* Fault: obsolete files are removed before everything is written.
ReadDirectoryEarly ==
    /\ pc = "write"
    /\ todo' = Stale
    /\ pc' = "remove"
    /\ UNCHANGED <<want, disk, reloadPending, desired, queue, changed, outcome, forgotten, quiet>>

ReadDirectory ==
    /\ pc = "write" /\ queue = <<>>
    /\ todo' = Stale
    /\ pc' = "remove"
    /\ UNCHANGED <<want, disk, reloadPending, desired, queue, changed, outcome, forgotten, quiet>>

\* Removing a file that is gone is an error, see PassFails.
Remove(s) ==
    /\ pc = "remove" /\ s \in todo /\ \A t \in todo : s <= t
    /\ files[s] # NoFile
    /\ files' = [files EXCEPT ![s] = NoFile]
    /\ changed' = TRUE
    /\ todo' = todo \ {s}
    /\ UNCHANGED <<want, loaded, reloadPending, pc, desired, queue, outcome, forgotten, quiet>>

\* Fault: only the changes of this pass count.
PendingFromThisPass == changed

Pending == reloadPending \/ changed

\* ReconcileChanges has returned to the reloading controller.
Return ==
    /\ pc = "remove" /\ todo = {}
    /\ reloadPending' = Pending
    /\ IF Pending
       THEN pc' = "reload" /\ UNCHANGED <<queue, todo, changed, outcome>>
       ELSE Finish("ok")
    /\ UNCHANGED <<want, disk, desired, forgotten, quiet>>

\* The marker is written and Infrared loads the files.
Reload ==
    /\ pc = "reload"
    /\ loaded' = files
    /\ reloadPending' = FALSE /\ forgotten' = FALSE
    /\ Finish("ok")
    /\ UNCHANGED <<want, files, desired, quiet>>

\* The context ends or a file operation fails.  ReconcileChanges then reports
\* no change, whatever it has changed.
PassFails ==
    /\ pc \notin {"idle", "reload"}
    /\ Finish("error")
    /\ forgotten' = (forgotten \/ changed)
    /\ UNCHANGED <<want, disk, reloadPending, desired, quiet>>

\* The marker cannot be written; the reload stays pending.
ReloadFails ==
    /\ pc = "reload"
    /\ Finish("error")
    /\ UNCHANGED <<want, disk, reloadPending, desired, forgotten, quiet>>

-----------------------------------------------------------------------------
\* Around the pass.

\* The process stops and starts again.
Crash ==
    /\ Finish("error")
    /\ reloadPending' = FALSE
    /\ forgotten' = (forgotten \/ reloadPending \/ (pc # "idle" /\ changed))
    /\ UNCHANGED <<want, disk, desired, quiet>>

WantChanges ==
    /\ want' \in Plans
    /\ UNCHANGED <<disk, reloadPending, pass, forgotten, quiet>>

\* Somebody edits or removes a managed file.
Tamper ==
    /\ Tampering
    /\ \E s \in Server, c \in Content \cup {NoFile} : files' = [files EXCEPT ![s] = c]
    /\ quiet' = FALSE /\ forgotten' = TRUE
    /\ UNCHANGED <<want, loaded, reloadPending, pass>>

Work ==
    \/ Prepare \/ Write \/ ReadDirectory \/ Return \/ Reload \/ PassFails \/ ReloadFails
    \/ \E s \in Server : Remove(s)

Next == Synchronize \/ Work \/ Crash \/ WantChanges \/ Tamper

Spec == Init /\ [][Next]_vars

\* The scheduler starts pass after pass and file operations end.
FairSpec == Spec /\ WF_vars(Synchronize) /\ WF_vars(Work)

-----------------------------------------------------------------------------
\* Properties.

\* A pass that returns nil has left exactly the planned configurations among
\* the managed files, unless somebody else touched them meanwhile.
ExactOnSuccess == outcome = "ok" /\ quiet => files = desired

\* A reload that is owed is not lost: when a pass returns nil, Infrared has
\* loaded the files as they are, however often the marker could not be written
\* before, unless a pass failed after it had changed a file, the process
\* stopped before the reload, or somebody else changed a file.
ReloadUnlessForgotten == outcome = "ok" /\ ~forgotten => loaded = files

\* ARCHITECTURE.md: the adapter updates a reload marker after configuration
\* changes, so when a pass returns nil the files are the ones Infrared loaded.
ReloadAfterChange == outcome = "ok" => loaded = files

\* Obsolete files go last: the controller removes a file only when its server
\* has no route and every planned configuration has been written.
ObsoleteGoLast ==
    [][\A s \in Server :
        files[s] # NoFile /\ files'[s] = NoFile /\ ~Tamper =>
            /\ desired[s] = NoFile
            /\ quiet => \A t \in Server : desired[t] # NoFile => files[t] = desired[t]]_vars

Disturbance == WantChanges \/ Tamper \/ Crash \/ PassFails \/ ReloadFails

\* Repeated synchronization converges: when plans are accepted and disturbances
\* cease, the files become those of the plan and stay so, and no reload that is
\* remembered stays owed.
Convergence ==
    <>[][~Disturbance /\ Accepted(want)]_vars
        => <>[](files = Rendered(want) /\ (forgotten \/ loaded = files))

\* The files are those of the plan, and what the pass may still do agrees with it.
Settled ==
    /\ files = Rendered(want)
    /\ pc \in {"write", "remove"} => desired = Rendered(want)

\* No pass touches the files of a settled directory, whether it succeeds, fails
\* halfway or is cut off, and it owes no reload for them: only another plan or
\* somebody who edits the files unsettles it.
StaysSettled ==
    [][Settled /\ want' = want /\ ~Tamper => Settled' /\ files' = files /\ (changed' => changed)]_vars

\* The abstract call begins when all configurations are rendered.
Promise == INSTANCE RouteTable WITH
    Key <- Server, Value <- Content, Owned <- Server, Absent <- NoFile,
    table <- files, busy <- pc \in {"write", "remove", "reload"}, plan <- desired,
    result <- IF outcome = "rejected" THEN "error" ELSE outcome

\* The controller keeps the promise of a RouteController: files go straight to
\* their planned contents, additions before removals, and a nil error means
\* that the plan is applied.
KeepsPromise == Promise!Spec

-----------------------------------------------------------------------------
\* The inductive invariant behind the safety properties: what a pass that
\* nobody disturbs has done after each file operation, and who remembers a
\* reload that is owed.

WriteInv ==
    pc = "write" =>
        /\ \A i \in 1..Len(queue) :
             /\ queue[i].server \in Server /\ queue[i].content \in Content
             /\ queue[i].content = desired[queue[i].server]
        /\ quiet => \A s \in Server :
             desired[s] = NoFile \/ files[s] = desired[s] \/ \E i \in 1..Len(queue) : queue[i].server = s

RemoveInv ==
    pc = "remove" =>
        /\ \A s \in todo : desired[s] = NoFile
        /\ quiet => \A s \in Server : s \in todo \/ files[s] = desired[s]

ReloadInv ==
    /\ pc = "reload" => reloadPending /\ (quiet => files = desired)
    /\ pc \in {"idle", "validate"} => ~changed
    /\ outcome = "ok" => pc = "idle" /\ ~reloadPending
    /\ forgotten \/ reloadPending \/ changed \/ loaded = files

IInv ==
    /\ TypeOK /\ WriteInv /\ RemoveInv /\ ReloadInv /\ ExactOnSuccess
    /\ pc # "idle" => outcome = "none"

=============================================================================
