---------------------------- MODULE Application -----------------------------
(***************************************************************************)
(* app.Run over many lives of the process: it opens and migrates the       *)
(* database, refreshes once, prepares the server and enters runLifecycle;  *)
(* the supervisor starts it again when it has ended, perhaps in another    *)
(* release.                                                                *)
(*                                                                         *)
(* Composed of Migrations (the database), Lifecycle (the serving process)  *)
(* and EventLog (the operational history, to which every refresh appends). *)
(***************************************************************************)
EXTENDS Lifecycle, Migrations, EventLog

CONSTANTS
    Times,      \* readings of the wall clock
    MaxEvents   \* bound on the events ever recorded

ASSUME TimesAssumption == Times \subseteq Nat

VARIABLES
    phase,      \* "down", "opening", "building", "refreshing", "preparing" or "running"
    exit        \* how app.Run ended last: "none", "nil", "error" or "killed"

appVars == <<vars, migrationVars, logVars, phase, exit>>

AppInit == Init /\ MigrationInit /\ LogInit /\ phase = "down" /\ exit = "none"

-----------------------------------------------------------------------------

\* RecordReconciliation appends with the context of the refresh; an event of an
\* ended context is lost, and any other may be.
Record(ctxDone) ==
    \/ ~ctxDone /\ lastId < MaxEvents /\ \E at \in Times : Commit(at)
    \/ UNCHANGED logVars

\* app.Run returns and the deferred Close closes the database.
End(how) == phase' = "down" /\ exit' = how /\ Close /\ UNCHANGED vars

\* A new process: runLifecycle will find everything as in Init.
Fresh ==
    /\ stop' = FALSE /\ cancelled' = FALSE
    /\ main' = "select" /\ cause' = "none" /\ deadline' = "unarmed" /\ failure' = FALSE
    /\ listener' = "open" /\ served' = "none" /\ closeError' = FALSE /\ inflight' = 0
    /\ worker' = "waiting" /\ tick' = FALSE

Launch ==
    /\ phase = "down"
    /\ phase' = "opening" /\ exit' = "none"
    /\ \E r \in Releases : Open(r)
    /\ Fresh
    /\ UNCHANGED logVars

OpenDatabase ==
    /\ phase = "opening" /\ (Migrate \/ MigrateFails)
    /\ phase' = IF step' = "open" THEN "building" ELSE phase
    /\ UNCHANGED <<vars, logVars, exit>>

OpenFails == phase = "opening" /\ step = "failed" /\ End("error") /\ UNCHANGED logVars

\* Secret reader, route controller and synchronizer.
BuildServices ==
    /\ phase = "building"
    /\ phase' = "refreshing"
    /\ UNCHANGED <<vars, migrationVars, logVars, exit>>

BuildFails == phase = "building" /\ End("error") /\ UNCHANGED logVars

\* The refresh succeeds, or there is nothing to refresh yet.
StartupRefresh ==
    /\ phase = "refreshing"
    /\ Record(stop)
    /\ IF stop
       THEN End("nil")
       ELSE phase' = "preparing" /\ UNCHANGED <<vars, migrationVars, exit>>

\* Fault: every failure of the first refresh ends the process quietly.
RefreshErrorDropped == {"nil"}

\* A cancelled refresh is not an error.
RefreshError == IF stop THEN {"nil", "error"} ELSE {"error"}

RefreshFails ==
    /\ phase = "refreshing"
    /\ Record(stop)
    /\ \E how \in RefreshError : End(how)

\* The authorizers and the router of the server.
PrepareServer ==
    /\ phase = "preparing"
    /\ phase' = "running"
    /\ UNCHANGED <<vars, migrationVars, logVars, exit>>

\* Discovery of the identity provider fails with an ended context quietly.
PrepareFails ==
    /\ phase = "preparing"
    /\ \E how \in RefreshError : End(how)
    /\ UNCHANGED logVars

\* A step of runLifecycle; a task that ends has recorded its refresh, and so
\* may a request have.
Running(A) ==
    /\ phase = "running" /\ A
    /\ IF worker = "task" /\ worker' # "task" THEN Record(RuntimeDone)
       ELSE IF inflight' < inflight THEN Record(FALSE)
       ELSE UNCHANGED logVars
    /\ UNCHANGED <<migrationVars, phase, exit>>

Return ==
    /\ phase = "running" /\ main = "returned"
    /\ End(IF failure THEN "error" ELSE "nil")
    /\ UNCHANGED logVars

\* A signal during startup ends the context only.
Interrupt ==
    /\ phase \notin {"down", "running"}
    /\ Signal
    /\ UNCHANGED <<migrationVars, logVars, phase, exit>>

Kill == phase # "down" /\ End("killed") /\ UNCHANGED logVars

Startup == OpenDatabase \/ OpenFails \/ BuildServices \/ StartupRefresh \/ PrepareServer

AppNext ==
    \/ Launch \/ Startup \/ BuildFails \/ RefreshFails \/ PrepareFails
    \/ Running(Next) \/ Return \/ Interrupt \/ Kill

\* The supervisor restarts the process, whatever its exit code; calls made
\* during startup have timeouts; the rest is as in Lifecycle.
AppSpec ==
    /\ AppInit /\ [][AppNext]_appVars
    /\ WF_appVars(Launch) /\ WF_appVars(Startup) /\ WF_appVars(Return)
    /\ WF_appVars(Running(Main)) /\ WF_appVars(Running(Expire)) /\ WF_appVars(Running(ServerReturns))
    /\ WF_appVars(Running(Tick)) /\ WF_appVars(Running(StartTask \/ WorkerStops))

-----------------------------------------------------------------------------
\* Properties.

\* app.Run returns nil, and the process exits with status 0, only if it was
\* asked to stop: no failure of a refresh, a task or the server goes unreported.
NilMeansAsked == exit = "nil" => stop

\* A signal, or a failure of the server, ends the process wherever it is, even
\* when requests and the task of the scheduler hang.
EndsWhenAsked == phase # "down" /\ (stop \/ served = "failed") ~> phase = "down"

\* The release may be started on the database.
Fits == \A v \in Versions : rows[v] # NoRow => v <= Len(release) /\ rows[v] \in {Blank, release[v]}

Mishap ==
    \/ phase = "opening" /\ MigrateFails /\ ~Migrate
    \/ BuildFails \/ RefreshFails \/ PrepareFails \/ Interrupt \/ Kill
    \/ Running(Signal) \/ Running(ListenerFails)

\* An interrupted or failed start leaves nothing behind that prevents the next
\* one, and a failed task ends neither the scheduler nor the process: when
\* mishaps cease and releases fit the database, the process comes to run, runs
\* on, and starts another task after every task that ends.
StartsAgain ==
    <>[][~Mishap /\ (phase' = "opening" => Fits')]_appVars
        => <>[](phase = "running") /\ ([]<>(worker # "task") => []<>(worker = "task"))

-----------------------------------------------------------------------------
\* The inductive invariant behind NilMeansAsked: without a failure of the
\* server, runLifecycle leaves its select only when the context is done.

AskedInv ==
    /\ main = "select" => ~cancelled
    /\ worker = "done" => stop \/ cancelled
    /\ cause \in {"stop", "worker"} => stop

AppInv == IInv /\ AskedInv /\ NilMeansAsked

=============================================================================
