----------------------------- MODULE Activation -----------------------------
(***************************************************************************)
(* Serialized activation of settings: runtime.RefreshTask together with    *)
(* setup.Service, settings.Store, runtime.Manager, runtime.Inventory, the  *)
(* reconciliation tracker and the startup sequence of app.Run.             *)
(*                                                                         *)
(* Four kinds of goroutine run the code: the scheduler (which first        *)
(* performs the startup refresh), dashboard refreshes, setup requests and  *)
(* settings updates.  Each step between two reads or writes of shared      *)
(* state is an action.  Network calls and database calls may fail; the     *)
(* process may stop at any point and start again from its database; the    *)
(* Pelican inventory, the route policies and the router backend change on  *)
(* their own.  Applying a route set to the backend is abstracted to its    *)
(* outcome: untouched, applied completely, or partly applied (Mixed).      *)
(***************************************************************************)
EXTENDS Naturals

CONSTANTS
    Url, Domain,        \* fields of settings.Settings; Url stands for the URL and its credential
    Candidates,         \* the settings requests ask for
    Generations,        \* values of the random generation of a pending setup
    Inventories,        \* possible results of discovery
    Policies,           \* possible contents of the route policy table
    SetupRequests,      \* goroutines serving PUT /setup
    UpdateRequests,     \* goroutines serving PUT /settings
    ManualRefreshes,    \* goroutines serving the dashboard's reconcile action
    Scheduler,          \* the goroutine of app.Run and then of the ticker
    BackendVolatile,    \* may the router backend lose its routes by itself?
    None, Empty, Mixed

Activations == SetupRequests \cup UpdateRequests
Requests == Activations \cup ManualRefreshes
Proc == Requests \cup {Scheduler}

Settings == [url : Url, domain : Domain]
Pending == [gen : Generations, value : Settings]

\* A runtime service: the settings it was built from and its inventory snapshot.
Service == [settings : Settings, inv : Inventories]

\* The route set computed from a service under the policies of the moment.
Plan == [settings : Settings, inv : Inventories, pol : Policies]

ASSUME CandidatesAssumption == Candidates \subseteq Settings

ASSUME ProcAssumption ==
    /\ SetupRequests \cap UpdateRequests = {}
    /\ Activations \cap ManualRefreshes = {}
    /\ Scheduler \notin Requests
    /\ None \notin Proc

ASSUME SentinelAssumption ==
    /\ None \notin Settings \cup Pending \cup Service \cup Plan \cup Generations
    /\ Empty \notin Plan /\ Mixed \notin Plan /\ Empty # Mixed /\ None \notin {Empty, Mixed}

ASSUME BackendAssumption == BackendVolatile \in BOOLEAN

VARIABLES
    active,     \* durable: settings rows of a completed setup, None before
    pending,    \* durable: the singleton pending_setup row
    phase,      \* "down", "starting" (startup refresh) or "serving"
    lock,       \* owner of refreshLock, None when free
    published,  \* services held by runtime.Manager
    tracker,    \* ReconciliationStatus
    routes,     \* backend: the route set it serves
    world,      \* Pelican: what discovery would return now
    policies,   \* durable: the route policy table
    pc, cancelled, cand, gen, prev, svc, target,  \* each goroutine's control, context and locals
    entry       \* what was durable and published when the lock was taken

durable == <<active, pending, policies>>
process == <<phase, lock, published, tracker>>
locals == <<pc, cancelled, cand, gen, prev, svc, target, entry>>
vars == <<durable, process, routes, world, locals>>

PreLock == {"idle", "validate", "acquire"}
Refreshing == {"build", "loadDomain"}
Activating == {"stage", "prepare", "persist", "restore", "restoring"}
Either == {"inventory", "sync", "syncing", "publish", "success", "failed"}
Locked == Refreshing \cup Activating \cup Either \cup {"unconfigured"}

Outcome == {"none", "not_configured", "success", "failure"}

TypeOK ==
    /\ active \in Settings \cup {None}
    /\ pending \in Pending \cup {None}
    /\ phase \in {"down", "starting", "serving"}
    /\ lock \in Proc \cup {None}
    /\ published \in Service \cup {None}
    /\ tracker \in [inProgress : BOOLEAN, outcome : Outcome]
    /\ routes \in Plan \cup {Empty, Mixed}
    /\ world \in Inventories
    /\ policies \in Policies
    /\ pc \in [Proc -> PreLock \cup Locked]
    /\ cancelled \in [Proc -> BOOLEAN]
    /\ cand \in [Proc -> Settings \cup {None}]
    /\ gen \in [Proc -> Generations \cup {None}]
    /\ prev \in [Proc -> Service \cup {None}]
    /\ svc \in [Proc -> Service \cup {None}]
    /\ target \in [Proc -> Plan \cup {Empty, None}]
    /\ entry \in [Proc -> (Settings \cup {None}) \X (Service \cup {None})]

NoEntry == <<None, None>>
IdleTracker == [inProgress |-> FALSE, outcome |-> "none"]

\* A database after its migrations; the backend may hold routes of an earlier life.
Init ==
    /\ active = None /\ pending = None
    /\ policies \in Policies /\ world \in Inventories
    /\ routes \in {Empty, Mixed}
    /\ phase = "down" /\ lock = None /\ published = None /\ tracker = IdleTracker
    /\ pc = [p \in Proc |-> "idle"]
    /\ cancelled = [p \in Proc |-> FALSE]
    /\ cand = [p \in Proc |-> None]
    /\ gen = [p \in Proc |-> None]
    /\ prev = [p \in Proc |-> None]
    /\ svc = [p \in Proc |-> None]
    /\ target = [p \in Proc |-> None]
    /\ entry = [p \in Proc |-> NoEntry]

-----------------------------------------------------------------------------
\* Helpers shared by the steps.

Goto(p, label) == pc' = [pc EXCEPT ![p] = label]

PlanOf(service) == [settings |-> service.settings, inv |-> service.inv, pol |-> policies]

\* A handler returns; its context and locals are gone.
Return(p) ==
    /\ Goto(p, "idle")
    /\ cancelled' = IF p = Scheduler THEN cancelled ELSE [cancelled EXCEPT ![p] = FALSE]
    /\ cand' = [cand EXCEPT ![p] = None]
    /\ gen' = [gen EXCEPT ![p] = None]
    /\ prev' = [prev EXCEPT ![p] = None]
    /\ svc' = [svc EXCEPT ![p] = None]
    /\ target' = [target EXCEPT ![p] = None]
    /\ entry' = [entry EXCEPT ![p] = NoEntry]

\* The process ends: everything but the database and the backend is gone.
Stop ==
    /\ phase' = "down" /\ lock' = None /\ published' = None /\ tracker' = IdleTracker
    /\ pc' = [p \in Proc |-> "idle"]
    /\ cancelled' = [p \in Proc |-> FALSE]
    /\ cand' = [p \in Proc |-> None]
    /\ gen' = [p \in Proc |-> None]
    /\ prev' = [p \in Proc |-> None]
    /\ svc' = [p \in Proc |-> None]
    /\ target' = [p \in Proc |-> None]
    /\ entry' = [p \in Proc |-> NoEntry]
    /\ UNCHANGED <<durable, routes, world>>

\* app.Run returns when the startup refresh does not succeed.
StartingUp(p) == p = Scheduler /\ phase = "starting"

-----------------------------------------------------------------------------
\* Before the lock.

Boot ==
    /\ phase = "down"
    /\ phase' = "starting"
    /\ Goto(Scheduler, "acquire")
    /\ UNCHANGED <<durable, lock, published, tracker, routes, world,
                   cancelled, cand, gen, prev, svc, target, entry>>

\* A tick of the scheduler or a dashboard action calls Refresh.
StartRefresh(p) ==
    /\ p \in ManualRefreshes \cup {Scheduler}
    /\ phase = "serving" /\ pc[p] = "idle" /\ ~cancelled[p]
    /\ Goto(p, "acquire")
    /\ UNCHANGED <<durable, process, routes, world, cancelled, cand, gen, prev, svc, target, entry>>

\* Setup and Update read the setup flag without the lock.
StartActivation(p) ==
    /\ p \in Activations
    /\ phase = "serving" /\ pc[p] = "idle"
    /\ (p \in SetupRequests) = (active = None)
    /\ \E s \in Candidates : cand' = [cand EXCEPT ![p] = s]
    /\ Goto(p, "validate")
    /\ UNCHANGED <<durable, process, routes, world, cancelled, gen, prev, svc, target, entry>>

\* Fault: an update is stored before it is activated.
ValidateSaving(p) ==
    /\ pc[p] = "validate" /\ ~cancelled[p]
    /\ active' = IF p \in UpdateRequests THEN cand[p] ELSE active
    /\ Goto(p, "acquire")
    /\ UNCHANGED <<pending, policies, process, routes, world, cancelled, cand, gen, prev, svc, target, entry>>

Validate(p) ==
    /\ pc[p] = "validate" /\ ~cancelled[p]
    /\ Goto(p, "acquire")
    /\ UNCHANGED <<durable, process, routes, world, cancelled, cand, gen, prev, svc, target, entry>>

ValidateFails(p) ==
    /\ pc[p] = "validate"
    /\ Return(p)
    /\ UNCHANGED <<durable, process, routes, world>>

\* Fault: the send on refreshLock does not wait for the slot.
LockIgnored == TRUE

LockFree == lock = None

Acquire(p) ==
    /\ pc[p] = "acquire" /\ LockFree
    /\ lock' = p
    /\ entry' = [entry EXCEPT ![p] = <<active, published>>]
    /\ Goto(p, IF p \in SetupRequests THEN "stage"
               ELSE IF p \in UpdateRequests THEN "prepare" ELSE "build")
    /\ UNCHANGED <<durable, phase, published, tracker, routes, world,
                   cancelled, cand, gen, prev, svc, target>>

AcquireCancelled(p) ==
    /\ pc[p] = "acquire" /\ cancelled[p]
    /\ IF StartingUp(p)
       THEN Stop
       ELSE Return(p) /\ UNCHANGED <<durable, process, routes, world>>

-----------------------------------------------------------------------------
\* Refresh: build the services from the store.

Started == [inProgress |-> TRUE, outcome |-> tracker.outcome]

\* The flag is read; a configured store starts to load (the URL first).
Build(p) ==
    /\ pc[p] = "build"
    /\ tracker' = Started
    /\ IF active = None
       THEN /\ published' = None
            /\ Goto(p, "unconfigured")
            /\ UNCHANGED cand
       ELSE /\ cand' = [cand EXCEPT ![p] = active]
            /\ Goto(p, "loadDomain")
            /\ UNCHANGED published
    /\ UNCHANGED <<durable, phase, lock, routes, world, cancelled, gen, prev, svc, target, entry>>

\* Load reads the domain in a later query, outside any transaction.
LoadDomain(p) ==
    /\ pc[p] = "loadDomain" /\ active # None
    /\ cand' = [cand EXCEPT ![p] = [url |-> @.url, domain |-> active.domain]]
    /\ Goto(p, "inventory")
    /\ UNCHANGED <<durable, process, routes, world, cancelled, gen, prev, svc, target, entry>>

-----------------------------------------------------------------------------
\* ActivateSetup and Activate: prepare the candidate.

FreshGenerations ==
    {g \in Generations : (pending # None => pending.gen # g) /\ \A q \in Proc : gen[q] # g}

\* Fault: only the check made before the lock counts.
FlagNotRechecked == TRUE

StillIncomplete == active = None

Stage(p) ==
    /\ pc[p] = "stage" /\ StillIncomplete
    /\ \E g \in FreshGenerations :
         /\ pending' = [gen |-> g, value |-> cand[p]]
         /\ gen' = [gen EXCEPT ![p] = g]
    /\ Goto(p, "prepare")
    /\ UNCHANGED <<active, policies, process, routes, world, cancelled, cand, prev, svc, target, entry>>

\* Fault: the early return keeps the lock.
StageFailsLocked(p) ==
    /\ pc[p] = "stage"
    /\ Return(p)
    /\ UNCHANGED <<durable, process, routes, world>>

\* Already configured, or the write failed: the lock is released and nothing is tracked.
StageFails(p) ==
    /\ pc[p] = "stage"
    /\ lock' = None
    /\ Return(p)
    /\ UNCHANGED <<durable, phase, published, tracker, routes, world>>

Prepare(p) ==
    /\ pc[p] = "prepare"
    /\ tracker' = Started
    /\ prev' = [prev EXCEPT ![p] = published]
    /\ Goto(p, "inventory")
    /\ UNCHANGED <<durable, phase, lock, published, routes, world, cancelled, cand, gen, svc, target, entry>>

\* Inventory.Refresh of the services under construction.
Discover(p) ==
    /\ pc[p] = "inventory" /\ ~cancelled[p]
    /\ svc' = [svc EXCEPT ![p] = [settings |-> cand[p], inv |-> world]]
    /\ Goto(p, "sync")
    /\ UNCHANGED <<durable, process, routes, world, cancelled, cand, gen, prev, target, entry>>

-----------------------------------------------------------------------------
\* Synchronization of the backend.

\* The desired routes are planned and the first backend call is made.
Touch(p, plan) ==
    /\ target' = [target EXCEPT ![p] = plan]
    /\ routes' = IF routes = plan THEN routes ELSE Mixed

\* Fault: the backend is left alone while the services are those already published.
AppliedIfNew(p) == routes' = IF published = svc[p] THEN routes ELSE target[p]

\* The last call returned; a backend that lost its routes meanwhile has only some of them.
Applied(p) == routes' = IF routes \in {Mixed, target[p]} THEN target[p] ELSE Mixed

Sync(p) ==
    /\ pc[p] = "sync" /\ ~cancelled[p]
    /\ Touch(p, PlanOf(svc[p]))
    /\ Goto(p, "syncing")
    /\ UNCHANGED <<durable, process, world, cancelled, cand, gen, prev, svc, entry>>

\* Fault: the candidate is published before it is durable.
SyncDonePublishing(p) ==
    /\ pc[p] = "syncing"
    /\ Applied(p)
    /\ published' = svc[p]
    /\ Goto(p, IF p \in Activations THEN "persist" ELSE "publish")
    /\ UNCHANGED <<durable, phase, lock, tracker, world, cancelled, cand, gen, prev, svc, target, entry>>

SyncDone(p) ==
    /\ pc[p] = "syncing"
    /\ Applied(p)
    /\ Goto(p, IF p \in Activations THEN "persist" ELSE "publish")
    /\ UNCHANGED <<durable, process, world, cancelled, cand, gen, prev, svc, target, entry>>

\* Fault: the error of the candidate synchronization is dropped.
SyncErrorIgnored(p) == IF p \in Activations /\ pc[p] \in {"sync", "syncing"} THEN "persist" ELSE "failed"

\* A failed activation compensates once it has started to synchronize.
AfterFailure(p) == IF p \in Activations /\ pc[p] \in {"sync", "syncing"} THEN "restore" ELSE "failed"

\* Any call under the lock fails: secret, store, discovery, planner, backend or context.
StepFails(p) ==
    /\ pc[p] \in {"build", "loadDomain", "prepare", "inventory", "sync", "syncing"}
    /\ tracker' = Started
    /\ Goto(p, AfterFailure(p))
    /\ UNCHANGED <<durable, phase, lock, published, routes, world,
                   cancelled, cand, gen, prev, svc, target, entry>>

-----------------------------------------------------------------------------
\* Promotion, publication, compensation.

\* PromotePendingSetup: the staged row becomes active if it is still the one.
Promote(p) ==
    /\ p \in SetupRequests
    /\ pending # None /\ pending.gen = gen[p]
    /\ active' = pending.value
    /\ pending' = None

Save(p) ==
    /\ p \in UpdateRequests
    /\ active' = cand[p]
    /\ UNCHANGED pending

\* One transaction either way.
Persist(p) ==
    /\ pc[p] = "persist" /\ ~cancelled[p]
    /\ Promote(p) \/ Save(p)
    /\ Goto(p, "publish")
    /\ UNCHANGED <<policies, process, routes, world, cancelled, cand, gen, prev, svc, target, entry>>

\* The context was cancelled, the generation is gone, or the transaction failed.
PersistFails(p) ==
    /\ pc[p] = "persist"
    /\ Goto(p, "restore")
    /\ UNCHANGED <<durable, process, routes, world, cancelled, cand, gen, prev, svc, target, entry>>

\* Fault: nothing is published for a client that went away.
UnpublishedIfCancelled(p) == IF cancelled[p] THEN published ELSE svc[p]

\* The arguments of Manager.Set.
NewServices(p) == svc[p]

Publish(p) ==
    /\ pc[p] = "publish"
    /\ published' = NewServices(p)
    /\ Goto(p, "success")
    /\ UNCHANGED <<durable, phase, lock, tracker, routes, world,
                   cancelled, cand, gen, prev, svc, target, entry>>

\* Fault: compensation always clears the managed routes.
EmptyPlan(p) == Empty

\* Compensation reconciles the previous services, or nothing for a fresh setup.
RestorePlan(p) == IF prev[p] # None THEN PlanOf(prev[p]) ELSE Empty

\* Services rebuilt from the store have no inventory and cannot be reconciled.
Restore(p) ==
    /\ pc[p] = "restore"
    /\ prev[p] # None \/ active = None
    /\ Touch(p, RestorePlan(p))
    /\ Goto(p, "restoring")
    /\ UNCHANGED <<durable, process, world, cancelled, cand, gen, prev, svc, entry>>

RestoreDone(p) ==
    /\ pc[p] = "restoring"
    /\ Applied(p)
    /\ Goto(p, "failed")
    /\ UNCHANGED <<durable, process, world, cancelled, cand, gen, prev, svc, target, entry>>

RestoreFails(p) ==
    /\ pc[p] \in {"restore", "restoring"}
    /\ Goto(p, "failed")
    /\ UNCHANGED <<durable, process, routes, world, cancelled, cand, gen, prev, svc, target, entry>>

-----------------------------------------------------------------------------
\* Completion: the tracker, then the lock, then the caller.

\* Fault: the in-progress flag is not cleared.
StillInProgress(outcome) == [inProgress |-> tracker.inProgress, outcome |-> outcome]

Completed(outcome) == [inProgress |-> FALSE, outcome |-> outcome]

\* Fault: an unconfigured refresh counts as a success.
AlwaysSuccess(p) == "success"

OutcomeOf(p) == IF pc[p] = "success" THEN "success" ELSE "not_configured"

Succeed(p) ==
    /\ pc[p] \in {"success", "unconfigured"}
    /\ IF StartingUp(p) /\ cancelled[p]
       THEN Stop
       ELSE /\ tracker' = Completed(OutcomeOf(p))
            /\ lock' = None
            /\ phase' = "serving"
            /\ Return(p)
            /\ UNCHANGED <<durable, published, routes, world>>

Fail(p) ==
    /\ pc[p] = "failed"
    /\ IF StartingUp(p)
       THEN Stop
       ELSE /\ tracker' = Completed("failure")
            /\ lock' = None
            /\ Return(p)
            /\ UNCHANGED <<durable, phase, published, routes, world>>

-----------------------------------------------------------------------------
\* Environment.

\* A client disconnects, or the process is asked to shut down.
Cancel(p) ==
    /\ phase # "down" /\ ~cancelled[p]
    /\ p = Scheduler \/ pc[p] # "idle"
    /\ cancelled' = [cancelled EXCEPT ![p] = TRUE]
    /\ UNCHANGED <<durable, process, routes, world, pc, cand, gen, prev, svc, target, entry>>

Crash == phase # "down" /\ Stop

WorldChanges ==
    /\ world' \in Inventories
    /\ UNCHANGED <<durable, process, routes, locals>>

PoliciesChange ==
    /\ phase = "serving"
    /\ policies' \in Policies
    /\ UNCHANGED <<active, pending, process, routes, world, locals>>

BackendLosesRoutes ==
    /\ BackendVolatile
    /\ routes' = Empty
    /\ UNCHANGED <<durable, process, world, locals>>

\* After a shutdown request runLifecycle returns and the process ends.
Exit == phase = "serving" /\ cancelled[Scheduler] /\ Stop

Step(p) ==
    \/ Validate(p) \/ ValidateFails(p) \/ Acquire(p) \/ AcquireCancelled(p)
    \/ Build(p) \/ LoadDomain(p) \/ Stage(p) \/ StageFails(p) \/ Prepare(p)
    \/ Discover(p) \/ Sync(p) \/ SyncDone(p) \/ StepFails(p)
    \/ Persist(p) \/ PersistFails(p) \/ Publish(p)
    \/ Restore(p) \/ RestoreDone(p) \/ RestoreFails(p)
    \/ Succeed(p) \/ Fail(p)

Environment ==
    \/ \E p \in Proc : Cancel(p)
    \/ Crash \/ WorldChanges \/ PoliciesChange \/ BackendLosesRoutes

Next ==
    \/ Boot \/ Exit
    \/ \E p \in Proc : StartRefresh(p) \/ StartActivation(p) \/ Step(p)
    \/ Environment

Spec == Init /\ [][Next]_vars

\* The container restarts the process, every call under the lock has a timeout,
\* the ticker ticks, and a Go channel serves blocked senders in order.
Fairness ==
    /\ WF_vars(Boot) /\ WF_vars(Exit) /\ WF_vars(StartRefresh(Scheduler))
    /\ \A p \in Proc : WF_vars(Step(p)) /\ SF_vars(Acquire(p))

FairSpec == Spec /\ Fairness

-----------------------------------------------------------------------------
\* Properties.

\* readinessFor: the answer of GET /ready.
Ready == active # None /\ tracker.outcome = "success"

\* While a serving process holds no refresh or activation in flight, the
\* services readers get from the manager are built from exactly the durable
\* settings, and there are none as long as setup is incomplete.
PublishedIsDurable ==
    phase = "serving" /\ lock = None =>
        IF active = None THEN published = None
        ELSE published # None /\ published.settings = active

\* ADR-0007: a candidate activation, cancellation or promotion failure leaves
\* the active settings and the published services as activateLocked found them.
FailureChangesNothing ==
    \A p \in Activations :
        pc[p] \in {"restore", "restoring", "failed"} => entry[p] = <<active, published>>

\* The routes planned by p are those of the durable settings, with the published inventory.
AimsAtDurable(p) ==
    IF active = None THEN target[p] = Empty
    ELSE /\ target[p] \in Plan /\ published # None
         /\ target[p].settings = active /\ target[p].inv = published.inv

\* Compensation in activateLocked aims the backend at the settings that are
\* still durable, with the inventory still published (nothing before setup).
RestoreAimsAtDurable == \A p \in Activations : pc[p] = "restoring" => AimsAtDurable(p)

\* Refresh reads the settings in several queries and synchronizes and
\* publishes later; all along they are the durable settings, whole.
RefreshUsesDurable ==
    \A p \in Proc \ Activations :
        /\ pc[p] = "inventory" => cand[p] = active
        /\ pc[p] \in {"sync", "syncing", "publish", "success"} =>
             svc[p] # None /\ svc[p].settings = active

\* GET /ready answers ready only when services are published, although it reads
\* the setup flag and the tracker separately and setup completes in the store
\* before the services are published and the tracker is updated.
ReadyMeansPublished == phase = "serving" /\ Ready => published # None

\* The tracker never shows a reconciliation in progress when none is.
NoStuckProgress == lock = None => ~tracker.inProgress

\* Setup promotes a configuration once: a configuration that is active is
\* only ever replaced by the candidate of a settings update.
SetupHappensOnce ==
    [][active # None /\ active' # active =>
        \E u \in UpdateRequests : pc[u] = "persist" /\ active' = cand[u]]_vars

\* Settings become durable only when the backend serves all the routes planned
\* for these very settings (unless it lost routes by itself).
DurableWasReconciled ==
    [][active' # active =>
        \E p \in Activations :
            /\ lock = p /\ target[p] \in Plan /\ target[p].settings = active'
            /\ BackendVolatile \/ routes = target[p]]_vars

\* Published services are the last known good: a process that has published
\* services goes on publishing some until it ends, whatever fails.
NeverWithdrawn == [][published # None /\ published' = None => phase' = "down"]_vars

\* The settings of the services that a serving process answers from.
Served == IF phase = "serving" /\ published # None THEN published.settings ELSE None

Lag == \E p \in Activations : pc[p] = "publish"

Setup == INSTANCE SetupLifecycle WITH
    settings <- active, staged <- IF pending = None THEN None ELSE pending.value,
    up <- phase = "serving", services <- Served, lag <- Lag

\* Stores, lock, goroutines, failures and restarts together implement the setup
\* lifecycle of ADR-0007: settings are promoted once and then only updated,
\* readers are served from the durable settings, and never from none again.
FollowsSetupLifecycle == Setup!Spec

\* Whatever happens around it, a request that calls Refresh, Activate or
\* ActivateSetup is answered: the lock is always handed on.
RequestsReturn == \A p \in Requests : pc[p] = "acquire" ~> pc[p] = "idle"

\* What a repeated reconciliation establishes.
Converged ==
    /\ phase = "serving"
    /\ active # None =>
         /\ published = [settings |-> active, inv |-> world]
         /\ routes = PlanOf(published)

\* New requests, changes around the process, and calls that fail.
Disturbance ==
    \/ Environment
    \/ \E p \in Proc : StartActivation(p) \/ ValidateFails(p) \/ StageFails(p)
                       \/ StepFails(p) \/ PersistFails(p) \/ RestoreFails(p)

\* ARCHITECTURE.md: repeated synchronization converges.  Once disturbances
\* cease, whatever crashes, partial applications, failed compensations and
\* backend restarts came before, the durable settings, the published services
\* and the backend routes agree, and go on agreeing.
Convergence == <>[][~Disturbance]_vars => <>[]Converged

\* Settings, services and routes agree, no activation holds the lock, and what a
\* refresh in flight holds agrees with them too.
Settled ==
    /\ Converged /\ active # None
    /\ \A p \in Activations : pc[p] \in PreLock
    /\ \A p \in Proc \ Activations :
         /\ pc[p] \in {"sync", "syncing", "publish"} => svc[p] = published
         /\ pc[p] = "syncing" => target[p] = routes

\* Refreshes are invisible to a settled system: however they interleave, fail or
\* are cancelled, and however many activations are tried and wait, the backend
\* serves all its routes at every moment and the published services stay, until
\* an activation takes the lock, Pelican, the policies or the backend change, or
\* the process ends.
StaysSettled ==
    [][/\ Settled /\ UNCHANGED <<world, policies>> /\ phase' = "serving"
       /\ ~BackendLosesRoutes /\ ~\E p \in Activations : Acquire(p)
       => Settled' /\ UNCHANGED <<active, published, routes>>]_vars

-----------------------------------------------------------------------------
\* The inductive invariant behind the safety properties.

Consistent(settings, services) ==
    IF settings = None THEN services = None
    ELSE services # None /\ services.settings = settings

LockInv == \A p \in Proc : pc[p] \in Locked <=> lock = p

\* Only the startup refresh runs before the process serves.
PhaseInv ==
    /\ phase # "serving" => \A p \in Requests : pc[p] = "idle"
    /\ phase = "down" => lock = None /\ pc[Scheduler] = "idle"
    /\ phase # "serving" => tracker.outcome = "none"
    /\ phase # "serving" /\ pc[Scheduler] # "success" => published = None

ConsistentInv ==
    phase = "serving" /\ (\A p \in Activations : pc[p] # "publish")
        => Consistent(active, published)

TrackerInv ==
    /\ (\A p \in Proc : pc[p] \notin Locked \ {"build", "stage", "prepare"}) => ~tracker.inProgress
    /\ tracker.outcome = "success" => published # None

\* The rest is about one goroutine: what it holds agrees with the shared state.

KindInv(p) ==
    /\ pc[p] \in {"build", "loadDomain", "unconfigured"} => p \notin Activations
    /\ pc[p] \in Activating \cup {"validate"} => p \in Activations
    /\ pc[p] = "stage" => p \in SetupRequests

CandInv(p) ==
    /\ p \in Activations /\ pc[p] # "idle" => cand[p] # None
    /\ p \notin Activations /\ pc[p] \in {"loadDomain", "inventory", "sync", "syncing"}
         => active # None /\ cand[p] = active
    /\ pc[p] \in {"publish", "success"} => active # None /\ cand[p] = active
    /\ pc[p] = "unconfigured" => active = None /\ published = None

SvcInv(p) ==
    /\ pc[p] \in {"sync", "syncing", "persist", "publish", "success"}
         => svc[p] # None /\ svc[p].settings = cand[p]
    /\ pc[p] = "success" => published = svc[p]

TargetInv(p) ==
    /\ pc[p] \in {"syncing", "persist"} =>
         /\ target[p] \in Plan /\ target[p].settings = cand[p]
         /\ \/ BackendVolatile
            \/ routes = target[p]
            \/ routes = Mixed /\ pc[p] = "syncing"
    /\ pc[p] = "restoring" => AimsAtDurable(p)

StageInv(p) ==
    p \in SetupRequests /\ pc[p] \in {"prepare", "inventory", "sync", "syncing", "persist"} =>
        active = None /\ pending = [gen |-> gen[p], value |-> cand[p]]

\* Nothing has changed since the lock was taken, up to the end of Persist.
EntryInv(p) ==
    p \in Activations =>
        /\ pc[p] \in Locked \ {"publish", "success"} => entry[p] = <<active, published>>
        /\ pc[p] \in {"inventory", "sync", "syncing", "persist", "restore", "restoring"}
             => prev[p] = published

LocalInv(p) == KindInv(p) /\ CandInv(p) /\ SvcInv(p) /\ TargetInv(p) /\ StageInv(p) /\ EntryInv(p)

IInv ==
    /\ TypeOK /\ LockInv /\ PhaseInv /\ ConsistentInv /\ TrackerInv
    /\ \A p \in Proc : LocalInv(p)

=============================================================================
