# Formal models of pelican-mc-router

TLA+ models of the route control plane under `src/backend`, TLC runs on small
instances, and TLAPS proofs for all values of the constants. Each module is
translated from the source; `PROJECT.json` maps every definition to its lines.

## The system

pelican-mc-router reads the servers of a Pelican panel, plans one hostname (and
optional aliases) for each Minecraft server, and makes a router backend serve
these routes. Its parts, and who models them:

| Part | Source (`src/backend/internal`) | Module |
|---|---|---|
| Serialized refresh and activation of settings, compensation, published services, reconciliation status | `runtime` | `Activation` |
| Setup and settings updates, stored settings | `setup`, `settings` | `Activation` |
| What an operator may rely on about the settings (ADR-0007) | | `SetupLifecycle` (abstract) |
| What a `RouteController` promises | `router/synchronizer.go` | `RouteTable` (abstract) |
| mc-router adapter (REST) | `router/mcrouter` | `McRouterController` |
| Infrared adapter (files and reload marker) | `router/infrared` | `Infrared` |
| Route policies with optimistic concurrency | `routepolicy` | `RoutePolicyStore` |
| Planner and hostname normalisation | `router/planner.go`, `router/router.go` | `Planner` |
| Handlers that change something, action limiter, audit records | `http`, `actioncontrol`, `actionhistory` | `ManagementApi` |
| Discovery, pagination, inventory snapshot | `discovery`, `pelican`, `runtime/inventory.go` | `Discovery` |
| Attempts of an HTTP request | `retry` | `Retry` |
| Process lifecycle, shutdown, ticker | `app/lifecycle.go`, `scheduler` | `Lifecycle` |
| Database and migrations | `storage/sqlite` | `Migrations` |
| Operational history | `operationalhistory` | `EventLog` |
| `app.Run` over many lives of the process | `app/app.go`, `cmd/server` | `Application` |

They interact like this. The scheduler and the HTTP handlers are goroutines that
contend for `RefreshTask.refreshLock`. The owner discovers the servers
(`Discovery`), plans routes under the policies of the moment (`Planner`,
`RoutePolicyStore`), and synchronizes them with one adapter
(`McRouterController` or `Infrared`). Then it makes the settings durable and
publishes the services. `Application` surrounds all of it. `Activation` abstracts
discovery to an inventory value and a synchronization to its outcome (untouched,
partly applied, applied), which is what the other modules describe in detail.

Modules are composed in two ways. By `EXTENDS`, where they run in one process and
share steps: `Application` is `Lifecycle`, `Migrations` and `EventLog`,
`ManagementApi` is `RoutePolicyStore` with the handlers around it, `Discovery`
makes its requests with `Retry`. By refinement, where one promises what another
does: `Activation` implements `SetupLifecycle`, and both adapters implement
`RouteTable`; the mappings are the `INSTANCE ... WITH` in the detailed modules.

## Modules

**Activation.** One variable for each shared object: the settings rows
(`active`), the `pending_setup` row, the lock, `Manager` (`published`),
`ReconciliationTracker`, the backend's routes, the policies and what Pelican would
answer. Each goroutine has a `pc` and the locals of its function (`cand` is the
candidate or the loaded settings, `prev` the services found under the lock, `svc`
the new ones, `target` the planned routes). An action is the code between two
accesses of shared state: `Acquire`, `Stage`, `Prepare`, `Discover`, `Sync`,
`SyncDone`, `Persist`, `Publish`, `Restore` ... Every call may fail, a context may
end, and the process may crash and boot again at each of them. `Load` reads the
settings in more than one query and is modelled by two. `entry` is a history
variable: what was durable and published when the lock was taken.

**McRouterController.** One pass of `ReconcileWithResult`: validation of the
plan, the list, the creations in hostname order, the removals, the counters.
Hostnames are numbers in their sort order. A call may fail before or after
mc-router executed it, or be executed later (`LateCall`); other operators write
routes, and a restart of mc-router loses them all. `quiet` records that nobody
else has changed the routes since the list was read.

**Infrared.** One pass over the proxy files of the planned servers: render,
compare, replace, read the directory, remove, reload. `reloadPending` is the
field of `ReloadingController`; `loaded` is what Infrared read at its last
reload; `forgotten` records that a pass failed after a change, the process
stopped before the reload, or another program changed a file. The rename of
`writeFileAtomic` is atomic.

**RoutePolicyStore.** One server's policy row and its alias rows; clients read
in two queries, create, update and delete. `life` counts how often the policy
was created. Reads in two queries with any interleaving cover `Get` and `List`.
A failing COMMIT is taken as not committed.

**ManagementApi.** Every handler that writes, as the steps between which other
requests run: reject, commit, read back, record. `allowAction` reads the clock in
one step and `Allow` takes the mutex in another. Time is Go's monotonic reading.
The bootstrap check may come before a limited action and has its own record.
`written` is the policy that a request has committed, while it is read back.
`audit` is the newest record only; a record may be lost. What the setup and
settings handlers (`Perform`) and the manual reconciliation (`Reconcile`) call is
`Activation`; here it succeeds or fails. A success says that the call returned no
error and no more: a reconciliation succeeds also when nothing is configured or
everything is in place, and a request that the dashboard dismisses leaves no record.
So no property is stated about the records.

**SetupLifecycle.** Abstract: stage, promote once, update, publish, start, stop.
`Activation` maps its durable rows to `settings` and `staged`, `Manager` to
`services` while the process serves, and the moment between the durable write and
the publication to `lag`.

**RouteTable.** Abstract: a table whose entries a call moves to their planned
values, additions first, and which equals the plan (on the keys it owns) when the
call succeeds undisturbed. The table is the routes of mc-router or the files of
Infrared. A hostname outside the managed domain is a key that is put and never
cleared.

**Planner.** The two loops of `Plan` turn by turn: a server is skipped (`Skip`) or
refused (`Refuse`), or its hostnames get their routes one after the other
(`AppendRoute`), and the first that does not refuses everything. Nothing comes in
between, since `Plan` works on what it was given. The normalisation is a recursive
function on sequences of character classes (upper and lower case letters, digits,
separators). Both are compared with definitions that do not follow the loops of
the code (`Acceptable`, `Wanted`, `Letters`). There is one domain, and the label
limit is a constant.

**Lifecycle.** The main goroutine in its `select` and in the shutdown functions,
`ListenAndServe`, the ticker loop, requests in flight, and one deadline.

**Migrations.** A release is the sequence of its migration files; a version is a
position in it. `Migrate` is a step for each statement or transaction; each may
fail, and the process may be killed after each. The database may be new, or left by
a legacy release without checksums, by an older or newer release, or by one whose
files were edited. `schema` is what was really executed, `legacy` how much of it a
legacy release executed: its checksums are recorded on trust.

**EventLog.** One table with `AUTOINCREMENT` identifiers and wall-clock times.
`ever` is a history variable: all the events that were committed.

**Application.** `app.Run`: open and migrate, wire, first refresh, prepare the
server, `runLifecycle`, exit; then the supervisor starts a release again. A
signal, a failure or a kill may come at each point. A refresh that ends appends to
the history unless its context is done or the write fails.

**Retry.** `retry.Do` for one request after another under one context: attempts,
transient errors, the last attempt, the end of the context. Delays are finite
and have no length here.

**Discovery.** One walk of `Discover`: the pages of the server list, the eggs,
the allocations node by node. Pelican creates, deletes and moves servers
and changes free allocations between the requests. Pelican is external: it lists
servers by ID, gives new servers higher IDs, and no allocation to two servers. Each
request has the attempts of `Retry`; an answer may be good, a refusal, or a
transient error. `ResolveBackendHost` refuses an empty address, and an unspecified
one unless there is a fallback that is neither empty nor unspecified; addresses are
values of these kinds. `began`, `stable` and `held` are history variables: the servers
when the walk began, those that have not changed since, and every server with every
allocation it has had since. The allocations of one node, and the eggs, are one
request here. A list of allocations torn between pages can only make the walk fail.
The eggs and their tags are assumed not to change: `Discover` passes over a server
whose egg is missing from the list (`service.go` lines 98-101), so that a list of eggs
torn between pages would drop its servers without an error.

Each `MC*` module gives the constants of its runs. Operators commented as a
*Fault* are variants of the definition that follows them, with a plausible bug;
no specification uses them. They show that a property depends on that
definition: with the variant in its place TLC finds the property violated.

## Runs

| Run | What it shows | Instance |
|---|---|---|
| `activation_safety` | Published services are built from durable settings; a failed activation changes nothing; compensation aims at what is durable; settings become durable only after their routes were applied; readiness and the progress flag are honest; the whole implements `SetupLifecycle`: setup happens once, and services are never withdrawn | 2 setups, 1 update, scheduler, 3 generations, 2 inventories |
| `activation_liveness` | Every request returns; after disturbances cease, settings, services and backend agree | 1 setup, 1 update, scheduler, 2 policy tables, backend that loses its routes |
| `mcrouter_reconcile` | Success means exactly the planned managed routes; counters match what changed; no removal before all planned routes exist; convergence; implements `RouteTable` | 3 hostnames, 2 managed, 2 backends, 1 late call |
| `mcrouter_outside` | *violated*: foreign routes are never overwritten | same, no late call |
| `infrared_reconcile` | Success means exactly the planned files; an owed reload is kept unless it was forgotten; obsolete files go last; convergence; implements `RouteTable` | 2 servers, 2 contents |
| `infrared_reload` | *violated*: a successful pass leaves Infrared with the current files | same, no other writer |
| `policy_store` | Through the handlers: no lost update within a policy's life; no orphan aliases; the answer to a write is the policy it asked for as long as the write stands, and never an older row; admitted actions are an interval apart | 2 clients, 3 revisions, 2 lives, 1 limited class, clock 0..2 |
| `policy_stale` | *violated*: no lost update at all | 2 clients, store only |
| `planner_plan` | A plan is complete and free of collisions, or refused; default labels are clean, and stay as they are when normalised again | 2 servers, labels up to 3 characters |
| `planner_adapters` | *violated*: what the planner passes, Infrared accepts | same |
| `lifecycle_shutdown` | A nil return leaves nothing running; an error has a cause; status 0 means asked to stop; an open database has the schema of its release; the history holds the newest events; a process that is asked to stop ends; interrupted starts do not prevent the next one, and failed tasks do not end the ticker | 3 releases of 2 or 3 migrations, one edited; 1 legacy release; 2 requests in flight; 3 events, 2 kept |
| `discovery_walk` | Exact result when Pelican is quiet; servers that stay are found once unless one is deleted; whatever changes, no server is found twice or where it never was; transient errors are tolerated up to the attempts of each request; the walk ends | 3 servers on pages of 1, 4 allocations on 2 nodes, one with an empty and one with an unspecified address, 2 changes, 2 attempts |

### Bounds

* Two setups are needed for the race on the setup flag, a third generation for
  the retry of a setup. The lock makes a larger number of requests equivalent,
  and the theorems cover any number. `ManualRefreshes` is empty in the runs: the
  dashboard's action runs `Refresh` exactly as the scheduler does, and the
  theorems hold for any set of them.
* `MaxLate` bounds the calls that are executed late; one is enough to disturb a
  later pass. Three hostnames are a managed one to keep, one to remove and a
  foreign one.
* `MaxRevision` and `MaxLives` stop the clients' counters. Two lives are the
  smallest number in which a revision comes back; three revisions let a write be
  overtaken by an update, also when it is an update itself. Two clients are a reader and
  a writer that interferes; the theorems cover any number.
* `MaxTime` is one interval past the start: the smallest clock on which two
  requests can be admitted one after the other, with a third reading between.
* `MaxLabel` stands for 63, so that a name can be one character too long.
* `MaxInflight` bounds the requests in flight. The three releases are one, its
  successor, and one with an edited migration: upgrade, downgrade and mismatch
  all happen, and the theorems cover any set of releases. `MaxEvents` is one more than `Retention`, so that pruning
  happens, at two readings of the clock in any order. Lives are not bounded.
* `MaxChanges` bounds how often Pelican changes. The run starts from every
  table of servers, and two changes are enough to shrink the list and let it grow
  again within a walk, or to move a server and give its allocation to another one.
  The fallback of the run is unspecified itself, so that both kinds of refusal
  happen; the theorems cover every fallback.

### Fairness

* `Activation`: weak fairness of every step of a goroutine (each network call
  has a timeout and the compensation its own), of the ticker, of the exit after
  a shutdown request and of a restart by the supervisor; strong fairness of
  taking the lock (Go hands a channel on to waiting goroutines in turn). Failures
  and crashes are not fair.
* `McRouterController`, `Infrared`: the scheduler repeats the pass, and a pass
  goes on; in `McRouterController` a call that timed out at the client takes
  effect or is lost at some time.
* `Application`: the supervisor restarts the process, the calls made while it
  starts have timeouts, and the main goroutine, the ticker and the deadline make
  progress. Requests and tasks need not: they may hang.
* `Discovery`: every attempt comes to some end, since the HTTP client has a
  timeout; none has to succeed.

## Disagreements between code and documents

1. *Foreign routes.* ADR-0008 lines 61-62: routes outside the managed boundary
   "are read-only and are never deleted or overwritten". The create loop of the
   mc-router controller does not ask `owns` (`mcrouter_outside`).
2. *Reload marker.* `ARCHITECTURE.md` line 207: the Infrared adapter "updates a
   reload marker after configuration changes". A pass that fails after a change,
   or a crash, loses the reload, and the next pass sees no change
   (`infrared_reload`).
3. *Duplicates.* ADR-0008 lines 84-86: the planner is "the single
   collision-validation point for all adapters". The Infrared controller refuses
   a server with an alias as a duplicate (`planner_adapters`).
4. *Revisions.* ADR-0008 lines 76-77: "a monotonically increasing revision" and
   a stale write "fails with a conflict". A deleted and recreated policy starts
   at 1 again (`policy_stale`).

Smaller ones without a run: the comment of `scheduler/interface.go` line 13 says
that `Run` ends when the task returns an error, and `Ticker.Run` goes on; a port
above 65535 passes the planner and not the adapters; a hostname outside the
managed domain, once created, is never removed; ADR-0007 lines 88-89 name bootstrap
among the actions with a rate limit, and `bootstrapOnly` does not ask the limiter
(the setup handler behind it does).

## Proofs

| Module | Proved, for every value of the constants |
|---|---|
| `ActivationProofs`, on `ActivationSteps` | `IInv`, `TypeOK`, `PublishedIsDurable`, `FailureChangesNothing`, `RestoreAimsAtDurable`, `RefreshUsesDurable`, `ReadyMeansPublished`, `NoStuckProgress`, `SetupHappensOnce`, `DurableWasReconciled`, `NeverWithdrawn`, `StaysSettled`; `FollowsSetupLifecycle`: `Activation` implements `SetupLifecycle` |
| `McRouterProofs` | `IInv`, `TypeOK`, `ExactOnSuccess`, `CountersAreExact`, `MakeBeforeBreak`, `SuccessSettles`, `StaysSettled`, `KeepsPromise` |
| `InfraredProofs` | `IInv`, `TypeOK`, `ExactOnSuccess`, `ReloadUnlessForgotten`, `ObsoleteGoLast`, `StaysSettled`, `KeepsPromise` |
| `RoutePolicyProofs` | of the store: `IInv`, `TypeOK`, `NoLostUpdate`, `NoOrphans`; that the handlers use the store so (`ApiSpec => Spec`); of the handlers: `ApiInv`, `AdmittedAreSpaced`, `AnswerIsCurrent` |
| `PlannerProofs` | `IInv`, `TypeOK`, `AllOrNothing`, `DefaultsAreClean`, `AcceptedWithoutAliases`; that the order of the inventory does not matter (`OrderDoesNotMatter`) |
| `DiscoveryProofs` | `IInv`, `TypeOK`, `ExactWhenQuiet`, `StableServersAreFound`, `FoundWasThere`, `TransientIsTolerated`, `WalkAdvances` |
| `ApplicationProofs` | of `runLifecycle`: `IInv`, `TypeOK`, `CleanExit`, `ErrorHasReason`; of the whole: `MigrationInv`, `OlderReleaseWritesNothing`, `OpenHasOwnSchema`, `AppInv`, `NilMeansAsked`, `CleanExit`, `ErrorHasReason`, `KeepsTheNewest` |

The only assumptions are those on the constants, named in the module that
declares them: goroutine names are distinct, the sentinel values are not data,
plans are sequences of routes, releases are sequences of migrations whose
positions are versions, intervals, retention and bounds are natural numbers. The
hostnames of the backend and the server IDs of Pelican are finite sets, of any size:
what is counted there is listed in one answer.

*Activation.* `PublishedIsDurable` speaks of the moments in which the lock is
free, so an induction needs to know what its owner is doing. `IInv` says that
exactly the owner is in a locked section (`LockInv`) and that outside
`"publish"` settings and services agree (`ConsistentInv`). It also ties the
owner's locals to the shared state: `cand`, `svc` and `target` belong to the
same settings, the pending row is the owner's (`StageInv`), and nothing has
changed since the lock was taken (`EntryInv`). These facts are about one
goroutine each (`LocalInv(p)`) and say nothing of a goroutine without the lock
that depends on the shared state. So a step of the owner disturbs nobody
else's, and a step before the lock disturbs only its own: `OwnerStep`,
`BeforeLock` and `Around` in `ActivationSteps` state this once, and the lemma of
each action is left with the shared state and one goroutine. Every safety property
follows from `IInv` in a step, the action properties by looking at the one action
that writes the variable.

*McRouterController, Infrared.* `IInv` describes an undisturbed pass in the
middle: what has been handled equals the plan, what is still to do equals what
was read. For Infrared it adds who remembers a reload: `reloadPending`, the
local `changed`, or nobody and `forgotten` is true.

*Settled systems.* `Convergence` says that agreement is reached and kept. That it is
kept is a safety property, and proved: `Settled` adds to the agreement what a
reconciliation in flight and the calls that it left behind still hold, and
`StaysSettled` says that no step but the named disturbances leaves `Settled`. A
step of a settled system plans what is there, so it writes what is there. In
`Activation` the backend never shows `Mixed` for it, and published services never
change; a refresh that fails or is cancelled halfway makes no difference. For
mc-router, `SuccessSettles` adds that one undisturbed success is enough: `LateInv`
says that a pass which is still quiet when it succeeds leaves no call behind.

*Counters.* `CountInv` says that at each moment of a pass the counters are the
cardinalities of the planned hostnames that have been handled and were missing,
or had another backend, when the routes were listed, and of those removed. Each
call adds one element that is in none of the sets yet.

*Planner.* `PlanInv` says of the middle of `Plan` what `AllOrNothing` says of its
end, for the servers and hostnames that the loops have been through
(`HandledWanted`): a turn handles one more wanted hostname and no other, a collision
is one between two wanted hostnames, and when the servers are exhausted everything
wanted is handled. `OrderDoesNotMatter` is about two inventories, before and after a
permutation `p` of the servers: a route or a collision of one is carried by `p` to
the other (`Renamed`), so both are acceptable or neither, and they ask for the same
set of routes. With `AllOrNothing`, `Plan` answers both alike.

*Hostname labels.* `LabelIsClean` is about names of every length. A recursive
function is first shown to have the values that its equation says (`LoopExists`,
`BuildTurns`), then each turn is shown to keep the label free of leading and double
hyphens and to add exactly the letters and digits (`BuildIsClean`). The induction
takes the least turn at which a claim fails (`LeastNumber`, from the library's
well-foundedness of the natural numbers). On a clean label the loop only copies
(`BuildOfClean`), so a second normalisation changes nothing (`CleanIsKept`), and of
the tests of `isValidHostname` only the one for the length can fail
(`CleanIsValid`).

*Discovery.* As long as nothing is deleted, a server keeps its place in Pelican's
list, because new ones have higher IDs: so the items gathered are the beginning of
the list of the moment (`ItemsInv`), and the last page completes it, although
the list that the first page came from is gone. `Place` counts the listed IDs up to a
given one; adding a higher ID does not change it. With deletions places only go down,
and that is enough for `FoundWasThere`: what has been listed keeps a place on the
pages so far, so a later page brings higher IDs only (`OrderInv`). Two servers that
have not changed had different allocations when the walk began (`AloneInv`). `RetryInv` ties the attempt to
the failures of this request alone, which is why many requests may each fail.
`WalkAdvances` is why a walk ends: each step goes to the next kind of request, to
another page while the pages so far do not hold all servers there can be, to another
node, or to another attempt while there may be one, and Pelican cannot set it back.

*RoutePolicyStore.* A view with the revision of the row, in the same life, has
the content of the row; a view between its two queries has the main part only.
This is why a torn read does no harm: its revision is already old.

*ManagementApi.* The limiter: every admitted reading is an interval before
`next`, so that a reading that has reached `next` is far enough from all of
them, in whatever order requests took the mutex. Answers: the row of the policy
only moves on, to a higher revision or a later life, so what is read back after
the commit cannot be older than the write; and as long as its revision stands,
row and aliases are what the write has left, since every other write moves on
(`LimiterInv`, `AnswerInv`).

*Lifecycle.* What the main goroutine has waited for at each point, as long as
there is no error to return.

*Migrations.* Recorded rows and executed migrations agree on everything that no
legacy release did (`RowInv`), and the versions behind the loop are verified
(`LoopInv`). This survives a stop at any point because a migration and its row are
one transaction.

*Application.* `AppInv` adds to `IInv` of `Lifecycle` that its `select` is left
for the stop or the worker only when the context is done (`AskedInv`); a new
process begins in a state that satisfies it. Steps outside `runLifecycle` leave
its variables alone.

*EventLog.* `log = Newest(ever)`, for every retention. An event that has been
pruned had as many newer ones as are kept; these are still there, or have been
pruned by newer ones in turn, so looking only at the table and the new event
gives the same as looking at all events ever (`PruneIsExact`). The argument takes
the newest of the pruned events that are newer than a given one; it does not need
a clock that goes forward.

*Refinements.* Every step of the detailed module is a step of the abstract one
or leaves its variables alone. The inductive invariant gives the guards of the
abstract steps: for `SetupLifecycle` that no second change comes before the
publication of the first, and that the settings of the published services are the
durable ones; for `RouteTable` that the calls still to be made are moves to planned
values and that all of these are made before anything is cleared.

### Only model-checked

* Liveness (`RequestsReturn`, the three `Convergence`, `EndsWhenAsked`,
  `StartsAgain`, `WalkEnds`): fairness is out of the prover's reach. The safety
  halves of `Convergence` (`StaysSettled`) and `WalkEnds` (`WalkAdvances`) are proved;
  that the steps are taken at all is what TLC checks.
* The four disagreements above are counterexamples. Of the third the extent is
  proved: without aliases the planner and the Infrared adapter agree
  (`AcceptedWithoutAliases`).

## Not modelled

* *Handlers and pages that only read* (inventory, status, histories, metrics,
  the dashboard's page): they keep no state, and format what the modelled parts say.
* *Authorization* (OIDC, operator groups, the comparison of the bootstrap token)
  and *secret files*: library calls and file I/O without a state that changes. A
  request that is not authorized changes nothing and, apart from the bootstrap
  check, leaves no record. The dashboard's action is authorized after the
  limiter has admitted it (`Reconcile`).
* *Configuration*: read once before anything else; an error ends the process as
  an error of the database does.
* *Metrics*: counters that nothing reads back.
* *The recovery tool*: an offline program of four one-shot operations on database
  files.
* *Pages of eggs and allocations, lengths of delays, wording of errors, JSON and
  URLs*: no property depends on them.
* *The retry of mc-router's list call*: a failed attempt changes nothing, so it is
  one step there that succeeds or fails.
* *`Activation` inside `Application`*: both model the whole process, at
  different grain. What they share is narrow: `Activation` has the shutdown as a
  cancelled scheduler and an exit at any point, which covers every way in which
  `Application` ends, in the middle of a compensation too.

One hazard in `PROJECT.json` has no property because the code cannot notice it (a
server deleted between two pages), and one because nothing promises otherwise
(the record of a cancelled refresh is lost).
