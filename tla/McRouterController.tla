------------------------- MODULE McRouterController -------------------------
(***************************************************************************)
(* One reconciliation of the mc-router backend after another:              *)
(* router.Synchronizer, mcrouter.Controller.ReconcileWithResult and        *)
(* mcrouter.Client.                                                        *)
(*                                                                         *)
(* The caller holds the refresh lock and the controller its mutex, so at   *)
(* most one pass runs; what interleaves with it is the mc-router process,  *)
(* which other operators configure, which forgets its routes when it       *)
(* restarts, and which may execute a call after its caller gave up.        *)
(***************************************************************************)
EXTENDS Naturals, Sequences, FiniteSets

CONSTANTS
    Hostname,   \* normalized hostnames, as numbers in the order of sort.Strings
    Managed,    \* the hostnames in the managed domain
    Backend,    \* host:port addresses
    Invalid,    \* a hostname or backend that validation rejects
    Plans,      \* the route sequences the planner may produce
    MaxLate,    \* bound on abandoned calls the backend may still execute
    NoRoute

Route == [hostname : Hostname \cup {Invalid}, backend : Backend \cup {Invalid}]

\* A hostname has at most 253 characters, so there are finitely many.
ASSUME HostnameAssumption ==
    Hostname \subseteq Nat /\ IsFiniteSet(Hostname) /\ Managed \subseteq Hostname
ASSUME BackendAssumption == NoRoute \notin Backend /\ Invalid \notin Hostname \cup Backend
ASSUME PlansAssumption == Plans \subseteq Seq(Route)

RouteMap == [Hostname -> Backend \cup {NoRoute}]
Call == [hostname : Hostname, backend : Backend \cup {NoRoute}]  \* NoRoute: a DELETE

VARIABLES
    want,       \* what the planner produces now
    routes,     \* mc-router: the routes it serves
    late,       \* mc-router: abandoned calls it may still execute
    pc,         \* "idle", "validate", "list", "create" or "delete"
    desired,    \* desiredBackends
    current,    \* currentRoutes, the answer of ListRoutes
    todo,       \* hostnames the current loop has still to visit
    result,     \* router.ReconciliationResult
    outcome,    \* of the last pass: "none", "ok" or "error"
    quiet       \* has nobody else changed the routes since they were listed?

backendVars == <<routes, late>>
pass == <<pc, desired, current, todo, result, outcome>>
vars == <<want, routes, late, pc, desired, current, todo, result, outcome, quiet>>

Result == [created : Nat, updated : Nat, deleted : Nat, changed : BOOLEAN]
NoResult == [created |-> 0, updated |-> 0, deleted |-> 0, changed |-> FALSE]
NoRoutes == [h \in Hostname |-> NoRoute]

TypeOK ==
    /\ want \in Plans
    /\ routes \in RouteMap /\ desired \in RouteMap /\ current \in RouteMap
    /\ late \subseteq Call
    /\ pc \in {"idle", "validate", "list", "create", "delete"}
    /\ todo \subseteq Hostname
    /\ result \in Result
    /\ outcome \in {"none", "ok", "error"}
    /\ quiet \in BOOLEAN

Init ==
    /\ want \in Plans
    /\ routes \in RouteMap
    /\ late = {}
    /\ pc = "idle" /\ outcome = "none" /\ result = NoResult /\ quiet = FALSE
    /\ desired = NoRoutes /\ current = NoRoutes /\ todo = {}

-----------------------------------------------------------------------------
\* The pass.

WellFormed(route) == route.hostname # Invalid /\ route.backend # Invalid

\* Fault: the plan is taken as it comes.
AcceptedUnchecked(plan) == TRUE

\* Every route is well formed and no hostname occurs twice.
Accepted(plan) ==
    /\ \A i \in DOMAIN plan : WellFormed(plan[i])
    /\ \A i, j \in DOMAIN plan : plan[i].hostname = plan[j].hostname => i = j

DesiredBackends(plan) ==
    [h \in Hostname |->
        IF \E i \in DOMAIN plan : plan[i].hostname = h
        THEN plan[CHOOSE i \in DOMAIN plan : plan[i].hostname = h].backend
        ELSE NoRoute]

\* Fault: the managed domain is not considered.
OwnsAll(h) == TRUE

Owns(h) == h \in Managed

\* Fault: a route that exists is left as it is.
MissingAbsent(listed) == {h \in Hostname : desired[h] # NoRoute /\ listed[h] = NoRoute}

Missing(listed) == {h \in Hostname : desired[h] # NoRoute /\ listed[h] # desired[h]}

\* Fault: hostnames that the creation loop updated count as stale.
StaleIfChanged == {h \in Hostname : current[h] # NoRoute /\ Owns(h) /\ current[h] # desired[h]}

Stale == {h \in Hostname : current[h] # NoRoute /\ Owns(h) /\ desired[h] = NoRoute}

\* The loops visit hostnames in sorted order.
Least(h) == h \in todo /\ \A g \in todo : h <= g

\* The call returns; desired and current are kept for the properties.
Finish(o) == pc' = "idle" /\ outcome' = o /\ todo' = {}

\* SyncWithResult obtains the plan.
Synchronize ==
    /\ pc = "idle"
    /\ pc' = "validate" /\ outcome' = "none" /\ result' = NoResult /\ quiet' = FALSE
    /\ UNCHANGED <<want, backendVars, desired, current, todo>>

\* The complete desired state is validated before any call.
Prepare ==
    /\ pc = "validate" /\ Accepted(want)
    /\ desired' = DesiredBackends(want)
    /\ pc' = "list"
    /\ UNCHANGED <<want, backendVars, current, todo, result, outcome, quiet>>

ListRoutes ==
    /\ pc = "list"
    /\ current' = routes
    /\ todo' = Missing(routes)
    /\ quiet' = (late = {})
    /\ pc' = "create"
    /\ UNCHANGED <<want, backendVars, desired, result, outcome>>

\* A create is also an update.
Put(h, b) == routes' = [routes EXCEPT ![h] = b]

Count(c, u, d) ==
    [created |-> result.created + c, updated |-> result.updated + u,
     deleted |-> result.deleted + d, changed |-> TRUE]

\* Fault: an update counts as a creation.
CountCreateOnly(h) == Count(1, 0, 0)

CountCreate(h) == IF current[h] = NoRoute THEN Count(1, 0, 0) ELSE Count(0, 1, 0)

CreateRoute(h) ==
    /\ pc = "create" /\ Least(h)
    /\ Put(h, desired[h])
    /\ todo' = todo \ {h}
    /\ result' = CountCreate(h)
    /\ UNCHANGED <<want, late, pc, desired, current, outcome, quiet>>

CollectStale ==
    /\ pc = "create" /\ todo = {}
    /\ todo' = Stale
    /\ pc' = "delete"
    /\ UNCHANGED <<want, backendVars, desired, current, result, outcome, quiet>>

DeleteRoute(h) ==
    /\ pc = "delete" /\ Least(h)
    /\ Put(h, NoRoute)
    /\ todo' = todo \ {h}
    /\ result' = Count(0, 0, 1)
    /\ UNCHANGED <<want, late, pc, desired, current, outcome, quiet>>

Complete ==
    /\ pc = "delete" /\ todo = {}
    /\ Finish("ok")
    /\ UNCHANGED <<want, backendVars, desired, current, result, quiet>>

\* The context ends, the plan or the list cannot be had, the plan is rejected,
\* or the process stops between two calls.
PassFails ==
    /\ pc # "idle"
    /\ Finish("error")
    /\ UNCHANGED <<want, backendVars, desired, current, result, quiet>>

\* A call returns an error: not executed, executed with its answer lost, or
\* still on its way when the caller gives up.
CallFails(h) ==
    /\ pc \in {"create", "delete"} /\ Least(h)
    /\ LET b == IF pc = "create" THEN desired[h] ELSE NoRoute
       IN  \/ Put(h, b) /\ UNCHANGED late
           \/ /\ Cardinality(late) < MaxLate
              /\ late' = late \cup {[hostname |-> h, backend |-> b]}
              /\ UNCHANGED routes
    /\ Finish("error")
    /\ UNCHANGED <<want, desired, current, result, quiet>>

-----------------------------------------------------------------------------
\* Around the pass.

\* Discovery or the policies changed.
WantChanges ==
    /\ want' \in Plans
    /\ UNCHANGED <<backendVars, pass, quiet>>

\* The backend executes an abandoned call, or drops it.
LateCall ==
    /\ \E c \in late : late' = late \ {c} /\ (Put(c.hostname, c.backend) \/ UNCHANGED routes)
    /\ quiet' = FALSE
    /\ UNCHANGED <<want, pass>>

\* Another operator configures a route outside the managed domain.
ForeignWrite ==
    /\ \E h \in Hostname \ Managed, b \in Backend \cup {NoRoute} : Put(h, b)
    /\ quiet' = FALSE
    /\ UNCHANGED <<want, late, pass>>

\* mc-router keeps its routes on tmpfs.
BackendRestarts ==
    /\ routes' = NoRoutes /\ late' = {}
    /\ quiet' = FALSE
    /\ UNCHANGED <<want, pass>>

Work ==
    \/ Prepare \/ ListRoutes \/ CollectStale \/ Complete \/ PassFails
    \/ \E h \in Hostname : CreateRoute(h) \/ DeleteRoute(h) \/ CallFails(h)

Others == LateCall \/ ForeignWrite \/ BackendRestarts

Next == Synchronize \/ Work \/ WantChanges \/ Others

Spec == Init /\ [][Next]_vars

\* The scheduler starts pass after pass, every call has a timeout, and the
\* backend is done with an abandoned call some day.
FairSpec == Spec /\ WF_vars(Synchronize) /\ WF_vars(Work) /\ WF_vars(LateCall)

-----------------------------------------------------------------------------
\* Properties.

\* Every managed hostname has its desired route or none, and every desired
\* hostname, managed or not, has its route.
Serves(plan) ==
    \A h \in Hostname :
        h \in Managed \/ DesiredBackends(plan)[h] # NoRoute => routes[h] = DesiredBackends(plan)[h]

\* A pass of ReconcileWithResult that returns nil has left exactly the desired
\* routes in the managed domain and the listed routes elsewhere, unless somebody
\* else changed the backend after the list was read.
ExactOnSuccess ==
    outcome = "ok" /\ quiet =>
        \A h \in Hostname :
            routes[h] = IF h \in Managed \/ desired[h] # NoRoute THEN desired[h] ELSE current[h]

\* The counters of a successful pass account for the difference it made: it
\* reports a change exactly if it made one, so that a pass over a backend that
\* already serves the plan reports none.
CountersAreExact ==
    outcome = "ok" /\ quiet =>
        /\ result.created = Cardinality({h \in Hostname : current[h] = NoRoute /\ routes[h] # NoRoute})
        /\ result.updated = Cardinality({h \in Hostname : NoRoute \notin {current[h], routes[h]}
                                                          /\ routes[h] # current[h]})
        /\ result.deleted = Cardinality({h \in Hostname : current[h] # NoRoute /\ routes[h] = NoRoute})
        /\ result.changed <=> routes # current

\* Make before break: the controller removes a route only in the managed domain
\* and only when it is not desired, and by then every desired route has been put
\* in place.  This includes calls whose answer is lost.
MakeBeforeBreak ==
    [][\A h \in Hostname :
        routes[h] # NoRoute /\ routes'[h] = NoRoute /\ ~Others =>
            /\ h \in Managed /\ desired[h] = NoRoute
            /\ quiet => \A g \in Hostname : desired[g] # NoRoute => routes[g] = desired[g]]_vars

\* ADR-0008: routes outside the managed domain are never deleted or overwritten.
OutsideIsReadOnly ==
    [][\A h \in Hostname \ Managed : routes'[h] # routes[h] => Others]_vars

Disturbance ==
    \/ WantChanges \/ ForeignWrite \/ BackendRestarts \/ PassFails
    \/ \E h \in Hostname : CallFails(h)

\* Repeated synchronization converges: when plans are accepted and disturbances
\* cease, the backend comes to serve the plan and goes on serving it, whatever
\* partial passes and abandoned calls came before.
Convergence == <>[][~Disturbance /\ Accepted(want)]_vars => <>[]Serves(want)

\* The backend serves the plan, and what the pass and the abandoned calls may
\* still do agrees with it.
Settled ==
    /\ Serves(want)
    /\ pc \in {"list", "create", "delete"} => desired = DesiredBackends(want)
    /\ \A c \in late : c.backend = DesiredBackends(want)[c.hostname]

\* An undisturbed pass that returns nil settles the backend, if the plan is still
\* the one it has applied.
SuccessSettles == outcome = "ok" /\ quiet /\ desired = DesiredBackends(want) => Settled

\* And no later pass unsettles it, whether it succeeds, fails halfway or leaves
\* calls behind that are executed at any time: only another plan, a restart of
\* the backend or another operator can.
StaysSettled == [][Settled /\ want' = want /\ ~ForeignWrite /\ ~BackendRestarts => Settled']_vars

\* The abstract call begins when the plan has passed the validation.
Promise == INSTANCE RouteTable WITH
    Key <- Hostname, Value <- Backend, Owned <- Managed, Absent <- NoRoute,
    table <- routes, busy <- pc \in {"list", "create", "delete"}, plan <- desired, result <- outcome

\* The controller keeps the promise of a RouteController: entries go straight to
\* their planned values, additions before removals, and a nil error means that
\* the plan is applied.
KeepsPromise == Promise!Spec

-----------------------------------------------------------------------------
\* The inductive invariant behind ExactOnSuccess and MakeBeforeBreak: what a
\* pass that nobody disturbs has done after each call.

CreateInv ==
    pc = "create" =>
        /\ todo \subseteq Missing(current)
        /\ quiet => \A h \in Hostname :
             routes[h] = IF h \in todo \/ desired[h] = NoRoute THEN current[h] ELSE desired[h]

DeleteInv ==
    pc = "delete" =>
        /\ todo \subseteq Stale
        /\ quiet => \A h \in Hostname :
             routes[h] = IF h \in todo \/ (~Owns(h) /\ desired[h] = NoRoute) THEN current[h] ELSE desired[h]

IInv ==
    /\ TypeOK /\ CreateInv /\ DeleteInv /\ ExactOnSuccess
    /\ pc # "idle" => outcome = "none"

\* The inductive invariant behind CountersAreExact: each counter counts the
\* hostnames that its loop has visited.

Created == {h \in Missing(current) : current[h] = NoRoute}
Updated == {h \in Missing(current) : current[h] # NoRoute}

CountInv ==
    /\ pc \in {"validate", "list"} => result = NoResult
    /\ pc = "create" =>
         /\ result.created = Cardinality(Created \ todo)
         /\ result.updated = Cardinality(Updated \ todo)
         /\ result.deleted = 0
         /\ result.changed <=> todo # Missing(current)
    /\ pc = "delete" =>
         /\ result.created = Cardinality(Created)
         /\ result.updated = Cardinality(Updated)
         /\ result.deleted = Cardinality(Stale \ todo)
         /\ result.changed <=> Missing(current) # {} \/ todo # Stale
    /\ CountersAreExact

=============================================================================
