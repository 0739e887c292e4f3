--------------------------- MODULE McRouterProofs ---------------------------
(***************************************************************************)
(* Proofs about McRouterController for any hostnames, plans and bound on   *)
(* abandoned calls.                                                        *)
(***************************************************************************)
EXTENDS McRouterController, FiniteSetTheorems, TLAPS

USE DEF backendVars, pass, RouteMap

\* The map built from an accepted plan is a route map.
LEMMA DesiredIsRouteMap ==
  ASSUME NEW plan \in Plans, Accepted(plan)
  PROVE  DesiredBackends(plan) \in RouteMap
<1> SUFFICES ASSUME NEW h \in Hostname, \E i \in DOMAIN plan : plan[i].hostname = h
             PROVE  plan[CHOOSE i \in DOMAIN plan : plan[i].hostname = h].backend \in Backend
  BY DEF DesiredBackends
<1> DEFINE i == CHOOSE i \in DOMAIN plan : plan[i].hostname = h
<1>1. i \in DOMAIN plan
  OBVIOUS
<1>2. plan[i] \in Route
  BY <1>1, PlansAssumption
<1> QED
  BY <1>1, <1>2 DEF Accepted, WellFormed, Route

\* Counting a call keeps the result a result.
LEMMA CountType ==
  ASSUME result \in Result, NEW c \in Nat, NEW u \in Nat, NEW d \in Nat
  PROVE  Count(c, u, d) \in Result
BY DEF Count, Result

\* No controller is running and nothing has been listed.
LEMMA InitIInv == Init => IInv
<1> SUFFICES ASSUME Init PROVE IInv
  OBVIOUS
<1>1. NoResult \in Result /\ NoRoutes \in RouteMap
  BY DEF NoResult, Result, NoRoutes
<1>2. TypeOK
  BY <1>1, Zenon DEF Init, TypeOK
<1> QED
  BY <1>2 DEF Init, IInv, CreateInv, DeleteInv, ExactOnSuccess

\* Each step of a pass, and each change around it, keeps IInv.
LEMMA NextStep ==
  ASSUME IInv, [Next]_vars
  PROVE  IInv'
<1> USE DEF IInv, TypeOK
<1>1. CASE Synchronize
  BY <1>1, Zenon DEF Synchronize, CreateInv, DeleteInv, ExactOnSuccess, NoResult, Result
<1>2. CASE Prepare
  BY <1>2, DesiredIsRouteMap, SMTT(60) DEF Prepare, CreateInv, DeleteInv, ExactOnSuccess
<1>3. CASE ListRoutes
  BY <1>3, SMTT(60) DEF ListRoutes, Missing, CreateInv, DeleteInv, ExactOnSuccess
<1>4. ASSUME NEW h \in Hostname, CreateRoute(h)
      PROVE  IInv'
  <2>1. desired[h] # NoRoute
    BY <1>4 DEF CreateRoute, Least, CreateInv, Missing
  <2>2. TypeOK'
    BY <1>4, CountType, SMTT(60) DEF CreateRoute, Put, CountCreate
  <2>3. CreateInv'
    BY <1>4, <2>1, Zenon DEF CreateRoute, Put, Least, CreateInv, Missing
  <2> QED
    BY <1>4, <2>2, <2>3, SMTT(60) DEF CreateRoute, DeleteInv, ExactOnSuccess
<1>5. CASE CollectStale
  BY <1>5, SMTT(60) DEF CollectStale, CreateInv, DeleteInv, ExactOnSuccess, Stale, Owns
<1>6. ASSUME NEW h \in Hostname, DeleteRoute(h)
      PROVE  IInv'
  <2>1. desired[h] = NoRoute /\ Owns(h)
    BY <1>6, SMTT(60) DEF DeleteRoute, Least, DeleteInv, Stale
  <2>2. TypeOK'
    BY <1>6, CountType, Zenon DEF DeleteRoute, Put
  <2>3. DeleteInv'
    BY <1>6, <2>1, Zenon DEF DeleteRoute, Put, Least, DeleteInv, Stale
  <2> QED
    BY <1>6, <2>2, <2>3, Zenon DEF DeleteRoute, CreateInv, ExactOnSuccess
<1>7. CASE Complete
  BY <1>7, Zenon DEF Complete, Finish, CreateInv, DeleteInv, ExactOnSuccess, Owns
<1>8. CASE PassFails
  BY <1>8, Zenon DEF PassFails, Finish, CreateInv, DeleteInv, ExactOnSuccess
<1>9. ASSUME NEW h \in Hostname, CallFails(h)
      PROVE  IInv'
  <2>1. TypeOK'
    BY <1>9, SMTT(60) DEF CallFails, Finish, Put, Call
  <2> QED
    BY <1>9, <2>1, Zenon DEF CallFails, Finish, CreateInv, DeleteInv, ExactOnSuccess
<1>10. CASE WantChanges
  BY <1>10, Zenon DEF WantChanges, CreateInv, DeleteInv, ExactOnSuccess, Missing, Stale
<1>11. CASE LateCall
  <2>1. TypeOK'
    BY <1>11, Zenon DEF LateCall, Put, Call
  <2> QED
    BY <1>11, <2>1, ZenonT(60) DEF LateCall, CreateInv, DeleteInv, ExactOnSuccess, Missing, Stale
<1>12. CASE ForeignWrite
  BY <1>12, ZenonT(60) DEF ForeignWrite, Put, CreateInv, DeleteInv, ExactOnSuccess, Missing, Stale
<1>13. CASE BackendRestarts
  BY <1>13, Zenon DEF BackendRestarts, NoRoutes, CreateInv, DeleteInv, ExactOnSuccess, Missing, Stale
<1>14. CASE UNCHANGED vars
  BY <1>14, SMTT(60) DEF vars, CreateInv, DeleteInv, ExactOnSuccess, Missing, Stale
<1> QED
  BY <1>1, <1>2, <1>3, <1>4, <1>5, <1>6, <1>7, <1>8, <1>9, <1>10, <1>11, <1>12, <1>13, <1>14, ZenonT(60)
     DEF Next, Work, Others

\* What an undisturbed pass has done after each call, in every reachable state.
THEOREM Inductive == Spec => []IInv
<1>1. IInv /\ [Next]_vars => IInv'
  BY NextStep
<1> QED
  BY <1>1, InitIInv, PTL DEF Spec

\* The controller and the backend keep their types.
THEOREM TypeCorrect == Spec => []TypeOK
<1>1. IInv => TypeOK
  BY DEF IInv
<1> QED
  BY <1>1, Inductive, PTL

\* A pass that returns nil undisturbed has made the managed domain exactly the
\* plan and has left undesired routes elsewhere alone.
THEOREM SuccessIsExact == Spec => []ExactOnSuccess
<1>1. IInv => ExactOnSuccess
  BY DEF IInv
<1> QED
  BY <1>1, Inductive, PTL

\* The controller never removes a desired or a foreign route, and removes stale
\* ones only when all the desired ones are in place.
THEOREM NoGap == Spec => MakeBeforeBreak
<1> DEFINE Removal(h) ==
      routes[h] # NoRoute /\ routes'[h] = NoRoute /\ ~Others =>
          /\ h \in Managed /\ desired[h] = NoRoute
          /\ quiet => \A g \in Hostname : desired[g] # NoRoute => routes[g] = desired[g]
<1>1. IInv /\ [Next]_vars => [\A h \in Hostname : Removal(h)]_vars
  <2> SUFFICES ASSUME IInv, [Next]_vars, NEW h \in Hostname,
                      routes[h] # NoRoute, routes'[h] = NoRoute, ~Others
               PROVE  /\ h \in Managed /\ desired[h] = NoRoute
                      /\ quiet => \A g \in Hostname : desired[g] # NoRoute => routes[g] = desired[g]
    BY Zenon
  <2>1. PICK g \in Hostname : CreateRoute(g) \/ DeleteRoute(g) \/ CallFails(g)
    BY Zenon DEF Next, Work, Synchronize, Prepare, ListRoutes, CollectStale, Complete, PassFails, WantChanges, vars
  <2>2. pc \in {"create", "delete"} /\ Least(g)
    BY <2>1, ZenonT(60) DEF CreateRoute, DeleteRoute, CallFails
  <2>3. Put(g, IF pc = "create" THEN desired[g] ELSE NoRoute)
    BY <2>1 DEF CreateRoute, DeleteRoute, CallFails
  <2>4. g = h
    BY <2>3, SMTT(60) DEF Put, IInv, TypeOK
  <2>5. pc = "delete"
    BY <2>2, <2>3, <2>4, SMTT(60) DEF Put, IInv, TypeOK, CreateInv, Least, Missing
  <2> QED
    BY <2>2, <2>4, <2>5, Zenon DEF IInv, DeleteInv, Least, Stale, Owns
<1> QED
  BY <1>1, Inductive, PTL DEF Spec, MakeBeforeBreak

\* A call for one hostname moves its entry to the planned value, or clears an
\* entry of the managed domain once all the planned ones are in place.
LEMMA CallIsMove ==
  ASSUME IInv, pc \in {"create", "delete"}, NEW h \in Hostname, Least(h),
         Put(h, IF pc = "create" THEN desired[h] ELSE NoRoute)
  PROVE  Promise!Move
<1>1. CASE pc = "create"
  <2>1. desired[h] # NoRoute
    BY <1>1 DEF Least, IInv, CreateInv, Missing
  <2>2. Promise!Put(h)
    BY <1>1, <2>1 DEF Put, Promise!Put
  <2> QED
    BY <1>1, <2>2, Zenon DEF Promise!Move
<1>2. CASE pc = "delete"
  <2>1. h \in Managed /\ desired[h] = NoRoute
    BY <1>2, Zenon DEF Least, IInv, DeleteInv, Stale, Owns
  <2>2. quiet => Promise!Complete
    BY <1>2 DEF IInv, DeleteInv, Stale, Owns, Promise!Complete
  <2>3. routes' = [routes EXCEPT ![h] = NoRoute]
    BY <1>2 DEF Put
  <2>4. Promise!Clear(h)
    BY <2>1, <2>2, <2>3, Zenon DEF Promise!Clear
  <2> QED
    BY <1>2, <2>4, Zenon DEF Promise!Move
<1> QED
  BY <1>1, <1>2

\* Every step is a step of RouteTable, or none that RouteTable sees.
LEMMA StepKeepsPromise ==
  ASSUME IInv, IInv', [Next]_vars
  PROVE  [Promise!Next]_(Promise!vars)
<1> USE DEF Promise!Next, Promise!vars
<1>1. TypeOK /\ TypeOK'
  BY DEF IInv
<1>2. CASE Synchronize
  <2>1. pc \notin {"list", "create", "delete"} /\ pc' \notin {"list", "create", "delete"}
    BY <1>2 DEF Synchronize
  <2>2. UNCHANGED (pc \in {"list", "create", "delete"})
    BY <2>1
  <2>3. outcome' = "none" /\ quiet' \in BOOLEAN /\ UNCHANGED <<routes, desired>>
    BY <1>2, Zenon DEF Synchronize
  <2>4. Promise!Start
    BY <2>1, <2>2, <2>3, Zenon DEF Promise!Start
  <2> QED
    BY <2>4, Zenon
<1>3. CASE Prepare
  <2>1. Promise!Accept
    BY <1>3, <1>1 DEF Prepare, Promise!Accept, Promise!Table, IInv, TypeOK
  <2> QED
    BY <2>1, Zenon
<1>4. CASE ListRoutes
  <2>1. Promise!Look
    BY <1>4, <1>1 DEF ListRoutes, Promise!Look, TypeOK
  <2> QED
    BY <2>1, Zenon
<1>5. ASSUME NEW h \in Hostname, CreateRoute(h) \/ DeleteRoute(h)
      PROVE  Promise!Next
  <2>1. pc \in {"create", "delete"} /\ Least(h) /\ Put(h, IF pc = "create" THEN desired[h] ELSE NoRoute)
    BY <1>5 DEF CreateRoute, DeleteRoute
  <2>2. UNCHANGED <<pc, desired, outcome, quiet>>
    BY <1>5 DEF CreateRoute, DeleteRoute
  <2>3. Promise!Work
    BY <2>1, <2>2, CallIsMove, SMTT(60) DEF Promise!Work
  <2> QED
    BY <2>3, Zenon
<1>6. CASE CollectStale \/ WantChanges \/ UNCHANGED vars
  <2>1. UNCHANGED <<routes, desired, outcome, quiet>> /\ (pc' = pc \/ (pc = "create" /\ pc' = "delete"))
    BY <1>6 DEF CollectStale, WantChanges, vars
  <2>2. pc \in {"list", "create", "delete"} <=> pc' \in {"list", "create", "delete"}
    BY <2>1
  <2>3. UNCHANGED Promise!vars
    BY <2>1, <2>2, Zenon
  <2> QED
    BY <2>3, Zenon
<1>7. CASE Complete
  <2>1. quiet => \A h \in Hostname : Owns(h) \/ desired[h] # NoRoute => routes[h] = desired[h]
    BY <1>7 DEF Complete, IInv, DeleteInv
  <2>2. quiet => Promise!Exact
    BY <2>1, HostnameAssumption, Zenon DEF Owns, Promise!Exact, Promise!Complete
  <2>3. Promise!Succeed
    BY <1>7, <2>2 DEF Complete, Finish, Promise!Succeed
  <2> QED
    BY <2>3, Zenon
<1>8. CASE PassFails
  <2>1. Promise!Fail
    BY <1>8 DEF PassFails, Finish, Promise!Fail
  <2> QED
    BY <2>1, Zenon
<1>9. ASSUME NEW h \in Hostname, CallFails(h)
      PROVE  Promise!Next
  <2>1. pc \in {"create", "delete"} /\ Least(h)
    BY <1>9, SMTT(60) DEF CallFails
  <2>2. \/ Put(h, IF pc = "create" THEN desired[h] ELSE NoRoute)
        \/ UNCHANGED routes
    BY <1>9 DEF CallFails
  <2>3. Promise!Move \/ UNCHANGED routes
    BY <2>1, <2>2, CallIsMove, SMTT(60)
  <2>4. Promise!Fail
    BY <1>9, <2>3 DEF CallFails, Finish, Promise!Fail
  <2> QED
    BY <2>4, ZenonT(60)
<1>10. CASE Others
  <2>1. quiet' = FALSE /\ UNCHANGED <<pc, desired, outcome>>
    BY <1>10 DEF Others, LateCall, ForeignWrite, BackendRestarts
  <2>2. Promise!Others
    BY <1>1, <2>1 DEF Promise!Others, Promise!Table, TypeOK
  <2> QED
    BY <2>2, Zenon
<1> HIDE DEF Promise!Next, Promise!vars
<1> QED
  BY <1>2, <1>3, <1>4, <1>5, <1>6, <1>7, <1>8, <1>9, <1>10, ZenonT(60) DEF Next, Work

\* McRouterController implements RouteTable: entries go straight to their planned
\* values, additions before removals, and success means that the plan is applied.
THEOREM Implementation == Spec => KeepsPromise
<1>1. ASSUME Init PROVE Promise!Init
  <2>1. routes \in RouteMap /\ desired \in RouteMap
    BY <1>1 DEF Init, NoRoutes
  <2>2. pc = "idle" /\ outcome = "none" /\ quiet \in BOOLEAN
    BY <1>1, Zenon DEF Init
  <2>3. (pc \in {"list", "create", "delete"}) = FALSE
    BY <2>2
  <2> QED
    BY <2>1, <2>2, <2>3, Zenon DEF Promise!Init, Promise!Table
<1>2. IInv /\ IInv' /\ [Next]_vars => [Promise!Next]_(Promise!vars)
  BY StepKeepsPromise
<1> QED
  BY <1>1, <1>2, Inductive, PTL DEF Spec, KeepsPromise, Promise!Spec

-----------------------------------------------------------------------------
\* The counters.

\* What a loop counts is finite.
LEMMA CountedIsFinite ==
  /\ IsFiniteSet(Missing(current)) /\ IsFiniteSet(Created) /\ IsFiniteSet(Updated)
  /\ IsFiniteSet(Stale)
<1>1. \A S \in SUBSET Hostname : IsFiniteSet(S)
  BY HostnameAssumption, FS_Subset, Zenon
<1>2. Missing(current) \subseteq Hostname /\ Stale \subseteq Hostname
  BY Zenon DEF Missing, Stale
<1>3. Created \subseteq Hostname /\ Updated \subseteq Hostname
  BY <1>2, Zenon DEF Created, Updated
<1> QED
  BY <1>1, <1>2, <1>3, Zenon

\* Visiting one more hostname adds one to the visited ones of a set it is in.
LEMMA VisitCounts ==
  ASSUME NEW S, IsFiniteSet(S), NEW T, NEW h \in T
  PROVE  /\ Cardinality(S \ T) \in Nat
         /\ Cardinality(S \ (T \ {h})) = Cardinality(S \ T) + (IF h \in S THEN 1 ELSE 0)
<1>1. IsFiniteSet(S \ T)
  BY FS_Subset
<1>2. Cardinality(S \ T) \in Nat
  BY <1>1, FS_CardinalityType
<1>3. CASE h \in S
  <2>1. S \ (T \ {h}) = (S \ T) \cup {h}
    BY <1>3
  <2>2. Cardinality((S \ T) \cup {h}) = Cardinality(S \ T) + 1
    BY <1>1, FS_AddElement, Zenon
  <2> QED
    BY <1>2, <1>3, <2>1, <2>2, SMTT(60)
<1>4. CASE h \notin S
  <2>1. S \ (T \ {h}) = S \ T
    BY <1>4, SMTT(60)
  <2> QED
    BY <1>2, <1>4, <2>1
<1> QED
  BY <1>3, <1>4

\* A created or updated route counts as what it was in the list.
LEMMA CreateCounts ==
  ASSUME IInv, CountInv, NEW h \in Hostname, CreateRoute(h)
  PROVE  CountInv'
<1>1. pc = "create" /\ h \in todo /\ todo' = todo \ {h} /\ UNCHANGED <<pc, desired, current, outcome>>
  BY Zenon DEF CreateRoute, Least
<1>2. h \in Missing(current) /\ todo \subseteq Missing(current)
  BY <1>1, Zenon DEF IInv, CreateInv
<1>3. /\ Missing(current)' = Missing(current) /\ Created' = Created /\ Updated' = Updated
  BY <1>1 DEF Missing, Created, Updated
<1>4. /\ Cardinality(Created \ todo') = Cardinality(Created \ todo) + (IF h \in Created THEN 1 ELSE 0)
      /\ Cardinality(Updated \ todo') = Cardinality(Updated \ todo) + (IF h \in Updated THEN 1 ELSE 0)
  BY <1>1, VisitCounts, CountedIsFinite
<1>5. /\ h \in Created <=> current[h] = NoRoute
      /\ h \in Updated <=> current[h] # NoRoute
  BY <1>2, Zenon DEF Created, Updated
<1>6. /\ result.created = Cardinality(Created \ todo) /\ result.updated = Cardinality(Updated \ todo)
      /\ result.deleted = 0
  BY <1>1, Zenon DEF CountInv
<1>7. result' = CountCreate(h)
  BY Zenon DEF CreateRoute
<1>8. /\ result'.created = Cardinality(Created \ todo) + (IF h \in Created THEN 1 ELSE 0)
      /\ result'.updated = Cardinality(Updated \ todo) + (IF h \in Updated THEN 1 ELSE 0)
      /\ result'.deleted = 0
      /\ result'.changed
  <2>1. Cardinality(Created \ todo) \in Nat /\ Cardinality(Updated \ todo) \in Nat
    BY <1>1, VisitCounts, CountedIsFinite, ZenonT(60)
  <2>2. CASE current[h] = NoRoute
    BY <1>5, <1>6, <1>7, <2>1, <2>2, SMTT(60) DEF CountCreate, Count
  <2>3. CASE current[h] # NoRoute
    BY <1>5, <1>6, <1>7, <2>1, <2>3, SMTT(60) DEF CountCreate, Count
  <2> QED
    BY <2>2, <2>3
<1>9. todo' # Missing(current)
  BY <1>1, <1>2
<1>10. pc' = "create" /\ outcome' = "none"
  BY <1>1 DEF IInv
<1>11. CountersAreExact'
  BY <1>10, SMTT(60) DEF CountersAreExact
<1> QED
  BY <1>3, <1>4, <1>8, <1>9, <1>10, <1>11, SMTT(60) DEF CountInv

\* A deleted route counts once.
LEMMA DeleteCounts ==
  ASSUME IInv, CountInv, NEW h \in Hostname, DeleteRoute(h)
  PROVE  CountInv'
<1>1. pc = "delete" /\ h \in todo /\ todo' = todo \ {h} /\ UNCHANGED <<pc, desired, current, outcome>>
  BY Zenon DEF DeleteRoute, Least
<1>2. h \in Stale /\ todo \subseteq Stale
  BY <1>1, Zenon DEF IInv, DeleteInv
<1>3. Missing(current)' = Missing(current) /\ Created' = Created /\ Updated' = Updated /\ Stale' = Stale
  BY <1>1 DEF Missing, Created, Updated, Stale
<1>4. Cardinality(Stale \ todo') = Cardinality(Stale \ todo) + 1
  BY <1>1, <1>2, VisitCounts, CountedIsFinite, SMTT(60)
<1>5. /\ result.created = Cardinality(Created) /\ result.updated = Cardinality(Updated)
      /\ result.deleted = Cardinality(Stale \ todo)
  BY <1>1, Zenon DEF CountInv
<1>6. Cardinality(Created) \in Nat /\ Cardinality(Updated) \in Nat
  BY FS_CardinalityType, CountedIsFinite
<1>7. result' = Count(0, 0, 1)
  BY Zenon DEF DeleteRoute
<1>8. /\ result'.created = Cardinality(Created) /\ result'.updated = Cardinality(Updated)
      /\ result'.deleted = Cardinality(Stale \ todo')
      /\ result'.changed
  BY <1>4, <1>5, <1>6, <1>7 DEF Count
<1>9. todo' # Stale
  BY <1>1, <1>2
<1>10. pc' = "delete" /\ outcome' = "none"
  BY <1>1, SMTT(60) DEF IInv
<1>11. CountersAreExact'
  BY <1>10 DEF CountersAreExact
<1> QED
  BY <1>3, <1>8, <1>9, <1>10, <1>11, SMTT(60) DEF CountInv

\* When both loops are done, the visited hostnames are those whose route differs
\* from the list.
LEMMA CompleteCounts ==
  ASSUME IInv, CountInv, Complete, quiet
  PROVE  /\ result.created = Cardinality({h \in Hostname : current[h] = NoRoute /\ routes[h] # NoRoute})
         /\ result.updated = Cardinality({h \in Hostname : NoRoute \notin {current[h], routes[h]}
                                                           /\ routes[h] # current[h]})
         /\ result.deleted = Cardinality({h \in Hostname : current[h] # NoRoute /\ routes[h] = NoRoute})
         /\ result.changed <=> routes # current
<1>1. pc = "delete" /\ todo = {}
  BY Zenon DEF Complete
<1>2. \A h \in Hostname :
        routes[h] = IF ~Owns(h) /\ desired[h] = NoRoute THEN current[h] ELSE desired[h]
  BY <1>1, Zenon DEF IInv, DeleteInv
<1>3. Created = {h \in Hostname : current[h] = NoRoute /\ routes[h] # NoRoute}
  BY <1>2 DEF Created, Missing
<1>4. Updated = {h \in Hostname : NoRoute \notin {current[h], routes[h]} /\ routes[h] # current[h]}
  BY <1>2 DEF Updated, Missing
<1>5. Stale = {h \in Hostname : current[h] # NoRoute /\ routes[h] = NoRoute}
  BY <1>2 DEF Stale
<1>6. (Missing(current) # {} \/ Stale # {}) <=> \E h \in Hostname : routes[h] # current[h]
  BY <1>2 DEF Missing, Stale
<1>7. routes # current <=> \E h \in Hostname : routes[h] # current[h]
  BY DEF IInv, TypeOK
<1>8. Stale \ todo = Stale
  BY <1>1
<1>9. /\ result.created = Cardinality(Created)
      /\ result.updated = Cardinality(Updated)
      /\ result.deleted = Cardinality(Stale \ todo)
      /\ result.changed <=> Missing(current) # {} \/ todo # Stale
  BY <1>1, Zenon DEF CountInv
<1>10. result.changed <=> routes # current
  BY <1>1, <1>6, <1>7, <1>9, Zenon
<1> QED
  BY <1>3, <1>4, <1>5, <1>8, <1>9, <1>10, Zenon

\* Each step keeps the counters in line with the hostnames visited.
LEMMA CountStep ==
  ASSUME IInv, CountInv, [Next]_vars
  PROVE  CountInv'
<1>1. CASE Synchronize
  BY <1>1, Zenon DEF Synchronize, CountInv, CountersAreExact
<1>2. CASE Prepare
  <2>1. pc' = "list" /\ result' = NoResult /\ outcome' = "none"
    BY <1>2, Zenon DEF Prepare, CountInv, IInv
  <2> QED
    BY <2>1 DEF CountInv, CountersAreExact
<1>3. CASE ListRoutes
  <2>1. pc' = "create" /\ result' = NoResult /\ outcome' = "none" /\ todo' = Missing(current)'
    BY <1>3 DEF ListRoutes, CountInv, IInv, Missing
  <2>2. /\ (Created \ todo)' = {} /\ (Updated \ todo)' = {}
    BY <2>1 DEF Created, Updated
  <2>3. Cardinality((Created \ todo)') = 0 /\ Cardinality((Updated \ todo)') = 0
    BY <2>2, FS_EmptySet, SMTT(60)
  <2> QED
    BY <2>1, <2>3, Zenon DEF CountInv, CountersAreExact, NoResult
<1>4. CASE CollectStale
  <2>1. /\ pc = "create" /\ todo = {} /\ pc' = "delete" /\ todo' = Stale
        /\ outcome' = "none" /\ UNCHANGED <<desired, current, result>>
    BY <1>4 DEF CollectStale, IInv
  <2>2. Missing(current)' = Missing(current) /\ Created' = Created /\ Updated' = Updated /\ Stale' = Stale
    BY <2>1 DEF Missing, Created, Updated, Stale
  <2>3. Created \ todo = Created /\ Updated \ todo = Updated
    BY <2>1
  <2>4. (Stale \ todo)' = {}
    BY <2>1, <2>2
  <2>5. Cardinality((Stale \ todo)') = 0
    BY <2>4, FS_EmptySet, SMTT(60)
  <2>6. /\ result.created = Cardinality(Created)
        /\ result.updated = Cardinality(Updated)
        /\ result.deleted = 0
        /\ result.changed <=> Missing(current) # {}
    BY <2>1, <2>3, SMTT(60) DEF CountInv
  <2> QED
    BY <2>1, <2>2, <2>5, <2>6, SMTT(60) DEF CountInv, CountersAreExact
<1>5. CASE Complete
  <2>1. pc' = "idle" /\ UNCHANGED <<routes, current, result, quiet>>
    BY <1>5, Zenon DEF Complete, Finish
  <2>2. CountersAreExact'
    BY <1>5, <2>1, CompleteCounts, ZenonT(60) DEF CountersAreExact
  <2> QED
    BY <2>1, <2>2, SMTT(60) DEF CountInv
<1>6. CASE PassFails \/ \E h \in Hostname : CallFails(h)
  <2>1. pc' = "idle" /\ outcome' = "error"
    BY <1>6, SMTT(60) DEF PassFails, CallFails, Finish
  <2> QED
    BY <2>1, SMTT(60) DEF CountInv, CountersAreExact
<1>7. CASE WantChanges \/ UNCHANGED vars
  <2>1. UNCHANGED <<routes, pc, desired, current, todo, result, outcome, quiet>>
    BY <1>7, SMTT(60) DEF WantChanges, vars
  <2>2. UNCHANGED <<Missing(current), Created, Updated, Stale>>
    BY <2>1, ZenonT(60) DEF Missing, Created, Updated, Stale
  <2> QED
    BY <2>1, <2>2, ZenonT(60) DEF CountInv, CountersAreExact
<1>8. CASE Others
  <2>1. UNCHANGED <<pc, desired, current, todo, result, outcome>> /\ ~quiet'
    BY <1>8 DEF Others, LateCall, ForeignWrite, BackendRestarts
  <2>2. UNCHANGED <<Missing(current), Created, Updated, Stale>>
    BY <2>1, ZenonT(60) DEF Missing, Created, Updated, Stale
  <2> QED
    BY <2>1, <2>2, ZenonT(60) DEF CountInv, CountersAreExact
<1> QED
  BY <1>1, <1>2, <1>3, <1>4, <1>5, <1>6, <1>7, <1>8, CreateCounts, DeleteCounts, ZenonT(60)
     DEF Next, Work

\* The counters of a successful pass are the numbers of hostnames it created,
\* updated and deleted, and it reports a change exactly if it made one.
THEOREM Counters == Spec => []CountersAreExact
<1>1. Init => CountInv
  BY DEF Init, CountInv, CountersAreExact
<1>2. IInv /\ CountInv /\ [Next]_vars => CountInv'
  BY CountStep
<1>3. CountInv => CountersAreExact
  BY DEF CountInv
<1> QED
  BY <1>1, <1>2, <1>3, Inductive, PTL DEF Spec

-----------------------------------------------------------------------------
\* Settled backends.

\* The failing or successful call of a settled pass asks for the planned route.
LEMMA CallAgrees ==
  ASSUME IInv, Settled, NEW h \in Hostname, CreateRoute(h) \/ DeleteRoute(h) \/ CallFails(h)
  PROVE  (IF pc = "create" THEN desired[h] ELSE NoRoute) = DesiredBackends(want)[h]
<1>1. pc \in {"create", "delete"} /\ h \in todo
  BY Zenon DEF CreateRoute, DeleteRoute, CallFails, Least
<1>2. desired = DesiredBackends(want)
  BY <1>1, Zenon DEF Settled
<1>3. CASE pc = "create"
  BY <1>2, <1>3, Zenon
<1>4. CASE pc = "delete"
  <2>1. desired[h] = NoRoute
    BY <1>1, <1>4, Zenon DEF IInv, DeleteInv, Stale
  <2>2. pc # "create"
    BY <1>4
  <2> QED
    BY <1>2, <2>1, <2>2, Zenon
<1> QED
  BY <1>1, <1>3, <1>4, Zenon

\* What is put into a settled backend is there already.
LEMMA PutAgrees ==
  ASSUME IInv, Serves(want), want' = want, NEW h \in Hostname, NEW b,
         b = DesiredBackends(want)[h], Put(h, b)
  PROVE  Serves(want)'
<1> DEFINE D == DesiredBackends(want)
<1>1. \A g \in Hostname : routes'[g] = IF g = h THEN D[h] ELSE routes[g]
  BY DEF Put, IInv, TypeOK
<1>2. D' = D
  BY DEF DesiredBackends
<1> HIDE DEF D
<1>3. \A g \in Hostname : (g \in Managed \/ D[g] # NoRoute) => routes'[g] = D[g]
  BY <1>1, Zenon DEF Serves, D
<1>4. \A g \in Hostname : (g \in Managed \/ D'[g] # NoRoute) => routes'[g] = D'[g]
  BY <1>2, <1>3
<1> QED
  BY <1>4 DEF Serves, D

\* Each step of a pass keeps a settled backend settled.
LEMMA SettledStep ==
  ASSUME IInv, Settled, [Next]_vars, want' = want, ~ForeignWrite, ~BackendRestarts
  PROVE  Settled'
<1> DEFINE D == DesiredBackends(want)
           Agreed == \A c \in late : c.backend = D[c.hostname]
<1>1. D' = D
  BY DEF DesiredBackends
<1>2. UNCHANGED routes => Serves(want)'
  <2> SUFFICES ASSUME UNCHANGED routes PROVE Serves(want)'
    OBVIOUS
  <2>1. Serves(want)
    BY Zenon DEF Settled
  <2> QED
    BY <1>1, <2>1 DEF Serves
<1>3. UNCHANGED late \/ late' \subseteq late => Agreed'
  <2>1. Agreed
    BY Zenon DEF Settled
  <2> HIDE DEF D
  <2> QED
    BY <1>1, <2>1
<1>4. CASE Synchronize \/ Prepare \/ ListRoutes \/ CollectStale \/ Complete \/ PassFails
           \/ WantChanges \/ UNCHANGED vars
  <2>1. UNCHANGED routes /\ UNCHANGED late
    BY <1>4, Zenon DEF Synchronize, Prepare, ListRoutes, CollectStale, Complete, PassFails, WantChanges, vars
  <2>2. (pc \in {"list", "create", "delete"} => desired = D)' \/ Prepare
    <3>1. CASE Synchronize \/ Complete \/ PassFails
      <4>1. pc' \in {"validate", "idle"}
        BY <3>1, Zenon DEF Synchronize, Complete, PassFails, Finish
      <4> QED
        BY <4>1
    <3>2. CASE ListRoutes \/ CollectStale \/ WantChanges \/ UNCHANGED vars
      <4>1. desired' = desired /\ (pc' = pc \/ pc \in {"list", "create"})
        BY <3>2 DEF ListRoutes, CollectStale, WantChanges, vars
      <4>2. pc \in {"list", "create", "delete"} => desired = D
        BY Zenon DEF Settled
      <4> HIDE DEF D
      <4> QED
        BY <1>1, <4>1, <4>2, SMTT(60)
    <3> QED
      BY <1>4, <3>1, <3>2
  <2>3. Prepare => desired' = D'
    BY <1>1, Zenon DEF Prepare
  <2>4. (pc \in {"list", "create", "delete"} => desired = D)'
    BY <2>2, <2>3, Zenon
  <2> QED
    BY <1>2, <1>3, <2>1, <2>4, Zenon DEF Settled
<1>5. ASSUME NEW h \in Hostname, CreateRoute(h) \/ DeleteRoute(h) \/ CallFails(h)
      PROVE  Settled'
  <2> DEFINE b == IF pc = "create" THEN desired[h] ELSE NoRoute
  <2>1. b = D[h]
    BY <1>5, CallAgrees, Zenon
  <2>2. Put(h, b) \/ UNCHANGED routes
    <3>1. CreateRoute(h) => pc = "create" /\ Put(h, desired[h])
      BY Zenon DEF CreateRoute
    <3>2. DeleteRoute(h) => pc # "create" /\ Put(h, NoRoute)
      BY DEF DeleteRoute
    <3>3. CallFails(h) => Put(h, b) \/ UNCHANGED routes
      BY Zenon DEF CallFails
    <3> QED
      BY <1>5, <3>1, <3>2, <3>3, Zenon
  <2>3. UNCHANGED late \/ late' = late \cup {[hostname |-> h, backend |-> b]}
    BY <1>5, Zenon DEF CreateRoute, DeleteRoute, CallFails
  <2>4. pc' = "idle" \/ UNCHANGED <<pc, desired>>
    BY <1>5, Zenon DEF CreateRoute, DeleteRoute, CallFails, Finish
  <2> HIDE DEF b
  <2>5. Serves(want)'
    <3>1. Serves(want)
      BY Zenon DEF Settled
    <3> QED
      BY <1>2, <2>1, <2>2, <3>1, PutAgrees, Zenon
  <2>6. Agreed'
    <3>1. \A c \in late : c.backend = D[c.hostname]
      BY Zenon DEF Settled
    <3> HIDE DEF D
    <3> QED
      BY <1>1, <2>1, <2>3, <3>1
  <2>7. (pc \in {"list", "create", "delete"} => desired = D)'
    <3>1. pc \in {"list", "create", "delete"} => desired = D
      BY Zenon DEF Settled
    <3> HIDE DEF D
    <3> QED
      BY <1>1, <2>4, <3>1
  <2> QED
    BY <2>5, <2>6, <2>7, Zenon DEF Settled
<1>6. CASE LateCall
  <2>1. PICK c \in late : late' = late \ {c} /\ (Put(c.hostname, c.backend) \/ UNCHANGED routes)
    BY <1>6, Zenon DEF LateCall
  <2>2. c.hostname \in Hostname /\ c.backend = D[c.hostname] /\ Serves(want)
    <3>1. c \in Call
      BY Zenon DEF IInv, TypeOK
    <3> QED
      BY <3>1 DEF Settled, Call
  <2>3. Serves(want)'
    BY <1>2, <2>1, <2>2, PutAgrees, Zenon
  <2>4. Agreed'
    BY <1>3, <2>1, Zenon
  <2>5. (pc \in {"list", "create", "delete"} => desired = D)'
    <3>1. (pc \in {"list", "create", "delete"} => desired = D) /\ UNCHANGED <<pc, desired>>
      BY <1>6, Zenon DEF Settled, LateCall
    <3> QED
      BY <1>1, <3>1, Zenon
  <2> QED
    BY <2>3, <2>4, <2>5, Zenon DEF Settled
<1> QED
  BY <1>4, <1>5, <1>6, Zenon DEF Next, Work, Others

\* Once settled, the backend serves the plan through failing passes and abandoned
\* calls until the plan changes or somebody else touches the backend: the part of
\* Convergence that needs no fairness.
THEOREM SettledForGood == Spec => StaysSettled
<1>1. ASSUME IInv, [Next]_vars
      PROVE  [Settled /\ want' = want /\ ~ForeignWrite /\ ~BackendRestarts => Settled']_vars
  BY <1>1, SettledStep, Zenon
<1> QED
  BY <1>1, Inductive, PTL DEF Spec, StaysSettled

\* While nobody disturbs a pass that has not failed, no call is abandoned.
LateInv == quiet /\ outcome # "error" => late = {}

\* A pass that returns nil undisturbed settles the backend for its plan.
THEOREM SuccessIsSettled == Spec => []SuccessSettles
<1>1. Init => LateInv
  BY Zenon DEF Init, LateInv
<1>2. ASSUME LateInv, IInv, IInv', [Next]_vars PROVE LateInv'
  <2>1. CASE Synchronize \/ Others
    BY <2>1, Zenon DEF Synchronize, Others, LateCall, ForeignWrite, BackendRestarts, LateInv
  <2>2. CASE ListRoutes
    BY <2>2, Zenon DEF ListRoutes, LateInv
  <2>3. CASE PassFails \/ \E h \in Hostname : CallFails(h)
    BY <2>3, Zenon DEF PassFails, CallFails, Finish, LateInv
  <2>4. CASE Prepare \/ CollectStale \/ Complete \/ WantChanges \/ UNCHANGED vars
             \/ \E h \in Hostname : CreateRoute(h) \/ DeleteRoute(h)
    <3>1. UNCHANGED <<late, quiet>> /\ (outcome' = outcome \/ Complete)
      BY <2>4, Zenon DEF Prepare, CollectStale, Complete, WantChanges, vars, CreateRoute, DeleteRoute
    <3>2. Complete => outcome = "none"
      BY <1>2 DEF Complete, IInv
    <3>3. outcome' # "error" => outcome # "error"
      BY <3>1, <3>2
    <3> QED
      BY <1>2, <3>1, <3>3, Zenon DEF LateInv
  <2> QED
    BY <1>2, <2>1, <2>2, <2>3, <2>4, Zenon DEF Next, Work
<1>3. ASSUME IInv, LateInv PROVE SuccessSettles
  <2> SUFFICES ASSUME outcome = "ok", quiet, desired = DesiredBackends(want) PROVE Settled
    BY Zenon DEF SuccessSettles
  <2>1. late = {}
    BY <1>3 DEF LateInv
  <2>2. Serves(want)
    BY <1>3, Zenon DEF IInv, ExactOnSuccess, Serves
  <2> QED
    BY <2>1, <2>2, Zenon DEF Settled
<1> QED
  BY <1>1, <1>2, <1>3, Inductive, PTL DEF Spec

=============================================================================
