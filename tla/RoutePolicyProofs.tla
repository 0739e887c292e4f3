-------------------------- MODULE RoutePolicyProofs --------------------------
(***************************************************************************)
(* Proofs about RoutePolicyStore, and about the handlers of ManagementApi  *)
(* that use it, for any number of clients, any interval and any bounds.    *)
(***************************************************************************)
EXTENDS ManagementApi, TLAPS

\* There is no policy and no client has seen one.
LEMMA InitIInv == Init => IInv
BY DEF Init, IInv, TypeOK, ViewInv, NoOrphans

\* A row that is read is of the current revision and life.
LEMMA ReadRowStep ==
  ASSUME IInv, NEW c \in Client, ReadRow(c)
  PROVE  IInv'
<1> USE NoneAssumption DEF IInv, TypeOK, ReadRow, Row, View
<1>1. TypeOK'
  OBVIOUS
<1>2. ViewInv'
  BY DEF ViewInv
<1> QED
  BY <1>1, <1>2 DEF NoOrphans

\* Aliases read in a later revision complete a view that is stale by then.
LEMMA ReadAliasesStep ==
  ASSUME IInv, NEW c \in Client, ReadAliases(c)
  PROVE  IInv'
<1> USE NoneAssumption DEF IInv, TypeOK, ReadAliases, Row, View
<1>1. view[c] \in View
  BY DEF ViewInv
<1>2. TypeOK'
  BY <1>1
<1>3. ViewInv'
  BY <1>1 DEF ViewInv
<1> QED
  BY <1>2, <1>3 DEF NoOrphans

\* A write makes every view of the previous revision, or life, stale.
LEMMA PutStep ==
  ASSUME IInv, NEW c \in Client, NEW m \in Main, NEW names \in SUBSET Alias, Put(c, m, names)
  PROVE  IInv'
<1> USE NoneAssumption DEF IInv, TypeOK, Row, View
<1>1. CASE Create(c, m, names)
  <2>1. TypeOK'
    BY <1>1 DEF Create, ReplaceAliases, Respond
  <2>2. ViewInv'
    BY <1>1 DEF Create, ReplaceAliases, Respond, ViewInv
  <2> QED
    BY <1>1, <2>1, <2>2 DEF Create, ReplaceAliases, NoOrphans
<1>2. CASE Update(c, m, names)
  <2>1. TypeOK'
    BY <1>2 DEF Update, Expected, ReplaceAliases, Respond
  <2>2. ViewInv'
    BY <1>2 DEF Update, Expected, Respond, ViewInv
  <2> QED
    BY <1>2, <2>1, <2>2 DEF Update, Expected, NoOrphans
<1> QED
  BY <1>1, <1>2 DEF Put

\* So does a deletion.
LEMMA DeleteStep ==
  ASSUME IInv, NEW c \in Client, Delete(c)
  PROVE  IInv'
  BY NoneAssumption DEF IInv, TypeOK, Row, View, Delete, AliasesAfterDelete, ViewInv, NoOrphans

\* IInv is inductive: no view is from the future, and a view with the revision
\* of the row has its content.
LEMMA InductiveStep == IInv /\ [Next]_vars => IInv'
<1> SUFFICES ASSUME IInv, [Next]_vars PROVE IInv'
  OBVIOUS
<1>1. ASSUME NEW c \in Client, List(c) \/ Get(c)
      PROVE  IInv'
  BY <1>1, ReadRowStep DEF List, Get
<1>2. ASSUME NEW c \in Client, ReadFails(c)
      PROVE  IInv'
  BY <1>2 DEF ReadFails, IInv, TypeOK, ViewInv, NoOrphans
<1>3. CASE UNCHANGED vars
  BY <1>3 DEF vars, IInv, TypeOK, ViewInv, NoOrphans
<1> QED
  BY <1>1, <1>2, <1>3, ReadAliasesStep, PutStep, DeleteStep DEF Next

\* So IInv holds in every state.
THEOREM Inductive == Spec => []IInv
  BY InitIInv, InductiveStep, PTL DEF Spec

\* The tables and the clients keep their types.
THEOREM TypeCorrect == Spec => []TypeOK
<1>1. IInv => TypeOK
  BY DEF IInv
<1> QED
  BY <1>1, Inductive, PTL

\* Within one life of a policy, no update or delete replaces what its client
\* has not seen, for any number of clients.
THEOREM OptimisticConcurrency == Spec => NoLostUpdate
<1>1. IInv /\ [Next]_vars => [\A c \in Client : Replaces(c) /\ view[c].life = life => HasSeen(c)]_vars
  <2> SUFFICES ASSUME IInv, [Next]_vars, NEW c \in Client, Replaces(c), view[c].life = life
               PROVE  HasSeen(c)
    OBVIOUS
  <2>1. PICK d \in Client : Delete(d) \/ \E m \in Main, names \in SUBSET Alias : Update(d, m, names)
    BY DEF Replaces, Changes, Next, List, Get, ReadRow, ReadAliases, ReadFails, Put, Create, vars
  <2>2. d = c
    BY <2>1 DEF Replaces, Update, Delete, Respond, IInv, TypeOK
  <2>3. pc[c] = "idle" /\ Expected(c)
    BY <2>1, <2>2 DEF Update, Delete
  <2> QED
    BY <2>3 DEF Expected, HasSeen, IInv, ViewInv
<1> QED
  BY <1>1, Inductive, PTL DEF Spec, NoLostUpdate

\* Deleted policies leave no aliases.
THEOREM AliasesFollow == Spec => []NoOrphans
<1>1. IInv => NoOrphans
  BY DEF IInv
<1> QED
  BY <1>1, Inductive, PTL

-----------------------------------------------------------------------------
\* The handlers.

\* Every step of a handler is a step of the store, or leaves it alone.
LEMMA ApiStepsStore == [ApiNext]_apiVars => [Next]_vars
<1> SUFFICES ASSUME [ApiNext]_apiVars PROVE Next \/ UNCHANGED vars
  OBVIOUS
<1>1. ASSUME NEW c \in Client, ListPolicies(c) \/ WritePolicy(c) \/ ReadBack(c) \/ DeletePolicy(c)
      PROVE  Next
  BY <1>1, Zenon DEF ListPolicies, WritePolicy, ReadBack, DeletePolicy, Next
<1>2. ASSUME NEW c \in Client, RejectPolicy(c) \/ Bootstrap(c) \/ AskToAct(c) \/ Allow(c) \/ Perform(c)
                               \/ Reconcile(c) \/ RecordAction(c)
      PROVE  UNCHANGED vars
  BY <1>2, Zenon DEF RejectPolicy, Bootstrap, AskToAct, Allow, Perform, Reconcile, RecordAction
<1>3. CASE Clock \/ UNCHANGED apiVars
  BY <1>3, Zenon DEF Clock, apiVars
<1> QED
  BY <1>1, <1>2, <1>3, Zenon DEF ApiNext

\* The handlers use the store as its clients in RoutePolicyStore do, so what is
\* proved of those holds of the management API.
THEOREM ApiUsesStore == ApiSpec => Spec
<1>1. ApiInit => Init
  BY DEF ApiInit
<1> QED
  BY <1>1, ApiStepsStore, PTL DEF ApiSpec, Spec

\* Every step of a request leaves it in one of the known states.
LEMMA TaskStep == TaskType /\ [ApiNext]_apiVars => TaskType'
<1> SUFFICES ASSUME TaskType, [ApiNext]_apiVars PROVE TaskType'
  OBVIOUS
<1>1. ASSUME NEW c \in Client, NEW s \in TaskState, Turn(c, s) PROVE task' \in [Client -> TaskState]
  BY <1>1 DEF Turn, TaskType
<1>2. ASSUME NEW c \in Client, NEW s, Wrote(c, s) PROVE DOMAIN written' = Client
  BY <1>2 DEF Wrote, TaskType
<1>3. ASSUME UNCHANGED task PROVE task' \in [Client -> TaskState]
  BY <1>3 DEF TaskType
<1>4. ASSUME UNCHANGED written PROVE DOMAIN written' = Client
  BY <1>4 DEF TaskType
<1>5. {"success", "failure", "canceled", "denied", "none", "authorized", "limited", "working", "writing"} \subseteq TaskState
  BY DEF TaskState, Outcome
<1>6. ASSUME NEW c \in Client, Fails(c) PROVE task' \in [Client -> TaskState]
  BY <1>1, <1>5, <1>6, Zenon DEF Fails
<1>7. ASSUME NEW c \in Client, ListPolicies(c) \/ RejectPolicy(c) \/ WritePolicy(c) \/ DeletePolicy(c)
      PROVE  TaskType'
  BY <1>1, <1>2, <1>3, <1>4, <1>5, <1>6, <1>7, Zenon
     DEF ListPolicies, RejectPolicy, WritePolicy, DeletePolicy, TaskType
<1>8. ASSUME NEW c \in Client, ReadBack(c) PROVE TaskType'
  BY <1>1, <1>2, <1>3, <1>4, <1>5, <1>6, <1>8, Zenon DEF ReadBack, TaskType
<1>9. ASSUME NEW c \in Client, Bootstrap(c) \/ AskToAct(c) \/ Allow(c) PROVE TaskType'
  BY <1>1, <1>3, <1>4, <1>5, <1>9, Zenon DEF Bootstrap, AskToAct, Allow, TaskType
<1>10. ASSUME NEW c \in Client, Perform(c) \/ Reconcile(c) \/ RecordAction(c) PROVE TaskType'
  BY <1>1, <1>2, <1>4, <1>5, <1>6, <1>10, Zenon DEF Perform, Reconcile, RecordAction, TaskType
<1>11. CASE Clock \/ UNCHANGED apiVars
  BY <1>3, <1>4, <1>11, Zenon DEF Clock, apiVars, TaskType
<1> QED
  BY <1>7, <1>8, <1>9, <1>10, <1>11, Zenon DEF ApiNext

\* Admitting a request keeps the distances, since its reading has reached the
\* time that the last admitted one has set.
LEMMA AdmitStep ==
  ASSUME TaskType, LimiterInv, NEW c \in Client, Allow(c) PROVE LimiterInv'
<1> USE IntervalAssumption, NoneAssumption
<1> DEFINE a == asked[c].action
           at == asked[c].at
<1>1. a \in Action /\ at \in Nat
  BY Zenon DEF Allow, LimiterInv
<1>2. asked' = [asked EXCEPT ![c] = None] /\ UNCHANGED now
  BY DEF Allow
<1>3. /\ asked' \in [Client -> [action : Action, at : Nat] \cup {None}]
      /\ \A d \in Client : d # c => asked'[d] = asked[d]
  BY <1>2, Zenon DEF LimiterInv
<1>4. task'[c] # "limited" /\ \A d \in Client : d # c => task'[d] = task[d]
  BY DEF Allow, Turn, TaskType
<1>5. \A d \in Client : task'[d] = "limited" => asked'[d] \in [action : Action, at : Nat]
  BY <1>3, <1>4, Zenon DEF LimiterInv
<1>6. CASE at < next[a]
  <2>1. UNCHANGED <<next, admitted>>
    BY <1>6, Zenon DEF Allow
  <2> QED
    BY <1>2, <1>3, <1>5, <2>1, Zenon DEF LimiterInv, AdmittedAreSpaced
<1>7. CASE ~(at < next[a])
  <2>1. next' = [next EXCEPT ![a] = at + Interval] /\ admitted' = [admitted EXCEPT ![a] = Append(@, at)]
    BY <1>7, Zenon DEF Allow, NextTime
  <2> HIDE DEF a, at
  <2>2. /\ next' \in [Action -> Nat] /\ next'[a] = at + Interval /\ next[a] \in Nat /\ next[a] <= at
        /\ \A b \in Action : b # a => next'[b] = next[b]
    BY <1>1, <1>7, <2>1 DEF LimiterInv
  <2>3. /\ admitted' \in [Action -> Seq(Nat)] /\ admitted'[a] = Append(admitted[a], at)
        /\ admitted[a] \in Seq(Nat)
        /\ \A b \in Action : b # a => admitted'[b] = admitted[b]
    BY <1>1, <2>1 DEF LimiterInv
  <2>4. /\ DOMAIN admitted'[a] = 1..(Len(admitted[a]) + 1) /\ DOMAIN admitted[a] = 1..Len(admitted[a])
        /\ admitted'[a][Len(admitted[a]) + 1] = at
        /\ \A i \in DOMAIN admitted[a] : admitted'[a][i] = admitted[a][i] /\ admitted[a][i] \in Nat
    <3>1. ASSUME NEW s \in Seq(Nat), NEW x \in Nat
          PROVE  /\ DOMAIN Append(s, x) = 1..(Len(s) + 1) /\ DOMAIN s = 1..Len(s)
                 /\ Append(s, x)[Len(s) + 1] = x
                 /\ \A i \in DOMAIN s : Append(s, x)[i] = s[i] /\ s[i] \in Nat
      OBVIOUS
    <3> DEFINE old == admitted[a]
               new == admitted'[a]
    <3>2. old \in Seq(Nat) /\ at \in Nat /\ new = Append(old, at)
      BY <1>1, <2>3, Zenon
    <3> HIDE DEF old, new
    <3>3. /\ DOMAIN new = 1..(Len(old) + 1) /\ DOMAIN old = 1..Len(old)
          /\ new[Len(old) + 1] = at
          /\ \A i \in DOMAIN old : new[i] = old[i] /\ old[i] \in Nat
      BY <3>1, <3>2, SMTT(60)
    <3> QED
      BY <3>3, Zenon DEF old, new
  <2>5. \A i \in DOMAIN admitted[a] : admitted[a][i] + Interval <= next[a]
    BY <1>1 DEF LimiterInv
  <2>6. Len(admitted[a]) \in Nat
    BY <2>3
  <2>7. \A i \in DOMAIN admitted'[a] : i \in DOMAIN admitted[a] \/ i = Len(admitted[a]) + 1
    BY <2>4, <2>6, SMTT(60)
  <2>8. \A i \in DOMAIN admitted'[a] : admitted'[a][i] + Interval <= next'[a]
    <3> SUFFICES ASSUME NEW i \in DOMAIN admitted'[a] PROVE admitted'[a][i] + Interval <= next'[a]
      OBVIOUS
    <3>1. CASE i \in DOMAIN admitted[a]
      <4>1. admitted'[a][i] \in Nat /\ admitted'[a][i] + Interval <= next[a]
        BY <2>4, <2>5, <3>1, Zenon
      <4> QED
        BY <1>1, <2>2, <4>1
    <3>2. CASE i = Len(admitted[a]) + 1
      BY <1>1, <2>2, <2>4, <3>2, SMTT(60)
    <3> QED
      BY <2>7, <3>1, <3>2, Zenon
  <2>9. \A i, j \in DOMAIN admitted'[a] : i < j => admitted'[a][j] >= admitted'[a][i] + Interval
    <3> SUFFICES ASSUME NEW i \in DOMAIN admitted'[a], NEW j \in DOMAIN admitted'[a], i < j
                 PROVE  admitted'[a][j] >= admitted'[a][i] + Interval
      OBVIOUS
    <3>1. i \in DOMAIN admitted[a]
      BY <2>4, <2>6
    <3>2. CASE j \in DOMAIN admitted[a]
      <4>1. admitted[a][j] >= admitted[a][i] + Interval
        BY <1>1, <3>1, <3>2, Zenon DEF LimiterInv, AdmittedAreSpaced
      <4> QED
        BY <2>4, <3>1, <3>2, <4>1, Zenon
    <3>3. CASE j = Len(admitted[a]) + 1
      <4>1. admitted'[a][i] \in Nat /\ admitted'[a][i] + Interval <= next[a] /\ admitted'[a][j] = at
        BY <2>4, <2>5, <3>1, <3>3, Zenon
      <4> QED
        BY <1>1, <2>2, <4>1
    <3> QED
      BY <2>7, <3>2, <3>3, Zenon
  <2>10. \A b \in Action : \A i \in DOMAIN admitted'[b] : admitted'[b][i] + Interval <= next'[b]
    <3> SUFFICES ASSUME NEW b \in Action, b # a
                 PROVE  \A i \in DOMAIN admitted'[b] : admitted'[b][i] + Interval <= next'[b]
      BY <2>8, Zenon
    <3> QED
      BY <2>2, <2>3, Zenon DEF LimiterInv
  <2>11. AdmittedAreSpaced'
    <3> SUFFICES ASSUME NEW b \in Action, b # a
                 PROVE  \A i, j \in DOMAIN admitted'[b] : i < j => admitted'[b][j] >= admitted'[b][i] + Interval
      BY <2>9, Zenon DEF AdmittedAreSpaced
    <3> QED
      BY <2>3, Zenon DEF LimiterInv, AdmittedAreSpaced
  <2> QED
    BY <1>2, <1>3, <1>5, <2>2, <2>3, <2>10, <2>11, Zenon DEF LimiterInv
<1> QED
  BY <1>6, <1>7, Zenon

\* The other steps leave the limiter alone, or read the clock.
LEMMA LimiterStep == TaskType /\ LimiterInv /\ [ApiNext]_apiVars => LimiterInv'
<1> SUFFICES ASSUME TaskType, LimiterInv, [ApiNext]_apiVars PROVE LimiterInv'
  OBVIOUS
<1>1. ASSUME UNCHANGED <<next, admitted, asked>>, now' \in Nat,
             \A c \in Client : task'[c] = "limited" => task[c] = "limited"
      PROVE  LimiterInv'
  BY <1>1, Zenon DEF LimiterInv, AdmittedAreSpaced
<1>2. ASSUME NEW c \in Client, AskToAct(c) PROVE LimiterInv'
  <2>1. PICK a \in Action : asked' = [asked EXCEPT ![c] = [action |-> a, at |-> now]]
    BY <1>2, Zenon DEF AskToAct
  <2>2. task' = [task EXCEPT ![c] = "limited"] /\ UNCHANGED <<now, next, admitted>>
    BY <1>2 DEF AskToAct, Turn
  <2>3. /\ asked'[c] \in [action : Action, at : Nat]
        /\ asked' \in [Client -> [action : Action, at : Nat] \cup {None}]
        /\ \A d \in Client : d # c => asked'[d] = asked[d] /\ task'[d] = task[d]
    BY <2>1, <2>2 DEF LimiterInv, TaskType
  <2> QED
    BY <2>2, <2>3, ZenonT(60) DEF LimiterInv, AdmittedAreSpaced
<1>3. ASSUME NEW c \in Client, NEW s, s # "limited", Turn(c, s)
      PROVE  \A d \in Client : task'[d] = "limited" => task[d] = "limited"
  BY <1>3 DEF Turn, TaskType
<1>4. ASSUME NEW c \in Client, Fails(c)
      PROVE  \A d \in Client : task'[d] = "limited" => task[d] = "limited"
  BY <1>3, <1>4 DEF Fails
<1>5. now \in Nat /\ now + 1 \in Nat
  BY DEF LimiterInv
<1>6. ASSUME NEW c \in Client, ListPolicies(c) \/ RejectPolicy(c) \/ WritePolicy(c) \/ DeletePolicy(c)
      PROVE  LimiterInv'
  BY <1>1, <1>3, <1>4, <1>5, <1>6, Zenon
     DEF ListPolicies, RejectPolicy, WritePolicy, DeletePolicy, limiterVars
<1>7. ASSUME NEW c \in Client, ReadBack(c) PROVE LimiterInv'
  BY <1>1, <1>3, <1>4, <1>5, <1>7, Zenon DEF ReadBack, limiterVars
<1>8. ASSUME NEW c \in Client, Bootstrap(c) \/ Perform(c) \/ Reconcile(c) \/ RecordAction(c) PROVE LimiterInv'
  BY <1>1, <1>3, <1>4, <1>5, <1>8, Zenon DEF Bootstrap, Perform, Reconcile, RecordAction, limiterVars
<1>9. CASE Clock \/ UNCHANGED apiVars
  BY <1>1, <1>5, <1>9, Zenon DEF Clock, apiVars, limiterVars
<1> QED
  BY <1>2, <1>6, <1>7, <1>8, <1>9, AdmitStep, Zenon DEF ApiNext

\* The policy only moves on: to the next revision, or to its next life; under
\* the same revision it stays as it is.
LEMMA StoreMovesOn ==
  ASSUME IInv, [Next]_vars
  PROVE  /\ life \in Nat /\ life' \in Nat /\ life <= life'
         /\ row' # None /\ life' = life => row # None /\ row.revision <= row'.revision
         /\ row' # None /\ life' = life /\ row'.revision = row.revision => UNCHANGED <<row, aliases>>
<1> USE NoneAssumption DEF IInv, TypeOK, Row
<1>1. ASSUME NEW c \in Client, NEW m \in Main, NEW names \in SUBSET Alias, Create(c, m, names)
      PROVE  life' = life + 1
  BY <1>1, Zenon DEF Create
<1>2. ASSUME NEW c \in Client, NEW m \in Main, NEW names \in SUBSET Alias, Update(c, m, names)
      PROVE  life' = life /\ row # None /\ row.revision <= row'.revision /\ row.revision # row'.revision
  BY <1>2 DEF Update, Expected
<1>3. ASSUME NEW c \in Client, Delete(c) PROVE life' = life /\ row' = None
  BY <1>3, Zenon DEF Delete
<1>4. ASSUME UNCHANGED <<row, life, aliases>>
      PROVE  life' = life /\ (row' # None => row # None /\ row.revision <= row'.revision)
  BY <1>4
<1>5. ASSUME NEW c \in Client, List(c) \/ Get(c) \/ ReadAliases(c) \/ ReadFails(c)
      PROVE  UNCHANGED <<row, life, aliases>>
  BY <1>5, Zenon DEF List, Get, ReadRow, ReadAliases, ReadFails
<1>6. ASSUME UNCHANGED vars PROVE UNCHANGED <<row, life, aliases>>
  BY <1>6, ZenonT(60) DEF vars
<1> QED
  BY <1>1, <1>2, <1>3, <1>4, <1>5, <1>6, SMTT(60) DEF Next, Put

\* A handler moves nothing of another request.
LEMMA OthersUnmoved ==
  ASSUME IInv, TaskType, NEW c \in Client, NEW d \in Client, c # d,
         \/ ListPolicies(c) \/ RejectPolicy(c) \/ WritePolicy(c) \/ ReadBack(c) \/ DeletePolicy(c)
         \/ Bootstrap(c) \/ AskToAct(c) \/ Allow(c) \/ Perform(c) \/ Reconcile(c) \/ RecordAction(c)
  PROVE  task'[d] = task[d] /\ written'[d] = written[d] /\ pc'[d] = pc[d] /\ view'[d] = view[d]
<1>1. task'[d] = task[d]
  <2>1. ASSUME NEW s, Turn(c, s) PROVE task'[d] = task[d]
    BY <2>1 DEF Turn, TaskType
  <2>2. ASSUME Fails(c) PROVE task'[d] = task[d]
    BY <2>1, <2>2, Zenon DEF Fails
  <2> QED
    BY <2>1, <2>2, ZenonT(60) DEF ListPolicies, RejectPolicy, WritePolicy, ReadBack, DeletePolicy, Bootstrap,
       AskToAct, Allow, Perform, Reconcile, RecordAction
<1>2. written'[d] = written[d]
  <2>1. ASSUME NEW s, Wrote(c, s) PROVE written'[d] = written[d]
    BY <2>1 DEF Wrote, TaskType
  <2> QED
    BY <2>1, ZenonT(60) DEF ListPolicies, RejectPolicy, WritePolicy, ReadBack, DeletePolicy, Bootstrap,
       AskToAct, Allow, Perform, Reconcile, RecordAction
<1>3. pc'[d] = pc[d] /\ view'[d] = view[d]
  <2>1. CASE UNCHANGED vars
    BY <2>1, ZenonT(60) DEF vars
  <2>2. CASE List(c) \/ Get(c) \/ ReadAliases(c) \/ ReadFails(c)
    BY <2>2, ZenonT(60) DEF List, Get, ReadRow, ReadAliases, ReadFails, IInv, TypeOK
  <2>3. CASE Delete(c) \/ \E m \in Main, names \in SUBSET Alias : Put(c, m, names)
    BY <2>3, Zenon DEF Put, Create, Update, Delete, Respond, IInv, TypeOK
  <2> QED
    BY <2>1, <2>2, <2>3, ZenonT(60) DEF ListPolicies, RejectPolicy, WritePolicy, ReadBack, DeletePolicy, Bootstrap,
       AskToAct, Allow, Perform, Reconcile, RecordAction
<1> QED
  BY <1>1, <1>2, <1>3

\* What was written stays written when the store goes on.
LEMMA WrittenStays ==
  ASSUME IInv, [Next]_vars, NEW w \in View, IsWritten(w)
  PROVE  /\ w.life <= life'
         /\ row' # None /\ w.life = life' => w.revision <= row'.revision
         /\ row' # None /\ w.life = life' /\ w.revision = row'.revision => w.main = row'.main /\ w.aliases = aliases'
<1>1. w.life \in Nat /\ w.revision \in Nat
  BY DEF View
<1>2. /\ row # None => row.revision \in Nat
      /\ row' # None => row'.revision \in Nat
  <2>1. TypeOK /\ TypeOK'
    BY InductiveStep, ZenonT(60) DEF IInv
  <2> QED
    BY <2>1 DEF TypeOK, Row
<1>3. /\ w.life <= life
      /\ row # None /\ w.life = life => w.revision <= row.revision
      /\ row # None /\ w.life = life /\ w.revision = row.revision => w.main = row.main /\ w.aliases = aliases
  BY DEF IsWritten, Stands, SameVersion
<1>4. /\ life \in Nat /\ life' \in Nat /\ life <= life'
      /\ row' # None /\ life' = life => row # None /\ row.revision <= row'.revision
      /\ row' # None /\ life' = life /\ row'.revision = row.revision => row' = row /\ aliases' = aliases
  BY StoreMovesOn, ZenonT(60)
<1>5. w.life <= life'
  BY <1>1, <1>3, <1>4
<1>6. ASSUME row' # None, w.life = life'
      PROVE  life' = life /\ row # None /\ w.revision <= row.revision /\ row.revision <= row'.revision
  BY <1>1, <1>3, <1>4, <1>6
<1>7. ASSUME row' # None, w.life = life', w.revision = row'.revision
      PROVE  w.main = row'.main /\ w.aliases = aliases'
  <2>1. life' = life /\ row # None /\ row'.revision = row.revision /\ w.revision = row.revision
    BY <1>1, <1>2, <1>6, <1>7
  <2> QED
    BY <1>3, <1>4, <1>7, <2>1, ZenonT(60)
<1> QED
  BY <1>1, <1>2, <1>5, <1>6, <1>7

\* A write leaves the policy as it was asked to.
LEMMA WriteLeavesPolicy ==
  ASSUME IInv, TaskType, NEW d \in Client, WritePolicy(d)
  PROVE  IsWritten(written[d])' /\ pc'[d] # "aliases"
<1>1. PICK m \in Main, names \in SUBSET Alias :
         /\ Put(d, m, names)
         /\ Wrote(d, [main |-> m, revision |-> row'.revision, aliases |-> names, life |-> life'])
  BY Zenon DEF WritePolicy
<1>2. written'[d] = [main |-> m, revision |-> row'.revision, aliases |-> names, life |-> life']
  BY <1>1, ZenonT(60) DEF Wrote, TaskType
<1>3. aliases' = names /\ row'.main = m /\ row'.revision \in Nat /\ life' \in Nat /\ pc'[d] = "respond"
  BY <1>1, SMTT(60) DEF Put, Create, Update, Expected, Respond, ReplaceAliases, IInv, TypeOK, Row
<1>4. written'[d] \in View
  BY <1>2, <1>3 DEF View
<1>5. /\ written'[d].life = life' /\ written'[d].revision = row'.revision
      /\ written'[d].main = row'.main /\ written'[d].aliases = aliases'
  BY <1>2, <1>3
<1> QED
  BY <1>3, <1>4, <1>5 DEF IsWritten

\* The row that is read back is the current one.
LEMMA RowIsShown ==
  ASSUME IInv, NEW d \in Client, NEW w \in View, IsWritten(w), Get(d), pc'[d] = "aliases"
  PROVE  Shows(view'[d], w)
<1>1. row # None /\ view'[d].life = life /\ view'[d].revision = row.revision /\ view'[d].main = row.main
  BY SMTT(60) DEF Get, ReadRow, IInv, TypeOK
<1>2. w.life \in Nat /\ w.revision \in Nat /\ life \in Nat /\ row.revision \in Nat
  BY <1>1 DEF View, IInv, TypeOK, Row
<1> QED
  BY <1>1, <1>2 DEF IsWritten, Shows, NotOlder, SameVersion, Stands

\* The answer of a write in progress stays one that is not older.
LEMMA AnswerStep == IInv /\ TaskType /\ AnswerInv /\ [ApiNext]_apiVars => AnswerInv'
<1> SUFFICES ASSUME IInv, TaskType, AnswerInv, [ApiNext]_apiVars, NEW d \in Client, task'[d] = "writing"
             PROVE  IsWritten(written[d])' /\ (pc'[d] = "aliases" => Shows(view'[d], written'[d]))
  BY Zenon DEF AnswerInv
\* A write that was in progress before.
<1>1. ASSUME task[d] = "writing", written'[d] = written[d] PROVE IsWritten(written[d])'
  <2>1. IsWritten(written[d]) /\ written[d] \in View
    BY <1>1, Zenon DEF AnswerInv, IsWritten
  <2>2. /\ written[d].life <= life'
        /\ row' # None /\ written[d].life = life' => written[d].revision <= row'.revision
        /\ row' # None /\ written[d].life = life' /\ written[d].revision = row'.revision
             => written[d].main = row'.main /\ written[d].aliases = aliases'
    BY <2>1, ApiStepsStore, WrittenStays, ZenonT(60)
  <2> QED
    BY <1>1, <2>1, <2>2 DEF IsWritten, Stands, SameVersion
<1>2. ASSUME task[d] = "writing", written'[d] = written[d], pc'[d] = pc[d], view'[d] = view[d], pc'[d] = "aliases"
      PROVE  Shows(view'[d], written'[d])
  BY <1>2, ZenonT(60) DEF AnswerInv
<1>3. ASSUME ReadBack(d)
      PROVE  task[d] = "writing" /\ written'[d] = written[d] /\ Shows(view'[d], written'[d])
  <2>1. ASSUME NEW s, s # "writing", Turn(d, s) PROVE FALSE
    BY <2>1, Zenon DEF Turn, TaskType
  <2>2. ASSUME Fails(d) PROVE FALSE
    BY <2>1, <2>2 DEF Fails
  <2>3. task[d] = "writing" /\ Get(d) /\ pc'[d] = "aliases" /\ UNCHANGED written
    BY <1>3, <2>1, <2>2, Zenon DEF ReadBack
  <2>4. IsWritten(written[d]) /\ written[d] \in View
    BY <2>3, Zenon DEF AnswerInv, IsWritten
  <2> QED
    BY <2>3, <2>4, RowIsShown, Zenon
<1>4. ASSUME \/ ListPolicies(d) \/ RejectPolicy(d) \/ DeletePolicy(d)
             \/ Bootstrap(d) \/ AskToAct(d) \/ Allow(d) \/ Perform(d) \/ Reconcile(d) \/ RecordAction(d)
      PROVE  FALSE
  <2>1. ASSUME NEW s, s # "writing", Turn(d, s) PROVE FALSE
    BY <2>1, Zenon DEF Turn, TaskType
  <2>2. ASSUME Fails(d) PROVE FALSE
    BY <2>1, <2>2 DEF Fails
  <2>3. CASE ListPolicies(d)
    BY <2>3 DEF ListPolicies
  <2> QED
    BY <1>4, <2>1, <2>2, <2>3, ZenonT(60) DEF RejectPolicy, DeletePolicy, Bootstrap, AskToAct, Allow, Perform,
       Reconcile, RecordAction
<1>5. ASSUME task'[d] = task[d], written'[d] = written[d], pc'[d] = pc[d], view'[d] = view[d]
      PROVE  IsWritten(written[d])' /\ (pc'[d] = "aliases" => Shows(view'[d], written'[d]))
  <2>1. task[d] = "writing"
    BY <1>5
  <2> QED
    BY <1>1, <1>2, <1>5, <2>1, Zenon
<1>6. CASE Clock \/ UNCHANGED apiVars
  BY <1>5, <1>6, Zenon DEF Clock, apiVars, vars
<1>7. CASE ~(Clock \/ UNCHANGED apiVars)
  <2>1. PICK c \in Client :
          \/ ListPolicies(c) \/ RejectPolicy(c) \/ WritePolicy(c) \/ ReadBack(c) \/ DeletePolicy(c)
          \/ Bootstrap(c) \/ AskToAct(c) \/ Allow(c) \/ Perform(c) \/ Reconcile(c) \/ RecordAction(c)
    BY <1>7, Zenon DEF ApiNext
  <2>2. CASE c # d
    BY <1>5, <2>1, <2>2, OthersUnmoved, Zenon
  <2>3. CASE c = d
    <3>1. WritePolicy(d) \/ ReadBack(d)
      BY <1>4, <2>1, <2>3, Zenon
    <3> QED
      BY <1>1, <1>3, <3>1, WriteLeavesPolicy, Zenon
  <2> QED
    BY <2>2, <2>3, Zenon
<1> QED
  BY <1>6, <1>7, ZenonT(60)

\* The invariant of the handlers.
THEOREM ApiInductive == ApiSpec => []ApiInv
<1>1. ApiInit => ApiInv
  <2> SUFFICES ASSUME ApiInit PROVE ApiInv
    BY Zenon
  <2>1. TaskType /\ AnswerInv
    BY Zenon DEF ApiInit, TaskType, AnswerInv, TaskState
  <2>2. LimiterInv
    BY NoneAssumption DEF ApiInit, LimiterInv, AdmittedAreSpaced
  <2> QED
    BY <2>1, <2>2 DEF ApiInv
<1>2. IInv /\ ApiInv /\ [ApiNext]_apiVars => ApiInv'
  BY TaskStep, LimiterStep, AnswerStep, Zenon DEF ApiInv
<1> QED
  BY <1>1, <1>2, ApiUsesStore, Inductive, PTL DEF ApiSpec

\* For any number of requests that race for the limiter, those it admits are an
\* interval apart.
THEOREM Spacing == ApiSpec => []AdmittedAreSpaced
<1>1. ApiInv => AdmittedAreSpaced
  BY DEF ApiInv, LimiterInv
<1> QED
  BY <1>1, ApiInductive, PTL

\* For any number of concurrent writers, the answer to a write shows the row of
\* this write or of a later one, and the very policy of this write while it stands.
THEOREM Answers == ApiSpec => AnswerIsCurrent
<1>1. IInv /\ ApiInv /\ [ApiNext]_apiVars
        => [\A c \in Client :
              task[c] = "writing" /\ task'[c] = "success" =>
                  /\ Shows(view'[c], written[c])
                  /\ Stands(written[c]) => view'[c] = written[c]]_apiVars
  <2> SUFFICES ASSUME IInv, ApiInv, ApiNext, NEW d \in Client, task[d] = "writing", task'[d] = "success"
               PROVE  Shows(view'[d], written[d]) /\ (Stands(written[d]) => view'[d] = written[d])
    BY Zenon DEF apiVars
  <2>1. ASSUME NEW c \in Client, c # d,
               \/ ListPolicies(c) \/ RejectPolicy(c) \/ WritePolicy(c) \/ ReadBack(c) \/ DeletePolicy(c)
               \/ Bootstrap(c) \/ AskToAct(c) \/ Allow(c) \/ Perform(c) \/ Reconcile(c) \/ RecordAction(c)
        PROVE  FALSE
    <3>1. task'[d] = task[d]
      BY <2>1, OthersUnmoved, Zenon DEF ApiInv
    <3> QED
      BY <3>1
  <2>2. ~Clock
    BY DEF Clock
  <2>3. ReadBack(d)
    <3>1. task[d] \notin Outcome \cup {"none", "authorized", "limited", "working"}
      BY DEF Outcome
    <3> QED
      BY <2>1, <2>2, <3>1, ZenonT(60) DEF ApiNext, ListPolicies, RejectPolicy, WritePolicy, DeletePolicy, Bootstrap,
         AskToAct, Allow, Perform, Reconcile, RecordAction
  <2>4. ReadAliases(d)
    <3>1. ASSUME Fails(d) PROVE FALSE
      BY <3>1 DEF Fails, Turn, ApiInv, TaskType
    <3>2. ~Turn(d, "failure") /\ task' # task
      BY DEF Turn, ApiInv, TaskType
    <3> QED
      BY <2>3, <3>1, <3>2, Zenon DEF ReadBack
  <2>5. pc[d] = "aliases" /\ view[d] \in View
    BY <2>4 DEF ReadAliases, IInv, ViewInv, TypeOK
  <2>6. view'[d] = [main |-> view[d].main, revision |-> view[d].revision,
                    aliases |-> aliases, life |-> view[d].life]
    BY <2>4, ZenonT(60) DEF ReadAliases, IInv, TypeOK
  <2>7. IsWritten(written[d]) /\ written[d] \in View /\ Shows(view[d], written[d])
    BY <2>5, Zenon DEF ApiInv, AnswerInv, IsWritten
  <2>8. Shows(view'[d], written[d])
    BY <2>6, <2>7 DEF Shows, NotOlder, SameVersion
  <2>9. ASSUME Stands(written[d]) PROVE view'[d] = written[d]
    <3>1. row # None /\ written[d].life = life /\ written[d].revision = row.revision /\ written[d].aliases = aliases
      BY <2>7, <2>9, Zenon DEF IsWritten, Stands, SameVersion
    <3>2. /\ view[d].life <= life
          /\ view[d].life = life => view[d].revision <= row.revision
      BY <2>5, <3>1, NoneAssumption, Zenon DEF IInv, ViewInv
    <3>3. view[d].life \in Nat /\ view[d].revision \in Nat /\ life \in Nat /\ row.revision \in Nat
      BY <2>5, <3>1 DEF View, IInv, TypeOK, Row
    <3>4. SameVersion(view[d], written[d])
      BY <2>7, <3>1, <3>2, <3>3 DEF Shows, NotOlder, SameVersion
    <3>5. view[d].main = written[d].main /\ view[d].revision = written[d].revision /\ view[d].life = written[d].life
      BY <2>7, <3>4, Zenon DEF Shows, SameVersion
    <3>6. written[d] = [main |-> written[d].main, revision |-> written[d].revision,
                        aliases |-> written[d].aliases, life |-> written[d].life]
      BY <2>7 DEF View
    <3> QED
      BY <2>6, <3>1, <3>5, <3>6, Zenon
  <2> QED
    BY <2>8, <2>9
<1> QED
  BY <1>1, ApiInductive, ApiUsesStore, Inductive, PTL DEF ApiSpec, AnswerIsCurrent

=============================================================================
