--------------------------- MODULE InfraredProofs ---------------------------
(***************************************************************************)
(* Proofs about Infrared for any servers, configurations and plans.        *)
(***************************************************************************)
EXTENDS Infrared, TLAPS

USE DEF disk, pass, Directory

\* The configurations rendered from an accepted plan form a directory, and
\* every route of the plan is rendered.
LEMMA RenderedPlan ==
  ASSUME NEW plan \in Plans, Accepted(plan)
  PROVE  /\ Rendered(plan) \in Directory
         /\ \A i \in 1..Len(plan) :
              /\ plan[i].server \in Server /\ plan[i].content \in Content
              /\ plan[i].content = Rendered(plan)[plan[i].server]
         /\ \A s \in Server : Rendered(plan)[s] # NoFile => \E i \in 1..Len(plan) : plan[i].server = s
<1>1. plan \in Seq(Route) /\ DOMAIN plan = 1..Len(plan)
  BY PlansAssumption
<1>2. \A i \in 1..Len(plan) : plan[i].server \in Server /\ plan[i].content \in Content
  <2> SUFFICES ASSUME NEW i \in 1..Len(plan)
               PROVE  plan[i].server \in Server /\ plan[i].content \in Content
    OBVIOUS
  <2>1. plan[i] \in Route
    BY <1>1
  <2> QED
    BY <2>1, <1>1 DEF Accepted, HasFilename, Renders, Route
<1>3. ASSUME NEW i \in 1..Len(plan)
      PROVE  Rendered(plan)[plan[i].server] = plan[i].content
  <2> DEFINE j == CHOOSE j \in DOMAIN plan : plan[j].server = plan[i].server
  <2>1. j \in DOMAIN plan /\ plan[j].server = plan[i].server
    BY <1>1
  <2>2. j = i
    BY <2>1, <1>1 DEF Accepted, HasFilename, Renders
  <2> QED
    BY <1>1, <1>2, <2>1, <2>2, Zenon DEF Rendered
<1>4. ASSUME NEW s \in Server
      PROVE  \/ Rendered(plan)[s] = NoFile
             \/ \E i \in 1..Len(plan) : plan[i].server = s /\ Rendered(plan)[s] \in Content
  <2>1. CASE \E i \in DOMAIN plan : plan[i].server = s
    BY <1>1, <1>2, <1>3, <2>1
  <2>2. CASE ~\E i \in DOMAIN plan : plan[i].server = s
    BY <2>2 DEF Rendered
  <2> QED
    BY <2>1, <2>2
<1>5. Rendered(plan) \in Directory
  BY <1>4 DEF Rendered
<1> QED
  BY <1>2, <1>3, <1>4, <1>5, SMTT(60)

\* A pass ends with an empty queue.
LEMMA EmptyQueue == <<>> \in Seq(Route) /\ Len(<<>>) = 0
OBVIOUS

\* The directory is empty and nothing is owed.
LEMMA InitIInv == Init => IInv
<1> SUFFICES ASSUME Init PROVE IInv
  OBVIOUS
<1>1. TypeOK
  BY EmptyQueue, ZenonT(60) DEF Init, TypeOK, NoFiles
<1> QED
  BY <1>1 DEF Init, IInv, WriteInv, RemoveInv, ReloadInv, ExactOnSuccess

\* A written file has its configuration, and its route leaves the queue.
LEMMA WriteStep ==
  ASSUME IInv, Write
  PROVE  IInv'
<1> USE DEF IInv, TypeOK, Write, NeedsUpdate, Replaced
<1> DEFINE r == Head(queue)
<1>1. /\ queue \in Seq(Route) /\ Len(queue) > 0 /\ r = queue[1]
      /\ Len(queue') = Len(queue) - 1
      /\ \A i \in 1..Len(queue') : queue'[i] = queue[i + 1]
  OBVIOUS
<1>2. r.server \in Server /\ r.content \in Content /\ r.content = desired[r.server]
  BY <1>1 DEF WriteInv
<1>3. TypeOK'
  BY <1>1, <1>2
<1>4. \A i \in 1..Len(queue') :
        /\ queue'[i].server \in Server /\ queue'[i].content \in Content
        /\ queue'[i].content = desired[queue'[i].server]
  BY <1>1 DEF WriteInv
<1>5. ASSUME quiet, NEW s \in Server, desired[s] # NoFile, files'[s] # desired[s]
      PROVE  \E i \in 1..Len(queue') : queue'[i].server = s
  <2>1. s # r.server
    BY <1>2, <1>5
  <2>2. PICK i \in 1..Len(queue) : queue[i].server = s
    BY <1>5, <2>1 DEF WriteInv
  <2>3. i - 1 \in 1..Len(queue') /\ (i - 1) + 1 = i /\ queue'[i - 1] = queue[i]
    BY <1>1, <2>1, <2>2
  <2>4. queue'[i - 1].server = s
    BY <2>2, <2>3, Zenon
  <2> QED
    BY <2>3, <2>4, Zenon
<1>6. WriteInv'
  BY <1>4, <1>5, SMTT(60) DEF WriteInv
<1>7. files' # files => changed'
  BY <1>1, <1>2, Zenon
<1> QED
  BY <1>3, <1>6, <1>7, EmptyQueue, SMTT(60) DEF RemoveInv, ReloadInv, ExactOnSuccess

\* Each step of a pass, and each change around it, keeps IInv.
LEMMA NextStep ==
  ASSUME IInv, [Next]_vars
  PROVE  IInv'
<1> USE DEF IInv, TypeOK
<1>1. CASE Synchronize
  BY <1>1, Zenon DEF Synchronize, WriteInv, RemoveInv, ReloadInv, ExactOnSuccess
<1>2. CASE Prepare
  <2>1. CASE Accepted(want)
    <3>1. TypeOK'
      BY <1>2, <2>1, RenderedPlan, PlansAssumption DEF Prepare
    <3>2. WriteInv'
      BY <1>2, <2>1, RenderedPlan, SMTT(60) DEF Prepare, WriteInv
    <3> QED
      BY <1>2, <2>1, <3>1, <3>2 DEF Prepare, RemoveInv, ReloadInv, ExactOnSuccess
  <2>2. CASE ~Accepted(want)
    BY <1>2, <2>2, EmptyQueue, Zenon DEF Prepare, Finish, WriteInv, RemoveInv, ReloadInv, ExactOnSuccess
  <2> QED
    BY <2>1, <2>2, SMTT(60)
<1>3. CASE Write
  BY <1>3, WriteStep
<1>4. CASE ReadDirectory
  BY <1>4 DEF ReadDirectory, Stale, WriteInv, RemoveInv, ReloadInv, ExactOnSuccess
<1>5. ASSUME NEW s \in Server, Remove(s)
      PROVE  IInv'
  BY <1>5 DEF Remove, WriteInv, RemoveInv, ReloadInv, ExactOnSuccess
<1>6. CASE Return
  <2>1. quiet => files = desired
    BY <1>6 DEF Return, RemoveInv
  <2>2. CASE Pending
    BY <1>6, <2>1, <2>2 DEF Return, WriteInv, RemoveInv, ReloadInv, ExactOnSuccess
  <2>3. CASE ~Pending
    BY <1>6, <2>1, <2>3, EmptyQueue, Zenon
       DEF Return, Pending, Finish, WriteInv, RemoveInv, ReloadInv, ExactOnSuccess
  <2> QED
    BY <2>2, <2>3
<1>7. CASE Reload
  BY <1>7, EmptyQueue, Zenon DEF Reload, Finish, WriteInv, RemoveInv, ReloadInv, ExactOnSuccess
<1>8. CASE PassFails
  BY <1>8, EmptyQueue, Zenon DEF PassFails, Finish, WriteInv, RemoveInv, ReloadInv, ExactOnSuccess
<1>9. CASE ReloadFails
  BY <1>9, EmptyQueue, Zenon DEF ReloadFails, Finish, WriteInv, RemoveInv, ReloadInv, ExactOnSuccess
<1>10. CASE Crash
  BY <1>10, EmptyQueue, ZenonT(60) DEF Crash, Finish, WriteInv, RemoveInv, ReloadInv, ExactOnSuccess
<1>11. CASE WantChanges
  BY <1>11, SMTT(60) DEF WantChanges, WriteInv, RemoveInv, ReloadInv, ExactOnSuccess
<1>12. CASE Tamper
  BY <1>12, ZenonT(60) DEF Tamper, WriteInv, RemoveInv, ReloadInv, ExactOnSuccess
<1>13. CASE UNCHANGED vars
  BY <1>13, SMTT(60) DEF vars, WriteInv, RemoveInv, ReloadInv, ExactOnSuccess
<1> HIDE DEF IInv, TypeOK
<1> QED
  BY <1>1, <1>2, <1>3, <1>4, <1>5, <1>6, <1>7, <1>8, <1>9, <1>10, <1>11, <1>12, <1>13, Zenon
  DEF Next, Work

\* What an undisturbed pass has done after each file operation, and that every
\* reload owed is remembered or known to be forgotten.
THEOREM Inductive == Spec => []IInv
<1>1. IInv /\ [Next]_vars => IInv'
  BY NextStep
<1> QED
  BY <1>1, InitIInv, PTL DEF Spec

\* The controller, its directory and its marker keep their types.
THEOREM TypeCorrect == Spec => []TypeOK
<1>1. IInv => TypeOK
  BY DEF IInv
<1> QED
  BY <1>1, Inductive, PTL

\* A pass that returns nil undisturbed leaves exactly the planned files.
THEOREM SuccessIsExact == Spec => []ExactOnSuccess
<1>1. IInv => ExactOnSuccess
  BY DEF IInv
<1> QED
  BY <1>1, Inductive, PTL

\* The pending flag does its work: a reload that failed is made up for.
THEOREM OwedReload == Spec => []ReloadUnlessForgotten
<1>1. IInv => ReloadUnlessForgotten
  BY DEF IInv, ReloadInv, ReloadUnlessForgotten
<1> QED
  BY <1>1, Inductive, PTL

\* The controller removes only obsolete files, and those after the writes.
THEOREM RemovalsLast == Spec => ObsoleteGoLast
<1> DEFINE Removal(s) ==
      files[s] # NoFile /\ files'[s] = NoFile /\ ~Tamper =>
          /\ desired[s] = NoFile
          /\ quiet => \A t \in Server : desired[t] # NoFile => files[t] = desired[t]
<1>1. IInv /\ [Next]_vars => [\A s \in Server : Removal(s)]_vars
  <2> SUFFICES ASSUME IInv, [Next]_vars, NEW s \in Server,
                      files[s] # NoFile, files'[s] = NoFile, ~Tamper
               PROVE  /\ desired[s] = NoFile
                      /\ quiet => \A t \in Server : desired[t] # NoFile => files[t] = desired[t]
    OBVIOUS
  <2>1. ~Write
    <3> SUFFICES ASSUME Write PROVE FALSE
      OBVIOUS
    <3>1. Head(queue).server \in Server /\ Head(queue).content \in Content
      BY SMTT(60) DEF Write, IInv, TypeOK, WriteInv
    <3> QED
      BY <3>1, ContentAssumption DEF Write, NeedsUpdate, Replaced, IInv, TypeOK
  <2>2. PICK t \in Server : Remove(t)
    BY <2>1, SMTT(60) DEF Next, Work, Synchronize, Prepare, ReadDirectory, Return, Reload, PassFails, ReloadFails,
       Crash, WantChanges, vars
  <2>3. t = s /\ pc = "remove" /\ s \in todo
    BY <2>2 DEF Remove, IInv, TypeOK
  <2> QED
    BY <2>3 DEF IInv, TypeOK, RemoveInv
<1> QED
  BY <1>1, Inductive, PTL DEF Spec, ObsoleteGoLast

\* A written file is a planned one.
LEMMA WriteIsMove ==
  ASSUME IInv, Write
  PROVE  Promise!Move \/ UNCHANGED files
<1> DEFINE r == Head(queue)
<1>1. r.server \in Server /\ r.content \in Content /\ r.content = desired[r.server]
  BY DEF Write, IInv, TypeOK, WriteInv
<1>2. desired[r.server] # NoFile
  BY <1>1, ContentAssumption, Zenon
<1>3. files' = [files EXCEPT ![r.server] = desired[r.server]] \/ UNCHANGED files
  BY <1>1, Zenon DEF Write, Replaced
<1>4. pc \in {"write", "remove", "reload"}
  BY DEF Write
<1> QED
  BY <1>1, <1>2, <1>3, <1>4, Zenon DEF Promise!Move, Promise!Put

\* A removed file is an obsolete one, and all the planned ones are in place.
LEMMA RemoveIsMove ==
  ASSUME IInv, NEW s \in Server, Remove(s)
  PROVE  Promise!Move
<1>1. s \in todo /\ pc = "remove" /\ files' = [files EXCEPT ![s] = NoFile]
  BY DEF Remove
<1>2. desired[s] = NoFile /\ (quiet => \A t \in Server : t \in todo \/ files[t] = desired[t])
  BY <1>1, Zenon DEF IInv, RemoveInv
<1>3. quiet => Promise!Complete
  BY <1>1, <1>2, Zenon DEF IInv, RemoveInv, Promise!Complete
<1>4. Promise!Clear(s)
  BY <1>1, <1>2, <1>3, Zenon DEF Promise!Clear
<1> QED
  BY <1>1, <1>4, Zenon DEF Promise!Move

\* Every step is a step of RouteTable, or none that RouteTable sees.
LEMMA StepKeepsPromise ==
  ASSUME IInv, IInv', [Next]_vars
  PROVE  [Promise!Next]_(Promise!vars)
<1> DEFINE busy == pc \in {"write", "remove", "reload"}
<1>1. TypeOK /\ TypeOK'
  BY DEF IInv
<1>2. CASE Synchronize
  <2>1. ~busy /\ UNCHANGED busy /\ outcome' = "none"
    BY <1>2 DEF Synchronize
  <2>2. quiet' \in BOOLEAN /\ UNCHANGED <<files, desired>>
    BY <1>2, Zenon DEF Synchronize
  <2>3. Promise!Start
    BY <2>1, <2>2 DEF Promise!Start
  <2> QED
    BY <2>3, Zenon DEF Promise!Next
<1>3. CASE Prepare /\ Accepted(want)
  <2>1. pc = "validate" /\ pc' = "write" /\ outcome = "none" /\ UNCHANGED <<files, quiet, outcome>>
    BY <1>3 DEF Prepare, IInv
  <2>2. Promise!Accept
    BY <1>1, <2>1 DEF Promise!Accept, Promise!Table, TypeOK
  <2> QED
    BY <2>2, Zenon DEF Promise!Next
<1>4. CASE Write \/ \E s \in Server : Remove(s)
  <2>1. Promise!Move \/ UNCHANGED files
    BY <1>4, WriteIsMove, RemoveIsMove, Zenon
  <2>2. UNCHANGED <<pc, desired, outcome, quiet>>
    BY <1>4 DEF Write, Remove
  <2>3. UNCHANGED <<busy, desired, quiet, IF outcome = "rejected" THEN "error" ELSE outcome>>
    BY <2>2
  <2> QED
    BY <2>1, <2>3, Zenon DEF Promise!Next, Promise!Work, Promise!vars
<1>5. CASE ReadDirectory \/ (Return /\ Pending) \/ WantChanges \/ UNCHANGED vars
  <2>1. UNCHANGED <<files, desired, outcome, quiet>> /\ (pc' = pc \/ {pc, pc'} \subseteq {"write", "remove", "reload"})
    BY <1>5 DEF ReadDirectory, Return, WantChanges, vars
  <2>2. UNCHANGED busy
    BY <2>1
  <2> QED
    BY <2>1, <2>2, Zenon DEF Promise!vars
<1>6. CASE Reload \/ (Return /\ ~Pending)
  <2>1. (quiet => files = desired) /\ busy
    BY <1>6, <1>1 DEF Reload, Return, IInv, TypeOK, RemoveInv, ReloadInv
  <2>2. quiet => Promise!Exact
    BY <2>1, Zenon DEF Promise!Exact, Promise!Complete
  <2>3. pc' = "idle" /\ outcome' = "ok" /\ UNCHANGED <<files, desired, quiet>>
    BY <1>6 DEF Reload, Return, Finish
  <2>4. Promise!Succeed
    BY <2>1, <2>2, <2>3 DEF Promise!Succeed
  <2> QED
    BY <2>4, ZenonT(60) DEF Promise!Next
<1>7. CASE (Prepare /\ ~Accepted(want)) \/ PassFails \/ ReloadFails \/ Crash
  <2>1. pc' = "idle" /\ outcome' \in {"rejected", "error"} /\ UNCHANGED <<files, desired, quiet>>
    BY <1>7 DEF Prepare, PassFails, ReloadFails, Crash, Finish
  <2>2. Promise!Fail
    BY <2>1 DEF Promise!Fail
  <2> QED
    BY <2>2, Zenon DEF Promise!Next
<1>8. CASE Tamper
  <2>1. quiet' = FALSE /\ UNCHANGED <<pc, desired, outcome>>
    BY <1>8 DEF Tamper
  <2>2. Promise!Others
    BY <1>1, <2>1 DEF Promise!Others, Promise!Table, TypeOK
  <2> QED
    BY <2>2, Zenon DEF Promise!Next
<1> QED
  BY <1>2, <1>3, <1>4, <1>5, <1>6, <1>7, <1>8, Zenon DEF Next, Work

\* Infrared implements RouteTable: files go straight to their planned contents,
\* additions before removals, and success means that the plan is applied.
THEOREM Implementation == Spec => KeepsPromise
<1>1. ASSUME Init PROVE Promise!Init
  <2>1. files \in Directory /\ desired \in Directory
    BY <1>1 DEF Init, NoFiles
  <2>2. pc = "idle" /\ outcome = "none" /\ quiet \in BOOLEAN
    BY <1>1, Zenon DEF Init
  <2>3. (pc \in {"write", "remove", "reload"}) = FALSE /\ (IF outcome = "rejected" THEN "error" ELSE outcome) = "none"
    BY <2>2
  <2> QED
    BY <2>1, <2>2, <2>3, Zenon DEF Promise!Init, Promise!Table
<1>2. IInv /\ IInv' /\ [Next]_vars => [Promise!Next]_(Promise!vars)
  BY StepKeepsPromise
<1> QED
  BY <1>1, <1>2, Inductive, PTL DEF Spec, KeepsPromise, Promise!Spec

\* Each step of a pass, and each restart, leaves a settled directory alone.
LEMMA SettledStep ==
  ASSUME IInv, Settled, [Next]_vars, want' = want, ~Tamper
  PROVE  Settled' /\ files' = files /\ (changed' => changed)
<1> DEFINE D == Rendered(want)
           Follows == pc \in {"write", "remove"} => desired = D
<1>1. D' = D /\ files = D /\ Follows
  BY ZenonT(60) DEF Settled, Rendered
<1> SUFFICES UNCHANGED files /\ Follows' /\ (changed' => changed)
  BY <1>1, Zenon DEF Settled
<1> HIDE DEF D
<1>2. CASE Synchronize \/ Reload \/ PassFails \/ ReloadFails \/ Crash
  <2>1. UNCHANGED files /\ pc' \in {"validate", "idle"} /\ changed' = FALSE
    BY <1>2, Zenon DEF Synchronize, Reload, PassFails, ReloadFails, Crash, Finish
  <2> QED
    BY <2>1
<1>3. CASE Prepare
  <2>1. CASE Accepted(want)
    BY <1>1, <1>3, <2>1, Zenon DEF Prepare, D
  <2>2. CASE ~Accepted(want)
    <3>1. UNCHANGED files /\ pc' = "idle" /\ changed' = FALSE
      BY <1>3, <2>2, Zenon DEF Prepare, Finish
    <3> QED
      BY <3>1
  <2> QED
    BY <2>1, <2>2, Zenon
<1>4. CASE Return
  <2>1. UNCHANGED files /\ pc' \in {"reload", "idle"} /\ (changed' => changed)
    BY <1>4, Zenon DEF Return, Finish
  <2> QED
    BY <2>1
<1>5. CASE ReadDirectory \/ WantChanges \/ UNCHANGED vars
  <2>1. UNCHANGED <<files, desired, changed>> /\ (pc' = pc \/ pc = "write")
    BY <1>5, Zenon DEF ReadDirectory, WantChanges, vars
  <2> QED
    BY <1>1, <2>1
<1>6. CASE Write
  <2> DEFINE r == Head(queue)
  <2>1. r.content = desired[r.server] /\ pc = "write"
    BY <1>6 DEF Write, IInv, TypeOK, WriteInv
  <2>2. ~NeedsUpdate(r)
    BY <1>1, <2>1 DEF NeedsUpdate
  <2>3. UNCHANGED <<files, pc, desired>> /\ (changed' => changed)
    BY <1>6, <2>2, Zenon DEF Write
  <2> QED
    BY <1>1, <2>3, Zenon
<1>7. ASSUME NEW s \in Server, Remove(s) PROVE FALSE
  <2>1. pc = "remove" /\ s \in todo /\ files[s] # NoFile
    BY <1>7, Zenon DEF Remove
  <2>2. desired[s] = NoFile /\ desired = D
    BY <1>1, <2>1 DEF IInv, RemoveInv
  <2> QED
    BY <1>1, <2>1, <2>2, Zenon
<1> QED
  BY <1>2, <1>3, <1>4, <1>5, <1>6, <1>7, Zenon DEF Next, Work

\* Once the files are those of the plan, failing passes, restarts and repeated
\* synchronization leave them alone and owe no reload for them: the part of
\* Convergence that needs no fairness.
THEOREM SettledForGood == Spec => StaysSettled
<1>1. ASSUME IInv, [Next]_vars
      PROVE  [Settled /\ want' = want /\ ~Tamper => Settled' /\ files' = files /\ (changed' => changed)]_vars
  BY <1>1, SettledStep, Zenon
<1> QED
  BY <1>1, Inductive, PTL DEF Spec, StaysSettled

=============================================================================
