-------------------------- MODULE ActivationProofs --------------------------
(***************************************************************************)
(* Proofs of the safety properties of Activation, for any number of        *)
(* requests, settings, inventories and policies.  IInv is inductive: each  *)
(* action has a lemma that it preserves IInv, in ActivationSteps or here.  *)
(* Each property follows from IInv, or from IInv and one step; so does     *)
(* that Activation implements SetupLifecycle.                              *)
(***************************************************************************)
EXTENDS ActivationSteps

USE DEF durable, process, locals, Goto

\* The row promoted is the one this setup staged; an update stores its
\* candidate.
LEMMA PersistStep ==
  ASSUME IInv, NEW p \in Proc, Persist(p)
  PROVE  IInv'
<1>1. pc[p] \in Locked /\ lock = p /\ LocalInv(p)
  BY Owner, Zenon DEF Persist, Locked, Refreshing, Activating, Either
<1>2. /\ pc'[p] = "publish" /\ cand'[p] = cand[p] /\ gen'[p] = gen[p]
      /\ prev'[p] = prev[p] /\ svc'[p] = svc[p] /\ target'[p] = target[p] /\ entry'[p] = entry[p]
      /\ \A q \in Proc \ {p} : pc'[q] = pc[q] /\ cand'[q] = cand[q]
  BY Zenon DEF IInv, TypeOK, Persist
<1>3. pc'[p] \in Locked
  BY <1>2, Zenon DEF Locked, Refreshing, Activating, Either
<1>a. active' = cand[p] /\ cand[p] \in Settings /\ pending' \in {pending, None} /\ p \in Activations
  <2>1. p \in Activations /\ cand[p] \in Settings
    BY <1>1, ZenonT(60) DEF IInv, TypeOK, Persist, LocalInv, KindInv, CandInv, Activating
  <2>2. CASE Promote(p)
    <3>1. pending = [gen |-> gen[p], value |-> cand[p]]
      BY <1>1, <2>2, Zenon DEF Persist, Promote, LocalInv, StageInv
    <3> QED
      BY <2>1, <2>2, <3>1, ZenonT(60) DEF Promote
  <2>3. CASE Save(p)
    BY <2>1, <2>3, Zenon DEF Save
  <2> QED
    BY <2>2, <2>3, Zenon DEF Persist
<1>4. TypeOK'
  BY <1>1, <1>2, <1>3, <1>a, SentinelAssumption, ZenonT(60) DEF IInv, TypeOK, Persist
<1>5. PhaseInv'
  BY <1>1, <1>2, <1>a, SentinelAssumption, ProcAssumption, ZenonT(60)
  DEF IInv, PhaseInv, Persist, Proc, Requests
<1>6. ConsistentInv' /\ TrackerInv'
  BY <1>1, <1>2, <1>3, <1>a, SentinelAssumption, ProcAssumption, ZenonT(60)
  DEF IInv, ConsistentInv, TrackerInv, Persist, Proc, Requests
<1>7. KindInv(p)' /\ CandInv(p)'
  BY <1>1, <1>2, <1>a, SentinelAssumption, ProcAssumption, ZenonT(60)
  DEF LocalInv, KindInv, CandInv, Persist, Activating
<1>8. SvcInv(p)' /\ TargetInv(p)'
  BY <1>1, <1>2, <1>a, SentinelAssumption, Zenon DEF LocalInv, SvcInv, TargetInv, Persist
<1>9. StageInv(p)' /\ EntryInv(p)'
  BY <1>1, <1>2, <1>a, SentinelAssumption, ProcAssumption, Zenon
  DEF LocalInv, StageInv, EntryInv, Persist, Activations
<1> QED
  BY <1>1, <1>2, <1>3, <1>4, <1>5, <1>6, <1>7, <1>8, <1>9, OwnerStep, ZenonT(60)
  DEF LocalInv, Persist

\* Nothing became durable.
LEMMA PersistFailsStep ==
  ASSUME IInv, NEW p \in Proc, PersistFails(p)
  PROVE  IInv'
<1>1. pc[p] \in Locked /\ lock = p /\ LocalInv(p)
  BY Owner, Zenon DEF PersistFails, Locked, Refreshing, Activating, Either
<1>2. /\ pc'[p] = "restore" /\ cand'[p] = cand[p] /\ gen'[p] = gen[p]
      /\ prev'[p] = prev[p] /\ svc'[p] = svc[p] /\ target'[p] = target[p] /\ entry'[p] = entry[p]
      /\ \A q \in Proc \ {p} : pc'[q] = pc[q] /\ cand'[q] = cand[q]
  BY Zenon DEF IInv, TypeOK, PersistFails
<1>3. pc'[p] \in Locked
  BY <1>2, Zenon DEF Locked, Refreshing, Activating, Either
<1>4. TypeOK'
  BY <1>1, <1>2, <1>3, ZenonT(60) DEF IInv, TypeOK, PersistFails
<1>5. PhaseInv'
  BY <1>1, <1>2, ProcAssumption, SMTT(60) DEF IInv, PhaseInv, PersistFails, Proc, Requests
<1>6. ConsistentInv' /\ TrackerInv'
  BY <1>1, <1>2, <1>3, ProcAssumption, ZenonT(60)
  DEF IInv, ConsistentInv, TrackerInv, PersistFails, Proc, Requests
<1>7. KindInv(p)' /\ CandInv(p)'
  BY <1>1, <1>2, ProcAssumption, Zenon DEF LocalInv, KindInv, CandInv, PersistFails, Activating
<1>8. SvcInv(p)' /\ TargetInv(p)'
  BY <1>1, <1>2, SentinelAssumption, Zenon DEF LocalInv, SvcInv, TargetInv, PersistFails
<1>9. StageInv(p)' /\ EntryInv(p)'
  BY <1>1, <1>2, ProcAssumption, Zenon
  DEF LocalInv, StageInv, EntryInv, PersistFails, Activations
<1> QED
  BY <1>1, <1>2, <1>3, <1>4, <1>5, <1>6, <1>7, <1>8, <1>9, OwnerStep, Zenon
  DEF LocalInv, PersistFails

\* The services published are those of the settings that became durable.
LEMMA PublishStep ==
  ASSUME IInv, NEW p \in Proc, Publish(p)
  PROVE  IInv'
<1>1. pc[p] \in Locked /\ lock = p /\ LocalInv(p)
  BY Owner, Zenon DEF Publish, Locked, Refreshing, Activating, Either
<1>2. /\ pc'[p] = "success" /\ cand'[p] = cand[p] /\ gen'[p] = gen[p]
      /\ prev'[p] = prev[p] /\ svc'[p] = svc[p] /\ target'[p] = target[p] /\ entry'[p] = entry[p]
      /\ \A q \in Proc \ {p} : pc'[q] = pc[q] /\ cand'[q] = cand[q]
  BY Zenon DEF IInv, TypeOK, Publish
<1>3. pc'[p] \in Locked
  BY <1>2, Zenon DEF Locked, Refreshing, Activating, Either
<1>4. TypeOK'
  BY <1>1, <1>2, <1>3, ZenonT(60) DEF IInv, TypeOK, Publish, NewServices, LocalInv, SvcInv
<1>5. PhaseInv'
  BY <1>1, <1>2, ProcAssumption, ZenonT(60) DEF IInv, PhaseInv, Publish, Proc, Requests
<1>6. ConsistentInv' /\ TrackerInv'
  BY <1>1, <1>2, <1>3, ProcAssumption, ZenonT(60)
  DEF IInv, ConsistentInv, TrackerInv, Publish, NewServices, Proc, Requests, LocalInv,
      CandInv, SvcInv, Consistent
<1>7. KindInv(p)' /\ CandInv(p)'
  BY <1>1, <1>2, ProcAssumption, ZenonT(60) DEF LocalInv, KindInv, CandInv, Publish, Activating
<1>8. SvcInv(p)' /\ TargetInv(p)'
  BY <1>1, <1>2, SentinelAssumption, Zenon DEF LocalInv, SvcInv, TargetInv, Publish, NewServices
<1>9. StageInv(p)' /\ EntryInv(p)'
  BY <1>1, <1>2, ProcAssumption, Zenon DEF LocalInv, StageInv, EntryInv, Publish, Activations
<1> QED
  BY <1>1, <1>2, <1>3, <1>4, <1>5, <1>6, <1>7, <1>8, <1>9, OwnerStep, Zenon
  DEF LocalInv, Publish

\* Compensation plans the previous services, which are still the published
\* ones.
LEMMA RestoreStep ==
  ASSUME IInv, NEW p \in Proc, Restore(p)
  PROVE  IInv'
<1>1. pc[p] \in Locked /\ lock = p /\ LocalInv(p)
  BY Owner, Zenon DEF Restore, Locked, Refreshing, Activating, Either
<1>2. /\ pc'[p] = "restoring" /\ cand'[p] = cand[p] /\ gen'[p] = gen[p]
      /\ prev'[p] = prev[p] /\ svc'[p] = svc[p] /\ target'[p] = RestorePlan(p) /\ entry'[p] = entry[p]
      /\ \A q \in Proc \ {p} : pc'[q] = pc[q] /\ cand'[q] = cand[q]
  BY Zenon DEF IInv, TypeOK, Restore, Touch
<1>3. pc'[p] \in Locked
  BY <1>2, Zenon DEF Locked, Refreshing, Activating, Either
<1>a. RestorePlan(p) \in Plan \cup {Empty}
  BY Zenon DEF IInv, TypeOK, RestorePlan, PlanOf, Plan, Service
<1>b. p \in Activations /\ prev[p] = published
  BY <1>1, Zenon DEF LocalInv, KindInv, EntryInv, Restore, Activating
<1>4. TypeOK'
  BY <1>1, <1>2, <1>3, <1>a, <1>b, ZenonT(60) DEF IInv, TypeOK, Restore, Touch
<1>5. PhaseInv'
  BY <1>1, <1>2, <1>a, <1>b, ProcAssumption, ZenonT(60) DEF IInv, PhaseInv, Restore, Proc, Requests
<1>6. ConsistentInv' /\ TrackerInv'
  BY <1>1, <1>2, <1>3, <1>a, <1>b, ProcAssumption, ZenonT(60)
  DEF IInv, ConsistentInv, TrackerInv, Restore, Touch, Proc, Requests
<1>7. KindInv(p)' /\ CandInv(p)'
  BY <1>1, <1>2, <1>a, <1>b, ProcAssumption, Zenon
  DEF LocalInv, KindInv, CandInv, Restore, Activating
<1>8. SvcInv(p)' /\ TargetInv(p)'
  <2>1. SvcInv(p)'
    BY <1>2, Zenon DEF SvcInv
  <2>2. phase = "serving" /\ \A q \in Activations : pc[q] # "publish"
    BY <1>1, <1>b, NotOwner, Labels, ZenonT(60) DEF Restore, IInv, PhaseInv, Proc, Requests
  <2>3. Consistent(active, published)
    BY <2>2, Zenon DEF IInv, ConsistentInv
  <2>4. active # None => target'[p] = PlanOf(published) /\ published # None /\ published.settings = active
    BY <1>2, <1>b, <2>3, Zenon DEF Restore, RestorePlan, Consistent
  <2>5. active = None => target'[p] = Empty
    BY <1>2, <1>b, <2>3, ZenonT(60) DEF RestorePlan, Consistent
  <2>6. active # None => target'[p] \in Plan
    BY <2>4 DEF IInv, TypeOK, PlanOf, Plan, Service
  <2>a. PlanOf(published).settings = published.settings /\ PlanOf(published).inv = published.inv
    BY Zenon DEF PlanOf
  <2>b. active' = active /\ published' = published
    BY Zenon DEF Restore
  <2>7. AimsAtDurable(p)'
    BY <2>4, <2>5, <2>6, <2>a, <2>b, Zenon DEF AimsAtDurable
  <2>8. TargetInv(p)'
    BY <1>2, <2>7, Zenon DEF TargetInv
  <2> QED
    BY <2>1, <2>8, Zenon
<1>9. StageInv(p)' /\ EntryInv(p)'
  BY <1>1, <1>2, <1>a, <1>b, ProcAssumption, Zenon
  DEF LocalInv, StageInv, EntryInv, Restore, Activations
<1> QED
  BY <1>1, <1>2, <1>3, <1>4, <1>5, <1>6, <1>7, <1>8, <1>9, OwnerStep, Zenon
  DEF LocalInv, Restore

\* Compensation changes only the backend.
LEMMA RestoreDoneStep ==
  ASSUME IInv, NEW p \in Proc, RestoreDone(p)
  PROVE  IInv'
<1>1. pc[p] \in Locked /\ lock = p /\ LocalInv(p)
  BY Owner, Zenon DEF RestoreDone, Locked, Refreshing, Activating, Either
<1>2. /\ pc'[p] = "failed" /\ cand'[p] = cand[p] /\ gen'[p] = gen[p]
      /\ prev'[p] = prev[p] /\ svc'[p] = svc[p] /\ target'[p] = target[p] /\ entry'[p] = entry[p]
      /\ \A q \in Proc \ {p} : pc'[q] = pc[q] /\ cand'[q] = cand[q]
  BY Zenon DEF IInv, TypeOK, RestoreDone
<1>3. pc'[p] \in Locked
  BY <1>2, Zenon DEF Locked, Refreshing, Activating, Either
<1>4. TypeOK'
  BY <1>1, <1>2, <1>3, ZenonT(60)
  DEF IInv, TypeOK, RestoreDone, Applied, LocalInv, TargetInv, AimsAtDurable
<1>5. PhaseInv'
  BY <1>1, <1>2, ProcAssumption, SMTT(60) DEF IInv, PhaseInv, RestoreDone, Proc, Requests
<1>6. ConsistentInv' /\ TrackerInv'
  BY <1>1, <1>2, <1>3, ProcAssumption, ZenonT(60)
  DEF IInv, ConsistentInv, TrackerInv, RestoreDone, Applied, Proc, Requests
<1>7. KindInv(p)' /\ CandInv(p)'
  BY <1>1, <1>2, ProcAssumption, Zenon DEF LocalInv, KindInv, CandInv, RestoreDone, Activating
<1>8. SvcInv(p)' /\ TargetInv(p)'
  BY <1>1, <1>2, SentinelAssumption, Zenon DEF LocalInv, SvcInv, TargetInv, RestoreDone, Applied
<1>9. StageInv(p)' /\ EntryInv(p)'
  BY <1>1, <1>2, ProcAssumption, Zenon
  DEF LocalInv, StageInv, EntryInv, RestoreDone, Activations
<1> QED
  BY <1>1, <1>2, <1>3, <1>4, <1>5, <1>6, <1>7, <1>8, <1>9, OwnerStep, Zenon
  DEF LocalInv, RestoreDone

\* A failed compensation changes nothing more.
LEMMA RestoreFailsStep ==
  ASSUME IInv, NEW p \in Proc, RestoreFails(p)
  PROVE  IInv'
<1>1. pc[p] \in Locked /\ lock = p /\ LocalInv(p)
  BY Owner, Zenon DEF RestoreFails, Locked, Refreshing, Activating, Either
<1>2. /\ pc'[p] = "failed" /\ cand'[p] = cand[p] /\ gen'[p] = gen[p]
      /\ prev'[p] = prev[p] /\ svc'[p] = svc[p] /\ target'[p] = target[p] /\ entry'[p] = entry[p]
      /\ \A q \in Proc \ {p} : pc'[q] = pc[q] /\ cand'[q] = cand[q]
  BY Zenon DEF IInv, TypeOK, RestoreFails
<1>3. pc'[p] \in Locked
  BY <1>2, Zenon DEF Locked, Refreshing, Activating, Either
<1>4. TypeOK'
  BY <1>1, <1>2, <1>3, ZenonT(60) DEF IInv, TypeOK, RestoreFails
<1>5. PhaseInv'
  BY <1>1, <1>2, ProcAssumption, SMTT(60) DEF IInv, PhaseInv, RestoreFails, Proc, Requests
<1>6. ConsistentInv' /\ TrackerInv'
  BY <1>1, <1>2, <1>3, ProcAssumption, ZenonT(60)
  DEF IInv, ConsistentInv, TrackerInv, RestoreFails, Proc, Requests
<1>7. KindInv(p)' /\ CandInv(p)'
  BY <1>1, <1>2, ProcAssumption, ZenonT(60) DEF LocalInv, KindInv, CandInv, RestoreFails, Activating
<1>8. SvcInv(p)' /\ TargetInv(p)'
  BY <1>1, <1>2, SentinelAssumption, Zenon DEF LocalInv, SvcInv, TargetInv, RestoreFails
<1>9. StageInv(p)' /\ EntryInv(p)'
  BY <1>1, <1>2, ProcAssumption, Zenon
  DEF LocalInv, StageInv, EntryInv, RestoreFails, Activations
<1> QED
  BY <1>1, <1>2, <1>3, <1>4, <1>5, <1>6, <1>7, <1>8, <1>9, OwnerStep, Zenon
  DEF LocalInv, RestoreFails

\* A setup that came too late releases the lock.
LEMMA StageFailsStep ==
  ASSUME IInv, NEW p \in Proc, StageFails(p)
  PROVE  IInv'
<1>1. lock = p /\ LocalInv(p)
  BY Owner, Zenon DEF StageFails, Locked, Refreshing, Activating, Either
<1>2. pc'[p] = "idle" /\ \A q \in Proc \ {p} : pc'[q] = pc[q] /\ cand'[q] = cand[q]
  BY ZenonT(60) DEF IInv, TypeOK, StageFails, Return
<1>3. TypeOK'
  BY SMTT(60) DEF IInv, TypeOK, Return, NoEntry, Outcome, PreLock, StageFails
<1>4. PhaseInv'
  BY <1>1, <1>2, ProcAssumption, Labels, ZenonT(60)
  DEF IInv, PhaseInv, LockInv, StageFails, StartingUp, Proc, Requests
<1>5. ConsistentInv' /\ TrackerInv'
  BY <1>1, <1>2, ProcAssumption, Labels, ZenonT(60)
  DEF IInv, LockInv, PhaseInv, ConsistentInv, Consistent, TrackerInv, LocalInv, CandInv,
      SvcInv, StageFails, StartingUp, Proc, Requests
<1>6. LocalInv(p)'
  BY <1>2, IdleHoldsNothing, ZenonT(60)
<1> QED
  BY <1>1, <1>2, <1>3, <1>4, <1>5, <1>6, OwnerStep, Labels, Zenon DEF StageFails

\* The tracker is updated and the lock released with settings and services in
\* agreement.
LEMMA SucceedStep ==
  ASSUME IInv, NEW p \in Proc, Succeed(p)
  PROVE  IInv'
<1>1. CASE Stop
  BY <1>1, StopStep, Zenon
<1>2. CASE /\ tracker' = Completed(OutcomeOf(p)) /\ lock' = None /\ phase' = "serving"
           /\ Return(p) /\ UNCHANGED <<durable, published, routes, world>>
  <2>1. lock = p /\ LocalInv(p)
    BY Owner, Zenon DEF Succeed, Locked, Refreshing, Activating, Either
  <2>2. pc'[p] = "idle" /\ \A q \in Proc \ {p} : pc'[q] = pc[q] /\ cand'[q] = cand[q]
    BY <1>2, ZenonT(60) DEF IInv, TypeOK, Return
  <2>3. TypeOK'
    BY <1>2, ZenonT(60) DEF IInv, TypeOK, Return, NoEntry, Outcome, PreLock, Completed, OutcomeOf
  <2>4. PhaseInv'
    BY <1>2, <2>1, <2>2, ProcAssumption, Labels, ZenonT(60)
    DEF IInv, PhaseInv, LockInv, Succeed, StartingUp, Proc, Requests
  <2>5. ConsistentInv' /\ TrackerInv'
    BY <1>2, <2>1, <2>2, ProcAssumption, Labels, ZenonT(60)
    DEF IInv, LockInv, PhaseInv, ConsistentInv, Consistent, TrackerInv, LocalInv, CandInv,
        SvcInv, Succeed, Completed, OutcomeOf, StartingUp, Proc, Requests
  <2>6. LocalInv(p)'
    BY <2>2, IdleHoldsNothing, ZenonT(60)
  <2> QED
    BY <1>2, <2>1, <2>2, <2>3, <2>4, <2>5, <2>6, OwnerStep, Labels, Zenon
<1> QED
  BY <1>1, <1>2, Zenon DEF Succeed

\* A failure is recorded and the lock released with everything as it was
\* found.
LEMMA FailStep ==
  ASSUME IInv, NEW p \in Proc, Fail(p)
  PROVE  IInv'
<1>1. CASE Stop
  BY <1>1, StopStep, Zenon
<1>2. CASE /\ ~StartingUp(p) /\ tracker' = Completed("failure") /\ lock' = None
           /\ Return(p) /\ UNCHANGED <<durable, phase, published, routes, world>>
  <2>1. lock = p /\ LocalInv(p)
    BY Owner, Zenon DEF Fail, Locked, Refreshing, Activating, Either
  <2>2. pc'[p] = "idle" /\ \A q \in Proc \ {p} : pc'[q] = pc[q] /\ cand'[q] = cand[q]
    BY <1>2, ZenonT(60) DEF IInv, TypeOK, Return
  <2>3. TypeOK'
    BY <1>2, ZenonT(60) DEF IInv, TypeOK, Return, NoEntry, Outcome, PreLock, Completed
  <2>4. PhaseInv'
    <3>1. phase \in {"down", "starting", "serving"} /\ pc[p] = "failed"
      BY Zenon DEF IInv, TypeOK, Fail
    <3>2. phase = "serving"
      BY <1>2, <3>1, ZenonT(60) DEF IInv, PhaseInv, StartingUp, Proc
    <3> QED
      BY <1>2, <3>2, ZenonT(60) DEF PhaseInv
  <2>5. ConsistentInv' /\ TrackerInv'
    BY <1>2, <2>1, <2>2, ProcAssumption, Labels, SMTT(60)
    DEF IInv, LockInv, PhaseInv, ConsistentInv, Consistent, TrackerInv, LocalInv, CandInv,
        SvcInv, Fail, Completed, StartingUp, Proc, Requests
  <2>6. LocalInv(p)'
    BY <2>2, IdleHoldsNothing, ZenonT(60)
  <2> QED
    BY <1>2, <2>1, <2>2, <2>3, <2>4, <2>5, <2>6, OwnerStep, Labels, Zenon
<1> QED
  BY <1>1, <1>2, Zenon DEF Fail

\* Every step of every goroutine, and every change around the process, keeps IInv.
LEMMA NextStep ==
  ASSUME IInv, [Next]_vars
  PROVE  IInv'
<1>1. CASE Boot
  BY <1>1, BootStep, Zenon
<1>2. CASE Exit \/ Crash
  BY <1>2, StopStep, Zenon DEF Exit, Crash
<1>3. ASSUME NEW p \in Proc, StartRefresh(p) \/ StartActivation(p)
      PROVE  IInv'
  BY <1>3, StartRefreshStep, StartActivationStep, Zenon
<1>4. ASSUME NEW p \in Proc, Step(p)
      PROVE  IInv'
  BY Zenon, <1>4, ValidateStep, ValidateFailsStep, AcquireStep, AcquireCancelledStep, BuildStep,
     LoadDomainStep, StageStep, StageFailsStep, PrepareStep, DiscoverStep, SyncStep,
     SyncDoneStep, StepFailsStep, PersistStep, PersistFailsStep, PublishStep, RestoreStep,
     RestoreDoneStep, RestoreFailsStep, SucceedStep, FailStep DEF Step
<1>5. ASSUME NEW p \in Proc, Cancel(p)
      PROVE  IInv'
  BY <1>5, CancelStep, ZenonT(60)
<1>6. CASE WorldChanges \/ PoliciesChange \/ BackendLosesRoutes
  BY <1>6, WorldChangesStep, PoliciesChangeStep, BackendLosesRoutesStep, Zenon
<1>7. CASE UNCHANGED vars
  BY <1>7, StutterStep, Zenon
<1> QED
  BY <1>1, <1>2, <1>3, <1>4, <1>5, <1>6, <1>7, Zenon DEF Next, Environment

-----------------------------------------------------------------------------

\* IInv is an inductive invariant: in every reachable state, for any number of
\* requests, the lock owner is the only goroutine between acquire and release,
\* and what it holds agrees with the store, the manager and the backend.
THEOREM Inductive == Spec => []IInv
<1>1. Init => IInv
  BY InitIInv, Zenon
<1>2. IInv /\ [Next]_vars => IInv'
  BY NextStep, Zenon
<1> QED
  BY <1>1, <1>2, PTL DEF Spec

\* The variables of RefreshTask, the store, the manager, the tracker and the
\* goroutines keep their types.
THEOREM TypeCorrect == Spec => []TypeOK
<1>1. IInv => TypeOK
  BY Zenon DEF IInv
<1> QED
  BY <1>1, Inductive, PTL

\* With no refresh or activation in flight, the services held by the manager
\* are those of the durable settings.
THEOREM PublishedServices == Spec => []PublishedIsDurable
<1>1. IInv => PublishedIsDurable
  BY NotOwner, Labels, ProcAssumption, Zenon
  DEF IInv, PublishedIsDurable, ConsistentInv, Consistent, Proc, Requests
<1> QED
  BY <1>1, Inductive, PTL

\* An activation that fails leaves the store and the manager as it found them,
\* in every order of failures, cancellations and environment steps.
THEOREM FailedActivation == Spec => []FailureChangesNothing
<1>1. IInv => FailureChangesNothing
  BY Zenon
  DEF IInv, FailureChangesNothing, LocalInv, EntryInv, Proc, Requests, Locked, Refreshing,
      Activating, Either
<1> QED
  BY <1>1, Inductive, PTL

\* The compensation of a failed activation targets what is durable and published.
THEOREM Compensation == Spec => []RestoreAimsAtDurable
<1>1. IInv => RestoreAimsAtDurable
  BY Zenon DEF IInv, RestoreAimsAtDurable, LocalInv, TargetInv, Proc, Requests
<1> QED
  BY <1>1, Inductive, PTL

\* A refresh works on the durable settings from loading them to publishing them,
\* although it reads them in two queries and keeps them across network calls.
THEOREM RefreshSettings == Spec => []RefreshUsesDurable
<1>1. IInv => RefreshUsesDurable
  BY ZenonT(60) DEF IInv, RefreshUsesDurable, LocalInv, CandInv, SvcInv
<1> QED
  BY <1>1, Inductive, PTL

\* GET /ready is positive only when services are published.
THEOREM Readiness == Spec => []ReadyMeansPublished
<1>1. IInv => ReadyMeansPublished
  BY Zenon DEF IInv, ReadyMeansPublished, Ready, TrackerInv
<1> QED
  BY <1>1, Inductive, PTL

\* The tracker shows no reconciliation in progress while the lock is free.
THEOREM ProgressFlag == Spec => []NoStuckProgress
<1>1. IInv => NoStuckProgress
  BY ProcAssumption, Zenon DEF IInv, NoStuckProgress, TrackerInv, LockInv
<1> QED
  BY <1>1, Inductive, PTL

-----------------------------------------------------------------------------

\* Persist is the only step that changes the durable settings, and it makes
\* durable the candidate of the goroutine that takes it.
LEMMA OnlyPersist ==
  ASSUME IInv, [Next]_vars, active' # active
  PROVE  \E p \in Activations : /\ lock = p /\ pc[p] = "persist" /\ active' = cand[p]
                                /\ p \in SetupRequests => active = None
<1>1. PICK p \in Proc : Persist(p)
  <2>1. ASSUME NEW p \in Proc, StartRefresh(p) \/ StartActivation(p) \/ Cancel(p)
        PROVE  active' = active
    BY <2>1, Zenon DEF StartRefresh, StartActivation, Cancel
  <2>2. ASSUME NEW p \in Proc, Step(p)
        PROVE  Persist(p) \/ active' = active
    BY <2>2, Zenon
    DEF Step, Validate, ValidateFails, Acquire, AcquireCancelled, Build, LoadDomain, Stage,
        StageFails, Prepare, Discover, Sync, SyncDone, StepFails, PersistFails, Publish,
        Restore, RestoreDone, RestoreFails, Succeed, Fail, Stop
  <2>3. ~(Boot \/ Exit \/ Crash \/ WorldChanges \/ PoliciesChange \/ BackendLosesRoutes \/ UNCHANGED vars)
    BY Zenon DEF Boot, Exit, Crash, Stop, WorldChanges, PoliciesChange, BackendLosesRoutes, vars
  <2> QED
    BY <2>1, <2>2, <2>3, Zenon DEF Next, Environment
<1>2. p \in Activations /\ lock = p /\ pc[p] = "persist"
  BY <1>1, Owner, Zenon DEF Persist, LocalInv, KindInv, Locked, Refreshing, Activating, Either
<1>3. CASE p \in UpdateRequests
  BY <1>1, <1>2, <1>3, ProcAssumption, Zenon DEF Persist, Promote, Save
<1>4. CASE p \in SetupRequests
  <2>1. active = None /\ pending = [gen |-> gen[p], value |-> cand[p]]
    BY <1>2, <1>4, Zenon DEF IInv, LocalInv, StageInv
  <2> QED
    BY <1>1, <1>2, <1>4, <2>1, ProcAssumption, Zenon DEF Persist, Promote, Save
<1> QED
  BY <1>2, <1>3, <1>4, Zenon DEF Activations

\* Setup completes once: a setup request that passed the unlocked check never
\* replaces settings that became active meanwhile.
THEOREM SetupOnce == Spec => SetupHappensOnce
<1>1. IInv /\ [Next]_vars => [active # None /\ active' # active =>
        \E u \in UpdateRequests : pc[u] = "persist" /\ active' = cand[u]]_vars
  BY OnlyPersist, Zenon DEF Activations
<1> QED
  BY <1>1, Inductive, PTL DEF Spec, SetupHappensOnce

\* Settings are made durable only after the backend served all their routes.
THEOREM Reconciled == Spec => DurableWasReconciled
<1>1. IInv /\ [Next]_vars => [active' # active =>
        \E p \in Activations :
            /\ lock = p /\ target[p] \in Plan /\ target[p].settings = active'
            /\ BackendVolatile \/ routes = target[p]]_vars
  <2> SUFFICES ASSUME IInv, [Next]_vars, active' # active
               PROVE  \E p \in Activations :
                        /\ lock = p /\ target[p] \in Plan /\ target[p].settings = active'
                        /\ BackendVolatile \/ routes = target[p]
    OBVIOUS
  <2>1. PICK p \in Activations : lock = p /\ pc[p] = "persist" /\ active' = cand[p]
    BY OnlyPersist, Zenon
  <2>2. p \in Proc
    BY Zenon DEF Proc, Requests
  <2> QED
    BY <2>1, <2>2, Zenon DEF IInv, LocalInv, TargetInv
<1> QED
  BY <1>1, Inductive, PTL DEF Spec, DurableWasReconciled

\* Only the end of the process withdraws the published services.
THEOREM LastKnownGood == Spec => NeverWithdrawn
<1>1. IInv /\ [Next]_vars => [published # None /\ published' = None => phase' = "down"]_vars
  <2> SUFFICES ASSUME IInv, [Next]_vars, published # None, published' = None
               PROVE  phase' = "down"
    OBVIOUS
  <2>1. ASSUME NEW p \in Proc, StartRefresh(p) \/ StartActivation(p) \/ Cancel(p)
        PROVE  FALSE
    BY <2>1, Zenon DEF StartRefresh, StartActivation, Cancel, process
  <2>2. ASSUME NEW p \in Proc, Build(p)
        PROVE  FALSE
    <3>1. pc[p] = "build" /\ active = None
      BY <2>2, Zenon DEF Build
    <3>2. phase # "serving" => published = None
      BY <3>1, ProcAssumption, Zenon DEF IInv, PhaseInv, LockInv, Proc, Requests
    <3>3. \A q \in Activations : pc[q] # "publish"
      BY <3>1, Owner, NotOwner, Labels, ProcAssumption, ZenonT(60)
      DEF LocalInv, KindInv, Proc, Requests, Locked, Refreshing, Activating, Either
    <3> QED
      BY <3>1, <3>2, <3>3, Zenon DEF IInv, ConsistentInv, Consistent
  <2>3. ASSUME NEW p \in Proc, Publish(p)
        PROVE  FALSE
    BY <2>3, Zenon DEF Publish, NewServices, IInv, LocalInv, SvcInv
  <2>4. ASSUME NEW p \in Proc, Step(p)
        PROVE  phase' = "down"
    BY <2>2, <2>3, <2>4, Zenon
    DEF Step, Validate, ValidateFails, Acquire, AcquireCancelled, LoadDomain, Stage,
        StageFails, Prepare, Discover, Sync, SyncDone, StepFails, Persist, Promote, Save,
        PersistFails, Restore, RestoreDone, RestoreFails, Succeed, Fail, Stop, process
  <2>5. CASE Boot \/ Exit \/ Crash \/ WorldChanges \/ PoliciesChange \/ BackendLosesRoutes \/ UNCHANGED vars
    BY <2>5, ZenonT(60)
    DEF Boot, Exit, Crash, Stop, WorldChanges, PoliciesChange, BackendLosesRoutes, vars,
        process
  <2> QED
    BY <2>1, <2>4, <2>5, Zenon DEF Next, Environment
<1> QED
  BY <1>1, Inductive, PTL DEF Spec, NeverWithdrawn

-----------------------------------------------------------------------------
\* Activation implements SetupLifecycle.  IInv says that the services of a
\* serving process are those of the durable settings unless an activation is
\* about to publish; only staging, promotion, publication, and the start and
\* the end of the process are visible.

\* An update was let in because setup was complete, which it remains.
UpdateInv == \A u \in UpdateRequests : pc[u] # "idle" => active # None

\* UpdateInv holds throughout: settings are never deleted.
LEMMA UpdatesFollowSetup == Spec => []UpdateInv
<1>1. Init => UpdateInv
  BY ZenonT(60) DEF Init, UpdateInv, Proc, Requests, Activations
<1>2. IInv /\ UpdateInv /\ [Next]_vars => UpdateInv'
  <2> SUFFICES ASSUME IInv, UpdateInv, [Next]_vars PROVE UpdateInv'
    OBVIOUS
  <2>1. active # None => active' # None
    <3>1. \A p \in Activations : pc[p] = "persist" => cand[p] # None
      BY Zenon DEF IInv, LocalInv, CandInv, Proc, Requests
    <3> QED
      BY <3>1, OnlyPersist, Zenon
  <2>2. ASSUME NEW u \in UpdateRequests, pc[u] = "idle", pc'[u] # "idle"
        PROVE  StartActivation(u)
    <3>1. u \in Proc /\ u \in Activations /\ u # Scheduler /\ u \notin ManualRefreshes
      BY ProcAssumption, Zenon DEF Proc, Requests, Activations
    <3>2. ASSUME NEW p \in Proc, StartRefresh(p) \/ Cancel(p) PROVE FALSE
      BY <2>2, <3>1, <3>2, ZenonT(60) DEF StartRefresh, Cancel, IInv, TypeOK
    <3>3. ASSUME NEW p \in Proc, StartActivation(p) PROVE p = u
      BY <2>2, <3>1, <3>3, ZenonT(60) DEF StartActivation, IInv, TypeOK
    <3>4. ASSUME NEW p \in Proc, Step(p) PROVE FALSE
      <4>1. pc[p] # "idle"
        BY <3>4, Zenon
        DEF Step, Validate, ValidateFails, Acquire, AcquireCancelled, Build, LoadDomain, Stage,
            StageFails, Prepare, Discover, Sync, SyncDone, StepFails, Persist, PersistFails,
            Publish, Restore, RestoreDone, RestoreFails, Succeed, Fail
      <4>2. Stop \/ \E label : Goto(p, label)
        BY <3>4, Zenon
        DEF Step, Validate, ValidateFails, Acquire, AcquireCancelled, Build, LoadDomain, Stage,
            StageFails, Prepare, Discover, Sync, SyncDone, StepFails, Persist, PersistFails,
            Publish, Restore, RestoreDone, RestoreFails, Succeed, Fail, Return
      <4>3. ~Stop
        BY <2>2, <3>1, Zenon DEF Stop
      <4>4. pc'[u] = pc[u]
        BY <2>2, <3>1, <4>1, <4>2, <4>3, ZenonT(60) DEF IInv, TypeOK
      <4> QED
        BY <2>2, <4>4, Zenon
    <3>5. CASE Boot \/ Exit \/ Crash \/ WorldChanges \/ PoliciesChange \/ BackendLosesRoutes \/ UNCHANGED vars
      <4>1. CASE Boot
        BY <2>2, <3>1, <4>1, ZenonT(60) DEF Boot, IInv, TypeOK
      <4>2. CASE Exit \/ Crash
        <5>1. Stop
          BY <4>2, Zenon DEF Exit, Crash
        <5> QED
          BY <2>2, <3>1, <5>1, Zenon DEF Stop
      <4>3. CASE WorldChanges \/ PoliciesChange \/ BackendLosesRoutes \/ UNCHANGED vars
        <5>1. pc' = pc
          BY <4>3, Zenon DEF WorldChanges, PoliciesChange, BackendLosesRoutes, vars
        <5> QED
          BY <2>2, <5>1, Zenon
      <4> QED
        BY <3>5, <4>1, <4>2, <4>3, Zenon
    <3> QED
      BY <2>2, <3>2, <3>3, <3>4, <3>5, Zenon DEF Next, Environment
  <2>3. \A u \in UpdateRequests : StartActivation(u) => active # None
    BY ProcAssumption, Zenon DEF StartActivation
  <2> QED
    BY <2>1, <2>2, <2>3, Zenon DEF UpdateInv
<1> QED
  BY <1>1, <1>2, Inductive, PTL DEF Spec

\* While one goroutine holds the lock elsewhere, no activation is about to publish.
LEMMA NoLag ==
  ASSUME IInv, NEW p \in Proc, pc[p] \in Locked, p \notin Activations \/ pc[p] # "publish"
  PROVE  ~Lag
<1> SUFFICES ASSUME NEW q \in Activations, pc[q] = "publish" PROVE FALSE
  BY Zenon DEF Lag
<1>1. q \in Proc /\ pc[q] \in Locked
  BY Zenon DEF Proc, Requests, Locked, Either
<1>2. lock = p /\ lock = q
  BY <1>1, Owner, Zenon
<1> QED
  BY <1>2, Zenon

\* The lag changes only with the control of an activation that reaches or leaves publication.
LEMMA LagKept ==
  ASSUME NEW p \in Proc, \A q \in Proc \ {p} : pc'[q] = pc[q],
         p \notin Activations \/ (pc[p] # "publish" /\ pc'[p] # "publish")
  PROVE  UNCHANGED Lag
<1>1. \A q \in Activations : q \in Proc
  BY Zenon DEF Proc, Requests
<1>2. \A q \in Activations : pc'[q] = "publish" <=> pc[q] = "publish"
  BY <1>1, Zenon
<1>3. Lag' <=> Lag
  BY <1>2, Zenon DEF Lag
<1> QED
  BY <1>3, Zenon

\* Nothing that SetupLifecycle sees has changed.
LEMMA Invisible ==
  ASSUME UNCHANGED <<active, pending, phase, published, Lag>>
  PROVE  UNCHANGED Setup!vars
<1>1. UNCHANGED Served
  BY Zenon DEF Served
<1> QED
  BY <1>1, Zenon DEF Setup!vars

\* The end of the process.
LEMMA StopIsStop ==
  ASSUME IInv, Stop
  PROVE  [Setup!Next]_(Setup!vars)
<1>1. ~Lag' /\ phase' = "down" /\ UNCHANGED <<active, pending>>
  BY Zenon DEF Stop, Lag, Proc, Requests
<1>2. Served' = None
  BY <1>1 DEF Served
<1>3. CASE phase = "serving"
  <2>1. Setup!Stop
    BY <1>1, <1>2, <1>3 DEF Setup!Stop
  <2> QED
    BY <2>1, Zenon DEF Setup!Next
<1>4. CASE phase # "serving"
  <2>1. ~Lag
    BY <1>4 DEF IInv, PhaseInv, Lag, Requests
  <2>2. UNCHANGED (phase = "serving")
    BY <1>1, <1>4
  <2>3. UNCHANGED Served
    BY <1>2, <1>4 DEF Served
  <2>4. Lag' <=> Lag
    BY <1>1, <2>1, Zenon
  <2> QED
    BY <1>1, <2>2, <2>3, <2>4, Zenon DEF Setup!vars
<1> QED
  BY <1>3, <1>4

\* A request holds the lock only while the process serves.
LEMMA Serving ==
  ASSUME IInv, NEW p \in Activations, pc[p] # "idle"
  PROVE  phase = "serving" /\ p \in Proc
BY Zenon DEF IInv, PhaseInv, Requests, Proc

\* A pending setup is staged.
LEMMA StageIsStage ==
  ASSUME IInv, NEW p \in Proc, Stage(p)
  PROVE  Setup!Next
<1>1. p \in Activations /\ pc[p] = "stage" /\ pc[p] \in Locked /\ pc'[p] = "prepare"
  BY ZenonT(60) DEF Stage, IInv, TypeOK, LocalInv, KindInv, Activations, Locked, Activating
<1>2. phase = "serving" /\ cand[p] \in Settings
  BY <1>1, Serving, ZenonT(60) DEF IInv, TypeOK, LocalInv, CandInv
<1>3. ~Lag /\ UNCHANGED Lag
  BY <1>1, NoLag, LagKept, ZenonT(60) DEF Stage, IInv, TypeOK
<1>4. UNCHANGED <<active, phase, Served>>
  BY Zenon DEF Stage, Served
<1>5. PICK g \in Generations : pending' = [gen |-> g, value |-> cand[p]]
  BY Zenon DEF Stage, FreshGenerations
<1>6. pending' # None /\ pending'.value = cand[p]
  BY <1>2, <1>5, SentinelAssumption DEF Pending
<1>7. active = None /\ (IF pending' = None THEN None ELSE pending'.value) = cand[p]
  BY <1>6, Zenon DEF Stage, StillIncomplete
<1>8. UNCHANGED (phase = "serving")
  BY <1>4
<1>9. Setup!Stage(cand[p])
  BY <1>2, <1>3, <1>4, <1>7, <1>8, Zenon DEF Setup!Stage
<1> QED
  BY <1>2, <1>9, Zenon DEF Setup!Next

\* Settings are promoted or replaced.
LEMMA PersistIsChange ==
  ASSUME IInv, UpdateInv, NEW p \in Proc, Persist(p)
  PROVE  Setup!Next
<1>1. p \in Activations /\ pc[p] = "persist" /\ pc[p] \in Locked /\ pc'[p] = "publish"
  BY Zenon DEF Persist, IInv, TypeOK, LocalInv, KindInv, Locked, Activating
<1>2. phase = "serving" /\ cand[p] \in Settings
  BY <1>1, Serving, ZenonT(60) DEF IInv, TypeOK, LocalInv, CandInv
<1>3. ~Lag /\ Lag'
  BY <1>1, NoLag, Zenon DEF Lag
<1>4. UNCHANGED <<phase = "serving", Served>>
  BY DEF Persist, Served
<1>5. CASE Promote(p)
  <2>1. active = None /\ pending # None /\ active' = pending.value /\ pending' = None
    BY <1>1, <1>5, ZenonT(60) DEF Promote, IInv, LocalInv, StageInv
  <2>2. pending.value \in Settings
    BY <2>1, SentinelAssumption, ZenonT(60) DEF IInv, TypeOK, Pending
  <2>3. pending.value # None
    BY <2>2, SentinelAssumption, Zenon
  <2>4. Setup!Promote
    BY <1>2, <1>3, <1>4, <2>1, <2>3 DEF Setup!Promote
  <2> QED
    BY <2>4, Zenon DEF Setup!Next
<1>6. CASE Save(p)
  <2>1. active # None
    BY <1>1, <1>6 DEF Save, UpdateInv
  <2>2. Setup!Update(cand[p])
    BY <1>2, <1>3, <1>4, <1>6, <2>1 DEF Save, Setup!Update
  <2> QED
    BY <1>2, <2>2, Zenon DEF Setup!Next
<1> QED
  BY <1>5, <1>6, Zenon DEF Persist

\* An activation publishes what it has made durable; a refresh publishes
\* services of the same settings.
LEMMA PublishIsPublish ==
  ASSUME IInv, NEW p \in Proc, Publish(p)
  PROVE  [Setup!Next]_(Setup!vars)
<1>1. pc[p] = "publish" /\ pc[p] \in Locked /\ pc'[p] = "success" /\ \A q \in Proc \ {p} : pc'[q] = pc[q]
  BY Zenon DEF Publish, IInv, TypeOK, Locked, Either
<1>2. active # None /\ svc[p] # None /\ svc[p].settings = active
  BY <1>1, Zenon DEF IInv, LocalInv, CandInv, SvcInv
<1>3. published' = svc[p] /\ UNCHANGED <<active, pending, phase>>
  BY Zenon DEF Publish, NewServices
<1>4. UNCHANGED (phase = "serving")
  BY <1>3
<1>5. CASE p \in Activations
  <2>1. phase = "serving"
    BY <1>1, <1>5, Serving, Zenon
  <2>2. Lag
    BY <1>1, <1>5, Zenon DEF Lag
  <2>3. ~Lag'
    <3>1. \A q \in Activations : q \in Proc
      BY Zenon DEF Proc, Requests
    <3>2. \A q \in Proc \ {p} : pc[q] \notin Locked
      BY <1>1, Owner, Zenon
    <3>3. \A q \in Activations : pc'[q] # "publish"
      BY <1>1, <3>1, <3>2, Zenon DEF Locked, Either
    <3> QED
      BY <3>3, Zenon DEF Lag
  <2>4. Served' = active
    BY <1>2, <1>3, <2>1, Zenon DEF Served
  <2>5. Setup!Publish
    BY <1>3, <1>4, <2>2, <2>3, <2>4 DEF Setup!Publish
  <2> QED
    BY <2>5, Zenon DEF Setup!Next
<1>6. CASE p \notin Activations
  <2>1. ~Lag /\ UNCHANGED Lag
    BY <1>1, <1>6, NoLag, LagKept, Zenon
  <2>2. phase = "serving" => published # None /\ published.settings = active
    BY <1>2, <2>1, Zenon DEF Lag, IInv, ConsistentInv, Consistent
  <2>3. UNCHANGED Served
    BY <1>2, <1>3, <2>2, Zenon DEF Served
  <2> QED
    BY <1>3, <1>4, <2>1, <2>3, Zenon DEF Setup!vars
<1> QED
  BY <1>5, <1>6, Zenon

\* The startup refresh ends with services of the durable settings, or with none
\* if there are no settings; the end of any other operation is not visible.
LEMMA SucceedIsStart ==
  ASSUME IInv, NEW p \in Proc, Succeed(p), ~Stop
  PROVE  [Setup!Next]_(Setup!vars)
<1>1. pc[p] \in {"success", "unconfigured"} /\ phase' = "serving" /\ UNCHANGED <<active, pending, published>>
  BY Zenon DEF Succeed
<1>2. Return(p)
  BY Zenon DEF Succeed
<1>3. pc[p] \in Locked /\ pc[p] # "publish" /\ pc'[p] = "idle" /\ \A q \in Proc \ {p} : pc'[q] = pc[q]
  BY <1>1, <1>2, ZenonT(60) DEF Return, IInv, TypeOK, Locked, Either
<1>4. ~Lag /\ UNCHANGED Lag
  BY <1>3, NoLag, LagKept, Zenon
<1>5. CASE phase = "serving"
  <2>1. UNCHANGED <<active, pending, phase, published, Lag>>
    BY <1>1, <1>4, <1>5, Zenon
  <2> QED
    BY <2>1, Invisible, Zenon
<1>6. CASE phase # "serving"
  <2>1. IF active = None THEN published = None ELSE published # None /\ published.settings = active
    BY <1>1, Zenon DEF IInv, LocalInv, CandInv, SvcInv
  <2>2. Served' = active
    BY <1>1, <2>1, Zenon DEF Served
  <2>3. Setup!Start
    BY <1>1, <1>4, <1>6, <2>2 DEF Setup!Start
  <2> QED
    BY <2>3, Zenon DEF Setup!Next
<1> QED
  BY <1>5, <1>6, Zenon

\* A refresh that finds no settings withdraws services that were not there.
LEMMA BuildIsInvisible ==
  ASSUME IInv, NEW p \in Proc, Build(p)
  PROVE  UNCHANGED Setup!vars
<1>1. pc[p] = "build" /\ pc[p] \in Locked /\ p \notin Activations
  BY Zenon DEF Build, IInv, LocalInv, KindInv, Locked, Refreshing
<1>2. \A q \in Proc \ {p} : pc'[q] = pc[q]
  BY Zenon DEF Build, IInv, TypeOK
<1>3. ~Lag /\ UNCHANGED Lag
  BY <1>1, <1>2, NoLag, LagKept, Zenon
<1>4. UNCHANGED <<active, pending, phase>> /\ (published' = published \/ (active = None /\ published' = None))
  BY Zenon DEF Build
<1>5. active = None /\ phase = "serving" => published = None
  BY <1>3, Zenon DEF Lag, IInv, ConsistentInv, Consistent
<1>6. UNCHANGED Served
  BY <1>4, <1>5, Zenon DEF Served
<1>7. UNCHANGED (phase = "serving")
  BY <1>4
<1> QED
  BY <1>3, <1>4, <1>6, <1>7, Zenon DEF Setup!vars

\* The other steps of a goroutine.
LEMMA OtherStepsAreInvisible ==
  ASSUME IInv, NEW p \in Proc, ~Stop,
         \/ StartRefresh(p) \/ StartActivation(p) \/ Cancel(p)
         \/ Validate(p) \/ ValidateFails(p) \/ Acquire(p) \/ AcquireCancelled(p)
         \/ LoadDomain(p) \/ StageFails(p) \/ Prepare(p) \/ Discover(p) \/ Sync(p)
         \/ SyncDone(p) \/ StepFails(p) \/ PersistFails(p)
         \/ Restore(p) \/ RestoreDone(p) \/ RestoreFails(p) \/ Fail(p)
  PROVE  UNCHANGED Setup!vars
<1>1. UNCHANGED <<active, pending, phase, published>>
  BY Zenon
  DEF StartRefresh, StartActivation, Cancel, Validate, ValidateFails, Acquire,
      AcquireCancelled, LoadDomain, StageFails, Prepare, Discover, Sync, SyncDone, StepFails,
      PersistFails, Restore, RestoreDone, RestoreFails, Fail
<1>2. CASE Cancel(p)
  BY <1>1, <1>2, Invisible, Zenon DEF Cancel, Lag
<1>3. CASE ~Cancel(p)
  <2>1. pc[p] # "publish"
    BY <1>3, Zenon
    DEF StartRefresh, StartActivation, Validate, ValidateFails, Acquire, AcquireCancelled,
        LoadDomain, StageFails, Prepare, Discover, Sync, SyncDone, StepFails, PersistFails,
        Restore, RestoreDone, RestoreFails, Fail
  <2>2. \E label : Goto(p, label)
    BY <1>3, Zenon
    DEF StartRefresh, StartActivation, Validate, ValidateFails, Acquire, AcquireCancelled,
        LoadDomain, StageFails, Prepare, Discover, Sync, SyncDone, StepFails,
        PersistFails, Restore, RestoreDone, RestoreFails, Fail, Return
  <2>3. CASE Acquire(p) \/ SyncDone(p) \/ StepFails(p)
    <3>1. p \in Activations => pc'[p] \in {"stage", "prepare", "build", "persist", "restore", "failed"}
      BY <2>3, ZenonT(60) DEF Acquire, SyncDone, StepFails, AfterFailure, IInv, TypeOK
    <3>2. UNCHANGED Lag
      BY <2>1, <2>2, <3>1, LagKept, ZenonT(60) DEF IInv, TypeOK
    <3> QED
      BY <1>1, <3>2, Invisible, ZenonT(60)
  <2>4. CASE ~(Acquire(p) \/ SyncDone(p) \/ StepFails(p))
    <3>1. pc'[p] # "publish"
      BY <1>3, <2>4, ZenonT(60)
      DEF StartRefresh, StartActivation, Validate, ValidateFails, AcquireCancelled,
          LoadDomain, StageFails, Prepare, Discover, Sync, PersistFails, Restore, RestoreDone,
          RestoreFails, Fail, Return, IInv, TypeOK
    <3>2. UNCHANGED Lag
      BY <2>1, <2>2, <3>1, LagKept, ZenonT(60) DEF IInv, TypeOK
    <3> QED
      BY <1>1, <3>2, Invisible, Zenon
  <2> QED
    BY <2>3, <2>4, Zenon
<1> QED
  BY <1>2, <1>3, Zenon

\* Every step is a step of SetupLifecycle, or none that SetupLifecycle sees.
LEMMA StepFollowsLifecycle ==
  ASSUME IInv, UpdateInv, [Next]_vars
  PROVE  [Setup!Next]_(Setup!vars)
<1>1. CASE Stop
  BY <1>1, StopIsStop, Zenon
<1>2. ASSUME NEW p \in Proc, StartRefresh(p) \/ StartActivation(p) \/ Cancel(p) \/ Step(p), ~Stop
      PROVE  [Setup!Next]_(Setup!vars)
  BY <1>2, StageIsStage, PersistIsChange, PublishIsPublish, SucceedIsStart, BuildIsInvisible,
     OtherStepsAreInvisible, Zenon
  DEF Step
<1>3. CASE Boot
  <2>1. UNCHANGED <<active, pending, published>> /\ phase = "down" /\ phase' = "starting"
    BY <1>3, Zenon DEF Boot
  <2>2. UNCHANGED (phase = "serving")
    BY <2>1
  <2>3. UNCHANGED Served
    BY <2>1 DEF Served
  <2>4. UNCHANGED Lag
    BY <1>3, LagKept, ProcAssumption, ZenonT(60) DEF Boot, IInv, TypeOK, Proc, Requests
  <2> QED
    BY <2>1, <2>2, <2>3, <2>4, Zenon DEF Setup!vars
<1>4. CASE WorldChanges \/ PoliciesChange \/ BackendLosesRoutes \/ UNCHANGED vars
  <2>1. UNCHANGED <<active, pending, phase, published, pc>>
    BY <1>4, Zenon DEF WorldChanges, PoliciesChange, BackendLosesRoutes, vars
  <2> QED
    BY <2>1, Invisible, Zenon DEF Lag
<1> QED
  BY <1>1, <1>2, <1>3, <1>4, Zenon DEF Next, Environment, Exit, Crash

\* Activation implements SetupLifecycle: whatever interleaves, fails or
\* restarts, settings are promoted once and then only updated, and a serving
\* process answers from the durable settings but for the moment between a
\* change and its publication.
THEOREM Implementation == Spec => FollowsSetupLifecycle
<1>1. ASSUME Init PROVE Setup!Init
  <2>1. active = None /\ pending = None /\ phase = "down"
    BY <1>1, Zenon DEF Init
  <2>2. ~Lag
    BY <1>1, Zenon DEF Init, Lag, Proc, Requests
  <2>3. Served = None
    BY <2>1 DEF Served
  <2> QED
    BY <2>1, <2>2, <2>3 DEF Setup!Init
<1>2. IInv /\ UpdateInv /\ [Next]_vars => [Setup!Next]_(Setup!vars)
  BY StepFollowsLifecycle, Zenon
<1> QED
  BY <1>1, <1>2, Inductive, UpdatesFollowSetup, PTL DEF Spec, FollowsSetupLifecycle, Setup!Spec

-----------------------------------------------------------------------------
\* A settled system stays settled, whatever refreshes do: the safety half of
\* Convergence.

\* Settled looks at the goroutine that moves, as long as nothing visible changes.
LEMMA SettledFrame ==
  ASSUME Settled, NEW p \in Proc, phase' = "serving",
         UNCHANGED <<active, published, routes, world, policies>>,
         \A q \in Proc \ {p} : pc'[q] = pc[q] /\ svc'[q] = svc[q] /\ target'[q] = target[q],
         p \in Activations => pc'[p] \in PreLock,
         p \notin Activations =>
            /\ pc'[p] \in {"sync", "syncing", "publish"} => svc'[p] = published
            /\ pc'[p] = "syncing" => target'[p] = routes
  PROVE  Settled'
<1>1. Converged' /\ active' # None
  BY Zenon DEF Settled, Converged, PlanOf
<1>2. ASSUME NEW q \in Activations PROVE pc'[q] \in PreLock
  BY Zenon DEF Settled, Proc, Requests
<1>3. ASSUME NEW q \in Proc \ Activations
      PROVE  /\ pc'[q] \in {"sync", "syncing", "publish"} => svc'[q] = published
             /\ pc'[q] = "syncing" => target'[q] = routes
  <2>1. CASE q = p
    BY <2>1, Zenon
  <2>2. CASE q # p
    BY <2>2, Zenon DEF Settled
  <2> QED
    BY <2>1, <2>2, Zenon
<1> QED
  BY <1>1, <1>2, <1>3, Zenon DEF Settled

\* An activation that is tried and waits changes nothing.
LEMMA WaitingIsSettled ==
  ASSUME IInv, Settled, NEW p \in Activations, phase' = "serving",
         StartActivation(p) \/ (Step(p) /\ ~Acquire(p))
  PROVE  Settled' /\ UNCHANGED <<active, published, routes>>
<1>1. p \in Proc /\ p # Scheduler /\ pc[p] \in PreLock /\ pc[p] \notin Locked
  BY Labels, ProcAssumption, Zenon DEF Settled, Proc, Requests
<1>2. StartActivation(p) \/ Validate(p) \/ ValidateFails(p) \/ AcquireCancelled(p)
  BY <1>1, Zenon
  DEF Step, Build, LoadDomain, Stage, StageFails, Prepare, Discover, Sync, SyncDone, StepFails,
      Persist, PersistFails, Publish, Restore, RestoreDone, RestoreFails, Succeed, Fail,
      Locked, Refreshing, Activating, Either
<1>3. UNCHANGED <<active, published, routes, world, policies>>
  BY <1>1, <1>2, Zenon
  DEF StartActivation, Validate, ValidateFails, AcquireCancelled, StartingUp
<1>4. \A q \in Proc \ {p} : pc'[q] = pc[q] /\ svc'[q] = svc[q] /\ target'[q] = target[q]
  BY <1>1, <1>2, ZenonT(60)
  DEF StartActivation, Validate, ValidateFails, AcquireCancelled, StartingUp, Return, IInv, TypeOK
<1>5. pc'[p] \in PreLock
  BY <1>1, <1>2, ZenonT(60)
  DEF StartActivation, Validate, ValidateFails, AcquireCancelled, StartingUp, Return, IInv, TypeOK,
      PreLock
<1> QED
  BY <1>1, <1>3, <1>4, <1>5, SettledFrame, Zenon

\* A refresh finds everything as it is to be: it plans the routes that are
\* there and publishes the services that are published.
LEMMA RefreshIsSettled ==
  ASSUME IInv, Settled, NEW p \in Proc \ Activations, phase' = "serving",
         UNCHANGED policies, StartRefresh(p) \/ Step(p)
  PROVE  Settled' /\ UNCHANGED <<active, published, routes>>
<1>1. phase = "serving" /\ ~StartingUp(p) /\ active # None /\ LocalInv(p) /\ p \notin Activations
  BY Zenon DEF Settled, Converged, StartingUp, IInv
<1>2. published = [settings |-> active, inv |-> world] /\ routes = PlanOf(published)
  BY Zenon DEF Settled, Converged
<1>3. /\ pc[p] \in {"sync", "syncing", "publish"} => svc[p] = published
      /\ pc[p] = "syncing" => target[p] = routes
  BY Zenon DEF Settled
<1> DEFINE Keeps == /\ UNCHANGED <<active, published, routes, world>>
                    /\ pc'[p] \in {"sync", "syncing", "publish"} => svc'[p] = published
                    /\ pc'[p] = "syncing" => target'[p] = routes
<1>4. ~(Validate(p) \/ ValidateFails(p) \/ Stage(p) \/ StageFails(p) \/ Prepare(p) \/ Persist(p)
        \/ PersistFails(p) \/ Restore(p) \/ RestoreDone(p) \/ RestoreFails(p))
  BY <1>1, Zenon
  DEF LocalInv, KindInv, Activating, Validate, ValidateFails, Stage, StageFails, Prepare,
      Persist, PersistFails, Restore, RestoreDone, RestoreFails
<1>5. \A q \in Proc \ {p} : pc'[q] = pc[q] /\ svc'[q] = svc[q] /\ target'[q] = target[q]
  <2>1. \A q \in Proc \ {p} : pc'[q] = pc[q]
    BY <1>1, <1>4, ZenonT(60)
    DEF Step, StartRefresh, Acquire, AcquireCancelled, Build, LoadDomain, Discover, Sync,
        SyncDone, StepFails, Publish, Succeed, Fail, Return, IInv, TypeOK
  <2>2. \A q \in Proc \ {p} : svc'[q] = svc[q]
    BY <1>1, <1>4, ZenonT(60)
    DEF Step, StartRefresh, Acquire, AcquireCancelled, Build, LoadDomain, Discover, Sync,
        SyncDone, StepFails, Publish, Succeed, Fail, Return, IInv, TypeOK
  <2>3. \A q \in Proc \ {p} : target'[q] = target[q]
    BY <1>1, <1>4, ZenonT(60)
    DEF Step, StartRefresh, Acquire, AcquireCancelled, Build, LoadDomain, Discover, Sync, Touch,
        SyncDone, StepFails, Publish, Succeed, Fail, Return, IInv, TypeOK
  <2> QED
    BY <2>1, <2>2, <2>3, Zenon
<1> SUFFICES Keeps
  BY <1>1, <1>5, SettledFrame, Zenon
<1>6. CASE StartRefresh(p) \/ Acquire(p) \/ Build(p) \/ LoadDomain(p) \/ StepFails(p)
  <2>1. UNCHANGED <<active, published, routes, world>>
    BY <1>1, <1>6, Zenon DEF StartRefresh, Acquire, Build, LoadDomain, StepFails
  <2>2. pc'[p] \in {"acquire", "build", "loadDomain", "inventory", "failed"}
    <3>1. CASE StartRefresh(p) \/ Build(p) \/ LoadDomain(p)
      BY <1>1, <3>1, ZenonT(60) DEF StartRefresh, Build, LoadDomain, IInv, TypeOK
    <3>2. CASE Acquire(p) \/ StepFails(p)
      BY <1>1, <3>2, Zenon DEF Acquire, StepFails, AfterFailure, IInv, TypeOK, Activations
    <3> QED
      BY <1>6, <3>1, <3>2, Zenon
  <2>3. Keeps
    BY <2>1, <2>2, Zenon
  <2> QED
    BY <2>3, Zenon
<1>7. CASE Discover(p)
  <2>1. cand[p] = active
    BY <1>1, <1>7, Zenon DEF Discover, LocalInv, CandInv
  <2>2. svc'[p] = published /\ pc'[p] = "sync"
    BY <1>2, <1>7, <2>1, ZenonT(60) DEF Discover, IInv, TypeOK
  <2> QED
    BY <1>7, <2>2, Zenon DEF Discover
<1>8. CASE Sync(p)
  <2>1. svc[p] = published
    BY <1>3, <1>8, Zenon DEF Sync
  <2>2. PlanOf(svc[p]) = routes
    BY <1>2, <2>1, Zenon
  <2>3. routes' = routes /\ target'[p] = routes
    BY <1>8, <2>2, Zenon DEF Sync, Touch, IInv, TypeOK
  <2> QED
    BY <1>8, <2>1, <2>3, Zenon DEF Sync
<1>9. CASE SyncDone(p)
  <2>1. svc[p] = published /\ target[p] = routes
    BY <1>3, <1>9, Zenon DEF SyncDone
  <2>2. routes' = routes
    BY <1>9, <2>1, Zenon DEF SyncDone, Applied
  <2>3. svc'[p] = published /\ target'[p] = routes
    BY <1>9, <2>1, Zenon DEF SyncDone
  <2> QED
    BY <1>9, <2>2, <2>3, Zenon DEF SyncDone
<1>10. CASE Publish(p)
  <2>1. svc[p] = published /\ pc'[p] = "success"
    BY <1>3, <1>10, Zenon DEF Publish, IInv, TypeOK
  <2> QED
    BY <1>10, <2>1, Zenon DEF Publish, NewServices
<1>11. CASE AcquireCancelled(p) \/ Succeed(p) \/ Fail(p)
  <2>1. pc'[p] = "idle"
    BY <1>1, <1>11, ZenonT(60) DEF AcquireCancelled, Succeed, Fail, Return, IInv, TypeOK
  <2>2. UNCHANGED <<active, published, routes, world>>
    BY <1>1, <1>11, Zenon DEF AcquireCancelled, Succeed, Fail
  <2> QED
    BY <2>1, <2>2, Zenon
<1> HIDE DEF Keeps
<1> QED
  BY <1>4, <1>6, <1>7, <1>8, <1>9, <1>10, <1>11, Zenon DEF Step

\* Refreshes are invisible to a settled system: the backend serves all its
\* routes at every moment and the published services stay, until an activation
\* takes the lock, something around the process changes, or the process ends.
THEOREM SettledForGood == Spec => StaysSettled
<1> DEFINE Quiet == /\ Settled /\ UNCHANGED <<world, policies>> /\ phase' = "serving"
                    /\ ~BackendLosesRoutes /\ ~\E p \in Activations : Acquire(p)
           Kept == Settled' /\ UNCHANGED <<active, published, routes>>
<1>1. IInv /\ [Next]_vars => [Quiet => Kept]_vars
  <2> SUFFICES ASSUME IInv, Next, Quiet PROVE Kept
    BY Zenon
  <2>1. ASSUME NEW p \in Proc, StartRefresh(p) \/ StartActivation(p) \/ Step(p)
        PROVE  Kept
    <3>1. StartActivation(p) => p \in Activations
      BY Zenon DEF StartActivation
    <3>2. StartRefresh(p) => p \notin Activations
      BY ProcAssumption, Zenon DEF StartRefresh, Requests
    <3> QED
      BY <2>1, <3>1, <3>2, WaitingIsSettled, RefreshIsSettled, Zenon
  <2>2. ASSUME NEW p \in Proc, Cancel(p)
        PROVE  Kept
    <3>1. UNCHANGED <<active, published, routes, pc, svc, target>>
      BY <2>2, Zenon DEF Cancel
    <3> QED
      BY <3>1, Zenon DEF Settled, Converged, PlanOf
  <2>3. CASE WorldChanges \/ PoliciesChange
    <3>1. UNCHANGED <<active, published, routes, pc, svc, target>>
      BY <2>3, Zenon DEF WorldChanges, PoliciesChange
    <3> QED
      BY <3>1, Zenon DEF Settled, Converged, PlanOf
  <2>4. ~(Boot \/ Exit \/ Crash \/ BackendLosesRoutes)
    <3>1. phase = "serving" /\ phase' = "serving"
      BY Zenon DEF Settled, Converged
    <3> QED
      BY <3>1, Zenon DEF Boot, Exit, Crash, Stop
  <2> QED
    BY <2>1, <2>2, <2>3, <2>4, Zenon DEF Next, Environment
<1> QED
  BY <1>1, Inductive, PTL DEF Spec, StaysSettled

=============================================================================
