--------------------------- MODULE ActivationSteps --------------------------
(***************************************************************************)
(* Steps of Activation that preserve the invariant IInv.  The first lemmas *)
(* say what a step of one goroutine leaves alone: they reduce IInv to the  *)
(* shared state and that goroutine.  The steps taken without the lock, the *)
(* changes around the process, and the steps of the owner of the lock up   *)
(* to its synchronization of the backend follow; the remaining steps are   *)
(* in ActivationProofs.                                                    *)
(***************************************************************************)
EXTENDS Activation, TLAPS

USE DEF durable, process, locals, Goto

\* A fresh database and no process satisfy the invariant.
LEMMA InitIInv == Init => IInv
<1> SUFFICES ASSUME Init PROVE IInv
  OBVIOUS
<1>1. TypeOK
  BY Zenon DEF Init, TypeOK, Outcome, IdleTracker, NoEntry, PreLock
<1>2. LockInv /\ PhaseInv
  BY ProcAssumption, Zenon
  DEF Init, LockInv, PhaseInv, Requests, Proc, IdleTracker, Locked, Refreshing, Activating,
      Either
<1>3. ASSUME NEW p \in Proc PROVE LocalInv(p)
  BY Zenon
  DEF Init, LocalInv, KindInv, CandInv, SvcInv, TargetInv, StageInv, EntryInv, Locked,
      Refreshing, Activating, Either
<1>4. ConsistentInv /\ TrackerInv
  BY Zenon DEF Init, ConsistentInv, TrackerInv, IdleTracker
<1> QED
  BY <1>1, <1>2, <1>3, <1>4, Zenon DEF IInv

\* The end of the process, wherever it comes, leaves the invariant true of
\* what is durable.
LEMMA StopStep ==
  ASSUME IInv, Stop
  PROVE  IInv'
<1>1. TypeOK'
  BY Zenon DEF IInv, Stop, TypeOK, Outcome, IdleTracker, NoEntry, PreLock
<1>2. LockInv' /\ PhaseInv'
  BY ProcAssumption, Zenon
  DEF Stop, LockInv, PhaseInv, Requests, Proc, IdleTracker, Locked, Refreshing, Activating,
      Either
<1>3. ASSUME NEW p \in Proc PROVE LocalInv(p)'
  BY Zenon
  DEF Stop, LocalInv, KindInv, CandInv, SvcInv, TargetInv, StageInv, EntryInv, Locked,
      Refreshing, Activating, Either
<1>4. ConsistentInv' /\ TrackerInv'
  BY Zenon DEF Stop, ConsistentInv, TrackerInv, IdleTracker
<1> QED
  BY <1>1, <1>2, <1>3, <1>4, Zenon DEF IInv

\* The labels before the lock and the labels under it.
LEMMA Labels == PreLock \cap Locked = {} /\ PreLock = {"idle", "validate", "acquire"}
BY Zenon DEF PreLock, Locked, Refreshing, Activating, Either

\* A goroutine that has returned holds nothing.
LEMMA IdleHoldsNothing ==
  ASSUME NEW p \in Proc, pc'[p] = "idle"
  PROVE  LocalInv(p)'
<1>1. KindInv(p)' /\ CandInv(p)'
  BY DEF KindInv, CandInv, Activating
<1>2. SvcInv(p)' /\ TargetInv(p)' /\ StageInv(p)'
  BY DEF SvcInv, TargetInv, StageInv
<1>3. EntryInv(p)'
  BY DEF EntryInv, Locked, Refreshing, Activating, Either
<1> QED
  BY <1>1, <1>2, <1>3 DEF LocalInv

\* The goroutine under the lock owns it.
LEMMA Owner ==
  ASSUME IInv, NEW p \in Proc, pc[p] \in Locked
  PROVE  lock = p /\ LocalInv(p)
BY Zenon DEF IInv, LockInv

\* A goroutine that does not own the lock is before it.
LEMMA NotOwner ==
  ASSUME IInv, NEW q \in Proc, lock # q
  PROVE  pc[q] \in PreLock
BY Zenon DEF IInv, TypeOK, LockInv

\* While p may change the shared state, all the others are before the lock and
\* hold nothing but their candidate.
LEMMA OwnerStep ==
  ASSUME IInv, NEW p \in Proc, lock \in {p, None},
         \A q \in Proc \ {p} : pc'[q] = pc[q] /\ cand'[q] = cand[q],
         IF pc'[p] \in Locked THEN lock' = p ELSE lock' = None,
         TypeOK', PhaseInv', ConsistentInv', TrackerInv', LocalInv(p)'
  PROVE  IInv'
<1>1. ASSUME NEW q \in Proc \ {p} PROVE pc[q] \in PreLock /\ lock' # q
  BY NotOwner, ProcAssumption, Zenon
<1>2. LockInv'
  BY <1>1, Labels, ProcAssumption, Zenon DEF LockInv
<1>3. ASSUME NEW q \in Proc \ {p} PROVE LocalInv(q)'
  <2>1. KindInv(q) /\ CandInv(q)
    BY Zenon DEF IInv, LocalInv
  <2> QED
    BY <1>1, <2>1, Labels, Zenon
    DEF LocalInv, KindInv, CandInv, SvcInv, TargetInv, StageInv, EntryInv, Activating
<1> QED
  BY <1>2, <1>3, Zenon DEF IInv

\* A goroutine is not concerned by steps that leave its locals and the shared
\* state alone.
LEMMA Untouched ==
  ASSUME NEW q \in Proc, LocalInv(q),
         pc'[q] = pc[q], cand'[q] = cand[q], gen'[q] = gen[q], prev'[q] = prev[q],
         svc'[q] = svc[q], target'[q] = target[q], entry'[q] = entry[q],
         UNCHANGED <<active, pending, published>>, BackendVolatile \/ routes' = routes
  PROVE  LocalInv(q)'
<1>1. KindInv(q)' /\ CandInv(q)' /\ SvcInv(q)'
  BY Zenon DEF LocalInv, KindInv, CandInv, SvcInv
<1>2. TargetInv(q)'
  BY Zenon DEF LocalInv, TargetInv, AimsAtDurable
<1>3. StageInv(q)' /\ EntryInv(q)'
  BY Zenon DEF LocalInv, StageInv, EntryInv
<1> QED
  BY <1>1, <1>2, <1>3, Zenon DEF LocalInv

\* A serving process: p moves before the lock, whoever owns it.
LEMMA BeforeLock ==
  ASSUME IInv, TypeOK', NEW p \in Proc, phase = "serving",
         pc[p] \in PreLock, pc'[p] \in PreLock, pc'[p] = "validate" => p \in Activations,
         p \in Activations /\ pc'[p] # "idle" => cand'[p] # None,
         \A q \in Proc \ {p} :
            /\ pc'[q] = pc[q] /\ cand'[q] = cand[q] /\ gen'[q] = gen[q] /\ prev'[q] = prev[q]
            /\ svc'[q] = svc[q] /\ target'[q] = target[q] /\ entry'[q] = entry[q],
         UNCHANGED <<active, pending, phase, lock, published, tracker, routes>>
  PROVE  IInv'
<1>1. LockInv' /\ PhaseInv' /\ TrackerInv'
  BY Labels, ZenonT(60) DEF IInv, LockInv, PhaseInv, TrackerInv
<1>2. ConsistentInv'
  BY Labels, Zenon DEF IInv, ConsistentInv, Proc, Requests
<1>3. ASSUME NEW q \in Proc \ {p} PROVE LocalInv(q)'
  BY Untouched, Zenon DEF IInv
<1>4. LocalInv(p)'
  BY Labels, Zenon
  DEF LocalInv, KindInv, CandInv, SvcInv, TargetInv, StageInv, EntryInv, Activating
<1> QED
  BY <1>1, <1>2, <1>3, <1>4, Zenon DEF IInv

\* What happens around the goroutines.
LEMMA Around ==
  ASSUME IInv, TypeOK', BackendVolatile \/ routes' = routes,
         UNCHANGED <<active, pending, process, pc, cand, gen, prev, svc, target, entry>>
  PROVE  IInv'
<1>1. LockInv' /\ PhaseInv' /\ ConsistentInv' /\ TrackerInv'
  BY Zenon DEF IInv, LockInv, PhaseInv, ConsistentInv, Consistent, TrackerInv
<1>2. ASSUME NEW q \in Proc PROVE LocalInv(q)'
  BY Untouched, Zenon DEF IInv
<1> QED
  BY <1>1, <1>2, Zenon DEF IInv

\* A tick or a dashboard action holds nothing yet.
LEMMA StartRefreshStep ==
  ASSUME IInv, NEW p \in Proc, StartRefresh(p)
  PROVE  IInv'
<1>1. TypeOK'
  BY CandidatesAssumption, ZenonT(60) DEF IInv, TypeOK, StartRefresh, PreLock
<1>2. phase = "serving" /\ pc[p] \in PreLock
  BY ProcAssumption, Zenon
  DEF IInv, PhaseInv, LocalInv, KindInv, StartRefresh, PreLock, Proc, Requests
<1>3. pc'[p] = "acquire" /\ \A q \in Proc \ {p} :
            /\ pc'[q] = pc[q] /\ cand'[q] = cand[q] /\ gen'[q] = gen[q] /\ prev'[q] = prev[q]
            /\ svc'[q] = svc[q] /\ target'[q] = target[q] /\ entry'[q] = entry[q]
  BY Zenon DEF IInv, TypeOK, StartRefresh
<1>4. p \in Activations /\ pc'[p] # "idle" => cand'[p] # None
  BY <1>3, ProcAssumption, SentinelAssumption, CandidatesAssumption, ZenonT(60)
  DEF IInv, TypeOK, LocalInv, CandInv, StartRefresh, Requests
<1> QED
  BY <1>1, <1>2, <1>3, <1>4, BeforeLock, Labels DEF StartRefresh

\* A setup or an update holds its candidate.
LEMMA StartActivationStep ==
  ASSUME IInv, NEW p \in Proc, StartActivation(p)
  PROVE  IInv'
<1>1. TypeOK'
  <2>1. pc' \in [Proc -> PreLock \cup Locked]
    BY SMTT(60) DEF IInv, TypeOK, StartActivation, PreLock
  <2>2. cand' \in [Proc -> Settings \cup {None}]
    BY CandidatesAssumption DEF IInv, TypeOK, StartActivation
  <2> QED
    BY <2>1, <2>2, ZenonT(60) DEF IInv, TypeOK, StartActivation
<1>2. phase = "serving" /\ pc[p] \in PreLock
  BY ProcAssumption, Zenon
  DEF IInv, PhaseInv, LocalInv, KindInv, StartActivation, PreLock, Proc, Requests
<1>3. pc'[p] = "validate" /\ \A q \in Proc \ {p} :
            /\ pc'[q] = pc[q] /\ cand'[q] = cand[q] /\ gen'[q] = gen[q] /\ prev'[q] = prev[q]
            /\ svc'[q] = svc[q] /\ target'[q] = target[q] /\ entry'[q] = entry[q]
  BY ZenonT(60) DEF IInv, TypeOK, StartActivation
<1>4. p \in Activations /\ pc'[p] # "idle" => cand'[p] # None
  BY <1>3, ProcAssumption, SentinelAssumption, CandidatesAssumption, SMTT(60)
  DEF IInv, TypeOK, LocalInv, CandInv, StartActivation, Requests
<1> QED
  BY <1>1, <1>2, <1>3, <1>4, BeforeLock, Labels, SMTT(60) DEF StartActivation

\* A valid candidate waits for the lock.
LEMMA ValidateStep ==
  ASSUME IInv, NEW p \in Proc, Validate(p)
  PROVE  IInv'
<1>1. TypeOK'
  BY CandidatesAssumption, ZenonT(60) DEF IInv, TypeOK, Validate, PreLock
<1>2. phase = "serving" /\ pc[p] \in PreLock
  BY ProcAssumption, Zenon
  DEF IInv, PhaseInv, LocalInv, KindInv, Validate, PreLock, Proc, Requests
<1>3. pc'[p] = "acquire" /\ \A q \in Proc \ {p} :
            /\ pc'[q] = pc[q] /\ cand'[q] = cand[q] /\ gen'[q] = gen[q] /\ prev'[q] = prev[q]
            /\ svc'[q] = svc[q] /\ target'[q] = target[q] /\ entry'[q] = entry[q]
  BY Zenon DEF IInv, TypeOK, Validate
<1>4. p \in Activations /\ pc'[p] # "idle" => cand'[p] # None
  BY <1>3, ProcAssumption, SentinelAssumption, CandidatesAssumption, Zenon
  DEF IInv, TypeOK, LocalInv, CandInv, Validate, Requests
<1> QED
  BY <1>1, <1>2, <1>3, <1>4, BeforeLock, Labels, SMTT(60) DEF Validate

\* An invalid one is forgotten.
LEMMA ValidateFailsStep ==
  ASSUME IInv, NEW p \in Proc, ValidateFails(p)
  PROVE  IInv'
<1>1. TypeOK'
  BY CandidatesAssumption, ZenonT(60) DEF IInv, TypeOK, ValidateFails, Return, NoEntry, PreLock
<1>2. phase = "serving" /\ pc[p] \in PreLock
  BY ProcAssumption, Zenon
  DEF IInv, PhaseInv, LocalInv, KindInv, ValidateFails, PreLock, Proc, Requests
<1>3. pc'[p] = "idle" /\ \A q \in Proc \ {p} :
            /\ pc'[q] = pc[q] /\ cand'[q] = cand[q] /\ gen'[q] = gen[q] /\ prev'[q] = prev[q]
            /\ svc'[q] = svc[q] /\ target'[q] = target[q] /\ entry'[q] = entry[q]
  BY ZenonT(60) DEF IInv, TypeOK, ValidateFails, Return, NoEntry
<1>4. p \in Activations /\ pc'[p] # "idle" => cand'[p] # None
  BY <1>3, ProcAssumption, SentinelAssumption, CandidatesAssumption, Zenon
  DEF IInv, TypeOK, LocalInv, CandInv, ValidateFails, Requests
<1> QED
  BY <1>1, <1>2, <1>3, <1>4, BeforeLock, Labels, Zenon DEF ValidateFails

\* A caller cancelled while it waits for the lock leaves no trace; a startup
\* refresh ends the process.
LEMMA AcquireCancelledStep ==
  ASSUME IInv, NEW p \in Proc, AcquireCancelled(p)
  PROVE  IInv'
<1>1. CASE Stop
  BY <1>1, StopStep, Zenon
<1>2. CASE ~StartingUp(p) /\ Return(p) /\ UNCHANGED <<durable, process, routes, world>>
  <2>1. TypeOK'
    BY <1>2, ZenonT(60) DEF IInv, TypeOK, Return, NoEntry, PreLock
  <2>2. phase = "serving" /\ pc[p] = "acquire"
    BY ProcAssumption, <1>2, Zenon
    DEF IInv, TypeOK, PhaseInv, AcquireCancelled, StartingUp, Proc
  <2>3. pc'[p] = "idle" /\ \A q \in Proc \ {p} :
            /\ pc'[q] = pc[q] /\ cand'[q] = cand[q] /\ gen'[q] = gen[q] /\ prev'[q] = prev[q]
            /\ svc'[q] = svc[q] /\ target'[q] = target[q] /\ entry'[q] = entry[q]
    BY <1>2, ZenonT(60) DEF IInv, TypeOK, Return
  <2> QED
    BY <1>2, <2>1, <2>2, <2>3, BeforeLock, Labels, Zenon
<1> QED
  BY <1>1, <1>2, Zenon DEF AcquireCancelled

\* The startup refresh is the only goroutine of a starting process.
LEMMA BootStep ==
  ASSUME IInv, Boot
  PROVE  IInv'
<1>1. TypeOK'
  BY ZenonT(60) DEF IInv, TypeOK, Boot, PreLock
<1>2. Scheduler \in Proc /\ Scheduler \notin Activations /\ lock = None
  BY ProcAssumption, Zenon DEF IInv, PhaseInv, Boot, Proc, Requests
<1>3. pc'[Scheduler] = "acquire" /\ \A q \in Proc \ {Scheduler} : pc'[q] = pc[q]
  BY <1>2, Zenon DEF IInv, TypeOK, Boot
<1>4. PhaseInv' /\ ConsistentInv' /\ TrackerInv'
  BY <1>2, <1>3, ProcAssumption, Labels, Zenon
  DEF IInv, Boot, PhaseInv, LockInv, ConsistentInv, TrackerInv, Requests, Proc
<1>5. LocalInv(Scheduler)'
  BY <1>2, <1>3, Labels, Zenon
  DEF LocalInv, KindInv, CandInv, SvcInv, TargetInv, StageInv, EntryInv, Activating,
      Activations
<1> QED
  BY <1>1, <1>2, <1>3, <1>4, <1>5, OwnerStep, Labels, Zenon DEF Boot

\* Cancellation alone changes no shared state.
LEMMA CancelStep ==
  ASSUME IInv, NEW p \in Proc, Cancel(p)
  PROVE  IInv'
<1>1. TypeOK'
  BY ZenonT(60) DEF IInv, TypeOK, Cancel
<1> QED
  BY <1>1, Around, Zenon DEF Cancel

\* Changes in Pelican concern only later discoveries.
LEMMA WorldChangesStep ==
  ASSUME IInv, WorldChanges
  PROVE  IInv'
<1>1. TypeOK'
  BY ZenonT(60) DEF IInv, TypeOK, WorldChanges
<1> QED
  BY <1>1, Around, Zenon DEF WorldChanges

\* Policy writes concern only later plans.
LEMMA PoliciesChangeStep ==
  ASSUME IInv, PoliciesChange
  PROVE  IInv'
<1>1. TypeOK'
  BY Zenon DEF IInv, TypeOK, PoliciesChange
<1> QED
  BY <1>1, Around, Zenon DEF PoliciesChange

\* A backend that restarts is excused from serving the plan.
LEMMA BackendLosesRoutesStep ==
  ASSUME IInv, BackendLosesRoutes
  PROVE  IInv'
<1>1. TypeOK'
  BY Zenon DEF IInv, TypeOK, BackendLosesRoutes
<1> QED
  BY <1>1, Around, Zenon DEF BackendLosesRoutes

\* The invariant depends on the variables only.
LEMMA StutterStep ==
  ASSUME IInv, UNCHANGED vars
  PROVE  IInv'
<1>1. TypeOK'
  BY ZenonT(60) DEF IInv, TypeOK, vars
<1> QED
  BY <1>1, Around, Zenon DEF vars

-----------------------------------------------------------------------------
\* The new owner notes what it finds.
LEMMA AcquireStep ==
  ASSUME IInv, NEW p \in Proc, Acquire(p)
  PROVE  IInv'
<1>1. lock = None /\ LocalInv(p)
  BY Zenon DEF IInv, Acquire, LockFree
<1>2. /\ pc'[p] = (IF p \in SetupRequests THEN "stage"
                    ELSE IF p \in UpdateRequests THEN "prepare" ELSE "build")
      /\ cand'[p] = cand[p] /\ gen'[p] = gen[p]
      /\ prev'[p] = prev[p] /\ svc'[p] = svc[p] /\ target'[p] = target[p] /\ entry'[p] = <<active, published>>
      /\ \A q \in Proc \ {p} : pc'[q] = pc[q] /\ cand'[q] = cand[q]
  BY Zenon DEF IInv, TypeOK, Acquire
<1>3. pc'[p] \in Locked
  BY <1>2, Zenon DEF Locked, Refreshing, Activating, Either
<1>4. TypeOK'
  BY <1>1, <1>2, <1>3, ZenonT(60) DEF IInv, TypeOK, Acquire, LockFree
<1>5. PhaseInv'
  BY <1>1, <1>2, ProcAssumption, ZenonT(60)
  DEF IInv, PhaseInv, Acquire, Proc, Requests, LockInv, LockFree
<1>6. ConsistentInv' /\ TrackerInv'
  BY <1>1, <1>2, <1>3, ProcAssumption, ZenonT(60)
  DEF IInv, ConsistentInv, TrackerInv, Acquire, LockFree, Proc, Requests, LockInv
<1>7. KindInv(p)' /\ CandInv(p)'
  BY <1>1, <1>2, ProcAssumption, SMTT(60) DEF LocalInv, KindInv, CandInv, Acquire, Activating, Activations
<1>8. SvcInv(p)' /\ TargetInv(p)'
  BY <1>1, <1>2, SentinelAssumption, SMTT(60) DEF LocalInv, SvcInv, TargetInv, Acquire, LockFree
<1>9. StageInv(p)' /\ EntryInv(p)'
  BY <1>1, <1>2, ProcAssumption, SMTT(60) DEF LocalInv, StageInv, EntryInv, Acquire, Activations
<1> QED
  BY <1>1, <1>2, <1>3, <1>4, <1>5, <1>6, <1>7, <1>8, <1>9, OwnerStep, Zenon
  DEF LocalInv, Acquire

\* A refresh reads the flag; without settings it withdraws nothing that is published.
LEMMA BuildStep ==
  ASSUME IInv, NEW p \in Proc, Build(p)
  PROVE  IInv'
<1>1. pc[p] \in Locked /\ lock = p /\ LocalInv(p)
  BY Owner, Zenon DEF Build, Locked, Refreshing, Activating, Either
<1>2. /\ pc'[p] = (IF active = None THEN "unconfigured" ELSE "loadDomain")
      /\ cand'[p] = (IF active = None THEN cand[p] ELSE active) /\ gen'[p] = gen[p]
      /\ prev'[p] = prev[p] /\ svc'[p] = svc[p] /\ target'[p] = target[p] /\ entry'[p] = entry[p]
      /\ \A q \in Proc \ {p} : pc'[q] = pc[q] /\ cand'[q] = cand[q]
  BY ZenonT(60) DEF IInv, TypeOK, Build
<1>3. pc'[p] \in Locked
  BY <1>2, Zenon DEF Locked, Refreshing, Activating, Either
<1>a. p \notin Activations /\ Started \in [inProgress : BOOLEAN, outcome : Outcome]
  BY <1>1, Zenon DEF LocalInv, KindInv, Build, IInv, TypeOK, Started
<1>b. active = None => published = None
  <2>1. ASSUME NEW q \in Activations PROVE pc[q] # "publish"
    BY <1>1, NotOwner, Labels, <1>a, ProcAssumption, Zenon DEF Proc, Requests
  <2>2. pc[Scheduler] # "success"
    BY <1>1, NotOwner, Labels, ProcAssumption, Zenon DEF Build, Proc
  <2> QED
    BY <2>1, <2>2, Zenon DEF IInv, ConsistentInv, Consistent, PhaseInv
<1>4. TypeOK'
  <2>1. CASE active = None
    <3>1. pc' \in [Proc -> PreLock \cup Locked]
      BY <2>1, ZenonT(60) DEF IInv, TypeOK, Build, Locked
    <3>2. published' = None /\ tracker' = Started /\ UNCHANGED cand
      BY <2>1, ZenonT(60) DEF Build
    <3>3. UNCHANGED <<durable, phase, lock, routes, world, cancelled, gen, prev, svc, target, entry>>
      BY Zenon DEF Build
    <3> QED
      BY <1>a, <3>1, <3>2, <3>3, ZenonT(60) DEF IInv, TypeOK
  <2>2. CASE active # None
    <3>1. pc' \in [Proc -> PreLock \cup Locked]
      BY <1>2, <1>3, <2>2, ZenonT(60) DEF IInv, TypeOK, Build
    <3>2. cand' \in [Proc -> Settings \cup {None}]
      BY <2>2, ZenonT(60) DEF IInv, TypeOK, Build
    <3> QED
      BY <2>2, <1>a, <3>1, <3>2, ZenonT(60) DEF IInv, TypeOK, Build
  <2> QED
    BY <2>1, <2>2, Zenon
<1>5. PhaseInv'
  BY <1>1, <1>2, <1>a, <1>b, ProcAssumption, ZenonT(60)
  DEF IInv, PhaseInv, Build, Started, Proc, Requests
<1>6. ConsistentInv' /\ TrackerInv'
  BY <1>1, <1>2, <1>3, <1>a, <1>b, ProcAssumption, SMTT(60)
  DEF IInv, ConsistentInv, TrackerInv, Build, Started, Proc, Requests
<1>7. KindInv(p)' /\ CandInv(p)'
  BY <1>1, <1>2, <1>a, <1>b, ProcAssumption, ZenonT(60)
  DEF LocalInv, KindInv, CandInv, Build, Activating, Activations
<1>8. SvcInv(p)' /\ TargetInv(p)'
  BY <1>1, <1>2, <1>a, <1>b, SentinelAssumption, Zenon
  DEF LocalInv, SvcInv, TargetInv, Build, Started
<1>9. StageInv(p)' /\ EntryInv(p)'
  BY <1>1, <1>2, <1>a, <1>b, ProcAssumption, Zenon
  DEF LocalInv, StageInv, EntryInv, Build, Activations
<1> QED
  BY <1>1, <1>2, <1>3, <1>4, <1>5, <1>6, <1>7, <1>8, <1>9, OwnerStep, Zenon DEF LocalInv, Build

\* The domain is that of the settings whose URL was read.
LEMMA LoadDomainStep ==
  ASSUME IInv, NEW p \in Proc, LoadDomain(p)
  PROVE  IInv'
<1>1. pc[p] \in Locked /\ lock = p /\ LocalInv(p)
  BY Owner, Zenon DEF LoadDomain, Locked, Refreshing, Activating, Either
<1>a. active \in Settings /\ cand[p] = active /\ [url |-> active.url, domain |-> active.domain] = active
  BY <1>1, ZenonT(60) DEF IInv, TypeOK, LoadDomain, LocalInv, KindInv, CandInv, Settings
<1>2. /\ pc'[p] = "inventory" /\ cand'[p] = active /\ gen'[p] = gen[p]
      /\ prev'[p] = prev[p] /\ svc'[p] = svc[p] /\ target'[p] = target[p] /\ entry'[p] = entry[p]
      /\ \A q \in Proc \ {p} : pc'[q] = pc[q] /\ cand'[q] = cand[q]
  BY <1>a, ZenonT(60) DEF IInv, TypeOK, LoadDomain
<1>3. pc'[p] \in Locked
  BY <1>2, Zenon DEF Locked, Refreshing, Activating, Either
<1>4. TypeOK'
  BY <1>1, <1>2, <1>3, <1>a, ZenonT(60) DEF IInv, TypeOK, LoadDomain
<1>5. PhaseInv'
  BY <1>1, <1>2, <1>a, ProcAssumption, SMTT(60) DEF IInv, PhaseInv, LoadDomain, Proc, Requests
<1>6. ConsistentInv' /\ TrackerInv'
  BY <1>1, <1>2, <1>3, <1>a, ProcAssumption, SMTT(60)
  DEF IInv, ConsistentInv, TrackerInv, LoadDomain, Proc, Requests
<1>7. KindInv(p)' /\ CandInv(p)'
  BY <1>1, <1>2, <1>a, ProcAssumption, Zenon
  DEF LocalInv, KindInv, CandInv, LoadDomain, Activating
<1>8. SvcInv(p)' /\ TargetInv(p)'
  BY <1>1, <1>2, <1>a, SentinelAssumption, Zenon DEF LocalInv, SvcInv, TargetInv, LoadDomain
<1>9. StageInv(p)' /\ EntryInv(p)'
  BY <1>1, <1>2, <1>a, ProcAssumption, Zenon
  DEF LocalInv, KindInv, StageInv, EntryInv, LoadDomain, Activations
<1> QED
  BY <1>1, <1>2, <1>3, <1>4, <1>5, <1>6, <1>7, <1>8, <1>9, OwnerStep, Zenon
  DEF LocalInv, LoadDomain

\* The pending row belongs to the owner.
LEMMA StageStep ==
  ASSUME IInv, NEW p \in Proc, Stage(p)
  PROVE  IInv'
<1>1. pc[p] \in Locked /\ lock = p /\ LocalInv(p)
  BY Owner, Zenon DEF Stage, Locked, Refreshing, Activating, Either
<1>2. /\ pc'[p] = "prepare"
      /\ cand'[p] = cand[p] /\ pending' = [gen |-> gen'[p], value |-> cand'[p]]
      /\ prev'[p] = prev[p] /\ svc'[p] = svc[p] /\ target'[p] = target[p] /\ entry'[p] = entry[p]
      /\ \A q \in Proc \ {p} : pc'[q] = pc[q] /\ cand'[q] = cand[q]
  BY Zenon DEF IInv, TypeOK, Stage
<1>3. pc'[p] \in Locked
  BY <1>2, Zenon DEF Locked, Refreshing, Activating, Either
<1>a. cand[p] \in Settings
  BY <1>1, ZenonT(60) DEF IInv, TypeOK, Stage, LocalInv, KindInv, CandInv, Activations
<1>4. TypeOK'
  <2>1. PICK g \in Generations : /\ pending' = [gen |-> g, value |-> cand[p]]
                                /\ gen' = [gen EXCEPT ![p] = g]
    BY Zenon DEF Stage, FreshGenerations
  <2>2. pending' \in Pending
    BY <2>1, <1>a, Zenon DEF Pending
  <2> QED
    BY <1>2, <1>3, <2>1, <2>2, ZenonT(60) DEF IInv, TypeOK, Stage
<1>5. PhaseInv'
  BY <1>1, <1>2, ProcAssumption, ZenonT(60) DEF IInv, PhaseInv, Stage, Proc, Requests
<1>6. ConsistentInv' /\ TrackerInv'
  BY <1>1, <1>2, <1>3, ProcAssumption, SMTT(60)
  DEF IInv, ConsistentInv, TrackerInv, Stage, FreshGenerations, Proc, Requests
<1>7. KindInv(p)' /\ CandInv(p)'
  BY <1>1, <1>2, ProcAssumption, Zenon DEF LocalInv, KindInv, CandInv, Stage, Activating
<1>8. SvcInv(p)' /\ TargetInv(p)'
  BY <1>1, <1>2, SentinelAssumption, Zenon
  DEF LocalInv, SvcInv, TargetInv, Stage, FreshGenerations
<1>9. StageInv(p)' /\ EntryInv(p)'
  BY <1>1, <1>2, ProcAssumption, Zenon
  DEF LocalInv, StageInv, EntryInv, Stage, Activations, StillIncomplete
<1> QED
  BY <1>1, <1>2, <1>3, <1>4, <1>5, <1>6, <1>7, <1>8, <1>9, OwnerStep, Zenon DEF LocalInv, Stage

\* The previous services are the published ones.
LEMMA PrepareStep ==
  ASSUME IInv, NEW p \in Proc, Prepare(p)
  PROVE  IInv'
<1>1. pc[p] \in Locked /\ lock = p /\ LocalInv(p)
  BY Owner, Zenon DEF Prepare, Locked, Refreshing, Activating, Either
<1>2. /\ pc'[p] = "inventory" /\ cand'[p] = cand[p] /\ gen'[p] = gen[p]
      /\ prev'[p] = published /\ svc'[p] = svc[p] /\ target'[p] = target[p] /\ entry'[p] = entry[p]
      /\ \A q \in Proc \ {p} : pc'[q] = pc[q] /\ cand'[q] = cand[q]
  BY Zenon DEF IInv, TypeOK, Prepare
<1>3. pc'[p] \in Locked
  BY <1>2, Zenon DEF Locked, Refreshing, Activating, Either
<1>4. TypeOK'
  BY <1>1, <1>2, <1>3, ZenonT(60) DEF IInv, TypeOK, Prepare, Started
<1>5. PhaseInv'
  BY <1>1, <1>2, ProcAssumption, ZenonT(60) DEF IInv, PhaseInv, Prepare, Started, Proc, Requests
<1>6. ConsistentInv' /\ TrackerInv'
  BY <1>1, <1>2, <1>3, ProcAssumption, ZenonT(60)
  DEF IInv, ConsistentInv, TrackerInv, Prepare, Started, Proc, Requests
<1>7. KindInv(p)' /\ CandInv(p)'
  BY <1>1, <1>2, ProcAssumption, Zenon DEF LocalInv, KindInv, CandInv, Prepare, Activating
<1>8. SvcInv(p)' /\ TargetInv(p)'
  BY <1>1, <1>2, SentinelAssumption, Zenon DEF LocalInv, SvcInv, TargetInv, Prepare, Started
<1>9. StageInv(p)' /\ EntryInv(p)'
  BY <1>1, <1>2, ProcAssumption, Zenon DEF LocalInv, StageInv, EntryInv, Prepare, Activations
<1> QED
  BY <1>1, <1>2, <1>3, <1>4, <1>5, <1>6, <1>7, <1>8, <1>9, OwnerStep, Zenon
  DEF LocalInv, Prepare

\* The new services are built from the candidate.
LEMMA DiscoverStep ==
  ASSUME IInv, NEW p \in Proc, Discover(p)
  PROVE  IInv'
<1>1. pc[p] \in Locked /\ lock = p /\ LocalInv(p)
  BY Owner, Zenon DEF Discover, Locked, Refreshing, Activating, Either
<1>2. /\ pc'[p] = "sync" /\ cand'[p] = cand[p] /\ gen'[p] = gen[p]
      /\ prev'[p] = prev[p] /\ svc'[p] = [settings |-> cand[p], inv |-> world] /\ target'[p] = target[p] /\ entry'[p] = entry[p]
      /\ \A q \in Proc \ {p} : pc'[q] = pc[q] /\ cand'[q] = cand[q]
  BY Zenon DEF IInv, TypeOK, Discover
<1>3. pc'[p] \in Locked
  BY <1>2, Zenon DEF Locked, Refreshing, Activating, Either
<1>a. [settings |-> cand[p], inv |-> world] \in Service
  BY <1>1, ZenonT(60) DEF IInv, TypeOK, Discover, LocalInv, CandInv, Service
<1>4. TypeOK'
  BY <1>1, <1>2, <1>3, <1>a, ZenonT(60) DEF IInv, TypeOK, Discover
<1>5. PhaseInv'
  BY <1>1, <1>2, <1>a, ProcAssumption, SMTT(60) DEF IInv, PhaseInv, Discover, Proc, Requests
<1>6. ConsistentInv' /\ TrackerInv'
  BY <1>1, <1>2, <1>3, <1>a, ProcAssumption, ZenonT(60)
  DEF IInv, ConsistentInv, TrackerInv, Discover, Proc, Requests
<1>7. KindInv(p)' /\ CandInv(p)'
  BY <1>1, <1>2, <1>a, ProcAssumption, Zenon
  DEF LocalInv, KindInv, CandInv, Discover, Activating
<1>8. SvcInv(p)' /\ TargetInv(p)'
  BY <1>1, <1>2, <1>a, SentinelAssumption, SMTT(60) DEF LocalInv, SvcInv, TargetInv, Discover
<1>9. StageInv(p)' /\ EntryInv(p)'
  BY <1>1, <1>2, <1>a, ProcAssumption, Zenon
  DEF LocalInv, StageInv, EntryInv, Discover, Activations
<1> QED
  BY <1>1, <1>2, <1>3, <1>4, <1>5, <1>6, <1>7, <1>8, <1>9, OwnerStep, Zenon
  DEF LocalInv, Discover

\* The plan is that of the new services.
LEMMA SyncStep ==
  ASSUME IInv, NEW p \in Proc, Sync(p)
  PROVE  IInv'
<1>1. pc[p] \in Locked /\ lock = p /\ LocalInv(p)
  BY Owner, Zenon DEF Sync, Locked, Refreshing, Activating, Either
<1>2. /\ pc'[p] = "syncing" /\ cand'[p] = cand[p] /\ gen'[p] = gen[p]
      /\ prev'[p] = prev[p] /\ svc'[p] = svc[p] /\ target'[p] = PlanOf(svc[p]) /\ entry'[p] = entry[p]
      /\ \A q \in Proc \ {p} : pc'[q] = pc[q] /\ cand'[q] = cand[q]
  BY Zenon DEF IInv, TypeOK, Sync, Touch
<1>3. pc'[p] \in Locked
  BY <1>2, Zenon DEF Locked, Refreshing, Activating, Either
<1>a. PlanOf(svc[p]) \in Plan /\ PlanOf(svc[p]).settings = cand[p]
  BY <1>1, ZenonT(60) DEF IInv, TypeOK, Sync, LocalInv, SvcInv, PlanOf, Plan, Service
<1>4. TypeOK'
  BY <1>1, <1>2, <1>3, <1>a, ZenonT(60) DEF IInv, TypeOK, Sync, Touch
<1>5. PhaseInv'
  BY <1>1, <1>2, <1>a, ProcAssumption, ZenonT(60) DEF IInv, PhaseInv, Sync, Proc, Requests
<1>6. ConsistentInv' /\ TrackerInv'
  BY <1>1, <1>2, <1>3, <1>a, ProcAssumption, ZenonT(60)
  DEF IInv, ConsistentInv, TrackerInv, Sync, Touch, Proc, Requests
<1>7. KindInv(p)' /\ CandInv(p)'
  BY <1>1, <1>2, <1>a, ProcAssumption, Zenon DEF LocalInv, KindInv, CandInv, Sync, Activating
<1>8. SvcInv(p)' /\ TargetInv(p)'
  BY <1>1, <1>2, <1>a, SentinelAssumption, Zenon DEF LocalInv, SvcInv, TargetInv, Sync, Touch
<1>9. StageInv(p)' /\ EntryInv(p)'
  BY <1>1, <1>2, <1>a, ProcAssumption, Zenon DEF LocalInv, StageInv, EntryInv, Sync, Activations
<1> QED
  BY <1>1, <1>2, <1>3, <1>4, <1>5, <1>6, <1>7, <1>8, <1>9, OwnerStep, Zenon DEF LocalInv, Sync

\* The backend serves the plan, unless it lost routes.
LEMMA SyncDoneStep ==
  ASSUME IInv, NEW p \in Proc, SyncDone(p)
  PROVE  IInv'
<1>1. pc[p] \in Locked /\ lock = p /\ LocalInv(p)
  BY Owner, Zenon DEF SyncDone, Locked, Refreshing, Activating, Either
<1>2. /\ pc'[p] = (IF p \in Activations THEN "persist" ELSE "publish")
      /\ cand'[p] = cand[p] /\ gen'[p] = gen[p]
      /\ prev'[p] = prev[p] /\ svc'[p] = svc[p] /\ target'[p] = target[p] /\ entry'[p] = entry[p]
      /\ \A q \in Proc \ {p} : pc'[q] = pc[q] /\ cand'[q] = cand[q]
  BY Zenon DEF IInv, TypeOK, SyncDone
<1>3. pc'[p] \in Locked
  BY <1>2, Zenon DEF Locked, Refreshing, Activating, Either
<1>a. /\ pc[p] = "syncing" /\ pc'[p] \in {"persist", "publish"}
      /\ pc'[p] = "persist" <=> p \in Activations
      /\ UNCHANGED <<active, cand, svc, target, published>>
  BY <1>2, SMTT(60) DEF SyncDone
<1>b. KindInv(p) /\ CandInv(p) /\ SvcInv(p) /\ TargetInv(p)
  BY <1>1, Zenon DEF LocalInv
<1>4. TypeOK'
  BY <1>1, <1>2, <1>3, ZenonT(60) DEF IInv, TypeOK, SyncDone, Applied, LocalInv, TargetInv
<1>5. PhaseInv'
  BY <1>1, <1>2, ProcAssumption, ZenonT(60) DEF IInv, PhaseInv, SyncDone, Proc, Requests
<1>6. ConsistentInv' /\ TrackerInv'
  <2>1. \A q \in Activations : pc'[q] # "publish" => pc[q] # "publish"
    BY <1>2, Zenon DEF SyncDone, Proc, Requests
  <2>2. pc'[p] \in {"persist", "publish"}
    BY <1>2, Zenon
  <2>3. ConsistentInv'
    BY <2>1, Zenon DEF IInv, ConsistentInv, Consistent, SyncDone
  <2>4. TrackerInv'
    BY <1>3, <2>2, Zenon DEF IInv, TrackerInv, SyncDone
  <2> QED
    BY <2>3, <2>4, Zenon
<1>7. KindInv(p)' /\ CandInv(p)'
  <2>1. KindInv(p)'
    BY <1>a, Zenon DEF KindInv, Activating
  <2>2. CandInv(p)'
    BY <1>a, <1>b, Zenon DEF CandInv
  <2> QED
    BY <2>1, <2>2, Zenon
<1>8. SvcInv(p)' /\ TargetInv(p)'
  <2>1. SvcInv(p)'
    BY <1>a, <1>b, Zenon DEF SvcInv
  <2>2. pc'[p] = "persist" => BackendVolatile \/ routes' = target[p]
    BY <1>a, <1>b, Zenon DEF TargetInv, SyncDone, Applied
  <2>3. TargetInv(p)'
    BY <1>a, <1>b, <2>2, Zenon DEF TargetInv
  <2> QED
    BY <2>1, <2>3, Zenon
<1>9. StageInv(p)' /\ EntryInv(p)'
  BY <1>1, <1>2, ProcAssumption, Zenon DEF LocalInv, StageInv, EntryInv, SyncDone, Activations
<1> QED
  BY <1>1, <1>2, <1>3, <1>4, <1>5, <1>6, <1>7, <1>8, <1>9, OwnerStep, Zenon
  DEF LocalInv, SyncDone

\* A failure changes nothing but the goroutine's own way.
LEMMA StepFailsStep ==
  ASSUME IInv, NEW p \in Proc, StepFails(p)
  PROVE  IInv'
<1>1. pc[p] \in Locked /\ lock = p /\ LocalInv(p)
  BY Owner, Zenon DEF StepFails, Locked, Refreshing, Activating, Either
<1>2. /\ pc'[p] = AfterFailure(p) /\ cand'[p] = cand[p] /\ gen'[p] = gen[p]
      /\ prev'[p] = prev[p] /\ svc'[p] = svc[p] /\ target'[p] = target[p] /\ entry'[p] = entry[p]
      /\ \A q \in Proc \ {p} : pc'[q] = pc[q] /\ cand'[q] = cand[q]
  BY Zenon DEF IInv, TypeOK, StepFails
<1>3. pc'[p] \in Locked
  BY <1>2, Zenon DEF Locked, Refreshing, Activating, Either, AfterFailure
<1>a. /\ pc'[p] \in {"restore", "failed"}
      /\ pc'[p] = "restore" => p \in Activations /\ pc[p] \in {"sync", "syncing"}
  BY <1>2, Zenon DEF AfterFailure
<1>4. TypeOK'
  BY <1>1, <1>2, <1>3, <1>a, ZenonT(60) DEF IInv, TypeOK, StepFails, Started
<1>5. PhaseInv'
  BY <1>1, <1>2, <1>a, ProcAssumption, ZenonT(60) DEF IInv, PhaseInv, StepFails, Started, Proc, Requests
<1>6. ConsistentInv' /\ TrackerInv'
  BY <1>1, <1>2, <1>3, <1>a, ProcAssumption, SMTT(60)
  DEF IInv, ConsistentInv, TrackerInv, StepFails, Started, Proc, Requests
<1>7. KindInv(p)' /\ CandInv(p)'
  BY <1>1, <1>2, <1>a, ProcAssumption, Zenon
  DEF LocalInv, KindInv, CandInv, StepFails, Activating
<1>8. SvcInv(p)' /\ TargetInv(p)'
  BY <1>1, <1>2, <1>a, SentinelAssumption, Zenon
  DEF LocalInv, SvcInv, TargetInv, StepFails, Started
<1>9. StageInv(p)' /\ EntryInv(p)'
  BY <1>1, <1>2, <1>a, ProcAssumption, Zenon
  DEF LocalInv, StageInv, EntryInv, StepFails, Activations
<1> QED
  BY <1>1, <1>2, <1>3, <1>4, <1>5, <1>6, <1>7, <1>8, <1>9, OwnerStep, Zenon
  DEF LocalInv, StepFails

=============================================================================
