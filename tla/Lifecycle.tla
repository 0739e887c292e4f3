------------------------------ MODULE Lifecycle ------------------------------
(***************************************************************************)
(* The serving process from the start of runLifecycle to its return: the   *)
(* main goroutine, the goroutine of the HTTP server, the requests it       *)
(* serves, and the scheduler goroutine, scheduler.Ticker.Run.              *)
(*                                                                         *)
(* When runLifecycle returns, app.Run closes the database and the process  *)
(* ends, whatever still runs.  One deadline covers everything that         *)
(* runLifecycle waits for.  Requests and tasks may take any time: nothing  *)
(* here cancels the context of a request.                                  *)
(***************************************************************************)
EXTENDS Naturals

CONSTANT MaxInflight    \* bound on the requests served at a time

ASSUME InflightAssumption == MaxInflight \in Nat

VARIABLES
    stop,       \* is ctx, the context of the signals, done?
    cancelled,  \* was cancelRuntime called?
    main,       \* "select", "shutdown", "draining", "waitServer", "waitWorker" or "returned"
    cause,      \* the case that the select of main took
    deadline,   \* "unarmed", "running" or "expired"
    failure,    \* is there an error to return?
    listener,   \* "open", "failed" or "shut"
    served,     \* serverResults: "none", "closed" (ErrServerClosed) or "failed"
    closeError, \* did Shutdown fail to close the listener?
    inflight,   \* requests being served
    worker,     \* the scheduler: "waiting", "task" or "done"
    tick        \* is a tick of the ticker waiting?

mainVars == <<cancelled, main, cause, deadline, failure>>
serverVars == <<listener, served, closeError, inflight>>
workerVars == <<worker, tick>>
vars == <<stop, cancelled, main, cause, deadline, failure, listener, served, closeError, inflight,
          worker, tick>>

TypeOK ==
    /\ stop \in BOOLEAN /\ cancelled \in BOOLEAN /\ failure \in BOOLEAN
    /\ closeError \in BOOLEAN /\ tick \in BOOLEAN
    /\ main \in {"select", "shutdown", "draining", "waitServer", "waitWorker", "returned"}
    /\ cause \in {"none", "stop", "server", "worker"}
    /\ deadline \in {"unarmed", "running", "expired"}
    /\ listener \in {"open", "failed", "shut"}
    /\ served \in {"none", "closed", "failed"}
    /\ inflight \in 0..MaxInflight
    /\ worker \in {"waiting", "task", "done"}

Init ==
    /\ stop = FALSE /\ cancelled = FALSE
    /\ main = "select" /\ cause = "none" /\ deadline = "unarmed" /\ failure = FALSE
    /\ listener = "open" /\ served = "none" /\ closeError = FALSE /\ inflight = 0
    /\ worker = "waiting" /\ tick = FALSE

-----------------------------------------------------------------------------
\* The main goroutine.

\* One of the cases of the select; cancelRuntime is called in each.
Leave(case, next) ==
    /\ main = "select"
    /\ cause' = case /\ main' = next /\ cancelled' = TRUE /\ deadline' = "running"
    /\ UNCHANGED <<stop, serverVars, workerVars>>

SelectStop == stop /\ Leave("stop", "shutdown") /\ UNCHANGED failure

\* ListenAndServe returns by itself only with an error.
SelectServer == served # "none" /\ Leave("server", "waitWorker") /\ failure' = TRUE

\* With a valid interval Ticker.Run returns nil.
SelectWorker == worker = "done" /\ Leave("worker", "shutdown") /\ UNCHANGED failure

\* Shutdown closes the listener and waits for the requests.
Shutdown ==
    /\ main = "shutdown"
    /\ main' = "draining"
    /\ listener' = "shut" /\ closeError' \in BOOLEAN
    /\ UNCHANGED <<stop, cancelled, cause, deadline, failure, served, inflight, workerVars>>

Drained ==
    /\ main = "draining" /\ inflight = 0
    /\ failure' = (failure \/ closeError)
    /\ main' = "waitServer"
    /\ UNCHANGED <<stop, cancelled, cause, deadline, serverVars, workerVars>>

Expired == deadline = "expired"

DrainExpires ==
    /\ main = "draining" /\ Expired
    /\ failure' = TRUE
    /\ main' = "waitServer"
    /\ UNCHANGED <<stop, cancelled, cause, deadline, serverVars, workerVars>>

\* Fault: the result of a server that was shut down is taken for a failure.
AnyServerResult == TRUE

\* ErrServerClosed is the normal result of a server that was shut down.
ServerError == served = "failed"

\* waitForWorker on serverResults: the result, or the end of the deadline.
WaitServer ==
    /\ main = "waitServer"
    /\ \/ served # "none" /\ failure' = (failure \/ ServerError)
       \/ Expired /\ failure' = TRUE
    /\ main' = IF cause = "stop" THEN "waitWorker" ELSE "returned"
    /\ UNCHANGED <<stop, cancelled, cause, deadline, serverVars, workerVars>>

\* Fault: the scheduler is not waited for.
WaitWorkerNot ==
    /\ main = "waitWorker"
    /\ main' = "returned"
    /\ UNCHANGED <<stop, cancelled, cause, deadline, failure, serverVars, workerVars>>

\* Fault: the scheduler is waited for without a deadline.
WaitWorkerForever ==
    /\ main = "waitWorker" /\ worker = "done"
    /\ main' = "returned"
    /\ UNCHANGED <<stop, cancelled, cause, deadline, failure, serverVars, workerVars>>

\* waitForWorker on schedulerResults.
WaitWorker ==
    /\ main = "waitWorker"
    /\ \/ worker = "done" /\ UNCHANGED failure
       \/ Expired /\ failure' = TRUE
    /\ main' = "returned"
    /\ UNCHANGED <<stop, cancelled, cause, deadline, serverVars, workerVars>>

-----------------------------------------------------------------------------
\* The HTTP server and its requests.

\* The result of ListenAndServe after Shutdown.
ServerReturns ==
    /\ listener = "shut" /\ served = "none"
    /\ served' = "closed"
    /\ UNCHANGED <<stop, mainVars, listener, closeError, inflight, workerVars>>

\* ListenAndServe fails by itself; connections that are open stay so.
ListenerFails ==
    /\ listener = "open"
    /\ listener' = "failed" /\ served' = "failed"
    /\ UNCHANGED <<stop, mainVars, closeError, inflight, workerVars>>

\* A request arrives, after a failure of the listener on an open connection.
Request ==
    /\ listener # "shut" /\ inflight < MaxInflight
    /\ inflight' = inflight + 1
    /\ UNCHANGED <<stop, mainVars, listener, served, closeError, workerVars>>

RequestDone ==
    /\ inflight > 0
    /\ inflight' = inflight - 1
    /\ UNCHANGED <<stop, mainVars, listener, served, closeError, workerVars>>

-----------------------------------------------------------------------------
\* The scheduler.

\* runtimeCtx is a child of ctx.
RuntimeDone == stop \/ cancelled

\* The ticker keeps one tick for a slow receiver and drops the others.
Tick ==
    /\ tick' = TRUE
    /\ UNCHANGED <<stop, mainVars, serverVars, worker>>

\* The select of Run takes a tick, even when the context is done as well.
StartTask ==
    /\ worker = "waiting" /\ tick
    /\ worker' = "task" /\ tick' = FALSE
    /\ UNCHANGED <<stop, mainVars, serverVars>>

WorkerStops ==
    /\ worker = "waiting" /\ RuntimeDone
    /\ worker' = "done"
    /\ UNCHANGED <<stop, mainVars, serverVars, tick>>

TaskSucceeds ==
    /\ worker = "task"
    /\ worker' = "waiting"
    /\ UNCHANGED <<stop, mainVars, serverVars, tick>>

\* A failure is recoverable unless the context is done.
AfterFailure == IF RuntimeDone THEN "done" ELSE "waiting"

TaskFails ==
    /\ worker = "task"
    /\ worker' = AfterFailure
    /\ UNCHANGED <<stop, mainVars, serverVars, tick>>

-----------------------------------------------------------------------------

\* SIGINT or SIGTERM.
Signal ==
    /\ stop' = TRUE
    /\ UNCHANGED <<mainVars, serverVars, workerVars>>

Expire ==
    /\ deadline = "running" /\ main # "returned"
    /\ deadline' = "expired"
    /\ UNCHANGED <<stop, cancelled, main, cause, failure, serverVars, workerVars>>

Main ==
    \/ SelectStop \/ SelectServer \/ SelectWorker
    \/ Shutdown \/ Drained \/ DrainExpires \/ WaitServer \/ WaitWorker

Next ==
    \/ Main \/ Expire \/ Signal
    \/ ServerReturns \/ ListenerFails \/ Request \/ RequestDone
    \/ Tick \/ StartTask \/ WorkerStops \/ TaskSucceeds \/ TaskFails

Spec == Init /\ [][Next]_vars

-----------------------------------------------------------------------------
\* Properties.

\* When runLifecycle returns nil, everything that uses the database has ended
\* before app.Run closes it: no request is served, none will be, and the
\* scheduler runs no task and will start none.
CleanExit ==
    main = "returned" /\ ~failure =>
        inflight = 0 /\ listener = "shut" /\ served = "closed" /\ worker = "done"

\* runLifecycle returns an error only for a reason: the deadline passed, the
\* server failed, or its listener could not be closed.  A shutdown in which
\* requests and task end in time is clean, whichever case the select took.
ErrorHasReason ==
    main = "returned" /\ failure => deadline = "expired" \/ served = "failed" \/ closeError

-----------------------------------------------------------------------------
\* The inductive invariant behind CleanExit and ErrorHasReason.

MainInv ==
    /\ main = "select" <=> cause = "none"
    /\ main # "select" => cancelled
    /\ main \in {"select", "shutdown", "draining"} => ~failure
    /\ cause = "server" => main \in {"waitWorker", "returned"} /\ failure
    /\ cause = "worker" => main # "waitWorker" /\ worker = "done"

\* What main has waited for, unless there is an error to return.
WaitedInv ==
    ~failure =>
        /\ main \in {"waitServer", "waitWorker", "returned"} => inflight = 0
        /\ main \in {"waitWorker", "returned"} => served = "closed"
        /\ main = "returned" => worker = "done"

ServerInv ==
    /\ listener = "shut" <=> main \notin {"select", "shutdown"} /\ cause # "server"
    /\ listener = "open" => served = "none"
    /\ listener = "failed" => served = "failed"

ReasonInv == failure => deadline = "expired" \/ served = "failed" \/ closeError

IInv == TypeOK /\ MainInv /\ WaitedInv /\ ServerInv /\ ReasonInv

=============================================================================
