-------------------------------- MODULE Retry --------------------------------
(***************************************************************************)
(* retry.Do: the attempts of one idempotent HTTP request after another     *)
(* under one context.  The delay between two attempts is finite and is not *)
(* modelled; an attempt that the end of the context interrupts, or that    *)
(* would follow it, is not answered.                                       *)
(***************************************************************************)
EXTENDS Naturals

CONSTANT Attempts       \* Config.Attempts

ASSUME AttemptsAssumption == Attempts \in Nat \ {0}

VARIABLES
    attempt,    \* the attempt that is made
    failed,     \* how many attempts of this request have failed
    ended       \* is the context done?

retryVars == <<attempt, failed, ended>>

RetryInit == attempt = 1 /\ failed = 0 /\ ended = FALSE

NewContext == attempt' = 1 /\ failed' = 0 /\ ended' = FALSE

\* Fault: the attempts are counted over all the requests.
KeepCounting == attempt

FirstAttempt == 1

\* The response is not one of the transient errors, and Do returns it.
Answered ==
    /\ ~ended
    /\ attempt' = FirstAttempt /\ failed' = 0
    /\ UNCHANGED ended

Exhausted == attempt >= Attempts

\* No response, or one of the transient errors: after a delay there is another attempt.
TryAgain ==
    /\ ~ended /\ ~Exhausted
    /\ attempt' = attempt + 1 /\ failed' = failed + 1
    /\ UNCHANGED ended

\* It was the last attempt, or the context ends first.
GiveUp ==
    /\ \/ ~ended /\ Exhausted /\ failed' = failed + 1
       \/ ended /\ UNCHANGED failed
    /\ UNCHANGED <<attempt, ended>>

ContextEnds == ~ended /\ ended' = TRUE /\ UNCHANGED <<attempt, failed>>

==============================================================================
