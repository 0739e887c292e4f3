--------------------------- MODULE SetupLifecycle ---------------------------
(***************************************************************************)
(* What an operator may rely on about the settings of the router (the      *)
(* setup states of ADR-0007), with no word on goroutines, the refresh lock *)
(* or the backend.                                                         *)
(*                                                                         *)
(* Staged settings are replaced freely and become the settings once;       *)
(* after that only an update replaces them.  A serving process answers     *)
(* readers from services built from the settings, except that a change is  *)
(* durable a moment before its services are published; no second change    *)
(* comes in between.                                                       *)
(***************************************************************************)

CONSTANTS Settings, None

VARIABLES
    settings,   \* the durable settings, None before setup is complete
    staged,     \* the pending setup
    up,         \* is the process serving?
    services,   \* the settings that the published services are built from
    lag         \* has a change been made durable that is not published yet?

vars == <<settings, staged, up, services, lag>>

Init == settings = None /\ staged = None /\ up = FALSE /\ services = None /\ lag = FALSE

Stage(s) ==
    /\ up /\ ~lag /\ settings = None
    /\ staged' = s
    /\ UNCHANGED <<settings, up, services, lag>>

Promote ==
    /\ up /\ ~lag /\ settings = None /\ staged # None
    /\ settings' = staged /\ staged' = None /\ lag' = TRUE
    /\ UNCHANGED <<up, services>>

Update(s) ==
    /\ up /\ ~lag /\ settings # None
    /\ settings' = s /\ lag' = TRUE
    /\ UNCHANGED <<staged, up, services>>

Publish ==
    /\ lag
    /\ services' = settings /\ lag' = FALSE
    /\ UNCHANGED <<settings, staged, up>>

Start ==
    /\ ~up
    /\ up' = TRUE /\ services' = settings
    /\ UNCHANGED <<settings, staged, lag>>

Stop ==
    /\ up
    /\ up' = FALSE /\ services' = None /\ lag' = FALSE
    /\ UNCHANGED <<settings, staged>>

Next == (\E s \in Settings : Stage(s) \/ Update(s)) \/ Promote \/ Publish \/ Start \/ Stop

Spec == Init /\ [][Next]_vars

=============================================================================
