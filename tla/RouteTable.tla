----------------------------- MODULE RouteTable -----------------------------
(***************************************************************************)
(* What a router.RouteController promises, whichever backend it drives.    *)
(*                                                                         *)
(* The backend is a table.  A call of Reconcile moves single entries       *)
(* straight to their planned values, clears what it owns only after        *)
(* everything planned is in place, and succeeds only when the plan is      *)
(* applied.  It may fail at any point, with or without a last move.        *)
(* Others may change the table; what a call promises about the whole       *)
(* table it promises as long as they do not (quiet).                       *)
(***************************************************************************)

CONSTANTS
    Key, Value,
    Owned,      \* the keys that the controller clears when they are not planned
    Absent      \* no entry

VARIABLES
    table,      \* the entries of the backend
    busy,       \* is a call working on the table?
    plan,       \* the plan that it has accepted
    quiet,      \* does the promise about the whole table hold for this call?
    result      \* of the last call: "none", "ok" or "error"

vars == <<table, busy, plan, quiet, result>>

Table == [Key -> Value \cup {Absent}]

Init ==
    /\ table \in Table /\ plan \in Table
    /\ busy = FALSE /\ quiet \in BOOLEAN /\ result = "none"

\* Every planned entry is in place.
Complete == \A k \in Key : plan[k] # Absent => table[k] = plan[k]

\* And there is no other among the owned ones.
Exact == Complete /\ \A k \in Owned : plan[k] = Absent => table[k] = Absent

Put(k) == plan[k] # Absent /\ table' = [table EXCEPT ![k] = plan[k]]

Clear(k) ==
    /\ k \in Owned /\ plan[k] = Absent
    /\ quiet => Complete
    /\ table' = [table EXCEPT ![k] = Absent]

Move == busy /\ \E k \in Key : Put(k) \/ Clear(k)

-----------------------------------------------------------------------------

Start == ~busy /\ result' = "none" /\ quiet' \in BOOLEAN /\ UNCHANGED <<table, busy, plan>>

Accept ==
    /\ ~busy /\ result = "none"
    /\ busy' = TRUE /\ plan' \in Table
    /\ UNCHANGED <<table, quiet, result>>

\* The controller reads the table.
Look == busy /\ quiet' \in BOOLEAN /\ UNCHANGED <<table, busy, plan, result>>

Work == Move /\ UNCHANGED <<busy, plan, quiet, result>>

Succeed ==
    /\ busy
    /\ quiet => Exact
    /\ busy' = FALSE /\ result' = "ok"
    /\ UNCHANGED <<table, plan, quiet>>

\* The call fails, perhaps with a move whose answer was lost, or the process ends.
Fail ==
    /\ Move \/ UNCHANGED table
    /\ busy' = FALSE /\ result' = "error"
    /\ UNCHANGED <<plan, quiet>>

Others == table' \in Table /\ quiet' = FALSE /\ UNCHANGED <<busy, plan, result>>

Next == Start \/ Accept \/ Look \/ Work \/ Succeed \/ Fail \/ Others

Spec == Init /\ [][Next]_vars

=============================================================================
