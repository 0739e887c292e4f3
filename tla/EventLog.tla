------------------------------ MODULE EventLog ------------------------------
(***************************************************************************)
(* A history table: operationalhistory.Store and actionhistory.Store.      *)
(*                                                                         *)
(* An event has an identifier from AUTOINCREMENT, which is never used      *)
(* again, and the wall-clock time at which it was appended; the clock may  *)
(* be set back.  Append inserts and prunes in one transaction.  SQLite     *)
(* compares times as text, in UTC, in the order of the times.              *)
(***************************************************************************)
EXTENDS Naturals, FiniteSets

CONSTANT Retention      \* how many events are kept

ASSUME RetentionAssumption == Retention \in Nat \ {0}

VARIABLES
    log,        \* the rows
    lastId,     \* the last identifier given
    ever        \* all the events that were ever committed

logVars == <<log, lastId, ever>>

Event == [id : Nat, at : Nat]

LogInit == log = {} /\ lastId = 0 /\ ever = {}

\* The order of the listing and of the pruning.
Newer(e, f) == e.at > f.at \/ (e.at = f.at /\ e.id > f.id)

\* Fault: the oldest identifiers are pruned, whatever their times.
NewestById(events) == {e \in events : Cardinality({f \in events : f.id > e.id}) < Retention}

Newest(events) == {e \in events : Cardinality({f \in events : Newer(f, e)}) < Retention}

\* Append at some time: the rows that are left after the insertion and the pruning.
Commit(at) ==
    LET e == [id |-> lastId + 1, at |-> at]
    IN  /\ lastId' = lastId + 1
        /\ log' = Newest(log \cup {e})
        /\ ever' = ever \cup {e}

\* Pruning as it goes, over restarts and whatever the clock does, leaves the
\* most recent events of all that were ever appended, and drops no other.
KeepsTheNewest == log = {e \in ever : Cardinality({f \in ever : Newer(f, e)}) < Retention}

\* Its inductive form.
LogInv == ever \in SUBSET Event /\ IsFiniteSet(ever) /\ lastId \in Nat /\ log = Newest(ever)

=============================================================================
