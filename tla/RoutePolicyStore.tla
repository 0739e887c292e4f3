-------------------------- MODULE RoutePolicyStore --------------------------
(***************************************************************************)
(* routepolicy.Store for one server UUID, and clients of the management    *)
(* API that read a policy and write it back under its revision.            *)
(*                                                                         *)
(* A policy is a row and the rows of its aliases in a second table.  Every *)
(* write is one SQLite transaction and is atomic; a transaction that fails *)
(* changes nothing.  List and Get query the row and then the aliases       *)
(* outside any transaction, so other clients may write in between; Get     *)
(* also produces the answer of Create and Update.                          *)
(***************************************************************************)
EXTENDS Naturals

CONSTANTS
    Client,
    Main,           \* primary hostname and exclusion flag of a policy
    Alias,
    MaxRevision,    \* bound on the updates of one policy
    MaxLives,       \* bound on the times the policy is created
    None

ASSUME BoundsAssumption == MaxRevision \in Nat \ {0} /\ MaxLives \in Nat
ASSUME NoneAssumption ==
    None \notin [main : Main, revision : Nat]
                \cup [main : Main, revision : Nat, aliases : SUBSET Alias, life : Nat]

VARIABLES
    row,        \* the row of route_policies, None if there is none
    aliases,    \* the rows of route_policy_aliases
    life,       \* how often the policy was created
    pc,         \* client: "idle", "respond" (written, to be read back), "aliases"
    view        \* client: the policy as last answered, None if it has none

vars == <<row, aliases, life, pc, view>>

Row == [main : Main, revision : Nat]
View == [main : Main, revision : Nat, aliases : SUBSET Alias, life : Nat]

TypeOK ==
    /\ row \in Row \cup {None}
    /\ aliases \subseteq Alias
    /\ life \in Nat
    /\ pc \in [Client -> {"idle", "respond", "aliases"}]
    /\ view \in [Client -> View \cup {None}]

Init ==
    /\ row = None /\ aliases = {} /\ life = 0
    /\ pc = [c \in Client |-> "idle"]
    /\ view = [c \in Client |-> None]

-----------------------------------------------------------------------------

\* The row of the policy is read.
ReadRow(c) ==
    /\ IF row = None
       THEN /\ view' = [view EXCEPT ![c] = None]
            /\ pc' = [pc EXCEPT ![c] = "idle"]
       ELSE /\ view' = [view EXCEPT ![c] = [main |-> row.main, revision |-> row.revision,
                                            aliases |-> {}, life |-> life]]
            /\ pc' = [pc EXCEPT ![c] = "aliases"]
    /\ UNCHANGED <<row, aliases, life>>

\* A client asks for the policies; List queries the aliases row by row.
List(c) == pc[c] = "idle" /\ ReadRow(c)

\* The store reads a policy back after a write; without a row the answer is ErrNotFound.
Get(c) == pc[c] = "respond" /\ ReadRow(c)

\* The second query of either.
ReadAliases(c) ==
    /\ pc[c] = "aliases"
    /\ view' = [view EXCEPT ![c] = [main |-> view[c].main, revision |-> view[c].revision,
                                    aliases |-> aliases, life |-> view[c].life]]
    /\ pc' = [pc EXCEPT ![c] = "idle"]
    /\ UNCHANGED <<row, aliases, life>>

\* A query fails or the client goes away: the answer is an error, even when
\* the write before it was committed.
ReadFails(c) ==
    /\ pc[c] \in {"respond", "aliases"}
    /\ view' = [view EXCEPT ![c] = None]
    /\ pc' = [pc EXCEPT ![c] = "idle"]
    /\ UNCHANGED <<row, aliases, life>>

\* The write is committed and the store reads it back.
Respond(c) ==
    /\ view' = [view EXCEPT ![c] = None]
    /\ pc' = [pc EXCEPT ![c] = "respond"]

\* Fault: the old aliases are not deleted before the new ones are inserted.
AddAliases(names) == aliases' = aliases \cup names

ReplaceAliases(names) == aliases' = names

Create(c, m, names) ==
    /\ pc[c] = "idle" /\ row = None /\ life < MaxLives
    /\ row' = [main |-> m, revision |-> 1]
    /\ ReplaceAliases(names)
    /\ life' = life + 1
    /\ Respond(c)

\* Fault: the revision of the request is not compared.
AnyRevision(c) == view[c] # None /\ row # None

\* WHERE server_uuid = ? AND revision = ?
Expected(c) == view[c] # None /\ row # None /\ row.revision = view[c].revision

Update(c, m, names) ==
    /\ pc[c] = "idle" /\ Expected(c) /\ row.revision < MaxRevision
    /\ row' = [main |-> m, revision |-> row.revision + 1]
    /\ ReplaceAliases(names)
    /\ Respond(c)
    /\ UNCHANGED life

\* The client asks for this policy: a new one, or in place of the one it has seen.
Put(c, m, names) == Create(c, m, names) \/ Update(c, m, names)

\* Fault: the aliases are left to ON DELETE CASCADE, which SQLite ignores
\* unless foreign keys are switched on.
CascadeOnly == aliases

AliasesAfterDelete == {}

Delete(c) ==
    /\ pc[c] = "idle" /\ Expected(c)
    /\ row' = None /\ aliases' = AliasesAfterDelete
    /\ view' = [view EXCEPT ![c] = None]
    /\ UNCHANGED <<life, pc>>

Next ==
    \E c \in Client :
        \/ List(c) \/ Get(c) \/ ReadAliases(c) \/ ReadFails(c) \/ Delete(c)
        \/ \E m \in Main, names \in SUBSET Alias : Put(c, m, names)

Spec == Init /\ [][Next]_vars

-----------------------------------------------------------------------------
\* Properties.

Changes == <<row, aliases>>' # <<row, aliases>>

\* The client that replaces or deletes a policy in this step gives up its view.
Replaces(c) == row # None /\ Changes /\ view'[c] # view[c]

HasSeen(c) == view[c].main = row.main /\ view[c].aliases = aliases

\* Optimistic concurrency: a client that replaces or deletes a policy has seen
\* what it replaces, aliases included, although a read may mix the row of one
\* revision with the aliases of a later one.  Within one life of the policy.
NoLostUpdate == [][\A c \in Client : Replaces(c) /\ view[c].life = life => HasSeen(c)]_vars

\* ADR-0008: a monotonically increasing revision, by which a stale write fails.
\* The same without the restriction to one life.
StaleWriteConflicts == [][\A c \in Client : Replaces(c) => HasSeen(c)]_vars

\* A deleted policy leaves no alias rows behind, although SQLite does not
\* enforce the foreign key of route_policy_aliases.
NoOrphans == row = None => aliases = {}

-----------------------------------------------------------------------------
\* The inductive invariant behind NoLostUpdate.

\* No view is from the future, and one with the revision of the row has its content.
ViewInv ==
    \A c \in Client :
        /\ pc[c] = "aliases" => view[c] # None
        /\ view[c] # None => view[c].life <= life
        /\ view[c] # None /\ row # None /\ view[c].life = life =>
             /\ view[c].revision <= row.revision
             /\ view[c].revision = row.revision =>
                  view[c].main = row.main /\ (pc[c] # "aliases" => view[c].aliases = aliases)

IInv == TypeOK /\ ViewInv /\ NoOrphans

=============================================================================
