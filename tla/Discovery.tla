------------------------------ MODULE Discovery ------------------------------
(***************************************************************************)
(* discovery.Service.Discover over the paginated lists of pelican.Client,  *)
(* and runtime.Inventory, which keeps the last result.                     *)
(*                                                                         *)
(* Discover asks Pelican for the servers, page after page, then for the    *)
(* eggs, then for the allocations of every node with a server, each        *)
(* request with the attempts of Retry.  Pelican changes between any two    *)
(* requests.  It lists servers by ID and numbers them upwards, and it      *)
(* deletes no allocation that a server uses, nor gives it to a second one. *)
(***************************************************************************)
EXTENDS Retry, Sequences, FiniteSets

CONSTANTS
    Id,         \* server IDs
    Minecraft,  \* the servers whose egg has the minecraft tag
    Alloc, Node,
    NodeOf,     \* the node of each allocation
    Host,       \* addresses and host names
    Empty,      \* the empty one
    Unspecified,    \* the addresses that netip calls so, such as 0.0.0.0
    AddressOf,  \* the address of each allocation
    Fallback,   \* wildcardBackendHost
    PageSize,
    MaxChanges, \* bound: how often Pelican changes
    None

ASSUME InputAssumption ==
    /\ Id \subseteq Nat /\ IsFiniteSet(Id) /\ Minecraft \subseteq Id
    /\ NodeOf \in [Alloc -> Node] /\ AddressOf \in [Alloc -> Host] /\ Fallback \in Host
    /\ Empty \in Host /\ Unspecified \subseteq Host \ {Empty}
    /\ PageSize \in Nat \ {0} /\ MaxChanges \in Nat /\ None \notin Alloc \cup Host

VARIABLES
    servers,    \* Pelican: the primary allocation of each server, None if there is no server
    allocs,     \* Pelican: the allocations
    newest,     \* Pelican: the highest ID so far
    changes,    \* Pelican: how often it changed
    pc,         \* "idle", "servers", "eggs" or "allocations"
    page,       \* the page that is asked for next
    items,      \* the servers listed so far
    nodes,      \* processedNodes
    lookup,     \* allocationLookup
    inventory,  \* Inventory.servers, None until it is ready
    outcome,    \* of the last walk: "none", "ok", "unresolved", "refused" or "error"
    began,      \* the servers when the walk began
    stable,     \* those that have been there unchanged since
    held,       \* every server with every allocation it has had since
    quiet, deleted  \* since the walk began: nothing changed, a server was deleted

pelican == <<servers, allocs, newest, changes>>
walk == <<pc, page, items, nodes, lookup, inventory, outcome>>
history == <<began, stable, held, quiet, deleted>>
vars == <<servers, allocs, newest, changes, pc, page, items, nodes, lookup, inventory,
          outcome, began, stable, held, quiet, deleted, attempt, failed, ended>>

Item == [id : Id, alloc : Alloc]
Servers == [Id -> Alloc \cup {None}]

Listed(table) == {i \in Id : table[i] # None}

Entries(table) == {[id |-> i, alloc |-> table[i]] : i \in Listed(table)}

\* The place of i among the numbers in S, and the numbers of S in their order.
Place(S, i) == Cardinality({j \in S : j <= i})

InOrder(S) == [k \in 1..Cardinality(S) |-> CHOOSE i \in S : Place(S, i) = k]

\* The rows of a list in the order of Pelican.
Rows(table) ==
    LET ids == InOrder(Listed(table))
    IN  [k \in DOMAIN ids |-> [id |-> ids[k], alloc |-> table[ids[k]]]]

\* State, with what keeps a walk short: no page past the longest list Pelican ever has is asked for.
TypeOK ==
    /\ servers \in Servers /\ allocs \subseteq Alloc /\ newest \in Nat /\ changes \in 0..MaxChanges
    /\ pc \in {"idle", "servers", "eggs", "allocations"}
    /\ page \in Nat \ {0} /\ (page > 1 => (page - 1) * PageSize < Cardinality(Id))
    /\ items \in Seq(Item) /\ nodes \subseteq Node /\ lookup \subseteq Alloc
    /\ inventory \in Seq(Item) \cup {None}
    /\ outcome \in {"none", "ok", "unresolved", "refused", "error"}
    /\ began \in Servers /\ stable \subseteq Id /\ held \subseteq Item
    /\ quiet \in BOOLEAN /\ deleted \in BOOLEAN

NoServers == [i \in Id |-> None]

\* No two servers share an allocation.
Alone(table) == \A i, j \in Listed(table) : table[i] = table[j] => i = j

Init ==
    /\ servers \in Servers /\ Alone(servers)
    /\ newest \in Listed(servers) \cup {0} /\ \A i \in Listed(servers) : i <= newest
    /\ allocs = Alloc /\ changes = 0
    /\ pc = "idle" /\ page = 1 /\ items = <<>> /\ nodes = {} /\ lookup = {}
    /\ inventory = None /\ outcome = "none"
    /\ began = NoServers /\ stable = {} /\ held = {} /\ quiet = TRUE /\ deleted = FALSE
    /\ RetryInit

-----------------------------------------------------------------------------
\* The walk.

Finish(o) == pc' = "idle" /\ outcome' = o /\ page' = 1 /\ items' = <<>> /\ nodes' = {} /\ lookup' = {}

Refresh ==
    /\ pc = "idle"
    /\ pc' = "servers" /\ outcome' = "none"
    /\ began' = servers /\ stable' = Listed(servers) /\ held' = Entries(servers)
    /\ quiet' = TRUE /\ deleted' = FALSE
    /\ NewContext
    /\ UNCHANGED <<pelican, page, items, nodes, lookup, inventory>>

TotalPages == (Len(Rows(servers)) + PageSize - 1) \div PageSize

\* Fault: the last page is not asked for.
LastPageEarly == TotalPages <= 1 \/ page + 1 >= TotalPages

\* A list without pages, or one that has become shorter, ends here.
LastPage == TotalPages <= 1 \/ page >= TotalPages

\* What Pelican answers: the rows of the page, none if it is past the end.
PageRows ==
    LET rows == Rows(servers)
    IN  SubSeq(rows, (page - 1) * PageSize + 1,
               IF page * PageSize <= Len(rows) THEN page * PageSize ELSE Len(rows))

ListPage ==
    /\ pc = "servers" /\ Answered
    /\ items' = items \o PageRows
    /\ IF LastPage THEN pc' = "eggs" /\ page' = 1 ELSE page' = page + 1 /\ UNCHANGED pc
    /\ UNCHANGED <<pelican, nodes, lookup, inventory, outcome, history>>

\* The eggs and their tags do not change.
ListEggs ==
    /\ pc = "eggs" /\ Answered
    /\ pc' = "allocations"
    /\ UNCHANGED <<pelican, page, items, nodes, lookup, inventory, outcome, history>>

\* Nodes are visited in the order of the servers.
Unvisited == {k \in DOMAIN items : NodeOf[items[k].alloc] \notin nodes}

ListNodeAllocations ==
    /\ pc = "allocations" /\ Unvisited # {} /\ Answered
    /\ LET n == NodeOf[items[CHOOSE k \in Unvisited : \A j \in Unvisited : k <= j].alloc]
       IN  /\ lookup' = lookup \cup {a \in allocs : NodeOf[a] = n}
           /\ nodes' = nodes \cup {n}
    /\ UNCHANGED <<pelican, pc, page, items, inventory, outcome, history>>

\* Fault: the fallback is taken without a look at it.
UncheckedFallback(host) == IF host \in Unspecified THEN Fallback ELSE IF host = Empty THEN None ELSE host

\* None: there is no address to connect to.
ResolveBackendHost(host) ==
    CASE host \notin Unspecified \cup {Empty} -> host
      [] host \in Unspecified /\ Fallback \notin Unspecified \cup {Empty} -> Fallback
      [] OTHER -> None

Resolves(a) == ResolveBackendHost(AddressOf[a]) # None

Selected(rows) ==
    LET kept == InOrder({k \in DOMAIN rows : rows[k].id \in Minecraft})
    IN  [k \in DOMAIN kept |-> rows[kept[k]]]

\* All the servers are mapped or none is; Inventory keeps what it had in that case.
Discovered ==
    /\ pc = "allocations" /\ Unvisited = {}
    /\ LET found == Selected(items)
       IN  IF \A k \in DOMAIN found : found[k].alloc \in lookup /\ Resolves(found[k].alloc)
           THEN inventory' = found /\ Finish("ok")
           ELSE UNCHANGED inventory /\ Finish("unresolved")
    /\ UNCHANGED <<pelican, history, retryVars>>

\* A request is waiting for its answer.
Asking == pc \in {"servers", "eggs"} \/ (pc = "allocations" /\ Unvisited # {})

\* Fault: another attempt starts the list over with its first page.
ListAgain ==
    /\ Asking /\ TryAgain
    /\ IF pc = "servers" THEN page' = 1 /\ items' = <<>> ELSE UNCHANGED <<page, items>>
    /\ UNCHANGED <<pelican, pc, nodes, lookup, inventory, outcome, history>>

\* Fault: an answer that breaks off has left its rows in the result.
PageTwice ==
    /\ Asking /\ TryAgain
    /\ items' = IF pc = "servers" THEN items \o PageRows ELSE items
    /\ UNCHANGED <<pelican, pc, page, nodes, lookup, inventory, outcome, history>>

RequestAgain ==
    /\ Asking /\ TryAgain
    /\ UNCHANGED <<pelican, walk, history>>

\* The walk ends with the error of the request.
WalkFails ==
    /\ Asking /\ GiveUp
    /\ Finish("error")
    /\ UNCHANGED <<pelican, inventory, history>>

\* Pelican refuses the request, or its answer cannot be decoded.
WalkRefused ==
    /\ Asking /\ Answered
    /\ Finish("refused")
    /\ UNCHANGED <<pelican, inventory, history>>

\* The process stops, or the request that has asked for the refresh goes away.
Cancel ==
    /\ pc # "idle" /\ ContextEnds
    /\ UNCHANGED <<pelican, walk, history>>

-----------------------------------------------------------------------------
\* Pelican.

Free == {a \in allocs : \A i \in Id : servers[i] # a}

\* The server with ID i changes during a walk, or not.
Note(i) ==
    IF pc = "idle" THEN UNCHANGED <<began, stable, held, quiet>>
    ELSE stable' = stable \ {i} /\ held' = held \cup Entries(servers') /\ quiet' = FALSE /\ UNCHANGED began

ServerCreated(i) ==
    /\ i > newest /\ newest' = i
    /\ \E a \in Free : servers' = [servers EXCEPT ![i] = a]
    /\ Note(i)
    /\ UNCHANGED <<allocs, walk, deleted>>

ServerDeleted(i) ==
    /\ servers[i] # None
    /\ servers' = [servers EXCEPT ![i] = None]
    /\ Note(i)
    /\ deleted' = (deleted \/ pc # "idle")
    /\ UNCHANGED <<allocs, newest, walk>>

\* A server moves to another allocation, on its node or on another one.
ServerMoved(i) ==
    /\ servers[i] # None
    /\ \E a \in Free : servers' = [servers EXCEPT ![i] = a]
    /\ Note(i)
    /\ UNCHANGED <<allocs, newest, walk, deleted>>

AllocationsChange ==
    /\ \/ \E a \in Free : allocs' = allocs \ {a}
       \/ \E a \in Alloc \ allocs : allocs' = allocs \cup {a}
    /\ quiet' = (quiet /\ pc = "idle")
    /\ UNCHANGED <<servers, newest, walk, began, stable, held, deleted>>

Walk ==
    \/ ListPage \/ ListEggs \/ ListNodeAllocations \/ Discovered
    \/ RequestAgain \/ WalkFails \/ WalkRefused

Pelican ==
    /\ changes < MaxChanges /\ changes' = changes + 1
    /\ \/ \E i \in Id : ServerCreated(i) \/ ServerDeleted(i) \/ ServerMoved(i)
       \/ AllocationsChange
    /\ UNCHANGED retryVars

Next == Refresh \/ Walk \/ Cancel \/ Pelican

Spec == Init /\ [][Next]_vars

\* The HTTP client has a timeout, so every attempt comes to an end of some kind;
\* none has to succeed.
FairSpec == Spec /\ WF_vars(Walk)

-----------------------------------------------------------------------------
\* Properties.

\* A backend of this address can be used: it is not empty, and if it is
\* unspecified there is a fallback, which is not unspecified itself.
Usable(host) ==
    /\ host # Empty
    /\ host \in Unspecified => Fallback # Empty /\ Fallback \notin Unspecified

\* Discover is exact when Pelican did not change during the walk: it finds every
\* Minecraft server once, in order, on its own allocation, or it refuses, and
\* only because the address of one of them cannot be used.
ExactWhenQuiet ==
    LET expected == Selected(Rows(began))
        usable == \A k \in DOMAIN expected : Usable(AddressOf[expected[k].alloc])
    IN  quiet => /\ outcome = "ok" => usable /\ inventory = expected
                 /\ outcome = "unresolved" => ~usable

\* What the pages promise while Pelican changes: servers may be created and moved
\* during the walk, but unless one is deleted, a Minecraft server that was there
\* unchanged from the first request to the last is found exactly once, on its own
\* allocation.  (A deletion moves the later servers one place up, so that listAll
\* passes over the first one of the next page.)
StableServersAreFound ==
    outcome = "ok" /\ ~deleted =>
        \A i \in stable \cap Minecraft :
            \E k \in DOMAIN inventory :
                /\ inventory[k] = [id |-> i, alloc |-> began[i]]
                /\ \A j \in DOMAIN inventory : inventory[j].id = i => j = k

\* What Discover finds while Pelican changes in any way, deletions included: only
\* Minecraft servers, none of them twice, each on an allocation that it has had
\* during this walk.  A server that has moved may be on an allocation that is
\* another's by now, but two servers are found on one allocation only if one of
\* them has changed since the walk began.
FoundWasThere ==
    outcome = "ok" =>
        /\ \A k \in DOMAIN inventory : inventory[k].id \in Minecraft /\ inventory[k] \in held
        /\ \A j, k \in DOMAIN inventory : j < k =>
             /\ inventory[j].id < inventory[k].id
             /\ inventory[j].alloc = inventory[k].alloc =>
                  inventory[j].id \notin stable \/ inventory[k].id \notin stable

\* retry.Do tolerates transient errors: a walk, however many requests it takes,
\* fails only if its context has ended or if one request has failed as often as
\* it may.
TransientIsTolerated == outcome = "error" => ended \/ failed >= Attempts

\* listAll, the loop over the nodes and retry.Do come to an end although the
\* number of pages goes up and down, and whether requests succeed or not.
WalkEnds == pc # "idle" ~> pc = "idle"

\* A step that brings a walk nearer to its end: the end itself, the next kind of
\* request, another page or another node while there can be one, or another
\* attempt while there may be one.
Advances ==
    \/ pc' = "idle"
    \/ pc = "servers" /\ pc' = "eggs"
    \/ pc = "eggs" /\ pc' = "allocations"
    \/ pc = "servers" /\ pc' = pc /\ page' = page + 1 /\ page * PageSize < Cardinality(Id)
    \/ pc = "allocations" /\ pc' = pc /\ nodes \subseteq nodes' /\ nodes' # nodes /\ nodes' \subseteq Node
    \/ UNCHANGED <<pc, page, nodes>> /\ attempt' = attempt + 1 /\ attempt' <= Attempts

\* Why it does: every step of the walk advances it, and no change of Pelican and
\* no end of the context sets it back, so that its steps are bounded by the number
\* of pages, nodes and attempts whatever happens around it.
WalkAdvances ==
    [][/\ Walk => Advances
       /\ pc # "idle" => Advances \/ UNCHANGED <<pc, page, nodes, attempt>>]_vars

-----------------------------------------------------------------------------
\* The inductive invariant behind the properties.

\* Pelican keeps the allocations of its servers and numbers upwards.
PelicanInv == \A i \in Listed(servers) : i <= newest /\ servers[i] \in allocs

\* It gives no allocation to two servers, now or when the walk began.
AloneInv == Alone(servers) /\ Alone(began)

\* The attempts that have been made are the failed ones and the current one.
RetryInv == attempt \in Nat /\ failed \in Nat /\ ended \in BOOLEAN /\ (pc # "idle" => attempt = failed + 1)

\* Between two walks nothing is left of the first one but its result.
IdleInv == IF pc = "idle" THEN page = 1 /\ items = <<>> /\ nodes = {} /\ lookup = {} ELSE outcome = "none"

\* What is known of Pelican since the walk began.
SinceInv ==
    pc # "idle" =>
        /\ quiet => servers = began /\ ~deleted /\ stable = Listed(began)
        /\ \A i \in stable : began[i] # None /\ servers[i] = began[i]

\* Without deletions every server that has been listed keeps its place in the
\* list, the pages so far are full, and the last one brings all the servers that
\* have been there since the walk began.
ItemsInv ==
    pc # "idle" =>
        /\ \A k \in DOMAIN items : items[k].id \in stable => items[k].alloc = began[items[k].id]
        /\ ~deleted => \A k \in DOMAIN items :
             items[k].id \in Listed(servers) /\ Place(Listed(servers), items[k].id) = k
        /\ pc = "servers" /\ ~deleted =>
             /\ Len(items) = (page - 1) * PageSize
             /\ page > 1 => (page - 1) * PageSize < Cardinality(Listed(servers))
        /\ pc # "servers" /\ ~deleted => \A i \in stable : \E k \in DOMAIN items : items[k].id = i
        /\ pc # "servers" /\ quiet => Len(items) = Cardinality(Listed(servers))

\* Whatever Pelican does, what has been listed was true at some time of the walk,
\* and it is in the order of the numbers, before everything that is still to be
\* listed.
OrderInv ==
    pc # "idle" =>
        /\ Entries(servers) \subseteq held
        /\ \A k \in DOMAIN items : items[k] \in held /\ items[k].id <= newest
        /\ \A j, k \in DOMAIN items : j < k => items[j].id < items[k].id
        /\ pc = "servers" => \A k \in DOMAIN items :
             Place(Listed(servers), items[k].id) <= (page - 1) * PageSize

\* The allocations of the nodes that have been visited are known.
LookupInv == pc # "idle" /\ quiet => \A a \in allocs : NodeOf[a] \in nodes => a \in lookup

IInv ==
    /\ TypeOK /\ PelicanInv /\ AloneInv /\ RetryInv /\ IdleInv /\ SinceInv /\ ItemsInv /\ OrderInv /\ LookupInv
    /\ TransientIsTolerated /\ ExactWhenQuiet /\ StableServersAreFound /\ FoundWasThere

=============================================================================
