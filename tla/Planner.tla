------------------------------ MODULE Planner ------------------------------
(***************************************************************************)
(* router.Planner: from discovered servers and route policies to a         *)
(* complete route set, or to none at all.                                  *)
(*                                                                         *)
(* The loops of Plan are taken turn by turn over the servers and policies  *)
(* that Plan was given, the loop over the characters of a server name is a *)
(* recursive function; the properties compare them with definitions that   *)
(* do not loop.  A hostname is a sequence of characters, the first label;  *)
(* the domain is the same for all.  "a" and "b" stand for the lower-case   *)
(* letters and digits, "A" for an upper-case letter, "_" for the other     *)
(* separators and "!" for any other character.                             *)
(***************************************************************************)
EXTENDS Naturals, Sequences

CONSTANTS
    Uuid,       \* server UUIDs
    Blank,      \* no UUID
    Inventories,\* sequences of discovered servers
    Books,      \* functions from Uuid to a policy, or None
    MaxLabel,   \* the longest label of a hostname
    None

Char == {"a", "b", "A", "-", "_", "!"}
Alphanumeric == {"a", "b"}

\* backend: are an address and a positive port known?
Server == [uuid : Uuid \cup {Blank}, suspended : BOOLEAN, backend : BOOLEAN,
           name : Seq(Char), identifier : Seq(Char)]
Policy == [excluded : BOOLEAN, primary : Seq(Char), aliases : Seq(Seq(Char))]

ASSUME InputAssumption ==
    /\ Inventories \subseteq Seq(Server)
    /\ Books \subseteq [Uuid -> Policy \cup {None}]
    /\ MaxLabel \in Nat

VARIABLES
    servers, policies,
    phase,      \* of Plan: "idle", "planning", "planned" or "rejected"
    turn,       \* the server that is planned next
    named,      \* how many of its hostnames have their routes
    routes      \* the routes so far, or the plan

vars == <<servers, policies, phase, turn, named, routes>>

Route == [server : Uuid, hostname : Seq(Char)]

TypeOK ==
    /\ servers \in Inventories /\ policies \in Books
    /\ phase \in {"idle", "planning", "planned", "rejected"}
    /\ turn \in 1..(Len(servers) + 1) /\ named \in Nat /\ routes \in Seq(Route)

Init ==
    /\ servers \in Inventories /\ policies \in Books
    /\ phase = "idle" /\ turn = 1 /\ named = 0 /\ routes = <<>>

-----------------------------------------------------------------------------
\* Hostnames.

Lower(ch) == IF ch = "A" THEN "a" ELSE ch

LowerAll(value) == [i \in DOMAIN value |-> Lower(value[i])]

\* Fault: a separator is kept wherever it stands.
BuildAny(built, ch) ==
    IF Lower(ch) \in Alphanumeric THEN Append(built, Lower(ch))
    ELSE IF ch \in {"-", "_"} THEN Append(built, "-") ELSE built

\* One turn of the loop of normalizeHostnameLabel.
Build(built, ch) ==
    IF Lower(ch) \in Alphanumeric THEN Append(built, Lower(ch))
    ELSE IF ch \in {"-", "_"} /\ built # <<>> /\ built[Len(built)] # "-" THEN Append(built, "-")
    ELSE built

\* strings.Trim(built, "-") of a value that cannot begin with a hyphen.
TrimHyphen(built) ==
    IF built # <<>> /\ built[Len(built)] = "-" THEN SubSeq(built, 1, Len(built) - 1) ELSE built

NormalizeLabel(value) ==
    LET built[n \in 0..Len(value)] == IF n = 0 THEN <<>> ELSE Build(built[n - 1], value[n])
    IN  TrimHyphen(built[Len(value)])

BuildHostname(server) ==
    IF NormalizeLabel(server.name) # <<>> THEN NormalizeLabel(server.name)
    ELSE NormalizeLabel(server.identifier)

IsValidHostname(hostname) ==
    /\ hostname # <<>> /\ Len(hostname) <= MaxLabel
    /\ \A i \in DOMAIN hostname : hostname[i] \in Alphanumeric \cup {"-"}
    /\ hostname[1] # "-" /\ hostname[Len(hostname)] # "-"

-----------------------------------------------------------------------------
\* The plan.

PolicyOf(server) == IF server.uuid = Blank THEN None ELSE policies[server.uuid]

Primary(server) ==
    LET policy == PolicyOf(server)
    IN  IF policy # None /\ policy.primary # <<>> THEN policy.primary ELSE BuildHostname(server)

Aliases(server) == IF PolicyOf(server) = None THEN <<>> ELSE PolicyOf(server).aliases

Excluded(server) == PolicyOf(server) # None /\ PolicyOf(server).excluded

Unusable(server) == server.uuid = Blank \/ ~server.backend

Hostnames(server) == <<Primary(server)>> \o Aliases(server)

Contradictory(server) ==
    Excluded(server) /\ (PolicyOf(server).primary # <<>> \/ PolicyOf(server).aliases # <<>>)

\* Plan returns.
Finish(p, rs) == phase' = p /\ routes' = rs /\ turn' = 1 /\ named' = 0 /\ UNCHANGED <<servers, policies>>

\* Service.Routes, over the inventory and the policies it was given.
Routes ==
    /\ phase = "idle" /\ phase' = "planning"
    /\ UNCHANGED <<servers, policies, turn, named, routes>>

Planning == phase = "planning" /\ turn \in DOMAIN servers

Skip ==
    /\ Planning
    /\ LET server == servers[turn]
       IN  server.suspended \/ (~Unusable(server) /\ Excluded(server) /\ ~Contradictory(server))
    /\ turn' = turn + 1
    /\ UNCHANGED <<servers, policies, phase, named, routes>>

Refuse ==
    /\ Planning /\ ~servers[turn].suspended
    /\ Unusable(servers[turn]) \/ Contradictory(servers[turn])
    /\ Finish("rejected", <<>>)

\* Fault: a hostname is compared with those of other servers only.
TakenByOther(hostname) ==
    \E i \in DOMAIN routes : routes[i].hostname = hostname /\ routes[i].server # servers[turn].uuid

Taken(hostname) == \E i \in DOMAIN routes : routes[i].hostname = hostname

\* The primary hostname first, then the aliases.
AppendRoute ==
    /\ Planning
    /\ LET server == servers[turn]
           hostname == LowerAll(Hostnames(server)[named + 1])
       IN  /\ ~server.suspended /\ ~Unusable(server) /\ ~Excluded(server)
           /\ IF IsValidHostname(hostname) /\ ~Taken(hostname)
              THEN /\ routes' = Append(routes, [server |-> server.uuid, hostname |-> hostname])
                   /\ IF named + 1 = Len(Hostnames(server))
                      THEN turn' = turn + 1 /\ named' = 0
                      ELSE named' = named + 1 /\ UNCHANGED turn
                   /\ UNCHANGED <<servers, policies, phase>>
              ELSE Finish("rejected", <<>>)

Planned ==
    /\ phase = "planning" /\ turn > Len(servers)
    /\ Finish("planned", routes)

\* Discovery finds other servers, or a policy is written.
Change ==
    /\ phase \in {"planned", "rejected"} /\ phase' = "idle" /\ routes' = <<>>
    /\ \/ servers' \in Inventories /\ UNCHANGED policies
       \/ policies' \in Books /\ UNCHANGED servers
    /\ UNCHANGED <<turn, named>>

Next == Routes \/ Skip \/ Refuse \/ AppendRoute \/ Planned \/ Change

Spec == Init /\ [][Next]_vars

-----------------------------------------------------------------------------
\* Properties.

Active == {i \in DOMAIN servers : ~servers[i].suspended}

\* Who asks for a hostname: the server, and the place of the hostname among its own.
Wanted ==
    UNION {{<<i, k>> : k \in DOMAIN Hostnames(servers[i])}
           : i \in {j \in Active : ~Excluded(servers[j])}}

Asked(w) == LowerAll(Hostnames(servers[w[1]])[w[2]])

RouteFor(w) == [server |-> servers[w[1]].uuid, hostname |-> Asked(w)]

Acceptable ==
    /\ \A i \in Active : ~Unusable(servers[i]) /\ ~Contradictory(servers[i])
    /\ \A w \in Wanted : IsValidHostname(Asked(w))
    /\ \A v, w \in Wanted : Asked(v) = Asked(w) => v = w

\* Plan returns all the routes or none: it succeeds exactly when the whole
\* inventory and all its policies are acceptable, whatever their order, and
\* then every server that is active and not excluded has its primary hostname
\* and its aliases, each hostname is routed once, and nothing else is routed.
AllOrNothing ==
    /\ phase = "planned" =>
         /\ Acceptable
         /\ {routes[k] : k \in DOMAIN routes} = {RouteFor(w) : w \in Wanted}
         /\ \A j, k \in DOMAIN routes : routes[j].hostname = routes[k].hostname => j = k
    /\ phase = "rejected" => ~Acceptable

\* The letters and digits of a value in order.
Keep(kept, ch) == IF ch \in Alphanumeric THEN Append(kept, ch) ELSE kept

Letters(value) ==
    LET kept[n \in 0..Len(value)] == IF n = 0 THEN <<>> ELSE Keep(kept[n - 1], value[n])
    IN  kept[Len(value)]

\* A default hostname is empty or of the form the DNS wants, whatever the name
\* of the server, and keeps the letters and digits of the name in order.
\* Normalising it again changes nothing, and isValidHostname refuses it for its
\* length only.
DefaultsAreClean ==
    \A i \in DOMAIN servers :
        LET label == NormalizeLabel(servers[i].name)
        IN  /\ Letters(label) = Letters(LowerAll(servers[i].name))
            /\ \A k \in DOMAIN label : label[k] \in Alphanumeric \cup {"-"}
            /\ label # <<>> => label[1] # "-" /\ label[Len(label)] # "-"
            /\ \A k \in 1..(Len(label) - 1) : label[k] = "-" => label[k + 1] # "-"
            /\ NormalizeLabel(label) = label
            /\ label # <<>> /\ Len(label) <= MaxLabel => IsValidHostname(LowerAll(label))

\* The check for duplicates in infrared.Controller.ReconcileChanges.
InfraredAccepts(plan) == \A i, j \in DOMAIN plan : plan[i].server = plan[j].server => i = j

\* ADR-0008: the planner is the single collision-validation point for all
\* adapters, so no adapter refuses as a duplicate what the planner has passed.
PlannedMeansAccepted == phase = "planned" => InfraredAccepts(routes)

\* How far the two agree: as long as no two servers have the same UUID, Infrared
\* accepts exactly the plans in which no server has an alias.
AcceptedWithoutAliases ==
    phase = "planned" /\ (\A i, j \in Active : servers[i].uuid = servers[j].uuid => i = j) =>
        (InfraredAccepts(routes) <=> \A w \in Wanted : w[2] = 1)

-----------------------------------------------------------------------------
\* The inductive invariant behind AllOrNothing: the part of the inventory that
\* the loops have been through is acceptable and has its routes.

Handled(w) == w[1] < turn \/ (w[1] = turn /\ w[2] <= named)

HandledWanted == {w \in Wanted : Handled(w)}

PlanInv ==
    phase = "planning" =>
        /\ \A i \in Active : i < turn => ~Unusable(servers[i]) /\ ~Contradictory(servers[i])
        /\ named # 0 => turn \in DOMAIN servers /\ <<turn, named + 1>> \in Wanted
        /\ \A w \in HandledWanted : IsValidHostname(Asked(w))
        /\ \A v, w \in HandledWanted : Asked(v) = Asked(w) => v = w
        /\ {routes[k] : k \in DOMAIN routes} = {RouteFor(w) : w \in HandledWanted}
        /\ \A j, k \in DOMAIN routes : routes[j].hostname = routes[k].hostname => j = k

IInv ==
    /\ TypeOK /\ PlanInv /\ AllOrNothing
    /\ phase # "planning" => turn = 1 /\ named = 0
    /\ phase = "idle" => routes = <<>>

=============================================================================
