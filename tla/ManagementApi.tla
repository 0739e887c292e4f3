---------------------------- MODULE ManagementApi ----------------------------
(***************************************************************************)
(* The handlers of http.Server that change something, each as the steps    *)
(* between which other requests may run: the writes of a route policy, on  *)
(* RoutePolicyStore, and the actions behind actioncontrol.Limiter (setup,  *)
(* settings and manual reconciliation).  Every handler ends by recording   *)
(* its outcome in the action history; the bootstrap check in front of the  *)
(* setup handler has a record of its own.                                  *)
(*                                                                         *)
(* What the setup and settings services and the refresh change, if they    *)
(* change anything, is in Activation; here they succeed or fail.           *)
(***************************************************************************)
EXTENDS RoutePolicyStore, Sequences

CONSTANTS
    Action,     \* the classes of the limiter
    Interval,   \* of the limiter
    MaxTime     \* bound on the monotonic clock

ASSUME IntervalAssumption == Interval \in Nat \ {0} /\ MaxTime \in Nat

VARIABLES
    now,        \* time.Now(), the monotonic reading
    next,       \* Limiter.next
    admitted,   \* the readings that were admitted, in order
    task,       \* of each client's request: "none", "authorized", "limited" (has read
                \* the clock), "working", "writing", or the outcome that is to be recorded
    asked,      \* the class and the reading of a limited request
    written,    \* the policy that the request has committed and now reads back
    audit       \* the newest event of the action history, None if there is none

limiterVars == <<now, next, admitted, asked>>
apiVars == <<vars, limiterVars, task, written, audit>>

Outcome == {"success", "failure", "canceled", "denied"}

ApiInit ==
    /\ Init
    /\ now = 0 /\ next = [a \in Action |-> 0] /\ admitted = [a \in Action |-> <<>>]
    /\ task = [c \in Client |-> "none"]
    /\ asked = [c \in Client |-> None]
    /\ written = [c \in Client |-> None]
    /\ audit = None

-----------------------------------------------------------------------------

\* The request of c has come to an outcome, or to its next step.
Turn(c, step) == task' = [task EXCEPT ![c] = step]

Wrote(c, policy) == written' = [written EXCEPT ![c] = policy]

\* outcomeForError, and the other branches that record an error.
Fails(c) == \E outcome \in {"failure", "canceled"} : Turn(c, outcome)

\* recordAction: Append within a second, whatever became of the client; if it
\* fails, the record is lost.  A lost record leaves the rest as it is.
RecordAction(c) ==
    /\ task[c] \in Outcome
    /\ audit' \in {audit, [kind |-> "action", outcome |-> task[c]]}
    /\ Turn(c, "none")
    /\ UNCHANGED <<vars, limiterVars, written>>

-----------------------------------------------------------------------------
\* Route policies.

ListPolicies(c) ==
    /\ task[c] = "none" /\ (List(c) \/ ReadAliases(c) \/ ReadFails(c))
    /\ UNCHANGED <<limiterVars, task, written, audit>>

\* Not decoded, not valid, or rejected by the store before anything is committed.
RejectPolicy(c) ==
    /\ task[c] = "none" /\ pc[c] = "idle"
    /\ Fails(c)
    /\ UNCHANGED <<vars, limiterVars, written, audit>>

\* createRoutePolicy, updateRoutePolicy: the store commits, then reads back.
WritePolicy(c) ==
    /\ task[c] = "none"
    /\ \E m \in Main, names \in SUBSET Alias :
          /\ Put(c, m, names)
          /\ Wrote(c, [main |-> m, revision |-> row'.revision, aliases |-> names, life |-> life'])
    /\ Turn(c, "writing")
    /\ UNCHANGED <<limiterVars, audit>>

\* The row, which may be gone, then the aliases; a query may fail.
ReadBack(c) ==
    /\ task[c] = "writing"
    /\ \/ Get(c) /\ pc'[c] = "aliases" /\ UNCHANGED <<task, written>>
       \/ /\ \/ Get(c) /\ pc'[c] = "idle" /\ Turn(c, "failure")
             \/ ReadAliases(c) /\ Turn(c, "success")
             \/ ReadFails(c) /\ Fails(c)
          /\ Wrote(c, None)
    /\ UNCHANGED <<limiterVars, audit>>

DeletePolicy(c) ==
    /\ task[c] = "none" /\ Delete(c)
    /\ Turn(c, "success")
    /\ UNCHANGED <<limiterVars, written, audit>>

-----------------------------------------------------------------------------
\* The limited actions.

Clock ==
    /\ now < MaxTime /\ now' = now + 1
    /\ UNCHANGED <<vars, next, admitted, asked, task, written, audit>>

\* bootstrapOnly records the outcome of its check, and lets the request pass or not;
\* a request for the setup status is answered then, without another record.
Bootstrap(c) ==
    /\ task[c] = "none" /\ pc[c] = "idle"
    /\ \E outcome \in {"success", "failure", "denied"} :
          /\ audit' \in {audit, [kind |-> "bootstrap", outcome |-> outcome]}
          /\ \/ outcome = "success" /\ Turn(c, "authorized")
             \/ UNCHANGED task
    /\ UNCHANGED <<vars, limiterVars, written>>

\* allowAction reads the clock before Allow takes the mutex.  Settings and manual
\* reconciliation are authorized without a record.
AskToAct(c) ==
    /\ task[c] \in {"none", "authorized"} /\ pc[c] = "idle"
    /\ \E a \in Action : asked' = [asked EXCEPT ![c] = [action |-> a, at |-> now]]
    /\ Turn(c, "limited")
    /\ UNCHANGED <<vars, now, next, admitted, written, audit>>

\* Fault: the next time is counted from the last one, so unused time adds up.
NextFromLast(a, at) == next[a] + Interval

NextTime(a, at) == at + Interval

\* Limiter.Allow, under its mutex.
Allow(c) ==
    /\ task[c] = "limited"
    /\ LET a == asked[c].action
           at == asked[c].at
       IN  IF at < next[a]
           THEN Turn(c, "denied") /\ UNCHANGED <<next, admitted>>
           ELSE /\ next' = [next EXCEPT ![a] = NextTime(a, at)]
                /\ admitted' = [admitted EXCEPT ![a] = Append(@, at)]
                /\ Turn(c, "working")
    /\ asked' = [asked EXCEPT ![c] = None]
    /\ UNCHANGED <<vars, now, written, audit>>

\* configureSetup and updateSettings, once admitted: an invalid request, or
\* what Setup and Update of the settings answer.
Perform(c) ==
    /\ task[c] = "working"
    /\ Turn(c, "success") \/ Fails(c)
    /\ UNCHANGED <<vars, limiterVars, written, audit>>

\* reconcileDashboard, once admitted: dismissed without a record if the request
\* lacks its header or is not an operator's, or what the refresh answers.  It
\* answers nil also when nothing is configured or everything is in place.
Reconcile(c) ==
    /\ task[c] = "working"
    /\ Turn(c, "none") \/ Turn(c, "success") \/ Fails(c)
    /\ UNCHANGED <<vars, limiterVars, written, audit>>

ApiNext ==
    \/ Clock
    \/ \E c \in Client :
          \/ ListPolicies(c) \/ RejectPolicy(c) \/ WritePolicy(c) \/ ReadBack(c) \/ DeletePolicy(c)
          \/ Bootstrap(c) \/ AskToAct(c) \/ Allow(c) \/ Perform(c) \/ Reconcile(c) \/ RecordAction(c)

ApiSpec == ApiInit /\ [][ApiNext]_apiVars

-----------------------------------------------------------------------------
\* Properties.

\* The two are the same version of the policy.
SameVersion(v, w) == v.life = w.life /\ v.revision = w.revision

\* v is the version w or a later one.
NotOlder(v, w) == v.life > w.life \/ (v.life = w.life /\ v.revision >= w.revision)

\* The row of v is the one that the write w, or a later one, has left.
Shows(v, w) == NotOlder(v, w) /\ (SameVersion(v, w) => v.main = w.main)

\* The version w is still the one that is stored.
Stands(w) == row # None /\ SameVersion([life |-> life, revision |-> row.revision], w)

\* The answer to a write w, which the store reads in two queries outside the
\* transaction: its row is the one that w or a later write has left, and as long
\* as w stands the answer is the very policy that w asked for, aliases included.
\* Only when somebody else has written since may the aliases be of a later
\* version than the row, or be none after a delete.
AnswerIsCurrent ==
    [][\A c \in Client :
         task[c] = "writing" /\ task'[c] = "success" =>
             /\ Shows(view'[c], written[c])
             /\ Stands(written[c]) => view'[c] = written[c]]_apiVars

\* The limiter: of the requests of one class, however they race for the mutex
\* with their readings of the clock, those admitted are an interval apart.
AdmittedAreSpaced ==
    \A a \in Action : \A i, j \in DOMAIN admitted[a] :
        i < j => admitted[a][j] >= admitted[a][i] + Interval

-----------------------------------------------------------------------------
\* The inductive invariants behind AdmittedAreSpaced and AnswerIsCurrent.

LimiterInv ==
    /\ now \in Nat /\ next \in [Action -> Nat] /\ admitted \in [Action -> Seq(Nat)]
    /\ asked \in [Client -> [action : Action, at : Nat] \cup {None}]
    /\ \A c \in Client : task[c] = "limited" => asked[c] \in [action : Action, at : Nat]
    /\ \A a \in Action : \A i \in DOMAIN admitted[a] : admitted[a][i] + Interval <= next[a]
    /\ AdmittedAreSpaced

\* The policy is as w has written it, or later.
IsWritten(w) ==
    /\ w \in View /\ w.life <= life
    /\ row # None /\ w.life = life => w.revision <= row.revision
    /\ Stands(w) => w.main = row.main /\ w.aliases = aliases

\* So is what of it was read back already.
AnswerInv ==
    \A c \in Client : task[c] = "writing" =>
        IsWritten(written[c]) /\ (pc[c] = "aliases" => Shows(view[c], written[c]))

TaskState == Outcome \cup {"none", "authorized", "limited", "working", "writing"}

TaskType == task \in [Client -> TaskState] /\ DOMAIN written = Client

ApiInv == TaskType /\ LimiterInv /\ AnswerInv

=============================================================================
