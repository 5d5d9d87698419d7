---------------------------- MODULE NpepRuntime ----------------------------
(***************************************************************************)
(* Switching one classroom device between exam and daily mode              *)
(* (services/npepRuntimeService.js, domain/npep/runtimeControl.js).        *)
(* Administrators queue operations, the device's host polls for them, asks *)
(* for a grant, executes and reports events.  The ledger has one slot per  *)
(* device: an operation holds it until it is resolved.                     *)
(*                                                                         *)
(* Every call locks the school, the screen and the device, so it is one    *)
(* step; what happens between the calls is what matters: the host crashes  *)
(* and starts again under a new control epoch, the policy changes, the     *)
(* initiator loses the role, time runs out, requests and receipts arrive   *)
(* late or again.  A call from a superseded session, a retry that repeats  *)
(* an answer and an event that was received before change nothing and are  *)
(* left out; so are the fences of the device itself (NpepPairing).         *)
(***************************************************************************)
EXTENDS Naturals, FiniteSets

CONSTANTS
    Operations,     \* operationIds
    Requests,       \* requestIds of administrators' calls
    Admins,         \* login sessions of administrators
    Targets,        \* the modes that are asked for
    Environment,    \* the changes of the environment that happen
    MaxRun,         \* bound on the host's starts
    MaxSession,     \* bound on its sessions
    MaxPolicy,      \* bound on the policy revision
    MaxEvents,      \* bound on the events of an operation
    MaxAliases,     \* requests that can share one operation (256)
    Null

AllTargets == {"EXAM", "DAILY"}
AllChanges == {"restart", "session", "policy", "authority", "age", "expire"}
Results == {"SUCCEEDED", "PARTIAL", "UNKNOWN", "REJECTED", "FAILED"}
Progress == {"RECEIVED", "CHECKING"}
States == Results \cup Progress \cup {"QUEUED", "START_AUTHORIZED", "CANCELLED", "EXPIRED"}

\* What an event says of the machine: nothing was touched, a mode is complete,
\* or neither.
Evidence == {"untouched", "unclear"} \cup AllTargets

\* The session a host has opened and the control epoch it runs under.
Context == [session: 1..MaxSession, run: 1..MaxRun]

\* NpepRuntimePolicy with the last status sample: paired stands for supported
\* and pairedExamControl, daily for remoteDailyControl.
Policy == [revision: 1..MaxPolicy, paired: BOOLEAN, enabled: BOOLEAN, daily: BOOLEAN,
           context: Context, fresh: BOOLEAN]

\* NpepRuntimeOperation.
Operation == [request: Requests, aliases: SUBSET Requests, initiator: Admins,
              target: AllTargets, policy: 1..MaxPolicy, run: 1..MaxRun, state: States,
              grant: Context \cup {Null}, resolved: BOOLEAN, retired: BOOLEAN,
              ended: BOOLEAN, last: 0..MaxEvents, overdue: BOOLEAN]

ASSUME BoundAssumption == /\ MaxRun \in Nat \ {0} /\ MaxSession \in Nat \ {0}
                          /\ MaxPolicy \in Nat \ {0}
                          /\ MaxEvents \in Nat /\ MaxAliases \in Nat
ASSUME NullAssumption == Null \notin Policy \cup Operation \cup Context
ASSUME ChoiceAssumption == Targets \subseteq AllTargets /\ Environment \subseteq AllChanges

VARIABLES
    host,           \* the context of the host's current session
    policy,         \* NpepRuntimePolicy
    op,             \* NpepRuntimeOperation
    authorized      \* sessions of accounts that are administrators right now

vars == <<host, policy, op, authorized>>

TypeOK == /\ host \in Context
          /\ policy \in Policy \cup {Null}
          /\ op \in [Operations -> Operation \cup {Null}]
          /\ authorized \subseteq Admins

Init == /\ host = [session |-> 1, run |-> 1]
        /\ policy = Null
        /\ op = [o \in Operations |-> Null]
        /\ authorized = Admins

-----------------------------------------------------------------------------
(* Helpers *)

Unresolved(o) == op[o] # Null /\ ~op[o].resolved

\* Mutant: an operation under way keeps its slot only until its time is up.
SettledTimely(o) ==
    LET v == op[o]
    IN  IF Unresolved(o) /\ v.overdue
        THEN [v EXCEPT !.state = "EXPIRED", !.resolved = TRUE]
        ELSE v

\* Mutant: an operation nobody starts waits for ever.
SettledPatient(o) ==
    LET v == op[o]
    IN  IF /\ Unresolved(o) /\ policy # Null /\ policy.paired
           /\ v.grant # Null /\ v.run # policy.context.run
        THEN [v EXCEPT !.state = "UNKNOWN", !.resolved = TRUE, !.retired = TRUE]
        ELSE v

\* What pending() makes of the operation that holds the slot.  A grant from an
\* earlier start of the host cannot be executing any more, so the operation is
\* retired with an unknown result; one that was never granted runs out of time.
Settled(o) ==
    LET v == op[o]
    IN  IF ~Unresolved(o) THEN v
        ELSE IF /\ policy # Null /\ policy.paired
                /\ v.grant # Null /\ v.run # policy.context.run
             THEN [v EXCEPT !.state = "UNKNOWN", !.resolved = TRUE, !.retired = TRUE]
        ELSE IF v.grant = Null /\ v.overdue
             THEN [v EXCEPT !.state = "EXPIRED", !.resolved = TRUE]
        ELSE v

\* The operations that still hold the slot afterwards.
Pending == {o \in Operations : Unresolved(o) /\ ~Settled(o).resolved}

AfterPending == [o \in Operations |-> Settled(o)]

\* requireReady(), for a policy the caller has seen.
Ready(revision, run) ==
    /\ policy # Null
    /\ policy.paired /\ policy.enabled /\ policy.fresh
    /\ policy.revision = revision
    /\ policy.context.run = run

\* Mutant: only the operation's own request is remembered.
KnownFirst(r) == {o \in Operations : op[o] # Null /\ op[o].request = r}

\* byRequest(): the operation that answers for a request.
Known(r) == {o \in Operations : op[o] # Null /\ (op[o].request = r \/ r \in op[o].aliases)}

-----------------------------------------------------------------------------
(* Administrators *)

\* The shared checks of create().
MayCreate(a, r, target) ==
    /\ a \in authorized
    /\ Known(r) = {}
    /\ policy # Null
    /\ policy.context = host
    /\ Ready(policy.revision, policy.context.run)
    /\ target = "DAILY" => policy.daily

\* Mutant: the operation is filed under nobody.
NewOperationNobody(a, r, target) ==
    [request |-> r, aliases |-> {}, initiator |-> Null, target |-> target,
     policy |-> policy.revision, run |-> policy.context.run, state |-> "QUEUED",
     grant |-> Null, resolved |-> FALSE, retired |-> FALSE, ended |-> FALSE, last |-> 0,
     overdue |-> FALSE]

NewOperation(a, r, target) ==
    [request |-> r, aliases |-> {}, initiator |-> a, target |-> target,
     policy |-> policy.revision, run |-> policy.context.run, state |-> "QUEUED",
     grant |-> Null, resolved |-> FALSE, retired |-> FALSE, ended |-> FALSE, last |-> 0,
     overdue |-> FALSE]

Create(a, r, target, o) ==
    /\ MayCreate(a, r, target)
    /\ Pending = {}
    /\ op[o] = Null
    /\ op' = [AfterPending EXCEPT ![o] = NewOperation(a, r, target)]
    /\ UNCHANGED <<host, policy, authorized>>

\* A request for what is pending already becomes one more name of it.
Coalesce(a, r, target) ==
    /\ MayCreate(a, r, target)
    /\ \E o \in Pending :
          /\ op[o].target = target
          /\ Cardinality(op[o].aliases) < MaxAliases
          /\ op' = [AfterPending EXCEPT ![o].aliases = @ \cup {r}]
    /\ UNCHANGED <<host, policy, authorized>>

\* Mutant: the grant is not looked at.
CancellableAny(o) == op[o] # Null /\ ~Settled(o).resolved

Cancellable(o) == op[o] # Null /\ op[o].grant = Null /\ ~Settled(o).resolved

Cancel(a, o) ==
    /\ a \in authorized
    /\ Cancellable(o)
    /\ op' = [AfterPending EXCEPT ![o].state = "CANCELLED", ![o].resolved = TRUE]
    /\ UNCHANGED <<host, policy, authorized>>

\* poll(), list(), managementStatus() and a cancel() of what has ended.
Look == /\ op' = AfterPending
        /\ UNCHANGED <<host, policy, authorized>>

-----------------------------------------------------------------------------
(* The device *)

\* policy() with a new revision: an operation nobody has started is rejected.
PublishPolicy(revision, paired, enabled, daily) ==
    /\ "policy" \in Environment
    /\ policy # Null => revision > policy.revision
    /\ op' = [o \in Operations |->
                IF o \in Pending /\ op[o].grant = Null
                THEN [op[o] EXCEPT !.state = "REJECTED", !.resolved = TRUE]
                ELSE Settled(o)]
    /\ policy' = [revision |-> revision, paired |-> paired, enabled |-> enabled,
                  daily |-> daily, context |-> host, fresh |-> FALSE]
    /\ UNCHANGED <<host, authorized>>

\* status() with a newer sample.
Report == /\ policy # Null /\ policy.context = host
          /\ policy' = [policy EXCEPT !.fresh = TRUE]
          /\ UNCHANGED <<host, op, authorized>>

\* Mutant: start() does not ask for the initiator's role again.
StartableByAnyone(o) ==
    LET v == op[o]
    IN  /\ v # Null /\ ~v.resolved /\ ~v.overdue
        /\ policy # Null /\ policy.context = host
        /\ Ready(v.policy, v.run)
        /\ v.target = "DAILY" => policy.daily

\* What start() asks before it grants.
Startable(o) ==
    LET v == op[o]
    IN  /\ v # Null /\ ~v.resolved /\ ~v.overdue
        /\ v.initiator \in authorized
        /\ policy # Null /\ policy.context = host
        /\ Ready(v.policy, v.run)
        /\ v.target = "DAILY" => policy.daily

\* start(): the first call grants, later ones repeat the grant.
Start(o) ==
    /\ Startable(o)
    /\ op[o].grant = Null
    /\ op' = [op EXCEPT ![o].grant = host, ![o].state = "START_AUTHORIZED"]
    /\ UNCHANGED <<host, policy, authorized>>

\* Mutant: a retired operation takes every event of its host.
AcceptsRetired(v, state) == v.retired \/ (~v.resolved /\ v.state \notin Results)

\* Whether an operation still takes an event: it has no result yet, or it was
\* retired and this is the result that comes late.
Accepts(v, state) ==
    \/ ~v.resolved /\ v.state \notin Results
    \/ v.retired /\ state \in Results \ {"FAILED"}

\* What a host may report of an operation with and without its grant.
Plausible(v, state, evidence) ==
    /\ IF v.grant = Null
       THEN /\ state \in Progress \cup {"REJECTED", "UNKNOWN"}
            /\ state = "UNKNOWN" => evidence = "untouched"
       ELSE state # "FAILED"
    /\ state = "SUCCEEDED" => evidence = v.target
    /\ state = "REJECTED" => evidence = "untouched"

\* events(): one event of a batch, with the next sequence number.
ReceiveEvent(o, state, evidence) ==
    /\ op[o] # Null
    /\ op[o].last < MaxEvents
    /\ Accepts(op[o], state)
    /\ Plausible(op[o], state, evidence)
    /\ op' = [op EXCEPT ![o].state = state, ![o].last = @ + 1, ![o].retired = FALSE,
                        ![o].resolved = state \in Results]
    /\ UNCHANGED <<host, policy, authorized>>

\* A host refuses an operation that has ended before it was granted; the ledger
\* takes note and keeps the state.
ReceiveRefusal(o) ==
    /\ op[o] # Null
    /\ op[o].resolved /\ op[o].grant = Null
    /\ op[o].last < MaxEvents
    /\ op' = [op EXCEPT ![o].last = @ + 1]
    /\ UNCHANGED <<host, policy, authorized>>

\* resolve(): somebody at the device declares the matter ended.
Resolve(o) ==
    /\ op[o] # Null /\ ~op[o].ended
    /\ op[o].state \in {"SUCCEEDED", "PARTIAL", "UNKNOWN"}
    /\ op' = [op EXCEPT ![o].resolved = TRUE, ![o].ended = TRUE]
    /\ UNCHANGED <<host, policy, authorized>>

-----------------------------------------------------------------------------
(* What changes around them *)

\* The host crashes and starts again: a new session under a new control epoch.
RestartHost ==
    /\ "restart" \in Environment
    /\ host.run < MaxRun /\ host.session < MaxSession
    /\ host' = [session |-> host.session + 1, run |-> host.run + 1]
    /\ UNCHANGED <<policy, op, authorized>>

\* It opens a new session without starting again.
ReopenSession ==
    /\ "session" \in Environment
    /\ host.session < MaxSession
    /\ host' = [host EXCEPT !.session = @ + 1]
    /\ UNCHANGED <<policy, op, authorized>>

ChangeAuthority(a) ==
    /\ "authority" \in Environment
    /\ authorized' = IF a \in authorized THEN authorized \ {a} ELSE authorized \cup {a}
    /\ UNCHANGED <<host, policy, op>>

\* A minute passes without a status sample.
Age == /\ "age" \in Environment
       /\ policy # Null /\ policy.fresh
       /\ policy' = [policy EXCEPT !.fresh = FALSE]
       /\ UNCHANGED <<host, op, authorized>>

\* Five minutes pass.
RunOut(o) == /\ "expire" \in Environment
             /\ op[o] # Null /\ ~op[o].overdue
             /\ op' = [op EXCEPT ![o].overdue = TRUE]
             /\ UNCHANGED <<host, policy, authorized>>

Next ==
    \/ \E a \in Admins, r \in Requests, target \in Targets :
          Coalesce(a, r, target) \/ \E o \in Operations : Create(a, r, target, o)
    \/ \E a \in Admins, o \in Operations : Cancel(a, o)
    \/ Look
    \/ \E revision \in 1..MaxPolicy, paired, enabled, daily \in BOOLEAN :
          PublishPolicy(revision, paired, enabled, daily)
    \/ Report
    \/ \E o \in Operations :
          \/ Start(o)
          \/ \E state \in Results \cup Progress, evidence \in Evidence :
                ReceiveEvent(o, state, evidence)
          \/ ReceiveRefusal(o)
          \/ Resolve(o)
          \/ RunOut(o)
    \/ RestartHost \/ ReopenSession
    \/ \E a \in Admins : ChangeAuthority(a)
    \/ Age

Spec == Init /\ [][Next]_vars

\* Clocks run and a host that is on polls; nobody has to start, report or
\* restart anything.
FairSpec == /\ Spec
            /\ WF_vars(Look)
            /\ \A o \in Operations : WF_vars(RunOut(o))

-----------------------------------------------------------------------------
(* Properties *)

\* At most one operation holds the slot of the device, so the partial unique
\* index is never hit, also when results arrive after the slot has moved on.
OneOperationAtATime ==
    \A o, p \in Operations : Unresolved(o) /\ Unresolved(p) => o = p

\* A request, own or coalesced, belongs to one operation for ever: a delayed
\* retry must not become a new opposite-mode transition (create).
RequestRunsOnce ==
    \A o, p \in Operations :
        /\ op[o] # Null /\ op[p] # Null
        /\ ({op[o].request} \cup op[o].aliases) \cap ({op[p].request} \cup op[p].aliases) # {}
        => o = p

\* No two operations execute in one start of the host: of those granted under
\* one control epoch at most one waits for its result.
OneExecution ==
    \A o, p \in Operations :
        /\ op[o] # Null /\ op[o].grant # Null /\ op[o].state \notin Results
        /\ op[p] # Null /\ op[p].grant # Null /\ op[p].state \notin Results
        /\ op[o].grant.run = op[p].grant.run
        => o = p

\* What the device was allowed to start is never called cancelled, expired or
\* failed, and nothing succeeds that was not allowed ("Never infer rollback or
\* success from silence").
OutcomeIsEvidence ==
    \A o \in Operations : op[o] # Null =>
        /\ op[o].grant # Null => op[o].state \notin {"QUEUED", "CANCELLED", "EXPIRED", "FAILED"}
        /\ op[o].state \in {"SUCCEEDED", "PARTIAL", "START_AUTHORIZED"} => op[o].grant # Null
        /\ op[o].grant # Null => op[o].grant.run = op[o].run

\* A grant is given once, by the administrator's leave of that moment, to an
\* operation that has not ended, and is never taken back or moved to another
\* start of the host.
GrantedOnce ==
    [][\A o \in Operations : op[o] # Null /\ op'[o].grant # op[o].grant =>
          /\ op[o].grant = Null
          /\ ~op[o].resolved /\ ~op'[o].resolved
          /\ op[o].initiator \in authorized]_vars

\* A reported result stays.  Only the unknown result of an operation that was
\* retired when its host started again gives way, once, to the one that host
\* reports late.
ResultsStay ==
    [][\A o \in Operations :
          op[o] # Null /\ op[o].resolved /\ op'[o].state # op[o].state =>
              /\ op[o].retired /\ ~op'[o].retired
              /\ op'[o].state \in Results /\ op'[o].resolved]_vars

\* An operation nobody starts does not hold the slot for ever.
QueueMovesOn ==
    \A o \in Operations :
        Unresolved(o) /\ op[o].grant = Null
            ~> op[o] # Null /\ (op[o].resolved \/ op[o].grant # Null)
=============================================================================
