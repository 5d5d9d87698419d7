------------------------------ MODULE ExamPlan ------------------------------
(***************************************************************************)
(* Exam plans sent to the host of one device                               *)
(* (services/npepExamPlanService.js).  An administrator uploads a plan; the *)
(* host fetches and prepares it; the administrator confirms what was       *)
(* prepared; the host asks for a grant, starts and reports.  Samples and   *)
(* results of the host arrive late and repeated, the host crashes, time    *)
(* runs out, the administrator cancels or loses the role meanwhile.        *)
(*                                                                         *)
(* Calls lock the school and the device and are one step; a refused call   *)
(* rolls back and changes nothing.  consentId, policyRevision and revision *)
(* of a sample are its version.  How a session is opened is NpepSession; a *)
(* restarted host has the next one.  A plan is named by its requestId: the *)
(* repeated answers to one request change nothing and are left out, as are *)
(* the document and its digest.  Any call may also be refused, because the *)
(* last sample is older than 45 seconds or an administrator has lost the   *)
(* role; a refused call changes nothing.                                   *)
(***************************************************************************)
EXTENDS Naturals, NoValue

CONSTANTS
    Plans,          \* plans, by requestId
    MaxSession,     \* bound on the sessions of the host
    MaxVersion,     \* bound on the versions of the host's policy
    MaxSample       \* bound on the samples of a session

VARIABLES
    current,        \* the session of NpepDevice
    plans,          \* NpepExamPlan
    sample,         \* NpepExamPlanDevice: the last sample
    samples,        \* samples that were sent
    outcomes,       \* results that were sent
    machine         \* the host

examVars == <<current, plans, sample, samples, outcomes, machine>>

PlanFinal == {"STARTED", "FAILED", "UNKNOWN", "EXPIRED", "CANCELLED"}
PlanStates == PlanFinal \cup {"QUEUED", "PREPARED", "START_REQUESTED", "START_AUTHORIZED"}

Sample == [session: 1..MaxSession, sequence: 1..MaxSample, version: 1..MaxVersion,
           enabled: BOOLEAN, idle: BOOLEAN, prepared: Plans \cup {Null}]
Outcome == [plan: Plans, session: 1..MaxSession, stage: {"prepare", "start"},
            state: PlanStates]
Plan == [session: 1..MaxSession, version: 1..MaxVersion, state: PlanStates,
         grant: BOOLEAN, overdue: BOOLEAN]

\* Rows, messages, and what the host holds: its version, whether it may be
\* controlled, what it fetched, prepared and plays, its grants, what it gave up,
\* and, as history, what it has started.
ExamTypeOK ==
    /\ current \in 1..MaxSession
    /\ plans \in [Plans -> Plan \cup {Null}]
    /\ sample \in Sample \cup {Null}
    /\ samples \subseteq Sample
    /\ outcomes \subseteq Outcome
    /\ machine \in [session: 0..MaxSession, version: 1..MaxVersion, enabled: BOOLEAN,
                    sequence: 0..MaxSample,
                    task: Plans \cup {Null}, prepared: Plans \cup {Null},
                    playing: Plans \cup {Null}, grants: SUBSET Plans, dropped: SUBSET Plans,
                    started: SUBSET Plans]

ExamInit ==
    /\ current = 1
    /\ plans = [p \in Plans |-> Null]
    /\ sample = Null
    /\ samples = {}
    /\ outcomes = {}
    /\ machine = [session |-> 1, version |-> 1, enabled |-> TRUE, sequence |-> 0,
                  task |-> Null, prepared |-> Null, playing |-> Null, grants |-> {}, dropped |-> {},
                  started |-> {}]

Unfinished(list) == {p \in Plans : list[p] # Null /\ list[p].state \notin PlanFinal}

\* A plan was made for the very host that last sent a sample.
Matches(plan, last) ==
    /\ last # Null /\ last.enabled
    /\ last.session = plan.session /\ last.version = plan.version

\* clean: a plan that has run out, or whose host is not the one it was made for,
\* ends; if the host may already have started it, its outcome is unknown.
Lapsed(plan) == [plan EXCEPT !.state = IF plan.grant THEN "UNKNOWN" ELSE "EXPIRED"]
CleanedPlans(list, last) ==
    [p \in Plans |-> IF p \in Unfinished(list) /\ (list[p].overdue \/ ~Matches(list[p], last))
                     THEN Lapsed(list[p]) ELSE list[p]]

\* ready: the last sample is of the current session (and says that the host is
\* available, or the call is refused); to start, nothing plays and the plan is
\* prepared.
Ready(plan) == Matches(plan, sample) /\ sample.session = current
ReadyToStart(p) == Ready(plans[p]) /\ sample.idle /\ sample.prepared = p

-----------------------------------------------------------------------------
(* Administrators.                                                         *)

\* Mutant: only a plan that waits stands in the way.
VacantQueue(list) == \A p \in Unfinished(list) : list[p].state # "QUEUED"

\* The device has no other plan under way.
Vacant(list) == Unfinished(list) = {}

\* create: for what the administrator has seen of the host, one plan at a time.
CreatePlan(p) ==
    /\ plans[p] = Null
    /\ \E s \in 1..MaxSession, v \in 1..MaxVersion :
        LET plan == [session |-> s, version |-> v, state |-> "QUEUED",
                     grant |-> FALSE, overdue |-> FALSE]
            list == CleanedPlans(plans, sample) IN
        /\ Ready(plan)
        /\ Vacant(list)
        /\ plans' = [list EXCEPT ![p] = plan]
    /\ UNCHANGED <<current, sample, samples, outcomes, machine>>

\* start: the administrator confirms what the host has prepared.
Confirm(p) ==
    LET list == CleanedPlans(plans, sample) IN
    /\ list[p] # Null /\ list[p].state = "PREPARED"
    /\ ReadyToStart(p)
    /\ plans' = [list EXCEPT ![p].state = "START_REQUESTED"]
    /\ UNCHANGED <<current, sample, samples, outcomes, machine>>

\* Mutant: a granted plan is cancelled, too.
CancellableAny(p) == p \in Unfinished(plans)

Cancellable(p) == p \in Unfinished(plans) /\ ~plans[p].grant

\* cancel, as long as nothing was granted.
Cancel(p) ==
    /\ Cancellable(p)
    /\ plans' = [plans EXCEPT ![p].state = "CANCELLED"]
    /\ UNCHANGED <<current, sample, samples, outcomes, machine>>

\* management, and a look of the host in poll, which may tell it of a plan.
Look ==
    /\ plans' = CleanedPlans(plans, sample)
    /\ \E task \in {machine.task} \cup {p \in Unfinished(plans') : machine.session = current} :
        machine' = [machine EXCEPT !.task = task]
    /\ UNCHANGED <<current, sample, samples, outcomes>>

-----------------------------------------------------------------------------
(* The host's calls.                                                       *)

\* report: no older policy, and within a session no older sample.
TakeSample(m) ==
    /\ m.session = current
    /\ sample # Null => m.version >= sample.version
    /\ sample # Null /\ sample.session = m.session => m.sequence > sample.sequence
    /\ sample' = m
    /\ plans' = CleanedPlans(plans, m)
    /\ UNCHANGED <<current, samples, outcomes, machine>>

\* grant: the confirmed plan of the current session; asking again gives the same grant.
Grant(p) ==
    LET list == CleanedPlans(plans, sample) IN
    /\ list[p] # Null /\ list[p].session = current
    /\ list[p].state \in {"START_REQUESTED", "START_AUTHORIZED"}
    /\ ReadyToStart(p)
    /\ plans' = [list EXCEPT ![p].grant = TRUE, ![p].state = "START_AUTHORIZED"]
    /\ machine' = IF machine.session = current THEN [machine EXCEPT !.grants = @ \cup {p}] ELSE machine
    /\ UNCHANGED <<current, sample, samples, outcomes>>

\* result: of a queued plan what preparing it gave, of a confirmed one what
\* starting it gave; it can only have started under its grant.
TakeOutcome(m) ==
    LET plan == plans[m.plan] IN
    /\ plan # Null
    /\ m.session = current /\ m.session = plan.session
    /\ \/ m.stage = "prepare" /\ plan.state = "QUEUED"
       \/ /\ m.stage = "start" /\ plan.state \in {"START_REQUESTED", "START_AUTHORIZED"}
          /\ m.state = "STARTED" => plan.grant
    /\ plans' = [plans EXCEPT ![m.plan].state = m.state]
    /\ UNCHANGED <<current, sample, samples, outcomes, machine>>

-----------------------------------------------------------------------------
(* The host itself.                                                        *)

SendSample ==
    /\ machine.session # 0
    /\ machine.sequence < MaxSample
    /\ machine' = [machine EXCEPT !.sequence = @ + 1]
    /\ samples' = samples \cup
         {[session |-> machine.session, sequence |-> machine'.sequence,
           version |-> machine.version, enabled |-> machine.enabled,
           idle |-> machine.playing = Null, prepared |-> machine.prepared]}
    /\ UNCHANGED <<current, plans, sample, outcomes>>

\* It reports what it did with a plan.
Tell(p, stage, state) ==
    outcomes' = outcomes \cup
        {[plan |-> p, session |-> machine.session, stage |-> stage, state |-> state]}

Prepare ==
    /\ machine.task # Null /\ machine.playing = Null
    /\ machine.prepared # machine.task
    /\ machine' = [machine EXCEPT !.prepared = machine.task]
    /\ Tell(machine.task, "prepare", "PREPARED")
    /\ UNCHANGED <<current, plans, sample, samples>>

\* It gives a plan up, before or after preparing it, and will not start it in
\* this session; it says once that it failed or that it does not know.
GiveUp ==
    LET p == machine.task IN
    /\ p # Null /\ p \notin machine.started \cup machine.dropped
    /\ machine' = [machine EXCEPT !.task = Null, !.prepared = Null, !.dropped = @ \cup {p}]
    /\ \E state \in {"FAILED", "UNKNOWN"} :
         Tell(p, IF machine.prepared = p THEN "start" ELSE "prepare", state)
    /\ UNCHANGED <<current, plans, sample, samples>>

\* It starts the plan it holds a grant for, if that has not run out.
Start(p) ==
    /\ p \in machine.grants \ machine.dropped
    /\ machine.prepared = p /\ machine.playing = Null /\ p \notin machine.started
    /\ ~plans[p].overdue
    /\ machine' = [machine EXCEPT !.playing = p, !.started = @ \cup {p}]
    /\ Tell(p, "start", "STARTED")
    /\ UNCHANGED <<current, plans, sample, samples>>

\* What it plays ends.
Finish ==
    /\ machine.playing # Null
    /\ machine' = [machine EXCEPT !.playing = Null, !.prepared = Null, !.task = Null]
    /\ UNCHANGED <<current, plans, sample, samples, outcomes>>

\* Its user changes the policy.
ChangeVersion ==
    /\ machine.version < MaxVersion
    /\ \E on \in BOOLEAN :
        machine' = [machine EXCEPT !.version = @ + 1, !.enabled = on]
    /\ UNCHANGED <<current, plans, sample, samples, outcomes>>

\* It crashes, and opens a session again.
CrashMachine ==
    /\ machine.session # 0
    /\ machine' = [machine EXCEPT !.session = 0, !.sequence = 0, !.task = Null, !.prepared = Null,
                                  !.playing = Null, !.grants = {}, !.dropped = {}]
    /\ UNCHANGED <<current, plans, sample, samples, outcomes>>
Reopen ==
    /\ machine.session = 0 /\ current < MaxSession
    /\ current' = current + 1
    /\ machine' = [machine EXCEPT !.session = current']
    /\ UNCHANGED <<plans, sample, samples, outcomes>>

\* Five minutes pass for a plan, or thirty seconds for its grant.
RunOutPlan(p) ==
    /\ p \in Unfinished(plans) /\ ~plans[p].overdue
    /\ plans' = [plans EXCEPT ![p].overdue = TRUE]
    /\ UNCHANGED <<current, sample, samples, outcomes, machine>>

ExamNext ==
    \/ \E p \in Plans : CreatePlan(p) \/ Confirm(p) \/ Cancel(p) \/ Grant(p)
                        \/ Start(p) \/ RunOutPlan(p)
    \/ \E m \in samples : TakeSample(m)
    \/ \E m \in outcomes : TakeOutcome(m)
    \/ Look \/ SendSample \/ Prepare \/ GiveUp \/ Finish \/ ChangeVersion \/ CrashMachine \/ Reopen

ExamSpec == ExamInit /\ [][ExamNext]_examVars

-----------------------------------------------------------------------------
(* Properties.                                                             *)

\* A plan that administrators are told is cancelled or expired never plays, and
\* one they are told has started does play or has played.
PlanOutcomeIsTrue ==
    \A p \in Plans : plans[p] # Null =>
        /\ plans[p].state \in {"CANCELLED", "EXPIRED"} => p \notin machine.started
        /\ plans[p].state = "STARTED" => p \in machine.started

\* A grant that the host may still use.
Live(p) == /\ plans[p] # Null /\ plans[p].grant /\ ~plans[p].overdue
           /\ plans[p].session = current
           /\ plans[p].state \in {"START_AUTHORIZED", "UNKNOWN"}
           /\ p \in machine.grants \ machine.dropped

\* The host never holds two usable grants for one state of its policy.
OneLiveGrant ==
    \A p, q \in Plans : Live(p) /\ Live(q) /\ plans[p].version = plans[q].version => p = q
=============================================================================
