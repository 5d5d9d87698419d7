---------------------------- MODULE ExamPlanProofs ----------------------------
(***************************************************************************)
(* Proofs about ExamPlan: what administrators are told of a plan is true,  *)
(* and a host never holds two usable grants, for every number of plans,    *)
(* sessions, policies and samples.                                         *)
(***************************************************************************)
EXTENDS ExamPlan, TLAPS

\* Bounds are numbers, and Null is no plan and no row.
ExamBounds ==
    /\ MaxSession \in Nat \ {0} /\ MaxVersion \in Nat \ {0} /\ MaxSample \in Nat
    /\ Null \notin Plans
    /\ \A x \in Sample \cup Plan : x # Null

\* The host will not start a plan it gave up, nor any when its session is over.
GaveUp(p) == p \in machine.dropped \/ machine.session # current

\* A plan under way is for the host of the last sample.  One whose outcome is
\* unknown although it did not run out has lost its host: that gave it up or has
\* a later policy now, if the session is the same.  One that is cancelled or
\* expired was never granted; one that is started was started.
PlanFits(p, x, last) ==
    /\ x.session <= current
    /\ x.state \notin PlanFinal => Matches(x, last)
    /\ x.state = "UNKNOWN" /\ ~x.overdue /\ x.session = current
          => GaveUp(p) \/ (last # Null /\ last.version > x.version)
    /\ x.state \in {"CANCELLED", "EXPIRED"} => ~x.grant
    /\ x.state = "STARTED" => p \in machine.started

\* A plan that may be live, or become so.
Counts(p, x) ==
    /\ x # Null /\ ~x.overdue /\ x.session = current
    /\ (x.state = "UNKNOWN" /\ ~GaveUp(p)) \/ x.state \notin PlanFinal

\* Of these there is one for a state of the policy.
Distinct(list) ==
    \A p, q \in Plans : Counts(p, list[p]) /\ Counts(q, list[q]) /\ list[p].version = list[q].version
                           => p = q

ListFits(list, last) ==
    /\ list \in [Plans -> Plan \cup {Null}]
    /\ \A p \in Plans : list[p] # Null => PlanFits(p, list[p], last)
    /\ Distinct(list)

\* Samples are of sessions that were opened; whether the host is enabled belongs
\* to its policy.
SamplesFit ==
    /\ sample # Null => sample \in samples
    /\ \A m \in samples :
          /\ m.session <= current
          /\ m.version <= machine.version
          /\ m.version = machine.version => m.enabled = machine.enabled
          /\ \A n \in samples : m.version = n.version => m.enabled = n.enabled

\* The host that is alive has the newest session; without one it has no task.
MachineFits ==
    /\ machine.session \in {0, current}
    /\ machine.session = 0 => machine.task = Null /\ machine.grants = {}

\* What the host reports of a plan it does not know otherwise.
OutcomesFit ==
    \A m \in outcomes : /\ m.state \in {"PREPARED", "FAILED", "UNKNOWN", "STARTED"}
                        /\ m.state = "STARTED" => m.plan \in machine.started
                        /\ m.session <= current
                        /\ m.state = "UNKNOWN" /\ m.session = current => GaveUp(m.plan)

\* What the host holds a grant for, or has started, was granted.
GrantsFit ==
    \A p \in machine.grants \cup machine.started : plans[p] # Null /\ plans[p].grant

\* The inductive invariant.
ExamIInv ==
    /\ ExamTypeOK /\ ListFits(plans, sample) /\ SamplesFit
    /\ MachineFits /\ OutcomesFit /\ GrantsFit

-----------------------------------------------------------------------------
(* Lemmas about lists of plans.                                            *)

\* clean changes the state of plans under way, and nothing else.
LEMMA CleanedIs ==
    ASSUME ExamBounds, NEW list \in [Plans -> Plan \cup {Null}], NEW last, NEW p \in Plans
    PROVE  /\ CleanedPlans(list, last)[p] \in Plan \cup {Null}
           /\ list[p] = Null <=> CleanedPlans(list, last)[p] = Null
           /\ list[p] # Null =>
                 /\ list[p] \in Plan
                 /\ CleanedPlans(list, last)[p].session = list[p].session
                 /\ CleanedPlans(list, last)[p].version = list[p].version
                 /\ CleanedPlans(list, last)[p].grant = list[p].grant
                 /\ CleanedPlans(list, last)[p].overdue = list[p].overdue
                 /\ CleanedPlans(list, last)[p].state =
                       IF list[p].state \notin PlanFinal /\ (list[p].overdue \/ ~Matches(list[p], last))
                       THEN IF list[p].grant THEN "UNKNOWN" ELSE "EXPIRED"
                       ELSE list[p].state
  <1> DEFINE x == list[p]
             y == CleanedPlans(list, last)[p]
             out == x.state \notin PlanFinal /\ (x.overdue \/ ~Matches(x, last))
  <1>1. x = Null \/ (x \in Plan /\ x # Null)
    BY DEF ExamBounds
  <1>2. CASE x # Null /\ out
    <2>1. y = [x EXCEPT !.state = IF x.grant THEN "UNKNOWN" ELSE "EXPIRED"]
      BY <1>2 DEF CleanedPlans, Unfinished, Lapsed
    <2>2. y \in Plan
      BY <1>1, <1>2, <2>1 DEF Plan, PlanStates, PlanFinal
    <2> QED
      BY <1>1, <1>2, <2>1, <2>2 DEF Plan, ExamBounds
  <1>3. CASE ~(x # Null /\ out)
    <2>1. y = x
      BY <1>3 DEF CleanedPlans, Unfinished
    <2> QED
      BY <1>1, <1>3, <2>1
  <1> QED
    BY <1>2, <1>3

\* The sample there is, or one that may follow it.
Follows(last) ==
    \/ last = sample
    \/ /\ last \in samples /\ last.session = current
       /\ sample # Null => last.version >= sample.version

\* A cleaned list fits the sample it was cleaned for.
LEMMA CleanedFits ==
    ASSUME ExamBounds, ExamIInv, NEW last, Follows(last)
    PROVE  ListFits(CleanedPlans(plans, last), last)
  <1> DEFINE list == CleanedPlans(plans, last)
  <1>1. plans \in [Plans -> Plan \cup {Null}]
    BY DEF ExamIInv, ExamTypeOK
  <1>2. list \in [Plans -> Plan \cup {Null}]
    BY <1>1, CleanedIs DEF CleanedPlans
  <1>3. ASSUME NEW p \in Plans, list[p] # Null PROVE PlanFits(p, list[p], last)
    <2> PICK x : x = plans[p]
      OBVIOUS
    <2> PICK y : y = list[p]
      OBVIOUS
    <2>1. /\ x \in Plan /\ y \in Plan /\ x # Null
          /\ y.session = x.session /\ y.version = x.version
          /\ y.grant = x.grant /\ y.overdue = x.overdue
          /\ y.state = IF x.state \notin PlanFinal /\ (x.overdue \/ ~Matches(x, last))
                       THEN IF x.grant THEN "UNKNOWN" ELSE "EXPIRED"
                       ELSE x.state
      BY <1>1, <1>3, CleanedIs
    <2>2. PlanFits(p, x, sample)
      BY <2>1 DEF ExamIInv, ListFits
    <2>3. y.session <= current /\ (y.state = "STARTED" => p \in machine.started)
          /\ (y.state \in {"CANCELLED", "EXPIRED"} => ~y.grant)
      BY <2>1, <2>2 DEF PlanFits, PlanFinal
    <2>4. y.state \notin PlanFinal => Matches(y, last)
      BY <2>1 DEF Matches, PlanFinal
    <2>5. ASSUME y.state = "UNKNOWN", ~y.overdue, y.session = current
          PROVE  GaveUp(p) \/ (last # Null /\ last.version > y.version)
      <3>1. CASE last = sample
        BY <2>1, <2>2, <2>5, <3>1 DEF PlanFits, PlanFinal, Matches
      <3>2. CASE last # sample
        <4>1. /\ last \in samples /\ last.session = current /\ last \in Sample /\ last # Null
              /\ sample # Null => last.version >= sample.version
          BY <3>2 DEF Follows, ExamIInv, ExamTypeOK, ExamBounds
        <4>2. CASE x.state = "UNKNOWN"
          <5>1. GaveUp(p) \/ (sample # Null /\ sample.version > x.version /\ sample \in Sample)
            BY <2>1, <2>2, <2>5, <4>2 DEF PlanFits, ExamIInv, ExamTypeOK
          <5> QED
            BY <2>1, <4>1, <5>1 DEF Sample, Plan
        <4>3. CASE x.state # "UNKNOWN"
          <5>1. x.state \notin PlanFinal /\ ~Matches(x, last)
            BY <2>1, <2>5, <4>3
          <5>2. /\ sample # Null /\ sample \in Sample /\ sample \in samples
                /\ sample.enabled /\ sample.version = x.version
            BY <2>2, <5>1 DEF PlanFits, Matches, ExamIInv, ExamTypeOK, SamplesFit
          <5>3. last.version = x.version => last.enabled
            BY <4>1, <5>2 DEF ExamIInv, SamplesFit
          <5>4. last.version # x.version
            BY <2>1, <2>5, <4>1, <5>1, <5>3 DEF Matches
          <5> QED
            BY <2>1, <4>1, <5>2, <5>4 DEF Sample, Plan
        <4> QED
          BY <4>2, <4>3
      <3> QED
        BY <3>1, <3>2
    <2> QED
      BY <2>3, <2>4, <2>5 DEF PlanFits
  <1>4. ASSUME NEW p \in Plans, Counts(p, list[p])
        PROVE  Counts(p, plans[p]) /\ plans[p].version = list[p].version
    BY <1>1, <1>4, CleanedIs DEF Counts, PlanFinal
  <1>5. Distinct(list)
    BY <1>4 DEF Distinct, ExamIInv, ListFits
  <1> QED
    BY <1>2, <1>3, <1>5 DEF ListFits

\* One plan goes on, for the same state of the policy.
LEMMA ChangedFits ==
    ASSUME NEW list, NEW last, ListFits(list, last), NEW p \in Plans, NEW y \in Plan,
           PlanFits(p, y, last), Counts(p, y) => Counts(p, list[p]) /\ y.version = list[p].version
    PROVE  ListFits([list EXCEPT ![p] = y], last)
  <1> DEFINE new == [list EXCEPT ![p] = y]
  <1>1. new \in [Plans -> Plan \cup {Null}] /\ new[p] = y
        /\ \A q \in Plans \ {p} : new[q] = list[q]
    BY DEF ListFits
  <1>2. \A q \in Plans : new[q] # Null => PlanFits(q, new[q], last)
    BY <1>1 DEF ListFits
  <1>3. \A q \in Plans : Counts(q, new[q]) => Counts(q, list[q]) /\ new[q].version = list[q].version
    BY <1>1
  <1>4. Distinct(new)
    BY <1>3 DEF Distinct, ListFits
  <1> QED
    BY <1>1, <1>2, <1>4 DEF ListFits

\* A new plan takes the place of none that counts.
LEMMA CreatedFits ==
    ASSUME ExamBounds, NEW list, NEW last \in Sample, ListFits(list, last), NEW p \in Plans,
           Vacant(list), NEW y \in Plan, PlanFits(p, y, last),
           y.state = "QUEUED", Matches(y, last)
    PROVE  ListFits([list EXCEPT ![p] = y], last)
  <1> DEFINE new == [list EXCEPT ![p] = y]
  <1>1. new \in [Plans -> Plan \cup {Null}] /\ new[p] = y
        /\ \A q \in Plans \ {p} : new[q] = list[q]
    BY DEF ListFits
  <1>2. \A q \in Plans : new[q] # Null => PlanFits(q, new[q], last)
    BY <1>1 DEF ListFits
  <1>3. ASSUME NEW q \in Plans \ {p}, Counts(q, list[q]) PROVE list[q].version # y.version
    <2>1. list[q] # Null /\ list[q] \in Plan /\ list[q].state = "UNKNOWN" /\ ~GaveUp(q)
          /\ ~list[q].overdue /\ list[q].session = current
      BY <1>3 DEF Counts, Vacant, Unfinished, ListFits
    <2>2. last.version > list[q].version
      <3>1. PlanFits(q, list[q], last)
        BY <2>1 DEF ListFits
      <3> QED
        BY <2>1, <3>1 DEF PlanFits
    <2>3. last.version = y.version
      BY DEF Matches
    <2> QED
      BY <2>1, <2>2, <2>3 DEF Sample, Plan
  <1>4. Distinct(new)
    BY <1>1, <1>3 DEF Distinct, ListFits
  <1> QED
    BY <1>1, <1>2, <1>4 DEF ListFits

-----------------------------------------------------------------------------
(* The invariant is inductive.                                             *)

Machine == [session: 0..MaxSession, version: 1..MaxVersion, enabled: BOOLEAN,
            sequence: 0..MaxSample,
            task: Plans \cup {Null}, prepared: Plans \cup {Null},
            playing: Plans \cup {Null}, grants: SUBSET Plans, dropped: SUBSET Plans,
            started: SUBSET Plans]

\* The invariant of the exam plans, taken apart.
LEMMA ExamParts ==
    ASSUME ExamBounds, ExamIInv
    PROVE  /\ current \in 1..MaxSession /\ plans \in [Plans -> Plan \cup {Null}]
           /\ sample \in Sample \cup {Null} /\ samples \subseteq Sample /\ outcomes \subseteq Outcome
           /\ machine \in Machine
           /\ ListFits(plans, sample) /\ SamplesFit /\ MachineFits /\ OutcomesFit /\ GrantsFit
           /\ \A x \in Sample \cup Plan : x # Null
  BY DEF ExamIInv, ExamTypeOK, Machine, ExamBounds

LEMMA InitHolds == ASSUME ExamBounds, ExamInit PROVE ExamIInv
  <1>1. machine \in Machine
    BY DEF ExamBounds, ExamInit, Machine
  <1>2. ExamTypeOK
    BY <1>1 DEF ExamBounds, ExamInit, ExamTypeOK, Machine
  <1>3. ListFits(plans, sample)
    BY DEF ExamInit, ListFits, Distinct, Counts
  <1>4. SamplesFit /\ MachineFits /\ OutcomesFit /\ GrantsFit
    BY DEF ExamInit, SamplesFit, MachineFits, OutcomesFit, GrantsFit
  <1> QED
    BY <1>2, <1>3, <1>4 DEF ExamIInv

\* Grants are not taken back.
KeepsGrants(list) ==
    \A p \in Plans : plans[p] # Null /\ plans[p].grant => list[p] # Null /\ list[p].grant

LEMMA CleanedKeeps ==
    ASSUME ExamBounds, ExamIInv, NEW last PROVE KeepsGrants(CleanedPlans(plans, last))
  BY ExamParts, CleanedIs DEF KeepsGrants

\* A step to another list and sample; of the host only its task and grants change.
LEMMA ListHolds ==
    ASSUME ExamBounds, ExamIInv, NEW list, NEW last \in Sample \cup {Null},
           ListFits(list, last), last # Null => last \in samples, KeepsGrants(list),
           plans' = list, sample' = last, UNCHANGED <<current, samples, outcomes>>,
           NEW task \in Plans \cup {Null},
           NEW grants \in SUBSET Plans, \A p \in grants : list[p] # Null /\ list[p].grant,
           machine.session = 0 => task = Null /\ grants = {},
           machine' = [machine EXCEPT !.task = task, !.grants = @ \cup grants]
    PROVE  ExamIInv'
  <1> USE ExamParts
  <1>1. /\ machine' \in Machine /\ machine'.session = machine.session
        /\ machine'.version = machine.version /\ machine'.enabled = machine.enabled
        /\ machine'.started = machine.started /\ machine'.task = task
        /\ machine'.dropped = machine.dropped
        /\ machine'.grants = machine.grants \cup grants
    BY DEF Machine
  <1>2. ExamTypeOK'
    <2>1. list \in [Plans -> Plan \cup {Null}]
      BY DEF ListFits
    <2> QED
      BY <1>1, <2>1 DEF ExamTypeOK, Machine
  <1>3. ListFits(plans, sample)'
    BY <1>1 DEF ListFits, PlanFits, Distinct, Counts, GaveUp
  <1>4. SamplesFit'
    BY <1>1 DEF SamplesFit
  <1>5. MachineFits'
    BY <1>1 DEF MachineFits
  <1>6. OutcomesFit'
    BY <1>1 DEF OutcomesFit, GaveUp
  <1>7. GrantsFit'
    BY <1>1 DEF GrantsFit, KeepsGrants, Machine
  <1> QED
    BY <1>2, <1>3, <1>4, <1>5, <1>6, <1>7 DEF ExamIInv

\* The same when the host does not change.
LEMMA RowsHold ==
    ASSUME ExamBounds, ExamIInv, NEW list, NEW last \in Sample \cup {Null},
           ListFits(list, last), last # Null => last \in samples, KeepsGrants(list),
           plans' = list, sample' = last, UNCHANGED <<current, samples, outcomes, machine>>
    PROVE  ExamIInv'
  <1> PICK task, grants : task = machine.task /\ grants = {}
    OBVIOUS
  <1>1. /\ grants \in SUBSET Plans /\ \A p \in grants : list[p] # Null /\ list[p].grant
        /\ task \in Plans \cup {Null}
        /\ machine.session = 0 => task = Null /\ grants = {}
    BY ExamParts DEF Machine, MachineFits
  <1>2. machine' = [machine EXCEPT !.task = task, !.grants = @ \cup grants]
    BY ExamParts DEF Machine
  <1> QED
    BY <1>1, <1>2, ListHolds

LEMMA CreateHolds == ASSUME ExamBounds, ExamIInv, NEW p \in Plans, CreatePlan(p) PROVE ExamIInv'
  <1> USE ExamParts
  <1>1. PICK s \in 1..MaxSession, v \in 1..MaxVersion :
          LET plan == [session |-> s, version |-> v, state |-> "QUEUED",
                       grant |-> FALSE, overdue |-> FALSE]
              list == CleanedPlans(plans, sample)
          IN  Ready(plan) /\ Vacant(list) /\ plans' = [list EXCEPT ![p] = plan]
    BY DEF CreatePlan
  <1> PICK list : list = CleanedPlans(plans, sample)
    OBVIOUS
  <1> PICK plan : plan = [session |-> s, version |-> v, state |-> "QUEUED",
                          grant |-> FALSE, overdue |-> FALSE]
    OBVIOUS
  <1>2. Ready(plan) /\ Vacant(list) /\ plans' = [list EXCEPT ![p] = plan]
    BY <1>1
  <1>3. plan \in Plan /\ plan.state \notin PlanFinal
    BY DEF Plan, PlanStates, PlanFinal
  <1>4. sample \in Sample /\ sample \in samples /\ Matches(plan, sample) /\ plan.session = current
    BY <1>2 DEF Ready, Matches, SamplesFit
  <1>5. PlanFits(p, plan, sample)
    BY <1>4 DEF PlanFits
  <1>6. ListFits(list, sample)
    BY CleanedFits DEF Follows
  <1>7. ListFits(plans', sample)
    BY <1>2, <1>3, <1>4, <1>5, <1>6, CreatedFits
  <1>8. KeepsGrants(plans')
    <2>1. KeepsGrants(list) /\ plans[p] = Null /\ list \in [Plans -> Plan \cup {Null}]
      BY <1>6, CleanedKeeps DEF CreatePlan, ListFits
    <2> QED
      BY <1>2, <2>1 DEF KeepsGrants
  <1> QED
    BY <1>4, <1>7, <1>8, RowsHold DEF CreatePlan

\* A plan under way of a list goes on to another state.
LEMMA GoesOn ==
    ASSUME ExamBounds, ExamIInv, NEW list, ListFits(list, sample), KeepsGrants(list),
           NEW p \in Plans, list[p] # Null, list[p].state \notin PlanFinal,
           NEW y \in Plan, y.session = list[p].session, y.version = list[p].version,
           list[p].grant => y.grant, list[p].overdue => y.overdue,
           y.state # "EXPIRED", y.state = "UNKNOWN" => GaveUp(p),
           y.state = "CANCELLED" => ~y.grant, y.state = "STARTED" => p \in machine.started
    PROVE  ListFits([list EXCEPT ![p] = y], sample) /\ KeepsGrants([list EXCEPT ![p] = y])
  <1>1. list[p] \in Plan /\ PlanFits(p, list[p], sample)
    BY DEF ListFits
  <1>2. PlanFits(p, y, sample)
    BY <1>1 DEF PlanFits, Matches
  <1>3. y # Null
    BY ExamParts
  <1>4. Counts(p, y) => Counts(p, list[p])
    BY DEF Counts
  <1>5. KeepsGrants([list EXCEPT ![p] = y])
    BY <1>3 DEF KeepsGrants, ListFits
  <1> QED
    BY <1>2, <1>4, <1>5, ChangedFits

LEMMA ConfirmHolds ==
    ASSUME ExamBounds, ExamIInv, NEW p \in Plans, Confirm(p) \/ Cancel(p) \/ RunOutPlan(p)
    PROVE  ExamIInv'
  <1> USE ExamParts
  <1>1. KeepsGrants(plans)
    BY DEF KeepsGrants
  <1>2. sample # Null => sample \in samples
    BY DEF SamplesFit
  <1>3. CASE Confirm(p)
    <2> PICK list : list = CleanedPlans(plans, sample)
      OBVIOUS
    <2>1. ListFits(list, sample) /\ KeepsGrants(list)
      BY CleanedFits, CleanedKeeps DEF Follows
    <2>2. list[p] # Null /\ list[p].state = "PREPARED" /\ list[p] \in Plan
          /\ plans' = [list EXCEPT ![p] = [list[p] EXCEPT !.state = "START_REQUESTED"]]
      BY <1>3, <2>1 DEF Confirm, ListFits
    <2> PICK y : y = [list[p] EXCEPT !.state = "START_REQUESTED"]
      OBVIOUS
    <2>3. y \in Plan /\ y.session = list[p].session /\ y.version = list[p].version
          /\ y.grant = list[p].grant /\ y.overdue = list[p].overdue /\ y.state = "START_REQUESTED"
      BY <2>2 DEF Plan, PlanStates
    <2>4. ListFits(plans', sample) /\ KeepsGrants(plans')
      BY <2>1, <2>2, <2>3, GoesOn DEF PlanStates, PlanFinal
    <2> QED
      BY <1>2, <1>3, <2>4, RowsHold DEF Confirm
  <1>4. CASE Cancel(p)
    <2>1. plans[p] # Null /\ plans[p] \in Plan /\ plans[p].state \notin PlanFinal /\ ~plans[p].grant
          /\ plans' = [plans EXCEPT ![p] = [plans[p] EXCEPT !.state = "CANCELLED"]]
      BY <1>4 DEF Cancel, Cancellable, Unfinished
    <2> PICK y : y = [plans[p] EXCEPT !.state = "CANCELLED"]
      OBVIOUS
    <2>2. y \in Plan /\ y.session = plans[p].session /\ y.version = plans[p].version
          /\ y.grant = plans[p].grant /\ y.overdue = plans[p].overdue /\ y.state = "CANCELLED"
      BY <2>1 DEF Plan, PlanStates, PlanFinal
    <2>3. ListFits(plans', sample) /\ KeepsGrants(plans')
      BY <1>1, <2>1, <2>2, GoesOn DEF PlanStates, PlanFinal
    <2> QED
      BY <1>2, <1>4, <2>3, RowsHold DEF Cancel
  <1>5. CASE RunOutPlan(p)
    <2>1. plans[p] # Null /\ plans[p] \in Plan /\ plans[p].state \notin PlanFinal
          /\ plans' = [plans EXCEPT ![p] = [plans[p] EXCEPT !.overdue = TRUE]]
      BY <1>5 DEF RunOutPlan, Unfinished
    <2> PICK y : y = [plans[p] EXCEPT !.overdue = TRUE]
      OBVIOUS
    <2>2. y \in Plan /\ y.session = plans[p].session /\ y.version = plans[p].version
          /\ y.grant = plans[p].grant /\ y.overdue /\ y.state = plans[p].state
      BY <2>1 DEF Plan
    <2>3. ListFits(plans', sample) /\ KeepsGrants(plans')
      BY <1>1, <2>1, <2>2, GoesOn DEF Plan, PlanStates, PlanFinal
    <2> QED
      BY <1>2, <1>5, <2>3, RowsHold DEF RunOutPlan
  <1> QED
    BY <1>3, <1>4, <1>5

LEMMA LookHolds == ASSUME ExamBounds, ExamIInv, Look PROVE ExamIInv'
  <1> USE ExamParts
  <1> PICK list : list = CleanedPlans(plans, sample)
    OBVIOUS
  <1>1. ListFits(list, sample) /\ KeepsGrants(list) /\ plans' = list
    BY CleanedFits, CleanedKeeps DEF Look, Follows
  <1>2. PICK task \in {machine.task} \cup {p \in Unfinished(list) : machine.session = current} :
           machine' = [machine EXCEPT !.task = task]
    BY <1>1 DEF Look
  <1> PICK grants : grants = {}
    OBVIOUS
  <1>3. grants \in SUBSET Plans /\ \A p \in grants : list[p] # Null /\ list[p].grant
    OBVIOUS
  <1>4. task \in Plans \cup {Null} /\ (machine.session = 0 => task = Null /\ grants = {})
    BY <1>2 DEF Machine, MachineFits, Unfinished
  <1>5. machine' = [machine EXCEPT !.task = task, !.grants = @ \cup grants]
    BY <1>2 DEF Machine
  <1>6. sample # Null => sample \in samples
    BY DEF SamplesFit
  <1> QED
    BY <1>1, <1>3, <1>4, <1>5, <1>6, ListHolds DEF Look

LEMMA GrantHolds == ASSUME ExamBounds, ExamIInv, NEW p \in Plans, Grant(p) PROVE ExamIInv'
  <1> USE ExamParts
  <1> PICK list : list = CleanedPlans(plans, sample)
    OBVIOUS
  <1>1. ListFits(list, sample) /\ KeepsGrants(list)
    BY CleanedFits, CleanedKeeps DEF Follows
  <1>2. /\ list[p] # Null /\ list[p] \in Plan
        /\ list[p].state \in {"START_REQUESTED", "START_AUTHORIZED"}
        /\ plans' = [list EXCEPT ![p] = [list[p] EXCEPT !.grant = TRUE, !.state = "START_AUTHORIZED"]]
    BY <1>1 DEF Grant, ListFits
  <1> PICK y : y = [list[p] EXCEPT !.grant = TRUE, !.state = "START_AUTHORIZED"]
    OBVIOUS
  <1>3. y \in Plan /\ y.session = list[p].session /\ y.version = list[p].version
        /\ y.grant /\ y.overdue = list[p].overdue /\ y.state = "START_AUTHORIZED"
    BY <1>2 DEF Plan, PlanStates
  <1> PICK new : new = [list EXCEPT ![p] = y]
    OBVIOUS
  <1>4. ListFits(new, sample) /\ KeepsGrants(new)
    BY <1>1, <1>2, <1>3, GoesOn DEF PlanStates, PlanFinal
  <1>5. new[p] = y /\ y # Null
    BY <1>1, <1>3 DEF ListFits
  <1> PICK task, grants : task = machine.task /\ grants = IF machine.session = current THEN {p} ELSE {}
    OBVIOUS
  <1>6. grants \in SUBSET Plans /\ \A q \in grants : new[q] # Null /\ new[q].grant
    BY <1>3, <1>5
  <1>7. task \in Plans \cup {Null} /\ (machine.session = 0 => task = Null /\ grants = {})
    BY DEF Machine, MachineFits
  <1>8. machine' = [machine EXCEPT !.task = task, !.grants = @ \cup grants]
    BY DEF Grant, Machine
  <1>9. sample # Null => sample \in samples
    BY DEF SamplesFit
  <1>10. plans' = new /\ sample' = sample /\ UNCHANGED <<current, samples, outcomes>>
    BY <1>2 DEF Grant
  <1> QED
    BY <1>4, <1>6, <1>7, <1>8, <1>9, <1>10, ListHolds

LEMMA SampleHolds == ASSUME ExamBounds, ExamIInv, NEW m \in samples, TakeSample(m) PROVE ExamIInv'
  <1>1. Follows(m) /\ m \in Sample
    BY ExamParts DEF TakeSample, Follows
  <1>2. ListFits(CleanedPlans(plans, m), m) /\ KeepsGrants(CleanedPlans(plans, m))
    BY <1>1, CleanedFits, CleanedKeeps
  <1> QED
    BY <1>1, <1>2, RowsHold DEF TakeSample

LEMMA OutcomeHolds == ASSUME ExamBounds, ExamIInv, NEW m \in outcomes, TakeOutcome(m) PROVE ExamIInv'
  <1> USE ExamParts
  <1> PICK p : p = m.plan
    OBVIOUS
  <1>1. m \in Outcome /\ p \in Plans /\ m.state \in {"PREPARED", "FAILED", "UNKNOWN", "STARTED"}
        /\ (m.state = "STARTED" => p \in machine.started)
        /\ (m.state = "UNKNOWN" => GaveUp(p))
    BY DEF TakeOutcome, Outcome, OutcomesFit
  <1>2. /\ plans[p] # Null /\ plans[p] \in Plan
        /\ plans[p].state \in {"QUEUED", "START_REQUESTED", "START_AUTHORIZED"}
        /\ plans' = [plans EXCEPT ![p] = [plans[p] EXCEPT !.state = m.state]]
    BY <1>1 DEF TakeOutcome
  <1> PICK y : y = [plans[p] EXCEPT !.state = m.state]
    OBVIOUS
  <1>3. y \in Plan /\ y.session = plans[p].session /\ y.version = plans[p].version
        /\ y.grant = plans[p].grant /\ y.overdue = plans[p].overdue /\ y.state = m.state
    BY <1>1, <1>2 DEF Plan, PlanStates, PlanFinal
  <1>4. KeepsGrants(plans) /\ plans[p].state \notin PlanFinal
    BY <1>2 DEF KeepsGrants, PlanFinal
  <1>5. ListFits(plans', sample) /\ KeepsGrants(plans')
    BY <1>1, <1>2, <1>3, <1>4, GoesOn DEF PlanStates, PlanFinal
  <1> QED
    BY <1>5, RowsHold DEF TakeOutcome, SamplesFit

\* A step of the host by itself: it may send, and start.
LEMMA HostHolds ==
    ASSUME ExamBounds, ExamIInv, UNCHANGED <<current, plans, sample>>,
           machine' \in Machine, machine.started \subseteq machine'.started,
           samples' \subseteq Sample, outcomes' \subseteq Outcome,
           SamplesFit', MachineFits', OutcomesFit', GrantsFit',
           \A p \in Plans : GaveUp(p) => GaveUp(p)'
    PROVE  ExamIInv'
  <1>1. ExamTypeOK'
    BY ExamParts DEF ExamTypeOK, Machine
  <1>2. ListFits(plans, sample)'
    BY ExamParts DEF ListFits, PlanFits, Distinct, Counts
  <1> QED
    BY <1>1, <1>2 DEF ExamIInv

LEMMA SendHolds == ASSUME ExamBounds, ExamIInv, SendSample PROVE ExamIInv'
  <1> USE ExamParts
  <1> DEFINE m == [session |-> machine.session, sequence |-> machine.sequence + 1,
                   version |-> machine.version, enabled |-> machine.enabled,
                   idle |-> machine.playing = Null, prepared |-> machine.prepared]
  <1>1. /\ machine' = [machine EXCEPT !.sequence = @ + 1] /\ machine.sequence < MaxSample
        /\ machine.session # 0 /\ machine.session = current
        /\ UNCHANGED <<current, plans, sample, outcomes>>
    BY DEF SendSample, MachineFits
  <1>2. /\ machine' \in Machine /\ machine'.sequence = machine.sequence + 1
        /\ machine'.session = machine.session /\ machine'.version = machine.version
        /\ machine'.enabled = machine.enabled /\ machine'.task = machine.task
        /\ machine'.grants = machine.grants /\ machine'.started = machine.started
        /\ machine'.dropped = machine.dropped
    BY <1>1 DEF Machine, ExamBounds
  <1>3. samples' = samples \cup {m}
    BY <1>2 DEF SendSample
  <1>4. m \in Sample
    BY <1>1 DEF Sample, Machine, ExamBounds
  <1>5. SamplesFit'
    <2>1. ASSUME NEW x \in samples, NEW y \in samples PROVE x.version = y.version => x.enabled = y.enabled
      BY DEF SamplesFit
    <2>2. ASSUME NEW x \in samples
          PROVE  /\ x.session <= current /\ x.version <= machine.version
                 /\ x.version = machine.version => x.enabled = machine.enabled
      BY DEF SamplesFit
    <2>3. m.session <= current /\ m.version <= machine.version
          /\ m.version = machine.version /\ m.enabled = machine.enabled
      BY <1>1 DEF Machine
    <2>4. ASSUME NEW x \in samples', NEW y \in samples'
          PROVE  /\ x.version = y.version => x.enabled = y.enabled
                 /\ x.session <= current /\ x.version <= machine.version
                 /\ x.version = machine.version => x.enabled = machine.enabled
      BY <1>3, <2>1, <2>2, <2>3, <2>4
    <2>5. sample # Null => sample \in samples'
      BY <1>3 DEF SamplesFit
    <2> QED
      BY <1>1, <1>2, <2>4, <2>5 DEF SamplesFit
  <1>6. MachineFits' /\ OutcomesFit' /\ GrantsFit'
    BY <1>1, <1>2 DEF MachineFits, OutcomesFit, GrantsFit, GaveUp
  <1> QED
    BY <1>1, <1>2, <1>3, <1>4, <1>5, <1>6, HostHolds DEF GaveUp

\* The host tells what it did with a plan it was given under its session.
LEMMA TellHolds ==
    ASSUME ExamBounds, ExamIInv, UNCHANGED <<current, plans, sample, samples>>,
           NEW p \in Plans, NEW stage \in {"prepare", "start"}, NEW state, Tell(p, stage, state),
           machine.session # 0, machine' \in Machine,
           UNCHANGED <<machine.session, machine.version, machine.enabled, machine.grants>>,
           machine.dropped \subseteq machine'.dropped,
           state = "UNKNOWN" => p \in machine'.dropped,
           \/ state \in {"PREPARED", "FAILED", "UNKNOWN"} /\ machine'.started = machine.started
           \/ /\ state = "STARTED" /\ machine'.started = machine.started \cup {p}
              /\ p \in machine.grants
    PROVE  ExamIInv'
  <1> USE ExamParts
  <1> DEFINE m == [plan |-> p, session |-> machine.session, stage |-> stage, state |-> state]
  <1>1. m \in Outcome /\ outcomes' = outcomes \cup {m}
    BY DEF Tell, Outcome, Machine, PlanStates, PlanFinal
  <1>2. machine.started \subseteq machine'.started
    OBVIOUS
  <1>3. SamplesFit' /\ MachineFits'
    BY DEF SamplesFit, MachineFits
  <1>4. \A q : GaveUp(q) => GaveUp(q)'
    BY DEF GaveUp
  <1>5. m.session <= current /\ (state = "UNKNOWN" => GaveUp(p)')
    BY DEF MachineFits, GaveUp
  <1>6. OutcomesFit'
    BY <1>1, <1>2, <1>4, <1>5 DEF OutcomesFit
  <1>7. GrantsFit'
    BY DEF GrantsFit
  <1> QED
    BY <1>1, <1>2, <1>3, <1>4, <1>6, <1>7, HostHolds

LEMMA PlayHolds ==
    ASSUME ExamBounds, ExamIInv, Prepare \/ GiveUp \/ \E p \in Plans : Start(p)
    PROVE  ExamIInv'
  <1> USE ExamParts
  <1>1. CASE Prepare
    <2> PICK p : p = machine.task
      OBVIOUS
    <2>1. p \in Plans /\ machine.session # 0 /\ machine' = [machine EXCEPT !.prepared = p]
          /\ Tell(p, "prepare", "PREPARED") /\ UNCHANGED <<current, plans, sample, samples>>
      BY <1>1 DEF Prepare, Machine, MachineFits
    <2>2. machine' \in Machine /\ machine'.started = machine.started
          /\ machine.dropped \subseteq machine'.dropped
          /\ UNCHANGED <<machine.session, machine.version, machine.enabled, machine.grants>>
      BY <2>1 DEF Machine
    <2> QED
      BY <2>1, <2>2, TellHolds
  <1>2. CASE GiveUp
    <2> PICK p : p = machine.task
      OBVIOUS
    <2> PICK stage : stage = IF machine.prepared = p THEN "start" ELSE "prepare"
      OBVIOUS
    <2> PICK state \in {"FAILED", "UNKNOWN"} : Tell(p, stage, state)
      BY <1>2 DEF GiveUp
    <2>1. p \in Plans /\ machine.session # 0
          /\ machine' = [machine EXCEPT !.task = Null, !.prepared = Null, !.dropped = @ \cup {p}]
          /\ Tell(p, stage, state) /\ UNCHANGED <<current, plans, sample, samples>>
      BY <1>2 DEF GiveUp, Machine, MachineFits
    <2>2. machine' \in Machine /\ machine'.started = machine.started
          /\ machine'.dropped = machine.dropped \cup {p}
          /\ UNCHANGED <<machine.session, machine.version, machine.enabled, machine.grants>>
      BY <2>1 DEF Machine
    <2> QED
      BY <2>1, <2>2, TellHolds
  <1>3. ASSUME NEW p \in Plans, Start(p) PROVE ExamIInv'
    <2>1. p \in machine.grants /\ machine.session # 0
          /\ machine' = [machine EXCEPT !.playing = p, !.started = @ \cup {p}]
          /\ Tell(p, "start", "STARTED") /\ UNCHANGED <<current, plans, sample, samples>>
      BY <1>3 DEF Start, Machine, MachineFits
    <2>2. machine' \in Machine /\ machine'.started = machine.started \cup {p}
          /\ machine'.dropped = machine.dropped
          /\ UNCHANGED <<machine.session, machine.version, machine.enabled, machine.grants>>
      BY <2>1 DEF Machine
    <2> QED
      BY <2>1, <2>2, TellHolds
  <1> QED
    BY <1>1, <1>2, <1>3

LEMMA MachineHolds ==
    ASSUME ExamBounds, ExamIInv, Finish \/ ChangeVersion \/ CrashMachine PROVE ExamIInv'
  <1> USE ExamParts
  <1>1. UNCHANGED <<current, plans, sample, samples, outcomes>>
    BY DEF Finish, ChangeVersion, CrashMachine
  <1>2. /\ machine' \in Machine /\ machine'.started = machine.started
        /\ machine'.session \in {0, machine.session}
        /\ machine'.grants \subseteq machine.grants /\ machine'.task \in {machine.task, Null}
        /\ machine'.session = 0 /\ machine.session # 0 => machine'.grants = {} /\ machine'.task = Null
        /\ machine'.session = machine.session => machine.dropped = machine'.dropped
        /\ \/ machine'.version = machine.version /\ machine'.enabled = machine.enabled
           \/ machine'.version = machine.version + 1
    <2>1. CASE Finish
      BY <2>1 DEF Finish, Machine
    <2>2. CASE ChangeVersion
      <3>1. PICK on \in BOOLEAN : machine' = [machine EXCEPT !.version = machine.version + 1, !.enabled = on]
        BY <2>2 DEF ChangeVersion
      <3>2. machine.version + 1 \in 1..MaxVersion
        <4>1. machine.version \in 1..MaxVersion /\ MaxVersion \in Nat
          BY DEF Machine, ExamBounds
        <4>2. machine.version < MaxVersion
          BY <2>2 DEF ChangeVersion
        <4> QED
          BY <4>1, <4>2
      <3>3. machine' \in Machine
        BY <3>1, <3>2 DEF Machine
      <3> QED
        BY <3>1, <3>3 DEF Machine
    <2>3. CASE CrashMachine
      <3>1. 0 \in 0..MaxSession /\ 0 \in 0..MaxSample
        BY DEF ExamBounds
      <3>2. machine' = [machine EXCEPT !.session = 0, !.sequence = 0, !.task = Null, !.prepared = Null,
                                       !.playing = Null, !.grants = {}, !.dropped = {}]
            /\ machine.session # 0
        BY <2>3 DEF CrashMachine
      <3>3. machine' \in Machine
        BY <3>1, <3>2 DEF Machine
      <3> QED
        BY <3>2, <3>3 DEF Machine
    <2> QED
      BY <2>1, <2>2, <2>3
  <1>3. SamplesFit'
    BY <1>1, <1>2 DEF SamplesFit, Machine, Sample
  <1>4. \A p : GaveUp(p) => GaveUp(p)'
    BY <1>1, <1>2 DEF GaveUp, MachineFits
  <1>5. MachineFits' /\ OutcomesFit' /\ GrantsFit'
    BY <1>1, <1>2, <1>4 DEF MachineFits, OutcomesFit, GrantsFit
  <1> QED
    BY <1>1, <1>2, <1>3, <1>4, <1>5, HostHolds

\* A new session: no plan and no sample is of it.
LEMMA ReopenHolds == ASSUME ExamBounds, ExamIInv, Reopen PROVE ExamIInv'
  <1> USE ExamParts
  <1>1. /\ current' = current + 1 /\ current' \in 1..MaxSession
        /\ machine' = [machine EXCEPT !.session = current'] /\ machine.session = 0
        /\ UNCHANGED <<plans, sample, samples, outcomes>>
    BY DEF Reopen, ExamBounds
  <1>2. machine' \in Machine /\ machine'.session = current' /\ machine'.version = machine.version
        /\ machine'.enabled = machine.enabled /\ machine'.started = machine.started
        /\ machine'.grants = machine.grants /\ machine'.task = machine.task
    BY <1>1 DEF Machine
  <1>3. ExamTypeOK'
    BY <1>1, <1>2 DEF ExamTypeOK, Machine
  <1>4. ListFits(plans, sample)'
    <2>1. ASSUME NEW p \in Plans, plans[p] # Null PROVE PlanFits(p, plans[p], sample)' /\ ~Counts(p, plans[p])'
      <3>1. plans[p] \in Plan /\ PlanFits(p, plans[p], sample)
        BY <2>1 DEF ListFits
      <3>2. plans[p].session < current'
        BY <1>1, <3>1 DEF PlanFits, Plan
      <3> QED
        BY <1>1, <1>2, <3>1, <3>2 DEF PlanFits, Counts, Plan
    <2> QED
      BY <1>1, <2>1 DEF ListFits, Distinct, Counts
  <1>5. SamplesFit'
    BY <1>1, <1>2 DEF SamplesFit, Sample
  <1>6. MachineFits' /\ OutcomesFit' /\ GrantsFit'
    BY <1>1, <1>2 DEF MachineFits, OutcomesFit, GrantsFit, Outcome
  <1> QED
    BY <1>3, <1>4, <1>5, <1>6 DEF ExamIInv

LEMMA StepHolds == ASSUME ExamBounds, ExamIInv, [ExamNext]_examVars PROVE ExamIInv'
  <1>1. CASE UNCHANGED examVars
    <2>1. ExamTypeOK'
      BY <1>1, ExamParts DEF examVars, ExamTypeOK, Machine
    <2>2. SamplesFit' /\ MachineFits' /\ OutcomesFit' /\ GrantsFit'
      BY <1>1, ExamParts DEF examVars, SamplesFit, MachineFits, OutcomesFit, GrantsFit, GaveUp
    <2>3. ListFits(plans, sample)'
      BY <1>1, ExamParts DEF examVars, ListFits, PlanFits, Distinct, Counts, GaveUp
    <2> QED
      BY <2>1, <2>2, <2>3 DEF ExamIInv
  <1> QED
    BY <1>1, CreateHolds, ConfirmHolds, LookHolds, GrantHolds, SampleHolds, OutcomeHolds, SendHolds,
       PlayHolds, MachineHolds, ReopenHolds, Zenon DEF ExamNext

LEMMA Invariance == ASSUME ExamBounds PROVE ExamSpec => []ExamIInv
  <1>1. ExamInit => ExamIInv
    BY InitHolds
  <1>2. ExamIInv /\ [ExamNext]_examVars => ExamIInv'
    BY StepHolds
  <1> QED
    BY <1>1, <1>2, PTL DEF ExamSpec

-----------------------------------------------------------------------------
(* What follows.                                                           *)

\* Plans, samples, results and the host keep their types.
THEOREM ExamTypeCorrect == ASSUME ExamBounds PROVE ExamSpec => []ExamTypeOK
  <1>1. ExamIInv => ExamTypeOK
    BY DEF ExamIInv
  <1> QED
    BY Invariance, <1>1, PTL

\* What administrators are told of a plan is true: a plan that is cancelled or
\* expired was never granted, so its host cannot have started it; one that is said
\* to have started did.
THEOREM PlanOutcomesAreTrue == ASSUME ExamBounds PROVE ExamSpec => []PlanOutcomeIsTrue
  <1>1. ASSUME ExamIInv, ExamBounds PROVE PlanOutcomeIsTrue
    <2>1. ASSUME NEW p \in Plans, plans[p] # Null PROVE PlanFits(p, plans[p], sample)
      BY <1>1, <2>1, ExamParts DEF ListFits
    <2> QED
      BY <1>1, <2>1, ExamParts DEF PlanOutcomeIsTrue, PlanFits, GrantsFit
  <1>2. ExamIInv => PlanOutcomeIsTrue
    BY <1>1
  <1> QED
    BY Invariance, <1>2, PTL

\* The host never holds two usable grants for one state of its policy: a plan whose
\* outcome is unknown before its time keeps its policy from getting another one,
\* unless the host itself gave it up.
THEOREM GrantsAreSingle == ASSUME ExamBounds PROVE ExamSpec => []OneLiveGrant
  <1>1. ASSUME ExamIInv PROVE OneLiveGrant
    <2>1. \A p \in Plans : Live(p) => Counts(p, plans[p])
      BY <1>1 DEF Live, Counts, PlanFinal, GaveUp, ExamIInv, MachineFits
    <2> QED
      BY <1>1, <2>1 DEF OneLiveGrant, ExamIInv, ListFits, Distinct
  <1>2. ExamIInv => OneLiveGrant
    BY <1>1
  <1> QED
    BY Invariance, <1>2, PTL
=============================================================================
