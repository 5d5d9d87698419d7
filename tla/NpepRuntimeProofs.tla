------------------------- MODULE NpepRuntimeProofs -------------------------
(***************************************************************************)
(* Proofs about NpepRuntime: its types, the slot of the device and what    *)
(* the state of an operation says, for every number of operations,         *)
(* requests, sessions and restarts.                                        *)
(***************************************************************************)
EXTENDS NpepRuntime, TLAPS

\* What every operation on file satisfies.  An operation that is under way has
\* no result, one that is resolved has one or never started, and only a granted
\* one can have been retired.
Shape(v) ==
    /\ v.grant # Null => v.state \notin {"QUEUED", "CANCELLED", "EXPIRED", "FAILED"}
    /\ v.state \in {"SUCCEEDED", "PARTIAL", "START_AUTHORIZED"} => v.grant # Null
    /\ v.grant # Null => v.grant.run = v.run
    /\ ~v.resolved => v.state \in Progress \cup {"QUEUED", "START_AUTHORIZED"}
    /\ v.resolved => v.state \in Results \cup {"CANCELLED", "EXPIRED"}
    /\ v.retired => v.resolved /\ v.grant # Null

AllShaped == \A o \in Operations : op[o] # Null => Shape(op[o])

\* The inductive invariant.  That one operation holds the slot depends on
\* AllShaped: a late result may only reach an operation that keeps resolved.
IInv == TypeOK /\ AllShaped /\ OneOperationAtATime /\ RequestRunsOnce

-----------------------------------------------------------------------------
(* What pending() does to an operation *)

\* It keeps everything but the outcome of an operation that holds the slot.
LEMMA SettledKeeps ==
    ASSUME TypeOK, AllShaped, NEW o \in Operations, op[o] # Null
    PROVE  /\ Settled(o) \in Operation
           /\ Settled(o) # Null
           /\ Shape(Settled(o))
           /\ Settled(o).request = op[o].request
           /\ Settled(o).aliases = op[o].aliases
           /\ Settled(o).grant = op[o].grant
           /\ Settled(o).initiator = op[o].initiator
           /\ op[o].resolved => Settled(o) = op[o]
           /\ ~Settled(o).resolved => Settled(o) = op[o]
<1>1. op[o] \in Operation /\ Shape(op[o])
  BY DEF TypeOK, AllShaped
<1> DEFINE v == op[o]
           w == [v EXCEPT !.state = "UNKNOWN", !.resolved = TRUE, !.retired = TRUE]
           x == [v EXCEPT !.state = "EXPIRED", !.resolved = TRUE]
<1>2. \/ Settled(o) = v
      \/ ~v.resolved /\ v.grant # Null /\ Settled(o) = w
      \/ ~v.resolved /\ v.grant = Null /\ Settled(o) = x
  BY DEF Settled, Unresolved
<1>3. CASE Settled(o) = v
  BY <1>1, <1>3, NullAssumption
<1>4. CASE ~v.resolved /\ v.grant # Null /\ Settled(o) = w
  <2>1. w \in Operation
    BY <1>1 DEF Operation, States, Results
  <2>2. w.state = "UNKNOWN" /\ w.resolved /\ w.retired /\ w.grant = v.grant /\ w.run = v.run
        /\ w.request = v.request /\ w.aliases = v.aliases /\ w.initiator = v.initiator
    BY <1>1 DEF Operation
  <2>3. Shape(w)
    BY <1>1, <1>4, <2>2 DEF Shape, Results
  <2> QED
    BY <1>4, <2>1, <2>2, <2>3, NullAssumption
<1>5. CASE ~v.resolved /\ v.grant = Null /\ Settled(o) = x
  <2>1. x \in Operation
    BY <1>1 DEF Operation, States
  <2>2. x.state = "EXPIRED" /\ x.resolved /\ x.retired = v.retired /\ x.grant = v.grant
        /\ x.run = v.run
        /\ x.request = v.request /\ x.aliases = v.aliases /\ x.initiator = v.initiator
    BY <1>1 DEF Operation
  <2>3. Shape(x)
    BY <1>1, <1>5, <2>2 DEF Shape
  <2> QED
    BY <1>5, <2>1, <2>2, <2>3, NullAssumption
<1> QED
  BY <1>2, <1>3, <1>4, <1>5

LEMMA SettledNull ==
    ASSUME NEW o \in Operations, op[o] = Null
    PROVE  Settled(o) = Null
BY DEF Settled, Unresolved

-----------------------------------------------------------------------------
(* Steps *)

\* An operation that a step leaves alone or takes further: it keeps its requests
\* and does not come back to the slot.
Advances(o) ==
    IF op[o] = Null THEN op'[o] = Null
    ELSE /\ op'[o] \in Operation
         /\ Shape(op'[o])
         /\ op'[o].request = op[o].request
         /\ op'[o].aliases = op[o].aliases
         /\ op[o].resolved => op'[o].resolved

\* Steps that only take operations further keep the invariant.
LEMMA AdvancingStep ==
    ASSUME IInv, TypeOK', \A o \in Operations : Advances(o)
    PROVE  IInv'
<1>1. AllShaped'
  BY DEF AllShaped, Advances
<1>2. ASSUME NEW o \in Operations, NEW p \in Operations, Unresolved(o)', Unresolved(p)'
      PROVE  o = p
  <2>1. Unresolved(o) /\ Unresolved(p)
    BY <1>2 DEF Unresolved, Advances
  <2> QED
    BY <2>1 DEF IInv, OneOperationAtATime
<1>3. OneOperationAtATime'
  BY <1>2 DEF OneOperationAtATime
<1>4. \A o \in Operations : op'[o] # Null =>
          /\ op[o] # Null
          /\ op'[o].request = op[o].request /\ op'[o].aliases = op[o].aliases
  BY DEF Advances
<1>5. RequestRunsOnce'
  BY <1>4 DEF IInv, RequestRunsOnce
<1> QED
  BY <1>1, <1>3, <1>5 DEF IInv

\* What a step leaves alone, and what pending() has looked at, has advanced.
LEMMA SameAdvances ==
    ASSUME IInv, NEW o \in Operations, op'[o] = op[o]
    PROVE  Advances(o)
BY DEF Advances, IInv, TypeOK, AllShaped

LEMMA SettledAdvances ==
    ASSUME IInv, NEW o \in Operations, op'[o] = Settled(o)
    PROVE  Advances(o)
BY SettledKeeps, SettledNull DEF Advances, IInv

\* The types of the state, given those of the operations.
LEMMA TypedStep ==
    ASSUME op' \in [Operations -> Operation \cup {Null}],
           host' \in Context, policy' \in Policy \cup {Null}, authorized' \subseteq Admins
    PROVE  TypeOK'
BY DEF TypeOK

LEMMA SettledTyped ==
    ASSUME IInv
    PROVE  AfterPending \in [Operations -> Operation \cup {Null}]
BY SettledKeeps, SettledNull DEF IInv, AfterPending

LEMMA LookKeeps == ASSUME IInv, Look PROVE IInv'
<1>1. TypeOK'
  BY SettledTyped DEF Look, IInv, TypeOK
<1>2. \A o \in Operations : op'[o] = Settled(o)
  BY DEF Look, AfterPending
<1> QED
  BY <1>1, <1>2, SettledAdvances, AdvancingStep

LEMMA CancelKeeps ==
    ASSUME IInv, NEW a \in Admins, NEW o \in Operations, Cancel(a, o)
    PROVE  IInv'
<1> DEFINE w == [Settled(o) EXCEPT !.state = "CANCELLED", !.resolved = TRUE]
<1>1. op[o] # Null /\ op[o].grant = Null /\ ~Settled(o).resolved
  BY DEF Cancel, Cancellable
<1>2. /\ Settled(o) \in Operation /\ Settled(o) = op[o]
      /\ op[o] \in Operation /\ Shape(op[o])
  BY <1>1, SettledKeeps DEF IInv
<1>3. op' = [AfterPending EXCEPT ![o] = w]
  BY DEF Cancel, AfterPending
<1>4. w \in Operation
  BY <1>2 DEF Operation, States
<1>5. /\ w.state = "CANCELLED" /\ w.resolved /\ w.grant = Null /\ w.retired = op[o].retired
      /\ w.request = op[o].request /\ w.aliases = op[o].aliases
  BY <1>1, <1>2 DEF Operation
<1>6. Shape(w)
  BY <1>2, <1>1, <1>5 DEF Shape
<1>7. op'[o] = w /\ \A p \in Operations \ {o} : op'[p] = Settled(p)
  BY <1>3 DEF AfterPending
<1>8. Advances(o)
  BY <1>1, <1>4, <1>5, <1>6, <1>7 DEF Advances
<1>9. TypeOK'
  BY <1>3, <1>4, SettledTyped DEF Cancel, IInv, TypeOK
<1> QED
  BY <1>7, <1>8, <1>9, SettledAdvances, AdvancingStep

LEMMA PublishKeeps ==
    ASSUME IInv, NEW revision \in 1..MaxPolicy, NEW paired \in BOOLEAN,
           NEW enabled \in BOOLEAN, NEW daily \in BOOLEAN,
           PublishPolicy(revision, paired, enabled, daily)
    PROVE  IInv'
<1> DEFINE w(o) == [op[o] EXCEPT !.state = "REJECTED", !.resolved = TRUE]
<1>1. ASSUME NEW o \in Operations, o \in Pending, op[o].grant = Null
      PROVE  w(o) \in Operation /\ (op'[o] = w(o) => Advances(o))
  <2>1. op[o] # Null /\ op[o] \in Operation /\ Shape(op[o]) /\ ~op[o].resolved
    BY <1>1 DEF Pending, Unresolved, IInv, TypeOK, AllShaped
  <2>2. w(o) \in Operation
    BY <2>1 DEF Operation, States, Results
  <2>3. /\ w(o).state = "REJECTED" /\ w(o).resolved /\ w(o).grant = Null
        /\ w(o).retired = op[o].retired
        /\ w(o).request = op[o].request /\ w(o).aliases = op[o].aliases
    BY <1>1, <2>1 DEF Operation
  <2>4. Shape(w(o))
    BY <1>1, <2>1, <2>3 DEF Shape, Results
  <2> QED
    BY <2>1, <2>2, <2>3, <2>4 DEF Advances
<1>2. \A o \in Operations : Settled(o) \in Operation \cup {Null}
  BY SettledKeeps, SettledNull DEF IInv
<1>3. op' = [o \in Operations |->
                IF o \in Pending /\ op[o].grant = Null THEN w(o) ELSE Settled(o)]
  BY DEF PublishPolicy
<1>4. op' \in [Operations -> Operation \cup {Null}]
  BY <1>1, <1>2, <1>3
<1>5. policy' \in Policy
  BY DEF PublishPolicy, Policy, IInv, TypeOK
<1>6. TypeOK'
  BY <1>4, <1>5, TypedStep DEF PublishPolicy, IInv, TypeOK
<1>7. \A o \in Operations : Advances(o)
  BY <1>1, <1>3, SettledAdvances
<1> QED
  BY <1>6, <1>7, AdvancingStep

\* A step that rewrites one operation and leaves the rest of the state alone.
LEMMA OneOperationStep ==
    ASSUME IInv, NEW o \in Operations, NEW w \in Operation,
           op[o] # Null, op' = [op EXCEPT ![o] = w], UNCHANGED <<host, policy, authorized>>,
           Shape(w), w.request = op[o].request, w.aliases = op[o].aliases,
           op[o].resolved => w.resolved
    PROVE  IInv'
<1>1. op'[o] = w /\ \A p \in Operations \ {o} : op'[p] = op[p]
  BY DEF IInv, TypeOK
<1>2. Advances(o)
  BY <1>1 DEF Advances
<1>3. TypeOK'
  BY DEF IInv, TypeOK
<1> QED
  BY <1>1, <1>2, <1>3, SameAdvances, AdvancingStep

LEMMA StartKeeps ==
    ASSUME IInv, NEW o \in Operations, Start(o)
    PROVE  IInv'
<1> DEFINE w == [op[o] EXCEPT !.grant = host, !.state = "START_AUTHORIZED"]
<1>1. /\ op[o] # Null /\ ~op[o].resolved /\ op[o].grant = Null
      /\ policy # Null /\ policy.context = host /\ policy.context.run = op[o].run
  BY DEF Start, Startable, Ready
<1>2. op[o] \in Operation /\ Shape(op[o]) /\ host \in Context
  BY <1>1 DEF IInv, TypeOK, AllShaped
<1>3. w \in Operation
  BY <1>2 DEF Operation, States
<1>4. /\ w.state = "START_AUTHORIZED" /\ w.grant = host /\ w.run = op[o].run
      /\ w.resolved = op[o].resolved /\ w.retired = op[o].retired
      /\ w.request = op[o].request /\ w.aliases = op[o].aliases
  BY <1>2 DEF Operation
<1>5. w.grant # Null /\ w.grant.run = w.run
  BY <1>1, <1>2, <1>4, NullAssumption
<1>6. Shape(w)
  BY <1>1, <1>2, <1>4, <1>5 DEF Shape
<1>7. op' = [op EXCEPT ![o] = w]
  BY DEF Start
<1> HIDE DEF w
<1> QED
  BY <1>1, <1>3, <1>4, <1>6, <1>7, OneOperationStep DEF Start

\* An event that is accepted leaves a state that fits the grant: the check of the
\* grant (Plausible), and the one of late results (Accepts), are all it takes.
LEMMA EventKeeps ==
    ASSUME IInv, NEW o \in Operations, NEW state \in Results \cup Progress,
           NEW evidence \in Evidence, ReceiveEvent(o, state, evidence)
    PROVE  IInv'
<1> DEFINE r == state \in Results
           w == [op[o] EXCEPT !.state = state, !.last = @ + 1, !.retired = FALSE,
                              !.resolved = r]
<1>0. r \in BOOLEAN /\ (r <=> state \in Results)
  OBVIOUS
<1>1. /\ op[o] # Null /\ op[o].last < MaxEvents
      /\ Accepts(op[o], state) /\ Plausible(op[o], state, evidence)
      /\ op' = [op EXCEPT ![o] = w]
  BY DEF ReceiveEvent
<1>2. op[o] \in Operation /\ Shape(op[o])
  BY <1>1 DEF IInv, TypeOK, AllShaped
<1>3. op[o].last + 1 \in 0..MaxEvents
  BY <1>1, <1>2, BoundAssumption DEF Operation
<1>4. state \in States
  BY DEF States
<1> HIDE DEF r
<1>5. w \in Operation
  BY <1>0, <1>2, <1>3, <1>4 DEF Operation
<1>6. /\ w.state = state /\ w.grant = op[o].grant /\ w.run = op[o].run
      /\ w.resolved = r /\ w.retired = FALSE
      /\ w.request = op[o].request /\ w.aliases = op[o].aliases
  BY <1>2 DEF Operation
<1>7. op[o].grant = Null => state \in Progress \cup {"REJECTED", "UNKNOWN"}
  BY <1>1 DEF Plausible
<1>8. op[o].grant # Null => state # "FAILED"
  BY <1>1 DEF Plausible
<1>9. Shape(w)
  BY <1>0, <1>2, <1>6, <1>7, <1>8 DEF Shape, Results, Progress
<1>10. op[o].resolved => w.resolved
  BY <1>0, <1>1, <1>6 DEF Accepts
<1>11. UNCHANGED <<host, policy, authorized>>
  BY DEF ReceiveEvent
<1> HIDE DEF w
<1> QED
  BY <1>1, <1>5, <1>6, <1>9, <1>10, <1>11, OneOperationStep

LEMMA RefusalKeeps ==
    ASSUME IInv, NEW o \in Operations, ReceiveRefusal(o)
    PROVE  IInv'
<1> DEFINE w == [op[o] EXCEPT !.last = @ + 1]
<1>1. /\ op[o] # Null /\ op[o].last < MaxEvents
      /\ op' = [op EXCEPT ![o] = w] /\ UNCHANGED <<host, policy, authorized>>
  BY DEF ReceiveRefusal
<1>2. op[o] \in Operation /\ Shape(op[o])
  BY <1>1 DEF IInv, TypeOK, AllShaped
<1>3. op[o].last + 1 \in 0..MaxEvents
  BY <1>1, <1>2, BoundAssumption DEF Operation
<1>4. w \in Operation
  BY <1>2, <1>3 DEF Operation
<1>5. /\ w.state = op[o].state /\ w.grant = op[o].grant /\ w.run = op[o].run
      /\ w.resolved = op[o].resolved /\ w.retired = op[o].retired
      /\ w.request = op[o].request /\ w.aliases = op[o].aliases
  BY <1>2 DEF Operation
<1>6. Shape(w)
  BY <1>2, <1>5 DEF Shape
<1> HIDE DEF w
<1> QED
  BY <1>1, <1>4, <1>5, <1>6, OneOperationStep

LEMMA ResolveKeeps ==
    ASSUME IInv, NEW o \in Operations, Resolve(o)
    PROVE  IInv'
<1> DEFINE w == [op[o] EXCEPT !.resolved = TRUE, !.ended = TRUE]
<1>1. /\ op[o] # Null /\ op[o].state \in {"SUCCEEDED", "PARTIAL", "UNKNOWN"}
      /\ op' = [op EXCEPT ![o] = w] /\ UNCHANGED <<host, policy, authorized>>
  BY DEF Resolve
<1>2. op[o] \in Operation /\ Shape(op[o])
  BY <1>1 DEF IInv, TypeOK, AllShaped
<1>3. w \in Operation
  BY <1>2 DEF Operation
<1>4. /\ w.state = op[o].state /\ w.grant = op[o].grant /\ w.run = op[o].run
      /\ w.resolved = TRUE /\ w.retired = op[o].retired
      /\ w.request = op[o].request /\ w.aliases = op[o].aliases
  BY <1>2 DEF Operation
<1>5. Shape(w)
  BY <1>1, <1>2, <1>4 DEF Shape, Results
<1> HIDE DEF w
<1> QED
  BY <1>1, <1>3, <1>4, <1>5, OneOperationStep

LEMMA RunOutKeeps ==
    ASSUME IInv, NEW o \in Operations, RunOut(o)
    PROVE  IInv'
<1> DEFINE w == [op[o] EXCEPT !.overdue = TRUE]
<1>1. op[o] # Null /\ op' = [op EXCEPT ![o] = w] /\ UNCHANGED <<host, policy, authorized>>
  BY DEF RunOut
<1>2. op[o] \in Operation /\ Shape(op[o])
  BY <1>1 DEF IInv, TypeOK, AllShaped
<1>3. w \in Operation
  BY <1>2 DEF Operation
<1>4. /\ w.state = op[o].state /\ w.grant = op[o].grant /\ w.run = op[o].run
      /\ w.resolved = op[o].resolved /\ w.retired = op[o].retired
      /\ w.request = op[o].request /\ w.aliases = op[o].aliases
  BY <1>2 DEF Operation
<1>5. Shape(w)
  BY <1>2, <1>4 DEF Shape
<1> HIDE DEF w
<1> QED
  BY <1>1, <1>3, <1>4, <1>5, OneOperationStep

\* The host, the policy, the clock and the administrators.
LEMMA SurroundingsKeep ==
    ASSUME IInv, Report \/ RestartHost \/ ReopenSession \/ Age
                 \/ \E a \in Admins : ChangeAuthority(a)
    PROVE  IInv'
<1>1. op' = op
  BY DEF Report, RestartHost, ReopenSession, Age, ChangeAuthority
<1>2. host \in Context /\ policy \in Policy \cup {Null} /\ authorized \subseteq Admins
  BY DEF IInv, TypeOK
<1>3. host' \in Context
  <2>1. CASE RestartHost
    BY <2>1, <1>2, BoundAssumption DEF RestartHost, Context
  <2>2. CASE ReopenSession
    BY <2>2, <1>2, BoundAssumption DEF ReopenSession, Context
  <2> QED
    BY <2>1, <2>2, <1>2 DEF Report, Age, ChangeAuthority
<1>4. policy' \in Policy \cup {Null}
  BY <1>2 DEF Report, RestartHost, ReopenSession, Age, ChangeAuthority, Policy
<1>5. authorized' \subseteq Admins
  BY <1>2 DEF Report, RestartHost, ReopenSession, Age, ChangeAuthority
<1>6. TypeOK'
  BY <1>1, <1>3, <1>4, <1>5 DEF IInv, TypeOK
<1> QED
  BY <1>1, <1>6, SameAdvances, AdvancingStep

-----------------------------------------------------------------------------
(* Requests *)

\* The names an operation answers to.
Names(v) == {v.request} \cup v.aliases

\* A request nobody answers for goes by no operation's name, neither before nor
\* after pending().
LEMMA UnknownIsNew ==
    ASSUME IInv, NEW r, Known(r) = {}, NEW p \in Operations, op[p] # Null
    PROVE  r \notin Names(op[p]) /\ Names(Settled(p)) = Names(op[p]) /\ Settled(p) # Null
BY SettledKeeps DEF Known, Names, IInv

\* A new operation finds the slot free and its request unknown.
LEMMA CreateKeeps ==
    ASSUME IInv, NEW a \in Admins, NEW r \in Requests, NEW target \in Targets,
           NEW o \in Operations, Create(a, r, target, o)
    PROVE  IInv'
<1> DEFINE n == NewOperation(a, r, target)
<1>1. /\ Known(r) = {} /\ Pending = {} /\ op[o] = Null /\ policy # Null
      /\ op' = [AfterPending EXCEPT ![o] = n] /\ UNCHANGED <<host, policy, authorized>>
  BY DEF Create, MayCreate
<1>2. policy \in Policy
  BY <1>1 DEF IInv, TypeOK
<1>3. n \in Operation
  <2>1. /\ policy.revision \in 1..MaxPolicy /\ policy.context.run \in 1..MaxRun
        /\ 0 \in 0..MaxEvents
    BY <1>2, BoundAssumption DEF Policy, Context
  <2>2. target \in AllTargets /\ "QUEUED" \in States
    BY ChoiceAssumption DEF States
  <2> QED
    BY <2>1, <2>2 DEF NewOperation, Operation
<1>4. n.request = r /\ n.aliases = {} /\ n.grant = Null /\ n.state = "QUEUED"
      /\ ~n.resolved /\ ~n.retired
  BY DEF NewOperation
<1>5. Shape(n)
  BY <1>4 DEF Shape
<1> HIDE DEF n
<1>6. op'[o] = n /\ n # Null /\ \A p \in Operations \ {o} : op'[p] = Settled(p)
  BY <1>1, <1>3, NullAssumption DEF AfterPending
<1>7. TypeOK'
  BY <1>1, <1>3, SettledTyped DEF IInv, TypeOK
<1>8. \A p \in Operations \ {o} : Advances(p)
  BY <1>6, SettledAdvances
<1>9. AllShaped'
  BY <1>5, <1>6, <1>8 DEF AllShaped, Advances
<1>10. \A p \in Operations \ {o} : ~Unresolved(p)'
  <2> SUFFICES ASSUME NEW p \in Operations \ {o}, op'[p] # Null, ~op'[p].resolved
               PROVE  FALSE
    BY DEF Unresolved
  <2>1. op[p] # Null /\ ~Settled(p).resolved
    BY <1>6, SettledNull
  <2>2. ~op[p].resolved
    BY <2>1, SettledKeeps DEF IInv
  <2> QED
    BY <1>1, <2>1, <2>2 DEF Pending, Unresolved
<1>11. OneOperationAtATime'
  BY <1>10 DEF OneOperationAtATime
<1>12. \A p \in Operations \ {o} : op'[p] # Null =>
          op[p] # Null /\ Names(op'[p]) = Names(op[p]) /\ r \notin Names(op'[p])
  BY <1>1, <1>6, SettledNull, UnknownIsNew
<1>13. Names(n) = {r}
  BY <1>4 DEF Names
<1>14. RequestRunsOnce'
  <2> SUFFICES ASSUME NEW p \in Operations, NEW q \in Operations, op'[p] # Null, op'[q] # Null,
                      Names(op'[p]) \cap Names(op'[q]) # {}, p # q
               PROVE  FALSE
    BY DEF RequestRunsOnce, Names
  <2>1. CASE p = o \/ q = o
    BY <2>1, <1>6, <1>12, <1>13
  <2>2. CASE p # o /\ q # o
    BY <2>2, <1>12 DEF IInv, RequestRunsOnce, Names
  <2> QED
    BY <2>1, <2>2
<1> QED
  BY <1>7, <1>9, <1>11, <1>14 DEF IInv

\* A coalesced request was unknown, so it names only the operation it joins.
LEMMA CoalesceKeeps ==
    ASSUME IInv, NEW a \in Admins, NEW r \in Requests, NEW target \in Targets,
           Coalesce(a, r, target)
    PROVE  IInv'
<1>1. PICK o \in Pending :
          op' = [AfterPending EXCEPT ![o].aliases = @ \cup {r}]
  BY DEF Coalesce
<1>2. Known(r) = {} /\ UNCHANGED <<host, policy, authorized>>
  BY DEF Coalesce, MayCreate
<1> DEFINE w == [op[o] EXCEPT !.aliases = @ \cup {r}]
<1>3. o \in Operations /\ op[o] # Null /\ ~op[o].resolved /\ Settled(o) = op[o]
  BY SettledKeeps DEF Pending, Unresolved, IInv
<1>4. op[o] \in Operation /\ Shape(op[o])
  BY <1>3 DEF IInv, TypeOK, AllShaped
<1>5. op' = [AfterPending EXCEPT ![o] = w]
  BY <1>1, <1>3 DEF AfterPending
<1>6. w \in Operation
  BY <1>4 DEF Operation
<1>7. /\ w.request = op[o].request /\ w.aliases = op[o].aliases \cup {r}
      /\ w.state = op[o].state /\ w.grant = op[o].grant /\ w.run = op[o].run
      /\ w.resolved = op[o].resolved /\ w.retired = op[o].retired
  BY <1>4 DEF Operation
<1>8. Shape(w)
  BY <1>4, <1>7 DEF Shape
<1> HIDE DEF w
<1>9. op'[o] = w /\ w # Null /\ \A p \in Operations \ {o} : op'[p] = Settled(p)
  BY <1>3, <1>5, <1>6, NullAssumption DEF AfterPending
<1>10. TypeOK'
  BY <1>2, <1>5, <1>6, SettledTyped DEF IInv, TypeOK
<1>11. \A p \in Operations \ {o} : Advances(p)
  BY <1>9, SettledAdvances
<1>12. AllShaped'
  BY <1>8, <1>9, <1>11 DEF AllShaped, Advances
<1>13. OneOperationAtATime'
  <2>1. \A p \in Operations : Unresolved(p)' => Unresolved(p)
    BY <1>3, <1>9, <1>11 DEF Unresolved, Advances
  <2> QED
    BY <2>1 DEF IInv, OneOperationAtATime
<1>14. \A p \in Operations \ {o} : op'[p] # Null =>
          op[p] # Null /\ Names(op'[p]) = Names(op[p]) /\ r \notin Names(op'[p])
  BY <1>2, <1>9, SettledNull, UnknownIsNew
<1>15. Names(w) = Names(op[o]) \cup {r}
  BY <1>7 DEF Names
<1>16. RequestRunsOnce'
  <2> SUFFICES ASSUME NEW p \in Operations, NEW q \in Operations, op'[p] # Null, op'[q] # Null,
                      Names(op'[p]) \cap Names(op'[q]) # {}, p # q
               PROVE  FALSE
    BY DEF RequestRunsOnce, Names
  <2>1. op[p] # Null /\ op[q] # Null
    BY <1>3, <1>14
  <2>2. Names(op[p]) \cap Names(op[q]) = {}
    BY <2>1 DEF IInv, RequestRunsOnce, Names
  <2> QED
    BY <2>2, <1>9, <1>14, <1>15
<1> QED
  BY <1>10, <1>12, <1>13, <1>16 DEF IInv

-----------------------------------------------------------------------------
(* The invariant *)

LEMMA InitEstablishes == Init => IInv
<1> SUFFICES ASSUME Init PROVE IInv
  OBVIOUS
<1>1. TypeOK
  BY BoundAssumption DEF Init, TypeOK, Context
<1>2. \A o \in Operations : op[o] = Null
  BY DEF Init
<1> QED
  BY <1>1, <1>2 DEF IInv, AllShaped, OneOperationAtATime, Unresolved, RequestRunsOnce

LEMMA StepKeeps == IInv /\ [Next]_vars => IInv'
<1> SUFFICES ASSUME IInv, [Next]_vars PROVE IInv'
  OBVIOUS
<1>1. CASE UNCHANGED vars
  BY <1>1 DEF vars, IInv, TypeOK, AllShaped, OneOperationAtATime, Unresolved, RequestRunsOnce
<1>2. ASSUME NEW a \in Admins, NEW r \in Requests, NEW target \in Targets,
             Coalesce(a, r, target) \/ \E o \in Operations : Create(a, r, target, o)
      PROVE  IInv'
  BY <1>2, CoalesceKeeps, CreateKeeps
<1>3. ASSUME NEW a \in Admins, NEW o \in Operations, Cancel(a, o)
      PROVE  IInv'
  BY <1>3, CancelKeeps
<1>4. CASE Look
  BY <1>4, LookKeeps
<1>5. ASSUME NEW revision \in 1..MaxPolicy, NEW paired \in BOOLEAN,
             NEW enabled \in BOOLEAN, NEW daily \in BOOLEAN,
             PublishPolicy(revision, paired, enabled, daily)
      PROVE  IInv'
  BY <1>5, PublishKeeps
<1>6. ASSUME NEW o \in Operations, Start(o) \/ ReceiveRefusal(o) \/ Resolve(o) \/ RunOut(o)
      PROVE  IInv'
  BY <1>6, StartKeeps, RefusalKeeps, ResolveKeeps, RunOutKeeps
<1>7. ASSUME NEW o \in Operations, NEW state \in Results \cup Progress,
             NEW evidence \in Evidence, ReceiveEvent(o, state, evidence)
      PROVE  IInv'
  BY <1>7, EventKeeps
<1>8. CASE Report \/ RestartHost \/ ReopenSession \/ Age \/ \E a \in Admins : ChangeAuthority(a)
  BY <1>8, SurroundingsKeep
<1> QED
  BY <1>1, <1>2, <1>3, <1>4, <1>5, <1>6, <1>7, <1>8 DEF Next

LEMMA Invariance == Spec => []IInv
BY InitEstablishes, StepKeeps, PTL DEF Spec

\* The types of the state hold in every run.
THEOREM RuntimeTypeCorrect == Spec => []TypeOK
<1>1. IInv => TypeOK
  BY DEF IInv
<1> QED
  BY <1>1, Invariance, PTL

\* However calls, late results and restarts interleave, one operation at most
\* holds the slot of the device.
THEOREM OneOperationHoldsTheSlot == Spec => []OneOperationAtATime
<1>1. IInv => OneOperationAtATime
  BY DEF IInv
<1> QED
  BY <1>1, Invariance, PTL

\* A request runs once, however often and however late it is repeated.
THEOREM RequestsRunOnce == Spec => []RequestRunsOnce
<1>1. IInv => RequestRunsOnce
  BY DEF IInv
<1> QED
  BY <1>1, Invariance, PTL

\* Of the operations granted under one control epoch at most one waits for its
\* result: a granted operation without a result holds the slot.
THEOREM OneExecutesAtATime == Spec => []OneExecution
<1>1. IInv => OneExecution
  <2> SUFFICES ASSUME IInv, NEW o \in Operations, NEW p \in Operations,
                      op[o] # Null, op[o].grant # Null, op[o].state \notin Results,
                      op[p] # Null, op[p].grant # Null, op[p].state \notin Results
               PROVE  o = p
    BY DEF OneExecution
  <2>1. Unresolved(o) /\ Unresolved(p)
    BY DEF IInv, AllShaped, Shape, Unresolved
  <2> QED
    BY <2>1 DEF IInv, OneOperationAtATime
<1> QED
  BY <1>1, Invariance, PTL

\* The state of an operation is what was allowed and observed.
THEOREM StatesAreEvidence == Spec => []OutcomeIsEvidence
<1>1. IInv => OutcomeIsEvidence
  BY DEF IInv, AllShaped, Shape, OutcomeIsEvidence
<1> QED
  BY <1>1, Invariance, PTL

-----------------------------------------------------------------------------
(* What no step does *)

\* What a step may do to one operation on file: grant it, once and with the
\* initiator's authority, and give it another result only when it was retired.
GrantedProperly(o) ==
    op'[o].grant # op[o].grant =>
        /\ op[o].grant = Null
        /\ ~op[o].resolved /\ ~op'[o].resolved
        /\ op[o].initiator \in authorized

ResultKept(o) ==
    op[o].resolved /\ op'[o].state # op[o].state =>
        /\ op[o].retired /\ ~op'[o].retired
        /\ op'[o].state \in Results /\ op'[o].resolved

\* Neither pending() nor a step that leaves the operation alone grants or
\* revises anything.
LEMMA PendingRevisesNothing ==
    ASSUME IInv, NEW o \in Operations, op[o] # Null, op'[o] = op[o] \/ op'[o] = Settled(o)
    PROVE  GrantedProperly(o) /\ ResultKept(o)
BY SettledKeeps DEF IInv, GrantedProperly, ResultKept

LEMMA StepRevisesProperly ==
    ASSUME IInv, [Next]_vars, NEW o \in Operations, op[o] # Null
    PROVE  GrantedProperly(o) /\ ResultKept(o)
<1>0. op[o] \in Operation /\ Shape(op[o]) /\ op \in [Operations -> Operation \cup {Null}]
  BY DEF IInv, TypeOK, AllShaped
<1>1. CASE UNCHANGED vars
  BY <1>1, PendingRevisesNothing DEF vars
<1>2. ASSUME NEW a \in Admins, NEW r \in Requests, NEW target \in Targets,
             NEW p \in Operations, Create(a, r, target, p)
      PROVE  GrantedProperly(o) /\ ResultKept(o)
  <2>1. op'[o] = Settled(o)
    BY <1>2 DEF Create, AfterPending
  <2> QED
    BY <2>1, PendingRevisesNothing
<1>3. ASSUME NEW a \in Admins, NEW r \in Requests, NEW target \in Targets,
             Coalesce(a, r, target)
      PROVE  GrantedProperly(o) /\ ResultKept(o)
  <2>1. PICK p \in Pending :
            op' = [AfterPending EXCEPT ![p].aliases = @ \cup {r}]
    BY <1>3 DEF Coalesce
  <2>2. CASE p # o
    <3>1. op'[o] = Settled(o)
      BY <2>1, <2>2 DEF AfterPending
    <3> QED
      BY <3>1, PendingRevisesNothing
  <2>3. CASE p = o
    <3>1. Settled(o) = op[o]
      BY <2>3, SettledKeeps DEF Pending, IInv
    <3>2. op'[o] = [op[o] EXCEPT !.aliases = @ \cup {r}]
      BY <2>1, <2>3, <3>1 DEF AfterPending
    <3>3. op'[o].grant = op[o].grant /\ op'[o].state = op[o].state
      BY <1>0, <3>2 DEF Operation
    <3> QED
      BY <3>3 DEF GrantedProperly, ResultKept
  <2> QED
    BY <2>2, <2>3
<1>4. ASSUME NEW a \in Admins, NEW p \in Operations, Cancel(a, p)
      PROVE  GrantedProperly(o) /\ ResultKept(o)
  <2>1. CASE p # o
    <3>1. op'[o] = Settled(o)
      BY <1>4, <2>1 DEF Cancel, AfterPending
    <3> QED
      BY <3>1, PendingRevisesNothing
  <2>2. CASE p = o
    <3>1. Settled(o) = op[o] /\ ~op[o].resolved
      BY <1>4, <2>2, SettledKeeps DEF Cancel, Cancellable, IInv
    <3>2. op'[o] = [op[o] EXCEPT !.state = "CANCELLED", !.resolved = TRUE]
      BY <1>4, <2>2, <3>1 DEF Cancel, AfterPending
    <3>3. op'[o].grant = op[o].grant
      BY <1>0, <3>2 DEF Operation
    <3> QED
      BY <3>1, <3>3 DEF GrantedProperly, ResultKept
  <2> QED
    BY <2>1, <2>2
<1>5. CASE Look
  BY <1>5, PendingRevisesNothing DEF Look, AfterPending
<1>6. ASSUME NEW revision \in 1..MaxPolicy, NEW paired \in BOOLEAN,
             NEW enabled \in BOOLEAN, NEW daily \in BOOLEAN,
             PublishPolicy(revision, paired, enabled, daily)
      PROVE  GrantedProperly(o) /\ ResultKept(o)
  <2>1. CASE o \in Pending /\ op[o].grant = Null
    <3>1. op'[o] = [op[o] EXCEPT !.state = "REJECTED", !.resolved = TRUE]
      BY <1>6, <2>1 DEF PublishPolicy
    <3>2. op'[o].grant = op[o].grant /\ ~op[o].resolved
      BY <1>0, <2>1, <3>1 DEF Operation, Pending, Unresolved
    <3> QED
      BY <3>2 DEF GrantedProperly, ResultKept
  <2>2. CASE ~(o \in Pending /\ op[o].grant = Null)
    <3>1. op'[o] = Settled(o)
      BY <1>6, <2>2 DEF PublishPolicy
    <3> QED
      BY <3>1, PendingRevisesNothing
  <2> QED
    BY <2>1, <2>2
<1>7. ASSUME NEW p \in Operations, Start(p)
      PROVE  GrantedProperly(o) /\ ResultKept(o)
  <2>1. CASE p # o
    <3>1. op'[o] = op[o]
      BY <1>0, <1>7, <2>1 DEF Start
    <3> QED
      BY <3>1, PendingRevisesNothing
  <2>2. CASE p = o
    <3>1. /\ ~op[o].resolved /\ op[o].grant = Null /\ op[o].initiator \in authorized
          /\ op'[o] = [op[o] EXCEPT !.grant = host, !.state = "START_AUTHORIZED"]
      BY <1>0, <1>7, <2>2 DEF Start, Startable
    <3>2. op'[o].resolved = op[o].resolved
      BY <1>0, <3>1 DEF Operation
    <3> QED
      BY <3>1, <3>2 DEF GrantedProperly, ResultKept
  <2> QED
    BY <2>1, <2>2
<1>8. ASSUME NEW p \in Operations, NEW state \in Results \cup Progress,
             NEW evidence \in Evidence, ReceiveEvent(p, state, evidence)
      PROVE  GrantedProperly(o) /\ ResultKept(o)
  <2>1. CASE p # o
    <3>1. op'[o] = op[o]
      BY <1>0, <1>8, <2>1 DEF ReceiveEvent
    <3> QED
      BY <3>1, PendingRevisesNothing
  <2>2. CASE p = o
    <3>1. /\ Accepts(op[o], state)
          /\ op'[o] = [op[o] EXCEPT !.state = state, !.last = @ + 1, !.retired = FALSE,
                                    !.resolved = state \in Results]
      BY <1>0, <1>8, <2>2 DEF ReceiveEvent
    <3>2. /\ op'[o].grant = op[o].grant /\ op'[o].state = state /\ ~op'[o].retired
          /\ state \in Results => op'[o].resolved
      BY <1>0, <3>1 DEF Operation
    <3> QED
      BY <3>1, <3>2 DEF Accepts, GrantedProperly, ResultKept
  <2> QED
    BY <2>1, <2>2
<1>9. ASSUME NEW p \in Operations, ReceiveRefusal(p) \/ Resolve(p) \/ RunOut(p)
      PROVE  GrantedProperly(o) /\ ResultKept(o)
  <2>1. op'[o].grant = op[o].grant /\ op'[o].state = op[o].state
    BY <1>0, <1>9 DEF ReceiveRefusal, Resolve, RunOut, Operation
  <2> QED
    BY <2>1 DEF GrantedProperly, ResultKept
<1>10. CASE Report \/ RestartHost \/ ReopenSession \/ Age \/ \E a \in Admins : ChangeAuthority(a)
  BY <1>10, PendingRevisesNothing DEF Report, RestartHost, ReopenSession, Age, ChangeAuthority
<1> QED
  BY <1>1, <1>2, <1>3, <1>4, <1>5, <1>6, <1>7, <1>8, <1>9, <1>10 DEF Next

\* A grant is given once, by the leave of that moment, and never taken back.
THEOREM GrantsAreGivenOnce == Spec => GrantedOnce
<1>1. IInv /\ [Next]_vars =>
        [\A o \in Operations : op[o] # Null /\ op'[o].grant # op[o].grant =>
            /\ op[o].grant = Null
            /\ ~op[o].resolved /\ ~op'[o].resolved
            /\ op[o].initiator \in authorized]_vars
  BY StepRevisesProperly DEF GrantedProperly
<1> QED
  BY <1>1, Invariance, PTL DEF Spec, GrantedOnce

\* A result stays, except the unknown one of an operation retired by a restart.
THEOREM ReportedResultsStay == Spec => ResultsStay
<1>1. IInv /\ [Next]_vars =>
        [\A o \in Operations :
            op[o] # Null /\ op[o].resolved /\ op'[o].state # op[o].state =>
                /\ op[o].retired /\ ~op'[o].retired
                /\ op'[o].state \in Results /\ op'[o].resolved]_vars
  BY StepRevisesProperly DEF ResultKept
<1> QED
  BY <1>1, Invariance, PTL DEF Spec, ResultsStay

=============================================================================
