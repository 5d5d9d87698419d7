--------------------------- MODULE SeatingPlanProofs ---------------------------
(***************************************************************************)
(* Proofs about SeatingPlan: a version replaces the one its writer saw, and *)
(* request ids keep the promise of RequestLedger, for every number of      *)
(* classes, writers, requests and revisions.                               *)
(***************************************************************************)
EXTENDS SeatingPlan, FiniteSetTheorems, TLAPS

\* Bounds are numbers, and Null is no row, no call, no request and no answer.
SeatingBounds ==
    /\ MaxRevision \in Nat /\ MaxMove \in Nat /\ Kept \in Nat
    /\ Null \notin Requests
    /\ \A x \in Version \cup Call \cup (Classes \X Revisions) : x # Null

\* The revisions of a class have no gaps.
Unbroken == \A c \in Classes : \E k \in 0..MaxRevision : Made(c) = 1..k

\* What the sender of a call meant stands in the call: a device that was not
\* moved is still in the class, the version it saw is still the one of that
\* number, and what it restores was there.
CallFits(q) ==
    /\ q.by \in Devices => /\ q.move <= moved[q.by]
                           /\ q.move = moved[q.by] => bound[q.by] = q.class
    /\ q.expected <= Newest(q.class)
    /\ q.saw = IF q.expected = 0 THEN Null ELSE versions[q.class][q.expected].request
    /\ q.action = "restore" => q.restore \in Made(q.class)
CallsFit == \A r \in Requests : call[r] # Null => CallFits(call[r])

\* A version was made by a call for its class, that had seen the one before.
VersionsFit ==
    \A c \in Classes, n \in Revisions : versions[c][n] # Null =>
        LET q == call[versions[c][n].request]
        IN  q # Null /\ q.class = c /\ q.expected = n - 1

\* A call was answered with a version it made.
AnswersFit == \A r \in Requests : answer[r] # Null => answer[r] \in Prior(r)

\* The inductive invariant.
SeatingIInv == SeatingTypeOK /\ Unbroken /\ CallsFit /\ VersionsFit /\ AnswersFit

-----------------------------------------------------------------------------
(* Lemmas about revisions and requests.                                    *)

\* The newest revision of a class counts its versions.
LEMMA NewestIs ==
    ASSUME SeatingBounds, NEW c \in Classes, NEW k \in 0..MaxRevision, Made(c) = 1..k
    PROVE  Newest(c) = k
  <1>1. Cardinality(1..k) = IF 1 > k THEN 0 ELSE k - 1 + 1
    BY FS_Interval DEF SeatingBounds
  <1> QED
    BY <1>1 DEF Newest, SeatingBounds

\* The same in the next state.
LEMMA NewestIsNext ==
    ASSUME SeatingBounds, NEW c \in Classes, NEW k \in 0..MaxRevision, Made(c)' = 1..k
    PROVE  Newest(c)' = k
  <1>1. Cardinality(1..k) = IF 1 > k THEN 0 ELSE k - 1 + 1
    BY FS_Interval DEF SeatingBounds
  <1> QED
    BY <1>1 DEF Newest, SeatingBounds

\* An unbroken class was given exactly the revisions up to its newest.
LEMMA MadeIs ==
    ASSUME SeatingBounds, Unbroken, NEW c \in Classes
    PROVE  Newest(c) \in 0..MaxRevision /\ Made(c) = 1..Newest(c)
  <1>1. PICK k \in 0..MaxRevision : Made(c) = 1..k
    BY DEF Unbroken
  <1> QED
    BY <1>1, NewestIs

\* A request has made one version at most, the one after the version its writer
\* had seen.
LEMMA PriorIs ==
    ASSUME SeatingBounds, SeatingTypeOK, VersionsFit, NEW r \in Requests, NEW v \in Prior(r)
    PROVE  /\ v \in Classes \X Revisions /\ call[r] # Null
           /\ v = <<call[r].class, call[r].expected + 1>>
  <1>1. /\ v[1] \in Classes /\ v[2] \in Revisions /\ v = <<v[1], v[2]>>
        /\ versions[v[1]][v[2]] # Null /\ versions[v[1]][v[2]].request = r
    BY DEF Prior
  <1>2. call[r] # Null /\ call[r].class = v[1] /\ call[r].expected = v[2] - 1
    BY <1>1 DEF VersionsFit
  <1> QED
    BY <1>1, <1>2 DEF Prior, Revisions, SeatingBounds

\* A request is answered with the version it made, or with none.
LEMMA DoneIs ==
    ASSUME SeatingBounds, SeatingTypeOK, VersionsFit, NEW r \in Requests
    PROVE  /\ Prior(r) = {} => Done[r] = Null
           /\ \A v \in Prior(r) : Done[r] = v /\ v # Null
  <1>1. Prior(r) = {} => Done[r] = Null
    BY DEF Done
  <1>2. ASSUME NEW v \in Prior(r) PROVE Done[r] = v /\ v # Null
    <2>1. Done[r] = CHOOSE x \in Prior(r) : TRUE
      BY <1>2 DEF Done
    <2>2. Done[r] \in Prior(r)
      BY <1>2, <2>1
    <2>3. Done[r] = <<call[r].class, call[r].expected + 1>> /\ v = <<call[r].class, call[r].expected + 1>>
      BY <1>2, <2>2, PriorIs
    <2>4. v \in Classes \X Revisions
      BY <1>2, PriorIs
    <2> QED
      BY <2>3, <2>4 DEF SeatingBounds
  <1> QED
    BY <1>1, <1>2

-----------------------------------------------------------------------------
(* The invariant is inductive.                                             *)

LEMMA InitHolds == ASSUME SeatingBounds, SeatingInit PROVE SeatingIInv
  <1>1. SeatingTypeOK
    BY DEF SeatingBounds, SeatingInit, SeatingTypeOK
  <1>2. \A c \in Classes : Made(c) = 1..0
    BY DEF SeatingInit, Made, Revisions, SeatingBounds
  <1>3. 0 \in 0..MaxRevision
    BY DEF SeatingBounds
  <1>4. Unbroken
    BY <1>2, <1>3, Zenon DEF Unbroken
  <1>5. CallsFit /\ VersionsFit /\ AnswersFit
    BY DEF SeatingInit, CallsFit, VersionsFit, AnswersFit
  <1> QED
    BY <1>1, <1>4, <1>5 DEF SeatingIInv

\* A step that leaves the versions alone leaves what is counted of them alone.
LEMMA SameVersions ==
    ASSUME versions' = versions
    PROVE  /\ \A c \in Classes : Made(c)' = Made(c) /\ Newest(c)' = Newest(c)
           /\ \A r \in Requests : Prior(r)' = Prior(r)
           /\ Unbroken => Unbroken'
  <1>1. \A c \in Classes : Made(c)' = Made(c)
    BY DEF Made
  <1>2. \A c \in Classes : Newest(c)' = Newest(c)
    BY <1>1 DEF Newest
  <1>3. \A r \in Requests : Prior(r)' = Prior(r)
    BY DEF Prior
  <1> QED
    BY <1>1, <1>2, <1>3 DEF Unbroken

LEMMA DecideHolds ==
    ASSUME SeatingBounds, SeatingIInv, NEW r \in Requests, NEW w \in Writers, NEW c \in Classes,
           NEW action \in Actions, NEW image \in Images \cup {Null}, NEW restore \in 0..MaxRevision,
           Decide(r, w, c, action, image, restore)
    PROVE  SeatingIInv'
  <1> DEFINE q == [by |-> w, class |-> c, move |-> IF w \in Devices THEN moved[w] ELSE 0,
                   action |-> action, expected |-> Newest(c), image |-> image,
                   restore |-> restore,
                   saw |-> IF Newest(c) = 0 THEN Null ELSE versions[c][Newest(c)].request]
  <1>1. /\ call[r] = Null /\ versions' = versions /\ answer' = answer
        /\ bound' = bound /\ moved' = moved
        /\ \A x \in Requests \ {r} : call'[x] = call[x]
    BY DEF Decide, SeatingIInv, SeatingTypeOK
  <1>2. Newest(c) \in 0..MaxRevision /\ Made(c) = 1..Newest(c)
    BY MadeIs DEF SeatingIInv
  <1>3. Newest(c) # 0 => versions[c][Newest(c)] \in Version
    <2>1. Newest(c) # 0 => Newest(c) \in Made(c)
      BY <1>2 DEF SeatingBounds
    <2> QED
      BY <2>1 DEF Made, SeatingIInv, SeatingTypeOK
  <1>4. call' = [call EXCEPT ![r] = q] /\ call'[r] = q
    BY DEF Decide, CurrentVersion, SeatingIInv, SeatingTypeOK
  <1>5. q \in Call
    <2>1. (IF w \in Devices THEN moved[w] ELSE 0) \in 0..MaxMove
      BY DEF SeatingIInv, SeatingTypeOK, SeatingBounds
    <2>2. (IF Newest(c) = 0 THEN Null ELSE versions[c][Newest(c)].request) \in Requests \cup {Null}
      BY <1>3 DEF Version
    <2> QED
      BY <1>2, <2>1, <2>2 DEF Call
  <1>6. SeatingTypeOK'
    BY <1>1, <1>4, <1>5 DEF SeatingIInv, SeatingTypeOK
  <1>7. CallFits(call[r])'
    <2>1. w \in Devices => moved[w] <= moved[w] /\ bound[w] = c
      BY DEF Decide, SeatingIInv, SeatingTypeOK
    <2>2. action = "restore" => restore \in Made(c)
      BY DEF Decide
    <2>3. Newest(c)' = Newest(c) /\ Made(c)' = Made(c)
      BY <1>1, SameVersions
    <2> QED
      BY <1>1, <1>2, <1>4, <2>1, <2>2, <2>3 DEF CallFits
  <1>8. CallsFit'
    <2>1. ASSUME NEW x \in Requests \ {r}, call'[x] # Null PROVE CallFits(call[x])'
      <3>1. call[x] \in Call /\ CallFits(call[x]) /\ call'[x] = call[x]
        BY <1>1, <2>1 DEF SeatingIInv, SeatingTypeOK, CallsFit
      <3>2. Newest(call[x].class)' = Newest(call[x].class) /\ Made(call[x].class)' = Made(call[x].class)
        BY <1>1, <3>1, SameVersions DEF Call
      <3> QED
        BY <1>1, <3>1, <3>2 DEF CallFits
    <2> QED
      BY <1>7, <2>1, Zenon DEF CallsFit
  <1>9. VersionsFit'
    <2>1. ASSUME NEW d \in Classes, NEW n \in Revisions, versions[d][n] # Null
          PROVE  versions[d][n].request \in Requests \ {r}
      BY <1>1, <2>1 DEF SeatingIInv, SeatingTypeOK, VersionsFit, Version
    <2> QED
      BY <1>1, <2>1 DEF VersionsFit, SeatingIInv
  <1>10. AnswersFit' /\ Unbroken'
    BY <1>1, SameVersions DEF AnswersFit, SeatingIInv
  <1> QED
    BY <1>6, <1>8, <1>9, <1>10 DEF SeatingIInv

\* Calls fit as before when only answers change, or a device is moved.
LEMMA MoveHolds ==
    ASSUME SeatingBounds, SeatingIInv, NEW d \in Devices, NEW c \in Classes, Move(d, c)
    PROVE  SeatingIInv'
  <1>1. /\ versions' = versions /\ call' = call /\ answer' = answer
        /\ moved' = [moved EXCEPT ![d] = moved[d] + 1] /\ bound' = [bound EXCEPT ![d] = c]
        /\ moved[d] < MaxMove
    BY DEF Move
  <1>2. SeatingTypeOK'
    BY <1>1 DEF SeatingBounds, SeatingIInv, SeatingTypeOK
  <1>3. ASSUME NEW x \in Requests, call[x] # Null PROVE CallFits(call[x])'
    <2>1. call[x] \in Call /\ CallFits(call[x])
      BY <1>3 DEF SeatingIInv, SeatingTypeOK, CallsFit
    <2>2. Newest(call[x].class)' = Newest(call[x].class) /\ Made(call[x].class)' = Made(call[x].class)
      BY <1>1, <2>1, SameVersions DEF Call
    <2>3. call[x].by \in Devices =>
             /\ call[x].move <= moved'[call[x].by]
             /\ call[x].move = moved'[call[x].by] => bound'[call[x].by] = call[x].class
      BY <1>1, <2>1 DEF CallFits, Call, SeatingIInv, SeatingTypeOK
    <2> QED
      BY <1>1, <2>1, <2>2, <2>3 DEF CallFits
  <1>4. CallsFit'
    BY <1>1, <1>3 DEF CallsFit
  <1>5. AnswersFit' /\ Unbroken' /\ VersionsFit'
    BY <1>1, SameVersions DEF AnswersFit, VersionsFit, SeatingIInv
  <1> QED
    BY <1>2, <1>4, <1>5 DEF SeatingIInv

\* Only answers change, to versions that were made.
LEMMA AnswerHolds ==
    ASSUME SeatingBounds, SeatingIInv, UNCHANGED <<versions, call, bound, moved>>,
           NEW r \in Requests, NEW v \in Prior(r) \cup {Null},
           answer' = [answer EXCEPT ![r] = v]
    PROVE  SeatingIInv'
  <1>1. SeatingTypeOK'
    BY DEF SeatingIInv, SeatingTypeOK, Prior
  <1>2. ASSUME NEW x \in Requests, call[x] # Null PROVE CallFits(call[x])'
    <2>1. call[x] \in Call /\ CallFits(call[x])
      BY <1>2 DEF SeatingIInv, SeatingTypeOK, CallsFit
    <2>2. Newest(call[x].class)' = Newest(call[x].class) /\ Made(call[x].class)' = Made(call[x].class)
      BY <2>1, SameVersions DEF Call
    <2> QED
      BY <2>1, <2>2 DEF CallFits
  <1>3. AnswersFit' /\ Unbroken' /\ VersionsFit' /\ CallsFit'
    BY <1>2, SameVersions DEF AnswersFit, VersionsFit, CallsFit, SeatingIInv, SeatingTypeOK
  <1> QED
    BY <1>1, <1>3 DEF SeatingIInv

\* What a call that is served for the first time finds.
First(r) ==
    /\ call[r] # Null /\ InScope(call[r]) /\ Prior(r) = {}
    /\ Expected(call[r], Scope(call[r]))
    /\ Newest(Scope(call[r])) + 1 \in Revisions
    /\ Retained(call[r], Scope(call[r]))

\* The class a device is bound to is the one it meant; the saved rows keep the
\* requests of the versions there were, and add one.
LEMMA SavedIs ==
    ASSUME SeatingBounds, SeatingIInv, NEW r \in Requests, First(r),
           NEW c, NEW n, c = Scope(call[r]), n = Newest(c) + 1
    PROVE  /\ call[r] \in Call /\ c = call[r].class /\ c \in Classes
           /\ call[r].expected = n - 1 /\ n \in Revisions /\ Made(c) = 1..(n - 1)
           /\ Saved(c, r, n) \in [Revisions -> Version \cup {Null}]
           /\ Saved(c, r, n)[n] # Null /\ Saved(c, r, n)[n].request = r
           /\ \A k \in Revisions \ {n} :
                 /\ Saved(c, r, n)[k] # Null <=> versions[c][k] # Null
                 /\ versions[c][k] # Null => Saved(c, r, n)[k].request = versions[c][k].request
  <1>1. call[r] \in Call /\ CallFits(call[r])
    BY DEF First, SeatingIInv, SeatingTypeOK, CallsFit
  <1>2. c = call[r].class /\ c \in Classes
    BY <1>1 DEF First, InScope, Scope, CallFits, Call
  <1>3. n \in Revisions /\ call[r].expected = n - 1 /\ Newest(c) = n - 1
    BY <1>1, <1>2, MadeIs DEF First, Expected, SeatingIInv, SeatingBounds
  <1>4. Made(c) = 1..(n - 1)
    BY <1>2, <1>3, MadeIs DEF SeatingIInv
  <1>5. Bytes(call[r], c) \in Images \cup {Null}
    <2>1. CASE call[r].action = "image"
      BY <1>1, <2>1 DEF Bytes, Call
    <2>2. CASE call[r].action = "restore"
      <3>1. versions[c][call[r].restore] \in Version
        BY <1>1, <1>2, <2>2 DEF CallFits, Made, SeatingIInv, SeatingTypeOK
      <3> QED
        BY <2>2, <3>1 DEF Bytes, Version
    <2>3. CASE call[r].action = "withdraw"
      BY <2>3 DEF Bytes
    <2> QED
      BY <1>1, <2>1, <2>2, <2>3 DEF Call, Actions
  <1> DEFINE new == [request |-> r, image |-> Bytes(call[r], c), bytes |-> Bytes(call[r], c) # Null]
  <1>6. new \in Version /\ new # Null /\ new.request = r
    BY <1>5 DEF Version, SeatingBounds
  <1>7. Saved(c, r, n)[n] = new
    BY <1>3 DEF Saved
  <1>8. ASSUME NEW k \in Revisions \ {n}
        PROVE  /\ Saved(c, r, n)[k] \in Version \cup {Null}
               /\ Saved(c, r, n)[k] # Null <=> versions[c][k] # Null
               /\ versions[c][k] # Null => Saved(c, r, n)[k].request = versions[c][k].request
    <2>1. versions[c][k] \in Version \cup {Null}
      BY <1>2, <1>8 DEF SeatingIInv, SeatingTypeOK
    <2>2. CASE versions[c][k] # Null /\ k <= n - Kept
      <3>1. Saved(c, r, n)[k] = [versions[c][k] EXCEPT !.bytes = FALSE]
        BY <1>8, <2>2 DEF Saved
      <3>2. Saved(c, r, n)[k] \in Version /\ Saved(c, r, n)[k].request = versions[c][k].request
        BY <2>1, <2>2, <3>1 DEF Version
      <3> QED
        BY <2>2, <3>2 DEF SeatingBounds
    <2>3. CASE ~(versions[c][k] # Null /\ k <= n - Kept)
      <3>1. Saved(c, r, n)[k] = versions[c][k]
        BY <1>8, <2>3 DEF Saved
      <3> QED
        BY <2>1, <3>1
    <2> QED
      BY <2>2, <2>3
  <1>9. Saved(c, r, n) \in [Revisions -> Version \cup {Null}]
    BY <1>6, <1>7, <1>8 DEF Saved
  <1> QED
    BY <1>1, <1>2, <1>3, <1>4, <1>6, <1>7, <1>8, <1>9

\* The version is made and answered.
Makes(r, c, n) ==
    /\ versions' = [versions EXCEPT ![c] = Saved(c, r, n)]
    /\ answer' = [answer EXCEPT ![r] = <<c, n>>]
    /\ UNCHANGED <<call, bound, moved>>

\* It is the only version that is new, and the only one of its request.
LEMMA MakesIs ==
    ASSUME SeatingBounds, SeatingIInv, NEW r \in Requests, First(r),
           NEW c, NEW n, c = Scope(call[r]), n = Newest(c) + 1, Makes(r, c, n)
    PROVE  /\ \A d \in Classes, k \in Revisions : <<d, k>> # <<c, n>> =>
                 /\ versions'[d][k] # Null <=> versions[d][k] # Null
                 /\ versions[d][k] # Null => versions'[d][k].request = versions[d][k].request
           /\ versions[c][n] = Null /\ versions'[c][n] # Null /\ versions'[c][n].request = r
           /\ Made(c)' = 1..n /\ Newest(c)' = n
           /\ \A d \in Classes \ {c} : Made(d)' = Made(d) /\ Newest(d)' = Newest(d)
           /\ Prior(r)' = {<<c, n>>}
           /\ \A x \in Requests \ {r} : Prior(x)' = Prior(x)
  <1>1. /\ call[r] \in Call /\ c = call[r].class /\ c \in Classes
        /\ call[r].expected = n - 1 /\ n \in Revisions /\ Made(c) = 1..(n - 1)
    BY SavedIs
  <1>2. /\ Saved(c, r, n) \in [Revisions -> Version \cup {Null}]
        /\ Saved(c, r, n)[n] # Null /\ Saved(c, r, n)[n].request = r
        /\ \A k \in Revisions \ {n} :
              /\ Saved(c, r, n)[k] # Null <=> versions[c][k] # Null
              /\ versions[c][k] # Null => Saved(c, r, n)[k].request = versions[c][k].request
    BY SavedIs
  <1>3. versions'[c] = Saved(c, r, n) /\ \A d \in Classes \ {c} : versions'[d] = versions[d]
    BY <1>1 DEF Makes, SeatingIInv, SeatingTypeOK
  <1>4. \A d \in Classes, k \in Revisions : <<d, k>> # <<c, n>> =>
                 /\ versions'[d][k] # Null <=> versions[d][k] # Null
                 /\ versions[d][k] # Null => versions'[d][k].request = versions[d][k].request
    BY <1>1, <1>2, <1>3
  <1>5. versions[c][n] = Null
    <2>1. n \in Nat /\ n \notin 1..(n - 1)
      BY <1>1 DEF Revisions
    <2>2. n \notin Made(c)
      BY <1>1, <2>1
    <2> QED
      BY <1>1, <2>2 DEF Made
  <1>6. versions'[c][n] # Null /\ versions'[c][n].request = r
    BY <1>2, <1>3
  <1>7. Made(c)' = 1..n /\ Newest(c)' = n
    <2>1. Made(c)' = Made(c) \cup {n}
      BY <1>1, <1>4, <1>6 DEF Made
    <2>2. n \in 0..MaxRevision /\ 1..n = (1..(n - 1)) \cup {n}
      BY <1>1 DEF Revisions
    <2>3. Made(c)' = 1..n
      BY <1>1, <2>1, <2>2
    <2> QED
      BY <1>1, <2>2, <2>3, NewestIsNext
  <1>8. ASSUME NEW d \in Classes \ {c} PROVE Made(d)' = Made(d) /\ Newest(d)' = Newest(d)
    <2>1. Made(d)' = Made(d)
      BY <1>3 DEF Made
    <2> QED
      BY <2>1 DEF Newest
  <1>9. Prior(r)' = {<<c, n>>}
    <2>1. ASSUME NEW d \in Classes, NEW k \in Revisions, <<d, k>> # <<c, n>>
          PROVE  ~(versions'[d][k] # Null /\ versions'[d][k].request = r)
      <3>1. <<d, k>> \notin Prior(r)
        BY DEF First
      <3>2. ~(versions[d][k] # Null /\ versions[d][k].request = r)
        BY <3>1 DEF Prior
      <3> QED
        BY <1>4, <2>1, <3>2
    <2>2. \A v \in Classes \X Revisions :
            (versions'[v[1]][v[2]] # Null /\ versions'[v[1]][v[2]].request = r) <=> v = <<c, n>>
      BY <1>6, <2>1
    <2>3. <<c, n>> \in Classes \X Revisions
      BY <1>1
    <2> QED
      BY <2>2, <2>3 DEF Prior
  <1>10. ASSUME NEW x \in Requests \ {r} PROVE Prior(x)' = Prior(x)
    <2>1. ASSUME NEW v \in Classes \X Revisions
          PROVE  (versions'[v[1]][v[2]] # Null /\ versions'[v[1]][v[2]].request = x)
                    <=> (versions[v[1]][v[2]] # Null /\ versions[v[1]][v[2]].request = x)
      <3>1. CASE v = <<c, n>>
        BY <1>1, <1>5, <1>6, <1>10, <3>1
      <3>2. CASE v # <<c, n>>
        BY <1>4, <2>1, <3>2
      <3> QED
        BY <3>1, <3>2
    <2> QED
      BY <2>1 DEF Prior
  <1> QED
    BY <1>4, <1>5, <1>6, <1>7, <1>8, <1>9, <1>10

LEMMA MakesHolds ==
    ASSUME SeatingBounds, SeatingIInv, NEW r \in Requests, First(r),
           NEW c, NEW n, c = Scope(call[r]), n = Newest(c) + 1, Makes(r, c, n)
    PROVE  SeatingIInv'
  <1>1. /\ call[r] \in Call /\ c = call[r].class /\ c \in Classes
        /\ call[r].expected = n - 1 /\ n \in Revisions
        /\ Saved(c, r, n) \in [Revisions -> Version \cup {Null}]
    BY SavedIs
  <1>2. /\ \A d \in Classes, k \in Revisions : <<d, k>> # <<c, n>> =>
                 /\ versions'[d][k] # Null <=> versions[d][k] # Null
                 /\ versions[d][k] # Null => versions'[d][k].request = versions[d][k].request
        /\ versions'[c][n] # Null /\ versions'[c][n].request = r /\ versions[c][n] = Null
    BY MakesIs
  <1>3. /\ Made(c)' = 1..n /\ Newest(c)' = n
        /\ \A d \in Classes \ {c} : Made(d)' = Made(d) /\ Newest(d)' = Newest(d)
        /\ Prior(r)' = {<<c, n>>}
        /\ \A x \in Requests \ {r} : Prior(x)' = Prior(x)
    BY MakesIs
  <1>4. SeatingTypeOK'
    BY <1>1 DEF Makes, SeatingIInv, SeatingTypeOK
  <1>5. Unbroken'
    <2>1. n \in 0..MaxRevision
      BY <1>1 DEF Revisions
    <2>2. \A d \in Classes \ {c} : \E k \in 0..MaxRevision : Made(d)' = 1..k
      BY <1>3 DEF SeatingIInv, Unbroken
    <2> QED
      BY <1>3, <2>1, <2>2 DEF Unbroken
  <1>6. ASSUME NEW x \in Requests, call[x] # Null PROVE CallFits(call[x])'
    <2> PICK q : q = call[x]
      OBVIOUS
    <2>1. q \in Call /\ CallFits(q) /\ call'[x] = q
      BY <1>6 DEF Makes, SeatingIInv, SeatingTypeOK, CallsFit
    <2>2. q.class \in Classes /\ q.expected \in 0..MaxRevision
      BY <2>1 DEF Call
    <2>3. Newest(q.class) \in 0..MaxRevision /\ Made(q.class) = 1..Newest(q.class)
      BY <2>2, MadeIs DEF SeatingIInv
    <2>4. Newest(q.class) <= Newest(q.class)' /\ Made(q.class) \subseteq Made(q.class)'
          /\ Newest(q.class)' \in 0..MaxRevision
      <3>1. CASE q.class = c
        <4>1. Newest(c) = n - 1 /\ n \in 1..MaxRevision
          BY <1>1, <2>3, <3>1 DEF Revisions
        <4>2. 1..(n - 1) \subseteq 1..n
          BY <4>1
        <4> QED
          BY <1>3, <2>3, <3>1, <4>1, <4>2
      <3>2. CASE q.class # c
        BY <1>3, <2>2, <2>3, <3>2
      <3> QED
        BY <3>1, <3>2
    <2>5. q.expected # 0 => versions'[q.class][q.expected].request = versions[q.class][q.expected].request
      <3>1. ASSUME q.expected # 0 PROVE q.expected \in Made(q.class)
        BY <2>1, <2>2, <2>3, <3>1 DEF CallFits
      <3>2. ASSUME q.expected # 0 PROVE <<q.class, q.expected>> # <<c, n>>
        <4>1. n \notin Made(c)
          BY <1>2 DEF Made
        <4> QED
          BY <3>1, <3>2, <4>1
      <3> QED
        BY <1>2, <2>2, <3>1, <3>2 DEF Made
    <2>6. q.expected <= Newest(q.class)'
      BY <2>1, <2>2, <2>3, <2>4 DEF CallFits
    <2>7. CallFits(q)'
      BY <2>1, <2>4, <2>5, <2>6 DEF CallFits, Makes
    <2> QED
      BY <2>1, <2>7
  <1>7. CallsFit'
    BY <1>6 DEF CallsFit, Makes
  <1>8. VersionsFit'
    <2>1. ASSUME NEW d \in Classes, NEW k \in Revisions, versions'[d][k] # Null
          PROVE  /\ call[versions'[d][k].request] # Null
                 /\ call[versions'[d][k].request].class = d
                 /\ call[versions'[d][k].request].expected = k - 1
      <3>1. CASE <<d, k>> = <<c, n>>
        BY <1>1, <1>2, <3>1 DEF First
      <3>2. CASE <<d, k>> # <<c, n>>
        BY <1>2, <2>1, <3>2 DEF SeatingIInv, VersionsFit
      <3> QED
        BY <3>1, <3>2
    <2> QED
      BY <2>1 DEF VersionsFit, Makes
  <1>9. AnswersFit'
    <2>1. answer'[r] = <<c, n>> /\ \A x \in Requests \ {r} : answer'[x] = answer[x]
      BY <1>1 DEF Makes, SeatingIInv, SeatingTypeOK
    <2> QED
      BY <1>3, <2>1 DEF AnswersFit, SeatingIInv
  <1> QED
    BY <1>4, <1>5, <1>7, <1>8, <1>9 DEF SeatingIInv

\* A call is answered as before, or makes a version.
LEMMA ServeIs ==
    ASSUME NEW r \in Requests, Serve(r)
    PROVE  \/ /\ UNCHANGED <<versions, call, bound, moved>>
              /\ \E v \in Prior(r) : answer' = [answer EXCEPT ![r] = v]
           \/ First(r) /\ Makes(r, Scope(call[r]), Newest(Scope(call[r])) + 1)
  BY DEF Serve, First, Makes

LEMMA StepHolds == ASSUME SeatingBounds, SeatingIInv, [SeatingNext]_seatingVars PROVE SeatingIInv'
  <1>1. ASSUME NEW r \in Requests, NEW w \in Writers, NEW c \in Classes, NEW action \in Actions,
               NEW image \in Images \cup {Null}, NEW restore \in 0..MaxRevision,
               Decide(r, w, c, action, image, restore)
        PROVE  SeatingIInv'
    BY <1>1, DecideHolds
  <1>2. ASSUME NEW r \in Requests, Serve(r) PROVE SeatingIInv'
    <2>1. CASE First(r) /\ Makes(r, Scope(call[r]), Newest(Scope(call[r])) + 1)
      BY <2>1, MakesHolds
    <2>2. CASE /\ UNCHANGED <<versions, call, bound, moved>>
               /\ \E v \in Prior(r) : answer' = [answer EXCEPT ![r] = v]
      BY <2>2, AnswerHolds
    <2> QED
      BY <1>2, <2>1, <2>2, ServeIs
  <1>3. ASSUME NEW r \in Requests, Lose(r) PROVE SeatingIInv'
    BY <1>3, AnswerHolds DEF Lose
  <1>4. ASSUME NEW d \in Devices, NEW c \in Classes, Move(d, c) PROVE SeatingIInv'
    BY <1>4, MoveHolds
  <1>5. CASE UNCHANGED seatingVars
    <2>1. CallsFit'
      <3>1. ASSUME NEW x \in Requests, call[x] # Null PROVE CallFits(call[x])'
        <4>1. call[x] \in Call /\ CallFits(call[x])
          BY <3>1 DEF SeatingIInv, SeatingTypeOK, CallsFit
        <4>2. Newest(call[x].class)' = Newest(call[x].class) /\ Made(call[x].class)' = Made(call[x].class)
          BY <1>5, <4>1, SameVersions DEF Call, seatingVars
        <4> QED
          BY <1>5, <4>1, <4>2 DEF CallFits, seatingVars
      <3> QED
        BY <1>5, <3>1 DEF CallsFit, seatingVars
    <2> QED
      BY <1>5, <2>1, SameVersions
      DEF seatingVars, SeatingIInv, SeatingTypeOK, VersionsFit, AnswersFit
  <1> QED
    BY <1>1, <1>2, <1>3, <1>4, <1>5, Zenon DEF SeatingNext

LEMMA Invariance == ASSUME SeatingBounds PROVE SeatingSpec => []SeatingIInv
  <1>1. SeatingInit => SeatingIInv
    BY InitHolds
  <1>2. SeatingIInv /\ [SeatingNext]_seatingVars => SeatingIInv'
    BY StepHolds
  <1> QED
    BY <1>1, <1>2, PTL DEF SeatingSpec

-----------------------------------------------------------------------------
(* What follows.                                                           *)

\* Versions, calls, answers and devices keep their types.
THEOREM SeatingTypeCorrect == ASSUME SeatingBounds PROVE SeatingSpec => []SeatingTypeOK
  <1>1. SeatingIInv => SeatingTypeOK
    BY DEF SeatingIInv
  <1> QED
    BY Invariance, <1>1, PTL

\* A version replaces the one its writer was looking at, in the class the writer
\* meant: the number it sends says which one it saw, since versions are never
\* changed, and a device that was moved is refused.
THEOREM SeenIsReplaced == ASSUME SeatingBounds PROVE SeatingSpec => []ReplacesWhatWasSeen
  <1>1. ASSUME SeatingIInv PROVE ReplacesWhatWasSeen
    <2>1. ASSUME NEW c \in Classes, NEW n \in Revisions, versions[c][n] # Null
          PROVE  /\ call[versions[c][n].request].class = c
                 /\ call[versions[c][n].request].saw =
                       IF n = 1 THEN Null ELSE versions[c][n - 1].request
      <3> DEFINE q == call[versions[c][n].request]
      <3>1. versions[c][n].request \in Requests
        BY <1>1, <2>1 DEF SeatingIInv, SeatingTypeOK, Version
      <3>2. q # Null /\ q.class = c /\ q.expected = n - 1
        BY <1>1, <2>1 DEF SeatingIInv, VersionsFit
      <3>3. CallFits(q)
        BY <1>1, <3>1, <3>2 DEF SeatingIInv, CallsFit
      <3>4. n \in Int /\ (n - 1 = 0 <=> n = 1)
        BY DEF Revisions
      <3> QED
        BY <3>2, <3>3, <3>4 DEF CallFits
    <2> QED
      BY <2>1, Zenon DEF ReplacesWhatWasSeen
  <1>2. SeatingIInv => ReplacesWhatWasSeen
    BY <1>1
  <1> QED
    BY Invariance, <1>2, PTL

\* The server keeps the promise of RequestLedger: a request makes one version and
\* every answer to it, the first or a later one, is that version.
THEOREM LedgerIsKept == ASSUME SeatingBounds PROVE SeatingSpec => LedgerSpec
  <1>1. SeatingInit => Ledger!Init
    <2>1. ASSUME SeatingInit PROVE Done = [r \in Requests |-> Null]
      <3>1. \A r \in Requests : Prior(r) = {}
        BY <2>1 DEF SeatingInit, Prior
      <3> QED
        BY <3>1 DEF Done
    <2> QED
      BY <2>1 DEF SeatingInit, Ledger!Init
  <1>2. ASSUME SeatingIInv, [SeatingNext]_seatingVars PROVE [Ledger!Next]_<<Done, answer>>
    <2>1. versions' = versions => Done' = Done
      BY DEF Done, Prior
    <2>2. ASSUME NEW r \in Requests, First(r), NEW c, NEW n, c = Scope(call[r]),
                 n = Newest(c) + 1, Makes(r, c, n)
          PROVE  Ledger!Do(r)
      <3> PICK x : x = <<c, n>>
        OBVIOUS
      <3>1. /\ versions[c][n] = Null /\ Prior(r)' = {x}
            /\ \A s \in Requests \ {r} : Prior(s)' = Prior(s)
        BY <1>2, <2>2, MakesIs
      <3>2. c \in Classes /\ n \in Revisions
        BY <1>2, <2>2, SavedIs
      <3>3. answer' = [answer EXCEPT ![r] = x] /\ answer'[r] = x
        BY <1>2, <2>2 DEF Makes, SeatingIInv, SeatingTypeOK
      <3>4. Done[r] = Null
        BY <1>2, <2>2, DoneIs DEF First, SeatingIInv
      <3>5. ASSUME NEW s \in Requests PROVE Done[s] # x
        <4>1. CASE Prior(s) = {}
          BY <1>2, <3>2, <4>1, DoneIs DEF SeatingIInv, SeatingBounds
        <4>2. ASSUME NEW v \in Prior(s) PROVE Done[s] # x
          BY <1>2, <3>1, <4>2, DoneIs DEF SeatingIInv, Prior
        <4> QED
          BY <4>1, <4>2
      <3>6. Done' = [Done EXCEPT ![r] = x]
        <4>1. Done'[r] = CHOOSE v \in Prior(r)' : TRUE
          BY <3>1 DEF Done
        <4>2. ASSUME NEW s \in Requests \ {r} PROVE Done'[s] = Done[s]
          <5>1. Done'[s] = IF Prior(s)' = {} THEN Null ELSE CHOOSE v \in Prior(s)' : TRUE
            BY DEF Done
          <5>2. Prior(s)' = {} => Done'[s] = Null
            BY <5>1
          <5>3. Prior(s)' # {} => Done'[s] \in Prior(s)'
            BY <5>1
          <5>4. Prior(s)' = Prior(s)
            BY <3>1
          <5>5. Prior(s) = {} => Done[s] = Null
            BY <1>2, DoneIs DEF SeatingIInv
          <5>6. \A v \in Prior(s) : Done[s] = v
            BY <1>2, DoneIs DEF SeatingIInv
          <5> QED
            BY <5>2, <5>3, <5>4, <5>5, <5>6
        <4>3. Done'[r] \in Prior(r)'
          BY <3>1, <4>1
        <4>4. Done = [s \in Requests |-> Done[s]] /\ Done' = [s \in Requests |-> Done'[s]]
          BY DEF Done
        <4> QED
          BY <3>1, <4>2, <4>3, <4>4
      <3>7. x \in Ledger!New
        BY <3>2, <3>5 DEF Ledger!New
      <3> QED
        BY <3>3, <3>4, <3>6, <3>7 DEF Ledger!Do
    <2>3. ASSUME NEW r \in Requests, versions' = versions, NEW v \in Prior(r),
                 answer' = [answer EXCEPT ![r] = v]
          PROVE  Ledger!Repeat(r)
      BY <1>2, <2>1, <2>3, DoneIs DEF Ledger!Repeat, SeatingIInv
    <2>4. ASSUME NEW r \in Requests, Serve(r) PROVE Ledger!Next
      BY <2>2, <2>3, <2>4, ServeIs DEF Ledger!Next
    <2>5. ASSUME NEW r \in Requests, Lose(r) PROVE Ledger!Next
      BY <2>1, <2>5 DEF Lose, Ledger!Forget, Ledger!Next
    <2>6. ASSUME NEW r \in Requests, NEW w \in Writers, NEW c \in Classes, NEW action \in Actions,
                 NEW image \in Images \cup {Null}, NEW restore \in 0..MaxRevision,
                 Decide(r, w, c, action, image, restore)
          PROVE  UNCHANGED <<Done, answer>>
      BY <2>1, <2>6 DEF Decide
    <2>7. ASSUME NEW d \in Devices, NEW c \in Classes, Move(d, c) PROVE UNCHANGED <<Done, answer>>
      BY <2>1, <2>7 DEF Move
    <2>8. CASE UNCHANGED seatingVars
      BY <2>1, <2>8 DEF seatingVars
    <2> QED
      BY <1>2, <2>4, <2>5, <2>6, <2>7, <2>8, Zenon DEF SeatingNext
  <1>3. SeatingIInv /\ [SeatingNext]_seatingVars => [Ledger!Next]_<<Done, answer>>
    BY <1>2
  <1> QED
    BY Invariance, <1>1, <1>3, PTL DEF SeatingSpec, LedgerSpec, Ledger!Spec
=============================================================================
