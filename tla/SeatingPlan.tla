----------------------------- MODULE SeatingPlan -----------------------------
(***************************************************************************)
(* Seating plans (npepSeatingService.js, npepSeatingRepository.js).        *)
(* Administrators publish, restore and withdraw the plan of a class, and   *)
(* devices of the class upload one.  Every writer names the revision it    *)
(* has seen and a request id, so that a plan it did not see is not         *)
(* replaced and a request that is repeated is answered, not repeated.      *)
(* Each call is one transaction under the lock of the school.              *)
(*                                                                         *)
(* A request id is sent by one writer, with one body.  A device does not   *)
(* name a class: the server takes the class it is bound to now and         *)
(* compares the identity of the device, here the number of its move.       *)
(***************************************************************************)
EXTENDS Integers, FiniteSets, NoValue

CONSTANTS
    Classes,
    Admins,
    Devices,
    Requests,       \* request ids
    Images,
    MaxRevision,    \* bound on the revision
    MaxMove,        \* bound on the moves of a device
    Kept            \* revisions whose image is kept (5)

Writers == Admins \cup Devices
Revisions == 1..MaxRevision
Actions == {"image", "restore", "withdraw"}

\* A row of NpepSeatingVersion; image is Null for a plan that was withdrawn.
Version == [request : Requests, image : Images \cup {Null}, bytes : BOOLEAN]

\* The body of a call, with the class the writer means and the version it saw.
Call == [by : Writers, class : Classes, move : 0..MaxMove, action : Actions,
         expected : 0..MaxRevision, image : Images \cup {Null}, restore : 0..MaxRevision,
         saw : Requests \cup {Null}]

VARIABLES
    versions,       \* of each class
    call,           \* calls that were sent
    answer,         \* the class and revision a call was last answered with
    bound,          \* the class a device is bound to
    moved           \* how often it was moved

seatingVars == <<versions, call, answer, bound, moved>>

SeatingTypeOK ==
    /\ versions \in [Classes -> [Revisions -> Version \cup {Null}]]
    /\ call \in [Requests -> Call \cup {Null}]
    /\ answer \in [Requests -> (Classes \X Revisions) \cup {Null}]
    /\ bound \in [Devices -> Classes]
    /\ moved \in [Devices -> 0..MaxMove]

SeatingInit ==
    /\ versions = [c \in Classes |-> [n \in Revisions |-> Null]]
    /\ call = [r \in Requests |-> Null]
    /\ answer = [r \in Requests |-> Null]
    /\ bound \in [Devices -> Classes]
    /\ moved = [d \in Devices |-> 0]

-----------------------------------------------------------------------------

Made(c) == {n \in Revisions : versions[c][n] # Null}
Newest(c) == Cardinality(Made(c))
CurrentVersion(c) == IF Newest(c) = 0 THEN Null ELSE versions[c][Newest(c)]

\* A writer looks at the plan of a class and decides what to do with it.
Decide(r, w, c, action, image, restore) ==
    /\ call[r] = Null
    /\ w \in Devices => bound[w] = c /\ action = "image"
    /\ (action = "image") = (image # Null)
    /\ (action = "restore") = (restore # 0)
    /\ restore \in Made(c) \cup {0}
    /\ call' = [call EXCEPT ![r] =
          [by |-> w, class |-> c, move |-> IF w \in Devices THEN moved[w] ELSE 0,
           action |-> action, expected |-> Newest(c), image |-> image, restore |-> restore,
           saw |-> IF Newest(c) = 0 THEN Null ELSE CurrentVersion(c).request]]
    /\ UNCHANGED <<versions, answer, bound, moved>>

\* deviceScope and scope: the class a call is about now, if the device is still
\* where it was.
Scope(q) == IF q.by \in Devices THEN bound[q.by] ELSE q.class
InScope(q) == q.by \in Devices => q.move = moved[q.by]

\* Mutant: only the newest version is looked at.
PriorCurrent(r) == {v \in Classes \X Revisions :
                       v[2] = Newest(v[1]) /\ versions[v[1]][v[2]].request = r}

\* repo.request
Prior(r) == {v \in Classes \X Revisions :
                versions[v[1]][v[2]] # Null /\ versions[v[1]][v[2]].request = r}

\* The image a call publishes; restoring needs an image that is still kept.
Bytes(q, c) == CASE q.action = "image" -> q.image
                 [] q.action = "restore" -> versions[c][q.restore].image
                 [] q.action = "withdraw" -> Null

Retained(q, c) == q.action = "restore" =>
                      /\ versions[c][q.restore].image # Null
                      /\ versions[c][q.restore].bytes

\* repo.save: the version, and the images that are too old now.
Saved(c, r, n) ==
    [k \in Revisions |->
        IF k = n THEN [request |-> r, image |-> Bytes(call[r], c), bytes |-> Bytes(call[r], c) # Null]
        ELSE IF versions[c][k] # Null /\ k <= n - Kept
        THEN [versions[c][k] EXCEPT !.bytes = FALSE]
        ELSE versions[c][k]]

\* Mutant: plans nobody saw are replaced.
ExpectedOrOlder(q, c) == q.expected <= Newest(c)

\* The writer has seen the newest plan of the class.
Expected(q, c) == q.expected = Newest(c)

\* publish and upload, first or repeated; a call that fails changes nothing.
Serve(r) ==
    LET q == call[r]
        c == Scope(q)
        n == Newest(c) + 1
    IN  /\ q # Null /\ InScope(q)
        /\ \/ \E v \in Prior(r) :
                 /\ v[1] = c
                 /\ answer' = [answer EXCEPT ![r] = v]
                 /\ UNCHANGED versions
           \/ /\ Prior(r) = {}
              /\ Expected(q, c) /\ n \in Revisions
              /\ Retained(q, c)
              /\ versions' = [versions EXCEPT ![c] = Saved(c, r, n)]
              /\ answer' = [answer EXCEPT ![r] = <<c, n>>]
        /\ UNCHANGED <<call, bound, moved>>

\* The answer is lost; the writer will repeat the call.
Lose(r) ==
    /\ answer[r] # Null
    /\ answer' = [answer EXCEPT ![r] = Null]
    /\ UNCHANGED <<versions, call, bound, moved>>

\* The device's screen is moved to another class.
Move(d, c) ==
    /\ moved[d] < MaxMove /\ bound[d] # c
    /\ bound' = [bound EXCEPT ![d] = c]
    /\ moved' = [moved EXCEPT ![d] = @ + 1]
    /\ UNCHANGED <<versions, call, answer>>

SeatingNext ==
    \/ \E r \in Requests :
          \/ \E w \in Writers, c \in Classes, action \in Actions,
                image \in Images \cup {Null}, restore \in 0..MaxRevision :
                Decide(r, w, c, action, image, restore)
          \/ Serve(r) \/ Lose(r)
    \/ \E d \in Devices, c \in Classes : Move(d, c)

SeatingSpec == SeatingInit /\ [][SeatingNext]_seatingVars

-----------------------------------------------------------------------------
(* Properties.                                                             *)

\* A version replaces the one its writer was looking at, in the class the
\* writer meant, although devices are moved and calls are late or repeated.
ReplacesWhatWasSeen ==
    \A c \in Classes, n \in Revisions : versions[c][n] # Null =>
        LET q == call[versions[c][n].request]
        IN  /\ q.class = c
            /\ q.saw = IF n = 1 THEN Null ELSE versions[c][n - 1].request

\* The version a request has made.
Done == [r \in Requests |-> IF Prior(r) = {} THEN Null ELSE CHOOSE v \in Prior(r) : TRUE]

\* A request makes one version, however often it is repeated, and is answered
\* with that one.
Ledger == INSTANCE RequestLedger WITH
    Results <- Classes \X Revisions,
    done <- Done,
    answered <- answer
LedgerSpec == Ledger!Spec
=============================================================================
