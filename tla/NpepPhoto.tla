----------------------------- MODULE NpepPhoto -----------------------------
(***************************************************************************)
(* The photographs of study sessions: services/npepPhotoService.js, the    *)
(* private store on disk (npepPhotoStore.js) and the job that erases what  *)
(* has expired (npepPhotoMaintenance.js).                                  *)
(*                                                                         *)
(* A photo is a row of NpepStudyPhoto and a file.  An upload admits the    *)
(* row in one transaction and writes the file in another, which holds the  *)
(* school and the row until it commits.  A deletion is a transaction, an   *)
(* unlink and a transaction.  The maintenance is one transaction without   *)
(* the school lock, whose statements wait for locked rows.  The database   *)
(* forgets a transaction that fails, the disk does not.                    *)
(*                                                                         *)
(* Photos have the size one; a lease, its window and its thresholds are    *)
(* part of what makes an upload eligible and are abstracted by `allowed'   *)
(* and `age'.  One school is modelled, so its lock is one.                 *)
(***************************************************************************)
EXTENDS Naturals, FiniteSets

CONSTANTS
    Events,     \* eventIds of captured photos
    Contents,   \* what an upload of an event carries (metadata and bytes)
    Near,       \* pairs of events captured within the cooldown
    Quota,      \* how many photos the school may store
    Handlers,   \* requests served at the same time
    Null

ASSUME EventsAssumption == IsFiniteSet(Events)
ASSUME QuotaAssumption == Quota \in Nat
ASSUME NearAssumption == Near \subseteq Events \X Events
ASSUME NullAssumption == Null \notin Contents \cup Handlers

States == {"Uploading", "Stored", "DeletePending", "Deleted"}

\* A row: its content (digest and storedHash), whether its retention is over
\* (expiresAt) and whether it was received more than five minutes ago.
Photo == [state : States, content : Contents, lapsed : BOOLEAN, overdue : BOOLEAN]

\* An upload and a deletion between two of their steps.
Request == [op : {"upload"}, step : {"encoded", "admitted", "putting", "put"},
            event : Events, content : Contents]
           \cup [op : {"remove"}, step : {"pending", "unlinked"}, event : Events]

\* The maintenance within its transaction: rows its first statement chose,
\* rows it has updated, rows it has locked for deletion and has unlinked.
Maintenance == [step : {"idle", "mark", "unlink"}, chosen : SUBSET Events,
                marked : SUBSET Events, locked : SUBSET Events, gone : SUBSET Events]

Idle == [step |-> "idle", chosen |-> {}, marked |-> {}, locked |-> {}, gone |-> {}]

ASSUME RowAssumption == Null \notin Photo \cup Request

VARIABLES
    photo,      \* the table NpepStudyPhoto as committed
    file,       \* the files of the store
    age,        \* days since an event was captured: 0, 1 or 2 and more
    allowed,    \* the policy and the binding let the device upload
    handler,    \* requests under way
    cleanup,    \* the maintenance
    buried      \* events once marked for deletion (history)

vars == <<photo, file, age, allowed, handler, cleanup, buried>>

TypeOK ==
    /\ photo \in [Events -> Photo \cup {Null}]
    /\ file \in [Events -> Contents \cup {Null}]
    /\ age \in [Events -> 0..2]
    /\ allowed \in BOOLEAN
    /\ handler \in [Handlers -> Request \cup {Null}]
    /\ cleanup \in Maintenance
    /\ buried \in SUBSET Events

Init ==
    /\ photo = [e \in Events |-> Null]
    /\ file = [e \in Events |-> Null]
    /\ age = [e \in Events |-> 0]
    /\ allowed = TRUE
    /\ handler = [h \in Handlers |-> Null]
    /\ cleanup = Idle
    /\ buried = {}

-----------------------------------------------------------------------------
(* Locks *)

\* The publication that holds the school, the device and its row.
Publishing(h) == /\ handler[h] # Null
                 /\ handler[h].op = "upload"
                 /\ handler[h].step \in {"putting", "put"}

SchoolFree == \A h \in Handlers : ~Publishing(h)

\* No transaction under way has changed or locked the row.
RowFree(e) == /\ e \notin cleanup.marked \cup cleanup.locked
              /\ \A h \in Handlers : Publishing(h) => handler[h].event # e

At(h, op, step) == handler[h] # Null /\ handler[h].op = op /\ handler[h].step = step

Goto(h, step) == handler' = [handler EXCEPT ![h].step = step]

Done(h) == handler' = [handler EXCEPT ![h] = Null]

InState(e, states) == photo[e] # Null /\ photo[e].state \in states

-----------------------------------------------------------------------------
(* Upload *)

\* Mutant: a late upload is taken whenever the device is in touch again.
EligibleAlways(e) == allowed

\* eligibleUpload: lease, policy, binding and window stand, and the capture is
\* at most a day ago.
Eligible(e) == allowed /\ age[e] = 0

\* upload(): content checked, eligible, encoded.
BeginUpload(h, e, c) ==
    /\ handler[h] = Null
    /\ Eligible(e)
    /\ handler' = [handler EXCEPT ![h] =
                      [op |-> "upload", step |-> "encoded", event |-> e, content |-> c]]
    /\ UNCHANGED <<photo, file, age, allowed, cleanup, buried>>

\* usage(): the photos of the school that own, or may come to own, bytes.
Usage == {e \in Events : InState(e, {"Uploading", "Stored", "DeletePending"})}

\* Mutant: the row is written before the content is known.
NewPhotoUnchecked(c) == [state |-> "Uploading", content |-> Null, lapsed |-> FALSE, overdue |-> FALSE]

NewPhoto(c) == [state |-> "Uploading", content |-> c, lapsed |-> FALSE, overdue |-> FALSE]

\* The admission of a new event.
Admit(h) ==
    LET e == handler[h].event
    IN  /\ At(h, "upload", "encoded")
        /\ SchoolFree
        /\ Eligible(e)
        /\ photo[e] = Null
        /\ \A n \in Events : photo[n] # Null => {<<e, n>>, <<n, e>>} \cap Near = {}
        /\ Cardinality(Usage) < Quota
        /\ photo' = [photo EXCEPT ![e] = NewPhoto(handler[h].content)]
        /\ Goto(h, "admitted")
        /\ UNCHANGED <<file, age, allowed, cleanup, buried>>

\* The admission of an event that has a row: a retry of the same content.
Readmit(h) ==
    LET e == handler[h].event
    IN  /\ At(h, "upload", "encoded")
        /\ SchoolFree /\ RowFree(e)
        /\ Eligible(e)
        /\ InState(e, {"Uploading", "Stored"})
        /\ photo[e].content = handler[h].content
        /\ IF photo[e].state = "Stored" THEN Done(h) ELSE Goto(h, "admitted")
        /\ UNCHANGED <<photo, file, age, allowed, cleanup, buried>>

\* The publication goes on unless the photo has been deleted meanwhile.
Publishable(e) == InState(e, {"Uploading", "Stored"})

Publish(h) ==
    LET e == handler[h].event
    IN  /\ At(h, "upload", "admitted")
        /\ SchoolFree /\ RowFree(e)
        /\ Eligible(e)
        /\ Publishable(e)
        /\ photo[e].content = handler[h].content
        /\ IF photo[e].state = "Stored" THEN Done(h) ELSE Goto(h, "putting")
        /\ UNCHANGED <<photo, file, age, allowed, cleanup, buried>>

\* put(): a temporary file renamed over the target.
Put(h) ==
    /\ At(h, "upload", "putting")
    /\ file' = [file EXCEPT ![handler[h].event] = handler[h].content]
    /\ Goto(h, "put")
    /\ UNCHANGED <<photo, age, allowed, cleanup, buried>>

CommitStored(h) ==
    /\ At(h, "upload", "put")
    /\ photo' = [photo EXCEPT ![handler[h].event].state = "Stored"]
    /\ Done(h)
    /\ UNCHANGED <<file, age, allowed, cleanup, buried>>

\* The request is refused, fails or dies with its process; what the database
\* has not committed is undone.
Abandon(h) ==
    /\ handler[h] # Null
    /\ Done(h)
    /\ UNCHANGED <<photo, file, age, allowed, cleanup, buried>>

-----------------------------------------------------------------------------
(* Deletion by an administrator *)

\* remove(): whatever its state, the photo is no longer shown.
BeginRemove(h, e) ==
    /\ handler[h] = Null
    /\ SchoolFree /\ RowFree(e)
    /\ photo[e] # Null
    /\ photo' = [photo EXCEPT ![e].state = "DeletePending"]
    /\ buried' = buried \cup {e}
    /\ handler' = [handler EXCEPT ![h] = [op |-> "remove", step |-> "pending", event |-> e]]
    /\ UNCHANGED <<file, age, allowed, cleanup>>

Unlink(h) ==
    /\ At(h, "remove", "pending")
    /\ file' = [file EXCEPT ![handler[h].event] = Null]
    /\ Goto(h, "unlinked")
    /\ UNCHANGED <<photo, age, allowed, cleanup, buried>>

FinishRemove(h) ==
    LET e == handler[h].event
    IN  /\ At(h, "remove", "unlinked")
        /\ SchoolFree /\ RowFree(e)
        /\ photo' = IF photo[e] = Null THEN photo
                    ELSE [photo EXCEPT ![e].state = "Deleted"]
        /\ Done(h)
        /\ UNCHANGED <<file, age, allowed, cleanup, buried>>

-----------------------------------------------------------------------------
(* Maintenance *)

\* Mutant: uploads that never finished are left alone.
DueStored(e) == InState(e, {"Stored"}) /\ photo[e].lapsed

\* Rows that are due for deletion when the first statement looks.
Due(e) == \/ InState(e, {"Stored"}) /\ photo[e].lapsed
          \/ InState(e, {"Uploading"}) /\ photo[e].overdue

BeginCleanup ==
    /\ cleanup = Idle
    /\ cleanup' = [Idle EXCEPT !.step = "mark", !.chosen = {e \in Events : Due(e)}]
    /\ UNCHANGED <<photo, file, age, allowed, handler, buried>>

\* The first statement updates the rows it has chosen, each as soon as it is
\* free, whatever has become of it by then.
Mark(e) ==
    /\ cleanup.step = "mark"
    /\ e \in cleanup.chosen
    /\ RowFree(e)
    /\ cleanup' = [cleanup EXCEPT !.chosen = @ \ {e}, !.marked = @ \cup {e}]
    /\ UNCHANGED <<photo, file, age, allowed, handler, buried>>

\* The second statement locks everything that waits for its deletion.
LockPending ==
    /\ cleanup.step = "mark"
    /\ cleanup.chosen = {}
    /\ cleanup' = [cleanup EXCEPT !.step = "unlink",
                      !.locked = cleanup.marked \cup
                                 {e \in Events : InState(e, {"DeletePending"})}]
    /\ UNCHANGED <<photo, file, age, allowed, handler, buried>>

Remove(e) ==
    /\ cleanup.step = "unlink"
    /\ e \in cleanup.locked \ cleanup.gone
    /\ file' = [file EXCEPT ![e] = Null]
    /\ cleanup' = [cleanup EXCEPT !.gone = @ \cup {e}]
    /\ UNCHANGED <<photo, age, allowed, handler, buried>>

\* Mutant: the row is given up although its file could not be removed.
ErasedAll == cleanup.locked

\* The rows whose file is gone.
Erased == cleanup.gone

\* The tombstones that no upload can come back to.
Forgotten(e) == InState(e, {"Deleted"}) /\ age[e] = 2

\* The commit: what could not be unlinked stays DeletePending.
CommitCleanup ==
    /\ cleanup.step = "unlink"
    /\ photo' = [e \in Events |->
          IF e \in Erased
          THEN IF age[e] = 2 THEN Null ELSE [photo[e] EXCEPT !.state = "Deleted"]
          ELSE IF e \in cleanup.marked THEN [photo[e] EXCEPT !.state = "DeletePending"]
          ELSE IF Forgotten(e) THEN Null ELSE photo[e]]
    /\ buried' = buried \cup cleanup.locked
    /\ cleanup' = Idle
    /\ UNCHANGED <<file, age, allowed, handler>>

RollBackCleanup ==
    /\ cleanup # Idle
    /\ cleanup' = Idle
    /\ UNCHANGED <<photo, file, age, allowed, handler, buried>>

-----------------------------------------------------------------------------
(* Time and policy *)

\* Another day since the capture.
GrowOld(e) ==
    /\ age[e] < 2
    /\ age' = [age EXCEPT ![e] = @ + 1]
    /\ UNCHANGED <<photo, file, allowed, handler, cleanup, buried>>

\* Five minutes have passed since the admission.
Overdue(e) ==
    /\ InState(e, {"Uploading"}) /\ ~photo[e].overdue
    /\ photo' = [photo EXCEPT ![e].overdue = TRUE]
    /\ UNCHANGED <<file, age, allowed, handler, cleanup, buried>>

\* The retention, a day at least, is over.
Lapse(e) ==
    /\ photo[e] # Null /\ ~photo[e].lapsed /\ age[e] # 0
    /\ photo' = [photo EXCEPT ![e].lapsed = TRUE]
    /\ UNCHANGED <<file, age, allowed, handler, cleanup, buried>>

\* Photos are switched off and on, the device is bound elsewhere and back.
ChangePolicy ==
    /\ allowed' = ~allowed
    /\ UNCHANGED <<photo, file, age, handler, cleanup, buried>>

-----------------------------------------------------------------------------

Serve(h) == \/ \E e \in Events, c \in Contents : BeginUpload(h, e, c)
            \/ Admit(h) \/ Readmit(h) \/ Publish(h) \/ Put(h) \/ CommitStored(h)
            \/ \E e \in Events : BeginRemove(h, e)
            \/ Unlink(h) \/ FinishRemove(h)
            \/ Abandon(h)

Maintain == \/ BeginCleanup \/ LockPending \/ CommitCleanup \/ RollBackCleanup
            \/ \E e \in Events : Mark(e) \/ Remove(e)

Environment == \/ \E e \in Events : GrowOld(e) \/ Overdue(e) \/ Lapse(e)
               \/ ChangePolicy

Next == (\E h \in Handlers : Serve(h)) \/ Maintain \/ Environment

Spec == Init /\ [][Next]_vars

\* Requests end, time passes, the maintenance runs every minute, and neither
\* the database nor the disk fails it for ever.
FairSpec == /\ Spec
            /\ \A h \in Handlers : WF_vars(Abandon(h))
            /\ \A e \in Events : WF_vars(Overdue(e)) /\ WF_vars(GrowOld(e))
            /\ WF_vars(BeginCleanup) /\ SF_vars(LockPending) /\ WF_vars(CommitCleanup)
            /\ \A e \in Events : SF_vars(Mark(e)) /\ SF_vars(Remove(e))

-----------------------------------------------------------------------------
(* Properties *)

\* The bytes on disk belong to a row that counts against the quota and are
\* what the row was admitted with; a deleted photo has none left (usage:
\* "DeletePending still owns physical bytes until unlink succeeds").
BytesAreOwned == \A e \in Events : file[e] # Null =>
                     e \in Usage /\ file[e] = photo[e].content

\* The school never stores more than its quota, whatever is being deleted.
QuotaKept == Cardinality({e \in Events : file[e] # Null}) <= Quota

\* What has been marked for deletion is never shown again, by no retry of its
\* upload and after its tombstone has gone ("preventing resurrection").
DeletionStands == \A e \in buried :
                      photo[e] = Null \/ InState(e, {"DeletePending", "Deleted"})

Shown(e) == InState(e, {"Stored"}) /\ ~photo[e].lapsed

\* Bytes nobody may see do not stay: what expired, what was deleted and what
\* an upload left behind is erased in the end.
BytesGo == \A e \in Events :
               file[e] # Null /\ ~Shown(e) ~> file[e] = Null \/ Shown(e)

\* The maintenance deals with "expired data and unfinished uploads"
\* (docs/release-v1.3.0.md): it does not delete a photo that is stored and
\* has not expired.
CleanupSparesStored == \A e \in cleanup.marked : ~Shown(e)
=============================================================================
