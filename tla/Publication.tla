---------------------------- MODULE Publication ----------------------------
(***************************************************************************)
(* The life of a publication (an assignment or a notice) in                *)
(* services/publicationService.js.  Every write handler runs in two steps: *)
(* it reads the row and validates outside any transaction (Begin...), then *)
(* opens a transaction whose compare-and-swap on the revision column       *)
(* decides whether it commits (Commit...) or is refused (Refuse).  After   *)
(* the commit it broadcasts an event (Announce).  Handlers of several      *)
(* accounts and classroom screens interleave with each other, with the     *)
(* administrator who disables workspaces and rotates screen tokens, and    *)
(* with the cleanup that erases old history bodies.                        *)
(*                                                                         *)
(* Audit columns (author, actor, action, timestamps) are left out, and so  *)
(* are the read and write permissions of accounts, which depend on the     *)
(* organisation: any account may try any operation.  What decides a        *)
(* certification is kept, as Scope.                                        *)
(***************************************************************************)
EXTENDS Naturals, FiniteSets

CONSTANTS
    Ids,                \* publication identifiers the database can hand out
    Handlers,           \* requests the server works on at the same time
    Accounts,           \* teacher and administrator accounts
    Screens,            \* classroom screen bindings
    Workspaces,         \* teaching spaces a publication is targeted at
    Bodies,             \* contents (title, text, dates, priority, subject)
    Reasons,            \* reasons given for the correction of an assignment
    Keys,               \* clientRequestIds of a screen's submission queue
    Types,              \* the publication types that are created
    Operations,         \* the handlers and jobs that are enabled
    Statuses,           \* the statuses inputs ask for
    Patches,            \* the sets of fields an edit names
    Scope,              \* <<account, workspace>>: may certify there
    ScreenWorkspaces,   \* screen -> the workspaces its class records for
    MaxRevision,        \* bound on the revision column
    MaxCredential,      \* bound on the rotations of a screen's token
    Erased,             \* the body of an audit shell
    Null

Revisions == 1..MaxRevision
Credentials == 1..MaxCredential
Fields == {"body", "status", "targets"}
AllTypes == {"ASSIGNMENT", "NOTICE"}
AllOperations == {"create", "clone", "update", "restore", "withdraw", "certify",
                  "screenCreate", "screenUpdate", "screenRestore"}
OtherOperations == {"setWorkspace", "rotateScreen", "setScreenActive", "purge"}

\* What a snapshot holds: one value for all content fields but the reason of the
\* correction (contentJson.correctionReason), that reason, the status and the
\* target workspaces.
Doc == [body: Bodies \cup {Erased}, reason: Reasons \cup {Null},
        status: {"DRAFT", "PUBLISHED", "WITHDRAWN"}, targets: SUBSET Workspaces]

\* A creation request: creationScreenBindingId and creationRequestId.
Key == Screens \X Keys

\* A row of Publication with its PublicationTarget rows.  certifiedBy is Null
\* when isCertified is false.
Publication == [type: AllTypes, doc: Doc, revision: Revisions,
                certifiedBy: Accounts \cup {Null}, key: Key \cup {Null}]

\* A row of PublicationRevision.
Row == [doc: Doc, certifiedBy: Accounts \cup {Null}]

\* A handler between its reads and its transaction: the publication it read,
\* the normalized snapshot it will save and the fields its input named.
Request == [op: AllOperations, by: Accounts \cup Screens, id: Ids \cup {Null},
            expected: Revisions, type: AllTypes,
            existing: Publication \cup {Null}, doc: Doc, named: SUBSET Fields,
            certifiedBy: Accounts \cup {Null}, credential: Credentials,
            key: Key \cup {Null}]

\* A handler between its commit and its broadcast.
Event == [op: {"announce"}, rooms: SUBSET Workspaces, public: BOOLEAN]

ASSUME BoundAssumption == /\ MaxRevision \in Nat \ {0, 1}
                          /\ MaxCredential \in Nat \ {0}
ASSUME NullAssumption == /\ Null \notin Accounts \cup Ids \cup Reasons
                         /\ Null \notin Publication
                         /\ Null \notin Row
                         /\ Null \notin Request
                         /\ Null \notin Event
                         /\ Null \notin Key
ASSUME PrincipalAssumption == Accounts \cap Screens = {}
ASSUME FiniteAssumption == IsFiniteSet(Workspaces)
ASSUME ErasedAssumption == Erased \notin Bodies
ASSUME ChoiceAssumption == /\ Types \subseteq AllTypes
                           /\ Operations \subseteq AllOperations \cup OtherOperations
                           /\ Statuses \subseteq {"DRAFT", "PUBLISHED"}
                           /\ Patches \subseteq SUBSET Fields
                           /\ Scope \subseteq Accounts \X Workspaces
                           /\ ScreenWorkspaces \in [Screens -> SUBSET Workspaces]

VARIABLES
    pub,        \* the table Publication
    history,    \* the table PublicationRevision
    active,     \* the workspaces with isActive
    screen,     \* ClassroomScreenBinding: isActive, and which token is valid
    handler     \* the requests being served

vars == <<pub, history, active, screen, handler>>

TypeOK ==
    /\ pub \in [Ids -> Publication \cup {Null}]
    /\ history \in [Ids -> [Revisions -> Row \cup {Null}]]
    /\ active \in SUBSET Workspaces
    /\ screen \in [Screens -> [enabled: BOOLEAN, credential: Credentials]]
    /\ handler \in [Handlers -> Request \cup Event \cup {Null}]

Init ==
    /\ pub = [id \in Ids |-> Null]
    /\ history = [id \in Ids |-> [r \in Revisions |-> Null]]
    /\ active = Workspaces
    /\ screen = [s \in Screens |-> [enabled |-> TRUE, credential |-> 1]]
    /\ handler = [h \in Handlers |-> Null]

-----------------------------------------------------------------------------
(* Helpers *)

Exists(id) == pub[id] # Null

\* Mutant: an erased body passes the validation.
ValidErased(doc) == /\ doc.status \in {"DRAFT", "PUBLISHED"}
                    /\ doc.targets # {}
                    /\ doc.targets \subseteq active

\* validatePublicationSnapshot on the loaded (active) workspaces: an editable
\* status, at least one target, every target found, and the content in place.
Valid(doc) == /\ doc.status \in {"DRAFT", "PUBLISHED"}
              /\ doc.targets # {}
              /\ doc.targets \subseteq active
              /\ doc.body # Erased

\* withoutCorrection: every snapshot that is validated, and the one a withdrawal
\* makes, comes without the reason of the correction before.
Stripped(doc) == [doc EXCEPT !.reason = Null]

\* What the cleanup leaves of a snapshot: an audit shell without any content.
Shell(doc) == [doc EXCEPT !.body = Erased, !.reason = Null]

InScope(account, targets) == \A w \in targets : <<account, w>> \in Scope

\* Mutant: every account certifies what it saves.
CertificationOfAnyone(account, type, targets) == account

\* Notices are certified by whoever saves them, assignments by an account in
\* charge of every target.
Certification(account, type, targets) ==
    IF type = "NOTICE" \/ InScope(account, targets) THEN account ELSE Null

\* The given fields of one snapshot, the others of another; the reason is in one
\* column with content.
Merge(doc, input, named) ==
    [body    |-> IF "body" \in named THEN input.body ELSE doc.body,
     reason  |-> IF "body" \in named THEN input.reason ELSE doc.reason,
     status  |-> IF "status" \in named THEN input.status ELSE doc.status,
     targets |-> IF "targets" \in named THEN input.targets ELSE doc.targets]

\* Mutant: a rotated token still passes.
ScreenLockEnabled(q) == screen[q.by].enabled

\* The lock every screen transaction takes first: the binding is still enabled
\* and its token is the one the request was authenticated with.
ScreenLock(q) == /\ screen[q.by].enabled
                 /\ screen[q.by].credential = q.credential

\* Mutant: the revision is not compared.
CurrentAny(q) == pub[q.id] # Null

\* updateMany where {id, revision: expectedRevision}
Current(q) == pub[q.id] # Null /\ pub[q.id].revision = q.expected

\* PublicationRevision is unique in (publicationId, revision).
Insertable(id, r) == history[id][r] = Null

Ready(h, op) == handler[h] # Null /\ handler[h].op = op

Serve(h, state) == handler' = [handler EXCEPT ![h] = state]

\* Mutant: only what was public before is announced to the public.
EmitKnown(h, rooms, status, previousStatus) ==
    Serve(h, [op |-> "announce", rooms |-> rooms,
              public |-> previousStatus = "PUBLISHED"])

\* The broadcast after a commit: to the rooms of the given workspaces; sockets
\* that only follow the public feed hear of it when the publication is or was
\* published.
Emit(h, rooms, status, previousStatus) ==
    Serve(h, [op |-> "announce", rooms |-> rooms,
              public |-> "PUBLISHED" \in {status, previousStatus}])

-----------------------------------------------------------------------------
(* First step of a handler: reads and checks outside any transaction *)

Accept(h, request) ==
    /\ handler[h] = Null
    /\ request.op \in Operations
    /\ request.op = "certify" \/ request.expected < MaxRevision
    /\ Serve(h, request)
    /\ UNCHANGED <<pub, history, active, screen>>

NewRequest(op, by, id, expected, existing, doc, named) ==
    [op |-> op, by |-> by, id |-> id, expected |-> expected,
     type |-> IF existing = Null THEN "ASSIGNMENT" ELSE existing.type,
     existing |-> existing, doc |-> doc, named |-> named,
     certifiedBy |-> Null, credential |-> 1, key |-> Null]

\* A client names a revision that some earlier response carried.
SeenRevisions(id) == 1..pub[id].revision

BeginCreate(h, a) ==
    \E type \in Types, doc \in [body: Bodies, reason: {Null}, status: Statuses,
                                targets: SUBSET Workspaces] :
        /\ Valid(doc)
        /\ Accept(h, [NewRequest("create", a, Null, 1, Null, doc, Fields)
                      EXCEPT !.type = type])

\* A draft with the content and the targets of the publication just read (an input
\* that replaces some of them makes it a creation like any other).
BeginClone(h, a, id) ==
    LET doc == [Stripped(pub[id].doc) EXCEPT !.status = "DRAFT"]
    IN  /\ Valid(doc)
        /\ Accept(h, [NewRequest("clone", a, Null, 1, Null, doc, Fields)
                      EXCEPT !.type = pub[id].type])

\* What an input that names some fields can turn a snapshot into: the other
\* fields keep the value that was read, the reason does not.
Edits(doc, named, reasons) ==
    [body:    IF "body" \in named THEN Bodies ELSE {doc.body},
     reason:  reasons,
     status:  IF "status" \in named THEN Statuses ELSE {doc.status},
     targets: IF "targets" \in named THEN SUBSET Workspaces ELSE {doc.targets}]

\* withCorrection: an edit of a published assignment may give a reason.
ReasonsFor(p) ==
    {Null} \cup {r \in Reasons : p.type = "ASSIGNMENT" /\ p.doc.status = "PUBLISHED"}

BeginUpdate(h, a, id, expected) ==
    /\ pub[id].doc.status # "WITHDRAWN"
    /\ \E named \in Patches : \E doc \in Edits(pub[id].doc, named, ReasonsFor(pub[id])) :
          /\ Valid(doc)
          /\ Accept(h, NewRequest("update", a, id, expected, pub[id], doc, named))

\* A withdrawn snapshot is refused, an erased one does not validate.
BeginRestore(h, a, id, expected) ==
    \E source \in Revisions :
        /\ history[id][source] # Null
        /\ Valid(history[id][source].doc)
        /\ Accept(h, NewRequest("restore", a, id, expected, pub[id],
                                Stripped(history[id][source].doc), Fields))

BeginWithdraw(h, a, id, expected) ==
    /\ pub[id].doc.status # "WITHDRAWN"
    /\ Accept(h, NewRequest("withdraw", a, id, expected, pub[id],
                            [Stripped(pub[id].doc) EXCEPT !.status = "WITHDRAWN"], {"status"}))

\* Only the revision the teacher reviewed, by an account in charge of all its
\* targets; one that is certified already is answered without a write.
BeginCertify(h, a, id, expected) ==
    /\ InScope(a, pub[id].doc.targets)
    /\ pub[id].doc.status = "PUBLISHED"
    /\ pub[id].revision = expected
    /\ pub[id].certifiedBy = Null
    /\ Accept(h, NewRequest("certify", a, id, expected, pub[id], pub[id].doc, {}))

ScreenMayWrite(s, targets) == /\ Cardinality(targets) = 1
                              /\ targets \subseteq ScreenWorkspaces[s]

ScreenMayAccess(s, p) == /\ p.doc.status = "PUBLISHED"
                         /\ p.doc.targets \cap ScreenWorkspaces[s] # {}

ScreenAccept(h, s, request) ==
    /\ screen[s].enabled
    /\ Accept(h, [request EXCEPT !.credential = screen[s].credential])

BeginScreenCreate(h, s) ==
    \E body \in Bodies, w \in ScreenWorkspaces[s], k \in Keys \cup {Null} :
        LET doc == [body |-> body, reason |-> Null, status |-> "PUBLISHED", targets |-> {w}]
        IN  /\ Valid(doc)
            /\ ScreenAccept(h, s, [NewRequest("screenCreate", s, Null, 1, Null, doc, Fields)
                                   EXCEPT !.key = IF k = Null THEN Null ELSE <<s, k>>])

\* Saving an assignment several classes share needs its other targets active
\* and keeps to the class's own copy.
BeginScreenUpdate(h, s, id, expected) ==
    /\ pub[id].type = "ASSIGNMENT"
    /\ ScreenMayAccess(s, pub[id])
    /\ \E named \in Patches : \E doc \in Edits(pub[id].doc, named \ {"status"}, {Null}) :
          /\ ScreenMayWrite(s, doc.targets)
          /\ Valid(doc)
          /\ Cardinality(pub[id].doc.targets) > 1 =>
                /\ doc.targets \subseteq pub[id].doc.targets
                /\ pub[id].doc.targets \subseteq active
          /\ ScreenAccept(h, s, NewRequest("screenUpdate", s, id, expected, pub[id], doc,
                                           named \ {"status"}))

\* The restored version will carry the certification its source had when read.
BeginScreenRestore(h, s, id, expected) ==
    /\ pub[id].type = "ASSIGNMENT"
    /\ ScreenMayAccess(s, pub[id])
    /\ ScreenMayWrite(s, pub[id].doc.targets)
    /\ \E source \in Revisions :
          LET row == history[id][source]
          IN  /\ row # Null
              /\ row.doc.status = "PUBLISHED"
              /\ ScreenMayWrite(s, row.doc.targets)
              /\ Valid(row.doc)
              /\ ScreenAccept(h, s,
                     [NewRequest("screenRestore", s, id, expected, pub[id], Stripped(row.doc),
                                 Fields)
                      EXCEPT !.certifiedBy = row.certifiedBy])

-----------------------------------------------------------------------------
(* Second step of a handler: one transaction *)

\* Mutants: the revision counter starts at 0, or at 2 without a first row.
NewPublicationZero(q, certifiedBy) ==
    [type |-> q.type, doc |-> q.doc, revision |-> 0, certifiedBy |-> certifiedBy,
     key |-> q.key]
NewPublicationTwo(q, certifiedBy) ==
    [type |-> q.type, doc |-> q.doc, revision |-> 2, certifiedBy |-> certifiedBy,
     key |-> q.key]

NewPublication(q, certifiedBy) ==
    [type |-> q.type, doc |-> q.doc, revision |-> 1, certifiedBy |-> certifiedBy,
     key |-> q.key]

\* A publication and its first revision.
Create(h, certifiedBy) ==
    LET q == handler[h]
    IN  \E id \in Ids :
            /\ ~Exists(id)
            /\ pub' = [pub EXCEPT ![id] = NewPublication(q, certifiedBy)]
            /\ history' = [history EXCEPT ![id][1] =
                              [doc |-> q.doc, certifiedBy |-> certifiedBy]]
            /\ Emit(h, q.doc.targets, q.doc.status, Null)
            /\ UNCHANGED <<active, screen>>

CommitCreate(h) ==
    LET q == handler[h]
    IN  /\ Ready(h, "create") \/ Ready(h, "clone")
        /\ Create(h, Certification(q.by, q.type, q.doc.targets))

\* Mutant: a withdrawn publication is not found again.
CreatedPublished(key) ==
    {id \in Ids : Exists(id) /\ pub[id].key = key /\ key # Null
                  /\ pub[id].doc.status = "PUBLISHED"}

\* The publication a creation request has made, looked up under its lock.
Created(key) == {id \in Ids : Exists(id) /\ pub[id].key = key /\ key # Null}

CommitScreenCreate(h) ==
    LET q == handler[h]
    IN  /\ Ready(h, "screenCreate")
        /\ ScreenLock(q)
        /\ Created(q.key) = {}
        /\ Create(h, Null)

\* A retry of a creation request is answered with what it created.
Replay(h) ==
    /\ Ready(h, "screenCreate")
    /\ ScreenLock(handler[h])
    /\ Created(handler[h].key) # {}
    /\ Serve(h, Null)
    /\ UNCHANGED <<pub, history, active, screen>>

\* revision: {increment: 1}; in its mutant the column stays.
NextRevisionSame(p) == p.revision
NextRevision(p) == p.revision + 1

\* Mutant: the save goes ahead whatever the revision is.
SaveUnchecked(h, written, certifiedBy) ==
    LET q == handler[h]
        p == pub[q.id]
        r == NextRevision(p)
    IN  /\ r \in Revisions
        /\ pub' = [pub EXCEPT ![q.id] =
                      [p EXCEPT !.doc = Merge(p.doc, q.doc, written),
                                !.revision = r, !.certifiedBy = certifiedBy]]
        /\ history' = [history EXCEPT ![q.id][r] =
                          [doc |-> q.doc, certifiedBy |-> certifiedBy]]
        /\ UNCHANGED <<active, screen>>

\* The next revision of a publication: the columns and target rows written
\* there and then, and the whole snapshot prepared beforehand as its row.  A
\* withdrawal writes no content, so that a reason stays in the publication which
\* its snapshot is without.
Save(h, written, certifiedBy) ==
    LET q == handler[h]
        p == pub[q.id]
    IN  /\ Current(q)
        /\ Insertable(q.id, q.expected + 1)
        /\ pub' = [pub EXCEPT ![q.id] =
                      [p EXCEPT !.doc = Merge(p.doc, q.doc, written),
                                !.revision = NextRevision(p),
                                !.certifiedBy = certifiedBy]]
        /\ history' = [history EXCEPT ![q.id][q.expected + 1] =
                          [doc |-> q.doc, certifiedBy |-> certifiedBy]]
        /\ UNCHANGED <<active, screen>>

\* Mutant: the workspaces it has left are forgotten.
RoomsNow(q) == q.doc.targets

\* A save is announced where the publication was and where it is now.
Rooms(q) == q.existing.doc.targets \cup q.doc.targets

\* Mutant: target rows are never replaced.
UpdatedColumnsOnly(q) == {"body", "status"}

\* Target rows are replaced when the input named targets.
UpdatedColumns(q) == {"body", "status"} \cup (q.named \cap {"targets"})

CommitUpdate(h) ==
    LET q == handler[h]
    IN  /\ Ready(h, "update")
        /\ Save(h, UpdatedColumns(q), Certification(q.by, q.type, q.doc.targets))
        /\ Emit(h, Rooms(q), q.doc.status, q.existing.doc.status)

CommitRestore(h) ==
    LET q == handler[h]
    IN  /\ Ready(h, "restore")
        /\ Save(h, Fields, Certification(q.by, q.type, q.doc.targets))
        /\ Emit(h, Rooms(q), q.doc.status, q.existing.doc.status)

CommitWithdraw(h) ==
    LET q == handler[h]
    IN  /\ Ready(h, "withdraw")
        /\ Save(h, {"status"}, Certification(q.by, q.type, q.doc.targets))
        /\ Emit(h, pub[q.id].doc.targets, "WITHDRAWN", q.existing.doc.status)

\* updateMany where {id, revision: expectedRevision, isCertified: false}; the
\* revision number stays.
CommitCertify(h) ==
    LET q == handler[h]
    IN  /\ Ready(h, "certify")
        /\ Current(q)
        /\ pub[q.id].certifiedBy = Null
        /\ history[q.id][q.expected] # Null
        /\ pub' = [pub EXCEPT ![q.id].certifiedBy = q.by]
        /\ history' = [history EXCEPT ![q.id][q.expected].certifiedBy = q.by]
        /\ Emit(h, pub[q.id].doc.targets, pub[q.id].doc.status, Null)
        /\ UNCHANGED <<active, screen>>

\* What a screen saves is uncertified; in the mutant the certification is kept.
ScreenCertificationKept(q) == q.existing.certifiedBy
ScreenCertification(q) == Null

\* Mutant: an assignment of several classes is saved like any other.
SharedNever(q) == FALSE

Shared(q) == Cardinality(q.existing.doc.targets) > 1

CommitScreenUpdate(h) ==
    LET q == handler[h]
    IN  /\ Ready(h, "screenUpdate")
        /\ ~Shared(q)
        /\ ScreenLock(q)
        /\ Save(h, UpdatedColumns(q), ScreenCertification(q))
        /\ Emit(h, Rooms(q), q.doc.status, q.existing.doc.status)

\* What the original's next row says; in the mutant it still names the class.
RemainingAll(q) == Stripped(q.existing.doc)
Remaining(q) == Stripped([q.existing.doc EXCEPT !.targets = @ \ q.doc.targets])

\* A screen that edits an assignment of several classes takes its class out of
\* it.  The original only loses the target, and keeps the reason that its next
\* row is without; the class gets a copy of its own, with what was read as its
\* first revision and the edit as its second.
CommitSplit(h) ==
    LET q == handler[h]
        p == pub[q.id]
        r == q.expected + 1
        local == Stripped([q.existing.doc EXCEPT !.targets = q.doc.targets])
    IN  /\ Ready(h, "screenUpdate")
        /\ Shared(q)
        /\ ScreenLock(q)
        /\ Current(q)
        /\ q.doc.targets \subseteq p.doc.targets
        /\ Insertable(q.id, r)
        /\ \E fork \in Ids :
              /\ ~Exists(fork)
              /\ pub' = [pub EXCEPT
                    ![q.id] = [p EXCEPT !.doc.targets = @ \ q.doc.targets,
                                        !.revision = NextRevision(p)],
                    ![fork] = [NewPublication(q, ScreenCertification(q)) EXCEPT !.revision = 2]]
              /\ history' = [history EXCEPT
                    ![q.id][r] = [doc |-> Remaining(q), certifiedBy |-> q.existing.certifiedBy],
                    ![fork][1] = [doc |-> local, certifiedBy |-> q.existing.certifiedBy],
                    ![fork][2] = [doc |-> q.doc, certifiedBy |-> ScreenCertification(q)]]
        /\ Emit(h, q.existing.doc.targets, "PUBLISHED", Null)
        /\ UNCHANGED <<active, screen>>

CommitScreenRestore(h) ==
    LET q == handler[h]
    IN  /\ Ready(h, "screenRestore")
        /\ ScreenLock(q)
        /\ Save(h, Fields, q.certifiedBy)
        /\ Emit(h, Rooms(q), q.doc.status, q.existing.doc.status)

\* A request that ends without a write: a revision conflict, a revoked screen,
\* a failed permission check, a database error, or a stop of the process.
Refuse(h) ==
    /\ handler[h] # Null
    /\ handler[h].op # "announce"
    /\ Serve(h, Null)
    /\ UNCHANGED <<pub, history, active, screen>>

Announce(h) ==
    /\ Ready(h, "announce")
    /\ Serve(h, Null)
    /\ UNCHANGED <<pub, history, active, screen>>

-----------------------------------------------------------------------------
(* The administrator and the cleanup *)

\* Mutant: certified versions are erased too.
PurgeableCertified(id, r) ==
    LET row == history[id][r]
    IN  /\ Exists(id) /\ row # Null
        /\ row.doc.body # Erased
        /\ r # pub[id].revision
        /\ pub[id].type = "ASSIGNMENT"
        /\ row.doc.targets # {}
        /\ row.doc.targets \cap active = {}

\* A row older than the retention time that is neither current nor certified,
\* of an assignment all of whose targets are disabled.
Purgeable(id, r) ==
    LET row == history[id][r]
    IN  /\ Exists(id) /\ row # Null
        /\ row.doc.body # Erased
        /\ r # pub[id].revision
        /\ row.certifiedBy = Null
        /\ pub[id].type = "ASSIGNMENT"
        /\ row.doc.targets # {}
        /\ row.doc.targets \cap active = {}

\* Under locks on the publication, the row and the targets, the row becomes an
\* audit shell.
Purge(id, r) ==
    /\ "purge" \in Operations
    /\ Purgeable(id, r)
    /\ history' = [history EXCEPT ![id][r].doc = Shell(@)]
    /\ UNCHANGED <<pub, active, screen, handler>>

SetWorkspaceActive(w) ==
    /\ "setWorkspace" \in Operations
    /\ active' = IF w \in active THEN active \ {w} ELSE active \cup {w}
    /\ UNCHANGED <<pub, history, screen, handler>>

\* Every way of replacing a screen's credentials (or its class) gives it a new
\* token; some enable or disable it at once.
RotateScreen(s) ==
    /\ "rotateScreen" \in Operations
    /\ screen[s].credential < MaxCredential
    /\ \E enabled \in BOOLEAN :
          screen' = [screen EXCEPT ![s] = [enabled |-> enabled, credential |-> @.credential + 1]]
    /\ UNCHANGED <<pub, history, active, handler>>

\* Disabling a screen keeps its token, which is good again when it is enabled.
SetScreenActive(s) ==
    /\ "setScreenActive" \in Operations
    /\ screen' = [screen EXCEPT ![s].enabled = ~@]
    /\ UNCHANGED <<pub, history, active, handler>>

AccountStep(h) ==
    \E a \in Accounts :
        \/ BeginCreate(h, a)
        \/ \E id \in Ids :
              /\ Exists(id)
              /\ \/ BeginClone(h, a, id)
                 \/ \E expected \in SeenRevisions(id) :
                       \/ BeginUpdate(h, a, id, expected)
                       \/ BeginRestore(h, a, id, expected)
                       \/ BeginWithdraw(h, a, id, expected)
                       \/ BeginCertify(h, a, id, expected)

ScreenStep(h) ==
    \E s \in Screens :
        \/ BeginScreenCreate(h, s)
        \/ \E id \in Ids :
              /\ Exists(id)
              /\ \E expected \in SeenRevisions(id) :
                    \/ BeginScreenUpdate(h, s, id, expected)
                    \/ BeginScreenRestore(h, s, id, expected)

Commit(h) ==
    \/ CommitCreate(h)
    \/ CommitUpdate(h)
    \/ CommitRestore(h)
    \/ CommitWithdraw(h)
    \/ CommitCertify(h)
    \/ CommitScreenCreate(h)
    \/ CommitScreenUpdate(h)
    \/ CommitSplit(h)
    \/ CommitScreenRestore(h)

Next ==
    \/ \E h \in Handlers :
          AccountStep(h) \/ ScreenStep(h) \/ Commit(h) \/ Replay(h) \/ Refuse(h) \/ Announce(h)
    \/ \E id \in Ids, r \in Revisions : Purge(id, r)
    \/ \E w \in Workspaces : SetWorkspaceActive(w)
    \/ \E s \in Screens : RotateScreen(s) \/ SetScreenActive(s)

Spec == Init /\ [][Next]_vars

-----------------------------------------------------------------------------
(* Invariants *)

Recorded(id, r) == history[id][r] # Null

\* The revisions of a publication are recorded without a gap up to the current
\* one and never beyond it, so the insertion of the next one cannot hit the
\* unique key (updateMany and publicationRevision.create of every writer).
HistoryContiguous ==
    \A id \in Ids, r \in Revisions :
        Recorded(id, r) <=> Exists(id) /\ r <= pub[id].revision

\* The newest revision row says what the publication itself says, although the
\* row is prepared from reads that preceded the transaction.  Only the reason of
\* an earlier correction, which a withdrawal or a split leaves in the publication,
\* may be missing from the row.
HeadSnapshotAgrees ==
    \A id \in Ids : Exists(id) =>
        history[id][pub[id].revision].doc \in {pub[id].doc, Stripped(pub[id].doc)}

\* The publication and its newest revision carry the same certification
\* (docs/classworks-2-phase-6.md).  It fails when a screen takes its class out
\* of a shared assignment while a teacher certifies it: see the README.
HeadCertificationAgrees ==
    \A id \in Ids : Exists(id) =>
        history[id][pub[id].revision].certifiedBy = pub[id].certifiedBy

\* While its transaction can still commit, what a handler read before it is
\* what the database holds; only a certification may have come in between.
PreReadFresh ==
    \A h \in Handlers :
        LET q == handler[h]
        IN  q # Null /\ q.op # "announce" /\ q.id # Null => 
                /\ Exists(q.id)
                /\ q.existing # Null
                /\ q.existing.type = pub[q.id].type
                /\ q.expected <= q.existing.revision
                /\ q.existing.revision <= pub[q.id].revision
                /\ q.existing.revision = pub[q.id].revision =>
                      /\ q.existing.doc = pub[q.id].doc
                      /\ q.existing.certifiedBy \in {Null, pub[q.id].certifiedBy}

\* Whoever a certified assignment version names is in charge of every target of
\* that version, whichever mix of saves, restores and splits produced it.
CertifiedInScope ==
    \A id \in Ids, r \in Revisions :
        /\ Recorded(id, r)
        /\ history[id][r].certifiedBy # Null
        /\ pub[id].type = "ASSIGNMENT"
        => InScope(history[id][r].certifiedBy, history[id][r].doc.targets)

\* The cleanup only ever erases old uncertified assignment versions, and an
\* erased body never comes back as the content of a publication, not even
\* through a restore that was under way.
ErasedIsHistory ==
    \A id \in Ids : Exists(id) =>
        /\ pub[id].doc.body # Erased
        /\ \A r \in Revisions :
              Recorded(id, r) /\ history[id][r].doc.body = Erased =>
                  /\ r < pub[id].revision
                  /\ history[id][r].certifiedBy = Null
                  /\ pub[id].type = "ASSIGNMENT"

\* A submission of a screen's queue creates one publication, however often it
\* is sent and whatever happened to that publication since.
OnePublicationPerRequest ==
    \A id, jd \in Ids :
        /\ Exists(id) /\ Exists(jd)
        /\ pub[id].key # Null /\ pub[id].key = pub[jd].key
        => id = jd

-----------------------------------------------------------------------------
(* Action properties *)

Committed(h) == /\ handler[h] # Null /\ handler[h].op # "announce"
                /\ handler'[h] # Null /\ handler'[h].op = "announce"

\* A partial edit is merged with what the handler read before the transaction.
\* It still leaves every field it does not name as it is: no concurrent edit of
\* another field is lost (mergedInput in updatePublication and
\* updateScreenPublication).
PatchKeepsOtherFields ==
    [][\A h \in Handlers :
        LET q == handler[h]
        IN  /\ Committed(h)
            /\ q.op \in {"update", "screenUpdate"}
            /\ q.op = "update" \/ ~Shared(q)
            => \A f \in Fields \ q.named : pub'[q.id].doc[f] = pub[q.id].doc[f]]_vars

\* A withdrawn publication stays as it is until an account restores one of its
\* versions: an edit or a screen save that began before the withdrawal does not
\* bring it back.
WithdrawnUntilRestored ==
    [][\A id \in Ids :
        /\ Exists(id) /\ pub[id].doc.status = "WITHDRAWN"
        /\ pub'[id] # pub[id]
        => \E h \in Handlers : Ready(h, "restore") /\ handler[h].id = id]_vars

\* Whether some version with this content, for these targets or more, carries
\* the account's certification.
Vouched(account, doc) ==
    \E id \in Ids, r \in Revisions :
        /\ Recorded(id, r)
        /\ history[id][r].certifiedBy = account
        /\ history[id][r].doc.body = doc.body
        /\ doc.targets \subseteq history[id][r].doc.targets

\* A screen never certifies: what a screen's save records as certified by an
\* account is content that this account has certified before.
ScreenNeverCertifies ==
    [][\A id \in Ids, r \in Revisions :
        LET row == history'[id][r]
        IN  /\ row # Null /\ row.certifiedBy # Null
            /\ ~Recorded(id, r) \/ history[id][r].certifiedBy # row.certifiedBy
            => \/ \E h \in Handlers : Committed(h) /\ handler[h].by = row.certifiedBy
               \/ Vouched(row.certifiedBy, row.doc)]_vars

\* What the classes that a workspace holds are shown: contents of published
\* assignments and notices, with how many publications show each.
Shown(w, body) == {id \in Ids : /\ Exists(id)
                                /\ pub[id].doc.status = "PUBLISHED"
                                /\ pub[id].doc.body = body
                                /\ w \in pub[id].doc.targets}

\* A screen's save changes nothing for a class outside the screen's range, also
\* when it edits an assignment that several classes share.
ScreenKeepsToItsClass ==
    [][\A h \in Handlers :
        Committed(h) /\ handler[h].by \in Screens =>
            \A w \in Workspaces \ ScreenWorkspaces[handler[h].by] :
                \A body \in Bodies : Shown(w, body)' = Shown(w, body)]_vars

\* While a screen is disabled, and once its token has been replaced, no request
\* authenticated with the old token writes, however far it had come.
RevokedScreenIsSilent ==
    [][\A h \in Handlers :
        Committed(h) /\ handler[h].by \in Screens =>
            /\ screen[handler[h].by].enabled
            /\ handler[h].credential = screen[handler[h].by].credential]_vars

-----------------------------------------------------------------------------
(* Refinement *)

\* The rows of PublicationRevision, read as one log of versions per publication.
VersionLog(p, rows) == IF p # Null THEN [r \in 1..p.revision |-> rows[r]] ELSE <<>>
VersionLogs == [id \in Ids |-> VersionLog(pub[id], history[id])]

Log == INSTANCE PublicationLog WITH Versions <- Row, log <- VersionLogs

\* Every handler and the cleanup keep the history an append-only log: saved
\* versions are never overwritten (PublicationRevision).
LogSpec == Log!Spec

=============================================================================
