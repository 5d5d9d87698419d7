------------------------- MODULE PublicationProofs -------------------------
(***************************************************************************)
(* Proofs about Publication and PublicationFeed for every value of their   *)
(* constants.                                                              *)
(*                                                                         *)
(* The inductive invariant IInv says of every publication that it is       *)
(* coherent with its revision rows, and of every request that its first    *)
(* step established what its transaction relies on (Prepared) and that it  *)
(* has not been overtaken unnoticed (PreReadFresh).  VouchIInv adds where  *)
(* a certification a screen passes on comes from, and that a screen's      *)
(* request stays within its class.  Saved, Made, Certified, SplitOff and   *)
(* Purged say what each step does to the tables under IInv; the            *)
(* refinement of PublicationLog and the announcements to the displays are  *)
(* proved from these.                                                      *)
(***************************************************************************)
EXTENDS PublicationFeed, FiniteSetTheorems, Sequences, TLAPS

AccountOps == {"create", "clone", "update", "restore", "withdraw", "certify"}
ScreenOps == {"screenCreate", "screenUpdate", "screenRestore"}
Creations == {"create", "clone", "screenCreate"}

\* A certification of an assignment comes from somebody in charge.
Vouchable(account, type, targets) ==
    account # Null /\ type = "ASSIGNMENT" => InScope(account, targets)

\* What the first step of a handler establishes and its second step relies on.
Prepared(q) ==
    /\ q.op \in AccountOps => q.by \in Accounts
    /\ q.op \in ScreenOps => q.by \in Screens
    /\ q.op # "certify" => q.expected < MaxRevision
    /\ q.op # "screenCreate" => q.key = Null
    /\ q.doc.body # Erased
    /\ q.op \in Creations => q.id = Null
    /\ q.op \notin Creations =>
          /\ q.id # Null
          /\ q.existing # Null
          /\ q.type = q.existing.type
          /\ q.existing.doc.body # Erased
          /\ Vouchable(q.existing.certifiedBy, q.type, q.existing.doc.targets)
    /\ q.op \notin Creations \cup {"restore"} => q.existing.doc.status # "WITHDRAWN"
    /\ q.op \in {"update", "screenUpdate"} =>
          \A f \in Fields \ q.named : q.doc[f] = q.existing.doc[f]
    /\ q.op = "withdraw" => q.doc = [Stripped(q.existing.doc) EXCEPT !.status = "WITHDRAWN"]
    /\ q.op = "certify" => /\ q.existing.revision = q.expected
                           /\ InScope(q.by, q.existing.doc.targets)
    /\ q.op = "screenUpdate" /\ Shared(q) => q.doc.targets \subseteq q.existing.doc.targets
    /\ q.op = "screenRestore" => Vouchable(q.certifiedBy, q.type, q.doc.targets)

RequestsPrepared == \A h \in Handlers : handler[h] \in Request => Prepared(handler[h])

\* A row's snapshot is the publication's, or lacks the reason of a correction.
Agrees(recorded, doc) == recorded \in {doc, Stripped(doc)}

\* A publication and its revision rows.
Coherent(p, rows) ==
    /\ \A r \in Revisions : rows[r] # Null <=> p # Null /\ r <= p.revision
    /\ p # Null =>
          /\ Agrees(rows[p.revision].doc, p.doc)
          /\ p.doc.body # Erased
          /\ Vouchable(p.certifiedBy, p.type, p.doc.targets)
          /\ \A r \in 1..p.revision :
                /\ Vouchable(rows[r].certifiedBy, p.type, rows[r].doc.targets)
                /\ rows[r].doc.body = Erased => /\ rows[r].certifiedBy = Null
                                                /\ p.type = "ASSIGNMENT"

AllCoherent == \A id \in Ids : Coherent(pub[id], history[id])

IInv == /\ TypeOK
        /\ RequestsPrepared
        /\ PreReadFresh
        /\ AllCoherent
        /\ OnePublicationPerRequest

-----------------------------------------------------------------------------
(* The operators of the model *)

\* A handler that is ready for an operation holds a prepared request for it.
LEMMA ReadyIsRequest ==
    ASSUME TypeOK, NEW h \in Handlers, NEW op \in AllOperations, Ready(h, op)
    PROVE  handler[h] \in Request
<1>1. handler[h] \in Request \cup Event
  BY DEF TypeOK, Ready
<1>2. handler[h] \notin Event
  BY DEF Ready, Event, AllOperations
<1> QED
  BY <1>1, <1>2

\* What Certification returns: nobody, or for an assignment somebody in charge.
LEMMA CertificationVouchable ==
    ASSUME NEW account \in Accounts, NEW type, NEW targets
    PROVE  /\ Certification(account, type, targets) \in Accounts \cup {Null}
           /\ Vouchable(Certification(account, type, targets), type, targets)
  BY DEF Certification, Vouchable

\* A request built by a handler's first step is well formed.
LEMMA NewRequestTyped ==
    ASSUME NEW op \in AllOperations, NEW by \in Accounts \cup Screens,
           NEW id \in Ids \cup {Null}, NEW expected \in Revisions,
           NEW existing \in Publication \cup {Null}, NEW doc \in Doc,
           NEW named \in SUBSET Fields
    PROVE  NewRequest(op, by, id, expected, existing, doc, named) \in Request
<1>1. 1 \in Credentials
  BY BoundAssumption DEF Credentials
<1>2. (IF existing = Null THEN "ASSIGNMENT" ELSE existing.type) \in AllTypes
  BY DEF Publication, AllTypes
<1> QED
  BY <1>1, <1>2 DEF NewRequest, Request

\* Without its reason a snapshot says the same.
LEMMA StrippedFacts ==
    ASSUME NEW doc \in Doc
    PROVE  /\ Stripped(doc) \in Doc
           /\ Stripped(doc).body = doc.body
           /\ Stripped(doc).status = doc.status
           /\ Stripped(doc).targets = doc.targets
  BY DEF Stripped, Doc

\* So does a row that agrees with a snapshot.
LEMMA AgreesFacts ==
    ASSUME NEW doc \in Doc, NEW recorded, Agrees(recorded, doc)
    PROVE  /\ recorded \in Doc
           /\ recorded.body = doc.body
           /\ recorded.status = doc.status
           /\ recorded.targets = doc.targets
  BY StrippedFacts DEF Agrees

\* Merging all of a snapshot's fields, or all that differ, gives the snapshot.
LEMMA MergeAgrees ==
    ASSUME NEW old \in Doc, NEW new \in Doc, NEW written \in SUBSET Fields,
           "body" \in written, \A f \in Fields \ written : new[f] = old[f]
    PROVE  Merge(old, new, written) = new
  BY DEF Merge, Doc, Fields

\* What a publication says once a request has saved it: a withdrawal writes the
\* status and no content.
SavedDoc(p, q) ==
    IF q.op = "withdraw" THEN [p.doc EXCEPT !.status = "WITHDRAWN"] ELSE q.doc

\* The columns that a save of a request writes.
Covers(q, written) ==
    /\ q.op = "withdraw" => written = {"status"}
    /\ q.op # "withdraw" => /\ "body" \in written
                            /\ \A f \in Fields \ written : q.doc[f] = q.existing.doc[f]

\* Its columns and the snapshot for its row make a publication that agrees with
\* the row.
LEMMA SavedDocAgrees ==
    ASSUME NEW p, p.doc \in Doc, NEW q, q.doc \in Doc, q.existing.doc = p.doc, Prepared(q),
           NEW written \in SUBSET Fields, Covers(q, written)
    PROVE  /\ Merge(p.doc, q.doc, written) = SavedDoc(p, q)
           /\ SavedDoc(p, q) \in Doc
           /\ Agrees(q.doc, SavedDoc(p, q))
<1>1. CASE q.op = "withdraw"
  <2>1. q.doc = [Stripped(p.doc) EXCEPT !.status = "WITHDRAWN"]
    BY <1>1 DEF Prepared
  <2>2. written = {"status"}
    BY <1>1 DEF Covers
  <2> PICK doc : doc = p.doc /\ doc \in Doc
    OBVIOUS
  <2> DEFINE new == [doc EXCEPT !.status = "WITHDRAWN"]
  <2>3. new \in Doc
    BY DEF Doc
  <2>4. q.doc = Stripped(new)
    BY <2>1 DEF Stripped, Doc
  <2>5. Merge(doc, q.doc, written) = new
    BY <2>1, <2>2 DEF Merge, Stripped, Doc
  <2> QED
    BY <1>1, <2>3, <2>4, <2>5 DEF SavedDoc, Agrees
<1>2. CASE q.op # "withdraw"
  BY <1>2, MergeAgrees DEF SavedDoc, Covers, Agrees
<1> QED
  BY <1>1, <1>2

\* An edit changes the fields it names and no others.
LEMMA EditsKeepOthers ==
    ASSUME NEW old \in Doc, NEW named \in SUBSET Fields,
           NEW reasons \in SUBSET (Reasons \cup {Null}), NEW new \in Edits(old, named, reasons)
    PROVE  new \in Doc /\ \A f \in Fields \ named : new[f] = old[f]
<1>1. /\ old.body \in Bodies \cup {Erased}
      /\ old.status \in {"DRAFT", "PUBLISHED", "WITHDRAWN"}
      /\ old.targets \in SUBSET Workspaces
  BY DEF Doc
<1>2. new = [body |-> new.body, reason |-> new.reason, status |-> new.status,
             targets |-> new.targets]
  BY DEF Edits
<1>3. /\ new.body \in IF "body" \in named THEN Bodies ELSE {old.body}
      /\ new.reason \in reasons
      /\ new.status \in IF "status" \in named THEN Statuses ELSE {old.status}
      /\ new.targets \in IF "targets" \in named THEN SUBSET Workspaces ELSE {old.targets}
  BY DEF Edits
<1>4. new \in Doc
  BY <1>1, <1>2, <1>3, ChoiceAssumption DEF Doc
<1> QED
  BY <1>3, <1>4 DEF Fields, Doc

\* The initial state satisfies the invariant.
LEMMA InitIInv == Init => IInv
<1> SUFFICES ASSUME Init PROVE IInv
  OBVIOUS
<1> USE DEF Init
<1>1. TypeOK
  BY BoundAssumption DEF TypeOK, Credentials, Revisions
<1>2. RequestsPrepared
  BY NullAssumption DEF RequestsPrepared
<1>3. PreReadFresh
  BY DEF PreReadFresh
<1>4. AllCoherent
  BY DEF AllCoherent, Coherent
<1>5. OnePublicationPerRequest
  BY DEF OnePublicationPerRequest, Exists
<1> QED
  BY <1>1, <1>2, <1>3, <1>4, <1>5 DEF IInv

-----------------------------------------------------------------------------
(* Handlers that go on or end: what a change of publications leaves valid *)

\* Publications only move forward: an unchanged revision is an unchanged
\* publication, except that it may have been certified.
Forward ==
    \A id \in Ids : Exists(id) =>
        /\ pub'[id] \in Publication
        /\ pub'[id].type = pub[id].type
        /\ pub[id].revision <= pub'[id].revision
        /\ pub[id].revision = pub'[id].revision =>
              /\ pub'[id].doc = pub[id].doc
              /\ pub[id].certifiedBy \in {Null, pub'[id].certifiedBy}

\* A handler commits, or ends.
Leaves(h) == \E state \in Event \cup {Null} : handler' = [handler EXCEPT ![h] = state]

HandlersTyped == handler \in [Handlers -> Request \cup Event \cup {Null}]

\* Whatever moves the tables forward leaves the requests under way as their first steps prepared them.
LEMMA HandlersForward ==
    ASSUME IInv, Forward, handler' = handler \/ \E h \in Handlers : Leaves(h)
    PROVE  HandlersTyped' /\ RequestsPrepared' /\ PreReadFresh'
<1>1. PICK state \in Event \cup {Null} :
          handler' = handler \/ \E h \in Handlers : handler' = [handler EXCEPT ![h] = state]
  BY DEF Leaves
<1>2. handler \in [Handlers -> Request \cup Event \cup {Null}]
  BY DEF IInv, TypeOK
<1>3. state \notin Request
  BY NullAssumption DEF Event, Request, AllOperations
<1>4. \A g \in Handlers : handler'[g] = handler[g] \/ handler'[g] = state
  BY <1>1, <1>2
<1>5. HandlersTyped'
  BY <1>1, <1>2 DEF HandlersTyped
<1>6. RequestsPrepared'
  BY <1>3, <1>4 DEF IInv, RequestsPrepared
<1>7. PreReadFresh'
  <2> SUFFICES ASSUME NEW g \in Handlers,
                      handler'[g] # Null, handler'[g].op # "announce", handler'[g].id # Null
               PROVE  /\ pub'[handler'[g].id] # Null
                      /\ handler'[g].existing # Null
                      /\ handler'[g].existing.type = pub'[handler'[g].id].type
                      /\ handler'[g].expected <= handler'[g].existing.revision
                      /\ handler'[g].existing.revision <= pub'[handler'[g].id].revision
                      /\ handler'[g].existing.revision = pub'[handler'[g].id].revision =>
                            /\ handler'[g].existing.doc = pub'[handler'[g].id].doc
                            /\ handler'[g].existing.certifiedBy \in
                                  {Null, pub'[handler'[g].id].certifiedBy}
    BY DEF PreReadFresh, Exists
  <2> DEFINE q == handler[g]
  <2>1. handler'[g] = q
    BY <1>4 DEF Event
  <2>2. q \in Request
    BY <2>1, <1>2 DEF Event
  <2>3. q.id \in Ids
    BY <2>1, <2>2 DEF Request
  <2>4. /\ Exists(q.id)
        /\ q.existing # Null
        /\ q.existing.type = pub[q.id].type
        /\ q.expected <= q.existing.revision
        /\ q.existing.revision <= pub[q.id].revision
        /\ q.existing.revision = pub[q.id].revision =>
              /\ q.existing.doc = pub[q.id].doc
              /\ q.existing.certifiedBy \in {Null, pub[q.id].certifiedBy}
    BY <2>1 DEF IInv, PreReadFresh
  <2>5. pub[q.id] \in Publication /\ q.existing \in Publication
    BY <2>2, <2>3, <2>4 DEF IInv, TypeOK, Exists, Request
  <2>6. /\ pub'[q.id] \in Publication
        /\ pub'[q.id].type = pub[q.id].type
        /\ pub[q.id].revision <= pub'[q.id].revision
        /\ pub[q.id].revision = pub'[q.id].revision =>
              /\ pub'[q.id].doc = pub[q.id].doc
              /\ pub[q.id].certifiedBy \in {Null, pub'[q.id].certifiedBy}
    BY <2>3, <2>4 DEF Forward
  <2>7. /\ q.existing.revision \in Nat /\ pub[q.id].revision \in Nat
        /\ pub'[q.id].revision \in Nat
    BY <2>5, <2>6 DEF Publication, Revisions
  <2>8. pub'[q.id] # Null
    BY <2>6, NullAssumption
  <2> QED
    BY <2>1, <2>4, <2>6, <2>7, <2>8
<1> QED
  BY <1>5, <1>6, <1>7

-----------------------------------------------------------------------------
(* The first step of the handlers *)

\* The publication a request names is the one it has just read.
JustRead(q) == q.id # Null => /\ q.id \in Ids
                              /\ Exists(q.id)
                              /\ q.existing = pub[q.id]
                              /\ q.expected <= pub[q.id].revision

\* Taking in a prepared request keeps the invariant.
LEMMA AcceptKeepsIInv ==
    ASSUME IInv, NEW h \in Handlers, NEW q \in Request,
           Accept(h, q), Prepared(q), JustRead(q)
    PROVE  IInv'
<1> USE DEF IInv
<1>1. /\ handler' = [handler EXCEPT ![h] = q]
      /\ UNCHANGED <<pub, history, active, screen>>
  BY DEF Accept, Serve
<1>2. \A g \in Handlers : handler'[g] = IF g = h THEN q ELSE handler[g]
  BY <1>1 DEF TypeOK
<1>3. TypeOK'
  BY <1>1 DEF TypeOK
<1>4. RequestsPrepared'
  BY <1>2 DEF RequestsPrepared
<1>5. PreReadFresh'
  <2>1. ASSUME q.id # Null
        PROVE  q.existing # Null /\ q.existing.revision \in Nat
    BY <2>1 DEF JustRead, Exists, TypeOK, Publication, Revisions
  <2> QED
    BY <1>1, <1>2, <2>1 DEF PreReadFresh, JustRead, Exists
<1>6. AllCoherent' /\ OnePublicationPerRequest'
  BY <1>1 DEF AllCoherent, OnePublicationPerRequest, Exists
<1> QED
  BY <1>3, <1>4, <1>5, <1>6

\* What is known of an existing publication and its rows.
LEMMA PublicationFacts ==
    ASSUME IInv, NEW id \in Ids, Exists(id)
    PROVE  /\ pub[id] \in Publication
           /\ pub[id] # Null
           /\ pub[id].revision \in Revisions
           /\ pub[id].doc \in Doc
           /\ pub[id].type \in AllTypes
           /\ pub[id].doc.body # Erased
           /\ Vouchable(pub[id].certifiedBy, pub[id].type, pub[id].doc.targets)
           /\ \A r \in Revisions : history[id][r] # Null =>
                 /\ history[id][r] \in Row
                 /\ history[id][r].doc \in Doc
                 /\ r \in 1..pub[id].revision
                 /\ Vouchable(history[id][r].certifiedBy, pub[id].type,
                              history[id][r].doc.targets)
<1>1. pub[id] \in Publication /\ pub[id] # Null
  BY DEF IInv, TypeOK, Exists
<1>2. Coherent(pub[id], history[id])
  BY DEF IInv, AllCoherent
<1>3. \A r \in Revisions : history[id][r] \in Row \cup {Null}
  BY DEF IInv, TypeOK
<1>4. \A r \in Revisions : history[id][r] # Null =>
         /\ history[id][r] \in Row
         /\ r \in 1..pub[id].revision
  BY <1>1, <1>2, <1>3 DEF Coherent, Revisions, Publication
<1> QED
  BY <1>1, <1>2, <1>4 DEF Publication, Row, Coherent

\* Inputs that validate are typed and not erased.
LEMMA ValidTyped ==
    ASSUME NEW doc \in Doc, Valid(doc)
    PROVE  doc.body # Erased /\ doc.status # "WITHDRAWN"
  BY DEF Valid

\* The first steps of the handlers of accounts.
LEMMA AccountStepKeepsIInv ==
    ASSUME IInv, NEW h \in Handlers, AccountStep(h)
    PROVE  IInv'
<1> USE DEF AllOperations, Fields, AccountOps, ScreenOps, Creations
<1>0. 1 \in Revisions /\ 1 < MaxRevision
  BY BoundAssumption DEF Revisions
<1>1. PICK a \in Accounts :
         \/ BeginCreate(h, a)
         \/ \E id \in Ids :
               /\ Exists(id)
               /\ \/ BeginClone(h, a, id)
                  \/ \E expected \in SeenRevisions(id) :
                        \/ BeginUpdate(h, a, id, expected)
                        \/ BeginRestore(h, a, id, expected)
                        \/ BeginWithdraw(h, a, id, expected)
                        \/ BeginCertify(h, a, id, expected)
  BY DEF AccountStep
<1>2. CASE BeginCreate(h, a)
  <2>1. PICK type \in Types,
             doc \in [body: Bodies, reason: {Null}, status: Statuses,
                     targets: SUBSET Workspaces] :
           /\ Valid(doc)
           /\ Accept(h, [NewRequest("create", a, Null, 1, Null, doc, Fields)
                         EXCEPT !.type = type])
    BY <1>2 DEF BeginCreate
  <2> DEFINE q == [NewRequest("create", a, Null, 1, Null, doc, Fields) EXCEPT !.type = type]
  <2>2. doc \in Doc /\ type \in AllTypes
    BY ChoiceAssumption DEF Doc
  <2>3. NewRequest("create", a, Null, 1, Null, doc, Fields) \in Request
    BY <1>0, <2>2, NewRequestTyped
  <2>4. q \in Request
    BY <2>2, <2>3 DEF Request
  <2>5. Prepared(q)
    BY <1>0, <2>1, <2>2, ValidTyped DEF Prepared, NewRequest
  <2>6. JustRead(q)
    BY DEF JustRead, NewRequest
  <2> QED
    BY <2>1, <2>4, <2>5, <2>6, AcceptKeepsIInv
<1>3. ASSUME NEW id \in Ids, Exists(id), BeginClone(h, a, id)
      PROVE  IInv'
  <2> DEFINE doc == [Stripped(pub[id].doc) EXCEPT !.status = "DRAFT"]
             n == NewRequest("clone", a, Null, 1, Null, doc, Fields)
             q == [n EXCEPT !.type = pub[id].type]
  <2>1. Valid(doc) /\ Accept(h, q)
    BY <1>3 DEF BeginClone
  <2>2. doc \in Doc /\ pub[id].type \in AllTypes
    <3>1. Stripped(pub[id].doc) \in Doc /\ pub[id].type \in AllTypes
      BY <1>3, PublicationFacts, StrippedFacts
    <3> QED
      BY <3>1 DEF Doc
  <2>3. n \in Request
    BY <1>0, <2>2, NewRequestTyped
  <2>4. q \in Request
    BY <2>2, <2>3 DEF Request
  <2>5. Prepared(q)
    BY <1>0, <2>1, <2>2, ValidTyped DEF Prepared, NewRequest
  <2>6. JustRead(q)
    BY DEF JustRead, NewRequest
  <2> HIDE DEF q
  <2> QED
    BY <2>1, <2>4, <2>5, <2>6, AcceptKeepsIInv
<1>4. ASSUME NEW id \in Ids, Exists(id), NEW expected \in SeenRevisions(id)
      PROVE  /\ expected \in Revisions
             /\ expected <= pub[id].revision
  <2>1. pub[id].revision \in 1..MaxRevision /\ MaxRevision \in Nat
    BY <1>4, PublicationFacts, BoundAssumption DEF Revisions
  <2> QED
    BY <1>4, <2>1 DEF SeenRevisions, Revisions
\* A request that names a publication: everything but the operation's own part.
<1>5. ASSUME NEW id \in Ids, Exists(id), NEW expected \in SeenRevisions(id),
             NEW op \in {"update", "restore", "withdraw", "certify"},
             NEW doc \in Doc, NEW named \in SUBSET Fields,
             Accept(h, NewRequest(op, a, id, expected, pub[id], doc, named)),
             doc.body # Erased,
             op # "restore" => pub[id].doc.status # "WITHDRAWN",
             op = "update" => \A f \in Fields \ named : doc[f] = pub[id].doc[f],
             op = "withdraw" => doc = [Stripped(pub[id].doc) EXCEPT !.status = "WITHDRAWN"],
             op = "certify" => /\ pub[id].revision = expected
                               /\ InScope(a, pub[id].doc.targets)
      PROVE  IInv'
  <2> DEFINE q == NewRequest(op, a, id, expected, pub[id], doc, named)
  <2>1. q \in Request
    BY <1>4, <1>5, PublicationFacts, NewRequestTyped
  <2>2. op # "certify" => expected < MaxRevision
    BY <1>5 DEF Accept, NewRequest
  <2>3. Prepared(q)
    BY <1>5, <2>2, PublicationFacts, NullAssumption DEF Prepared, NewRequest
  <2>4. JustRead(q)
    BY <1>4, <1>5 DEF JustRead, NewRequest
  <2>5. Accept(h, q)
    BY <1>5
  <2> HIDE DEF q
  <2> QED
    BY <2>1, <2>3, <2>4, <2>5, AcceptKeepsIInv
<1>6. ASSUME NEW id \in Ids, Exists(id), NEW expected \in SeenRevisions(id),
             BeginUpdate(h, a, id, expected)
      PROVE  IInv'
  <2>0. PICK named \in Patches : \E doc \in Edits(pub[id].doc, named, ReasonsFor(pub[id])) :
           /\ Valid(doc)
           /\ Accept(h, NewRequest("update", a, id, expected, pub[id], doc, named))
    BY <1>6 DEF BeginUpdate
  <2>1. PICK doc \in Edits(pub[id].doc, named, ReasonsFor(pub[id])) :
           /\ Valid(doc)
           /\ Accept(h, NewRequest("update", a, id, expected, pub[id], doc, named))
    BY <2>0
  <2>2. /\ pub[id].doc \in Doc /\ named \in SUBSET Fields
        /\ ReasonsFor(pub[id]) \in SUBSET (Reasons \cup {Null})
    BY <1>6, PublicationFacts, ChoiceAssumption DEF ReasonsFor
  <2>3. doc \in Doc /\ \A f \in Fields \ named : doc[f] = pub[id].doc[f]
    BY <2>1, <2>2, EditsKeepOthers
  <2>4. doc.body # Erased /\ pub[id].doc.status # "WITHDRAWN"
    BY <1>6, <2>1, <2>3, ValidTyped DEF BeginUpdate
  <2>5. Accept(h, NewRequest("update", a, id, expected, pub[id], doc, named))
    BY <2>1
  <2> HIDE DEF Fields
  <2> QED
    BY <1>5, <1>6, <2>2, <2>3, <2>4, <2>5
<1>7. ASSUME NEW id \in Ids, Exists(id), NEW expected \in SeenRevisions(id),
             BeginRestore(h, a, id, expected)
      PROVE  IInv'
  <2>1. PICK source \in Revisions :
           /\ history[id][source] # Null
           /\ Valid(history[id][source].doc)
           /\ Accept(h, NewRequest("restore", a, id, expected, pub[id],
                                   Stripped(history[id][source].doc), Fields))
    BY <1>7 DEF BeginRestore
  <2> DEFINE doc == Stripped(history[id][source].doc)
  <2>2. history[id][source].doc \in Doc
    BY <1>7, <2>1, PublicationFacts
  <2>3. doc \in Doc /\ doc.body # Erased
    BY <2>1, <2>2, StrippedFacts, ValidTyped
  <2> HIDE DEF doc
  <2> QED
    BY <1>5, <1>7, <2>1, <2>3 DEF doc
<1>8. ASSUME NEW id \in Ids, Exists(id), NEW expected \in SeenRevisions(id),
             BeginWithdraw(h, a, id, expected)
      PROVE  IInv'
  <2> DEFINE doc == [Stripped(pub[id].doc) EXCEPT !.status = "WITHDRAWN"]
  <2>1. doc \in Doc /\ doc.body # Erased
    <3>1. Stripped(pub[id].doc) \in Doc /\ Stripped(pub[id].doc).body # Erased
      BY <1>8, PublicationFacts, StrippedFacts
    <3> QED
      BY <3>1 DEF Doc
  <2>2. /\ pub[id].doc.status # "WITHDRAWN"
        /\ Accept(h, NewRequest("withdraw", a, id, expected, pub[id], doc, {"status"}))
    BY <1>8 DEF BeginWithdraw
  <2> QED
    BY <1>5, <1>8, <2>1, <2>2, ZenonT(30)
<1>9. ASSUME NEW id \in Ids, Exists(id), NEW expected \in SeenRevisions(id),
             BeginCertify(h, a, id, expected)
      PROVE  IInv'
  <2>1. pub[id].doc \in Doc /\ pub[id].doc.body # Erased
    BY <1>9, PublicationFacts
  <2>2. /\ InScope(a, pub[id].doc.targets)
        /\ pub[id].doc.status # "WITHDRAWN"
        /\ pub[id].revision = expected
        /\ Accept(h, NewRequest("certify", a, id, expected, pub[id], pub[id].doc, {}))
    BY <1>9 DEF BeginCertify
  <2>3. {} \in SUBSET Fields
    OBVIOUS
  <2> QED
    BY <1>5, <1>9, <2>1, <2>2, <2>3, ZenonT(30)
<1> QED
  BY <1>1, <1>2, <1>3, <1>6, <1>7, <1>8, <1>9

\* The first steps of the handlers of classroom screens.
LEMMA ScreenStepKeepsIInv ==
    ASSUME IInv, NEW h \in Handlers, ScreenStep(h)
    PROVE  IInv'
<1> USE DEF AllOperations, AccountOps, ScreenOps, Creations
<1>0. 1 \in Revisions /\ 1 < MaxRevision
  BY BoundAssumption DEF Revisions
<1>1. PICK s \in Screens :
         \/ BeginScreenCreate(h, s)
         \/ \E id \in Ids :
               /\ Exists(id)
               /\ \E expected \in SeenRevisions(id) :
                     \/ BeginScreenUpdate(h, s, id, expected)
                     \/ BeginScreenRestore(h, s, id, expected)
  BY DEF ScreenStep
<1>2. screen[s].credential \in Credentials
  BY DEF IInv, TypeOK
<1>3. CASE BeginScreenCreate(h, s)
  <2>1. PICK body \in Bodies, w \in ScreenWorkspaces[s], k \in Keys \cup {Null} :
           LET doc == [body |-> body, reason |-> Null, status |-> "PUBLISHED", targets |-> {w}]
           IN  /\ Valid(doc)
               /\ ScreenAccept(h, s, [NewRequest("screenCreate", s, Null, 1, Null, doc, Fields)
                                      EXCEPT !.key = IF k = Null THEN Null ELSE <<s, k>>])
    BY <1>3 DEF BeginScreenCreate
  <2> DEFINE doc == [body |-> body, reason |-> Null, status |-> "PUBLISHED", targets |-> {w}]
             n == NewRequest("screenCreate", s, Null, 1, Null, doc, Fields)
             key == IF k = Null THEN Null ELSE <<s, k>>
             q == [[n EXCEPT !.key = key] EXCEPT !.credential = screen[s].credential]
  <2>2. w \in Workspaces
    BY ChoiceAssumption
  <2>3. doc \in Doc
    BY <2>2 DEF Doc
  <2>4. n \in Request
    BY <1>0, <2>3, NewRequestTyped
  <2>5. key \in Key \cup {Null}
    BY DEF Key
  <2>6. q \in Request
    <3> HIDE DEF n, key
    <3>1. [n EXCEPT !.key = key] \in Request
      BY <2>4, <2>5 DEF Request
    <3> PICK keyed : keyed = [n EXCEPT !.key = key]
      OBVIOUS
    <3>2. [keyed EXCEPT !.credential = screen[s].credential] \in Request
      BY <1>2, <3>1 DEF Request
    <3> QED
      BY <3>2
  <2>7. doc.body # Erased
    BY ErasedAssumption
  <2>8. Prepared(q)
    BY <1>0, <2>7 DEF Prepared, NewRequest
  <2>9. JustRead(q)
    BY DEF JustRead, NewRequest
  <2>10. Accept(h, q)
    BY <2>1 DEF ScreenAccept
  <2> HIDE DEF q
  <2> QED
    BY <2>6, <2>8, <2>9, <2>10, AcceptKeepsIInv
<1>4. ASSUME NEW id \in Ids, Exists(id), NEW expected \in SeenRevisions(id)
      PROVE  /\ expected \in Revisions
             /\ expected <= pub[id].revision
  <2>1. pub[id].revision \in 1..MaxRevision /\ MaxRevision \in Nat
    BY <1>4, PublicationFacts, BoundAssumption DEF Revisions
  <2> QED
    BY <1>4, <2>1 DEF SeenRevisions, Revisions
<1>5. ASSUME NEW id \in Ids, Exists(id), NEW expected \in SeenRevisions(id),
             BeginScreenUpdate(h, s, id, expected)
      PROVE  IInv'
  <2>0. PICK patch \in Patches : \E doc \in Edits(pub[id].doc, patch \ {"status"}, {Null}) :
           /\ Valid(doc)
           /\ Cardinality(pub[id].doc.targets) > 1 => doc.targets \subseteq pub[id].doc.targets
           /\ ScreenAccept(h, s, NewRequest("screenUpdate", s, id, expected, pub[id], doc,
                                            patch \ {"status"}))
    BY <1>5 DEF BeginScreenUpdate
  <2> DEFINE named == patch \ {"status"}
  <2>1. PICK doc \in Edits(pub[id].doc, named, {Null}) :
           /\ Valid(doc)
           /\ Cardinality(pub[id].doc.targets) > 1 => doc.targets \subseteq pub[id].doc.targets
           /\ ScreenAccept(h, s, NewRequest("screenUpdate", s, id, expected, pub[id], doc, named))
    BY <2>0
  <2> DEFINE n == NewRequest("screenUpdate", s, id, expected, pub[id], doc, named)
             q == [n EXCEPT !.credential = screen[s].credential]
  <2>2. named \in SUBSET Fields /\ pub[id].doc \in Doc
    BY <1>5, PublicationFacts, ChoiceAssumption
  <2> HIDE DEF named
  <2>3. doc \in Doc /\ \A f \in Fields \ named : doc[f] = pub[id].doc[f]
    BY <2>1, <2>2, EditsKeepOthers
  <2>4. n \in Request
    BY <1>4, <1>5, <2>2, <2>3, PublicationFacts, NewRequestTyped
  <2>5. q \in Request
    BY <1>2, <2>4 DEF Request
  <2>6. Accept(h, q)
    BY <2>1 DEF ScreenAccept
  <2>7. expected < MaxRevision
    BY <2>6 DEF Accept, NewRequest
  <2>8. pub[id].doc.status = "PUBLISHED"
    BY <1>5 DEF BeginScreenUpdate, ScreenMayAccess
  <2>9. Shared(q) => doc.targets \subseteq pub[id].doc.targets
    BY <2>1 DEF Shared, NewRequest
  <2>10. Prepared(q)
    BY <1>5, <2>1, <2>3, <2>7, <2>8, <2>9, PublicationFacts, ValidTyped, NullAssumption
       DEF Prepared, NewRequest
  <2>11. JustRead(q)
    BY <1>4, <1>5 DEF JustRead, NewRequest
  <2> HIDE DEF q
  <2> QED
    BY <2>5, <2>6, <2>10, <2>11, AcceptKeepsIInv
<1>6. ASSUME NEW id \in Ids, Exists(id), NEW expected \in SeenRevisions(id),
             BeginScreenRestore(h, s, id, expected)
      PROVE  IInv'
  <2>1. PICK source \in Revisions :
           /\ history[id][source] # Null
           /\ Valid(history[id][source].doc)
           /\ ScreenAccept(h, s,
                 [NewRequest("screenRestore", s, id, expected, pub[id],
                             Stripped(history[id][source].doc), Fields)
                  EXCEPT !.certifiedBy = history[id][source].certifiedBy])
    BY <1>6 DEF BeginScreenRestore
  <2> DEFINE doc == Stripped(history[id][source].doc)
             by == history[id][source].certifiedBy
             n == NewRequest("screenRestore", s, id, expected, pub[id], doc, Fields)
             q == [[n EXCEPT !.certifiedBy = by] EXCEPT !.credential = screen[s].credential]
  <2>2. /\ doc \in Doc
        /\ by \in Accounts \cup {Null}
        /\ Vouchable(by, pub[id].type, doc.targets)
    BY <1>6, <2>1, PublicationFacts, StrippedFacts DEF Row
  <2>3. Accept(h, q)
    BY <2>1 DEF ScreenAccept
  <2>4. doc.body # Erased
    BY <1>6, <2>1, PublicationFacts, StrippedFacts, ValidTyped
  <2>5. pub[id].doc.status = "PUBLISHED"
    BY <1>6 DEF BeginScreenRestore, ScreenMayAccess
  <2> HIDE DEF doc, by
  <2>6. n \in Request
    BY <1>4, <1>6, <2>2, PublicationFacts, NewRequestTyped
  <2>7. q \in Request
    BY <1>2, <2>2, <2>6 DEF Request
  <2>8. expected < MaxRevision
    BY <2>3 DEF Accept, NewRequest
  <2>9. Prepared(q)
    BY <1>6, <2>2, <2>4, <2>5, <2>8, PublicationFacts, NullAssumption DEF Prepared, NewRequest
  <2>10. JustRead(q)
    BY <1>4, <1>6 DEF JustRead, NewRequest
  <2> HIDE DEF q
  <2> QED
    BY <2>3, <2>7, <2>9, <2>10, AcceptKeepsIInv
<1> QED
  BY <1>1, <1>3, <1>5, <1>6

-----------------------------------------------------------------------------
(* The second step of the handlers *)

\* One more revision: the row says what the publication says.
LEMMA ExtendCoherent ==
    ASSUME NEW p \in Publication, NEW rows \in [Revisions -> Row \cup {Null}],
           Coherent(p, rows), p # Null,
           NEW new \in Publication, NEW row \in Row, NEW r \in Revisions,
           r = p.revision + 1, new.revision = r, new.type = p.type,
           Agrees(row.doc, new.doc), new.doc.body # Erased, row.doc.body # Erased,
           Vouchable(new.certifiedBy, new.type, new.doc.targets),
           Vouchable(row.certifiedBy, new.type, row.doc.targets)
    PROVE  Coherent(new, [rows EXCEPT ![r] = row])
<1> DEFINE rows2 == [rows EXCEPT ![r] = row]
<1>1. p.revision \in Nat /\ Revisions \subseteq Nat /\ 1..r \subseteq Revisions
  BY BoundAssumption DEF Publication, Revisions
<1>2. \A i \in Revisions : rows2[i] = IF i = r THEN row ELSE rows[i]
  OBVIOUS
<1>3. row # Null /\ new # Null
  BY NullAssumption
<1> HIDE DEF rows2
<1>4. \A i \in Revisions : rows2[i] # Null <=> i <= r
  <2> SUFFICES ASSUME NEW i \in Revisions PROVE rows2[i] # Null <=> i <= r
    OBVIOUS
  <2>1. i \in Nat /\ r \in Nat
    BY <1>1
  <2>2. rows[i] # Null <=> i <= p.revision
    BY DEF Coherent
  <2> QED
    BY <1>1, <1>2, <1>3, <2>1, <2>2
<1>5. \A i \in 1..r : \/ i = r /\ rows2[i] = row
                      \/ i \in 1..p.revision /\ rows2[i] = rows[i]
  BY <1>1, <1>2
<1>6. \A i \in 1..r :
         /\ Vouchable(rows2[i].certifiedBy, new.type, rows2[i].doc.targets)
         /\ rows2[i].doc.body = Erased => rows2[i].certifiedBy = Null /\ new.type = "ASSIGNMENT"
  <2> SUFFICES ASSUME NEW i \in 1..r
               PROVE  /\ Vouchable(rows2[i].certifiedBy, new.type, rows2[i].doc.targets)
                      /\ rows2[i].doc.body = Erased =>
                            rows2[i].certifiedBy = Null /\ new.type = "ASSIGNMENT"
    OBVIOUS
  <2>1. CASE i = r /\ rows2[i] = row
    BY <2>1
  <2>2. CASE i \in 1..p.revision /\ rows2[i] = rows[i]
    BY <2>2 DEF Coherent
  <2> QED
    BY <1>5, <2>1, <2>2
<1> QED
  BY <1>2, <1>3, <1>4, <1>6 DEF Coherent, rows2

\* A new publication with the rows its revision asks for, all of them live.
LEMMA NewCoherent ==
    ASSUME NEW rows \in [Revisions -> Row \cup {Null}], Coherent(Null, rows),
           NEW new \in Publication, NEW row \in Row, 1 \in Revisions,
           new.revision = 1, Agrees(row.doc, new.doc),
           new.doc.body # Erased, row.doc.body # Erased, new.doc.targets = row.doc.targets,
           new.certifiedBy = row.certifiedBy,
           Vouchable(new.certifiedBy, new.type, new.doc.targets)
    PROVE  Coherent(new, [rows EXCEPT ![1] = row])
<1>1. row # Null /\ new # Null
  BY NullAssumption
<1>2. \A i \in Revisions : i \in Nat /\ i >= 1 /\ rows[i] = Null
  BY DEF Coherent, Revisions
<1> QED
  BY <1>1, <1>2 DEF Coherent, Revisions

\* What a handler finds in its transaction when the revision still matches.
LEMMA CurrentFacts ==
    ASSUME IInv, NEW h \in Handlers, handler[h] \in Request,
           handler[h].op \notin Creations, Current(handler[h])
    PROVE  LET q == handler[h]
               p == pub[q.id]
           IN  /\ q.id \in Ids
               /\ Exists(q.id)
               /\ p \in Publication
               /\ p.revision = q.expected
               /\ q.expected \in Revisions
               /\ q.existing \in Publication
               /\ q.existing.doc = p.doc
               /\ p.doc \in Doc
               /\ q.doc \in Doc
               /\ q.type = p.type
               /\ q.existing.certifiedBy \in {Null, p.certifiedBy}
               /\ q.op # "certify" => q.expected + 1 \in Revisions
<1> DEFINE q == handler[h]
           p == pub[q.id]
<1>1. Prepared(q) /\ q \in Request
  BY DEF IInv, RequestsPrepared
<1>2. q.id # Null /\ q.existing # Null /\ q.type = q.existing.type
  BY <1>1 DEF Prepared
<1>3. q.id \in Ids /\ q.existing \in Publication /\ q.expected \in Revisions /\ q.doc \in Doc
  BY <1>1, <1>2 DEF Request
<1>4. p # Null /\ p.revision = q.expected
  BY DEF Current
<1>5. p \in Publication /\ p.doc \in Doc
  BY <1>3, <1>4 DEF IInv, TypeOK, Publication
<1>6. q # Null /\ q.op # "announce"
  BY <1>1, NullAssumption DEF Request, AllOperations
<1>7. /\ q.existing.type = p.type
      /\ q.expected <= q.existing.revision
      /\ q.existing.revision <= p.revision
      /\ q.existing.revision = p.revision =>
            /\ q.existing.doc = p.doc
            /\ q.existing.certifiedBy \in {Null, p.certifiedBy}
  BY <1>2, <1>6 DEF IInv, PreReadFresh
<1>8. q.existing.revision \in Nat /\ p.revision \in Nat
  BY <1>3, <1>5 DEF Publication, Revisions
<1>9. q.existing.revision = p.revision
  BY <1>4, <1>7, <1>8
<1>10. q.op # "certify" => q.expected + 1 \in Revisions
  BY <1>1, <1>3, BoundAssumption DEF Prepared, Revisions
<1> QED
  BY <1>2, <1>3, <1>4, <1>5, <1>7, <1>9, <1>10 DEF Exists

\* An emitted event is an event.
LEMMA EmitLeaves ==
    ASSUME NEW h \in Handlers, NEW rooms \in SUBSET Workspaces, NEW status, NEW previous,
           Emit(h, rooms, status, previous)
    PROVE  Leaves(h)
<1>1. ("PUBLISHED" \in {status, previous}) \in BOOLEAN
  OBVIOUS
<1>2. [op |-> "announce", rooms |-> rooms, public |-> "PUBLISHED" \in {status, previous}] \in Event
  BY <1>1 DEF Event
<1> QED
  BY <1>2 DEF Emit, Serve, Leaves

\* A step that moves one publication forward, keeps its key and stays coherent.
LEMMA ChangeKeepsIInv ==
    ASSUME IInv, NEW h \in Handlers, Leaves(h),
           NEW id \in Ids, Exists(id),
           NEW new \in Publication, NEW rows \in [Revisions -> Row \cup {Null}],
           pub' = [pub EXCEPT ![id] = new], history' = [history EXCEPT ![id] = rows],
           UNCHANGED <<active, screen>>,
           new.type = pub[id].type, new.key = pub[id].key,
           \/ new.revision = pub[id].revision + 1
           \/ /\ new.revision = pub[id].revision
              /\ new.doc = pub[id].doc
              /\ pub[id].certifiedBy \in {Null, new.certifiedBy},
           Coherent(new, rows)
    PROVE  IInv'
<1>1. /\ pub \in [Ids -> Publication \cup {Null}]
      /\ history \in [Ids -> [Revisions -> Row \cup {Null}]]
  BY DEF IInv, TypeOK
<1>2. \A i \in Ids : /\ pub'[i] = IF i = id THEN new ELSE pub[i]
                     /\ history'[i] = IF i = id THEN rows ELSE history[i]
  BY <1>1
<1>3. Forward
  <2>1. ASSUME NEW i \in Ids, Exists(i)
        PROVE  /\ pub'[i] \in Publication
               /\ pub'[i].type = pub[i].type
               /\ pub[i].revision <= pub'[i].revision
               /\ pub[i].revision = pub'[i].revision =>
                     /\ pub'[i].doc = pub[i].doc
                     /\ pub[i].certifiedBy \in {Null, pub'[i].certifiedBy}
    <3>1. pub[i] \in Publication /\ pub[i].revision \in Nat
      BY <1>1, <2>1 DEF Exists, Publication, Revisions
    <3> QED
      BY <1>2, <3>1
  <2> QED
    BY <2>1 DEF Forward
<1>4. HandlersTyped' /\ RequestsPrepared' /\ PreReadFresh'
  BY <1>3, HandlersForward
<1>5. TypeOK'
  <2>1. /\ pub' \in [Ids -> Publication \cup {Null}]
        /\ history' \in [Ids -> [Revisions -> Row \cup {Null}]]
    BY <1>1
  <2> QED
    BY <1>4, <2>1 DEF IInv, TypeOK, HandlersTyped
<1>6. AllCoherent'
  BY <1>2 DEF IInv, AllCoherent
<1>7. OnePublicationPerRequest'
  <2>1. \A i \in Ids : pub'[i] # Null => Exists(i) /\ pub'[i].key = pub[i].key
    BY <1>2 DEF Exists
  <2> QED
    BY <2>1 DEF IInv, OnePublicationPerRequest, Exists
<1> QED
  BY <1>4, <1>5, <1>6, <1>7 DEF IInv

\* A save by any of the handlers that change a publication.
LEMMA SaveKeepsIInv ==
    ASSUME IInv, NEW h \in Handlers, handler[h] \in Request,
           handler[h].op \notin Creations \cup {"certify"}, Leaves(h),
           NEW written \in SUBSET Fields, NEW by \in Accounts \cup {Null},
           Save(h, written, by), Covers(handler[h], written),
           Vouchable(by, handler[h].type, handler[h].doc.targets)
    PROVE  IInv'
<1> DEFINE q == handler[h]
           p == pub[q.id]
           r == q.expected + 1
           row == [doc |-> q.doc, certifiedBy |-> by]
           doc == SavedDoc(p, q)
           new == [p EXCEPT !.doc = doc, !.revision = r, !.certifiedBy = by]
           rows == [history[q.id] EXCEPT ![r] = row]
<1>1. /\ q.id \in Ids /\ Exists(q.id) /\ p \in Publication
      /\ p.revision = q.expected /\ r \in Revisions
      /\ q.existing.doc = p.doc /\ p.doc \in Doc /\ q.doc \in Doc /\ q.type = p.type
  BY CurrentFacts DEF Save
<1>0. Prepared(q)
  BY DEF IInv, RequestsPrepared
<1>2. /\ Merge(p.doc, q.doc, written) = doc /\ doc \in Doc /\ Agrees(q.doc, doc)
      /\ doc.body = q.doc.body /\ doc.targets = q.doc.targets
  BY <1>0, <1>1, SavedDocAgrees, AgreesFacts
<1> HIDE DEF doc
<1>3. /\ pub' = [pub EXCEPT ![q.id] = new]
      /\ history' = [history EXCEPT ![q.id] = rows]
      /\ UNCHANGED <<active, screen>>
  BY <1>1, <1>2 DEF Save, NextRevision
<1>4. /\ new \in Publication /\ new.revision = r /\ new.doc = doc /\ new.type = p.type
      /\ new.certifiedBy = by /\ new.key = p.key
  BY <1>1, <1>2 DEF Publication
<1>5. row \in Row /\ row.doc = q.doc /\ row.certifiedBy = by
  BY <1>1 DEF Row
<1>6. q.doc.body # Erased
  BY <1>0 DEF Prepared
<1>7. /\ history[q.id] \in [Revisions -> Row \cup {Null}]
      /\ Coherent(p, history[q.id])
      /\ p # Null
  BY <1>1 DEF IInv, TypeOK, AllCoherent, Exists
<1> HIDE DEF q, p, r, row, new
<1>8. Coherent(new, rows)
  <2>1. Vouchable(by, p.type, q.doc.targets)
    BY <1>1 DEF q
  <2>2. r = p.revision + 1
    BY <1>1 DEF r
  <2> QED
    BY <1>1, <1>2, <1>4, <1>5, <1>6, <1>7, <2>1, <2>2, ExtendCoherent
<1>9. rows \in [Revisions -> Row \cup {Null}]
  BY <1>5, <1>7
<1>10. new.revision = p.revision + 1
  BY <1>1, <1>4 DEF r
<1> HIDE DEF rows
<1> QED
  BY <1>1, <1>3, <1>4, <1>8, <1>9, <1>10, ChangeKeepsIInv DEF p

\* The saves of accounts and screens.
LEMMA SavesKeepIInv ==
    ASSUME IInv, NEW h \in Handlers,
           \/ CommitUpdate(h) \/ CommitRestore(h) \/ CommitWithdraw(h)
           \/ CommitScreenUpdate(h) \/ CommitScreenRestore(h)
    PROVE  IInv'
<1> DEFINE q == handler[h]
<1>1. PICK op \in {"update", "restore", "withdraw", "screenUpdate", "screenRestore"} :
         Ready(h, op)
  BY DEF CommitUpdate, CommitRestore, CommitWithdraw, CommitScreenUpdate, CommitScreenRestore
<1>2. q \in Request /\ q.op = op
  BY <1>1, ReadyIsRequest DEF IInv, AllOperations, Ready
<1>3. Prepared(q)
  BY <1>2, SMTT(20) DEF IInv, RequestsPrepared
<1>4. Current(q)
  BY DEF CommitUpdate, CommitRestore, CommitWithdraw, CommitScreenUpdate,
         CommitScreenRestore, Save
<1>5. q.op \notin Creations \cup {"certify"}
  BY <1>2 DEF Creations
<1>6. /\ q.doc \in Doc /\ q.existing \in Publication /\ q.existing.doc = pub[q.id].doc
      /\ pub[q.id].doc \in Doc
  BY <1>2, <1>4, <1>5, CurrentFacts
<1>7. Rooms(q) \in SUBSET Workspaces /\ pub[q.id].doc.targets \in SUBSET Workspaces
  BY <1>6 DEF Rooms, Doc
<1>8. op \in AccountOps => q.by \in Accounts
  BY <1>2, <1>3 DEF Prepared
<1>9. CASE CommitUpdate(h)
  <2>1. op = "update"
    BY <1>2, <1>9 DEF CommitUpdate, Ready
  <2>2. q.by \in Accounts
    BY <1>8, <2>1 DEF AccountOps
  <2>3. Covers(q, UpdatedColumns(q))
    BY <1>2, <1>3, <2>1 DEF Prepared, UpdatedColumns, Fields, Covers
  <2>4. UpdatedColumns(q) \in SUBSET Fields
    BY DEF UpdatedColumns, Fields
  <2>5. Leaves(h)
    BY <1>7, <1>9, EmitLeaves DEF CommitUpdate
  <2>6. Save(h, UpdatedColumns(q), Certification(q.by, q.type, q.doc.targets))
    BY <1>9 DEF CommitUpdate
  <2> QED
    BY <1>2, <1>5, <2>2, <2>3, <2>4, <2>5, <2>6, CertificationVouchable, SaveKeepsIInv
<1>10. CASE CommitRestore(h)
  <2>1. op = "restore"
    BY <1>2, <1>10 DEF CommitRestore, Ready
  <2>2. q.by \in Accounts
    BY <1>8, <2>1 DEF AccountOps
  <2>3. Leaves(h)
    BY <1>7, <1>10, EmitLeaves DEF CommitRestore
  <2>4. Save(h, Fields, Certification(q.by, q.type, q.doc.targets))
    BY <1>10 DEF CommitRestore
  <2>5. Covers(q, Fields)
    BY <1>2, <2>1 DEF Covers, Fields
  <2> QED
    BY <1>2, <1>5, <2>2, <2>3, <2>4, <2>5, CertificationVouchable, SaveKeepsIInv
<1>11. CASE CommitWithdraw(h)
  <2>1. op = "withdraw"
    BY <1>2, <1>11 DEF CommitWithdraw, Ready
  <2>2. q.by \in Accounts
    BY <1>8, <2>1 DEF AccountOps
  <2>4. Covers(q, {"status"})
    BY <1>2, <2>1 DEF Covers
  <2>5. Leaves(h)
    BY <1>7, <1>11, EmitLeaves DEF CommitWithdraw
  <2>6. Save(h, {"status"}, Certification(q.by, q.type, q.doc.targets))
    BY <1>11 DEF CommitWithdraw
  <2>7. {"status"} \in SUBSET Fields
    BY DEF Fields
  <2> QED
    BY <1>2, <1>5, <2>2, <2>4, <2>5, <2>6, <2>7, CertificationVouchable, SaveKeepsIInv
<1>12. CASE CommitScreenUpdate(h)
  <2>1. op = "screenUpdate"
    BY <1>2, <1>12 DEF CommitScreenUpdate, Ready
  <2>2. Covers(q, UpdatedColumns(q))
    BY <1>2, <1>3, <2>1 DEF Prepared, UpdatedColumns, Fields, Covers
  <2>3. UpdatedColumns(q) \in SUBSET Fields
    BY DEF UpdatedColumns, Fields
  <2>4. Leaves(h)
    BY <1>7, <1>12, EmitLeaves DEF CommitScreenUpdate
  <2>5. Save(h, UpdatedColumns(q), Null)
    BY <1>12 DEF CommitScreenUpdate, ScreenCertification
  <2>6. Vouchable(Null, q.type, q.doc.targets)
    BY DEF Vouchable
  <2> QED
    BY <1>2, <1>5, <2>2, <2>3, <2>4, <2>5, <2>6, SaveKeepsIInv
<1>13. CASE CommitScreenRestore(h)
  <2>1. op = "screenRestore"
    BY <1>2, <1>13 DEF CommitScreenRestore, Ready
  <2>2. q.certifiedBy \in Accounts \cup {Null}
    BY <1>2 DEF Request
  <2>3. Vouchable(q.certifiedBy, q.type, q.doc.targets)
    BY <1>2, <1>3, <2>1 DEF Prepared
  <2>4. Leaves(h)
    BY <1>7, <1>13, EmitLeaves DEF CommitScreenRestore
  <2>5. Save(h, Fields, q.certifiedBy)
    BY <1>13 DEF CommitScreenRestore
  <2>6. Covers(q, Fields)
    BY <1>2, <2>1 DEF Covers, Fields
  <2> QED
    BY <1>2, <1>5, <2>2, <2>3, <2>4, <2>5, <2>6, SaveKeepsIInv
<1> QED
  BY <1>9, <1>10, <1>11, <1>12, <1>13

\* A certification changes the current version's row with its publication.
LEMMA CommitCertifyKeepsIInv ==
    ASSUME IInv, NEW h \in Handlers, CommitCertify(h)
    PROVE  IInv'
<1> DEFINE q == handler[h]
           p == pub[q.id]
           old == history[q.id]
           row == old[q.expected]
           newRow == [row EXCEPT !.certifiedBy = q.by]
           new == [p EXCEPT !.certifiedBy = q.by]
           rows == [old EXCEPT ![q.expected] = newRow]
<1>1. q \in Request /\ q.op = "certify"
  BY ReadyIsRequest DEF CommitCertify, IInv, AllOperations, Ready
<1>2. Prepared(q)
  BY <1>1 DEF IInv, RequestsPrepared
<1>3. Current(q) /\ row # Null /\ p.certifiedBy = Null
  BY DEF CommitCertify
<1>4. /\ q.id \in Ids /\ Exists(q.id) /\ p \in Publication
      /\ p.revision = q.expected /\ q.expected \in Revisions
      /\ q.existing.doc = p.doc /\ p.doc \in Doc /\ q.type = p.type
  BY <1>1, <1>3, CurrentFacts DEF Creations
<1>5. q.by \in Accounts /\ InScope(q.by, p.doc.targets)
  BY <1>1, <1>2, <1>4 DEF Prepared, AccountOps
<1>6. Leaves(h)
  <2>1. p.doc.targets \in SUBSET Workspaces
    BY <1>4 DEF Doc
  <2> QED
    BY <2>1, EmitLeaves DEF CommitCertify
<1>7. /\ old \in [Revisions -> Row \cup {Null}]
      /\ Coherent(p, old)
      /\ p # Null
  BY <1>4 DEF IInv, TypeOK, AllCoherent, Exists
<1>8. row \in Row
  BY <1>3, <1>4, <1>7
<1>9. newRow \in Row /\ newRow.doc = row.doc /\ newRow.certifiedBy = q.by
  BY <1>5, <1>8 DEF Row
<1>10. /\ new \in Publication /\ new.revision = p.revision /\ new.doc = p.doc
       /\ new.type = p.type /\ new.certifiedBy = q.by /\ new.key = p.key
  BY <1>4, <1>5, SMTT(20) DEF Publication
<1>11. /\ pub' = [pub EXCEPT ![q.id] = new]
       /\ history' = [history EXCEPT ![q.id] = rows]
       /\ UNCHANGED <<active, screen>>
  BY <1>4, <1>7, <1>8 DEF CommitCertify
<1>12. rows \in [Revisions -> Row \cup {Null}]
  BY <1>7, <1>9
<1>13. \A i \in Revisions : rows[i] = IF i = p.revision THEN newRow ELSE old[i]
  BY <1>4, <1>7
<1>14. newRow # Null /\ new # Null
  BY <1>9, <1>10, NullAssumption
<1>15. /\ Agrees(row.doc, p.doc) /\ p.doc.body # Erased
       /\ row.doc.body = p.doc.body /\ row.doc.targets = p.doc.targets
  BY <1>4, <1>7, AgreesFacts DEF Coherent
<1>16. 1..p.revision \subseteq Revisions
  BY <1>4, BoundAssumption DEF Revisions
<1> HIDE DEF new, newRow, rows, old, row
<1>17. Coherent(new, rows)
  <2>1. \A i \in Revisions : rows[i] # Null <=> old[i] # Null
    BY <1>3, <1>4, <1>13, <1>14 DEF row, old
  <2>2. Vouchable(q.by, new.type, p.doc.targets)
    BY <1>5 DEF Vouchable
  <2>3. \A i \in 1..p.revision :
           /\ Vouchable(rows[i].certifiedBy, new.type, rows[i].doc.targets)
           /\ rows[i].doc.body = Erased => rows[i].certifiedBy = Null /\ new.type = "ASSIGNMENT"
    <3> SUFFICES ASSUME NEW i \in 1..p.revision
                 PROVE  /\ Vouchable(rows[i].certifiedBy, new.type, rows[i].doc.targets)
                        /\ rows[i].doc.body = Erased =>
                              rows[i].certifiedBy = Null /\ new.type = "ASSIGNMENT"
      OBVIOUS
    <3>1. CASE i = p.revision
      BY <1>9, <1>13, <1>15, <1>16, <2>2, <3>1
    <3>2. CASE i # p.revision
      BY <1>7, <1>10, <1>13, <1>16, <3>2 DEF Coherent
    <3> QED
      BY <3>1, <3>2
  <2>4. Agrees(rows[new.revision].doc, new.doc)
    BY <1>4, <1>9, <1>10, <1>13, <1>15
  <2> QED
    BY <1>7, <1>10, <1>14, <1>15, <2>1, <2>2, <2>3, <2>4, Zenon DEF Coherent
<1> QED
  BY <1>3, <1>4, <1>6, <1>10, <1>11, <1>12, <1>17, ChangeKeepsIInv

\* A publication and its first row.
LEMMA CreateKeepsIInv ==
    ASSUME IInv, NEW h \in Handlers, handler[h] \in Request, handler[h].op \in Creations,
           NEW by \in Accounts \cup {Null}, Create(h, by),
           handler[h].key # Null => Created(handler[h].key) = {},
           Vouchable(by, handler[h].type, handler[h].doc.targets)
    PROVE  IInv'
<1> DEFINE q == handler[h]
           new == NewPublication(q, by)
           row == [doc |-> q.doc, certifiedBy |-> by]
<1>1. PICK id \in Ids :
         /\ ~Exists(id)
         /\ pub' = [pub EXCEPT ![id] = new]
         /\ history' = [history EXCEPT ![id][1] = row]
         /\ Emit(h, q.doc.targets, q.doc.status, Null)
         /\ UNCHANGED <<active, screen>>
  BY DEF Create
<1> DEFINE rows == [history[id] EXCEPT ![1] = row]
<1>2. 1 \in Revisions
  BY BoundAssumption DEF Revisions
<1>3. /\ q.doc \in Doc /\ q.type \in AllTypes /\ q.key \in Key \cup {Null}
      /\ q.doc.targets \in SUBSET Workspaces
  BY DEF Request, Doc
<1>4. q.doc.body # Erased
  <2>1. Prepared(q)
    BY DEF IInv, RequestsPrepared
  <2> QED
    BY <2>1 DEF Prepared
<1>5. /\ new \in Publication /\ new.revision = 1 /\ new.doc = q.doc
      /\ new.type = q.type /\ new.certifiedBy = by /\ new.key = q.key
  BY <1>2, <1>3 DEF NewPublication, Publication
<1>6. row \in Row /\ row.doc = q.doc /\ row.certifiedBy = by
  BY <1>3 DEF Row
<1>7. /\ pub \in [Ids -> Publication \cup {Null}]
      /\ history \in [Ids -> [Revisions -> Row \cup {Null}]]
      /\ Coherent(Null, history[id])
  BY <1>1 DEF IInv, TypeOK, AllCoherent, Exists
<1> HIDE DEF q, new, row
<1>8. Coherent(new, rows)
  BY <1>2, <1>4, <1>5, <1>6, <1>7, NewCoherent DEF q, Agrees
<1>9. rows \in [Revisions -> Row \cup {Null}]
  BY <1>6, <1>7
<1>10. \A i \in Ids : /\ pub'[i] = IF i = id THEN new ELSE pub[i]
                      /\ history'[i] = IF i = id THEN rows ELSE history[i]
  BY <1>1, <1>7
<1>11. Forward
  <2>1. ASSUME NEW i \in Ids, Exists(i)
        PROVE  pub'[i] = pub[i] /\ pub[i] \in Publication /\ pub[i].revision \in Nat
    BY <1>1, <1>7, <1>10, <2>1 DEF Exists, Publication, Revisions
  <2> QED
    BY <2>1 DEF Forward
<1>12. Leaves(h)
  BY <1>1, <1>3, EmitLeaves
<1>13. HandlersTyped' /\ RequestsPrepared' /\ PreReadFresh'
  BY <1>11, <1>12, HandlersForward
<1>14. TypeOK'
  <2>1. /\ pub' \in [Ids -> Publication \cup {Null}]
        /\ history' \in [Ids -> [Revisions -> Row \cup {Null}]]
    BY <1>1, <1>5, <1>7, <1>9
  <2> QED
    BY <1>1, <1>13, <2>1 DEF IInv, TypeOK, HandlersTyped
<1>15. AllCoherent'
  BY <1>8, <1>10 DEF IInv, AllCoherent
<1>16. OnePublicationPerRequest'
  <2>1. \A i \in Ids : pub[i] # Null /\ pub[i].key # Null => pub[i].key # new.key
    BY <1>5 DEF q, Created, Exists
  <2> QED
    BY <1>10, <2>1 DEF IInv, OnePublicationPerRequest, Exists
<1> QED
  BY <1>13, <1>14, <1>15, <1>16 DEF IInv

\* The transactions that create publications.
LEMMA CommitCreateKeepsIInv ==
    ASSUME IInv, NEW h \in Handlers, CommitCreate(h) \/ CommitScreenCreate(h)
    PROVE  IInv'
<1> DEFINE q == handler[h]
<1>1. PICK op \in Creations : Ready(h, op)
  BY DEF CommitCreate, CommitScreenCreate, Creations
<1>2. q \in Request /\ q.op = op
  BY <1>1, ReadyIsRequest DEF IInv, AllOperations, Ready, Creations
<1>3. Prepared(q)
  BY <1>2 DEF IInv, RequestsPrepared
<1>4. CASE CommitCreate(h)
  <2>1. op \in {"create", "clone"}
    BY <1>2, <1>4 DEF CommitCreate, Ready
  <2>2. q.by \in Accounts /\ q.key = Null
    BY <1>2, <1>3, <2>1 DEF Prepared, AccountOps
  <2>3. Create(h, Certification(q.by, q.type, q.doc.targets))
    BY <1>4 DEF CommitCreate
  <2> QED
    BY <1>2, <2>2, <2>3, CertificationVouchable, CreateKeepsIInv
<1>5. CASE CommitScreenCreate(h)
  <2>1. Create(h, Null) /\ Created(q.key) = {}
    BY <1>5 DEF CommitScreenCreate
  <2>2. Vouchable(Null, q.type, q.doc.targets)
    BY DEF Vouchable
  <2> QED
    BY <1>2, <2>1, <2>2, CreateKeepsIInv
<1> QED
  BY <1>4, <1>5

\* An erased row of old uncertified assignment history leaves all else alone.
LEMMA PurgeKeepsIInv ==
    ASSUME IInv, NEW id \in Ids, NEW r \in Revisions, Purge(id, r)
    PROVE  IInv'
<1> DEFINE p == pub[id]
           row == history[id][r]
           newRow == [row EXCEPT !.doc = Shell(row.doc)]
           rows == [history[id] EXCEPT ![r] = newRow]
<1>1. /\ Exists(id) /\ row # Null /\ r # p.revision
      /\ row.certifiedBy = Null /\ p.type = "ASSIGNMENT"
  BY DEF Purge, Purgeable
<1>2. /\ pub \in [Ids -> Publication \cup {Null}]
      /\ history \in [Ids -> [Revisions -> Row \cup {Null}]]
      /\ Coherent(p, history[id])
  BY DEF IInv, TypeOK, AllCoherent
<1>3. row \in Row
  BY <1>1, <1>2
<1>4. newRow \in Row /\ newRow.certifiedBy = Null
  BY <1>1, <1>3 DEF Row, Doc, Shell
<1>5. history' = [history EXCEPT ![id] = rows] /\ UNCHANGED <<pub, active, screen, handler>>
  BY <1>2, <1>3 DEF Purge
<1>6. \A i \in Revisions : rows[i] = IF i = r THEN newRow ELSE history[id][i]
  BY <1>2
<1>7. p \in Publication /\ p # Null /\ newRow # Null
  BY <1>1, <1>2, <1>4, NullAssumption DEF Exists
<1>8. rows \in [Revisions -> Row \cup {Null}]
  BY <1>2, <1>4
<1>9. p.revision \in Revisions /\ 1..p.revision \subseteq Revisions
  BY <1>7, BoundAssumption DEF Publication, Revisions
<1> HIDE DEF p, row, newRow, rows
<1>10. Coherent(p, rows)
  <2>1. \A i \in Revisions : rows[i] # Null <=> history[id][i] # Null
    BY <1>1, <1>6, <1>7 DEF row
  <2>2. \A i \in 1..p.revision :
           /\ Vouchable(rows[i].certifiedBy, p.type, rows[i].doc.targets)
           /\ rows[i].doc.body = Erased => rows[i].certifiedBy = Null /\ p.type = "ASSIGNMENT"
    <3> SUFFICES ASSUME NEW i \in 1..p.revision
                 PROVE  /\ Vouchable(rows[i].certifiedBy, p.type, rows[i].doc.targets)
                        /\ rows[i].doc.body = Erased =>
                              rows[i].certifiedBy = Null /\ p.type = "ASSIGNMENT"
      OBVIOUS
    <3>1. CASE i = r
      BY <1>1, <1>4, <1>6, <3>1 DEF Vouchable
    <3>2. CASE i # r
      BY <1>2, <1>6, <1>7, <1>9, <3>2 DEF Coherent
    <3> QED
      BY <3>1, <3>2
  <2>3. Agrees(rows[p.revision].doc, p.doc)
    BY <1>1, <1>2, <1>6, <1>7, <1>9 DEF Coherent
  <2> QED
    BY <1>2, <1>7, <2>1, <2>2, <2>3 DEF Coherent
<1>11. TypeOK'
  BY <1>2, <1>5, <1>8 DEF IInv, TypeOK
<1>12. AllCoherent'
  BY <1>2, <1>5, <1>10 DEF IInv, AllCoherent, p
<1>13. RequestsPrepared' /\ PreReadFresh' /\ OnePublicationPerRequest'
  BY <1>5 DEF IInv, RequestsPrepared, PreReadFresh, OnePublicationPerRequest, Exists
<1> QED
  BY <1>11, <1>12, <1>13 DEF IInv

\* Requests that end and the administrator's steps change no row.
LEMMA QuietKeepsIInv ==
    ASSUME IInv, handler' = handler \/ \E h \in Handlers : Leaves(h),
           UNCHANGED <<pub, history>>,
           active' \subseteq Workspaces,
           screen' \in [Screens -> [enabled: BOOLEAN, credential: Credentials]]
    PROVE  IInv'
<1>1. Forward
  <2>1. ASSUME NEW i \in Ids, Exists(i)
        PROVE  pub'[i] = pub[i] /\ pub[i] \in Publication /\ pub[i].revision \in Nat
    BY <2>1 DEF IInv, TypeOK, Exists, Publication, Revisions
  <2> QED
    BY <2>1 DEF Forward
<1>2. HandlersTyped' /\ RequestsPrepared' /\ PreReadFresh'
  BY <1>1, HandlersForward
<1>3. TypeOK'
  BY <1>2 DEF IInv, TypeOK, HandlersTyped
<1> QED
  BY <1>2, <1>3 DEF IInv, AllCoherent, OnePublicationPerRequest, Exists

\* A split extends the original's history by one row and starts another one.
LEMMA CommitSplitKeepsIInv ==
    ASSUME IInv, NEW h \in Handlers, CommitSplit(h)
    PROVE  IInv'
<1> DEFINE q == handler[h]
           p == pub[q.id]
           r == q.expected + 1
           left == [p.doc EXCEPT !.targets = @ \ q.doc.targets]
           remaining == [doc |-> Stripped(left), certifiedBy |-> q.existing.certifiedBy]
           original == [p EXCEPT !.doc.targets = @ \ q.doc.targets,
                                 !.revision = NextRevision(p)]
           local == Stripped([p.doc EXCEPT !.targets = q.doc.targets])
           baseline == [doc |-> local, certifiedBy |-> q.existing.certifiedBy]
           edited == [doc |-> q.doc, certifiedBy |-> Null]
           copy == [NewPublication(q, Null) EXCEPT !.revision = 2]
           rows == [history[q.id] EXCEPT ![r] = remaining]
<1>1. q \in Request /\ q.op = "screenUpdate"
  BY ReadyIsRequest DEF CommitSplit, IInv, AllOperations, Ready
<1>2. Prepared(q)
  BY <1>1, Zenon DEF IInv, RequestsPrepared
<1>3. /\ q.id \in Ids /\ Exists(q.id) /\ p \in Publication
      /\ p.revision = q.expected /\ q.expected \in Revisions /\ r \in Revisions
      /\ q.existing \in Publication
      /\ q.existing.doc = p.doc /\ p.doc \in Doc /\ q.doc \in Doc /\ q.type = p.type
  BY <1>1, CurrentFacts, Zenon DEF CommitSplit, Creations
<1>4. PICK fork \in Ids :
         /\ ~Exists(fork)
         /\ pub' = [pub EXCEPT ![q.id] = original, ![fork] = copy]
         /\ history' = [history EXCEPT ![q.id][r] = remaining,
                                       ![fork][1] = baseline, ![fork][2] = edited]
  BY <1>3, Zenon DEF CommitSplit, ScreenCertification, Remaining
<1> DEFINE newRows == [history[fork] EXCEPT ![1] = baseline]
           forkRows == [newRows EXCEPT ![2] = edited]
           first == [copy EXCEPT !.doc = local, !.revision = 1,
                                 !.certifiedBy = q.existing.certifiedBy]
<1>5. 1 \in Revisions /\ 2 \in Revisions
  BY BoundAssumption DEF Revisions
<1>6. /\ q.doc.body # Erased /\ q.existing.doc.body # Erased /\ q.key = Null
      /\ q.doc.targets \subseteq q.existing.doc.targets
      /\ Vouchable(q.existing.certifiedBy, q.type, q.existing.doc.targets)
      /\ q.type = q.existing.type
  BY <1>1, <1>2, Zenon DEF Prepared, Creations, CommitSplit
<1>7. /\ left \in Doc /\ left.body = p.doc.body /\ left.targets = p.doc.targets \ q.doc.targets
      /\ local \in Doc /\ local.body = p.doc.body /\ local.targets = q.doc.targets
  <2>1. /\ left \in Doc /\ left.body = p.doc.body /\ left.targets = p.doc.targets \ q.doc.targets
    BY <1>3 DEF Doc
  <2>2. /\ [p.doc EXCEPT !.targets = q.doc.targets] \in Doc
        /\ [p.doc EXCEPT !.targets = q.doc.targets].body = p.doc.body
        /\ [p.doc EXCEPT !.targets = q.doc.targets].targets = q.doc.targets
    BY <1>3 DEF Doc
  <2> QED
    BY <2>1, <2>2, StrippedFacts
<1>8. q.existing.certifiedBy \in Accounts \cup {Null} /\ q.type \in AllTypes
  BY <1>1, <1>3 DEF Publication, Request
<1>9. /\ remaining \in Row /\ remaining.doc = Stripped(left)
      /\ remaining.certifiedBy = q.existing.certifiedBy
      /\ baseline \in Row /\ baseline.doc = local
      /\ baseline.certifiedBy = q.existing.certifiedBy
      /\ edited \in Row /\ edited.doc = q.doc /\ edited.certifiedBy = Null
  BY <1>3, <1>7, <1>8, StrippedFacts DEF Row
<1>10. /\ original \in Publication /\ original.doc = left /\ original.revision = r
       /\ original.type = p.type /\ original.certifiedBy = p.certifiedBy
       /\ original.key = p.key
  BY <1>3, <1>7, Zenon DEF NextRevision, Publication, Doc
<1>11. /\ copy \in Publication /\ copy.doc = q.doc /\ copy.revision = 2
       /\ copy.type = q.type /\ copy.certifiedBy = Null /\ copy.key = Null
  BY <1>3, <1>5, <1>6, <1>8 DEF NewPublication, Publication
<1>12. /\ first \in Publication /\ first.doc = local /\ first.revision = 1
       /\ first.type = q.type /\ first.certifiedBy = q.existing.certifiedBy
  BY <1>5, <1>7, <1>8, <1>11 DEF Publication
<1>13. /\ pub \in [Ids -> Publication \cup {Null}]
       /\ history \in [Ids -> [Revisions -> Row \cup {Null}]]
       /\ Coherent(p, history[q.id]) /\ Coherent(Null, history[fork])
       /\ p # Null /\ fork # q.id
  BY <1>3, <1>4 DEF IInv, TypeOK, AllCoherent, Exists
\* In a subset of what somebody is in charge of, he is in charge too.
<1>14. /\ Vouchable(q.existing.certifiedBy, q.type, left.targets)
       /\ Vouchable(q.existing.certifiedBy, q.type, local.targets)
  <2> HIDE DEF left, local, p, q
  <2>1. left.targets \subseteq p.doc.targets /\ local.targets \subseteq p.doc.targets
    BY <1>3, <1>6, <1>7
  <2>2. Vouchable(q.existing.certifiedBy, q.type, p.doc.targets)
    BY <1>3, <1>6
  <2> QED
    BY <2>1, <2>2 DEF Vouchable, InScope
<1>15. Vouchable(p.certifiedBy, p.type, left.targets)
  <2>1. Vouchable(p.certifiedBy, p.type, p.doc.targets)
    BY <1>13, Zenon DEF Coherent
  <2> QED
    BY <1>7, <2>1 DEF Vouchable, InScope
<1>16. \A i \in Ids : /\ pub'[i] = CASE i = q.id -> original [] i = fork -> copy
                                      [] OTHER -> pub[i]
                      /\ history'[i] = CASE i = q.id -> rows [] i = fork -> forkRows
                                          [] OTHER -> history[i]
  BY <1>3, <1>4, <1>5, <1>13, Zenon
<1>17. Leaves(h) /\ UNCHANGED <<active, screen>>
  <2>1. q.existing.doc.targets \in SUBSET Workspaces
    BY <1>3 DEF Doc
  <2> QED
    BY <2>1, EmitLeaves DEF CommitSplit
<1>19. r = p.revision + 1 /\ 2 = first.revision + 1 /\ first # Null
  BY <1>3, <1>12, NullAssumption
<1> HIDE DEF q, p, r, left, local, remaining, original, baseline, edited, copy, first,
             rows, newRows, forkRows
<1>18. /\ rows \in [Revisions -> Row \cup {Null}]
       /\ newRows \in [Revisions -> Row \cup {Null}]
       /\ forkRows \in [Revisions -> Row \cup {Null}]
  <2>1. rows \in [Revisions -> Row \cup {Null}]
    BY <1>3, <1>9, <1>13 DEF rows
  <2>2. newRows \in [Revisions -> Row \cup {Null}]
    BY <1>9, <1>13 DEF newRows
  <2>3. forkRows \in [Revisions -> Row \cup {Null}]
    BY <1>9, <2>2 DEF forkRows
  <2> QED
    BY <2>1, <2>2, <2>3
<1>20. Coherent(original, rows)
  <2>1. /\ left.body # Erased
        /\ remaining.doc.body = left.body /\ remaining.doc.targets = left.targets
        /\ Agrees(remaining.doc, left)
    BY <1>3, <1>6, <1>7, <1>9, StrippedFacts DEF Agrees
  <2>2. /\ Vouchable(remaining.certifiedBy, original.type, remaining.doc.targets)
        /\ Vouchable(original.certifiedBy, original.type, original.doc.targets)
    BY <1>3, <1>9, <1>10, <1>14, <1>15, <2>1
  <2> QED
    BY <1>3, <1>9, <1>10, <1>13, <1>19, <2>1, <2>2, ExtendCoherent DEF rows
<1>21. Coherent(first, newRows)
  <2>1. baseline.doc.body # Erased
    BY <1>3, <1>6, <1>7, <1>9
  <2>2. Vouchable(first.certifiedBy, first.type, first.doc.targets)
    BY <1>12, <1>14
  <2> QED
    BY <1>5, <1>9, <1>12, <1>13, <2>1, <2>2, NewCoherent DEF newRows, Agrees
<1>22. Coherent(copy, forkRows)
  <2>1. /\ Vouchable(copy.certifiedBy, copy.type, copy.doc.targets)
        /\ Vouchable(edited.certifiedBy, copy.type, edited.doc.targets)
    BY <1>9, <1>11 DEF Vouchable
  <2>2. /\ copy.doc.body # Erased /\ edited.doc.body # Erased
        /\ Agrees(edited.doc, copy.doc) /\ copy.type = first.type
    BY <1>6, <1>9, <1>11, <1>12 DEF Agrees
  <2> QED
    BY <1>5, <1>9, <1>11, <1>12, <1>18, <1>19, <1>21, <2>1, <2>2, ExtendCoherent DEF forkRows
<1>23. Forward
  <2>1. ASSUME NEW i \in Ids, Exists(i)
        PROVE  /\ pub'[i] \in Publication
               /\ pub'[i].type = pub[i].type
               /\ pub[i].revision < pub'[i].revision \/ pub'[i] = pub[i]
               /\ pub[i].revision \in Nat /\ pub'[i].revision \in Nat
    <3>1. pub[i] \in Publication /\ pub[i].revision \in Nat /\ i # fork
      BY <1>4, <1>13, <2>1 DEF Exists, Publication, Revisions
    <3>2. CASE i = q.id
      BY <1>10, <1>16, <1>19, <3>1, <3>2 DEF p
    <3>3. CASE i # q.id
      BY <1>16, <3>1, <3>3
    <3> QED
      BY <3>2, <3>3
  <2> QED
    BY <2>1 DEF Forward
<1>24. HandlersTyped' /\ RequestsPrepared' /\ PreReadFresh'
  BY <1>17, <1>23, HandlersForward
<1>25. TypeOK'
  <2>1. pub' \in [Ids -> Publication \cup {Null}]
    BY <1>4, <1>10, <1>11, <1>13
  <2>2. \A i \in Ids : history'[i] \in [Revisions -> Row \cup {Null}]
    BY <1>13, <1>16, <1>18
  <2>3. history' \in [Ids -> [Revisions -> Row \cup {Null}]]
    BY <1>4, <1>13, <2>2
  <2> QED
    BY <1>17, <1>24, <2>1, <2>3 DEF IInv, TypeOK, HandlersTyped
<1>26. AllCoherent'
  BY <1>16, <1>20, <1>22 DEF IInv, AllCoherent
<1>27. OnePublicationPerRequest'
  <2>1. \A i \in Ids : pub'[i] # Null /\ pub'[i].key # Null =>
                         Exists(i) /\ pub'[i].key = pub[i].key
    BY <1>10, <1>11, <1>13, <1>16 DEF p, Exists
  <2> QED
    BY <2>1 DEF IInv, OnePublicationPerRequest, Exists
<1> QED
  BY <1>24, <1>25, <1>26, <1>27, Zenon DEF IInv

-----------------------------------------------------------------------------
(* The inductive invariant *)

\* Every step keeps the invariant.
LEMMA NextKeepsIInv == IInv /\ [Next]_vars => IInv'
<1> SUFFICES ASSUME IInv, [Next]_vars PROVE IInv'
  OBVIOUS
<1>1. ASSUME NEW h \in Handlers,
             AccountStep(h) \/ ScreenStep(h) \/ Commit(h) \/ Replay(h) \/ Refuse(h) \/ Announce(h)
      PROVE  IInv'
  <2>1. CASE AccountStep(h)
    BY <2>1, AccountStepKeepsIInv
  <2>2. CASE ScreenStep(h)
    BY <2>2, ScreenStepKeepsIInv
  <2>3. CASE Commit(h)
    BY <2>3, CommitCreateKeepsIInv, SavesKeepIInv, CommitCertifyKeepsIInv, CommitSplitKeepsIInv
       DEF Commit
  <2>4. CASE Replay(h) \/ Refuse(h) \/ Announce(h)
    <3>1. Leaves(h) /\ UNCHANGED <<pub, history, active, screen>>
      BY <2>4 DEF Replay, Refuse, Announce, Serve, Leaves
    <3> QED
      BY <3>1, QuietKeepsIInv DEF IInv, TypeOK
  <2> QED
    BY <1>1, <2>1, <2>2, <2>3, <2>4
<1>2. ASSUME NEW id \in Ids, NEW r \in Revisions, Purge(id, r)
      PROVE  IInv'
  BY <1>2, PurgeKeepsIInv
<1>3. ASSUME NEW w \in Workspaces, SetWorkspaceActive(w)
      PROVE  IInv'
  BY <1>3, QuietKeepsIInv DEF SetWorkspaceActive, IInv, TypeOK
<1>4. ASSUME NEW s \in Screens, RotateScreen(s) \/ SetScreenActive(s)
      PROVE  IInv'
  <2>1. screen \in [Screens -> [enabled: BOOLEAN, credential: Credentials]]
    BY DEF IInv, TypeOK
  <2>2. CASE RotateScreen(s)
    <3>1. screen[s].credential + 1 \in Credentials
      BY <2>1, <2>2, BoundAssumption DEF RotateScreen, Credentials
    <3>2. screen' \in [Screens -> [enabled: BOOLEAN, credential: Credentials]]
      BY <2>1, <2>2, <3>1 DEF RotateScreen
    <3> QED
      BY <2>2, <3>2, QuietKeepsIInv DEF RotateScreen, IInv, TypeOK
  <2>3. CASE SetScreenActive(s)
    <3>1. screen' \in [Screens -> [enabled: BOOLEAN, credential: Credentials]]
      BY <2>1, <2>3 DEF SetScreenActive
    <3> QED
      BY <2>3, <3>1, QuietKeepsIInv DEF SetScreenActive, IInv, TypeOK
  <2> QED
    BY <1>4, <2>2, <2>3
<1>5. CASE UNCHANGED vars
  BY <1>5, QuietKeepsIInv DEF vars, IInv, TypeOK
<1> QED
  BY <1>1, <1>2, <1>3, <1>4, <1>5 DEF Next

\* Every reachable state satisfies the inductive invariant.
THEOREM Invariance == Spec => []IInv
  BY InitIInv, NextKeepsIInv, PTL DEF Spec

\* The tables and the requests keep their types (schema.prisma).
THEOREM TypeCorrect == Spec => []TypeOK
<1>1. IInv => TypeOK
  BY DEF IInv
<1> QED
  BY <1>1, Invariance, PTL

\* What a request that can still commit has read is what the database holds.
THEOREM PreReadsAreFresh == Spec => []PreReadFresh
<1>1. IInv => PreReadFresh
  BY DEF IInv
<1> QED
  BY <1>1, Invariance, PTL

\* Revision rows run without a gap up to the publication's revision.
THEOREM HistoryIsContiguous == Spec => []HistoryContiguous
<1>1. IInv => HistoryContiguous
  BY DEF IInv, AllCoherent, Coherent, HistoryContiguous, Recorded, Exists
<1> QED
  BY <1>1, Invariance, PTL

\* The newest row says what the publication says, all but the reason of an earlier
\* correction: after a withdrawal or a split the row may be without it.
THEOREM HeadSnapshotsAgree == Spec => []HeadSnapshotAgrees
<1>1. IInv => HeadSnapshotAgrees
  BY DEF IInv, AllCoherent, Coherent, HeadSnapshotAgrees, Exists, Agrees
<1> QED
  BY <1>1, Invariance, PTL

\* Only somebody in charge of all targets certifies an assignment's version.
THEOREM CertifiersAreInCharge == Spec => []CertifiedInScope
<1>1. IInv => CertifiedInScope
  <2> SUFFICES ASSUME IInv, NEW id \in Ids, NEW r \in Revisions, Recorded(id, r),
                      history[id][r].certifiedBy # Null, pub[id].type = "ASSIGNMENT"
               PROVE  InScope(history[id][r].certifiedBy, history[id][r].doc.targets)
    BY DEF CertifiedInScope
  <2>1. Exists(id)
    BY DEF Recorded, IInv, AllCoherent, Coherent, Exists
  <2> QED
    BY <2>1, PublicationFacts DEF Recorded, Vouchable
<1> QED
  BY <1>1, Invariance, PTL

\* The cleanup erases old uncertified assignment versions and nothing else.
THEOREM OnlyHistoryIsErased == Spec => []ErasedIsHistory
<1>1. IInv => ErasedIsHistory
  <2> SUFFICES ASSUME IInv, NEW id \in Ids, Exists(id)
               PROVE  /\ pub[id].doc.body # Erased
                      /\ \A r \in Revisions :
                            Recorded(id, r) /\ history[id][r].doc.body = Erased =>
                                /\ r < pub[id].revision
                                /\ history[id][r].certifiedBy = Null
                                /\ pub[id].type = "ASSIGNMENT"
    BY DEF ErasedIsHistory
  <2>1. Coherent(pub[id], history[id]) /\ pub[id] # Null /\ pub[id].doc.body # Erased
    BY PublicationFacts DEF IInv, AllCoherent
  <2>2. ASSUME NEW r \in Revisions, Recorded(id, r), history[id][r].doc.body = Erased
        PROVE  /\ r < pub[id].revision
               /\ history[id][r].certifiedBy = Null
               /\ pub[id].type = "ASSIGNMENT"
    <3>1. r \in 1..pub[id].revision
      BY <2>2, PublicationFacts DEF Recorded
    <3>2. r # pub[id].revision
      BY <2>1, <2>2, PublicationFacts, AgreesFacts DEF Coherent
    <3>3. pub[id].revision \in Nat
      BY PublicationFacts DEF Revisions
    <3> QED
      BY <2>1, <2>2, <3>1, <3>2, <3>3 DEF Coherent
  <2> QED
    BY <2>1, <2>2
<1> QED
  BY <1>1, Invariance, PTL

\* However often a screen repeats a submission, one publication comes of it.
THEOREM RequestsCreateOnce == Spec => []OnePublicationPerRequest
<1>1. IInv => OnePublicationPerRequest
  BY DEF IInv
<1> QED
  BY <1>1, Invariance, PTL

-----------------------------------------------------------------------------
(* What a step may do *)

\* The first step of a handler stores a request and does nothing else.
LEMMA BeginsAccept ==
    ASSUME NEW h \in Handlers, AccountStep(h) \/ ScreenStep(h)
    PROVE  /\ handler[h] = Null
           /\ \E request : handler' = [handler EXCEPT ![h] = request]
           /\ UNCHANGED <<pub, history, active, screen>>
<1>1. ASSUME NEW request, Accept(h, request)
      PROVE  /\ handler[h] = Null
             /\ \E q : handler' = [handler EXCEPT ![h] = q]
             /\ UNCHANGED <<pub, history, active, screen>>
  BY <1>1 DEF Accept, Serve
<1>2. ASSUME NEW a, BeginCreate(h, a)
      PROVE  \E request : Accept(h, request)
  BY <1>2, Zenon DEF BeginCreate
<1>3. ASSUME NEW a, NEW id, BeginClone(h, a, id)
      PROVE  \E request : Accept(h, request)
  BY <1>3, Zenon DEF BeginClone
<1>4. ASSUME NEW a, NEW id, NEW expected,
             \/ BeginUpdate(h, a, id, expected) \/ BeginRestore(h, a, id, expected)
             \/ BeginWithdraw(h, a, id, expected) \/ BeginCertify(h, a, id, expected)
      PROVE  \E request : Accept(h, request)
  BY <1>4, Zenon DEF BeginUpdate, BeginRestore, BeginWithdraw, BeginCertify
<1>5. ASSUME NEW s, \/ BeginScreenCreate(h, s)
                    \/ \E id, expected : \/ BeginScreenUpdate(h, s, id, expected)
                                         \/ BeginScreenRestore(h, s, id, expected)
      PROVE  \E request : Accept(h, request)
  BY <1>5, Zenon DEF BeginScreenCreate, BeginScreenUpdate, BeginScreenRestore, ScreenAccept
<1>6. \E request : Accept(h, request)
  BY <1>2, <1>3, <1>4, <1>5, Zenon DEF AccountStep, ScreenStep
<1> QED
  BY <1>1, <1>6

\* A request only turns into an event by its own commit.
LEMMA CommittedCommits ==
    ASSUME IInv, [Next]_vars, NEW h \in Handlers, Committed(h)
    PROVE  Commit(h)
<1>0. handler \in [Handlers -> Request \cup Event \cup {Null}]
  BY DEF IInv, TypeOK
<1>1. /\ handler[h] # Null /\ handler[h].op # "announce"
      /\ handler'[h] # Null /\ handler'[h].op = "announce"
  BY DEF Committed
<1>2. ASSUME NEW g \in Handlers, NEW state, handler' = [handler EXCEPT ![g] = state]
      PROVE  g = h /\ state # Null
  BY <1>0, <1>1, <1>2
<1>3. PICK g \in Handlers :
         AccountStep(g) \/ ScreenStep(g) \/ Commit(g) \/ Replay(g) \/ Refuse(g) \/ Announce(g)
  BY <1>1 DEF Next, vars, Purge, SetWorkspaceActive, RotateScreen, SetScreenActive
<1>4. CASE Commit(g)
  <2>1. \E state : handler' = [handler EXCEPT ![g] = state]
    BY <1>4, Zenon DEF Commit, CommitCreate, CommitUpdate, CommitRestore, CommitWithdraw, CommitCertify,
            CommitScreenCreate, CommitScreenUpdate, CommitSplit, CommitScreenRestore,
            Create, Emit, Serve
  <2> QED
    BY <1>2, <1>4, <2>1, Zenon
<1>5. CASE Replay(g) \/ Refuse(g) \/ Announce(g)
  BY <1>2, <1>5 DEF Replay, Refuse, Announce, Serve
<1>6. CASE AccountStep(g) \/ ScreenStep(g)
  <2>1. handler[g] = Null /\ \E state : handler' = [handler EXCEPT ![g] = state]
    BY <1>6, BeginsAccept
  <2> QED
    BY <1>1, <1>2, <2>1
<1> QED
  BY <1>3, <1>4, <1>5, <1>6

\* Only the requests of screens commit in a screen's name, under its lock.
LEMMA ScreenCommitsLocked ==
    ASSUME IInv, [Next]_vars, NEW h \in Handlers, Committed(h), handler[h].by \in Screens
    PROVE  ScreenLock(handler[h])
<1> DEFINE q == handler[h]
<1>1. Commit(h)
  BY CommittedCommits
<1>2. q \in Request
  BY DEF Committed, IInv, TypeOK, Event
<1>3. q.op \notin AccountOps
  BY <1>2, PrincipalAssumption DEF IInv, RequestsPrepared, Prepared
<1> QED
  BY <1>1, <1>3, Zenon DEF Commit, AccountOps, Ready, CommitCreate, CommitUpdate, CommitRestore,
     CommitWithdraw, CommitCertify, CommitScreenCreate, CommitScreenUpdate, CommitSplit,
     CommitScreenRestore

\* No request of a disabled screen, or with a replaced token, writes
\* (lockClassroomScreenWrite).
THEOREM RevokedScreensAreSilent == Spec => RevokedScreenIsSilent
<1>1. IInv /\ [Next]_vars =>
        [\A h \in Handlers :
            Committed(h) /\ handler[h].by \in Screens =>
                /\ screen[handler[h].by].enabled
                /\ handler[h].credential = screen[handler[h].by].credential]_vars
  BY ScreenCommitsLocked DEF ScreenLock
<1> QED
  BY <1>1, Invariance, PTL DEF Spec, RevokedScreenIsSilent

\* What a save leaves in the publication.
LEMMA SaveFacts ==
    ASSUME IInv, NEW h \in Handlers, handler[h] \in Request,
           handler[h].op \notin Creations, NEW written, NEW by, Save(h, written, by)
    PROVE  /\ pub'[handler[h].id].doc = Merge(pub[handler[h].id].doc, handler[h].doc, written)
           /\ \A id \in Ids \ {handler[h].id} : pub'[id] = pub[id]
<1>1. handler[h].id \in Ids /\ pub[handler[h].id] \in Publication
  BY CurrentFacts DEF Save
<1>2. pub \in [Ids -> Publication \cup {Null}]
  BY DEF IInv, TypeOK
<1> QED
  BY <1>1, <1>2 DEF Save, Publication

\* A partial edit leaves the fields it does not name as the database has them
\* (mergedInput of updatePublication and updateScreenPublication).
THEOREM PatchesKeepOtherFields == Spec => PatchKeepsOtherFields
<1>1. ASSUME IInv, [Next]_vars, NEW h \in Handlers, Committed(h),
             handler[h].op \in {"update", "screenUpdate"},
             handler[h].op = "update" \/ ~Shared(handler[h]),
             NEW f \in Fields \ handler[h].named
      PROVE  pub'[handler[h].id].doc[f] = pub[handler[h].id].doc[f]
  <2> DEFINE q == handler[h]
  <2>1. Commit(h)
    BY <1>1, CommittedCommits
  <2>2. q \in Request
    BY <1>1 DEF Committed, IInv, TypeOK, Event
  <2>3. q.doc[f] = q.existing.doc[f]
    BY <1>1, <2>2, Zenon DEF IInv, RequestsPrepared, Prepared
  <2>4. PICK by : Save(h, UpdatedColumns(q), by)
    BY <1>1, <2>1, Zenon DEF Commit, Ready, CommitCreate, CommitUpdate, CommitRestore, CommitWithdraw,
       CommitCertify, CommitScreenCreate, CommitScreenUpdate, CommitSplit, CommitScreenRestore
  <2>5. q.op \notin Creations
    BY <1>1 DEF Creations
  <2>6. pub'[q.id].doc = Merge(pub[q.id].doc, q.doc, UpdatedColumns(q))
    BY <1>1, <2>2, <2>4, <2>5, SaveFacts
  <2>7. /\ q.existing.doc = pub[q.id].doc /\ pub[q.id].doc \in Doc /\ q.doc \in Doc
    BY <1>1, <2>2, <2>4, <2>5, CurrentFacts DEF Save
  <2> QED
    BY <2>3, <2>6, <2>7 DEF Merge, Doc, Fields
<1>2. IInv /\ [Next]_vars =>
        [\A h \in Handlers :
            LET q == handler[h]
            IN  /\ Committed(h)
                /\ q.op \in {"update", "screenUpdate"}
                /\ q.op = "update" \/ ~Shared(q)
                => \A f \in Fields \ q.named : pub'[q.id].doc[f] = pub[q.id].doc[f]]_vars
  BY <1>1
<1> QED
  BY <1>2, Invariance, PTL DEF Spec, PatchKeepsOtherFields

\* Only a restore brings a withdrawn publication back (updatePublication and
\* the screen handlers refuse what they read as withdrawn).
THEOREM WithdrawnStaysUntilRestored == Spec => WithdrawnUntilRestored
<1>1. ASSUME IInv, [Next]_vars, NEW id \in Ids, Exists(id),
             pub[id].doc.status = "WITHDRAWN", pub'[id] # pub[id]
      PROVE  \E h \in Handlers : Ready(h, "restore") /\ handler[h].id = id
  <2>1. PICK h \in Handlers : Commit(h)
    BY <1>1, BeginsAccept DEF Next, vars, Purge, SetWorkspaceActive, RotateScreen,
       SetScreenActive, Replay, Refuse, Announce
  <2> DEFINE q == handler[h]
  <2>2. pub \in [Ids -> Publication \cup {Null}]
    BY <1>1 DEF IInv, TypeOK
  <2>3. CASE CommitCreate(h) \/ CommitScreenCreate(h)
    BY <1>1, <2>2, <2>3 DEF CommitCreate, CommitScreenCreate, Create
  <2>4. ASSUME NEW op \in {"update", "restore", "withdraw", "screenUpdate", "screenRestore",
                           "certify"},
               Ready(h, op), Current(q), op # "restore"
        PROVE  q.id # id
    <3>1. q \in Request /\ q.op = op
      BY <1>1, <2>4, ReadyIsRequest DEF IInv, AllOperations, Ready
    <3>2. q.existing.doc.status # "WITHDRAWN"
      BY <1>1, <2>4, <3>1 DEF IInv, RequestsPrepared, Prepared, Creations
    <3>3. q.existing.doc = pub[q.id].doc
      BY <1>1, <2>4, <3>1, CurrentFacts DEF Creations
    <3> QED
      BY <1>1, <3>2, <3>3
  <2>5. CASE CommitUpdate(h) \/ CommitWithdraw(h) \/ CommitScreenUpdate(h)
             \/ CommitScreenRestore(h)
    BY <1>1, <2>2, <2>4, <2>5 DEF CommitUpdate, CommitWithdraw, CommitScreenUpdate,
       CommitScreenRestore, Save, Ready
  <2>6. CASE CommitCertify(h)
    BY <1>1, <2>2, <2>4, <2>6, ZenonT(30) DEF CommitCertify, Ready
  <2>7. CASE CommitSplit(h)
    BY <1>1, <2>2, <2>4, <2>7, Zenon DEF CommitSplit, Ready
  <2>8. CASE CommitRestore(h)
    BY <1>1, <2>2, <2>8 DEF CommitRestore, Save, Ready
  <2> QED
    BY <2>1, <2>3, <2>5, <2>6, <2>7, <2>8 DEF Commit
<1>2. IInv /\ [Next]_vars =>
        [\A id \in Ids :
            /\ Exists(id) /\ pub[id].doc.status = "WITHDRAWN"
            /\ pub'[id] # pub[id]
            => \E h \in Handlers : Ready(h, "restore") /\ handler[h].id = id]_vars
  BY <1>1
<1> QED
  BY <1>2, Invariance, PTL DEF Spec, WithdrawnUntilRestored

-----------------------------------------------------------------------------
(* What a step does to the tables *)

\* The tables but for one publication.
OthersKept(ids) == \A i \in Ids \ ids : pub'[i] = pub[i] /\ history'[i] = history[i]

\* What the handler will broadcast.
Announces(h, rooms, statuses) ==
    \E public \in BOOLEAN :
        /\ handler' = [handler EXCEPT ![h] = [op |-> "announce", rooms |-> rooms,
                                              public |-> public]]
        /\ "PUBLISHED" \in statuses => public

\* A save appends one row, which says what the publication says.
Wrote(h, by) ==
    LET q == handler[h]
        p == pub[q.id]
        doc == SavedDoc(p, q)
        r == p.revision + 1
    IN  /\ q.id \in Ids /\ Exists(q.id)
        /\ q.existing.doc = p.doc
        /\ doc \in Doc /\ doc.body = q.doc.body /\ doc.status = q.doc.status
        /\ doc.targets = q.doc.targets
        /\ r \in Revisions
        /\ pub'[q.id] = [p EXCEPT !.doc = doc, !.revision = r, !.certifiedBy = by]
        /\ history'[q.id] = [history[q.id] EXCEPT ![r] = [doc |-> q.doc, certifiedBy |-> by]]
        /\ OthersKept({q.id})

Saved(h, by) ==
    LET q == handler[h]
        p == pub[q.id]
    IN  /\ q \in Request
        /\ q.op \in {"update", "restore", "withdraw", "screenUpdate", "screenRestore"}
        /\ q.op = "screenUpdate" => ~Shared(q)
        /\ Wrote(h, by)
        /\ by \in Accounts \cup {Null}
        /\ \/ by \in {Null, q.by}
           \/ q.op = "screenRestore" /\ by = q.certifiedBy
        /\ Announces(h, p.doc.targets \cup q.doc.targets, {q.doc.status, p.doc.status})

\* A creation writes a publication and its first row.
Made(h, id, by) ==
    LET q == handler[h]
    IN  /\ q \in Request
        /\ q.op \in Creations
        /\ ~Exists(id)
        /\ pub'[id] = NewPublication(q, by)
        /\ history'[id] = [history[id] EXCEPT ![1] = [doc |-> q.doc, certifiedBy |-> by]]
        /\ OthersKept({id})
        /\ by \in Accounts \cup {Null} /\ by \in {Null, q.by}
        /\ Announces(h, q.doc.targets, {q.doc.status})

\* A certification marks the current row and the publication.
Certified(h) ==
    LET q == handler[h]
        p == pub[q.id]
        r == p.revision
    IN  /\ q \in Request
        /\ q.by \in Accounts
        /\ q.id \in Ids /\ Exists(q.id)
        /\ p.certifiedBy = Null
        /\ pub'[q.id] = [p EXCEPT !.certifiedBy = q.by]
        /\ history'[q.id] = [history[q.id] EXCEPT
                                ![r] = [history[q.id][r] EXCEPT !.certifiedBy = q.by]]
        /\ OthersKept({q.id})
        /\ Announces(h, p.doc.targets, {p.doc.status})

\* A split appends a row to the original and starts the copy with two rows.
SplitOff(h, fork) ==
    LET q == handler[h]
        p == pub[q.id]
        r == p.revision + 1
        left == [p.doc EXCEPT !.targets = @ \ q.doc.targets]
        by == q.existing.certifiedBy
    IN  /\ CommitSplit(h)
        /\ q \in Request /\ q.op = "screenUpdate"
        /\ q.id \in Ids /\ Exists(q.id) /\ fork # q.id /\ ~Exists(fork)
        /\ q.doc.targets \subseteq p.doc.targets
        /\ by \in {Null, p.certifiedBy}
        /\ r \in Revisions
        /\ pub'[q.id] = [p EXCEPT !.doc = left, !.revision = r]
        /\ pub'[fork] = [NewPublication(q, Null) EXCEPT !.revision = 2]
        /\ history'[q.id] = [history[q.id] EXCEPT
                ![r] = [doc |-> Stripped(left), certifiedBy |-> by]]
        /\ history'[fork] = [history[fork] EXCEPT
                ![1] = [doc |-> Stripped([p.doc EXCEPT !.targets = q.doc.targets]),
                        certifiedBy |-> by],
                ![2] = [doc |-> q.doc, certifiedBy |-> Null]]
        /\ OthersKept({q.id, fork})
        /\ Announces(h, p.doc.targets, {"PUBLISHED"})

\* The cleanup erases the body of an old row nobody certified.
Purged(id, r) ==
    LET row == history[id][r]
    IN  /\ Exists(id) /\ row # Null
        /\ r # pub[id].revision
        /\ row.certifiedBy = Null
        /\ history' = [history EXCEPT ![id] = [history[id] EXCEPT
                                                  ![r] = [row EXCEPT !.doc = Shell(@)]]]
        /\ UNCHANGED <<pub, handler>>

\* What Emit leaves behind is an announcement.
LEMMA EmitAnnounces ==
    ASSUME NEW h \in Handlers, NEW rooms, NEW status, NEW previous,
           Emit(h, rooms, status, previous)
    PROVE  Announces(h, rooms, {status, previous})
<1>1. ("PUBLISHED" \in {status, previous}) \in BOOLEAN
  OBVIOUS
<1> QED
  BY <1>1, Zenon DEF Emit, Serve, Announces

\* Under the invariant a save writes the whole prepared snapshot, to the
\* columns and to the new row alike, and announces where both versions are.
LEMMA SaveWrites ==
    ASSUME IInv, NEW h \in Handlers, handler[h] \in Request,
           handler[h].op \in {"update", "restore", "withdraw", "screenUpdate", "screenRestore"},
           NEW written \in SUBSET Fields, NEW by, Save(h, written, by),
           Covers(handler[h], written)
    PROVE  Wrote(h, by)
<1> DEFINE q == handler[h]
           p == pub[q.id]
           r == p.revision + 1
           doc == SavedDoc(p, q)
<1>1. /\ q.id \in Ids /\ Exists(q.id) /\ p \in Publication
      /\ p.revision = q.expected /\ r \in Revisions
      /\ q.existing.doc = p.doc /\ p.doc \in Doc /\ q.doc \in Doc
  BY CurrentFacts DEF Save, Creations
<1>0. Prepared(q)
  BY DEF IInv, RequestsPrepared
<1>2. /\ Merge(p.doc, q.doc, written) = doc /\ doc \in Doc
      /\ doc.body = q.doc.body /\ doc.status = q.doc.status
      /\ doc.targets = q.doc.targets
  BY <1>0, <1>1, SavedDocAgrees, AgreesFacts
<1> HIDE DEF doc
<1>3. /\ pub \in [Ids -> Publication \cup {Null}]
      /\ history \in [Ids -> [Revisions -> Row \cup {Null}]]
  BY DEF IInv, TypeOK
<1>4. /\ pub' = [pub EXCEPT ![q.id] = [p EXCEPT !.doc = doc, !.revision = r,
                                                !.certifiedBy = by]]
      /\ history' = [history EXCEPT ![q.id][r] = [doc |-> q.doc, certifiedBy |-> by]]
  BY <1>1, <1>2 DEF Save, NextRevision
<1>5. OthersKept({q.id})
  BY <1>1, <1>3, <1>4 DEF OthersKept
<1>6. /\ pub'[q.id] = [p EXCEPT !.doc = doc, !.revision = r, !.certifiedBy = by]
      /\ history'[q.id] = [history[q.id] EXCEPT ![r] = [doc |-> q.doc, certifiedBy |-> by]]
  BY <1>1, <1>3, <1>4
<1> QED
  BY <1>1, <1>2, <1>5, <1>6, Zenon DEF Wrote, doc

\* Every save of an account or a screen.
LEMMA SavesWrite ==
    ASSUME IInv, NEW h \in Handlers,
           \/ CommitUpdate(h) \/ CommitRestore(h) \/ CommitWithdraw(h)
           \/ CommitScreenUpdate(h) \/ CommitScreenRestore(h)
    PROVE  \E by : Saved(h, by)
<1> DEFINE q == handler[h]
<1>1. PICK op \in {"update", "restore", "withdraw", "screenUpdate", "screenRestore"} :
         Ready(h, op)
  BY DEF CommitUpdate, CommitRestore, CommitWithdraw, CommitScreenUpdate, CommitScreenRestore
<1>2. q \in Request /\ q.op = op
  BY <1>1, ReadyIsRequest DEF IInv, AllOperations, Ready
<1>3. Prepared(q)
  BY <1>2 DEF IInv, RequestsPrepared
<1>4. /\ q.doc \in Doc /\ q.existing.doc = pub[q.id].doc /\ pub[q.id].doc \in Doc
  BY <1>2, CurrentFacts, Zenon DEF Creations, Save, CommitUpdate, CommitRestore, CommitWithdraw,
     CommitScreenUpdate, CommitScreenRestore
<1>5. Rooms(q) = pub[q.id].doc.targets \cup q.doc.targets
  BY <1>4 DEF Rooms
<1>6. op \in AccountOps => q.by \in Accounts
  BY <1>2, <1>3 DEF Prepared
<1>7. /\ Certification(q.by, q.type, q.doc.targets) \in {Null, q.by}
      /\ q.certifiedBy \in Accounts \cup {Null}
  BY <1>2 DEF Certification, Request
<1>8. /\ q.op \in {"update", "screenUpdate"} => Covers(q, UpdatedColumns(q))
      /\ q.op \in {"restore", "screenRestore"} => Covers(q, Fields)
      /\ q.op = "withdraw" => Covers(q, {"status"})
  BY <1>3 DEF Prepared, UpdatedColumns, Fields, Covers
<1>9. UpdatedColumns(q) \in SUBSET Fields /\ Fields \in SUBSET Fields
      /\ {"status"} \in SUBSET Fields
  BY DEF UpdatedColumns, Fields
<1>10. CASE CommitUpdate(h)
  <2> DEFINE by == Certification(q.by, q.type, q.doc.targets)
  <2>1. op = "update" /\ Save(h, UpdatedColumns(q), by)
        /\ Emit(h, Rooms(q), q.doc.status, q.existing.doc.status)
    BY <1>2, <1>10 DEF CommitUpdate, Ready
  <2>2. by \in Accounts \cup {Null}
    BY <1>6, <1>7, <2>1 DEF AccountOps
  <2>3. Announces(h, pub[q.id].doc.targets \cup q.doc.targets,
                  {q.doc.status, pub[q.id].doc.status})
    BY <1>4, <1>5, <2>1, EmitAnnounces
  <2> HIDE DEF by
  <2>6. Wrote(h, by)
    BY <1>2, <1>7, <1>8, <1>9, <2>1, <2>2, SaveWrites
  <2>7. by \in {Null, q.by}
    BY <1>7 DEF by
  <2>8. Saved(h, by)
    BY <1>2, <1>7, <1>8, <1>9, <2>1, <2>2, <2>3, <2>6, <2>7 DEF Saved
  <2> QED
    BY <2>8
<1>11. CASE CommitRestore(h)
  <2> DEFINE by == Certification(q.by, q.type, q.doc.targets)
  <2>1. op = "restore" /\ Save(h, Fields, by)
        /\ Emit(h, Rooms(q), q.doc.status, q.existing.doc.status)
    BY <1>2, <1>11 DEF CommitRestore, Ready
  <2>2. by \in Accounts \cup {Null}
    BY <1>6, <1>7, <2>1 DEF AccountOps
  <2>3. Announces(h, pub[q.id].doc.targets \cup q.doc.targets,
                  {q.doc.status, pub[q.id].doc.status})
    BY <1>4, <1>5, <2>1, EmitAnnounces
  <2> HIDE DEF by
  <2>6. Wrote(h, by)
    BY <1>2, <1>8, <1>9, <2>1, SaveWrites
  <2>7. by \in {Null, q.by}
    BY <1>7 DEF by
  <2>8. Saved(h, by)
    BY <1>2, <1>7, <1>9, <2>1, <2>2, <2>3, <2>6, <2>7 DEF Saved
  <2> QED
    BY <2>8
<1>12. CASE CommitWithdraw(h)
  <2> DEFINE by == Certification(q.by, q.type, q.doc.targets)
  <2>1. op = "withdraw" /\ Save(h, {"status"}, by)
        /\ Emit(h, pub[q.id].doc.targets, "WITHDRAWN", q.existing.doc.status)
    BY <1>2, <1>12 DEF CommitWithdraw, Ready
  <2>2. by \in Accounts \cup {Null}
    BY <1>6, <1>7, <2>1 DEF AccountOps
  <2>3. q.doc = [Stripped(pub[q.id].doc) EXCEPT !.status = "WITHDRAWN"]
    BY <1>2, <1>3, <1>4, <2>1 DEF Prepared
  <2>4. q.doc.status = "WITHDRAWN" /\ q.doc.targets = pub[q.id].doc.targets
    <3>1. /\ Stripped(pub[q.id].doc) \in Doc
          /\ Stripped(pub[q.id].doc).targets = pub[q.id].doc.targets
      BY <1>4, StrippedFacts
    <3> QED
      BY <2>3, <3>1, ZenonT(30) DEF Doc
  <2>5. Announces(h, pub[q.id].doc.targets \cup q.doc.targets,
                  {q.doc.status, pub[q.id].doc.status})
    <3>1. pub[q.id].doc.targets \cup q.doc.targets = pub[q.id].doc.targets
      BY <2>4
    <3> QED
      BY <1>4, <2>1, <2>4, <3>1, EmitAnnounces, Zenon
  <2> HIDE DEF by
  <2>6. Wrote(h, by)
    BY <1>2, <1>8, <1>9, <2>1, SaveWrites, Zenon
  <2>7. by \in {Null, q.by}
    BY <1>7 DEF by
  <2>8. Saved(h, by)
    BY <1>2, <1>7, <1>9, <2>1, <2>2, <2>4, <2>5, <2>6, <2>7 DEF Saved
  <2> QED
    BY <2>8
<1>13. CASE CommitScreenUpdate(h)
  <2>1. op = "screenUpdate" /\ ~Shared(q) /\ Save(h, UpdatedColumns(q), Null)
        /\ Emit(h, Rooms(q), q.doc.status, q.existing.doc.status)
    BY <1>2, <1>13 DEF CommitScreenUpdate, Ready, ScreenCertification
  <2>3. Announces(h, pub[q.id].doc.targets \cup q.doc.targets,
                  {q.doc.status, pub[q.id].doc.status})
    BY <1>4, <1>5, <2>1, EmitAnnounces
  <2>6. Wrote(h, Null)
    BY <1>2, <1>8, <1>9, <2>1, SaveWrites
  <2>7. Saved(h, Null)
    BY <1>2, <2>1, <2>3, <2>6 DEF Saved
  <2> QED
    BY <2>7
<1>14. CASE CommitScreenRestore(h)
  <2>1. op = "screenRestore" /\ Save(h, Fields, q.certifiedBy)
        /\ Emit(h, Rooms(q), q.doc.status, q.existing.doc.status)
    BY <1>2, <1>14 DEF CommitScreenRestore, Ready
  <2>3. Announces(h, pub[q.id].doc.targets \cup q.doc.targets,
                  {q.doc.status, pub[q.id].doc.status})
    BY <1>4, <1>5, <2>1, EmitAnnounces
  <2>6. Wrote(h, q.certifiedBy)
    BY <1>2, <1>8, <1>9, <2>1, SaveWrites
  <2>7. Saved(h, q.certifiedBy)
    BY <1>2, <1>7, <2>1, <2>3, <2>6 DEF Saved
  <2> QED
    BY <2>7
<1> QED
  BY <1>10, <1>11, <1>12, <1>13, <1>14

\* The transactions that create publications, as one shape.
LEMMA CreationsMake ==
    ASSUME IInv, NEW h \in Handlers, CommitCreate(h) \/ CommitScreenCreate(h)
    PROVE  \E id \in Ids : \E by : Made(h, id, by)
<1> DEFINE q == handler[h]
<1>1. PICK op \in Creations : Ready(h, op)
  BY DEF CommitCreate, CommitScreenCreate, Creations
<1>2. q \in Request /\ q.op \in Creations
  BY <1>1, ReadyIsRequest DEF IInv, AllOperations, Ready, Creations
<1>3. Prepared(q)
  BY <1>2 DEF IInv, RequestsPrepared
<1>4. PICK by : Create(h, by) /\ by \in {Null, q.by} /\ by \in Accounts \cup {Null}
  <2>1. CASE CommitCreate(h)
    <3>1. q.op \in {"create", "clone"} /\ q.by \in Accounts
      BY <1>3, <2>1 DEF CommitCreate, Ready, Prepared, AccountOps
    <3> QED
      BY <2>1, <3>1 DEF CommitCreate, Certification
  <2>2. CASE CommitScreenCreate(h)
    BY <2>2 DEF CommitScreenCreate
  <2> QED
    BY <2>1, <2>2
<1>5. PICK id \in Ids :
         /\ ~Exists(id)
         /\ pub' = [pub EXCEPT ![id] = NewPublication(q, by)]
         /\ history' = [history EXCEPT ![id][1] = [doc |-> q.doc, certifiedBy |-> by]]
         /\ Emit(h, q.doc.targets, q.doc.status, Null)
  BY <1>4 DEF Create
<1>6. /\ pub \in [Ids -> Publication \cup {Null}]
      /\ history \in [Ids -> [Revisions -> Row \cup {Null}]]
  BY DEF IInv, TypeOK
<1>7. OthersKept({id})
  BY <1>5, <1>6 DEF OthersKept
<1>8. Announces(h, q.doc.targets, {q.doc.status})
  <2>1. Announces(h, q.doc.targets, {q.doc.status, Null})
    BY <1>5, EmitAnnounces
  <2> QED
    BY <2>1 DEF Announces
<1>9. /\ pub'[id] = NewPublication(q, by)
      /\ history'[id] = [history[id] EXCEPT ![1] = [doc |-> q.doc, certifiedBy |-> by]]
  BY <1>5, <1>6
<1>10. Made(h, id, by)
  BY <1>2, <1>4, <1>5, <1>7, <1>8, <1>9 DEF Made
<1> QED
  BY <1>10

\* The transaction of a certification.
LEMMA CertifyMarks ==
    ASSUME IInv, NEW h \in Handlers, CommitCertify(h)
    PROVE  Certified(h)
<1> DEFINE q == handler[h]
           p == pub[q.id]
<1>1. q \in Request /\ q.op = "certify"
  BY ReadyIsRequest DEF CommitCertify, IInv, AllOperations, Ready
<1>2. q.by \in Accounts
  BY <1>1 DEF IInv, RequestsPrepared, Prepared, AccountOps
<1>3. /\ q.id \in Ids /\ Exists(q.id) /\ p \in Publication
      /\ p.revision = q.expected /\ q.expected \in Revisions
  BY <1>1, CurrentFacts DEF CommitCertify, Creations
<1>4. /\ pub \in [Ids -> Publication \cup {Null}]
      /\ history \in [Ids -> [Revisions -> Row \cup {Null}]]
  BY DEF IInv, TypeOK
<1>5. /\ p.certifiedBy = Null
      /\ history[q.id][q.expected] # Null
      /\ pub' = [pub EXCEPT ![q.id].certifiedBy = q.by]
      /\ history' = [history EXCEPT ![q.id][q.expected].certifiedBy = q.by]
      /\ Emit(h, p.doc.targets, p.doc.status, Null)
  BY Zenon DEF CommitCertify
<1>6. OthersKept({q.id})
  BY <1>4, <1>5 DEF OthersKept
<1>7. Announces(h, p.doc.targets, {p.doc.status})
  <2>1. Announces(h, p.doc.targets, {p.doc.status, Null})
    BY <1>5, EmitAnnounces, Zenon
  <2> QED
    BY <2>1 DEF Announces
<1>8. /\ pub'[q.id] = [p EXCEPT !.certifiedBy = q.by]
      /\ history'[q.id] = [history[q.id] EXCEPT
             ![p.revision] = [history[q.id][p.revision] EXCEPT !.certifiedBy = q.by]]
  BY <1>3, <1>4, <1>5, Zenon
<1> QED
  BY <1>1, <1>2, <1>3, <1>5, <1>6, <1>7, <1>8, Zenon DEF Certified

\* The transaction that splits a class off.
LEMMA SplitsOff ==
    ASSUME IInv, NEW h \in Handlers, CommitSplit(h)
    PROVE  \E fork \in Ids : SplitOff(h, fork)
<1> DEFINE q == handler[h]
           p == pub[q.id]
           r == p.revision + 1
           left == [p.doc EXCEPT !.targets = @ \ q.doc.targets]
           local == [p.doc EXCEPT !.targets = q.doc.targets]
           by == q.existing.certifiedBy
<1>1. q \in Request /\ q.op = "screenUpdate"
  BY ReadyIsRequest DEF CommitSplit, IInv, AllOperations, Ready
<1>2. /\ q.id \in Ids /\ Exists(q.id) /\ p \in Publication
      /\ p.revision = q.expected /\ r \in Revisions
      /\ q.existing.doc = p.doc /\ p.doc \in Doc /\ by \in {Null, p.certifiedBy}
  BY <1>1, CurrentFacts, Zenon DEF CommitSplit, Creations
<1>3. /\ pub \in [Ids -> Publication \cup {Null}]
      /\ history \in [Ids -> [Revisions -> Row \cup {Null}]]
  BY DEF IInv, TypeOK
<1>4. Remaining(q) = Stripped(left)
  BY <1>2 DEF Remaining
<1>5. PICK fork \in Ids :
        /\ ~Exists(fork)
        /\ pub' = [pub EXCEPT
              ![q.id] = [p EXCEPT !.doc.targets = @ \ q.doc.targets, !.revision = r],
              ![fork] = [NewPublication(q, Null) EXCEPT !.revision = 2]]
        /\ history' = [history EXCEPT
              ![q.id][r] = [doc |-> Stripped(left), certifiedBy |-> by],
              ![fork][1] = [doc |-> Stripped(local), certifiedBy |-> by],
              ![fork][2] = [doc |-> q.doc, certifiedBy |-> Null]]
  BY <1>2, <1>4, ZenonT(30) DEF CommitSplit, ScreenCertification, NextRevision
<1>6. q.doc.targets \subseteq p.doc.targets
  BY Zenon DEF CommitSplit
<1>7. fork # q.id
  BY <1>2, <1>5, Zenon
<1>8. /\ pub'[q.id] = [p EXCEPT !.doc = left, !.revision = r]
      /\ pub'[fork] = [NewPublication(q, Null) EXCEPT !.revision = 2]
  BY <1>2, <1>3, <1>5, <1>7, Zenon DEF Publication
<1>9. /\ history'[q.id] = [history[q.id] EXCEPT
             ![r] = [doc |-> Stripped(left), certifiedBy |-> by]]
      /\ history'[fork] = [history[fork] EXCEPT
             ![1] = [doc |-> Stripped(local), certifiedBy |-> by],
             ![2] = [doc |-> q.doc, certifiedBy |-> Null]]
  BY <1>2, <1>3, <1>5, <1>7, Zenon
<1>10. OthersKept({q.id, fork})
  BY <1>3, <1>5, Zenon DEF OthersKept
<1>11. Announces(h, p.doc.targets, {"PUBLISHED"})
  <2>1. Announces(h, p.doc.targets, {"PUBLISHED", Null})
    BY <1>2, EmitAnnounces, Zenon DEF CommitSplit
  <2> QED
    BY <2>1, Zenon DEF Announces
<1>12. SplitOff(h, fork)
  BY <1>1, <1>2, <1>5, <1>6, <1>7, <1>8, <1>9, <1>10, <1>11, Zenon DEF SplitOff
<1> QED
  BY <1>12

\* One row of the cleanup.
LEMMA PurgeErases ==
    ASSUME IInv, NEW id \in Ids, NEW r \in Revisions, Purge(id, r)
    PROVE  Purged(id, r)
<1>1. history \in [Ids -> [Revisions -> Row \cup {Null}]]
  BY DEF IInv, TypeOK
<1>2. history' = [history EXCEPT ![id] = [history[id] EXCEPT
                     ![r] = [history[id][r] EXCEPT !.doc = Shell(@)]]]
  BY <1>1 DEF Purge
<1> QED
  BY <1>2 DEF Purged, Purge, Purgeable

\* Every transaction has one of four shapes.
LEMMA CommitCases ==
    ASSUME IInv, NEW h \in Handlers, Commit(h)
    PROVE  \/ \E by : Saved(h, by)
           \/ \E id \in Ids : \E by : Made(h, id, by)
           \/ Certified(h)
           \/ \E fork \in Ids : SplitOff(h, fork)
  BY SavesWrite, CreationsMake, CertifyMarks, SplitsOff, Zenon DEF Commit

-----------------------------------------------------------------------------
(* Who has vouched for what *)

\* The newest row's certification is the publication's, unless a split has cut
\* it off.
HeadRowKnown ==
    \A id \in Ids : Exists(id) =>
        history[id][pub[id].revision].certifiedBy \in {Null, pub[id].certifiedBy}

\* Whoever a publication names has certified a version with its content.
CertifiersVouched ==
    \A id \in Ids : Exists(id) /\ pub[id].certifiedBy # Null =>
        Vouched(pub[id].certifiedBy, pub[id].doc)

\* So has whoever the version names that a screen is about to restore.
RestoreVouched(q) ==
    q.op = "screenRestore" /\ q.certifiedBy # Null => Vouched(q.certifiedBy, q.doc)

RestoresVouched == \A h \in Handlers : handler[h] \in Request => RestoreVouched(handler[h])

\* A screen's request keeps to its class, and so did what it read, unless it
\* takes its class out of a shared assignment.
InOwnClass(q) ==
    /\ q.by \in Screens => q.doc.targets \subseteq ScreenWorkspaces[q.by]
    /\ q.op = "screenRestore" \/ (q.op = "screenUpdate" /\ ~Shared(q)) =>
          q.existing.doc.targets \subseteq ScreenWorkspaces[q.by]

ScreensInOwnClass == \A h \in Handlers : handler[h] \in Request => InOwnClass(handler[h])

VouchIInv == HeadRowKnown /\ CertifiersVouched /\ RestoresVouched /\ ScreensInOwnClass

\* Of two sets that meet, the one with at most one element is in the other.
LEMMA SmallSubset ==
    ASSUME NEW S, NEW T, IsFiniteSet(S), ~(Cardinality(S) > 1), S \cap T # {}
    PROVE  S \subseteq T
<1>1. PICK x : x \in S /\ x \in T
  OBVIOUS
<1>2. IsFiniteSet(S \ {x}) /\ Cardinality(S \ {x}) = Cardinality(S) - 1
  BY <1>1, FS_RemoveElement
<1>3. Cardinality(S) \in Nat /\ Cardinality(S \ {x}) \in Nat
  BY <1>2, FS_CardinalityType
<1>4. Cardinality(S \ {x}) = 0
  BY <1>2, <1>3
<1>5. S \ {x} = {}
  BY <1>2, <1>4, FS_EmptySet
<1> QED
  BY <1>1, <1>5

\* The first step of a handler; a request that ends without a write, or an
\* announcement.
Begins(h) == \E q : /\ handler[h] = Null
                   /\ handler' = [handler EXCEPT ![h] = q]
                   /\ UNCHANGED <<pub, history>>
                   /\ InOwnClass(q) /\ RestoreVouched(q)

Ends(h) == handler' = [handler EXCEPT ![h] = Null] /\ UNCHANGED <<pub, history>>

\* A first step only takes in a request, which keeps to its class and whose
\* certification is vouched for.
LEMMA BeginsFit ==
    ASSUME IInv, NEW h \in Handlers, AccountStep(h) \/ ScreenStep(h)
    PROVE  Begins(h)
<1>1. ASSUME NEW q, Accept(h, q), InOwnClass(q), RestoreVouched(q)
      PROVE  Begins(h)
  BY <1>1 DEF Accept, Serve, Begins
<1>2. ASSUME NEW a \in Accounts, NEW q, q.by = a, q.op \in AccountOps
      PROVE  InOwnClass(q) /\ RestoreVouched(q)
  BY <1>2, PrincipalAssumption DEF InOwnClass, RestoreVouched, AccountOps
<1>3. ASSUME NEW a \in Accounts, BeginCreate(h, a)
      PROVE  \E q : Accept(h, q) /\ InOwnClass(q) /\ RestoreVouched(q)
  <2>1. PICK type, doc :
           Accept(h, [NewRequest("create", a, Null, 1, Null, doc, Fields) EXCEPT !.type = type])
    BY <1>3 DEF BeginCreate
  <2> DEFINE q == [NewRequest("create", a, Null, 1, Null, doc, Fields) EXCEPT !.type = type]
  <2>2. q.by = a /\ q.op \in AccountOps
    BY DEF NewRequest, AccountOps
  <2> QED
    BY <1>2, <2>1, <2>2
<1>4. ASSUME NEW a \in Accounts, NEW id \in Ids, BeginClone(h, a, id)
      PROVE  \E q : Accept(h, q) /\ InOwnClass(q) /\ RestoreVouched(q)
  <2> DEFINE doc == [Stripped(pub[id].doc) EXCEPT !.status = "DRAFT"]
             q == [NewRequest("clone", a, Null, 1, Null, doc, Fields) EXCEPT
                      !.type = pub[id].type]
  <2>1. Accept(h, q)
    BY <1>4 DEF BeginClone
  <2>2. q.by = a /\ q.op \in AccountOps
    BY DEF NewRequest, AccountOps
  <2> QED
    BY <1>2, <2>1, <2>2
<1>5. ASSUME NEW a \in Accounts, NEW id \in Ids, NEW expected,
             \/ BeginUpdate(h, a, id, expected) \/ BeginRestore(h, a, id, expected)
             \/ BeginWithdraw(h, a, id, expected) \/ BeginCertify(h, a, id, expected)
      PROVE  \E q : Accept(h, q) /\ InOwnClass(q) /\ RestoreVouched(q)
  <2>1. ASSUME NEW op \in AccountOps, NEW doc, NEW named,
               Accept(h, NewRequest(op, a, id, expected, pub[id], doc, named))
        PROVE  \E q : Accept(h, q) /\ InOwnClass(q) /\ RestoreVouched(q)
    <3> DEFINE q == NewRequest(op, a, id, expected, pub[id], doc, named)
    <3>1. q.by = a /\ q.op \in AccountOps
      BY DEF NewRequest
    <3> QED
      BY <1>2, <2>1, <3>1
  <2>2. \E op \in AccountOps : \E doc, named :
           Accept(h, NewRequest(op, a, id, expected, pub[id], doc, named))
    <3>1. {"update", "restore", "withdraw", "certify"} \subseteq AccountOps
      BY DEF AccountOps
    <3>2. CASE BeginUpdate(h, a, id, expected)
      BY <3>1, <3>2 DEF BeginUpdate
    <3>3. CASE BeginRestore(h, a, id, expected)
      BY <3>1, <3>3 DEF BeginRestore
    <3>4. CASE BeginWithdraw(h, a, id, expected)
      BY <3>1, <3>4 DEF BeginWithdraw
    <3>5. CASE BeginCertify(h, a, id, expected)
      BY <3>1, <3>5 DEF BeginCertify
    <3> QED
      BY <1>5, <3>2, <3>3, <3>4, <3>5
  <2> QED
    BY <2>1, <2>2
<1>6. ASSUME NEW s \in Screens, BeginScreenCreate(h, s)
      PROVE  \E q : Accept(h, q) /\ InOwnClass(q) /\ RestoreVouched(q)
  <2>1. PICK body \in Bodies, w \in ScreenWorkspaces[s], k \in Keys \cup {Null} :
           LET doc == [body |-> body, reason |-> Null, status |-> "PUBLISHED", targets |-> {w}]
           IN  ScreenAccept(h, s, [NewRequest("screenCreate", s, Null, 1, Null, doc, Fields)
                                   EXCEPT !.key = IF k = Null THEN Null ELSE <<s, k>>])
    BY <1>6 DEF BeginScreenCreate
  <2> DEFINE doc == [body |-> body, reason |-> Null, status |-> "PUBLISHED", targets |-> {w}]
             q == [[NewRequest("screenCreate", s, Null, 1, Null, doc, Fields)
                    EXCEPT !.key = IF k = Null THEN Null ELSE <<s, k>>]
                   EXCEPT !.credential = screen[s].credential]
  <2>2. Accept(h, q)
    BY <2>1 DEF ScreenAccept
  <2>3. q.by = s /\ q.op = "screenCreate" /\ q.doc.targets = {w}
    BY DEF NewRequest
  <2>4. InOwnClass(q) /\ RestoreVouched(q)
    BY <2>3 DEF InOwnClass, RestoreVouched
  <2> QED
    BY <2>2, <2>4
<1>7. ASSUME NEW s \in Screens, NEW id \in Ids, NEW expected, Exists(id),
             BeginScreenUpdate(h, s, id, expected)
      PROVE  \E q : Accept(h, q) /\ InOwnClass(q) /\ RestoreVouched(q)
  <2>1. PICK named, doc :
           /\ ScreenMayWrite(s, doc.targets)
           /\ ScreenAccept(h, s, NewRequest("screenUpdate", s, id, expected, pub[id], doc, named))
    BY <1>7, Zenon DEF BeginScreenUpdate
  <2> DEFINE q == [NewRequest("screenUpdate", s, id, expected, pub[id], doc, named)
                   EXCEPT !.credential = screen[s].credential]
  <2>2. Accept(h, q)
    BY <2>1 DEF ScreenAccept
  <2>3. q.by = s /\ q.op = "screenUpdate" /\ q.doc = doc /\ q.existing = pub[id]
    BY DEF NewRequest
  <2>4. pub[id].doc.targets \cap ScreenWorkspaces[s] # {}
    BY <1>7 DEF BeginScreenUpdate, ScreenMayAccess
  <2>5. IsFiniteSet(pub[id].doc.targets)
    <3>1. pub[id].doc.targets \subseteq Workspaces
      BY <1>7, PublicationFacts DEF Doc
    <3> QED
      BY <3>1, FiniteAssumption, FS_Subset
  <2>6. ~Shared(q) => pub[id].doc.targets \subseteq ScreenWorkspaces[s]
    BY <2>3, <2>4, <2>5, SmallSubset DEF Shared
  <2>7. doc.targets \subseteq ScreenWorkspaces[s]
    BY <2>1 DEF ScreenMayWrite
  <2>8. InOwnClass(q) /\ RestoreVouched(q)
    BY <2>3, <2>6, <2>7 DEF InOwnClass, RestoreVouched
  <2> QED
    BY <2>2, <2>8
<1>8. ASSUME NEW s \in Screens, NEW id \in Ids, NEW expected, Exists(id),
             BeginScreenRestore(h, s, id, expected)
      PROVE  \E q : Accept(h, q) /\ InOwnClass(q) /\ RestoreVouched(q)
  <2>1. PICK source \in Revisions :
           /\ history[id][source] # Null
           /\ ScreenMayWrite(s, history[id][source].doc.targets)
           /\ ScreenAccept(h, s, [NewRequest("screenRestore", s, id, expected, pub[id],
                                             Stripped(history[id][source].doc), Fields)
                                  EXCEPT !.certifiedBy = history[id][source].certifiedBy])
    BY <1>8 DEF BeginScreenRestore
  <2> DEFINE row == history[id][source]
             doc == Stripped(row.doc)
             n == NewRequest("screenRestore", s, id, expected, pub[id], doc, Fields)
             q == [[n EXCEPT !.certifiedBy = row.certifiedBy]
                   EXCEPT !.credential = screen[s].credential]
  <2>2. Accept(h, q)
    BY <2>1 DEF ScreenAccept
  <2>0. doc.body = row.doc.body /\ doc.targets = row.doc.targets
    BY <1>8, <2>1, PublicationFacts, StrippedFacts
  <2> HIDE DEF doc
  <2>3. /\ q.by = s /\ q.op = "screenRestore" /\ q.doc = doc /\ q.existing = pub[id]
        /\ q.certifiedBy = row.certifiedBy
    BY DEF NewRequest
  <2>4. /\ pub[id].doc.targets \subseteq ScreenWorkspaces[s]
        /\ doc.targets \subseteq ScreenWorkspaces[s]
    BY <1>8, <2>0, <2>1 DEF BeginScreenRestore, ScreenMayWrite
  <2>5. Vouched(row.certifiedBy, doc)
    BY <1>8, <2>0, <2>1, Zenon DEF Vouched, Recorded
  <2>6. InOwnClass(q)
    BY <2>3, <2>4 DEF InOwnClass
  <2>7. RestoreVouched(q)
    BY <2>3, <2>5 DEF RestoreVouched
  <2> QED
    BY <2>2, <2>6, <2>7
<1>9. \E q : Accept(h, q) /\ InOwnClass(q) /\ RestoreVouched(q)
  BY <1>3, <1>4, <1>5, <1>6, <1>7, <1>8, Zenon DEF AccountStep, ScreenStep
<1> QED
  BY <1>1, <1>9

\* Every step writes in one of these ways, or leaves the tables alone.
LEMMA StepCases ==
    ASSUME IInv, [Next]_vars
    PROVE  \/ \E h \in Handlers : \/ \E by : Saved(h, by)
                                  \/ \E id \in Ids : \E by : Made(h, id, by)
                                  \/ Certified(h)
                                  \/ \E fork \in Ids : SplitOff(h, fork)
                                  \/ Begins(h)
                                  \/ Ends(h)
           \/ \E id \in Ids, r \in Revisions : Purged(id, r)
           \/ UNCHANGED <<pub, history, handler>>
<1>1. ASSUME NEW h \in Handlers, AccountStep(h) \/ ScreenStep(h)
      PROVE  Begins(h)
  BY <1>1, BeginsFit
<1>2. ASSUME NEW h \in Handlers, Replay(h) \/ Refuse(h) \/ Announce(h)
      PROVE  Ends(h)
  BY <1>2 DEF Ends, Replay, Refuse, Announce, Serve
<1>3. ASSUME NEW h \in Handlers, Commit(h)
      PROVE  \/ \E by : Saved(h, by)
             \/ \E id \in Ids : \E by : Made(h, id, by)
             \/ Certified(h)
             \/ \E fork \in Ids : SplitOff(h, fork)
  BY <1>3, CommitCases
<1>4. ASSUME NEW id \in Ids, NEW r \in Revisions, Purge(id, r)
      PROVE  Purged(id, r)
  BY <1>4, PurgeErases
<1>5. CASE \/ UNCHANGED vars
           \/ \E w \in Workspaces : SetWorkspaceActive(w)
           \/ \E s \in Screens : RotateScreen(s) \/ SetScreenActive(s)
  BY <1>5 DEF vars, SetWorkspaceActive, RotateScreen, SetScreenActive
<1> QED
  BY <1>1, <1>2, <1>3, <1>4, <1>5, Zenon DEF Next

\* The rows that a save, a creation and a split write are new, and a
\* certification marks a row that carries none.
LEMMA WrittenRows ==
    ASSUME IInv
    PROVE  /\ \A id \in Ids : Exists(id) =>
                 /\ pub[id].revision \in Revisions /\ pub[id].revision \in Nat
                 /\ pub[id].doc \in Doc
                 /\ history[id][pub[id].revision] \in Row
                 /\ history[id][pub[id].revision].doc.body = pub[id].doc.body
                 /\ history[id][pub[id].revision].doc.targets = pub[id].doc.targets
                 /\ \A r \in Revisions : r <= pub[id].revision => history[id][r] \in Row
                 /\ \A r \in Revisions : r > pub[id].revision => history[id][r] = Null
           /\ \A id \in Ids : ~Exists(id) => \A r \in Revisions : history[id][r] = Null
           /\ \A id \in Ids : history[id] \in [Revisions -> Row \cup {Null}]
           /\ 1 \in Revisions /\ 2 \in Revisions /\ Revisions \subseteq Nat
<1>1. 1 \in Revisions /\ 2 \in Revisions /\ Revisions \subseteq Nat
  BY BoundAssumption DEF Revisions
<1>2. \A id \in Ids : history[id] \in [Revisions -> Row \cup {Null}]
  BY DEF IInv, TypeOK
<1>3. ASSUME NEW id \in Ids, Exists(id)
      PROVE  /\ pub[id].revision \in Revisions /\ pub[id].revision \in Nat
             /\ pub[id].doc \in Doc
             /\ history[id][pub[id].revision] \in Row
             /\ history[id][pub[id].revision].doc.body = pub[id].doc.body
             /\ history[id][pub[id].revision].doc.targets = pub[id].doc.targets
             /\ \A r \in Revisions : r <= pub[id].revision => history[id][r] \in Row
             /\ \A r \in Revisions : r > pub[id].revision => history[id][r] = Null
  <2>1. pub[id].revision \in Revisions /\ pub[id].doc \in Doc /\ pub[id].revision \in Nat
    BY <1>1, <1>3, PublicationFacts
  <2>2. Coherent(pub[id], history[id]) /\ pub[id] # Null
    BY <1>3 DEF IInv, AllCoherent, Exists
  <2>3. \A r \in Revisions : history[id][r] # Null <=> r <= pub[id].revision
    BY <2>2 DEF Coherent
  <2>4. ASSUME NEW r \in Revisions, r > pub[id].revision PROVE history[id][r] = Null
    BY <1>1, <2>1, <2>3, <2>4
  <2>5. ASSUME NEW r \in Revisions, r <= pub[id].revision PROVE history[id][r] \in Row
    BY <1>2, <2>3, <2>5
  <2>6. /\ history[id][pub[id].revision].doc.body = pub[id].doc.body
        /\ history[id][pub[id].revision].doc.targets = pub[id].doc.targets
    BY <2>1, <2>2, AgreesFacts DEF Coherent
  <2> QED
    BY <2>1, <2>4, <2>5, <2>6
<1>4. \A id \in Ids : ~Exists(id) => \A r \in Revisions : history[id][r] = Null
  BY DEF IInv, AllCoherent, Coherent, Exists
<1> QED
  BY <1>1, <1>2, <1>3, <1>4

\* A certified row is never changed.
LEMMA CertifiedRowsStay ==
    ASSUME IInv, HeadRowKnown, [Next]_vars, NEW id \in Ids, NEW r \in Revisions,
           history[id][r] # Null, history[id][r].certifiedBy # Null
    PROVE  history'[id][r] = history[id][r]
<1>1. ASSUME NEW h, NEW by, Saved(h, by)
      PROVE  history'[id][r] = history[id][r]
  <2> DEFINE q == handler[h]
             n == pub[q.id].revision + 1
  <2>1. /\ q.id \in Ids /\ Exists(q.id) /\ n \in Revisions /\ OthersKept({q.id})
        /\ history'[q.id] = [history[q.id] EXCEPT ![n] = [doc |-> q.doc, certifiedBy |-> by]]
    BY <1>1 DEF Saved, Wrote
  <2>2. history[q.id][n] = Null
    BY <2>1, WrittenRows
  <2> QED
    BY <2>1, <2>2, WrittenRows DEF OthersKept
<1>2. ASSUME NEW h, NEW new \in Ids, NEW by, Made(h, new, by)
      PROVE  history'[id][r] = history[id][r]
  BY <1>2, WrittenRows, ZenonT(30) DEF Made, OthersKept
<1>3. ASSUME NEW h, Certified(h)
      PROVE  history'[id][r] = history[id][r]
  <2> DEFINE q == handler[h]
             n == pub[q.id].revision
  <2>1. /\ q.id \in Ids /\ Exists(q.id) /\ pub[q.id].certifiedBy = Null /\ OthersKept({q.id})
        /\ history'[q.id] = [history[q.id] EXCEPT
                                ![n] = [history[q.id][n] EXCEPT !.certifiedBy = q.by]]
    BY <1>3, Zenon DEF Certified
  <2>2. history[q.id][n].certifiedBy = Null
    BY <2>1, Zenon DEF HeadRowKnown
  <2>3. ~(id = q.id /\ r = n)
    BY <2>2
  <2>4. history[id] \in [Revisions -> Row \cup {Null}]
    BY DEF IInv, TypeOK
  <2>5. CASE id = q.id
    BY <2>1, <2>3, <2>4, <2>5, Zenon
  <2>6. CASE id # q.id
    BY <2>1, <2>6 DEF OthersKept
  <2> QED
    BY <2>5, <2>6
<1>4. ASSUME NEW h, NEW fork \in Ids, SplitOff(h, fork)
      PROVE  history'[id][r] = history[id][r]
  <2> DEFINE q == handler[h]
             n == pub[q.id].revision + 1
             kept == [pub[q.id].doc EXCEPT !.targets = @ \ q.doc.targets]
             own == [pub[q.id].doc EXCEPT !.targets = q.doc.targets]
             by == q.existing.certifiedBy
             keptRow == [doc |-> Stripped(kept), certifiedBy |-> by]
             ownRow == [doc |-> Stripped(own), certifiedBy |-> by]
  <2>1. /\ q.id \in Ids /\ Exists(q.id) /\ ~Exists(fork) /\ n \in Revisions
        /\ history'[q.id] = [history[q.id] EXCEPT ![n] = keptRow]
        /\ history'[fork] = [history[fork] EXCEPT ![1] = ownRow,
                                                  ![2] = [doc |-> q.doc, certifiedBy |-> Null]]
        /\ OthersKept({q.id, fork})
    BY <1>4 DEF SplitOff
  <2>2. history[q.id][n] = Null /\ id # fork
    BY <2>1, WrittenRows
  <2> HIDE DEF keptRow, ownRow
  <2> QED
    BY <2>1, <2>2, WrittenRows, SMTT(30) DEF OthersKept
<1>5. ASSUME NEW i \in Ids, NEW n \in Revisions, Purged(i, n)
      PROVE  history'[id][r] = history[id][r]
  <2> DEFINE row == [history[i][n] EXCEPT !.doc = Shell(@)]
  <2>1. /\ history[i][n].certifiedBy = Null
        /\ history' = [history EXCEPT ![i] = [history[i] EXCEPT ![n] = row]]
    BY <1>5 DEF Purged
  <2> HIDE DEF row
  <2>2. history \in [Ids -> [Revisions -> Row \cup {Null}]]
    BY DEF IInv, TypeOK
  <2> QED
    BY <2>1, <2>2
<1>6. history' = history => history'[id][r] = history[id][r]
  OBVIOUS
<1> QED
  BY <1>1, <1>2, <1>3, <1>4, <1>5, <1>6, StepCases DEF Begins, Ends

\* What somebody has vouched for stays vouched for.
LEMMA VouchedStays ==
    ASSUME IInv, HeadRowKnown, [Next]_vars, NEW account, NEW doc, account # Null,
           Vouched(account, doc)
    PROVE  Vouched(account, doc)'
<1>1. PICK id \in Ids, r \in Revisions :
         /\ history[id][r] # Null
         /\ history[id][r].certifiedBy = account
         /\ history[id][r].doc.body = doc.body
         /\ doc.targets \subseteq history[id][r].doc.targets
  BY DEF Vouched, Recorded
<1>2. history'[id][r] = history[id][r]
  BY <1>1, CertifiedRowsStay
<1> QED
  BY <1>1, <1>2 DEF Vouched, Recorded

\* At the start there is nothing to vouch for.
LEMMA InitVouchIInv == Init => VouchIInv
<1> SUFFICES ASSUME Init PROVE VouchIInv
  OBVIOUS
<1>1. \A id \in Ids : ~Exists(id)
  BY DEF Init, Exists
<1>2. \A h \in Handlers : handler[h] \notin Request
  BY NullAssumption DEF Init
<1> QED
  BY <1>1, <1>2 DEF VouchIInv, HeadRowKnown, CertifiersVouched, RestoresVouched,
                    ScreensInOwnClass

\* A handler that announces or ends holds no request any more.
LEMMA RequestsStay ==
    ASSUME IInv, NEW h \in Handlers,
           Ends(h) \/ \E rooms, statuses : Announces(h, rooms, statuses)
    PROVE  \A g \in Handlers : handler'[g] \in Request => handler'[g] = handler[g]
<1>1. PICK state : handler' = [handler EXCEPT ![h] = state] /\ state \notin Request
  <2>1. CASE Ends(h)
    BY <2>1, NullAssumption DEF Ends
  <2>2. ASSUME NEW rooms, NEW statuses, Announces(h, rooms, statuses)
        PROVE  \E state : handler' = [handler EXCEPT ![h] = state] /\ state \notin Request
    <3>1. PICK public \in BOOLEAN :
             handler' = [handler EXCEPT ![h] = [op |-> "announce", rooms |-> rooms,
                                                public |-> public]]
      BY <2>2 DEF Announces
    <3>2. [op |-> "announce", rooms |-> rooms, public |-> public] \notin Request
      BY DEF Request, AllOperations
    <3> QED
      BY <3>1, <3>2
  <2> QED
    BY <2>1, <2>2
<1>2. handler \in [Handlers -> Request \cup Event \cup {Null}]
  BY DEF IInv, TypeOK
<1> QED
  BY <1>1, <1>2

\* The two parts of the invariant about requests.
LEMMA RequestsKeepVouch ==
    ASSUME IInv, VouchIInv, [Next]_vars
    PROVE  RestoresVouched' /\ ScreensInOwnClass'
<1>1. ASSUME \A g \in Handlers : handler'[g] \in Request => handler'[g] = handler[g]
      PROVE  RestoresVouched' /\ ScreensInOwnClass'
  <2>1. ASSUME NEW g \in Handlers, handler'[g] \in Request
        PROVE  RestoreVouched(handler[g])'
    <3> PICK q : q = handler[g]
      OBVIOUS
    <3>1. handler'[g] = q
      BY <1>1, <2>1
    <3>2. RestoreVouched(q)
      BY <2>1, <3>1 DEF VouchIInv, RestoresVouched
    <3>3. RestoreVouched(q)'
      BY <3>2, VouchedStays DEF RestoreVouched, VouchIInv
    <3> QED
      BY <3>1, <3>3 DEF RestoreVouched
  <2>2. ASSUME NEW g \in Handlers, handler'[g] \in Request
        PROVE  InOwnClass(handler[g])'
    BY <1>1, <2>2 DEF VouchIInv, ScreensInOwnClass, InOwnClass, Shared
  <2> QED
    BY <2>1, <2>2 DEF RestoresVouched, ScreensInOwnClass
<1>2. ASSUME NEW h \in Handlers, Begins(h)
      PROVE  RestoresVouched' /\ ScreensInOwnClass'
  <2>1. PICK q : /\ handler' = [handler EXCEPT ![h] = q]
                 /\ UNCHANGED <<pub, history>>
                 /\ InOwnClass(q) /\ RestoreVouched(q)
    BY <1>2 DEF Begins
  <2>2. RestoreVouched(q)'
    BY <2>1 DEF RestoreVouched, Vouched, Recorded
  <2>3. handler \in [Handlers -> Request \cup Event \cup {Null}]
    BY DEF IInv, TypeOK
  <2>4. \A g \in Handlers : handler'[g] = IF g = h THEN q ELSE handler[g]
    BY <2>1, <2>3
  <2>5. ASSUME NEW g \in Handlers, g # h, handler'[g] \in Request
        PROVE  RestoreVouched(handler[g])' /\ InOwnClass(handler[g])'
    BY <2>1, <2>4, <2>5 DEF VouchIInv, RestoresVouched, ScreensInOwnClass, RestoreVouched,
                            InOwnClass, Shared, Vouched, Recorded
  <2>6. RestoreVouched(handler[h])' /\ InOwnClass(handler[h])'
    BY <2>1, <2>2, <2>4 DEF RestoreVouched, InOwnClass, Shared
  <2> QED
    BY <2>5, <2>6 DEF RestoresVouched, ScreensInOwnClass
<1>3. ASSUME NEW h \in Handlers, Ends(h) \/ \E rooms, statuses : Announces(h, rooms, statuses)
      PROVE  RestoresVouched' /\ ScreensInOwnClass'
  BY <1>1, <1>3, RequestsStay
<1>4. ASSUME NEW h \in Handlers,
             \/ \E by : Saved(h, by)
             \/ \E id \in Ids : \E by : Made(h, id, by)
             \/ Certified(h)
             \/ \E fork \in Ids : SplitOff(h, fork)
      PROVE  \E rooms, statuses : Announces(h, rooms, statuses)
  BY <1>4, Zenon DEF Saved, Made, Certified, SplitOff
<1>5. CASE handler' = handler
  BY <1>1, <1>5
<1>6. ASSUME NEW id, NEW r, Purged(id, r) PROVE handler' = handler
  BY <1>6 DEF Purged
<1> QED
  BY <1>2, <1>3, <1>4, <1>5, <1>6, StepCases

\* The two parts about publications, for each publication.
Vouching(id) ==
    Exists(id) =>
        /\ history[id][pub[id].revision].certifiedBy \in {Null, pub[id].certifiedBy}
        /\ pub[id].certifiedBy # Null => Vouched(pub[id].certifiedBy, pub[id].doc)

\* The two table parts of VouchIInv, publication by publication.
LEMMA VouchingIs == HeadRowKnown /\ CertifiersVouched <=> \A id \in Ids : Vouching(id)
  BY DEF HeadRowKnown, CertifiersVouched, Vouching

\* A publication whose newest row says what it says.
LEMMA HeadVouches ==
    ASSUME NEW id \in Ids, NEW r \in Revisions, NEW p, p # Null, p.revision = r,
           history'[id][r] # Null,
           history'[id][r].doc.body = p.doc.body,
           history'[id][r].doc.targets = p.doc.targets,
           history'[id][r].certifiedBy = p.certifiedBy,
           pub'[id] = p
    PROVE  Vouching(id)'
<1>1. p.certifiedBy # Null => Vouched(p.certifiedBy, p.doc)'
  BY DEF Vouched, Recorded
<1> QED
  BY <1>1 DEF Vouching

\* A publication that a step leaves alone stays vouched for.
LEMMA OtherVouching ==
    ASSUME IInv, VouchIInv, [Next]_vars, NEW id \in Ids, pub'[id] = pub[id],
           Exists(id) => \/ history'[id] = history[id]
                         \/ history'[id][pub[id].revision] = history[id][pub[id].revision]
    PROVE  Vouching(id)'
<1> PICK p : p = pub[id]
  OBVIOUS
<1>1. pub'[id] = p
  OBVIOUS
<1>2. Vouching(id)
  BY VouchingIs DEF VouchIInv
<1>3. Exists(id) => history'[id][p.revision].certifiedBy \in {Null, p.certifiedBy}
  BY <1>2 DEF Vouching
<1>4. ASSUME Exists(id), p.certifiedBy # Null PROVE Vouched(p.certifiedBy, p.doc)'
  <2>1. Vouched(p.certifiedBy, p.doc)
    BY <1>2, <1>4 DEF Vouching
  <2> QED
    BY <1>4, <2>1, VouchedStays DEF VouchIInv
<1> QED
  BY <1>1, <1>3, <1>4 DEF Vouching, Exists

\* Every step keeps the publications vouched for.
LEMMA PublicationsKeepVouch ==
    ASSUME IInv, VouchIInv, [Next]_vars
    PROVE  \A id \in Ids : Vouching(id)'
<1> SUFFICES ASSUME NEW id \in Ids PROVE Vouching(id)'
  OBVIOUS
<1>1. ASSUME NEW ids \in SUBSET Ids, OthersKept(ids), id \notin ids
      PROVE  Vouching(id)'
  BY <1>1, OtherVouching DEF OthersKept
<1>2. ASSUME NEW h \in Handlers, NEW by, Saved(h, by)
      PROVE  Vouching(id)'
  <2> PICK q : q = handler[h]
    OBVIOUS
  <2> PICK p : p = pub[q.id]
    OBVIOUS
  <2> DEFINE n == p.revision + 1
             doc == SavedDoc(p, q)
             row == [doc |-> q.doc, certifiedBy |-> by]
             new == [p EXCEPT !.doc = doc, !.revision = n, !.certifiedBy = by]
  <2>1. /\ q.id \in Ids /\ Exists(q.id) /\ n \in Revisions /\ OthersKept({q.id})
        /\ doc \in Doc /\ doc.body = q.doc.body /\ doc.targets = q.doc.targets
        /\ pub'[q.id] = new
        /\ history'[q.id] = [history[q.id] EXCEPT ![n] = row]
    BY <1>2 DEF Saved, Wrote
  <2> HIDE DEF doc
  <2>2. /\ q \in Request /\ by \in Accounts \cup {Null}
    BY <1>2 DEF Saved
  <2>3. p \in Publication
    BY <2>1, PublicationFacts
  <2>4. /\ new \in Publication /\ new.doc = doc /\ new.revision = n /\ new.certifiedBy = by
        /\ row \in Row
    BY <2>1, <2>2, <2>3 DEF Publication, Row, Request
  <2>5. history'[q.id][n] = row
    BY <2>1, WrittenRows
  <2>6. row.doc = q.doc /\ row.certifiedBy = by
    OBVIOUS
  <2> HIDE DEF n, row, new
  <2>7. row # Null /\ new # Null
    BY <2>4, NullAssumption
  <2>8. ASSUME NEW i \in Ids, i = q.id PROVE Vouching(i)'
    <3>1. pub'[i] = new /\ history'[i][n] = row
      BY <2>1, <2>5, <2>8
    <3> QED
      BY <2>1, <2>4, <2>6, <2>7, <3>1, HeadVouches
  <2>9. q.id # id => Vouching(id)'
    BY <1>1, <2>1
  <2> QED
    BY <2>1, <2>8, <2>9
<1>3. ASSUME NEW h \in Handlers, NEW i \in Ids, NEW by, Made(h, i, by)
      PROVE  Vouching(id)'
  <2> PICK q : q = handler[h]
    OBVIOUS
  <2> DEFINE row == [doc |-> q.doc, certifiedBy |-> by]
             new == NewPublication(q, by)
  <2>1. /\ pub'[i] = new
        /\ history'[i] = [history[i] EXCEPT ![1] = row]
        /\ OthersKept({i})
    BY <1>3 DEF Made
  <2>2. /\ new.doc = q.doc /\ new.revision = 1 /\ new.certifiedBy = by
        /\ row.doc = q.doc /\ row.certifiedBy = by
    BY DEF NewPublication
  <2>3. history'[i][1] = row
    BY <2>1, WrittenRows
  <2>4. q \in Request /\ by \in Accounts \cup {Null}
    BY <1>3 DEF Made
  <2>5. row \in Row /\ new \in Publication
    BY <2>4, WrittenRows DEF Row, NewPublication, Publication, Request
  <2> HIDE DEF row, new
  <2>6. row # Null /\ new # Null
    BY <2>5, NullAssumption
  <2> QED
    <3>1. Vouching(i)'
      BY <2>1, <2>2, <2>3, <2>6, WrittenRows, HeadVouches
    <3>2. i # id => Vouching(id)'
      BY <1>1, <2>1
    <3> QED
      BY <3>1, <3>2
<1>4. ASSUME NEW h \in Handlers, Certified(h)
      PROVE  Vouching(id)'
  <2> PICK q : q = handler[h]
    OBVIOUS
  <2> PICK i : i = q.id
    OBVIOUS
  <2> PICK p : p = pub[i]
    OBVIOUS
  <2> PICK r : r = p.revision
    OBVIOUS
  <2> DEFINE row == [history[i][r] EXCEPT !.certifiedBy = q.by]
             new == [p EXCEPT !.certifiedBy = q.by]
  <2>1. /\ i \in Ids /\ Exists(i) /\ OthersKept({i}) /\ q.by \in Accounts
        /\ pub'[i] = new
        /\ history'[i] = [history[i] EXCEPT ![r] = row]
    BY <1>4, Zenon DEF Certified
  <2>2. /\ p \in Publication /\ r \in Revisions
        /\ history[i][r] \in Row /\ history[i][r].doc.body = p.doc.body
        /\ history[i][r].doc.targets = p.doc.targets
    BY <2>1, PublicationFacts, WrittenRows, Zenon
  <2>3. /\ new \in Publication /\ new.doc = p.doc /\ new.revision = r
        /\ new.certifiedBy = q.by
    BY <2>1, <2>2, ZenonT(30) DEF Publication
  <2>4. row \in Row /\ row.doc = history[i][r].doc /\ row.certifiedBy = q.by
    BY <2>1, <2>2, Zenon DEF Row
  <2>5. history'[i][r] = row
    <3>1. history[i] \in [Revisions -> Row \cup {Null}]
      BY <2>1, WrittenRows
    <3> HIDE DEF row
    <3> QED
      BY <2>1, <2>2, <3>1, SMTT(20)
  <2> HIDE DEF row, new
  <2>6. row # Null /\ new # Null
    BY <2>3, <2>4, NullAssumption
  <2>7. Vouching(i)'
    <3>1. /\ history'[i][r] # Null
          /\ history'[i][r].doc.body = new.doc.body
          /\ history'[i][r].doc.targets = new.doc.targets
          /\ history'[i][r].certifiedBy = new.certifiedBy
      BY <2>2, <2>3, <2>4, <2>5, <2>6
    <3>2. i \in Ids /\ r \in Revisions /\ new # Null /\ new.revision = r /\ pub'[i] = new
      BY <2>1, <2>2, <2>3, <2>6
    <3> QED
      BY <3>1, <3>2, HeadVouches
  <2>8. i # id => Vouching(id)'
    BY <1>1, <2>1
  <2> QED
    BY <2>7, <2>8
<1>5. ASSUME NEW h \in Handlers, NEW fork \in Ids, SplitOff(h, fork)
      PROVE  Vouching(id)'
  <2> PICK q : q = handler[h]
    OBVIOUS
  <2> PICK i : i = q.id
    OBVIOUS
  <2> PICK p : p = pub[i]
    BY Zenon
  <2> DEFINE left == [p.doc EXCEPT !.targets = @ \ q.doc.targets]
             n == p.revision + 1
             row == [doc |-> Stripped(left), certifiedBy |-> q.existing.certifiedBy]
             new == [p EXCEPT !.doc = left, !.revision = n]
             own == [doc |-> Stripped([p.doc EXCEPT !.targets = q.doc.targets]),
                     certifiedBy |-> q.existing.certifiedBy]
             edit == [doc |-> q.doc, certifiedBy |-> Null]
             copy == [NewPublication(q, Null) EXCEPT !.revision = 2]
  <2>1. /\ i \in Ids /\ Exists(i) /\ OthersKept({i, fork}) /\ n \in Revisions
        /\ q.existing.certifiedBy \in {Null, p.certifiedBy}
        /\ pub'[i] = new
        /\ pub'[fork] = copy
        /\ history'[i] = [history[i] EXCEPT ![n] = row]
        /\ history'[fork] = [history[fork] EXCEPT ![1] = own, ![2] = edit]
    BY <1>5, Zenon DEF SplitOff
  <2>2. /\ p \in Publication /\ p.doc \in Doc
    BY <2>1, PublicationFacts
  <2>3. /\ new.doc = left /\ new.revision = n /\ new.certifiedBy = p.certifiedBy
        /\ left.body = p.doc.body /\ left.targets \subseteq p.doc.targets
    BY <2>2 DEF Publication, Doc
  <2>4. copy.revision = 2 /\ copy.certifiedBy = Null
    BY DEF NewPublication
  <2>5. row.certifiedBy = q.existing.certifiedBy /\ edit.certifiedBy = Null
    BY Zenon
  <2> HIDE DEF left, n, row, new, own, edit, copy
  <2>6. history'[i][n] = row /\ history'[fork][2] = edit
    BY <2>1, WrittenRows
  <2>7. Vouching(fork)'
    BY <2>1, <2>4, <2>5, <2>6 DEF Vouching
  <2>8. Vouching(i)'
    <3>1. ASSUME p.certifiedBy # Null PROVE Vouched(p.certifiedBy, left)'
      <4>1. Vouched(p.certifiedBy, p.doc)
        BY <2>1, <3>1 DEF VouchIInv, CertifiersVouched
      <4>2. Vouched(p.certifiedBy, p.doc)'
        BY <3>1, <4>1, VouchedStays DEF VouchIInv
      <4> QED
        BY <2>3, <4>2 DEF Vouched
    <3> QED
      BY <2>1, <2>3, <2>5, <2>6, <3>1 DEF Vouching
  <2>9. id \notin {i, fork} => Vouching(id)'
    BY <1>1, <2>1
  <2> QED
    BY <2>7, <2>8, <2>9
<1>6. ASSUME NEW i \in Ids, NEW r \in Revisions, Purged(i, r)
      PROVE  Vouching(id)'
  <2> DEFINE row == [history[i][r] EXCEPT !.doc = Shell(@)]
  <2>1. /\ r # pub[i].revision /\ pub' = pub
        /\ history' = [history EXCEPT ![i] = [history[i] EXCEPT ![r] = row]]
    BY <1>6 DEF Purged
  <2> HIDE DEF row
  <2>2. history \in [Ids -> [Revisions -> Row \cup {Null}]]
    BY DEF IInv, TypeOK
  <2>3. Exists(id) => history'[id][pub[id].revision] = history[id][pub[id].revision]
    BY <2>1, <2>2, WrittenRows
  <2> QED
    BY <2>1, <2>3, OtherVouching
<1>7. CASE UNCHANGED <<pub, history>>
  BY <1>7, OtherVouching
<1> QED
  BY <1>2, <1>3, <1>4, <1>5, <1>6, <1>7, StepCases DEF Begins, Ends

\* Every step keeps the second invariant.
LEMMA VouchIInvHolds == IInv /\ VouchIInv /\ [Next]_vars => VouchIInv'
<1> SUFFICES ASSUME IInv, VouchIInv, [Next]_vars PROVE VouchIInv'
  OBVIOUS
<1>1. HeadRowKnown' /\ CertifiersVouched'
  BY PublicationsKeepVouch DEF HeadRowKnown, CertifiersVouched, Vouching
<1> QED
  BY <1>1, RequestsKeepVouch DEF VouchIInv

\* Behind every certification in the tables, and in every request that passes
\* one on, there is a row an account certified (updateScreenPublication and
\* restoreScreenPublication carry it over).
THEOREM VouchInvariance == Spec => [](IInv /\ VouchIInv)
<1>1. Init => IInv /\ VouchIInv
  BY InitIInv, InitVouchIInv
<1>2. (IInv /\ VouchIInv) /\ [Next]_vars => (IInv /\ VouchIInv)'
  BY NextKeepsIInv, VouchIInvHolds
<1> QED
  BY <1>1, <1>2, PTL DEF Spec

\* A request whose outcome will be announced has committed.
LEMMA AnnouncesCommits ==
    ASSUME IInv, NEW h \in Handlers, handler[h] \in Request,
           NEW rooms \in SUBSET Workspaces, NEW statuses, Announces(h, rooms, statuses)
    PROVE  Committed(h)
<1>1. PICK public \in BOOLEAN :
         handler' = [handler EXCEPT ![h] = [op |-> "announce", rooms |-> rooms,
                                            public |-> public]]
  BY DEF Announces
<1> DEFINE event == [op |-> "announce", rooms |-> rooms, public |-> public]
<1>2. event \in Event /\ event.op = "announce"
  BY DEF Event
<1>3. handler'[h] = event
  BY <1>1 DEF IInv, TypeOK
<1>4. handler[h] # Null /\ handler[h].op # "announce"
  BY NullAssumption DEF Request, AllOperations
<1> HIDE DEF event
<1> QED
  BY <1>2, <1>3, <1>4, NullAssumption DEF Committed

\* What a screen records as certified has been certified with this content by the
\* account it names (updateScreenPublication and restoreScreenPublication).
THEOREM ScreensNeverCertify == Spec => ScreenNeverCertifies
<1>1. ASSUME IInv, VouchIInv, [Next]_vars, NEW id \in Ids, NEW r \in Revisions,
             NEW row, row = history'[id][r], row # Null, row.certifiedBy # Null,
             ~Recorded(id, r) \/ history[id][r].certifiedBy # row.certifiedBy
      PROVE  \/ \E h \in Handlers : Committed(h) /\ handler[h].by = row.certifiedBy
             \/ Vouched(row.certifiedBy, row.doc)
  <2>0. row # history[id][r]
    BY <1>1 DEF Recorded
  <2>1. ASSUME NEW h \in Handlers, NEW by, Saved(h, by)
        PROVE  \/ Committed(h) /\ handler[h].by = row.certifiedBy
               \/ Vouched(row.certifiedBy, row.doc)
    <3> DEFINE q == handler[h]
               n == pub[q.id].revision + 1
               new == [doc |-> q.doc, certifiedBy |-> by]
    <3>1. /\ q \in Request /\ q.id \in Ids /\ Exists(q.id) /\ n \in Revisions
          /\ history'[q.id] = [history[q.id] EXCEPT ![n] = new]
          /\ OthersKept({q.id})
          /\ by \in {Null, q.by} \/ (q.op = "screenRestore" /\ by = q.certifiedBy)
          /\ Announces(h, pub[q.id].doc.targets \cup q.doc.targets,
                       {q.doc.status, pub[q.id].doc.status})
      BY <2>1 DEF Saved, Wrote
    <3>2. pub[q.id].doc.targets \cup q.doc.targets \in SUBSET Workspaces
      BY <1>1, <3>1, WrittenRows DEF Request, Doc
    <3>3. Committed(h)
      BY <1>1, <3>1, <3>2, AnnouncesCommits
    <3>4. row = new
      <4>1. history[q.id] \in [Revisions -> Row \cup {Null}]
        BY <1>1, <3>1, WrittenRows
      <4> HIDE DEF new
      <4> QED
        BY <1>1, <2>0, <3>1, <4>1 DEF OthersKept
    <3>5. by # Null /\ row.certifiedBy = by /\ row.doc = q.doc
      BY <1>1, <3>4
    <3>6. CASE by = q.by
      BY <3>3, <3>5, <3>6
    <3>7. CASE q.op = "screenRestore" /\ by = q.certifiedBy
      BY <1>1, <3>1, <3>5, <3>7 DEF VouchIInv, RestoresVouched, RestoreVouched
    <3> QED
      BY <3>1, <3>5, <3>6, <3>7
  <2>2. ASSUME NEW h \in Handlers, NEW i \in Ids, NEW by, Made(h, i, by)
        PROVE  Committed(h) /\ handler[h].by = row.certifiedBy
    <3> DEFINE q == handler[h]
               new == [doc |-> q.doc, certifiedBy |-> by]
    <3>1. /\ q \in Request
          /\ history'[i] = [history[i] EXCEPT ![1] = new]
          /\ OthersKept({i})
          /\ by \in {Null, q.by}
          /\ Announces(h, q.doc.targets, {q.doc.status})
      BY <2>2 DEF Made
    <3>2. q.doc.targets \in SUBSET Workspaces
      BY <3>1 DEF Request, Doc
    <3>3. row = new
      <4>1. history[i] \in [Revisions -> Row \cup {Null}]
        BY <1>1, WrittenRows
      <4> HIDE DEF new
      <4> QED
        BY <1>1, <2>0, <3>1, <4>1 DEF OthersKept
    <3> QED
      BY <1>1, <3>1, <3>2, <3>3, AnnouncesCommits
  <2>3. ASSUME NEW h \in Handlers, Certified(h)
        PROVE  Committed(h) /\ handler[h].by = row.certifiedBy
    <3> DEFINE q == handler[h]
               n == pub[q.id].revision
               new == [history[q.id][n] EXCEPT !.certifiedBy = q.by]
    <3>1. /\ q \in Request /\ q.id \in Ids /\ Exists(q.id)
          /\ history'[q.id] = [history[q.id] EXCEPT ![n] = new]
          /\ OthersKept({q.id})
          /\ Announces(h, pub[q.id].doc.targets, {pub[q.id].doc.status})
      BY <2>3, Zenon DEF Certified
    <3>2. pub[q.id].doc.targets \in SUBSET Workspaces /\ history[q.id][n] \in Row
      BY <1>1, <3>1, WrittenRows, Zenon DEF Doc
    <3>3. new.certifiedBy = q.by
      BY <3>2 DEF Row
    <3>4. row = new
      <4>1. history[q.id] \in [Revisions -> Row \cup {Null}]
        BY <1>1, <3>1, WrittenRows, Zenon
      <4> HIDE DEF new
      <4> QED
        BY <1>1, <2>0, <3>1, <4>1, Zenon DEF OthersKept
    <3>5. Committed(h)
      BY <1>1, <3>1, <3>2, AnnouncesCommits, Zenon
    <3> HIDE DEF new
    <3> QED
      BY <3>3, <3>4, <3>5
  <2>4. ASSUME NEW h \in Handlers, NEW fork \in Ids, SplitOff(h, fork)
        PROVE  Vouched(row.certifiedBy, row.doc)
    <3> PICK q : q = handler[h]
      OBVIOUS
    <3> PICK p : p = pub[q.id]
      OBVIOUS
    <3> DEFINE by == q.existing.certifiedBy
               n == p.revision + 1
               kept == [p.doc EXCEPT !.targets = @ \ q.doc.targets]
               own == [p.doc EXCEPT !.targets = q.doc.targets]
               left == [doc |-> Stripped(kept), certifiedBy |-> by]
               first == [doc |-> Stripped(own), certifiedBy |-> by]
               edit == [doc |-> q.doc, certifiedBy |-> Null]
    <3>1. /\ q.id \in Ids /\ Exists(q.id)
          /\ q.doc.targets \subseteq p.doc.targets
          /\ by \in {Null, p.certifiedBy}
          /\ history'[q.id] = [history[q.id] EXCEPT ![n] = left]
          /\ history'[fork] = [history[fork] EXCEPT ![1] = first, ![2] = edit]
          /\ OthersKept({q.id, fork})
      BY <2>4, Zenon DEF SplitOff
    <3>2. p.doc \in Doc
      BY <1>1, <3>1, WrittenRows
    <3>3. \A doc \in {Stripped(kept), Stripped(own)} :
             doc.body = p.doc.body /\ doc.targets \subseteq p.doc.targets
      <4>1. /\ kept \in Doc /\ kept.body = p.doc.body /\ kept.targets \subseteq p.doc.targets
            /\ own \in Doc /\ own.body = p.doc.body /\ own.targets \subseteq p.doc.targets
        BY <3>1, <3>2 DEF Doc
      <4> HIDE DEF kept, own
      <4> QED
        BY <4>1, StrippedFacts
    <3>4. row \in {left, first, edit}
      <4>1. /\ history[q.id] \in [Revisions -> Row \cup {Null}]
            /\ history[fork] \in [Revisions -> Row \cup {Null}]
        BY <1>1, <3>1, WrittenRows
      <4> HIDE DEF left, first, edit
      <4> QED
        BY <1>1, <2>0, <3>1, <4>1 DEF OthersKept
    <3>5. row.certifiedBy = by /\ by # Null /\ row.doc \in {Stripped(kept), Stripped(own)}
      <4>1. row.certifiedBy # Null
        BY <1>1
      <4> HIDE DEF kept, own, by
      <4> QED
        BY <3>4, <4>1
    <3> HIDE DEF kept, own, left, first, edit
    <3>6. Vouched(p.certifiedBy, p.doc)
      BY <1>1, <3>1, <3>5 DEF VouchIInv, CertifiersVouched
    <3> QED
      BY <3>1, <3>3, <3>5, <3>6 DEF Vouched
  <2>5. ASSUME NEW i \in Ids, NEW n \in Revisions, Purged(i, n) PROVE FALSE
    <3> DEFINE new == [history[i][n] EXCEPT !.doc = Shell(@)]
    <3>1. /\ Exists(i) /\ history[i][n] # Null /\ history[i][n].certifiedBy = Null
          /\ history' = [history EXCEPT ![i] = [history[i] EXCEPT ![n] = new]]
      BY <2>5 DEF Purged
    <3>2. history \in [Ids -> [Revisions -> Row \cup {Null}]]
      BY <1>1 DEF IInv, TypeOK
    <3>3. history[i][n] \in Row
      BY <3>1, <3>2
    <3>4. new.certifiedBy = Null
      BY <3>1, <3>3 DEF Row
    <3> HIDE DEF new
    <3> QED
      BY <1>1, <2>0, <3>1, <3>2, <3>4
  <2>6. history' # history
    BY <1>1, <2>0
  <2> QED
    BY <1>1, <2>1, <2>2, <2>3, <2>4, <2>5, <2>6, StepCases DEF Begins, Ends
<1>2. (IInv /\ VouchIInv) /\ [Next]_vars =>
        [\A id \in Ids, r \in Revisions :
            LET row == history'[id][r]
            IN  /\ row # Null /\ row.certifiedBy # Null
                /\ ~Recorded(id, r) \/ history[id][r].certifiedBy # row.certifiedBy
                => \/ \E h \in Handlers : Committed(h) /\ handler[h].by = row.certifiedBy
                   \/ Vouched(row.certifiedBy, row.doc)]_vars
  BY <1>1
<1> QED
  BY <1>2, VouchInvariance, PTL DEF Spec, ScreenNeverCertifies

\* What a workspace is shown depends on each publication alone.
Shows(p, w, body) == /\ p # Null
                     /\ p.doc.status = "PUBLISHED"
                     /\ p.doc.body = body
                     /\ w \in p.doc.targets

\* What a workspace shows depends on each publication alone.
LEMMA ShownByEach ==
    ASSUME NEW w, NEW body, \A id \in Ids : Shows(pub'[id], w, body) <=> Shows(pub[id], w, body)
    PROVE  Shown(w, body)' = Shown(w, body)
<1>1. Shown(w, body) = {id \in Ids : Shows(pub[id], w, body)}
  BY DEF Shown, Shows, Exists
<1>2. Shown(w, body)' = {id \in Ids : Shows(pub'[id], w, body)}
  BY DEF Shown, Shows, Exists
<1> QED
  BY <1>1, <1>2

\* A screen's save changes nothing for a class outside its range
\* (screenMayWritePublication and the local copy of a shared assignment).
THEOREM ScreensKeepToTheirClass == Spec => ScreenKeepsToItsClass
<1>1. ASSUME IInv, VouchIInv, [Next]_vars, NEW h \in Handlers, Committed(h),
             handler[h].by \in Screens, NEW w \in Workspaces \ ScreenWorkspaces[handler[h].by],
             NEW body
      PROVE  Shown(w, body)' = Shown(w, body)
  <2> PICK q : q = handler[h]
    OBVIOUS
  <2>1. q \in Request
    BY <1>1 DEF Committed, IInv, TypeOK, Event
  <2>2. /\ InOwnClass(q) /\ Prepared(q)
    BY <1>1, <2>1 DEF VouchIInv, ScreensInOwnClass, IInv, RequestsPrepared
  <2>3. w \notin q.doc.targets
    BY <1>1, <2>2 DEF InOwnClass
  <2>4. ASSUME NEW ids, OthersKept(ids),
               \A i \in ids : Shows(pub'[i], w, body) <=> Shows(pub[i], w, body)
        PROVE  Shown(w, body)' = Shown(w, body)
    BY <2>4, ShownByEach DEF OthersKept
  <2>5. ASSUME NEW by, Saved(h, by)
        PROVE  Shown(w, body)' = Shown(w, body)
    <3> PICK p : p = pub[q.id]
      OBVIOUS
    <3> PICK doc : doc = SavedDoc(p, q)
      OBVIOUS
    <3>1. /\ q.id \in Ids /\ Exists(q.id) /\ q.existing.doc = p.doc /\ OthersKept({q.id})
          /\ pub'[q.id] = [p EXCEPT !.doc = doc, !.revision = p.revision + 1,
                                    !.certifiedBy = by]
          /\ doc.targets = q.doc.targets
          /\ q.op \in {"update", "restore", "withdraw", "screenUpdate", "screenRestore"}
          /\ q.op = "screenUpdate" => ~Shared(q)
      BY <2>5 DEF Saved, Wrote
    <3>2. q.op \in {"screenUpdate", "screenRestore"}
      BY <1>1, <2>2, <3>1, PrincipalAssumption DEF Prepared, AccountOps
    <3>3. w \notin p.doc.targets
      BY <1>1, <2>2, <3>1, <3>2 DEF InOwnClass
    <3>4. p \in Publication
      BY <1>1, <3>1, PublicationFacts
    <3>5. pub'[q.id].doc = doc
      BY <3>1, <3>4 DEF Publication
    <3>6. ~Shows(pub'[q.id], w, body) /\ ~Shows(pub[q.id], w, body)
      BY <2>3, <3>1, <3>3, <3>5 DEF Shows
    <3> QED
      BY <2>4, <3>1, <3>6, Zenon
  <2>6. ASSUME NEW id \in Ids, NEW by, Made(h, id, by)
        PROVE  Shown(w, body)' = Shown(w, body)
    <3>1. pub'[id].doc = q.doc /\ ~Exists(id) /\ OthersKept({id})
      BY <2>6, SMTT(30) DEF Made, NewPublication
    <3> QED
      BY <2>3, <2>4, <3>1 DEF Shows, Exists
  <2>7. ~Certified(h)
    BY <1>1, PrincipalAssumption DEF Certified
  <2>8. ASSUME NEW fork \in Ids, SplitOff(h, fork)
        PROVE  Shown(w, body)' = Shown(w, body)
    <3> PICK p : p = pub[q.id]
      BY Zenon
    <3> DEFINE left == [p.doc EXCEPT !.targets = @ \ q.doc.targets]
    <3>1. /\ q.id \in Ids /\ Exists(q.id) /\ OthersKept({q.id, fork}) /\ ~Exists(fork)
          /\ pub'[q.id] = [p EXCEPT !.doc = left, !.revision = p.revision + 1]
          /\ pub'[fork] = [NewPublication(q, Null) EXCEPT !.revision = 2]
      BY <2>8 DEF SplitOff
    <3>2. p \in Publication /\ p.doc \in Doc
      BY <1>1, <3>1, PublicationFacts
    <3>3. left.status = p.doc.status /\ left.body = p.doc.body
          /\ left.targets = p.doc.targets \ q.doc.targets
      BY <3>2 DEF Doc
    <3>4. pub'[q.id].doc = left /\ pub'[fork].doc = q.doc
      BY <3>1, <3>2 DEF Publication, NewPublication
    <3>5. pub'[q.id] # Null
      <4>1. p.revision + 1 \in Revisions /\ left \in Doc
        BY <2>8, <3>2, Zenon DEF SplitOff, Doc
      <4>2. pub'[q.id] \in Publication
        BY <3>1, <3>2, <4>1 DEF Publication
      <4> QED
        BY <4>2, NullAssumption
    <3> HIDE DEF left
    <3>6. Shows(pub'[q.id], w, body) <=> Shows(pub[q.id], w, body)
      BY <2>3, <3>1, <3>3, <3>4, <3>5 DEF Shows, Exists
    <3>7. Shows(pub'[fork], w, body) <=> Shows(pub[fork], w, body)
      BY <2>3, <3>1, <3>4 DEF Shows, Exists
    <3> QED
      BY <2>4, <3>1, <3>6, <3>7
  <2> QED
    BY <1>1, <2>5, <2>6, <2>7, <2>8, CommittedCommits, CommitCases
<1>2. (IInv /\ VouchIInv) /\ [Next]_vars =>
        [\A h \in Handlers :
            Committed(h) /\ handler[h].by \in Screens =>
                \A w \in Workspaces \ ScreenWorkspaces[handler[h].by] :
                    \A body \in Bodies : Shown(w, body)' = Shown(w, body)]_vars
  BY <1>1
<1> QED
  BY <1>2, VouchInvariance, PTL DEF Spec, ScreenKeepsToItsClass

-----------------------------------------------------------------------------
(* The log of versions *)

\* A log has the publication's revisions.
LEMMA VersionLogIs ==
    ASSUME NEW p, NEW rows, p # Null, p.revision \in Nat
    PROVE  /\ Len(VersionLog(p, rows)) = p.revision
           /\ \A r \in 1..p.revision : VersionLog(p, rows)[r] = rows[r]
  BY DEF VersionLog

\* The logs before and after a step.
LEMMA VersionLogsAre ==
    /\ DOMAIN VersionLogs = Ids
    /\ \A id \in Ids : VersionLogs[id] = VersionLog(pub[id], history[id])
    /\ DOMAIN VersionLogs' = Ids
    /\ \A id \in Ids : VersionLogs'[id] = VersionLog(pub'[id], history'[id])
  BY DEF VersionLogs

\* Publications that a step leaves alone keep their logs.
LEMMA OtherLogsStay ==
    ASSUME NEW ids \in SUBSET Ids, OthersKept(ids)
    PROVE  Log!OnlyChanges(ids)
  BY VersionLogsAre DEF OthersKept, Log!OnlyChanges

\* The log of a publication before and after a step.
LEMMA LogBefore ==
    ASSUME NEW id \in Ids, Exists(id), pub[id].revision \in Nat
    PROVE  /\ Len(VersionLogs[id]) = pub[id].revision
           /\ \A r \in 1..pub[id].revision : VersionLogs[id][r] = history[id][r]
<1> PICK p : p = pub[id]
  OBVIOUS
<1> PICK rows : rows = history[id]
  OBVIOUS
<1>1. p # Null /\ p.revision \in Nat
  BY DEF Exists
<1>2. VersionLogs[id] = VersionLog(p, rows)
  BY VersionLogsAre
<1>3. Len(VersionLog(p, rows)) = p.revision
  BY <1>1, VersionLogIs
<1>4. \A r \in 1..p.revision : VersionLog(p, rows)[r] = rows[r]
  BY <1>1, VersionLogIs
<1> QED
  BY <1>2, <1>3, <1>4

\* The log of a publication after a step.
LEMMA LogAfter ==
    ASSUME NEW id \in Ids, NEW new, pub'[id] = new, new # Null, new.revision \in Nat
    PROVE  /\ Len(VersionLogs'[id]) = new.revision
           /\ \A r \in 1..new.revision : VersionLogs'[id][r] = history'[id][r]
<1> PICK rows : rows = history'[id]
  OBVIOUS
<1>1. VersionLogs'[id] = VersionLog(new, rows)
  BY VersionLogsAre
<1>2. Len(VersionLog(new, rows)) = new.revision
  BY VersionLogIs
<1>3. \A r \in 1..new.revision : VersionLog(new, rows)[r] = rows[r]
  BY VersionLogIs
<1> QED
  BY <1>1, <1>2, <1>3

\* One more row is one more version.
LEMMA RowExtends ==
    ASSUME IInv, NEW i \in Ids, Exists(i), NEW next \in Revisions,
           next = pub[i].revision + 1,
           pub'[i] \in Publication, pub'[i].revision = next,
           history'[i][next] \in Row,
           \A r \in Revisions \ {next} : history'[i][r] = history[i][r]
    PROVE  Log!Extended(i)
<1> PICK n : n = pub[i].revision
  OBVIOUS
<1> PICK new : new = pub'[i]
  OBVIOUS
<1> PICK row : row = history'[i][next]
  OBVIOUS
<1>0. next = n + 1 /\ new \in Publication /\ new.revision = n + 1 /\ row \in Row
  OBVIOUS
<1>1. pub[i].revision \in Nat /\ new # Null
  BY WrittenRows, NullAssumption
<1>2. history'[i][n + 1] = row
  OBVIOUS
<1>3. \A r \in 1..n : history'[i][r] = history[i][r]
  <2>1. \A r \in 1..n : r \in Revisions \ {next}
    BY <1>0, <1>1, BoundAssumption DEF Revisions
  <2> QED
    BY <2>1
<1>4. /\ Len(VersionLogs[i]) = n
      /\ \A r \in 1..n : VersionLogs[i][r] = history[i][r]
  BY <1>1, LogBefore
<1>5. new.revision \in Nat
  BY <1>1
<1>6. Len(VersionLogs'[i]) = n + 1
  BY <1>1, <1>5, LogAfter
<1>7. \A r \in 1..new.revision : VersionLogs'[i][r] = history'[i][r]
  BY <1>1, <1>5, LogAfter
<1>8. n + 1 \in 1..new.revision /\ \A r \in 1..n : r \in 1..new.revision
  BY <1>1
<1>9. VersionLogs'[i][n + 1] = row
  BY <1>2, <1>7, <1>8
<1>10. \A r \in 1..n : VersionLogs'[i][r] = VersionLogs[i][r]
  BY <1>3, <1>4, <1>7, <1>8
<1>11. Len(VersionLogs'[i]) = Len(VersionLogs[i]) + 1
  BY <1>4, <1>6
<1>12. VersionLogs'[i][Len(VersionLogs'[i])] \in Row
  BY <1>6, <1>9
<1> QED
  BY <1>4, <1>10, <1>11, <1>12 DEF Log!Extended

\* A save writes one more version of one publication.
LEMMA SavedExtends ==
    ASSUME IInv, NEW h \in Handlers, NEW by, Saved(h, by)
    PROVE  Log!Next
<1> PICK q : q = handler[h]
  OBVIOUS
<1> PICK i : i = q.id
  OBVIOUS
<1> PICK p : p = pub[i]
  OBVIOUS
<1> PICK n : n = p.revision
  OBVIOUS
<1> PICK row : row = [doc |-> q.doc, certifiedBy |-> by]
  OBVIOUS
<1> PICK doc : doc = SavedDoc(p, q)
  OBVIOUS
<1> PICK new : new = [p EXCEPT !.doc = doc, !.revision = n + 1, !.certifiedBy = by]
  OBVIOUS
<1>1. /\ q \in Request /\ i \in Ids /\ Exists(i) /\ n + 1 \in Revisions
      /\ by \in Accounts \cup {Null} /\ doc \in Doc
      /\ pub'[i] = new
      /\ history'[i] = [history[i] EXCEPT ![n + 1] = row]
      /\ OthersKept({i})
  BY DEF Saved, Wrote
<1>2. p \in Publication
  BY <1>1, PublicationFacts
<1>3. row \in Row /\ new \in Publication /\ new.revision = n + 1
  BY <1>1, <1>2 DEF Row, Publication, Request
<1>4. n = pub[i].revision
  OBVIOUS
<1>5. Log!Extended(i)
  <2> PICK next : next = n + 1
    OBVIOUS
  <2>1. i \in Ids /\ Exists(i) /\ next = pub[i].revision + 1 /\ next \in Revisions
    BY <1>1
  <2>2. pub'[i] \in Publication /\ pub'[i].revision = next
    BY <1>1, <1>3, <1>4
  <2>3. /\ history'[i][next] \in Row
        /\ \A r \in Revisions \ {next} : history'[i][r] = history[i][r]
    BY <1>1, <1>3, <1>4, <2>1, WrittenRows
  <2> QED
    BY <2>1, <2>2, <2>3, RowExtends
<1>6. Log!Write(i)
  BY <1>1, <1>5, OtherLogsStay DEF Log!Write
<1> QED
  BY <1>1, <1>6 DEF Log!Next

\* A creation writes the first version of a publication.
LEMMA MadeExtends ==
    ASSUME IInv, NEW h \in Handlers, NEW i \in Ids, NEW by, Made(h, i, by)
    PROVE  Log!Next
<1> PICK q : q = handler[h]
  OBVIOUS
<1> PICK row : row = [doc |-> q.doc, certifiedBy |-> by]
  OBVIOUS
<1> PICK new : new = NewPublication(q, by)
  OBVIOUS
<1>1. /\ q \in Request /\ by \in Accounts \cup {Null} /\ ~Exists(i)
      /\ pub'[i] = new
      /\ history'[i] = [history[i] EXCEPT ![1] = row]
      /\ OthersKept({i})
  BY DEF Made
<1>2. row \in Row /\ new \in Publication /\ new.revision = 1
  BY <1>1, WrittenRows DEF Row, Publication, Request, NewPublication
<1>3. new # Null
  BY <1>2, NullAssumption
<1>4. VersionLogs[i] = <<>>
  BY <1>1, VersionLogsAre DEF VersionLog, Exists
<1>5. history'[i][1] = row
  BY <1>1, WrittenRows
<1>6. Len(VersionLogs'[i]) = 1 /\ VersionLogs'[i][1] = row
  <2>1. i \in Ids /\ pub'[i] = new /\ new # Null /\ new.revision \in Nat
    BY <1>1, <1>2, <1>3
  <2>2. Len(VersionLogs'[i]) = new.revision
    BY <2>1, LogAfter
  <2>3. \A r \in 1..new.revision : VersionLogs'[i][r] = history'[i][r]
    BY <2>1, LogAfter
  <2> QED
    BY <1>2, <1>5, <2>2, <2>3
<1>7. Log!Extended(i)
  BY <1>2, <1>4, <1>6 DEF Log!Extended
<1>8. Log!Write(i)
  BY <1>1, <1>7, OtherLogsStay DEF Log!Write
<1> QED
  BY <1>8 DEF Log!Next

\* The original goes on without the class, the copy has two versions of its own.
LEMMA SplitForks ==
    ASSUME IInv, NEW h \in Handlers, NEW fork \in Ids, SplitOff(h, fork)
    PROVE  Log!Next
<1> PICK q : q = handler[h]
  OBVIOUS
<1> PICK i : i = q.id
  OBVIOUS
<1> PICK p : p = pub[i]
  OBVIOUS
<1> PICK n : n = p.revision
  OBVIOUS
<1>left. PICK left : left = [p.doc EXCEPT !.targets = @ \ q.doc.targets]
  OBVIOUS
<1>own. PICK own : own = [p.doc EXCEPT !.targets = q.doc.targets]
  OBVIOUS
<1>row. PICK row : row = [doc |-> Stripped(left), certifiedBy |-> q.existing.certifiedBy]
  OBVIOUS
<1>first. PICK first : first = [doc |-> Stripped(own), certifiedBy |-> q.existing.certifiedBy]
  OBVIOUS
<1>edit. PICK edit : edit = [doc |-> q.doc, certifiedBy |-> Null]
  OBVIOUS
<1>new. PICK new : new = [p EXCEPT !.doc = left, !.revision = n + 1]
  OBVIOUS
<1>copy. PICK copy : copy = [NewPublication(q, Null) EXCEPT !.revision = 2]
  BY Zenon
<1>1. /\ q \in Request /\ i \in Ids /\ Exists(i) /\ fork # i /\ ~Exists(fork)
      /\ n + 1 \in Revisions /\ q.existing.certifiedBy \in {Null, p.certifiedBy}
      /\ pub'[i] = new /\ pub'[fork] = copy
      /\ history'[i] = [history[i] EXCEPT ![n + 1] = row]
      /\ history'[fork] = [history[fork] EXCEPT ![1] = first, ![2] = edit]
      /\ OthersKept({i, fork})
  BY <1>left, <1>own, <1>row, <1>first, <1>edit, <1>new, <1>copy, Zenon DEF SplitOff
<1>2. p \in Publication /\ p.doc \in Doc /\ q.doc \in Doc
  BY <1>1, PublicationFacts, Zenon DEF Request
<1>3. left \in Doc /\ own \in Doc
  BY <1>left, <1>own, <1>2 DEF Doc
<1>4. q.existing.certifiedBy \in Accounts \cup {Null}
  BY <1>1, <1>2 DEF Publication
<1>5. row \in Row /\ first \in Row /\ edit \in Row
  <2>1. Stripped(left) \in Doc /\ Stripped(own) \in Doc
    BY <1>3, StrippedFacts
  <2> QED
    BY <1>row, <1>first, <1>edit, <1>2, <1>4, <2>1 DEF Row
<1>6. new \in Publication /\ new.revision = n + 1
  BY <1>new, <1>1, <1>2, <1>3 DEF Publication
<1>7. copy \in Publication /\ copy.revision = 2
  BY <1>copy, <1>1, WrittenRows DEF NewPublication, Publication, Request
<1>8. n = pub[i].revision
  OBVIOUS
<1>9. Log!Extended(i)
  <2> PICK next : next = n + 1
    OBVIOUS
  <2>1. i \in Ids /\ Exists(i) /\ next = pub[i].revision + 1 /\ next \in Revisions
    BY <1>1
  <2>2. pub'[i] \in Publication /\ pub'[i].revision = next
    BY <1>1, <1>5, <1>6, <1>8
  <2>3. /\ history'[i][next] \in Row
        /\ \A r \in Revisions \ {next} : history'[i][r] = history[i][r]
    <3>1. history[i] \in [Revisions -> Row \cup {Null}]
      BY <1>1, WrittenRows
    <3>2. history'[i] = [history[i] EXCEPT ![next] = row]
      BY <1>1
    <3> QED
      BY <1>5, <2>1, <3>1, <3>2
  <2> QED
    BY <2>1, <2>2, <2>3, RowExtends
<1>10. VersionLogs[fork] = <<>>
  BY <1>1, VersionLogsAre DEF VersionLog, Exists
<1>11. VersionLogs[i] # <<>>
  <2>1. pub[i].revision \in Nat /\ pub[i].revision \in Revisions
    BY <1>1, WrittenRows
  <2>2. Len(VersionLogs[i]) = pub[i].revision
    BY <1>1, <2>1, LogBefore
  <2>3. pub[i].revision # 0
    BY <2>1 DEF Revisions
  <2> QED
    BY <2>2, <2>3
<1>12. VersionLogs'[fork] \in Row \X Row
  <2>1. copy # Null /\ copy.revision = 2 /\ pub'[fork] = copy
    BY <1>1, <1>7, NullAssumption
  <2>2. history[fork] \in [Revisions -> Row \cup {Null}] /\ 1 \in Revisions /\ 2 \in Revisions
    BY WrittenRows
  <2> PICK old : old = history[fork]
    OBVIOUS
  <2> PICK rows : rows = history'[fork]
    OBVIOUS
  <2>3. rows = [old EXCEPT ![1] = first, ![2] = edit]
    BY <1>1
  <2>4. rows[1] = first /\ rows[2] = edit
    <3>1. 1 \in DOMAIN old /\ 2 \in DOMAIN old
      BY <2>2
    <3> PICK begun : begun = [old EXCEPT ![1] = first]
      OBVIOUS
    <3>2. begun[1] = first /\ 1 \in DOMAIN begun /\ 2 \in DOMAIN begun
      BY <3>1
    <3>3. rows = [begun EXCEPT ![2] = edit]
      BY <2>3, Zenon
    <3>4. rows[2] = edit
      BY <3>2, <3>3, Zenon
    <3>5. 1 # 2
      OBVIOUS
    <3>6. rows[1] = begun[1]
      BY <3>2, <3>3, <3>5, Zenon
    <3> QED
      BY <3>2, <3>4, <3>6
  <2>5. VersionLogs'[fork] = VersionLog(copy, rows)
    BY <2>1, VersionLogsAre, Zenon
  <2>6. VersionLog(copy, rows) = [r \in 1..2 |-> rows[r]]
    BY <2>1 DEF VersionLog
  <2>7. [r \in 1..2 |-> rows[r]] = <<rows[1], rows[2]>>
    OBVIOUS
  <2>8. <<first, edit>> \in Row \X Row
    BY <1>5
  <2> QED
    BY <2>4, <2>5, <2>6, <2>7, <2>8
<1>13. Log!OnlyChanges({i, fork})
  BY <1>1, OtherLogsStay
<1>14. Log!Fork(i, fork)
  BY <1>9, <1>10, <1>11, <1>12, <1>13 DEF Log!Fork
<1> QED
  BY <1>1, <1>14 DEF Log!Next

\* A change of one row of one publication is a change of one version of its log.
LEMMA RowChanges ==
    ASSUME NEW i \in Ids, NEW r \in Revisions, Exists(i),
           pub[i].revision \in Revisions, r \in 1..pub[i].revision,
           pub'[i] # Null, pub'[i].revision = pub[i].revision,
           \A x \in Revisions \ {r} : history'[i][x] = history[i][x],
           OthersKept({i})
    PROVE  /\ VersionLogs' = [VersionLogs EXCEPT ![i] = [VersionLogs[i] EXCEPT ![r] = history'[i][r]]]
           /\ VersionLogs'[i][r] = history'[i][r]
           /\ VersionLogs[i][r] = history[i][r]
           /\ Len(VersionLogs[i]) = pub[i].revision
<1> PICK old : old = pub[i]
  OBVIOUS
<1> PICK new : new = pub'[i]
  OBVIOUS
<1> PICK n : n = pub[i].revision
  OBVIOUS
<1> PICK rows : rows = history[i]
  OBVIOUS
<1> PICK more : more = history'[i]
  OBVIOUS
<1>0. n \in Nat /\ 1..n \subseteq Revisions /\ r \in 1..n
  BY BoundAssumption DEF Revisions
<1>1. VersionLogs[i] = [x \in 1..n |-> rows[x]]
  <2>1. VersionLogs[i] = VersionLog(old, rows)
    BY VersionLogsAre, Zenon
  <2>2. old # Null /\ old.revision = n
    BY DEF Exists
  <2> QED
    BY <2>1, <2>2 DEF VersionLog
<1>2. VersionLogs'[i] = [x \in 1..n |-> more[x]]
  <2>1. VersionLogs'[i] = VersionLog(new, more)
    BY VersionLogsAre, Zenon
  <2>2. new # Null /\ new.revision = n
    OBVIOUS
  <2> QED
    BY <2>1, <2>2 DEF VersionLog
<1>3. \A x \in (1..n) \ {r} : more[x] = rows[x]
  BY <1>0
<1>4. [x \in 1..n |-> more[x]] = [[x \in 1..n |-> rows[x]] EXCEPT ![r] = more[r]]
  BY <1>0, <1>3
<1>5. VersionLogs[i][r] = rows[r] /\ VersionLogs'[i][r] = more[r]
  BY <1>0, <1>1, <1>2
<1>6. Len(VersionLogs[i]) = n
  BY <1>0, <1>1
<1>7. \A j \in Ids \ {i} : VersionLogs'[j] = VersionLogs[j]
  BY VersionLogsAre DEF OthersKept
<1> PICK L : L = VersionLogs
  OBVIOUS
<1> PICK M : M = VersionLogs'
  OBVIOUS
<1>8. M = [L EXCEPT ![i] = [L[i] EXCEPT ![r] = more[r]]]
  <2>1. L = [j \in Ids |-> L[j]]
    BY DEF VersionLogs
  <2>2. M = [j \in Ids |-> M[j]]
    BY DEF VersionLogs
  <2>3. M[i] = [L[i] EXCEPT ![r] = more[r]]
    BY <1>1, <1>2, <1>4
  <2>4. \A j \in Ids \ {i} : M[j] = L[j]
    BY <1>7
  <2> QED
    BY <2>1, <2>2, <2>3, <2>4
<1> QED
  BY <1>5, <1>6, <1>8

\* Revisions count from 1.
LEMMA RevisionsAre ==
    ASSUME NEW n \in Revisions
    PROVE  n \in Nat /\ n \in 1..n /\ n # 0 /\ 1..n \subseteq Revisions
BY BoundAssumption DEF Revisions

\* A certification marks the newest version of one log.
LEMMA CertifiedMarks ==
    ASSUME IInv, HeadRowKnown, NEW h \in Handlers, Certified(h)
    PROVE  Log!Next
<1> PICK q : q = handler[h]
  OBVIOUS
<1> PICK i : i = q.id
  OBVIOUS
<1> PICK p : p = pub[i]
  OBVIOUS
<1> PICK n : n = p.revision
  OBVIOUS
<1> PICK old : old = history[i][n]
  OBVIOUS
<1>row. PICK row : row = [old EXCEPT !.certifiedBy = q.by]
  OBVIOUS
<1>new. PICK new : new = [p EXCEPT !.certifiedBy = q.by]
  BY Zenon
<1>1. /\ q.by \in Accounts /\ i \in Ids /\ Exists(i) /\ p.certifiedBy = Null
      /\ pub'[i] = new
      /\ history'[i] = [history[i] EXCEPT ![n] = row]
      /\ OthersKept({i})
  BY <1>row, <1>new, Zenon DEF Certified
<1>2. /\ p \in Publication /\ n \in Nat /\ n \in Revisions /\ n \in 1..n /\ n # 0
      /\ old \in Row /\ old.certifiedBy = Null
  <2>1. p \in Publication /\ n \in Revisions
    BY <1>1, PublicationFacts, WrittenRows
  <2>2. old \in Row /\ old.certifiedBy = Null
    BY <1>1, WrittenRows DEF HeadRowKnown
  <2>3. n \in Nat /\ n \in 1..n /\ n # 0
    BY <2>1, RevisionsAre
  <2> QED
    BY <2>1, <2>2, <2>3
<1>3. new \in Publication /\ new.revision = n
  BY <1>new, <1>1, <1>2 DEF Publication
<1>4. row.certifiedBy = q.by /\ q.by # Null
  BY <1>row, <1>1, <1>2, NullAssumption, Zenon DEF Row
<1>5. history[i] \in [Revisions -> Row \cup {Null}]
  BY <1>1, WrittenRows
<1>6. history'[i][n] = row
  BY <1>1, <1>2, <1>5
<1>7. /\ VersionLogs' = [VersionLogs EXCEPT ![i] = [VersionLogs[i] EXCEPT ![n] = history'[i][n]]]
      /\ VersionLogs'[i][n] = history'[i][n]
      /\ VersionLogs[i][n] = history[i][n]
      /\ Len(VersionLogs[i]) = n
  <2>1. pub[i].revision = n /\ pub[i].revision \in Revisions /\ n \in 1..pub[i].revision
    BY <1>2
  <2>2. pub'[i] # Null /\ pub'[i].revision = pub[i].revision
    BY <1>1, <1>3, NullAssumption
  <2>3. \A x \in Revisions \ {n} : history'[i][x] = history[i][x]
    BY <1>1, <1>5
  <2>4. i \in Ids /\ n \in Revisions /\ Exists(i) /\ OthersKept({i})
    BY <1>1, <1>2
  <2> QED
    BY <2>1, <2>2, <2>3, <2>4, RowChanges, Zenon
<1> PICK L : L = VersionLogs
  OBVIOUS
<1> PICK M : M = VersionLogs'
  OBVIOUS
<1>8. M = [L EXCEPT ![i] = [L[i] EXCEPT ![n] = row]]
  BY <1>6, <1>7
<1>9. M[i][n] = row /\ L[i][n] = old /\ Len(L[i]) = n
  BY <1>6, <1>7
<1>10. M = [L EXCEPT ![i][n].certifiedBy = M[i][n].certifiedBy]
  <2>1. [L[i][n] EXCEPT !.certifiedBy = M[i][n].certifiedBy] = row
    BY <1>row, <1>4, <1>9, Zenon
  <2> QED
    BY <1>8, <2>1, Zenon
<1>11. L[i] # <<>>
  <2>1. Len(L[i]) # 0
    BY <1>2, <1>9
  <2> QED
    BY <2>1
<1>12. Log!Certify(i)
  <2>1. L[i][Len(L[i])].certifiedBy = Null /\ M[i][Len(L[i])].certifiedBy # Null
    BY <1>2, <1>4, <1>9
  <2>2. M = [L EXCEPT ![i][Len(L[i])].certifiedBy = M[i][Len(L[i])].certifiedBy]
    BY <1>10, <1>9, Zenon
  <2> QED
    BY <1>11, <2>1, <2>2 DEF Log!Certify
<1> QED
  BY <1>1, <1>12 DEF Log!Next

\* A cleanup erases the body of an older version of one log.
LEMMA PurgedErases ==
    ASSUME IInv, NEW i \in Ids, NEW r \in Revisions, Purged(i, r)
    PROVE  Log!Next
<1> PICK p : p = pub[i]
  OBVIOUS
<1> PICK n : n = p.revision
  OBVIOUS
<1> PICK old : old = history[i][r]
  OBVIOUS
<1> PICK row : row = [old EXCEPT !.doc = Shell(@)]
  OBVIOUS
<1>1. /\ Exists(i) /\ old # Null /\ r # n /\ old.certifiedBy = Null
      /\ history' = [history EXCEPT ![i] = [history[i] EXCEPT ![r] = row]]
      /\ pub' = pub
  BY DEF Purged
<1>2. history \in [Ids -> [Revisions -> Row \cup {Null}]]
  BY DEF IInv, TypeOK
<1>3. /\ n \in Nat /\ r \in 1..n /\ r < n /\ 1..n \subseteq Revisions
  <2>1. n \in Nat /\ n \in 1..MaxRevision /\ MaxRevision \in Nat
    BY <1>1, WrittenRows, BoundAssumption DEF Revisions
  <2>2. r \in 1..n
    BY <1>1, PublicationFacts
  <2> QED
    BY <1>1, <2>1, <2>2 DEF Revisions
<1>4. history'[i][r] = row
  BY <1>1, <1>2
<1>5. /\ VersionLogs' = [VersionLogs EXCEPT ![i] = [VersionLogs[i] EXCEPT ![r] = history'[i][r]]]
      /\ VersionLogs[i][r] = history[i][r]
      /\ Len(VersionLogs[i]) = n
  <2>1. pub[i].revision \in Revisions /\ r \in 1..pub[i].revision
    BY <1>1, <1>3, WrittenRows
  <2>2. pub'[i] # Null /\ pub'[i].revision = pub[i].revision
    BY <1>1 DEF Exists
  <2>3. \A x \in Revisions \ {r} : history'[i][x] = history[i][x]
    BY <1>1, <1>2
  <2>4. OthersKept({i})
    BY <1>1, <1>2 DEF OthersKept
  <2> QED
    BY <1>1, <2>1, <2>2, <2>3, <2>4, RowChanges
<1> PICK L : L = VersionLogs
  OBVIOUS
<1> PICK M : M = VersionLogs'
  OBVIOUS
<1>6. M = [L EXCEPT ![i] = [L[i] EXCEPT ![r] = row]] /\ L[i][r] = old /\ Len(L[i]) = n
  BY <1>4, <1>5
<1>7. row = [L[i][r] EXCEPT !.doc = [@ EXCEPT !.body = Erased, !.reason = Null]]
  BY <1>6, Zenon DEF Shell
<1>8. M = [L EXCEPT ![i][r].doc = [@ EXCEPT !.body = Erased, !.reason = Null]]
  BY <1>6, <1>7, Zenon
<1>9. Log!Erase(i)
  <2>1. r \in 1..Len(L[i]) /\ r < Len(L[i]) /\ L[i][r].certifiedBy = Null
    BY <1>1, <1>3, <1>6
  <2> QED
    BY <1>8, <2>1 DEF Log!Erase
<1> QED
  BY <1>9 DEF Log!Next

\* The history of every publication is an append-only log: versions are added at
\* its end, certified once while they are newest, and erased only when old and
\* uncertified (PublicationRevision).
THEOREM HistoryIsALog == Spec => LogSpec
<1>1. Init => Log!Init
  <2>1. ASSUME Init PROVE VersionLogs = [id \in Ids |-> <<>>]
    BY <2>1 DEF Init, VersionLogs, VersionLog
  <2> QED
    BY <2>1 DEF Log!Init
<1>2. ASSUME IInv, VouchIInv, [Next]_vars PROVE [Log!Next]_VersionLogs
  <2>1. CASE UNCHANGED <<pub, history>>
    BY <2>1 DEF VersionLogs
  <2>2. ASSUME NEW h \in Handlers, NEW by, Saved(h, by) PROVE Log!Next
    BY <1>2, <2>2, SavedExtends
  <2>3. ASSUME NEW h \in Handlers, NEW id \in Ids, NEW by, Made(h, id, by) PROVE Log!Next
    BY <1>2, <2>3, MadeExtends
  <2>4. ASSUME NEW h \in Handlers, Certified(h) PROVE Log!Next
    BY <1>2, <2>4, CertifiedMarks DEF VouchIInv
  <2>5. ASSUME NEW h \in Handlers, NEW fork \in Ids, SplitOff(h, fork) PROVE Log!Next
    BY <1>2, <2>5, SplitForks
  <2>6. ASSUME NEW id \in Ids, NEW r \in Revisions, Purged(id, r) PROVE Log!Next
    BY <1>2, <2>6, PurgedErases
  <2>7. ASSUME NEW h \in Handlers, Begins(h) \/ Ends(h) PROVE UNCHANGED <<pub, history>>
    BY <2>7 DEF Begins, Ends
  <2> QED
    BY <1>2, <2>1, <2>2, <2>3, <2>4, <2>5, <2>6, <2>7, StepCases, Zenon
<1>3. (IInv /\ VouchIInv) /\ [Next]_vars => [Log!Next]_VersionLogs
  BY <1>2
<1> QED
  BY <1>1, <1>3, VouchInvariance, PTL DEF Spec, LogSpec, Log!Spec

-----------------------------------------------------------------------------
(* Where certifications disagree *)

\* A split writes the certification its publication has, not one it had.
SplitsSeeCertification ==
    \A h \in Handlers : CommitSplit(h) =>
        handler[h].existing.certifiedBy = pub[handler[h].id].certifiedBy

\* One publication of HeadCertificationAgrees, for a row and its history.
SameCertification(p, rows) == p # Null => rows[p.revision].certifiedBy = p.certifiedBy

\* A publication that a step leaves alone keeps its certification.
LEMMA OtherCertificationsStay ==
    ASSUME HeadCertificationAgrees, NEW id \in Ids,
           pub'[id] = pub[id], history'[id] = history[id]
    PROVE  SameCertification(pub'[id], history'[id])
  BY DEF SameCertification, HeadCertificationAgrees, Exists

\* A split that writes the current certification keeps both in agreement.
LEMMA SplitKeepsCertification ==
    ASSUME IInv, HeadCertificationAgrees, SplitsSeeCertification,
           NEW h \in Handlers, NEW fork \in Ids, SplitOff(h, fork)
    PROVE  \A id \in Ids : SameCertification(pub'[id], history'[id])
<1> PICK q : q = handler[h]
  OBVIOUS
<1> PICK i : i = q.id
  OBVIOUS
<1> PICK p : p = pub[i]
  OBVIOUS
<1> PICK n : n = p.revision + 1
  OBVIOUS
<1>left. PICK left : left = [p.doc EXCEPT !.targets = @ \ q.doc.targets]
  OBVIOUS
<1>row. PICK row : row = [doc |-> Stripped(left), certifiedBy |-> q.existing.certifiedBy]
  OBVIOUS
<1>edit. PICK edit : edit = [doc |-> q.doc, certifiedBy |-> Null]
  BY Zenon
<1>1. /\ q \in Request /\ i \in Ids /\ Exists(i)
      /\ q.existing.certifiedBy = p.certifiedBy
      /\ n \in Revisions
      /\ pub'[i] = [p EXCEPT !.doc = left, !.revision = n]
      /\ history'[i] = [history[i] EXCEPT ![n] = row]
  BY <1>left, <1>row, ZenonT(30) DEF SplitOff, SplitsSeeCertification
<1>2. /\ pub'[fork] = [NewPublication(q, Null) EXCEPT !.revision = 2]
      /\ OthersKept({i, fork})
  BY Zenon DEF SplitOff
<1>3. PICK first : history'[fork] = [history[fork] EXCEPT ![1] = first, ![2] = edit]
  BY <1>edit DEF SplitOff
<1>4. p \in Publication /\ history[i] \in [Revisions -> Row \cup {Null}]
      /\ history[fork] \in [Revisions -> Row \cup {Null}] /\ 1 \in Revisions /\ 2 \in Revisions
  BY <1>1, PublicationFacts, WrittenRows
<1>5. SameCertification(pub'[i], history'[i])
  <2>1. pub'[i].revision = n /\ pub'[i].certifiedBy = p.certifiedBy
    BY <1>1, <1>4 DEF Publication
  <2>2. history'[i][n] = row
    BY <1>1, <1>4
  <2>3. row.certifiedBy = p.certifiedBy
    BY <1>row, <1>1
  <2> QED
    BY <2>1, <2>2, <2>3 DEF SameCertification
<1>6. SameCertification(pub'[fork], history'[fork])
  <2>1. pub'[fork].revision = 2 /\ pub'[fork].certifiedBy = Null
    BY <1>2 DEF NewPublication
  <2> PICK old : old = history[fork]
    OBVIOUS
  <2> PICK begun : begun = [old EXCEPT ![1] = first]
    OBVIOUS
  <2>2. history'[fork] = [begun EXCEPT ![2] = edit]
    BY <1>3, Zenon
  <2>3. 2 \in DOMAIN begun
    BY <1>4
  <2>4. history'[fork][2] = edit
    BY <2>2, <2>3, Zenon
  <2>5. edit.certifiedBy = Null
    BY <1>edit
  <2> QED
    BY <2>1, <2>4, <2>5 DEF SameCertification
<1>7. ASSUME NEW id \in Ids \ {i, fork} PROVE SameCertification(pub'[id], history'[id])
  BY <1>2, <1>7 DEF SameCertification, OthersKept, HeadCertificationAgrees, Exists
<1> QED
  BY <1>5, <1>6, <1>7

\* So does every other step.
LEMMA CertificationsStaySame ==
    ASSUME IInv, HeadCertificationAgrees, SplitsSeeCertification, [Next]_vars
    PROVE  HeadCertificationAgrees'
<1> SUFFICES \A id \in Ids : SameCertification(pub'[id], history'[id])
  BY DEF HeadCertificationAgrees, SameCertification, Exists
<1>1. ASSUME NEW h \in Handlers, NEW by, Saved(h, by), NEW id \in Ids
      PROVE  SameCertification(pub'[id], history'[id])
  <2> PICK q : q = handler[h]
    OBVIOUS
  <2> PICK i : i = q.id
    OBVIOUS
  <2> PICK p : p = pub[i]
    OBVIOUS
  <2> PICK n : n = p.revision + 1
    OBVIOUS
  <2> PICK row : row = [doc |-> q.doc, certifiedBy |-> by]
    OBVIOUS
  <2> PICK doc : doc = SavedDoc(p, q)
    OBVIOUS
  <2>1. /\ i \in Ids /\ Exists(i) /\ n \in Revisions
        /\ pub'[i] = [p EXCEPT !.doc = doc, !.revision = n, !.certifiedBy = by]
        /\ history'[i] = [history[i] EXCEPT ![n] = row]
        /\ OthersKept({i})
    BY <1>1 DEF Saved, Wrote
  <2>2. p \in Publication /\ history[i] \in [Revisions -> Row \cup {Null}]
    BY <2>1, PublicationFacts, WrittenRows
  <2>3. CASE id = i
    <3>1. pub'[i].revision = n /\ pub'[i].certifiedBy = by
      BY <2>1, <2>2 DEF Publication
    <3>2. history'[i][n] = row
      BY <2>1, <2>2
    <3>3. row.certifiedBy = by
      OBVIOUS
    <3> QED
      BY <2>3, <3>1, <3>2, <3>3 DEF SameCertification
  <2>4. CASE id # i
    <3>1. pub'[id] = pub[id] /\ history'[id] = history[id]
      BY <2>1, <2>4 DEF OthersKept
    <3> QED
      BY <3>1, OtherCertificationsStay
  <2> QED
    BY <2>3, <2>4
<1>2. ASSUME NEW h \in Handlers, NEW i \in Ids, NEW by, Made(h, i, by), NEW id \in Ids
      PROVE  SameCertification(pub'[id], history'[id])
  <2> PICK q : q = handler[h]
    OBVIOUS
  <2> PICK row : row = [doc |-> q.doc, certifiedBy |-> by]
    OBVIOUS
  <2>1. /\ pub'[i] = NewPublication(q, by)
        /\ history'[i] = [history[i] EXCEPT ![1] = row]
        /\ OthersKept({i})
    BY <1>2 DEF Made
  <2>2. history[i] \in [Revisions -> Row \cup {Null}] /\ 1 \in Revisions
    BY WrittenRows
  <2>3. CASE id = i
    <3>1. pub'[i].revision = 1 /\ pub'[i].certifiedBy = by
      BY <2>1 DEF NewPublication
    <3>2. history'[i][1] = row
      BY <2>1, <2>2
    <3>3. row.certifiedBy = by
      OBVIOUS
    <3> QED
      BY <2>3, <3>1, <3>2, <3>3 DEF SameCertification
  <2>4. CASE id # i
    <3>1. pub'[id] = pub[id] /\ history'[id] = history[id]
      BY <2>1, <2>4 DEF OthersKept
    <3> QED
      BY <3>1, OtherCertificationsStay
  <2> QED
    BY <2>3, <2>4
<1>3. ASSUME NEW h \in Handlers, Certified(h), NEW id \in Ids
      PROVE  SameCertification(pub'[id], history'[id])
  <2> PICK q : q = handler[h]
    OBVIOUS
  <2> PICK i : i = q.id
    OBVIOUS
  <2> PICK p : p = pub[i]
    OBVIOUS
  <2> PICK n : n = p.revision
    OBVIOUS
  <2> PICK old : old = history[i][n]
    OBVIOUS
  <2>row. PICK row : row = [old EXCEPT !.certifiedBy = q.by]
    BY Zenon
  <2>1. /\ i \in Ids /\ Exists(i)
        /\ pub'[i] = [p EXCEPT !.certifiedBy = q.by]
        /\ history'[i] = [history[i] EXCEPT ![n] = row]
        /\ OthersKept({i})
    BY <2>row, <1>3, Zenon DEF Certified
  <2>2. p \in Publication /\ old \in Row /\ n \in Revisions
        /\ history[i] \in [Revisions -> Row \cup {Null}]
    BY <2>1, PublicationFacts, WrittenRows
  <2>3. CASE id = i
    <3>1. pub'[i].revision = n /\ pub'[i].certifiedBy = q.by
      BY <2>1, <2>2 DEF Publication
    <3>2. history'[i][n] = row
      BY <2>1, <2>2
    <3>3. row.certifiedBy = q.by
      BY <2>row, <2>2, Zenon DEF Row
    <3> QED
      BY <2>3, <3>1, <3>2, <3>3 DEF SameCertification
  <2>4. CASE id # i
    <3>1. pub'[id] = pub[id] /\ history'[id] = history[id]
      BY <2>1, <2>4 DEF OthersKept
    <3> QED
      BY <3>1, OtherCertificationsStay
  <2> QED
    BY <2>3, <2>4
<1>4. ASSUME NEW h \in Handlers, NEW fork \in Ids, SplitOff(h, fork), NEW id \in Ids
      PROVE  SameCertification(pub'[id], history'[id])
  BY <1>4, SplitKeepsCertification
<1>5. ASSUME NEW i \in Ids, NEW r \in Revisions, Purged(i, r), NEW id \in Ids
      PROVE  SameCertification(pub'[id], history'[id])
  <2> PICK row : row = [history[i][r] EXCEPT !.doc = Shell(@)]
    OBVIOUS
  <2>1. /\ r # pub[i].revision /\ pub' = pub
        /\ history' = [history EXCEPT ![i] = [history[i] EXCEPT ![r] = row]]
    BY <1>5 DEF Purged
  <2>2. history \in [Ids -> [Revisions -> Row \cup {Null}]]
    BY DEF IInv, TypeOK
  <2>3. \A x \in Revisions \ {r} : history'[i][x] = history[i][x]
    BY <2>1, <2>2
  <2>4. \A x \in Ids \ {i} : history'[x] = history[x]
    BY <2>1, <2>2
  <2>5. Exists(id) => history'[id][pub[id].revision] = history[id][pub[id].revision]
    BY <2>1, <2>3, <2>4, WrittenRows
  <2> QED
    BY <2>1, <2>5 DEF SameCertification, HeadCertificationAgrees, Exists
<1>6. ASSUME NEW id \in Ids, pub' = pub, history' = history
      PROVE  SameCertification(pub'[id], history'[id])
  BY <1>6 DEF SameCertification, HeadCertificationAgrees, Exists
<1> QED
  BY <1>1, <1>2, <1>3, <1>4, <1>5, <1>6, StepCases, Zenon DEF Begins, Ends

\* The publication and its newest revision carry the same certification unless
\* a split writes one that was replaced since it was read: the finding about
\* updateScreenPublication is the only way to make them disagree.
THEOREM OnlyStaleSplitsDisagree ==
    Spec /\ [][SplitsSeeCertification]_vars => []HeadCertificationAgrees
<1>1. Init => HeadCertificationAgrees
  BY DEF Init, HeadCertificationAgrees, Exists
<1>2. ASSUME IInv, HeadCertificationAgrees, UNCHANGED vars PROVE HeadCertificationAgrees'
  BY <1>2 DEF vars, HeadCertificationAgrees, Exists
<1>3. IInv /\ HeadCertificationAgrees /\ [Next]_vars /\ [SplitsSeeCertification]_vars
        => HeadCertificationAgrees'
  BY <1>2, CertificationsStaySame
<1> QED
  BY <1>1, <1>3, Invariance, PTL DEF Spec

-----------------------------------------------------------------------------
(* The public feed *)

\* The public feed of w shows this publication.
InFeed(p, w) == p # Null /\ p.doc.status = "PUBLISHED" /\ w \in p.doc.targets

\* A workspace's feed depends only on the publications it shows.
LEMMA FeedStays ==
    ASSUME NEW w,
           \A i \in Ids : pub'[i] = pub[i] \/ (~InFeed(pub[i], w) /\ ~InFeed(pub'[i], w))
    PROVE  Feed(w)' = Feed(w)
<1> DEFINE S == {i \in Ids : InFeed(pub[i], w)}
           T == {i \in Ids : InFeed(pub'[i], w)}
<1>1. S = T /\ \A i \in S : pub'[i] = pub[i]
  OBVIOUS
<1>2. Feed(w) = {<<id, pub[id].revision, pub[id].certifiedBy>> : id \in S}
  BY DEF Feed, InFeed, Exists
<1>3. Feed(w)' = {<<id, pub'[id].revision, pub'[id].certifiedBy>> : id \in T}
  BY DEF Feed, InFeed, Exists
<1> QED
  BY <1>1, <1>2, <1>3

\* A public announcement is on its way to the displays of its rooms.
LEMMA AnnouncesTell ==
    ASSUME IInv, NEW h \in Handlers, NEW rooms, NEW statuses, Announces(h, rooms, statuses),
           rooms \subseteq Workspaces, "PUBLISHED" \in statuses, NEW w \in rooms
    PROVE  Announcing(w)'
<1>1. PICK public \in BOOLEAN :
         /\ handler' = [handler EXCEPT ![h] = [op |-> "announce", rooms |-> rooms,
                                               public |-> public]]
         /\ public
  BY DEF Announces
<1> DEFINE e == [op |-> "announce", rooms |-> rooms, public |-> public]
<1>2. e \in Event /\ e.op = "announce" /\ e.rooms = rooms /\ e.public
  BY <1>1 DEF Event
<1> HIDE DEF e
<1>3. e # Null
  BY <1>2, NullAssumption
<1>4. handler'[h] = e
  BY <1>1 DEF IInv, TypeOK, e
<1>5. w \in Reached(handler'[h])
  BY <1>2, <1>4 DEF Reached
<1> QED
  BY <1>2, <1>3, <1>4, <1>5 DEF Announcing, Ready, Reached

\* Whatever a save changes in a feed, its handler is about to announce.
LEMMA SaveTells ==
    ASSUME IInv, NEW h \in Handlers, NEW by, Saved(h, by), NEW w \in Workspaces,
           Feed(w)' # Feed(w)
    PROVE  Announcing(w)'
<1> PICK q : q = handler[h]
  OBVIOUS
<1> PICK i : i = q.id
  OBVIOUS
<1> PICK p : p = pub[i]
  OBVIOUS
<1> PICK new : new = pub'[i]
  OBVIOUS
<1> PICK doc : doc = SavedDoc(p, q)
  OBVIOUS
<1>1. /\ q \in Request /\ i \in Ids /\ Exists(i)
      /\ new = [p EXCEPT !.doc = doc, !.revision = p.revision + 1, !.certifiedBy = by]
      /\ doc.status = q.doc.status /\ doc.targets = q.doc.targets
      /\ OthersKept({i})
      /\ Announces(h, p.doc.targets \cup q.doc.targets, {q.doc.status, p.doc.status})
  BY DEF Saved, Wrote
<1>2. p \in Publication /\ p.doc \in Doc /\ q.doc \in Doc
  BY <1>1, PublicationFacts DEF Request
<1>3. p.doc.targets \cup q.doc.targets \subseteq Workspaces
  BY <1>2 DEF Doc
<1>4. new.doc = doc
  BY <1>1, <1>2 DEF Publication
<1>5. InFeed(p, w) \/ InFeed(new, w)
  <2>1. SUFFICES ASSUME ~InFeed(p, w), ~InFeed(new, w) PROVE FALSE
    OBVIOUS
  <2>2. \A x \in Ids \ {i} : pub'[x] = pub[x]
    BY <1>1 DEF OthersKept
  <2>3. \A x \in Ids : pub'[x] = pub[x] \/ (~InFeed(pub[x], w) /\ ~InFeed(pub'[x], w))
    BY <2>1, <2>2
  <2> QED
    BY <2>3, FeedStays
<1>6. w \in p.doc.targets \cup q.doc.targets /\ "PUBLISHED" \in {q.doc.status, p.doc.status}
  BY <1>1, <1>4, <1>5 DEF InFeed
<1> QED
  BY <1>1, <1>3, <1>6, AnnouncesTell

\* A creation is announced where it appears.
LEMMA MadeTells ==
    ASSUME IInv, NEW h \in Handlers, NEW id \in Ids, NEW by, Made(h, id, by),
           NEW w \in Workspaces, Feed(w)' # Feed(w)
    PROVE  Announcing(w)'
<1> PICK q : q = handler[h]
  OBVIOUS
<1> PICK new : new = pub'[id]
  OBVIOUS
<1>1. /\ q \in Request /\ ~Exists(id)
      /\ new = NewPublication(q, by)
      /\ OthersKept({id})
      /\ Announces(h, q.doc.targets, {q.doc.status})
  BY DEF Made
<1>2. q.doc.targets \subseteq Workspaces
  BY <1>1 DEF Request, Doc
<1>3. new.doc = q.doc
  BY <1>1 DEF NewPublication
<1>4. ~InFeed(pub[id], w)
  BY <1>1 DEF InFeed, Exists
<1>5. InFeed(new, w)
  BY <1>1, <1>4, FeedStays DEF OthersKept
<1>6. w \in q.doc.targets /\ "PUBLISHED" \in {q.doc.status}
  BY <1>3, <1>5 DEF InFeed
<1> QED
  BY <1>1, <1>2, <1>6, AnnouncesTell

\* A certification is announced where the publication is.
LEMMA CertifiedTells ==
    ASSUME IInv, NEW h \in Handlers, Certified(h), NEW w \in Workspaces,
           Feed(w)' # Feed(w)
    PROVE  Announcing(w)'
<1> PICK q : q = handler[h]
  OBVIOUS
<1> PICK i : i = q.id
  OBVIOUS
<1> PICK p : p = pub[i]
  OBVIOUS
<1> PICK new : new = pub'[i]
  OBVIOUS
<1>1. /\ i \in Ids /\ Exists(i)
      /\ new = [p EXCEPT !.certifiedBy = q.by]
      /\ OthersKept({i})
      /\ Announces(h, p.doc.targets, {p.doc.status})
  BY Zenon DEF Certified
<1>2. p \in Publication /\ p.doc \in Doc
  BY <1>1, PublicationFacts
<1>3. p.doc.targets \subseteq Workspaces
  BY <1>2 DEF Doc
<1>4. new.doc = p.doc
  BY <1>1, <1>2 DEF Publication
<1>5. InFeed(p, w) \/ InFeed(new, w)
  BY <1>1, FeedStays DEF OthersKept
<1>6. w \in p.doc.targets /\ "PUBLISHED" \in {p.doc.status}
  BY <1>4, <1>5 DEF InFeed
<1> QED
  BY <1>1, <1>3, <1>6, AnnouncesTell

\* A split is announced, to the public, wherever the shared publication was: the
\* copy appears only there.
LEMMA SplitTells ==
    ASSUME IInv, NEW h \in Handlers, NEW fork \in Ids, SplitOff(h, fork),
           NEW w \in Workspaces, Feed(w)' # Feed(w)
    PROVE  Announcing(w)'
<1> PICK q : q = handler[h]
  OBVIOUS
<1> PICK i : i = q.id
  OBVIOUS
<1> PICK p : p = pub[i]
  OBVIOUS
<1> PICK new : new = pub'[i]
  OBVIOUS
<1> PICK copy : copy = pub'[fork]
  OBVIOUS
<1>left. PICK left : left = [p.doc EXCEPT !.targets = @ \ q.doc.targets]
  BY Zenon
<1>1. /\ q \in Request /\ i \in Ids /\ Exists(i) /\ ~Exists(fork)
      /\ q.doc.targets \subseteq p.doc.targets
      /\ new = [p EXCEPT !.doc = left, !.revision = p.revision + 1]
      /\ copy = [NewPublication(q, Null) EXCEPT !.revision = 2]
      /\ OthersKept({i, fork})
      /\ Announces(h, p.doc.targets, {"PUBLISHED"})
  BY <1>left, Zenon DEF SplitOff
<1>2. p \in Publication /\ p.doc \in Doc
  BY <1>1, PublicationFacts
<1>3. p.doc.targets \subseteq Workspaces
  BY <1>2 DEF Doc
<1>4. new.doc = left /\ left.targets \subseteq p.doc.targets /\ copy.doc = q.doc
  BY <1>left, <1>1, <1>2, Zenon DEF Publication, Doc, NewPublication
<1>5. ~InFeed(pub[fork], w)
  BY <1>1 DEF InFeed, Exists
<1>6. InFeed(p, w) \/ InFeed(new, w) \/ InFeed(copy, w)
  <2>1. SUFFICES ASSUME ~InFeed(p, w), ~InFeed(new, w), ~InFeed(copy, w) PROVE FALSE
    OBVIOUS
  <2>2. \A x \in Ids \ {i, fork} : pub'[x] = pub[x]
    BY <1>1 DEF OthersKept
  <2>3. \A x \in Ids : pub'[x] = pub[x] \/ (~InFeed(pub[x], w) /\ ~InFeed(pub'[x], w))
    BY <1>5, <2>1, <2>2
  <2> QED
    BY <2>3, FeedStays
<1>7. w \in p.doc.targets
  BY <1>1, <1>4, <1>6 DEF InFeed
<1> QED
  BY <1>1, <1>3, <1>7, AnnouncesTell

\* Whatever changes a workspace's feed, some handler is about to announce there.
LEMMA ChangesTell ==
    ASSUME IInv, [Next]_vars, NEW w \in Workspaces, Feed(w)' # Feed(w)
    PROVE  Announcing(w)'
<1>1. ASSUME pub' = pub PROVE FALSE
  BY <1>1, FeedStays
<1>2. ASSUME NEW h \in Handlers, Begins(h) \/ Ends(h) PROVE FALSE
  BY <1>1, <1>2 DEF Begins, Ends
<1>3. ASSUME NEW id \in Ids, NEW r \in Revisions, Purged(id, r) PROVE FALSE
  BY <1>1, <1>3 DEF Purged
<1>4. ASSUME NEW h \in Handlers, NEW by, Saved(h, by) PROVE Announcing(w)'
  BY <1>4, SaveTells
<1>5. ASSUME NEW h \in Handlers, NEW id \in Ids, NEW by, Made(h, id, by) PROVE Announcing(w)'
  BY <1>5, MadeTells
<1>6. ASSUME NEW h \in Handlers, Certified(h) PROVE Announcing(w)'
  BY <1>6, CertifiedTells
<1>7. ASSUME NEW h \in Handlers, NEW fork \in Ids, SplitOff(h, fork) PROVE Announcing(w)'
  BY <1>7, SplitTells
<1> QED
  BY <1>1, <1>2, <1>3, <1>4, <1>5, <1>6, <1>7, StepCases, Zenon

\* An announcement stays on its way until it is made.
LEMMA TellingStays ==
    ASSUME IInv, [Next]_vars, NEW w \in Workspaces, NEW h \in Handlers,
           Ready(h, "announce"), w \in Reached(handler[h]), handler'[h] # handler[h]
    PROVE  h \in Broadcasting
<1>1. handler \in [Handlers -> Request \cup Event \cup {Null}]
  BY DEF IInv, TypeOK
<1>2. handler[h] # Null /\ handler[h] \notin Request
  BY DEF Ready, Request, AllOperations
<1>3. ASSUME NEW g \in Handlers, NEW x, handler' = [handler EXCEPT ![g] = x] PROVE g = h
  BY <1>1, <1>3
<1>4. ASSUME NEW g \in Handlers, Begins(g) PROVE FALSE
  BY <1>2, <1>3, <1>4 DEF Begins
<1>5. ASSUME NEW g \in Handlers, Ends(g) PROVE handler'[h] = Null
  BY <1>1, <1>3, <1>5 DEF Ends
<1>6. ASSUME NEW g \in Handlers, NEW rooms, NEW statuses, Announces(g, rooms, statuses),
             handler[g] \in Request
      PROVE  FALSE
  <2>1. g = h
    BY <1>3, <1>6 DEF Announces
  <2> QED
    BY <1>2, <1>6, <2>1
<1>7. ASSUME NEW g \in Handlers, NEW by, Saved(g, by) PROVE FALSE
  BY <1>6, <1>7 DEF Saved
<1>8. ASSUME NEW g \in Handlers, NEW id \in Ids, NEW by, Made(g, id, by) PROVE FALSE
  BY <1>6, <1>8, Zenon DEF Made
<1>9. ASSUME NEW g \in Handlers, Certified(g) PROVE FALSE
  BY <1>6, <1>9, Zenon DEF Certified
<1>10. ASSUME NEW g \in Handlers, NEW fork \in Ids, SplitOff(g, fork) PROVE FALSE
  BY <1>6, <1>10 DEF SplitOff
<1>11. ASSUME NEW id \in Ids, NEW r \in Revisions, Purged(id, r) PROVE FALSE
  BY <1>11 DEF Purged
<1>12. handler'[h] = Null
  BY <1>4, <1>5, <1>7, <1>8, <1>9, <1>10, <1>11, StepCases, Zenon
<1> QED
  BY <1>12 DEF Broadcasting

\* The displays see the server of Publication at work.
LEMMA FeedStepIsServerStep == [FeedNext]_feedVars => [Next]_vars
BY DEF FeedNext, ServerStep, Refetch, feedVars, vars

\* Every property of the server holds while displays follow it.
THEOREM FeedRunsServer == FeedSpec => Spec
<1>1. FeedInit => Init
  BY DEF FeedInit
<1> QED
  BY <1>1, FeedStepIsServerStep, PTL DEF FeedSpec, Spec

\* The workspaces that are behind, and who tells them.
FeedIInv == FeedTypeOK /\ FeedChangeAnnounced

\* Every step of the server and of the displays keeps who is told.
LEMMA FeedIInvHolds ==
    ASSUME IInv, FeedIInv, [FeedNext]_feedVars, TypeOK'
    PROVE  FeedIInv'
<1>1. [Next]_vars
  BY FeedStepIsServerStep
<1>2. behind \subseteq Workspaces /\ signalled \subseteq Workspaces
  BY DEF FeedIInv, FeedTypeOK
<1>3. ASSUME NEW w \in behind PROVE w \in signalled \/ Announcing(w)
  BY <1>3 DEF FeedIInv, FeedChangeAnnounced
<1>4. CASE UNCHANGED feedVars
  <2>1. UNCHANGED <<handler, behind, signalled>>
    BY <1>4 DEF feedVars, vars
  <2>2. FeedChangeAnnounced'
    BY <1>3, <2>1 DEF FeedChangeAnnounced, Announcing, Ready, Reached
  <2> QED
    BY <1>2, <2>1, <2>2 DEF FeedIInv, FeedTypeOK
<1>5. ASSUME NEW v \in Workspaces, Refetch(v) PROVE FeedIInv'
  <2>1. handler' = handler /\ behind' = behind \ {v} /\ signalled' = signalled \ {v}
    BY <1>5 DEF Refetch, vars
  <2>2. FeedChangeAnnounced'
    BY <1>3, <2>1 DEF FeedChangeAnnounced, Announcing, Ready, Reached
  <2> QED
    BY <1>2, <2>1, <2>2 DEF FeedIInv, FeedTypeOK
<1>6. CASE ServerStep
  <2>1. /\ behind' = behind \cup {w \in Workspaces : Feed(w)' # Feed(w)}
        /\ signalled' = signalled \cup UNION {Reached(handler[h]) : h \in Broadcasting}
    BY <1>6 DEF ServerStep, Observed
  <2>2. \A h \in Handlers : handler[h] \in Request \cup Event \cup {Null}
    BY DEF IInv, TypeOK
  <2>3. \A h \in Broadcasting : Reached(handler[h]) \subseteq Workspaces
    BY <2>2, NullAssumption DEF Broadcasting, Ready, Reached, Request, AllOperations, Event
  <2>4. ASSUME NEW w \in behind' PROVE w \in signalled' \/ Announcing(w)'
    <3>1. w \in Workspaces
      BY <1>2, <2>1
    <3>2. CASE Feed(w)' # Feed(w)
      BY <1>1, <3>1, <3>2, ChangesTell
    <3>3. CASE w \in signalled
      BY <2>1, <3>3
    <3>4. ASSUME Announcing(w) PROVE w \in signalled' \/ Announcing(w)'
      <4>1. PICK h \in Handlers : Ready(h, "announce") /\ w \in Reached(handler[h])
        BY <3>4 DEF Announcing
      <4>2. CASE handler'[h] = handler[h]
        BY <4>1, <4>2 DEF Announcing, Ready, Reached
      <4>3. CASE handler'[h] # handler[h]
        <5>1. h \in Broadcasting
          BY <1>1, <3>1, <4>1, <4>3, TellingStays
        <5> QED
          BY <2>1, <4>1, <5>1
      <4> QED
        BY <4>2, <4>3
    <3> QED
      BY <1>3, <2>1, <2>4, <3>2, <3>3, <3>4
  <2>5. FeedTypeOK'
    BY <1>2, <2>1, <2>3 DEF FeedTypeOK
  <2>6. FeedChangeAnnounced'
    BY <2>4 DEF FeedChangeAnnounced
  <2> QED
    BY <2>5, <2>6 DEF FeedIInv
<1> QED
  BY <1>4, <1>5, <1>6 DEF FeedNext

\* No display is left with an outdated feed without a signal received or an
\* announcement under way (broadcastWorkspaceEvent after every commit).
THEOREM FeedsAreAnnounced == FeedSpec => []FeedChangeAnnounced
<1>1. FeedInit => FeedIInv
  BY InitIInv DEF FeedInit, FeedIInv, FeedTypeOK, FeedChangeAnnounced, IInv
<1>2. IInv /\ FeedIInv /\ [FeedNext]_feedVars /\ IInv' => FeedIInv'
  BY FeedIInvHolds DEF IInv
<1>3. Spec => []IInv
  BY VouchInvariance, PTL
<1>4. FeedIInv => FeedChangeAnnounced
  BY DEF FeedIInv
<1> QED
  BY <1>1, <1>2, <1>3, <1>4, FeedRunsServer, PTL DEF FeedSpec
=============================================================================
