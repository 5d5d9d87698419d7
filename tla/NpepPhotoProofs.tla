-------------------------- MODULE NpepPhotoProofs --------------------------
(***************************************************************************)
(* Proofs about NpepPhoto: the bytes on disk, the quota and what has been  *)
(* deleted, for every number of photos, requests and contents.             *)
(***************************************************************************)
EXTENDS NpepPhoto, FiniteSetTheorems, TLAPS

\* A publication holds a row that is still uploading, with its content, and
\* that the maintenance has not taken.
PublicationHolds ==
    \A h \in Handlers : Publishing(h) =>
        /\ InState(handler[h].event, {"Uploading"})
        /\ photo[handler[h].event].content = handler[h].content
        /\ handler[h].event \notin cleanup.marked \cup cleanup.locked

\* One publication at a time holds the school.
OnePublisher == \A g, h \in Handlers : Publishing(g) /\ Publishing(h) => g = h

\* The rows the maintenance deals with exist; those it has locked without
\* marking them wait for their deletion, those it has unlinked have no file.
CleanupHolds ==
    /\ \A e \in cleanup.chosen \cup cleanup.marked \cup cleanup.locked : photo[e] # Null
    /\ cleanup.step # "unlink" => cleanup.locked = {} /\ cleanup.gone = {}
    /\ cleanup.step = "unlink" => cleanup.marked \subseteq cleanup.locked
    /\ cleanup.gone \subseteq cleanup.locked
    /\ \A e \in cleanup.gone : file[e] = Null
    /\ \A e \in cleanup.locked \ cleanup.marked : InState(e, {"DeletePending"})

Removing(h) == handler[h] # Null /\ handler[h].op = "remove"

\* A deletion is of a photo that is marked for deletion, and once it has
\* unlinked the file none comes back.
RemovalHolds ==
    \A h \in Handlers : Removing(h) =>
        /\ handler[h].event \in buried
        /\ handler[h].step = "unlinked" => file[handler[h].event] = Null

\* A tombstone goes only when no upload is taken any more.
TombstonesStay == \A e \in buried : photo[e] = Null => age[e] = 2

\* Events that have bytes or may get them.
Held == {e \in Events : file[e] # Null \/ InState(e, {"Uploading"})}

HeldWithinQuota == Cardinality(Held) <= Quota

\* The inductive invariant.  A deletion stands because nothing publishes a
\* photo that is marked for deletion, and the bytes are owned because neither a
\* deletion nor the maintenance gives up a row that can get bytes again.
IInv == /\ TypeOK /\ BytesAreOwned /\ DeletionStands
        /\ PublicationHolds /\ OnePublisher /\ CleanupHolds
        /\ RemovalHolds /\ TombstonesStay /\ HeldWithinQuota

-----------------------------------------------------------------------------
(* Requests *)

\* An upload that goes a step further keeps its event and content.
LEMMA UploadMoves ==
    ASSUME TypeOK, NEW h \in Handlers, handler[h] # Null, handler[h].op = "upload",
           NEW s \in {"encoded", "admitted", "putting", "put"}, Goto(h, s)
    PROVE  /\ handler' \in [Handlers -> Request \cup {Null}]
           /\ handler'[h] # Null
           /\ handler'[h].op = "upload" /\ handler'[h].step = s
           /\ handler'[h].event = handler[h].event
           /\ handler'[h].content = handler[h].content
           /\ \A g \in Handlers : g # h => handler'[g] = handler[g]
<1>1. /\ handler[h] \in [op : {"upload"}, step : {"encoded", "admitted", "putting", "put"},
                         event : Events, content : Contents]
      /\ handler' = [handler EXCEPT ![h] = [handler[h] EXCEPT !.step = s]]
  BY DEF TypeOK, Request, Goto
<1>2. [handler[h] EXCEPT !.step = s] \in Request
  BY <1>1 DEF Request
<1> QED
  BY <1>1, <1>2, RowAssumption DEF TypeOK

\* So does a deletion.
LEMMA RemovalMoves ==
    ASSUME TypeOK, NEW h \in Handlers, handler[h] # Null, handler[h].op = "remove",
           NEW s \in {"pending", "unlinked"}, Goto(h, s)
    PROVE  /\ handler' \in [Handlers -> Request \cup {Null}]
           /\ handler'[h] # Null
           /\ handler'[h].op = "remove" /\ handler'[h].step = s
           /\ handler'[h].event = handler[h].event
           /\ \A g \in Handlers : g # h => handler'[g] = handler[g]
<1>1. /\ handler[h] \in [op : {"remove"}, step : {"pending", "unlinked"}, event : Events]
      /\ handler' = [handler EXCEPT ![h] = [handler[h] EXCEPT !.step = s]]
  BY DEF TypeOK, Request, Goto
<1>2. [handler[h] EXCEPT !.step = s] \in Request
  BY <1>1 DEF Request
<1> QED
  BY <1>1, <1>2, RowAssumption DEF TypeOK

\* A request that is done is gone.
LEMMA RequestEnds ==
    ASSUME TypeOK, NEW h \in Handlers, Done(h)
    PROVE  /\ handler' \in [Handlers -> Request \cup {Null}]
           /\ handler'[h] = Null
           /\ \A g \in Handlers : g # h => handler'[g] = handler[g]
BY DEF TypeOK, Done

LEMMA RequestEvents ==
    ASSUME TypeOK, NEW h \in Handlers, handler[h] # Null
    PROVE  /\ handler[h].event \in Events
           /\ handler[h].op = "upload" => handler[h].content \in Contents
           /\ handler[h].op = "remove" => handler[h].step \in {"pending", "unlinked"}
BY DEF TypeOK, Request

\* A row whose state changes keeps the rest.
LEMMA RowChanges ==
    ASSUME TypeOK, NEW e \in Events, photo[e] # Null, NEW s \in States
    PROVE  /\ [photo[e] EXCEPT !.state = s] \in Photo
           /\ [photo[e] EXCEPT !.state = s] # Null
           /\ [photo[e] EXCEPT !.state = s].state = s
           /\ [photo[e] EXCEPT !.state = s].content = photo[e].content
<1>1. photo[e] \in Photo
  BY DEF TypeOK
<1> QED
  BY <1>1, RowAssumption DEF Photo

\* The quota is kept as long as no event comes to hold bytes.
LEMMA HeldShrinks ==
    ASSUME IInv, Held' \subseteq Held
    PROVE  HeldWithinQuota'
<1>1. IsFiniteSet(Held)
  BY EventsAssumption, FS_Subset DEF Held
<1>2. Cardinality(Held') <= Cardinality(Held)
  BY <1>1, FS_Subset
<1>3. Cardinality(Held) \in Nat /\ Cardinality(Held') \in Nat
  BY <1>1, FS_Subset, FS_CardinalityType
<1> QED
  BY <1>2, <1>3, QuotaAssumption DEF IInv, HeldWithinQuota

-----------------------------------------------------------------------------
(* Steps that leave what rows say about bytes alone *)

SameRow(e) == /\ photo[e] = Null => photo'[e] = Null
              /\ photo[e] # Null => /\ photo'[e] # Null
                                    /\ photo'[e].state = photo[e].state
                                    /\ photo'[e].content = photo[e].content

SamePublication(h) == Publishing(h)' => /\ Publishing(h)
                                        /\ handler'[h].event = handler[h].event
                                        /\ handler'[h].content = handler[h].content

\* Bytes only go, nothing becomes a publication, and the maintenance takes no
\* row that is being published: the invariant is kept.
LEMMA Frame ==
    ASSUME IInv, TypeOK', buried' = buried,
           \A e \in Events : age[e] = 2 => age'[e] = 2,
           \A e \in Events : SameRow(e),
           \A e \in Events : file'[e] = file[e] \/ file'[e] = Null,
           \A h \in Handlers : SamePublication(h),
           \A h \in Handlers : Publishing(h) =>
                handler[h].event \notin cleanup'.marked \cup cleanup'.locked,
           CleanupHolds', RemovalHolds'
    PROVE  IInv'
<1>1. BytesAreOwned'
  BY DEF IInv, BytesAreOwned, Usage, InState, SameRow
<1>2. DeletionStands'
  BY DEF IInv, TypeOK, DeletionStands, InState, SameRow
<1>3. PublicationHolds'
  <2> SUFFICES ASSUME NEW h \in Handlers, Publishing(h)'
               PROVE  /\ InState(handler[h].event, {"Uploading"})'
                      /\ photo'[handler'[h].event].content = handler'[h].content
                      /\ handler'[h].event \notin cleanup'.marked \cup cleanup'.locked
    BY DEF PublicationHolds
  <2>1. /\ Publishing(h) /\ handler'[h].event = handler[h].event
        /\ handler'[h].content = handler[h].content
    BY DEF SamePublication
  <2>2. handler[h].event \in Events
    BY <2>1, RequestEvents DEF IInv, Publishing
  <2>3. /\ InState(handler[h].event, {"Uploading"})
        /\ photo[handler[h].event].content = handler[h].content
    BY <2>1 DEF IInv, PublicationHolds
  <2> QED
    BY <2>1, <2>2, <2>3 DEF InState, SameRow
<1>4. OnePublisher'
  BY DEF IInv, OnePublisher, SamePublication
<1>5. TombstonesStay'
  BY DEF IInv, TypeOK, TombstonesStay, SameRow
<1>6. HeldWithinQuota'
  <2>1. Held' \subseteq Held
    BY DEF Held, InState, SameRow
  <2> QED
    BY <2>1, HeldShrinks
<1> QED
  BY <1>1, <1>2, <1>3, <1>4, <1>5, <1>6 DEF IInv

\* The maintenance keeps what it holds as long as others leave its rows alone.
LEMMA CleanupFrame ==
    ASSUME IInv, cleanup' = cleanup,
           \A e \in Events : SameRow(e),
           \A e \in Events : file'[e] = file[e] \/ file'[e] = Null
    PROVE  CleanupHolds'
<1>1. /\ cleanup.chosen \subseteq Events /\ cleanup.marked \subseteq Events
      /\ cleanup.locked \subseteq Events /\ cleanup.gone \subseteq Events
  BY DEF IInv, TypeOK, Maintenance
<1> QED
  BY <1>1 DEF IInv, CleanupHolds, SameRow, InState

\* A step that leaves rows, files and the maintenance alone, and in which a
\* request does not start to publish or to delete.
LEMMA RequestFrame ==
    ASSUME IInv, TypeOK', UNCHANGED <<photo, file, cleanup, buried>>,
           \A e \in Events : age[e] = 2 => age'[e] = 2,
           \A h \in Handlers : SamePublication(h),
           \A h \in Handlers : Removing(h)' => handler'[h] = handler[h]
    PROVE  IInv'
<1>1. \A e \in Events : SameRow(e)
  BY DEF SameRow
<1>2. CleanupHolds'
  BY <1>1, CleanupFrame
<1>3. RemovalHolds'
  BY DEF IInv, RemovalHolds, Removing
<1>4. \A h \in Handlers : Publishing(h) =>
          handler[h].event \notin cleanup'.marked \cup cleanup'.locked
  BY DEF IInv, PublicationHolds
<1> QED
  BY <1>1, <1>2, <1>3, <1>4, Frame

LEMMA BeginUploadStep ==
    ASSUME IInv, NEW h \in Handlers, NEW e \in Events, NEW c \in Contents,
           BeginUpload(h, e, c)
    PROVE  IInv'
<1> DEFINE r == [op |-> "upload", step |-> "encoded", event |-> e, content |-> c]
<1>1. r \in Request /\ handler' = [handler EXCEPT ![h] = r]
  BY DEF BeginUpload, Request
<1>2. TypeOK'
  BY <1>1 DEF IInv, TypeOK, BeginUpload
<1>3. handler'[h] = r /\ \A g \in Handlers : g # h => handler'[g] = handler[g]
  BY <1>1 DEF IInv, TypeOK
<1>4. \A g \in Handlers : SamePublication(g)
  BY <1>3 DEF SamePublication, Publishing
<1>5. \A g \in Handlers : Removing(g)' => handler'[g] = handler[g]
  BY <1>3 DEF Removing
<1> QED
  BY <1>2, <1>4, <1>5, RequestFrame DEF BeginUpload

\* A request that ends without having changed anything.
LEMMA EndStep ==
    ASSUME IInv, NEW h \in Handlers, Done(h),
           UNCHANGED <<photo, file, age, allowed, cleanup, buried>>
    PROVE  IInv'
<1>1. TypeOK'
  BY RequestEnds DEF IInv, TypeOK
<1>2. \A g \in Handlers : SamePublication(g)
  BY RequestEnds DEF IInv, SamePublication, Publishing
<1>3. \A g \in Handlers : Removing(g)' => handler'[g] = handler[g]
  BY RequestEnds DEF IInv, Removing
<1> QED
  BY <1>1, <1>2, <1>3, RequestFrame

\* An upload that has been admitted again and is not yet published.
LEMMA AdmittedStep ==
    ASSUME IInv, NEW h \in Handlers, At(h, "upload", "encoded"), Goto(h, "admitted"),
           UNCHANGED <<photo, file, age, allowed, cleanup, buried>>
    PROVE  IInv'
<1>1. /\ handler' \in [Handlers -> Request \cup {Null}]
      /\ handler'[h].op = "upload" /\ handler'[h].step = "admitted"
      /\ \A g \in Handlers : g # h => handler'[g] = handler[g]
  BY UploadMoves DEF IInv, At
<1>2. TypeOK'
  BY <1>1 DEF IInv, TypeOK
<1>3. \A g \in Handlers : SamePublication(g)
  BY <1>1 DEF SamePublication, Publishing
<1>4. \A g \in Handlers : Removing(g)' => handler'[g] = handler[g]
  BY <1>1 DEF Removing
<1> QED
  BY <1>2, <1>3, <1>4, RequestFrame

LEMMA ReadmitStep ==
    ASSUME IInv, NEW h \in Handlers, Readmit(h)
    PROVE  IInv'
BY AdmittedStep, EndStep DEF Readmit

\* A new row has no bytes, counts against the quota and was never deleted:
\* a tombstone's event is too old for an upload.
LEMMA AdmitStep ==
    ASSUME IInv, NEW h \in Handlers, Admit(h)
    PROVE  IInv'
<1> DEFINE e == handler[h].event
           c == handler[h].content
<1>1. /\ handler[h] # Null /\ handler[h].op = "upload"
      /\ e \in Events /\ c \in Contents
  BY RequestEvents DEF IInv, Admit, At
<1>2. /\ handler' \in [Handlers -> Request \cup {Null}]
      /\ handler'[h] # Null
      /\ handler'[h].op = "upload" /\ handler'[h].step = "admitted"
      /\ \A g \in Handlers : g # h => handler'[g] = handler[g]
  BY <1>1, UploadMoves DEF IInv, Admit
<1>3. NewPhoto(c) \in Photo /\ NewPhoto(c) # Null /\ NewPhoto(c).state = "Uploading"
  <2>1. NewPhoto(c) \in Photo /\ NewPhoto(c).state = "Uploading"
    BY <1>1 DEF NewPhoto, Photo, States
  <2> QED
    BY <2>1, RowAssumption
<1>4. /\ photo[e] = Null /\ age[e] = 0
      /\ photo' = [photo EXCEPT ![e] = NewPhoto(c)]
      /\ UNCHANGED <<file, age, allowed, cleanup, buried>>
      /\ SchoolFree /\ Cardinality(Usage) < Quota
  BY DEF Admit, Eligible
<1>5. photo'[e] = NewPhoto(c) /\ \A n \in Events : n # e => photo'[n] = photo[n]
  BY <1>1, <1>4 DEF IInv, TypeOK
<1>6. TypeOK'
  BY <1>1, <1>2, <1>3, <1>4 DEF IInv, TypeOK
<1>7. e \notin buried
  BY <1>1, <1>4 DEF IInv, TombstonesStay
<1>8. file[e] = Null
  BY <1>1, <1>4 DEF IInv, BytesAreOwned, Usage, InState
<1>9. BytesAreOwned'
  BY <1>1, <1>4, <1>5, <1>8 DEF IInv, BytesAreOwned, Usage, InState
<1>10. DeletionStands'
  BY <1>4, <1>5, <1>7 DEF IInv, TypeOK, DeletionStands, InState
<1>11. \A g \in Handlers : ~Publishing(g)'
  BY <1>2, <1>4 DEF SchoolFree, Publishing
<1>12. CleanupHolds'
  BY <1>1, <1>3, <1>4, <1>5 DEF IInv, TypeOK, Maintenance, CleanupHolds, InState
<1>13. RemovalHolds'
  BY <1>2, <1>4 DEF IInv, RemovalHolds, Removing
<1>14. TombstonesStay'
  BY <1>4, <1>5, <1>7 DEF IInv, TypeOK, TombstonesStay
<1>15. HeldWithinQuota'
  <2>1. Held' = Held \cup {e}
    BY <1>1, <1>3, <1>4, <1>5 DEF Held, InState
  <2>2. Held \subseteq Usage /\ IsFiniteSet(Usage) /\ IsFiniteSet(Held)
    <3>1. Held \subseteq Usage
      BY DEF IInv, BytesAreOwned, Held, Usage, InState
    <3>2. IsFiniteSet(Usage)
      BY EventsAssumption, FS_Subset DEF Usage
    <3> QED
      BY <3>1, <3>2, FS_Subset
  <2>3. Cardinality(Held) <= Cardinality(Usage)
    BY <2>2, FS_Subset
  <2>4. Cardinality(Held') <= Cardinality(Held) + 1
    <3>1. Cardinality(Held \cup {e}) =
              IF e \in Held THEN Cardinality(Held) ELSE Cardinality(Held) + 1
      BY <2>2, FS_AddElement
    <3>2. Cardinality(Held) \in Nat
      BY <2>2, FS_CardinalityType
    <3> QED
      BY <2>1, <3>1, <3>2
  <2>5. Cardinality(Held) \in Nat /\ Cardinality(Usage) \in Nat /\ Cardinality(Held') \in Nat
    BY <2>1, <2>2, FS_AddElement, FS_CardinalityType
  <2> QED
    BY <1>4, <2>3, <2>4, <2>5, QuotaAssumption DEF HeldWithinQuota
<1> QED
  BY <1>6, <1>9, <1>10, <1>11, <1>12, <1>13, <1>14, <1>15
  DEF IInv, PublicationHolds, OnePublisher

-----------------------------------------------------------------------------
(* Publication *)

\* A publication starts on a row that is uploading, that nobody holds and that
\* is not marked for deletion.
LEMMA PublishStep ==
    ASSUME IInv, NEW h \in Handlers, Publish(h)
    PROVE  IInv'
<1>1. CASE Done(h)
  BY <1>1, EndStep DEF Publish
<1>2. CASE Goto(h, "putting") /\ photo[handler[h].event].state # "Stored"
  <2> DEFINE e == handler[h].event
  <2>1. /\ handler[h] # Null /\ handler[h].op = "upload" /\ handler[h].step = "admitted"
        /\ e \in Events
        /\ InState(e, {"Uploading"}) /\ photo[e].content = handler[h].content
        /\ e \notin cleanup.marked \cup cleanup.locked
        /\ UNCHANGED <<photo, file, age, allowed, cleanup, buried>>
        /\ \A g \in Handlers : ~Publishing(g)
    BY <1>2, RequestEvents DEF IInv, Publish, At, InState, Publishable, RowFree, SchoolFree
  <2>2. /\ handler' \in [Handlers -> Request \cup {Null}]
        /\ handler'[h].op = "upload"
        /\ handler'[h].event = e /\ handler'[h].content = handler[h].content
        /\ \A g \in Handlers : g # h => handler'[g] = handler[g]
    BY <1>2, <2>1, UploadMoves DEF IInv
  <2>3. TypeOK'
    BY <2>1, <2>2 DEF IInv, TypeOK
  <2>4. \A g \in Handlers : Publishing(g)' => g = h
    BY <2>1, <2>2 DEF Publishing
  <2>5. PublicationHolds'
    BY <2>1, <2>2, <2>4 DEF PublicationHolds, InState
  <2>6. OnePublisher'
    BY <2>4 DEF OnePublisher
  <2>7. RemovalHolds'
    BY <2>1, <2>2 DEF IInv, RemovalHolds, Removing
  <2>8. BytesAreOwned' /\ DeletionStands' /\ CleanupHolds' /\ TombstonesStay' /\ HeldWithinQuota'
    BY <2>1 DEF IInv, BytesAreOwned, DeletionStands, CleanupHolds, TombstonesStay,
                HeldWithinQuota, Held, Usage, InState
  <2> QED
    BY <2>3, <2>5, <2>6, <2>7, <2>8 DEF IInv
<1> QED
  BY <1>1, <1>2 DEF Publish

\* The bytes are those of the row it holds, which counts already.
LEMMA PutStep ==
    ASSUME IInv, NEW h \in Handlers, Put(h)
    PROVE  IInv'
<1> DEFINE e == handler[h].event
<1>1. /\ handler[h] # Null /\ handler[h].op = "upload" /\ handler[h].step = "putting"
      /\ e \in Events /\ handler[h].content \in Contents
      /\ Publishing(h)
      /\ UNCHANGED <<photo, age, allowed, cleanup, buried>>
  BY RequestEvents DEF IInv, Put, At, Publishing
<1>2. /\ handler' \in [Handlers -> Request \cup {Null}]
      /\ handler'[h].op = "upload"
      /\ handler'[h].event = e /\ handler'[h].content = handler[h].content
      /\ \A g \in Handlers : g # h => handler'[g] = handler[g]
  BY <1>1, UploadMoves DEF IInv, Put
<1>3. /\ InState(e, {"Uploading"}) /\ photo[e].content = handler[h].content
      /\ e \notin cleanup.marked \cup cleanup.locked
  BY <1>1 DEF IInv, PublicationHolds
<1>4. file'[e] = handler[h].content /\ \A n \in Events : n # e => file'[n] = file[n]
  BY <1>1 DEF Put, IInv, TypeOK
<1>5. TypeOK'
  BY <1>1, <1>2 DEF Put, IInv, TypeOK
<1>6. e \notin buried
  BY <1>3 DEF IInv, DeletionStands, InState
<1>7. BytesAreOwned'
  BY <1>1, <1>3, <1>4 DEF IInv, BytesAreOwned, Usage, InState
<1>8. \A g \in Handlers : SamePublication(g)
  BY <1>1, <1>2 DEF SamePublication, Publishing
<1>9. PublicationHolds' /\ OnePublisher'
  BY <1>1, <1>8 DEF IInv, PublicationHolds, OnePublisher, SamePublication, InState
<1>10. CleanupHolds'
  BY <1>1, <1>3, <1>4 DEF IInv, TypeOK, Maintenance, CleanupHolds, InState
<1>11. RemovalHolds'
  BY <1>1, <1>2, <1>4, <1>6, RequestEvents DEF IInv, RemovalHolds, Removing
<1>12. DeletionStands' /\ TombstonesStay'
  BY <1>1 DEF IInv, DeletionStands, TombstonesStay, InState
<1>13. HeldWithinQuota'
  <2>1. Held' = Held
    BY <1>1, <1>3, <1>4 DEF Held, InState
  <2> QED
    BY <2>1 DEF IInv, HeldWithinQuota
<1> QED
  BY <1>5, <1>7, <1>9, <1>10, <1>11, <1>12, <1>13 DEF IInv

LEMMA CommitStoredStep ==
    ASSUME IInv, NEW h \in Handlers, CommitStored(h)
    PROVE  IInv'
<1> DEFINE e == handler[h].event
<1>1. /\ Publishing(h) /\ e \in Events
      /\ InState(e, {"Uploading"})
      /\ e \notin cleanup.marked \cup cleanup.locked
      /\ UNCHANGED <<file, age, allowed, cleanup, buried>>
  <2>1. Publishing(h) /\ e \in Events
    BY RequestEvents DEF IInv, CommitStored, At, Publishing
  <2> QED
    BY <2>1 DEF IInv, PublicationHolds, CommitStored
<1>2. /\ handler' \in [Handlers -> Request \cup {Null}]
      /\ handler'[h] = Null
      /\ \A g \in Handlers : g # h => handler'[g] = handler[g]
  BY RequestEnds DEF IInv, CommitStored
<1>3. /\ photo' = [photo EXCEPT ![e] = [photo[e] EXCEPT !.state = "Stored"]]
      /\ photo[e] # Null
  BY <1>1 DEF CommitStored, InState
<1>4. /\ [photo[e] EXCEPT !.state = "Stored"] \in Photo
      /\ photo'[e] # Null /\ photo'[e].state = "Stored"
      /\ photo'[e].content = photo[e].content
      /\ \A n \in Events : n # e => photo'[n] = photo[n]
  BY <1>1, <1>3, RowChanges DEF IInv, TypeOK, States
<1>5. TypeOK'
  BY <1>1, <1>2, <1>3, <1>4 DEF IInv, TypeOK
<1>6. e \notin buried
  BY <1>1 DEF IInv, DeletionStands, InState
<1>7. BytesAreOwned'
  BY <1>1, <1>4 DEF IInv, BytesAreOwned, Usage, InState
<1>8. \A g \in Handlers : ~Publishing(g)'
  BY <1>1, <1>2 DEF IInv, OnePublisher, Publishing
<1>9. CleanupHolds'
  BY <1>1, <1>4 DEF IInv, TypeOK, Maintenance, CleanupHolds, InState
<1>10. RemovalHolds'
  BY <1>1, <1>2 DEF IInv, RemovalHolds, Removing
<1>11. DeletionStands' /\ TombstonesStay'
  BY <1>1, <1>4, <1>6 DEF IInv, TypeOK, DeletionStands, TombstonesStay, InState
<1>12. HeldWithinQuota'
  <2>1. Held' \subseteq Held
    BY <1>1, <1>4 DEF Held, InState
  <2> QED
    BY <2>1, HeldShrinks
<1> QED
  BY <1>5, <1>7, <1>8, <1>9, <1>10, <1>11, <1>12 DEF IInv, PublicationHolds, OnePublisher

-----------------------------------------------------------------------------
(* Deletion *)

\* A row that nobody holds is marked for deletion, whatever its state.
LEMMA BeginRemoveStep ==
    ASSUME IInv, NEW h \in Handlers, NEW e \in Events, BeginRemove(h, e)
    PROVE  IInv'
<1> DEFINE r == [op |-> "remove", step |-> "pending", event |-> e]
<1>1. /\ r \in Request /\ handler' = [handler EXCEPT ![h] = r]
      /\ photo' = [photo EXCEPT ![e] = [photo[e] EXCEPT !.state = "DeletePending"]]
      /\ photo[e] # Null /\ buried' = buried \cup {e}
      /\ e \notin cleanup.marked \cup cleanup.locked
      /\ \A g \in Handlers : ~Publishing(g)
      /\ UNCHANGED <<file, age, allowed, cleanup>>
  BY DEF BeginRemove, Request, RowFree, SchoolFree
<1>2. handler'[h] = r /\ \A g \in Handlers : g # h => handler'[g] = handler[g]
  BY <1>1 DEF IInv, TypeOK
<1>3. /\ [photo[e] EXCEPT !.state = "DeletePending"] \in Photo
      /\ photo'[e] # Null /\ photo'[e].state = "DeletePending"
      /\ photo'[e].content = photo[e].content
      /\ \A n \in Events : n # e => photo'[n] = photo[n]
  BY <1>1, RowChanges DEF IInv, TypeOK, States
<1>4. TypeOK'
  BY <1>1, <1>3 DEF IInv, TypeOK
<1>5. BytesAreOwned'
  BY <1>1, <1>3 DEF IInv, BytesAreOwned, Usage, InState
<1>6. DeletionStands'
  BY <1>1, <1>3 DEF IInv, TypeOK, DeletionStands, InState
<1>7. \A g \in Handlers : ~Publishing(g)'
  BY <1>1, <1>2 DEF Publishing
<1>8. CleanupHolds'
  BY <1>1, <1>3 DEF IInv, TypeOK, Maintenance, CleanupHolds, InState
<1>9. RemovalHolds'
  BY <1>1, <1>2 DEF IInv, RemovalHolds, Removing
<1>10. TombstonesStay'
  BY <1>1, <1>3 DEF IInv, TypeOK, TombstonesStay
<1>11. HeldWithinQuota'
  <2>1. Held' \subseteq Held
    BY <1>1, <1>3 DEF Held, InState
  <2> QED
    BY <2>1, HeldShrinks
<1> QED
  BY <1>4, <1>5, <1>6, <1>7, <1>8, <1>9, <1>10, <1>11
  DEF IInv, PublicationHolds, OnePublisher

LEMMA UnlinkStep ==
    ASSUME IInv, NEW h \in Handlers, Unlink(h)
    PROVE  IInv'
<1> DEFINE e == handler[h].event
<1>1. /\ Removing(h) /\ e \in Events
      /\ file' = [file EXCEPT ![e] = Null]
      /\ UNCHANGED <<photo, age, allowed, cleanup, buried>>
  BY RequestEvents DEF IInv, Unlink, At, Removing
<1>2. /\ handler' \in [Handlers -> Request \cup {Null}]
      /\ handler'[h].op = "remove" /\ handler'[h].event = e
      /\ \A g \in Handlers : g # h => handler'[g] = handler[g]
  BY <1>1, RemovalMoves DEF IInv, Unlink, Removing
<1>3. TypeOK'
  BY <1>1, <1>2 DEF IInv, TypeOK
<1>4. \A n \in Events : file'[n] = file[n] \/ file'[n] = Null
  BY <1>1 DEF IInv, TypeOK
<1>5. \A n \in Events : SameRow(n)
  BY <1>1 DEF SameRow
<1>6. \A g \in Handlers : SamePublication(g)
  BY <1>2 DEF SamePublication, Publishing
<1>7. CleanupHolds'
  BY <1>1, <1>4, <1>5, CleanupFrame
<1>8. RemovalHolds'
  <2>1. file'[e] = Null
    BY <1>1 DEF IInv, TypeOK
  <2> QED
    BY <1>1, <1>2, <1>4, <2>1, RequestEvents DEF IInv, RemovalHolds, Removing
<1>9. \A g \in Handlers : Publishing(g) =>
          handler[g].event \notin cleanup'.marked \cup cleanup'.locked
  BY <1>1 DEF IInv, PublicationHolds
<1> QED
  BY <1>1, <1>3, <1>4, <1>5, <1>6, <1>7, <1>8, <1>9, Frame DEF IInv

\* The row becomes a tombstone only because its file is gone for good.
LEMMA FinishRemoveStep ==
    ASSUME IInv, NEW h \in Handlers, FinishRemove(h)
    PROVE  IInv'
<1> DEFINE e == handler[h].event
<1>1. /\ Removing(h) /\ handler[h].step = "unlinked" /\ e \in Events
      /\ Done(h)
      /\ UNCHANGED <<file, age, allowed, cleanup, buried>>
  BY RequestEvents DEF IInv, FinishRemove, At, Removing
<1>2. CASE photo[e] = Null
  BY <1>1, <1>2, EndStep DEF FinishRemove
<1>3. CASE photo[e] # Null
  <2>1. /\ e \in buried /\ file[e] = Null
        /\ e \notin cleanup.marked \cup cleanup.locked
        /\ \A g \in Handlers : ~Publishing(g)
    BY <1>1 DEF IInv, RemovalHolds, FinishRemove, RowFree, SchoolFree
  <2>2. photo' = [photo EXCEPT ![e] = [photo[e] EXCEPT !.state = "Deleted"]]
    BY <1>3 DEF FinishRemove
  <2>3. /\ [photo[e] EXCEPT !.state = "Deleted"] \in Photo
        /\ photo'[e] # Null /\ photo'[e].state = "Deleted"
        /\ \A n \in Events : n # e => photo'[n] = photo[n]
    BY <1>1, <1>3, <2>2, RowChanges DEF IInv, TypeOK, States
  <2>4. /\ handler' \in [Handlers -> Request \cup {Null}]
        /\ handler'[h] = Null
        /\ \A g \in Handlers : g # h => handler'[g] = handler[g]
    BY <1>1, RequestEnds DEF IInv
  <2>5. TypeOK'
    BY <1>1, <2>2, <2>3, <2>4 DEF IInv, TypeOK
  <2>6. BytesAreOwned'
    BY <1>1, <2>1, <2>3 DEF IInv, BytesAreOwned, Usage, InState
  <2>7. DeletionStands' /\ TombstonesStay'
    BY <1>1, <2>3 DEF IInv, TypeOK, DeletionStands, TombstonesStay, InState
  <2>8. \A g \in Handlers : ~Publishing(g)'
    BY <2>1, <2>4 DEF Publishing
  <2>9. CleanupHolds'
    BY <1>1, <2>1, <2>3 DEF IInv, TypeOK, Maintenance, CleanupHolds, InState
  <2>10. RemovalHolds'
    BY <1>1, <2>4 DEF IInv, RemovalHolds, Removing
  <2>11. HeldWithinQuota'
    <3>1. Held' \subseteq Held
      BY <1>1, <2>3 DEF Held, InState
    <3> QED
      BY <3>1, HeldShrinks
  <2> QED
    BY <2>5, <2>6, <2>7, <2>8, <2>9, <2>10, <2>11 DEF IInv, PublicationHolds, OnePublisher
<1> QED
  BY <1>2, <1>3

-----------------------------------------------------------------------------
(* Maintenance *)

\* A step of the maintenance before its commit.
LEMMA CleanupStep ==
    ASSUME IInv, cleanup' \in Maintenance, UNCHANGED <<photo, age, allowed, handler, buried>>,
           file' \in [Events -> Contents \cup {Null}],
           \A e \in Events : file'[e] = file[e] \/ file'[e] = Null,
           CleanupHolds',
           \A h \in Handlers : Publishing(h) =>
                handler[h].event \notin cleanup'.marked \cup cleanup'.locked
    PROVE  IInv'
<1>1. TypeOK'
  BY DEF IInv, TypeOK
<1>2. \A e \in Events : SameRow(e)
  BY DEF SameRow
<1>3. \A h \in Handlers : SamePublication(h)
  BY DEF SamePublication, Publishing
<1>4. RemovalHolds'
  BY RequestEvents DEF IInv, RemovalHolds, Removing
<1> QED
  BY <1>1, <1>2, <1>3, <1>4, Frame DEF IInv

LEMMA IdleHolds == ASSUME cleanup' = Idle PROVE CleanupHolds'
BY DEF CleanupHolds, Idle

LEMMA BeginCleanupStep ==
    ASSUME IInv, BeginCleanup
    PROVE  IInv'
<1>1. /\ cleanup' = [step |-> "mark", chosen |-> {e \in Events : Due(e)},
                     marked |-> {}, locked |-> {}, gone |-> {}]
      /\ UNCHANGED <<photo, file, age, allowed, handler, buried>>
  BY DEF BeginCleanup, Idle
<1>2. cleanup' \in Maintenance
  BY <1>1 DEF Maintenance
<1>3. CleanupHolds'
  BY <1>1 DEF CleanupHolds, Due, InState
<1> QED
  BY <1>1, <1>2, <1>3, CleanupStep DEF IInv, TypeOK

LEMMA RollBackCleanupStep ==
    ASSUME IInv, RollBackCleanup
    PROVE  IInv'
<1>1. cleanup' = Idle /\ UNCHANGED <<photo, file, age, allowed, handler, buried>>
  BY DEF RollBackCleanup
<1>2. cleanup' \in Maintenance
  BY <1>1 DEF Maintenance, Idle
<1>3. cleanup'.marked = {} /\ cleanup'.locked = {}
  BY <1>1 DEF Idle
<1> QED
  BY <1>1, <1>2, <1>3, IdleHolds, CleanupStep DEF IInv, TypeOK

\* A row is marked only when no publication holds it.
LEMMA MarkStep ==
    ASSUME IInv, NEW e \in Events, Mark(e)
    PROVE  IInv'
<1>1. /\ cleanup \in Maintenance
      /\ cleanup' = [cleanup EXCEPT !.chosen = @ \ {e}, !.marked = @ \cup {e}]
      /\ cleanup.step = "mark" /\ e \in cleanup.chosen
      /\ \A h \in Handlers : Publishing(h) => handler[h].event # e
      /\ UNCHANGED <<photo, file, age, allowed, handler, buried>>
  BY DEF IInv, TypeOK, Mark, RowFree
<1>2. /\ cleanup' \in Maintenance
      /\ cleanup'.step = "mark" /\ cleanup'.chosen = cleanup.chosen \ {e}
      /\ cleanup'.marked = cleanup.marked \cup {e}
      /\ cleanup'.locked = cleanup.locked /\ cleanup'.gone = cleanup.gone
  BY <1>1 DEF Maintenance
<1>3. CleanupHolds'
  BY <1>1, <1>2 DEF IInv, CleanupHolds, InState
<1>4. \A h \in Handlers : Publishing(h) =>
          handler[h].event \notin cleanup'.marked \cup cleanup'.locked
  BY <1>1, <1>2 DEF IInv, PublicationHolds
<1> QED
  BY <1>1, <1>2, <1>3, <1>4, CleanupStep DEF IInv, TypeOK

\* What waits for its deletion is not being published.
LEMMA LockPendingStep ==
    ASSUME IInv, LockPending
    PROVE  IInv'
<1> DEFINE pending == {e \in Events : InState(e, {"DeletePending"})}
<1>1. /\ cleanup \in Maintenance
      /\ cleanup' = [cleanup EXCEPT !.step = "unlink", !.locked = cleanup.marked \cup pending]
      /\ cleanup.step = "mark" /\ cleanup.chosen = {}
      /\ UNCHANGED <<photo, file, age, allowed, handler, buried>>
  BY DEF IInv, TypeOK, LockPending
<1>2. /\ cleanup' \in Maintenance
      /\ cleanup'.step = "unlink" /\ cleanup'.chosen = cleanup.chosen
      /\ cleanup'.marked = cleanup.marked /\ cleanup'.gone = cleanup.gone
      /\ cleanup'.locked = cleanup.marked \cup pending
  BY <1>1 DEF Maintenance
<1>3. CleanupHolds'
  BY <1>1, <1>2 DEF IInv, CleanupHolds, InState
<1>4. \A h \in Handlers : Publishing(h) =>
          handler[h].event \notin cleanup'.marked \cup cleanup'.locked
  BY <1>2 DEF IInv, PublicationHolds, InState
<1> QED
  BY <1>1, <1>2, <1>3, <1>4, CleanupStep DEF IInv, TypeOK

LEMMA RemoveStep ==
    ASSUME IInv, NEW e \in Events, Remove(e)
    PROVE  IInv'
<1>1. /\ cleanup \in Maintenance
      /\ cleanup' = [cleanup EXCEPT !.gone = @ \cup {e}]
      /\ cleanup.step = "unlink" /\ e \in cleanup.locked
      /\ file' = [file EXCEPT ![e] = Null]
      /\ UNCHANGED <<photo, age, allowed, handler, buried>>
  BY DEF IInv, TypeOK, Remove
<1>2. /\ cleanup' \in Maintenance
      /\ cleanup'.step = "unlink" /\ cleanup'.chosen = cleanup.chosen
      /\ cleanup'.marked = cleanup.marked /\ cleanup'.locked = cleanup.locked
      /\ cleanup'.gone = cleanup.gone \cup {e}
  BY <1>1 DEF Maintenance
<1>3. /\ file' \in [Events -> Contents \cup {Null}] /\ file'[e] = Null
      /\ \A n \in Events : file'[n] = file[n] \/ file'[n] = Null
  BY <1>1 DEF IInv, TypeOK
<1>4. CleanupHolds'
  BY <1>1, <1>2, <1>3 DEF IInv, Maintenance, CleanupHolds, InState
<1>5. \A h \in Handlers : Publishing(h) =>
          handler[h].event \notin cleanup'.marked \cup cleanup'.locked
  BY <1>2 DEF IInv, PublicationHolds
<1> QED
  BY <1>1, <1>2, <1>3, <1>4, <1>5, CleanupStep

\* What the commit does to a row: gone, or left in its place as a tombstone or
\* waiting for its deletion, or as it was.
Settles(e) ==
    \/ photo'[e] = Null /\ file[e] = Null /\ (photo[e] # Null => age[e] = 2)
    \/ /\ photo[e] # Null /\ photo'[e] \in Photo
       /\ photo'[e].content = photo[e].content
       /\ \/ photo'[e].state = "Deleted" /\ file[e] = Null
          \/ photo'[e].state = "DeletePending"
    \/ photo'[e] = photo[e] /\ e \notin cleanup.locked

LEMMA CommitSettles ==
    ASSUME IInv, CommitCleanup, NEW e \in Events
    PROVE  Settles(e)
<1>1. /\ cleanup.marked \subseteq cleanup.locked /\ cleanup.gone \subseteq cleanup.locked
      /\ \A n \in cleanup.gone : file[n] = Null
      /\ \A n \in cleanup.locked : photo[n] # Null
      /\ \A n \in cleanup.locked \ cleanup.marked : InState(n, {"DeletePending"})
  BY DEF IInv, CommitCleanup, CleanupHolds
<1>2. photo'[e] = IF e \in cleanup.gone
                  THEN IF age[e] = 2 THEN Null ELSE [photo[e] EXCEPT !.state = "Deleted"]
                  ELSE IF e \in cleanup.marked THEN [photo[e] EXCEPT !.state = "DeletePending"]
                  ELSE IF Forgotten(e) THEN Null ELSE photo[e]
  BY DEF CommitCleanup, Erased
<1>3. CASE e \in cleanup.gone
  <2>1. photo[e] # Null /\ file[e] = Null
    BY <1>1, <1>3
  <2>2. /\ [photo[e] EXCEPT !.state = "Deleted"] \in Photo
        /\ [photo[e] EXCEPT !.state = "Deleted"].state = "Deleted"
        /\ [photo[e] EXCEPT !.state = "Deleted"].content = photo[e].content
    BY <2>1, RowChanges DEF IInv, States
  <2> QED
    BY <1>2, <1>3, <2>1, <2>2 DEF Settles
<1>4. CASE e \notin cleanup.gone /\ e \in cleanup.marked
  <2>1. photo[e] # Null
    BY <1>1, <1>4
  <2>2. /\ [photo[e] EXCEPT !.state = "DeletePending"] \in Photo
        /\ [photo[e] EXCEPT !.state = "DeletePending"].state = "DeletePending"
        /\ [photo[e] EXCEPT !.state = "DeletePending"].content = photo[e].content
    BY <2>1, RowChanges DEF IInv, States
  <2> QED
    BY <1>2, <1>4, <2>1, <2>2 DEF Settles
<1>5. CASE e \notin cleanup.gone /\ e \notin cleanup.marked /\ Forgotten(e)
  <2>1. file[e] = Null /\ age[e] = 2
    BY <1>5 DEF IInv, BytesAreOwned, Usage, Forgotten, InState
  <2> QED
    BY <1>2, <1>5, <2>1 DEF Settles
<1>6. CASE e \notin cleanup.gone /\ e \notin cleanup.marked /\ ~Forgotten(e)
  <2>1. CASE e \in cleanup.locked
    <3>1. InState(e, {"DeletePending"})
      BY <1>1, <1>6, <2>1
    <3> QED
      BY <1>2, <1>6, <3>1 DEF Settles, InState, IInv, TypeOK
  <2>2. CASE e \notin cleanup.locked
    BY <1>2, <1>6, <2>2 DEF Settles
  <2> QED
    BY <2>1, <2>2
<1> QED
  BY <1>3, <1>4, <1>5, <1>6

LEMMA CommitCleanupStep ==
    ASSUME IInv, CommitCleanup
    PROVE  IInv'
<1>1. /\ buried' = buried \cup cleanup.locked /\ cleanup' = Idle
      /\ cleanup \in Maintenance
      /\ UNCHANGED <<file, age, allowed, handler>>
  BY DEF CommitCleanup, IInv, TypeOK
<1>2. /\ cleanup'.marked = {} /\ cleanup'.locked = {}
      /\ cleanup' \in Maintenance
  BY <1>1 DEF Idle, Maintenance
<1>3. \A e \in Events : Settles(e)
  BY CommitSettles
<1>4. photo' \in [Events -> Photo \cup {Null}]
  <2>1. \A e \in Events : photo'[e] \in Photo \cup {Null}
    BY <1>3 DEF Settles, IInv, TypeOK
  <2>2. photo' = [e \in Events |-> photo'[e]]
    BY DEF CommitCleanup
  <2> QED
    BY <2>1, <2>2
<1>5. TypeOK'
  BY <1>1, <1>2, <1>4 DEF IInv, TypeOK, Maintenance
<1>6. BytesAreOwned'
  BY <1>1, <1>3, RowAssumption DEF Settles, IInv, BytesAreOwned, Usage, InState
<1>7. DeletionStands'
  <2> SUFFICES ASSUME NEW e \in buried'
               PROVE  photo'[e] = Null \/ photo'[e].state \in {"DeletePending", "Deleted"}
    BY DEF DeletionStands, InState
  <2>1. e \in Events /\ (e \in buried \/ e \in cleanup.locked)
    BY <1>1 DEF IInv, TypeOK, Maintenance
  <2>2. e \in buried => photo[e] = Null \/ photo[e].state \in {"DeletePending", "Deleted"}
    BY DEF IInv, DeletionStands, InState
  <2> QED
    BY <1>3, <2>1, <2>2 DEF Settles
<1>8. PublicationHolds'
  <2> SUFFICES ASSUME NEW h \in Handlers, Publishing(h)
               PROVE  /\ InState(handler[h].event, {"Uploading"})'
                      /\ photo'[handler[h].event].content = handler[h].content
    BY <1>1, <1>2 DEF PublicationHolds, Publishing
  <2> DEFINE e == handler[h].event
  <2>1. /\ e \in Events /\ InState(e, {"Uploading"}) /\ photo[e].content = handler[h].content
        /\ e \notin cleanup.marked \cup cleanup.locked
    BY RequestEvents DEF IInv, PublicationHolds, Publishing
  <2>2. photo'[e] = photo[e]
    BY <2>1 DEF CommitCleanup, Erased, Forgotten, InState, IInv, CleanupHolds
  <2> QED
    BY <1>1, <2>1, <2>2 DEF InState
<1>9. OnePublisher' /\ RemovalHolds'
  BY <1>1 DEF IInv, OnePublisher, Publishing, RemovalHolds, Removing
<1>10. CleanupHolds'
  BY <1>1, IdleHolds
<1>11. TombstonesStay'
  <2> SUFFICES ASSUME NEW e \in buried', photo'[e] = Null
               PROVE  age[e] = 2
    BY <1>1 DEF TombstonesStay
  <2>1. e \in Events /\ (e \in buried \/ e \in cleanup.locked)
    BY <1>1 DEF IInv, TypeOK, Maintenance
  <2>2. e \in cleanup.locked => photo[e] # Null
    BY DEF IInv, CleanupHolds
  <2>3. photo[e] = Null => age[e] = 2
    BY <2>1, <2>2 DEF IInv, TombstonesStay
  <2> QED
    BY <1>3, <2>1, <2>3, RowAssumption DEF Settles
<1>12. HeldWithinQuota'
  <2>1. Held' \subseteq Held
    BY <1>1, <1>3 DEF Held, InState, Settles
  <2> QED
    BY <2>1, HeldShrinks
<1> QED
  BY <1>5, <1>6, <1>7, <1>8, <1>9, <1>10, <1>11, <1>12 DEF IInv

-----------------------------------------------------------------------------
(* Time and policy *)

LEMMA EnvironmentStep ==
    ASSUME IInv, Environment
    PROVE  IInv'
<1>1. ASSUME NEW e \in Events, GrowOld(e)
      PROVE  IInv'
  <2>1. TypeOK' /\ \A n \in Events : age[n] = 2 => age'[n] = 2
    BY <1>1 DEF IInv, TypeOK, GrowOld
  <2>2. UNCHANGED <<photo, file, handler, cleanup, buried>>
    BY <1>1 DEF GrowOld
  <2> QED
    BY <2>1, <2>2, RequestFrame DEF SamePublication, Publishing
<1>2. ASSUME NEW e \in Events, Overdue(e) \/ Lapse(e)
      PROVE  IInv'
  <2>1. /\ photo[e] # Null /\ photo[e] \in Photo
        /\ UNCHANGED <<file, age, allowed, handler, cleanup, buried>>
        /\ \/ photo' = [photo EXCEPT ![e] = [photo[e] EXCEPT !.overdue = TRUE]]
           \/ photo' = [photo EXCEPT ![e] = [photo[e] EXCEPT !.lapsed = TRUE]]
    BY <1>2 DEF IInv, TypeOK, Overdue, Lapse, InState
  <2>2. /\ [photo[e] EXCEPT !.overdue = TRUE] \in Photo
        /\ [photo[e] EXCEPT !.lapsed = TRUE] \in Photo
        /\ [photo[e] EXCEPT !.overdue = TRUE].state = photo[e].state
        /\ [photo[e] EXCEPT !.overdue = TRUE].content = photo[e].content
        /\ [photo[e] EXCEPT !.lapsed = TRUE].state = photo[e].state
        /\ [photo[e] EXCEPT !.lapsed = TRUE].content = photo[e].content
    BY <2>1 DEF Photo
  <2>3. /\ photo'[e] \in Photo
        /\ photo'[e].state = photo[e].state /\ photo'[e].content = photo[e].content
        /\ \A n \in Events : n # e => photo'[n] = photo[n]
        /\ photo' \in [Events -> Photo \cup {Null}]
    BY <2>1, <2>2 DEF IInv, TypeOK
  <2>4. TypeOK'
    BY <2>1, <2>3 DEF IInv, TypeOK
  <2>5. \A n \in Events : SameRow(n)
    BY <2>1, <2>3, RowAssumption DEF SameRow
  <2>6. CleanupHolds'
    BY <2>1, <2>5, CleanupFrame
  <2>7. RemovalHolds' /\ \A h \in Handlers : SamePublication(h)
    BY <2>1 DEF IInv, RemovalHolds, Removing, SamePublication, Publishing
  <2>8. \A h \in Handlers : Publishing(h) =>
            handler[h].event \notin cleanup'.marked \cup cleanup'.locked
    BY <2>1 DEF IInv, PublicationHolds
  <2> QED
    BY <2>1, <2>4, <2>5, <2>6, <2>7, <2>8, Frame
<1>3. CASE ChangePolicy
  <2>1. TypeOK' /\ UNCHANGED <<photo, file, age, handler, cleanup, buried>>
    BY <1>3 DEF IInv, TypeOK, ChangePolicy
  <2> QED
    BY <2>1, RequestFrame DEF SamePublication, Publishing
<1> QED
  BY <1>1, <1>2, <1>3 DEF Environment

-----------------------------------------------------------------------------
(* Theorems *)

LEMMA InitHolds == Init => IInv
<1> SUFFICES ASSUME Init PROVE IInv
  OBVIOUS
<1>1. TypeOK
  BY DEF Init, TypeOK, Idle, Maintenance
<1>2. HeldWithinQuota
  <2>1. Held = {}
    BY DEF Init, Held, InState
  <2> QED
    BY <2>1, FS_EmptySet, QuotaAssumption DEF HeldWithinQuota
<1> QED
  BY <1>1, <1>2 DEF Init, IInv, BytesAreOwned, DeletionStands, PublicationHolds, OnePublisher,
     Publishing, CleanupHolds, Idle, RemovalHolds, Removing, TombstonesStay

LEMMA NextKeeps ==
    ASSUME IInv, [Next]_vars
    PROVE  IInv'
<1>1. ASSUME NEW h \in Handlers, Serve(h)
      PROVE  IInv'
  BY <1>1, BeginUploadStep, AdmitStep, ReadmitStep, PublishStep, PutStep, CommitStoredStep,
     BeginRemoveStep, UnlinkStep, FinishRemoveStep, EndStep DEF Serve, Abandon
<1>2. CASE Maintain
  BY <1>2, BeginCleanupStep, LockPendingStep, CommitCleanupStep, RollBackCleanupStep,
     MarkStep, RemoveStep DEF Maintain
<1>3. CASE UNCHANGED vars
  BY <1>3 DEF vars, IInv, TypeOK, BytesAreOwned, Usage, InState, DeletionStands, PublicationHolds,
     OnePublisher, Publishing, CleanupHolds, RemovalHolds, Removing, TombstonesStay,
     HeldWithinQuota, Held
<1> QED
  BY <1>1, <1>2, <1>3, EnvironmentStep DEF Next

LEMMA Invariant == Spec => []IInv
BY InitHolds, NextKeeps, PTL DEF Spec

\* Rows, files, requests and the maintenance keep their types.
THEOREM PhotoTypeCorrect == Spec => []TypeOK
<1>1. IInv => TypeOK
  BY DEF IInv
<1> QED
  BY <1>1, Invariant, PTL

\* The bytes on disk belong to a row that counts and are what it was admitted
\* with, whatever retries, deletions and maintenance interleave and fail.
THEOREM PhotoBytesAreOwned == Spec => []BytesAreOwned
<1>1. IInv => BytesAreOwned
  BY DEF IInv
<1> QED
  BY <1>1, Invariant, PTL

\* A deleted photo is not shown again, neither by a retry nor after its
\* tombstone has been removed.
THEOREM PhotoDeletionsStand == Spec => []DeletionStands
<1>1. IInv => DeletionStands
  BY DEF IInv
<1> QED
  BY <1>1, Invariant, PTL

\* The store never holds more photos than the quota, although a row may leave
\* and enter the counted states while its photo is deleted.
THEOREM PhotoQuotaKept == Spec => []QuotaKept
<1>1. ASSUME IInv
      PROVE  QuotaKept
  <2> DEFINE stored == {e \in Events : file[e] # Null}
  <2>1. stored \subseteq Held /\ IsFiniteSet(Held)
    BY EventsAssumption, FS_Subset DEF Held
  <2>2. /\ Cardinality(stored) <= Cardinality(Held)
        /\ Cardinality(Held) \in Nat /\ Cardinality(stored) \in Nat
    BY <2>1, FS_Subset, FS_CardinalityType
  <2> QED
    BY <1>1, <2>2, QuotaAssumption DEF IInv, HeldWithinQuota, QuotaKept
<1> QED
  BY <1>1, Invariant, PTL

=============================================================================
