--------------------------- MODULE TermTransition ---------------------------
(***************************************************************************)
(* The terms of one school and the screens that follow them:               *)
(* academicTermTransitionService.js, and setAcademicTermStatus and          *)
(* importOrganization of organizationAdminService.js.  A transaction       *)
(* activates a term in two statements: it archives the active ones, then   *)
(* it activates its own.  PostgreSQL's READ COMMITTED applies: a statement sees what was    *)
(* committed before it began, and waits for rows another transaction has   *)
(* changed.                                                                *)
(*                                                                         *)
(* Classes are named by their code, which is the same in each term.        *)
(***************************************************************************)
EXTENDS FiniteSets

CONSTANTS
    Terms,
    Screens,
    Managers,       \* requests under way
    Null

Statuses == {"DRAFT", "ACTIVE", "ARCHIVED"}

\* A request: what it does to which term, the screens it will move with it
\* (read before the transaction), whether it imports a school, whose row it then
\* holds, what is next, the terms its first statement
\* has found and the statuses it has written, which nobody else sees yet.
Work == [term : Terms, to : Statuses, moves : SUBSET Screens, imports : BOOLEAN,
         step : {"find", "archive", "set", "commit"}, found : SUBSET Terms,
         written : [Terms -> Statuses \cup {Null}]]

VARIABLES
    status,         \* AcademicTerm.status
    class,          \* the term a screen's class belongs to
    offered,        \* <<term, screen>>: an active class with the screen's code
    work            \* requests between two statements

termVars == <<status, class, offered, work>>

TermTypeOK ==
    /\ status \in [Terms -> Statuses]
    /\ class \in [Screens -> Terms]
    /\ offered \subseteq Terms \X Screens
    /\ work \in [Managers -> Work \cup {Null}]

\* A school starts with one active term; the next ones are drafts.
TermInit ==
    /\ \E t \in Terms : /\ status = [u \in Terms |-> IF u = t THEN "ACTIVE" ELSE "DRAFT"]
                        /\ class = [s \in Screens |-> t]
    /\ offered \in SUBSET (Terms \X Screens)
    /\ work = [m \in Managers |-> Null]

-----------------------------------------------------------------------------

Unwritten == [t \in Terms |-> Null]

Request(t, to, moves, imports) ==
    [term |-> t, to |-> to, moves |-> moves, imports |-> imports,
     step |-> IF to = "ACTIVE" THEN "find" ELSE "set", found |-> {}, written |-> Unwritten]

\* getAcademicTermReadiness of activateAcademicTermTransition; the diagnostics
\* allow it or it is forced, and the screens are moved or not.
Prepare(m, t) ==
    /\ work[m] = Null
    /\ \E rebind \in BOOLEAN :
          work' = [work EXCEPT ![m] =
             Request(t, "ACTIVE", IF rebind THEN {s \in Screens : <<t, s>> \in offered} ELSE {}, FALSE)]
    /\ UNCHANGED <<status, class, offered>>

\* setAcademicTermStatus
SetStatus(m, t, to) ==
    /\ work[m] = Null
    /\ work' = [work EXCEPT ![m] = Request(t, to, {}, FALSE)]
    /\ UNCHANGED <<status, class, offered>>

\* importOrganization, from the update of the school's row on, which keeps other
\* imports of the school waiting; a new term is like a draft before.
ImportOrganization(m, t, to) ==
    /\ work[m] = Null
    /\ \A n \in Managers : work[n] # Null => ~work[n].imports
    /\ work' = [work EXCEPT ![m] = Request(t, to, {}, TRUE)]
    /\ UNCHANGED <<status, class, offered>>

\* Rows another transaction has written and not committed.
LockedFor(m, t) == \E n \in Managers \ {m} : work[n] # Null /\ work[n].written[t] # Null

\* The terms it does not spare: an import archives its own term as well before it
\* sets that.
Others(job) == IF job.imports THEN Terms ELSE Terms \ {job.term}

\* updateMany finds the active terms, waits until nobody else is about to change
\* them and writes those that are active still.
FindOthers(m) ==
    /\ work[m] # Null /\ work[m].step = "find"
    /\ work' = [work EXCEPT ![m].step = "archive",
                           ![m].found = {t \in Others(work[m]) : status[t] = "ACTIVE"}]
    /\ UNCHANGED <<status, class, offered>>

ArchiveOthers(m) ==
    /\ work[m] # Null /\ work[m].step = "archive"
    /\ \A t \in work[m].found : ~LockedFor(m, t)
    /\ work' = [work EXCEPT ![m].step = "set",
          ![m].written = [t \in Terms |->
             IF t \in work[m].found /\ status[t] = "ACTIVE" THEN "ARCHIVED" ELSE Null]]
    /\ UNCHANGED <<status, class, offered>>

\* update (or upsert) of the term itself.
SetOwn(m) ==
    /\ work[m] # Null /\ work[m].step = "set"
    /\ ~LockedFor(m, work[m].term)
    /\ work' = [work EXCEPT ![m].step = "commit", ![m].written[work[m].term] = work[m].to]
    /\ UNCHANGED <<status, class, offered>>

\* The screens are moved and everything becomes visible.
Commit(m) ==
    /\ work[m] # Null /\ work[m].step = "commit"
    /\ status' = [t \in Terms |->
          IF work[m].written[t] # Null THEN work[m].written[t] ELSE status[t]]
    /\ class' = [s \in Screens |-> IF s \in work[m].moves THEN work[m].term ELSE class[s]]
    /\ work' = [work EXCEPT ![m] = Null]
    /\ UNCHANGED offered

\* A deadlock, the time limit of the transaction or a stop of the server.
RollBack(m) ==
    /\ work[m] # Null
    /\ work' = [work EXCEPT ![m] = Null]
    /\ UNCHANGED <<status, class, offered>>

\* Classes are added to a term and put out of use.
ChangeClass(t, s) ==
    /\ offered' = IF <<t, s>> \in offered THEN offered \ {<<t, s>>}
                                          ELSE offered \cup {<<t, s>>}
    /\ UNCHANGED <<status, class, work>>

TermNext ==
    \/ \E m \in Managers :
          \/ \E t \in Terms :
                \/ Prepare(m, t)
                \/ \E to \in Statuses : SetStatus(m, t, to) \/ ImportOrganization(m, t, to)
          \/ FindOthers(m) \/ ArchiveOthers(m) \/ SetOwn(m) \/ Commit(m) \/ RollBack(m)
    \/ \E t \in Terms, s \in Screens : ChangeClass(t, s)

TermSpec == TermInit /\ [][TermNext]_termVars

-----------------------------------------------------------------------------
(* Properties.                                                             *)

\* A school has one active term at most ("启用一个学期时，同校其他 ACTIVE
\* 学期自动归档", docs/classworks-2-phase-2.md).  It fails when two terms are
\* activated at the same time: see the README.
OneActiveTerm ==
    \A t, u \in Terms : status[t] = "ACTIVE" /\ status[u] = "ACTIVE" => t = u
=============================================================================
