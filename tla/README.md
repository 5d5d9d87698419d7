# NPClassworksKV: verification project

TLA+ models of the NPClassworksKV server (Node.js, Express, Prisma on PostgreSQL, Socket.IO), the TLC configurations
that check them and the theorems TLAPS proves about them. Paths below are relative to the repository; `services/x.js`
and the like are under `src/`.

## 1. The system

The server keeps what a school's classes see on their walls (assignments and notices, shown by classroom screens and
public displays) and what the software on the classroom machines, NPEP devices, is told to do. Every write is an HTTP
request served by an async handler. Handlers interleave at every `await`, the database runs them at READ COMMITTED, and
several processes may share one database. So what keeps the data right is not mutual exclusion in the process but
compare-and-swap on revision columns, row locks taken inside transactions in a fixed order, unique and partial indexes,
idempotency keys, triggers ("fences") and jobs that clean up.

### Components

| component | state it keeps | operations | what is hard | what makes it correct |
|---|---|---|---|---|
| Publications (`publicationService.js`) | `Publication`, `PublicationTarget`, `PublicationRevision` | create, clone, update, restore, withdraw, certify; a screen's create (retried), update, restore, split of a shared assignment | every handler reads, validates and merges before its transaction; only the revision is compared in it | nothing is lost or brought back by a stale read; history is an append-only log that agrees with the row; certification is somebody's who is in charge |
| Revision cleanup (`publicationRevisionCleanupService.js`) | bodies of old revisions | erase | runs beside writers and restores | erases only uncertified old assignment history; what is erased never returns as content |
| Screen fence (`screenWriteAuthorization.js`) | `ClassroomScreenBinding` | lock at the head of a screen's transaction | authenticated earlier | a revoked screen writes nothing |
| Feed and broadcast (`utils/socket.js`, `broadcast...` in `publicationService.js`) | rooms, sockets with a leave and a credential counter | broadcast after the commit, refetch, join, leave, new credentials | rooms, visibility and verdicts come from earlier reads | every display that shows an old feed is told; it catches up; a left room stays left; an event goes to the credentials that were judged |
| Publication authorization, staff, memberships | responsibilities, roles | reads and administration | changes while requests run | scope of a certification |
| NPEP pairing (`npepService.js`, `npepScreenPairing.js`, `npepClassAdmission.js`) | `NpepPairing`, `NpepScreenPairingTicket`, `NpepDevice` | create, approve, claim a code, apply, enter a password, confirm, cancel, revoke | everything an admission rests on may change before it is confirmed; fences by triggers | one device per screen, admitted as the screen is now, while its admission stands |
| NPEP sessions and status (`npepService.js`) | session columns of `NpepDevice`, `NpepSessionReceipt` | open, report status, revoke, retention | late, reordered and repeated messages of a host that has restarted meanwhile | newest session wins, a repeat refreshes nothing |
| NPEP runtime control (`npepRuntimeService.js`, `domain/npep/runtimeControl.js`) | `NpepRuntimePolicy`, `NpepRuntimeOperation` | create, coalesce, cancel, poll, start, report events, resolve | host restarts, late and repeated events, expired operations, role lost meanwhile | one operation in the slot, granted once, a state is evidence |
| NPEP study photos (`npepPhotoService.js`, `npepPhotoStore.js`, `npepPhotoMaintenance.js`) | `NpepStudyPhoto` and files | upload, delete, maintain | rows and files change in separate steps that fail separately | bytes belong to a counted row, a deletion stands, bytes nobody may see go |
| NPEP noise commands (`npepNoiseService.js`) | one aggregate per device: status, commands, receipts | ask, exchange, view | a command meant for one run of the host is fetched after a restart; results come twice or contradict | only the run it was meant for carries a command out; what a host reported stays |
| NPEP exam plans (`npepExamPlanService.js`) | `NpepExamPlan`, last sample | upload, confirm, cancel, poll, sample, result, grant | restarts, late samples and results, expiry, cancellation, a changed policy | one usable grant at a time; what administrators are told is true |
| NPEP seating plans (`npepSeatingService.js`) | versions per class, request ledger | publish, restore, withdraw, upload by a device | retries, stale revisions, a device that was moved | a request is done once, on what its writer saw |
| NPEP school management, notifications, study devices, noise schedules and display | ledgers with expected revisions and receipts | edits, reports | retries and stale revisions | a request is done once, an old revision overwrites nothing |
| Accounts, sessions, tokens (`tokenManager.js`, `jwt-auth.js`, `localAccountService.js`) | `Account`, `AccountSession`, tokens | login, refresh, check, logout, PIN change and reset, disabling | account and session are read at different moments, PINs compared in between | a dead credential stays out; a replaced PIN opens nothing |
| Screens' login (`classroomScreenService.js`) | PIN, miss counter, lock, token and device of `ClassroomScreenBinding` | login, verify, unlock, new PIN or code, reset, enable | the PIN is compared before the row is locked | every wrong PIN counts; the valid token is the bound browser's |
| Academic structure, term transition, instance setup, migration, organisation | schools, terms, classes, workspaces | administration | readiness read before the change; two statements without a lock on the school | one active term, one setup |
| Deployment agent and gate (`deploy/agent/server.js`, `domain/npep/deployment.js`) | queue and job of the agent; images, commits, containers and release record of the host; deployment identity and epoch | deploy, roll back, restore | a script hangs, is killed at any step, or two agents meet at the lock; restore of an old backup | every request is answered; the record names what runs; no epoch used twice |
| HTTP application, validators, audit log, generated client | - | routing, parsing, records | - | - |

Components meet in four ways: publications, the screen fence, the cleanup and academic administration write the same rows; the feed is
told by publications after their commits; NPEP services share the locks school -> screen -> device and the triggers of
migration `20260920120000_npep_n1`; the maintenance job works on NPEP rows without the school lock. `PROJECT.json`
lists all components with what is modelled of each, and the hazards with the properties aimed at them.

## 2. Modules

| module | models | correspondence |
|---|---|---|
| `Publication` | publications, revision cleanup, screen fence | one variable per table; a handler is two actions, `Begin...` (reads and validation) and `Commit...` (the transaction), or `Refuse`; `Announce` is the broadcast |
| `PublicationLog` | the promise of the history: a log that grows at its end | abstract specification; `Publication!LogSpec` is the refinement |
| `PublicationFeed` | public displays on top of `Publication` | `behind` and `signalled` are what a display shows and what it was told |
| `NpepPairing` | pairing, codes, devices, and all changes of what an admission rests on | one action per call, since each call locks school, screen and device first; `ReadPairing`/`Activate` split the one call that reads before it locks (`confirm`); triggers are part of the action that trips them |
| `NpepRuntime` | the operation ledger and the policy sample of one device | one action per call; `Settled` is what `pending()` does at the head of calls; `RestartHost` is a new control epoch |
| `NpepPhoto` | rows and files of photos | one action per transaction and per file operation; `RollBackCleanup` and `Abandon` are failures, which undo what the database did and not what the disk did |
| `NpepSession` | session, status, revocation and retention of receipts of one device | one action per call, since each locks school, screen and device first; a *run* is one start of the host; what hosts have sent stays in `opens` and `reports` and may arrive at any time, again or never |
| `NoiseControl` | noise commands, on top of `NpepSession` (extends it) | the aggregate of a device is read and saved under its lock, so a call is one step; the screen's wish, the host's exchange, its reply and the meter itself are separate actions |
| `ExamPlan` | exam plans of one device, its samples, grants and results | one action per call and one per thing the host does; a refused call rolls back |
| `SeatingPlan` | seating plans of several classes and the request ledger | one action per transaction; `Send`, lost answers and repeats are the client's |
| `RequestLedger` | what a request id promises: one result, of its own, and every answer is that result | abstract specification; `SeatingPlan!LedgerSpec` is the refinement |
| `AccountSession` | login, refresh, check and PIN change as separate reads and writes; logout, reset, disabling | `work` holds what a request has read so far; a login makes its session in a second transaction |
| `ScreenLogin` | login and verification of a screen's PIN, lock-out, new PIN or code, reset | an attempt reads and compares, then locks, compares with what it read, and writes; misses have a transaction of their own |
| `WorkspaceSocket` | sockets, joins and broadcasts of `utils/socket.js` | a join or broadcast is split at each `await`; a broadcast walks over the sockets and asks for a verdict on each |
| `TermTransition` | three ways to activate a term (transition, status, import), and the screens that move | one action per SQL statement under READ COMMITTED: a statement sees what was committed, waits for rows somebody else has written and skips those that no longer match |
| `DeployAgent` | queue, timers and answers of `deploy/agent/server.js`, steps of `upgrade.sh` with `rollback.sh` | one action per step of a script; `Crash` and the two signals may stop it at each of them |
| `PublicationProofs` | theorems on `Publication`, its log and its feed | extends `PublicationFeed` |
| `NpepSessionProofs` | theorems on `NpepSession` and `NoiseControl` | extends `NoiseControl` |
| `AccessProofs` | theorems on `AccountSession`, `ScreenLogin` and `WorkspaceSocket` | extends the three |
| `NpepPairingProofs`, `NpepRuntimeProofs`, `NpepPhotoProofs`, `ExamPlanProofs`, `SeatingPlanProofs` | theorems | each extends its component's module |
| `NoValue` | the constant `Null` of the modules that `MCAccessServices` and `MCDeviceServices` extend together | - |
| `MC...` | values, mixes and symmetry for TLC | see below |

Several MC modules hold a variable `mix` or `part`, chosen in the initial state and never changed. A behaviour then is one of several
instances: of the same module with other sets of operations (`MCPublicationWrites`, `MCPublicationHistory`, `MCPublicationFeed`,
`MCNpepPairing`, `MCNpepRuntime`), or of modules that share no rows (`MCDeviceServices`, `MCAccessServices`). One run so asks its properties of
all of them, at the sum of their sizes and not the product. A mix narrows constants only; it replaces no action.

A definition marked `Mutant:` in a module is a plausible bug in the definition that follows it; it is used by no
specification. `PROJECT.json` names for each checked property the mutant that breaks it.

### Abstractions

* Data: a title, a text, a date, a digest is one model value. Audit columns, formatting and read permissions are left
  out. In `Publication` any account may try any operation; what decides a certification is the constant `Scope`.
  A snapshot is its `body` (all content fields), the `reason` of a correction (`contentJson.correctionReason`), status and targets. `contentJson` of an input is absent, null or an object, as clients send it.
  A clone keeps the content and targets it read; one whose input replaces some of them is a creation like any other.
* Corrections: every validated snapshot comes without the reason of an earlier correction, and an edit of a published assignment may give a new one. A withdrawal (`publicationService.js:1377`, 1390-1397)
  and a split (998-1012) strip it from the revision row but do not write `contentJson`, so the publication keeps a reason its newest row is without. That is the one difference `HeadSnapshotAgrees` allows.
  `docs/release-v1.1.5.md:24` only says that copies, restores and edits drop an old reason, which they do, in both places.
* Atomicity: a handler of `publicationService.js` does its unlocked reads in one step. The values it relies on all come
  from the publication row, and the transaction compares the revision. NPEP calls are one step because they hold
  school, screen and device locks from their first read on.
* Clients send revisions they have seen, so `expected` is at most the revision at the time of the read.
* The duplicate check for accounts is advisory (`allowDuplicate`) and left out; the board-date copy loop repeats a
  screen's creation.
* `ScreenWorkspaces` is constant: a change of class of a screen replaces its token, which `RotateScreen` models.
* Time: "five minutes have passed" is an action that may happen at any moment, and a flag (`overdue`, `lapsed`, `fresh`,
  `age`).
* A crash of the server between a commit and its broadcast loses the event; `PublicationFeed` does not model it, and
  displays then only recover at their next reconnection.
* Messages of hosts and clients are elements of sets that never shrink, so every loss, delay, repeat and reordering is a behaviour.
  A call the server refuses changes nothing (its transaction rolls back) and is then no step at all, unless a client acts on the refusal.
* `NpepSession`: a session id is made for one status epoch and stands for it; two digests differ when the bodies do. Status contents are left out.
* `NoiseControl`: a status is the run and the number of starts and stops so far. Summaries, reports of ended measurements and the
  protection of scheduled ones are left out.
* `ExamPlan`: consent, policy and revision of a sample are one `version`; the document is a model value; a sample that is too old, or a lost role,
  refuses a call that otherwise may succeed.
* `AccountSession`: a PIN is the number of the change that set it, since each hash has its salt. The account is of a school in the mode LOCAL_PIN, where an imported teacher comes
  with a PIN. In the modes SHARED_PASSWORD and OAUTH_EMAIL `importLocalTeachers` writes the hash back that it has read in its transaction, without a new token version
  (`localAccountService.js:182-195`); a PIN its owner or a manager sets between this read and this write is then replaced by the old one, and `ReplacedPinOpensNothing` does not
  speak of it. The shared password of a school, refresh tokens of the time before sessions and expiry (which only refuses more) are left out.
* `ScreenLogin`: PINs and tokens are numbers given out once. `updateClassroomScreenAccount` with another code or class is `SetCode`; creating an account and a
  binding without a PIN are inserts without a race. One screen, so the unique indexes over several are not modelled.
* `WorkspaceSocket`: who may read a publication is `readers` and changes at any time.
* `DeployAgent`: a version is a pair of commits. Signature, logs, plan file, backup and restore of the database are left out.
* `NpepPhoto`: a file operation ends with its transaction. A put that outlives the nine seconds of its transaction, the
  maintenance loop that goes on unlinking after its own timeout, and a temporary file left by a crash during a put are
  not modelled. A lease with its window and thresholds is `allowed` and `age`. `LockPending` takes what is
  `DeletePending` when the statement looks.

## 3. Runs

Bounds are named constants of the `.cfg` files. `CHECK_DEADLOCK FALSE` everywhere: with a bounded supply of ids,
revisions, operations or epochs the server simply has nothing left to do.

| run | instance | shows |
|---|---|---|
| `pub_writes` | *edits*: one publication, two classes, one of them in the account's charge, 2 requests, 3 revisions; *screens*: 2 publications, one submission key, 2 tokens; *corrections*: one publication with one reason that is moved, withdrawn and split; no request touches what is split off | row, history and certification agree, but for a reason a withdrawal or split has stripped; partial edits and withdrawals are not undone by a stale pre-read; a submission makes one publication; a disabled or re-keyed screen is silent. Three revisions let a restore of an old version race an edit; two requests give every pairwise race, since the revision compare lets only one of several commit |
| `pub_history` | *edits*: one publication, 2 contents, a teacher, a screen, cleanup, disabling of the workspace; *submissions*: the same of one a screen has submitted; *splits*: 2 publications, 2 classes | only uncertified assignment history is erased and never comes back as content, no screen certifies, the history refines `PublicationLog` |
| `pub_split_certified` | violation | finding 1 |
| `feed` | *move*: edits between two classes; *show*: drafts, publishing, withdrawal; *split*: splits and certifications of two publications | the other class is left alone; every outdated display has been told or is about to be; with fair broadcasts and fetches displays catch up |
| `pairing` | *admission*: one screen, 2 pairings, 2 codes, all four ways in, 2 confirmations; *fences*: two classes, 2 devices, 2 epochs, moves, closures, lapses, redeployment | one device per screen, a code admits once, admissions stand at the moment of activation, a device follows its screen, what is shut out stays out |
| `runtime` | *results*: 2 operations, 2 starts, 2 events each; *calls*: 2 operations, 3 requests (own, coalesced, repeated), 2 sessions | one slot, states are evidence, a request runs once, results stay, unstarted operations leave the slot |
| `photo_store` | one photo, 2 contents, 2 requests, maintenance | bytes are owned, deletions stand, bytes nobody may see go. Photos share only the quota and the cooldown, so one photo is enough for these; the quota is proved |
| `photo_spared` | violation | finding 2 |
| `device_services` | *sessions*: 3 runs, 3 epochs, 2 reports per session, 2 ticks; *noise*: one command, 2 runs, 3 exchanges; *plan*: one plan, 2 sessions, 2 policy versions; *plans*: 2 plans in one session, 3 samples; *seats*: 2 classes, an administrator, a device that may be moved once, 3 requests, 3 revisions, images of the last 2 kept | old runs never come back; a device looks alive only because of something new; a command or grant reaches only the run it was meant for; what people are told is true; a seating request is done once, on what its writer saw |
| `access_services` | *accounts*: 2 sessions, 2 requests, 3 PINs, 3 token versions; *screens*: 2 browsers, 2 attempts, lock at the third miss, 3 tokens; *sockets*: one socket, 2 credentials, 2 rooms, one broadcast, counters to 2; *deploy*: 3 jobs, one may wait, 2 versions of which one becomes ready | a dead credential stays out, a replaced PIN opens nothing, every miss counts, a token is its holder's, a left room stays left, an event goes to the credentials that were judged, every deployment request is answered |
| `term_two_active` | violation: 3 terms, 2 administrators | finding 3 |
| `release_record` | violation: 2 jobs, 3 versions of which two become ready | finding 4 |

Three runs are the least in which a message of the first arrives after the second was replaced; a pair of requests, attempts or browsers is the
least that can race, and the counters allow each of them to be overtaken once more. The lock-out bound 3 replaces 5: the count must be able
to grow from two attempts at a time and still reach the lock.

Together the passing runs take every action of every module they instantiate; `TermTransition` is exercised by its violation run.

### Fairness

* `FeedSpec` and `MCPublicationFeed!MixedSpec`: weak fairness of `Broadcast` (a handler that has committed goes on to its next statement) and of
  `Refetch` (a connected display acts on an event). No request is ever obliged to arrive.
* `NpepRuntime!FairSpec` and `MCNpepRuntime!MixedSpec`: weak fairness of `RunOut` (clocks run) and `Look` (a host that is on polls, and a poll settles
  what is overdue). Nothing obliges anybody to start, report or restart.
* `DeployAgent!DeploySpec`: weak fairness of `Close` (the end of a process is noticed) and of the two timers, `Timeout` and `KillHard`. A script owes
  nothing: it may hang in each of its steps, which is what the timers are for.
* `NpepPhoto!FairSpec`: requests end (`Abandon` stands for a client or a timeout), time passes, the maintenance runs
  every minute (weak fairness of its start and its commit) and is not failed by database or disk for ever: strong
  fairness of `Mark`, `LockPending` and `Remove`, which a rollback or a busy row disables only for a while.

### Findings

1. `HeadCertificationAgrees` is false. A screen that takes its class out of a shared assignment writes the original's
   next revision row with the certification as read before its transaction (`publicationService.js:1033`). A certification that
   commits in between does not change the revision, so the split is not refused: the publication is certified and its
   newest revision is not, against `docs/classworks-2-phase-6.md:8`. In the mixes of `pub_history` without splits the property holds.
2. `CleanupSparesStored` is false. The maintenance picks overdue uploads in a subselect, waits for their rows and updates
   them by id without looking at the state again (`npepPhotoMaintenance.js:9`). A retry that is being published at that
   moment is answered "Stored" and its photo is deleted. The device has been told it need not send it again.
3. `OneActiveTerm` is false. Two activations of different terms each archive what was active before (`academicTermTransitionService.js:117`, `organizationAdminService.js:257`)
   and then activate their own. Neither sees the other's term, nothing locks the school (an import only keeps other imports waiting, `organizationAdminService.js:107-135`) and no index forbids it: both terms are active, against
   `docs/classworks-2-phase-2.md:40`.
4. `RollbackRecordsWhatRuns` is false. `upgrade.sh` saves the images called `current` and the release record side by side without comparing them (L65-81). After
   an upgrade that was killed between its build and its record, the next one saves the new images with the old record; when it fails, the rollback
   (`rollback.sh:39-58`) starts these images and restores that record, against `docs/release-v1.0.1.md:58`.

## 4. Proofs

TLAPS checks eight proof modules, for every value of the constants. Assumptions are those named in the modules or in the theorems
(`Bounds`, `NoiseBounds`, `ExamBounds`, `SeatingBounds`): bounds are naturals, `Null` is none of the values, `Erased` is no body, accounts are no screens, and
there are finitely many photos (for their number to be defined) and workspaces (`FiniteAssumption`: a single class is told from a shared assignment by counting targets).
Every theorem is about the specification that the runs check; only `OnlyStaleSplitsDisagree` adds a condition, and says which.

`PublicationProofs`. First invariant, `IInv`: `TypeOK`, `AllCoherent` (each publication agrees with its revision rows: contiguous, newest snapshot the same up to a stripped reason, certified
by somebody in charge, erased only in the past), `RequestsPrepared` (what the first step of each handler established), `PreReadFresh` and
`OnePublicationPerRequest`. `PreReadFresh` is the heart: a request whose revision is still current read what the row still says, except
for a certification. A commit then builds its row from `Prepared` facts about the read, which is the present. From it: `TypeCorrect`, `PreReadsAreFresh`, `HistoryIsContiguous`, `HeadSnapshotsAgree`,
`CertifiersAreInCharge`, `OnlyHistoryIsErased`, `RequestsCreateOnce`, and the action properties `RevokedScreensAreSilent`,
`PatchesKeepOtherFields`, `WithdrawnStaysUntilRestored`.

The other results rest on one lemma, `StepCases`: under `IInv` every step has one of five shapes, `Saved`, `Made`, `Certified`, `SplitOff`, `Purged`, or
takes in or ends a request and leaves the tables alone. A shape says what is written in terms of the present row, and no longer of what a handler read.

* Second invariant, `VouchIInv`. A screen may restore a certified version, and a split passes a certification on. So behind every certification a
  publication carries there has to be a row, of that content, certified by that account before (`CertifiersVouched`); the same holds for what a restore has read and not
  yet written (`RestoresVouched`), which stays true because certified rows never change; an uncertified publication has an uncertified newest row (`HeadRowKnown`), so that a
  certification marks a row without one; and a screen's request stays within its class (`ScreensInOwnClass`). `VouchInvariance` says it is
  invariant; `ScreensNeverCertify` and `ScreensKeepToTheirClass` follow. The second needs that an assignment is shared or the class's own, which is why workspaces are finite.
* `HistoryIsALog`: the refinement of `PublicationLog`. `VersionLogs` maps a publication and its rows to the sequence of its versions. `Saved` and `Made` map to `Write`, `SplitOff` to `Fork`,
  `Certified` to `Certify`, `Purged` to `Erase`, everything else to a stutter.
* `FeedRunsServer`: with displays the server behaves as without, so all of the above holds for `FeedSpec`. `FeedsAreAnnounced`: a feed only changes by a publication it showed or
  shows; each shape announces in the workspaces of both, publicly if either is published; and an announcement stays until it is made, which tells the displays.
* `OnlyStaleSplitsDisagree`: the false `HeadCertificationAgrees` of finding 1 is true if every split that commits writes the certification that is in the row
  (`SplitsSeeCertification`). There is no other way for the two to disagree, and re-reading the certification in the transaction would repair it.

`NpepPairingProofs`. Invariant: types, `OneDevicePerScreen`, `DeviceFollowsScreen`, `OneDevicePerPairing`, `CodeAdmitsOnce` and what they
rest on: approved pairings have a screen, devices were made by their pairing, confirmations under way agree with their pairing as far as it cannot
change, tickets agree with the pairings that claimed them. Every step is either quiet (devices only get worse, pairings only settle) or one
successful `Activate`, which is treated on its own. Eight theorems, among them `AdmissionsStand` and `ShutOutDevicesStayOut`.

`NpepRuntimeProofs`. Invariant: types, `AllShaped` (what the state, grant, resolution and retirement of an operation say of each other),
`OneOperationAtATime`, `RequestRunsOnce`. The slot depends on the shape: a late result may only reach an operation that keeps `resolved`.
Steps that only advance operations are handled by one lemma. Seven theorems.

`NpepPhotoProofs`. Invariant: types, `BytesAreOwned`, `DeletionStands`, and: a publication holds a row that is still uploading, has its content and
was not taken by the maintenance; one publication at a time; the maintenance's rows exist, those it unlinked have no file; a deletion under way is
of a buried photo whose file does not come back; a tombstone goes only when no upload is taken any more; photos that have or may get bytes
number at most the quota. The last one is needed because the number of *counted* rows may exceed the quota: deleting a photo again takes a `Deleted` row back to `DeletePending`.
Four theorems, among them `PhotoQuotaKept`, which the small run does not check.

`NpepSessionProofs`. Invariant: types; requests to open know at most the present epoch, and those of a run before the one that opened last know less
(`OpensAreOfTheirTime`); while the credential lasts, the receipts say which run has which session, later sessions belonging to later runs (`ReceiptsTell`); the session is that of
the newest epoch, and the newest report stored under it has the last number (`NewestIsLast`). That is why a late open either fails the comparison of epochs or finds
a receipt, and why a repeated report is never newer. Three theorems: `SessionTypeCorrect`, `NewestRunsStand`, `SeenIsAlwaysNewer`.

The same module has `NoiseControl`, which adds commands to a session. Its steps are steps of the session or leave it alone (`NoiseKeepsSession`), so `IInv` holds under them too.
Invariant: an exchange reports the status of the run its session belongs to (`ExchangesFit`); and
a command is for the run whose status its screen had seen, and so is whatever carries it: replies and what the meter has carried out (`CommandsFit`). `NoiseTypeCorrect`, `CommandsForTheirHost`, `ActualResultsStay`.

`AccessProofs`, three independent components.

* `AccountSession`. Invariant: types; tokens and sessions carry no version to come, nor the present one of a disabled account; a session of
  the present version was opened with the present PIN; what a request has read was so; and a request whose credential is dead carries an old version, which shows
  when the account is read, or a revoked session that it has not read yet. The steps fall into those that let accounts and sessions only grow (`Grows`)
  and those of a single request. `AccountTypeCorrect`, `DeadStayOut`, `ReplacedPinsOpenNothing`.
* `ScreenLogin`. Invariant: types, the two properties, and that the holder's token is not newer than that of the row (`TokensInOrder`): a new
  token is then nobody's yet. `ScreenTypeCorrect`, `MissesAllCount`, `TokensAreTheHolders`.
* `WorkspaceSocket`. Invariant: types; the generation of a join is at most the leave counter of its socket, and while it is equal the client still wants
  those rooms; the generation of a broadcast in its verdict is at most the credential counter, and while it is equal the credentials are those that are judged.
  `SocketTypeCorrect`, `LeavesStand`, `EventsForTheirReaders`.

`ExamPlanProofs`. Invariant `ExamIInv`: a plan under way is for the host of the last sample; one whose outcome is unknown before its time was given up by its host, which has said so, or has lost it to a later policy;
a plan that is cancelled or expired was never granted (`ListFits`); samples belong to sessions that were opened, and whether a host is enabled follows from its policy
(`SamplesFit`); what the host holds or has started was granted (`GrantsFit`), what it reports as started it started (`OutcomesFit`). `Distinct` is `OneLiveGrant` made
inductive: of the plans that are live *or may become so* there is one for each policy, since a plan is granted long after it was made. `clean`, which runs at the head
of the calls, only changes states of plans (`CleanedIs`). `ExamTypeCorrect`, `PlanOutcomesAreTrue`, `GrantsAreSingle`.

`SeatingPlanProofs`. Invariant `SeatingIInv`: revisions have no gaps (`Unbroken`); what the sender of a call meant still stands in it: the version it saw is the one of
that number, and a device that was not moved is still in the class (`CallsFit`); a version was made by a call for its class that had seen the one before (`VersionsFit`); answers are
versions their request made (`AnswersFit`). A request therefore has one version at most. `SeatingTypeCorrect`, `SeenIsReplaced`, and `LedgerIsKept`: a write maps to
`Do` of `RequestLedger`, a repeated call to `Repeat`, a lost answer to `Forget`, everything else to a stutter.

The type invariants, `PreReadFresh`, `HistoryContiguous`, `OneDevicePerPairing`, `PairingSettles`, `OneExecution`, `GrantedOnce` and `QuotaKept` are
proved and not listed in a run, where they would only cost time.

Every invariant, action property and refinement of a passing run is proved. Only model-checked: the liveness properties `FeedCatchesUp`, `QueueMovesOn`, `BytesGo` and `EveryJobAnswered`.
They rest on fairness and so on `ENABLED`, which the prover does not support. `TermTransition` and `DeployAgent` have no theorems: their safety properties are the
findings 3 and 4, which are false.

## 5. Plan

Done: `Publication`, `PublicationLog`, `PublicationFeed`, `NpepPairing`, `NpepRuntime`, `NpepPhoto`, `NpepSession`, `NoiseControl`, `ExamPlan`, `SeatingPlan`, `RequestLedger`, `AccountSession`, `ScreenLogin`,
`WorkspaceSocket` with proofs; `TermTransition` and `DeployAgent` model-checked.

Next proofs, by importance:

1. `DeployAgent`: its types, and that a job's answer is given once: the safety half of `EveryJobAnswered`.
2. `TermTransition`: `OneActiveTerm` under the condition that activations of one school do not overlap, as the counterpart of finding 3.
3. The safety halves of the other liveness properties, as step lemmas: what is due stays due until the fair action takes it.

Next modules:

1. `NpepDeployment`: epochs across activation, backup and restore; property: no epoch is used twice, an old credential is not valid again.
2. `NoiseDisplay`: display settings whose revision starts again after a deletion, and the schedules with their pure rules against a reference definition.
3. `NpepStudy`, `NpepNotification`, `NotificationDelivery`: ledgers of reports and receipts, as further implementations of `RequestLedger`.
4. `OptimisticWrite`, as the common form of documents with an expected revision (classroom tools, duty, study settings, equipment).
5. `InstanceSetup`, and the batch page of the pairings as a composition over `NpepPairing`.

## 6. Not modelled, and why

Read-only queries, validators, routing, rate limits, the audit log, image encoding and single-statement administration change no state that
interleaves with anything or are pure functions of one request. School migration is a long mapping of rows in one transaction.
Of the deployment scripts, `upgrade.sh` and `rollback.sh` are in
`DeployAgent`; backup and restore of the database are not. The generated client and migrations are represented by the indexes,
checks and triggers the models use. Everything else that is missing is on the plan; `PROJECT.json` gives the reason per component.
