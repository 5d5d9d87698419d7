---------------------------- MODULE NpepSession ----------------------------
(***************************************************************************)
(* The session of one device (session, status and revoke of                *)
(* services/npepService.js, the retention of npepMaintenanceService.js).   *)
(* A host opens a session per run by comparing the status epoch it knows   *)
(* and reports its status under increasing sequence numbers.  What a host  *)
(* has sent may arrive late, in any order, more than once or never, also   *)
(* after the host has crashed and another run has opened its session; so   *)
(* messages stay in a set and every call takes one of them.                *)
(*                                                                         *)
(* Each call locks school, screen and device and is one step.  A session   *)
(* id is made for one status epoch and is represented by it; the body of a *)
(* message is what tells two digests apart.  The pairing that makes the    *)
(* device, and its other fences, are NpepPairing.                          *)
(***************************************************************************)
EXTENDS Naturals, NoValue

CONSTANTS
    MaxRun,         \* bound on the starts of the host
    MaxEpoch,       \* bound on the status epoch
    MaxSequence,    \* bound on the reports of a session
    MaxClock        \* bound on time

VARIABLES
    device,         \* NpepDevice, as far as sessions go
    receipts,       \* NpepSessionReceipt
    clock,          \* time at the server
    run,            \* the run of the host that is alive
    opens,          \* requests to open a session that were sent
    reports,        \* status reports that were sent
    applied,        \* history: the newest report that was stored
    opened          \* history: the last run that opened a session

session == <<device, receipts, clock, run, opens, reports, applied, opened>>

Open == [run: 1..MaxRun, expected: 0..MaxEpoch]
Report == [run: 1..MaxRun, session: 1..MaxEpoch, sequence: 1..MaxSequence]
Receipt == [open: Open, session: 1..MaxEpoch]
NoReport == [run |-> 0, session |-> 0, sequence |-> 0]

\* The columns of a device, the receipts, the messages and the history.
SessionTypeOK ==
    /\ device \in [state: {"ACTIVE", "REVOKED"}, lapsed: BOOLEAN, session: 0..MaxEpoch,
                   epoch: 0..MaxEpoch, lastSequence: 0..MaxSequence,
                   lastReport: Report \cup {Null}, lastSeenAt: (0..MaxClock) \cup {Null}]
    /\ receipts \subseteq Receipt
    /\ clock \in 0..MaxClock
    /\ run \in 1..MaxRun
    /\ opens \subseteq Open
    /\ reports \subseteq Report
    /\ applied \in Report \cup {NoReport}
    /\ opened \in 0..MaxRun

SessionInit ==
    /\ device = [state |-> "ACTIVE", lapsed |-> FALSE, session |-> 0, epoch |-> 0,
                 lastSequence |-> 0, lastReport |-> Null, lastSeenAt |-> Null]
    /\ receipts = {}
    /\ clock = 0
    /\ run = 1
    /\ opens = {}
    /\ reports = {}
    /\ applied = NoReport
    /\ opened = 0

\* deviceValid: only an active device whose credential has not expired.
DeviceValid == device.state = "ACTIVE" /\ ~device.lapsed

-----------------------------------------------------------------------------
(* The host.                                                               *)

\* The host crashes and starts again.
RestartHost ==
    /\ run < MaxRun
    /\ run' = run + 1
    /\ UNCHANGED <<device, receipts, clock, opens, reports, applied, opened>>

\* It asks for the status epoch (me) and for a session that follows it.
SendOpen ==
    /\ DeviceValid
    /\ opens' = opens \cup {[run |-> run, expected |-> device.epoch]}
    /\ UNCHANGED <<device, receipts, clock, run, reports, applied, opened>>

\* It reports under the session its own run was given, with the next number.
SendReport ==
    \E r \in receipts, n \in 1..MaxSequence :
        /\ r.open.run = run
        /\ \A old \in reports : old.session = r.session => old.sequence < n
        /\ reports' = reports \cup {[run |-> run, session |-> r.session, sequence |-> n]}
        /\ UNCHANGED <<device, receipts, clock, run, opens, applied, opened>>

-----------------------------------------------------------------------------
(* The server.                                                             *)

\* The receipt of an earlier open with this requestId or this runId: a run uses
\* one request per epoch it has seen.
Earlier(m) == {r \in receipts : r.open.run = m.run}

\* Mutant: a host may know an older epoch.
KnowsOlder(m) == device.epoch >= m.expected

\* The epoch is the one the host knows.
Knows(m) == device.epoch = m.expected

\* session: a repeat is answered with what it did while that is current and
\* changes nothing; a new run swaps the epoch it knows for the next one.
OpenSession(m) ==
    /\ DeviceValid
    /\ Earlier(m) = {}
    /\ Knows(m)
    /\ device.epoch < MaxEpoch
    /\ LET next == device.epoch + 1 IN
        /\ device' = [device EXCEPT !.session = next, !.epoch = next, !.lastSequence = 0,
                                    !.lastReport = Null, !.lastSeenAt = Null]
        /\ receipts' = receipts \cup {[open |-> m, session |-> next]}
    /\ opened' = m.run
    /\ UNCHANGED <<clock, run, opens, reports, applied>>

\* What a report must satisfy: the current session and a new sequence number,
\* or the very report that was stored last.
Acceptable(m) ==
    /\ DeviceValid
    /\ m.session = device.session
    /\ \/ m.sequence > device.lastSequence
       \/ m.sequence = device.lastSequence /\ m = device.lastReport

\* Mutant: a repeat counts as a sign of life.
SeenNow(m) == clock

\* The time under which a report is stored: a repeat keeps the old one.
SeenAt(m) == IF m = device.lastReport THEN device.lastSeenAt ELSE clock

\* status.
StoreReport(m) ==
    /\ Acceptable(m)
    /\ device' = [device EXCEPT !.lastSequence = m.sequence, !.lastReport = m,
                                !.lastSeenAt = SeenAt(m)]
    /\ applied' = IF device' = device THEN applied ELSE m
    /\ UNCHANGED <<receipts, clock, run, opens, reports, opened>>

\* revoke, by an administrator or by the device itself.
Revoke ==
    /\ device.state # "REVOKED"
    /\ device' = [device EXCEPT !.state = "REVOKED", !.session = 0]
    /\ UNCHANGED <<receipts, clock, run, opens, reports, applied, opened>>

\* The credential expires.
Lapse ==
    /\ ~device.lapsed
    /\ device' = [device EXCEPT !.lapsed = TRUE]
    /\ UNCHANGED <<receipts, clock, run, opens, reports, applied, opened>>

\* cleanupNpep: a receipt expires with the credential of its device.
CleanReceipts ==
    /\ device.lapsed /\ receipts # {}
    /\ receipts' = {}
    /\ UNCHANGED <<device, clock, run, opens, reports, applied, opened>>

Tick ==
    /\ clock < MaxClock
    /\ clock' = clock + 1
    /\ UNCHANGED <<device, receipts, run, opens, reports, applied, opened>>

SessionNext ==
    \/ RestartHost \/ SendOpen \/ SendReport
    \/ \E m \in opens : OpenSession(m)
    \/ \E m \in reports : StoreReport(m)
    \/ Revoke \/ Lapse \/ CleanReceipts \/ Tick

SessionSpec == SessionInit /\ [][SessionNext]_session

-----------------------------------------------------------------------------
(* Properties.                                                             *)

\* One report is newer than another: a later run of the host, or a later number
\* of the same run.
Newer(m, old) ==
    \/ m.run > old.run
    \/ m.run = old.run /\ m.session = old.session /\ m.sequence > old.sequence

\* The session never goes back to an earlier run of the host, however late its
\* request arrives or is repeated.
NewestRunStands ==
    [][opened' >= opened /\ (device'.session # device.session /\ device'.session # 0
                                => opened' > opened)]_session

\* A device only looks alive because of something new: whenever the time it was
\* last seen advances, the report is newer than every report stored before, and a
\* device that was shut out is never seen again.
SeenMeansNewer ==
    [][device'.lastSeenAt # device.lastSeenAt /\ device'.lastSeenAt # Null
         => Newer(device'.lastReport, applied) /\ DeviceValid]_session
=============================================================================
