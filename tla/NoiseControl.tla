---------------------------- MODULE NoiseControl ----------------------------
(***************************************************************************)
(* Starting and stopping the noise meter of a classroom machine from its   *)
(* screen (services/npepNoiseService.js), on top of the device's session.  *)
(* The screen asks for a command, the host fetches it in its next exchange *)
(* and reports in a later exchange what became of it.  Exchanges and their *)
(* replies are lost, repeated and late; the host crashes; a command runs   *)
(* out after thirty seconds; screens act on a status that has changed.     *)
(*                                                                         *)
(* One aggregate per device is read and saved under the lock of the        *)
(* device, so a call is one step.  The status a host reports is its run    *)
(* and its revision, which changes whenever the meter starts or stops: it  *)
(* is running when the revision is odd.  Summaries, the reports of ended   *)
(* measurements and schedules are left out.                                *)
(***************************************************************************)
EXTENDS NpepSession

CONSTANTS
    Commands,       \* requestIds of commands, and the commands made for them
    MaxExchange     \* bound on the exchanges of a run

VARIABLES
    noise,          \* NpepNoiseDevice without its commands
    commands,       \* its commands by id
    wishes,         \* commands that screens have asked for
    exchanges,      \* exchanges the host has sent
    replies,        \* replies to the host that is alive, and not yet received
    meter           \* the host: its revision, exchanges, commands and results

control == <<noise, commands, wishes, exchanges, replies, meter>>
noiseVars == <<session, control>>

\* What a host did with a command, and what the server notes without the host.
Results == {"COMPLETED", "REJECTED"}
Unknowns == {"COMMAND_EXPIRED", "SESSION_CHANGED"}

\* The session a message belongs to, with the run that opened it.
Context == [run: 1..MaxRun, session: 1..MaxEpoch]
Status == [run: 1..MaxRun, revision: 0..MaxExchange]
Wish == [command: Commands, seen: Status]
Exchange == [context: Context, sequence: 1..MaxExchange, status: Status,
             results: SUBSET (Commands \X Results)]
Command == [seen: Status, context: Context, overdue: BOOLEAN,
            receipt: Results \cup Unknowns \cup {Null}]
Reply == [run: 1..MaxRun, command: Commands]

\* The aggregate, the screen's requests, the host and the messages between them.
NoiseTypeOK ==
    /\ noise \in [last: Exchange \cup {Null}, fresh: BOOLEAN]
    /\ commands \in [Commands -> Command \cup {Null}]
    /\ wishes \subseteq Wish
    /\ exchanges \subseteq Exchange
    /\ replies \subseteq Reply
    /\ meter \in [revision: 0..MaxExchange, sequence: 0..MaxExchange,
                  done: [Commands -> Results \cup {Null}],
                  executed: SUBSET (Commands \X Status)]

NoiseInit ==
    /\ SessionInit
    /\ noise = [last |-> Null, fresh |-> FALSE]
    /\ commands = [c \in Commands |-> Null]
    /\ wishes = {}
    /\ exchanges = {}
    /\ replies = {}
    /\ meter = [revision |-> 0, sequence |-> 0, done |-> [c \in Commands |-> Null],
                executed |-> {}]

-----------------------------------------------------------------------------
(* The host and the screen.                                                *)

\* The host sends its status, with all the results it has or with none: a result
\* is sent until it is accepted, or lost in a crash.
SendExchange ==
    \E r \in receipts, kept \in {{}, {c \in Commands : meter.done[c] # Null}} :
        /\ r.open.run = run
        /\ meter.sequence < MaxExchange
        /\ meter' = [meter EXCEPT !.sequence = @ + 1]
        /\ exchanges' = exchanges \cup
             {[context |-> [run |-> run, session |-> r.session], sequence |-> meter'.sequence,
               status |-> [run |-> run, revision |-> meter.revision],
               results |-> {<<c, meter.done[c]>> : c \in kept}]}
        /\ UNCHANGED <<session, noise, commands, wishes, replies>>

\* It carries out the command of a reply once and remembers the result.
Execute ==
    \E p \in replies, result \in Results :
        /\ p.run = run
        /\ meter.done[p.command] = Null
        /\ meter.revision < MaxExchange
        /\ meter' = [meter EXCEPT
             !.done[p.command] = result,
             !.revision = IF result = "COMPLETED" THEN @ + 1 ELSE @,
             !.executed = @ \cup {<<p.command, [run |-> run, revision |-> meter.revision]>>}]
        /\ replies' = replies \ {p}
        /\ UNCHANGED <<session, noise, commands, wishes, exchanges>>

\* A crash of the host ends its connections; the meter is idle again, and what
\* it remembers of commands may survive.
CrashHost ==
    \E kept \in {meter.done, [c \in Commands |-> Null]} :
        /\ RestartHost
        /\ meter' = [meter EXCEPT !.revision = 0, !.sequence = 0, !.done = kept]
        /\ replies' = {}
        /\ UNCHANGED <<noise, commands, wishes, exchanges>>

\* A screen asks for a command for the status it shows.
Ask(c) ==
    /\ noise.last # Null
    /\ \A w \in wishes : w.command # c
    /\ wishes' = wishes \cup {[command |-> c, seen |-> noise.last.status]}
    /\ UNCHANGED <<session, noise, commands, exchanges, replies, meter>>

-----------------------------------------------------------------------------
(* The server.                                                             *)

\* Commands whose result is not known.
Pending(list) == {c \in Commands : list[c] # Null /\ list[c].receipt = Null}

\* clean: a command nobody reported on in time has an unknown outcome.
Cleaned(list) ==
    [c \in Commands |-> IF c \in Pending(list) /\ list[c].overdue
                        THEN [list[c] EXCEPT !.receipt = "COMMAND_EXPIRED"] ELSE list[c]]

\* online: a recent status under the session that is current.
Online == noise.fresh /\ noise.last # Null /\ noise.last.context.session = device.session

\* create: only for what the screen has seen, and one command at a time.
Create(w) ==
    LET list == Cleaned(commands) IN
    /\ DeviceValid
    /\ commands[w.command] = Null
    /\ Online
    /\ w.seen = noise.last.status
    /\ Pending(list) = {}
    /\ commands' = [list EXCEPT ![w.command] =
         [seen |-> w.seen, context |-> noise.last.context, overdue |-> FALSE, receipt |-> Null]]
    /\ UNCHANGED <<session, noise, wishes, exchanges, replies, meter>>

\* Mutant: the last receipt wins.
AcceptanceOfLast(list, m) == {r[1] : r \in m.results} \subseteq Commands

\* The receipts of an exchange: a late result replaces the note that the command
\* ran out, and contradicts nothing else.
Acceptance(list, m) ==
    \A r \in m.results : list[r[1]] # Null /\ list[r[1]].receipt \notin {Null, "COMMAND_EXPIRED"}
                            => list[r[1]].receipt = r[2]
Received(list, m) ==
    [c \in Commands |-> IF list[c] # Null /\ \E r \in m.results : r[1] = c
                        THEN [list[c] EXCEPT !.receipt = (CHOOSE r \in m.results : r[1] = c)[2]]
                        ELSE list[c]]

\* Mutant: it waits for the host that comes.
AdoptedByNext(list, m) == list

\* What is pending for another context is given up: it is not for this host.
Adopted(list, m) ==
    [c \in Commands |-> IF c \in Pending(list) /\ list[c].context # m.context
                        THEN [list[c] EXCEPT !.receipt = "SESSION_CHANGED"] ELSE list[c]]

\* An exchange belongs to the session that is current and to its run.
Current(m) == /\ DeviceValid
              /\ m.context.session = device.session
              /\ \E r \in receipts : r.session = m.context.session /\ r.open.run = m.context.run

\* It is new unless it is no newer than the last one of its context.
Fresh(m) == (noise.last # Null /\ noise.last.context = m.context)
                => m.sequence > noise.last.sequence

\* The reply carries the pending command, if the host that asked is still there.
Sent(list, m) ==
    {[run |-> m.context.run, command |-> c] : c \in {p \in Pending(list) : m.context.run = run}}

\* exchange.  A repeat is answered without a command and changes nothing but
\* what has run out; that too is saved by a later call only.
Exchanged(m) ==
    LET old == Cleaned(commands)
        list == Adopted(Received(old, m), m) IN
    /\ Current(m)
    /\ Fresh(m)
    /\ Acceptance(old, m)
    /\ commands' = list
    /\ noise' = [last |-> m, fresh |-> TRUE]
    /\ replies' = replies \cup Sent(list, m)
    /\ UNCHANGED <<session, wishes, exchanges, meter>>

\* view, by a screen or an administrator.
View ==
    /\ commands' = Cleaned(commands)
    /\ UNCHANGED <<session, noise, wishes, exchanges, replies, meter>>

\* Thirty seconds pass for a command.
RunOut(c) ==
    /\ c \in Pending(commands) /\ ~commands[c].overdue
    /\ commands' = [commands EXCEPT ![c].overdue = TRUE]
    /\ UNCHANGED <<session, noise, wishes, exchanges, replies, meter>>

\* Fifteen seconds pass without an exchange.
Age ==
    /\ noise.fresh
    /\ noise' = [noise EXCEPT !.fresh = FALSE]
    /\ UNCHANGED <<session, commands, wishes, exchanges, replies, meter>>

\* What moves the session alone; a crash of the host is CrashHost.
SessionStep ==
    /\ \/ SendOpen \/ SendReport \/ Revoke \/ Lapse \/ CleanReceipts \/ Tick
       \/ \E m \in opens : OpenSession(m)
       \/ \E m \in reports : StoreReport(m)
    /\ UNCHANGED control

NoiseNext ==
    \/ SessionStep
    \/ SendExchange \/ Execute \/ CrashHost \/ View \/ Age
    \/ \E c \in Commands : Ask(c) \/ RunOut(c)
    \/ \E w \in wishes : Create(w)
    \/ \E m \in exchanges : Exchanged(m)

NoiseSpec == NoiseInit /\ [][NoiseNext]_noiseVars

-----------------------------------------------------------------------------
(* Properties.                                                             *)

\* A command is carried out only by the run of the host whose status the screen
\* had seen: a host that has restarted since never gets it.
CommandForItsHost ==
    \A e \in meter.executed : commands[e[1]].seen.run = e[2].run

\* What a host has reported of a command stays, and what was given up for another
\* session stays given up; only "ran out" may still become a result.
ActualResultStays ==
    [][\A c \in Commands : commands[c] # Null /\ commands[c].receipt \in Results \cup {"SESSION_CHANGED"}
         => commands'[c].receipt = commands[c].receipt]_noiseVars
=============================================================================
