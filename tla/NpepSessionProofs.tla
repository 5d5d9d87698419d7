-------------------------- MODULE NpepSessionProofs --------------------------
(***************************************************************************)
(* Proofs about NpepSession: late and repeated messages neither bring back *)
(* an earlier run of a host nor make a device look alive, for every number *)
(* of runs, epochs and reports.  And about NoiseControl on top of it: a    *)
(* command is carried out by the host it was meant for, and a result       *)
(* stays, for every number of commands and exchanges.                      *)
(***************************************************************************)
EXTENDS NoiseControl, TLAPS

\* Bounds are numbers, and Null is neither a report nor a time.
Bounds == /\ MaxRun \in Nat \ {0} /\ MaxEpoch \in Nat
          /\ MaxSequence \in Nat /\ MaxClock \in Nat
          /\ Null \notin Report \cup (0..MaxClock)

\* The columns of a device.
Device == [state: {"ACTIVE", "REVOKED"}, lapsed: BOOLEAN, session: 0..MaxEpoch,
           epoch: 0..MaxEpoch, lastSequence: 0..MaxSequence,
           lastReport: Report \cup {Null}, lastSeenAt: (0..MaxClock) \cup {Null}]

\* Nobody runs, or knows an epoch, before its time; and who comes from an
\* earlier run than the one that opened last knows an older epoch.
OpensAreOfTheirTime ==
    /\ opened <= run
    /\ \A m \in opens : /\ m.run <= run
                        /\ m.expected <= device.epoch
                        /\ m.run < opened => m.expected < device.epoch

\* While the credential lasts, the receipts say which run has which session.
ReceiptsTell ==
    ~device.lapsed =>
        /\ opened = 0 \/ \E r \in receipts : r.open.run = opened
        /\ \A r \in receipts : r.session <= device.epoch /\ r.open.run <= opened
        /\ \A r, q \in receipts : r.session < q.session => r.open.run < q.open.run
        /\ \A r, q \in receipts : r.session = q.session => r = q
        /\ \A m \in reports : \E r \in receipts : r.session = m.session /\ r.open.run = m.run

\* The session is that of the newest epoch, and the newest report that was stored
\* under it has the last number.
NewestIsLast ==
    /\ device.session # 0 => device.session = device.epoch
    /\ applied # NoReport => applied \in reports
    /\ applied # NoReport /\ applied.session = device.session
          => applied.sequence <= device.lastSequence

\* The inductive invariant.
IInv == SessionTypeOK /\ OpensAreOfTheirTime /\ ReceiptsTell /\ NewestIsLast

-----------------------------------------------------------------------------

\* The types, the receipts and the rest hold in the beginning.
LEMMA InitHolds == ASSUME Bounds, SessionInit PROVE IInv
  BY DEF Bounds, SessionInit, IInv, SessionTypeOK, OpensAreOfTheirTime, ReceiptsTell,
         NewestIsLast, NoReport

\* A run that opens a session is later than every run that did.
LEMMA OpenerIsNewer ==
    ASSUME Bounds, IInv, NEW m \in opens, OpenSession(m)
    PROVE  m.run > opened /\ opened \in Nat /\ m.run \in Nat
  <1>1. /\ m.run \in 1..MaxRun /\ m.expected \in 0..MaxEpoch /\ m.expected = device.epoch
        /\ opened \in 0..MaxRun /\ ~device.lapsed
    BY DEF IInv, SessionTypeOK, Open, OpenSession, Knows, DeviceValid
  <1>2. ~(m.run < opened)
    BY <1>1 DEF IInv, OpensAreOfTheirTime
  <1>3. m.run # opened
    BY <1>1 DEF IInv, ReceiptsTell, OpenSession, Earlier
  <1> QED
    BY <1>1, <1>2, <1>3 DEF Bounds

\* Opening a session keeps the invariant.
LEMMA OpenHolds ==
    ASSUME Bounds, IInv, NEW m \in opens, OpenSession(m) PROVE IInv'
  <1> DEFINE next == device.epoch + 1
             new == [open |-> m, session |-> next]
  <1>0. m.run > opened /\ opened \in Nat /\ m.run \in Nat
    BY OpenerIsNewer
  <1>1. /\ m \in Open /\ device.epoch \in 0..MaxEpoch /\ next \in 1..MaxEpoch
        /\ new \in Receipt /\ ~device.lapsed /\ new.open.run = m.run /\ new.session = next
    BY DEF IInv, SessionTypeOK, OpenSession, Bounds, DeviceValid, Receipt
  <1>2. /\ device' = [device EXCEPT !.session = next, !.epoch = next, !.lastSequence = 0,
                                    !.lastReport = Null, !.lastSeenAt = Null]
        /\ receipts' = receipts \cup {new} /\ opened' = m.run
        /\ UNCHANGED <<clock, run, opens, reports, applied>>
    BY DEF OpenSession
  <1>3. /\ device'.session = next /\ device'.epoch = next /\ device'.lapsed = FALSE
        /\ device'.lastSequence = 0
    BY <1>1, <1>2 DEF IInv, SessionTypeOK
  <1>4. SessionTypeOK'
    <2>1. device' \in Device
      <3>1. device \in Device /\ next \in 0..MaxEpoch /\ 0 \in 0..MaxSequence
        BY <1>1 DEF IInv, SessionTypeOK, Device, Bounds
      <3> QED
        BY <3>1, <1>2 DEF Device
    <2>2. receipts' \subseteq Receipt /\ opened' \in 0..MaxRun
      BY <1>0, <1>1, <1>2 DEF IInv, SessionTypeOK, Open
    <2> QED
      BY <2>1, <2>2, <1>2 DEF IInv, SessionTypeOK, Device
  <1>5. OpensAreOfTheirTime'
    <2>1. \A q \in opens : q.expected \in 0..MaxEpoch /\ q.run \in 1..MaxRun
      BY DEF IInv, SessionTypeOK, Open
    <2> QED
      BY <1>1, <1>2, <1>3, <2>1 DEF IInv, OpensAreOfTheirTime
  <1>6. ReceiptsTell'
    <2>1. \A r \in receipts : /\ r.session \in Nat /\ r.open.run \in Nat
                              /\ r.session < next /\ r.open.run < m.run
      <3>1. \A r \in receipts : r.session \in 1..MaxEpoch /\ r.open.run \in 1..MaxRun
        BY DEF IInv, SessionTypeOK, Receipt, Open
      <3> QED
        BY <3>1, <1>0, <1>1 DEF IInv, ReceiptsTell
    <2>2. \E r \in receipts' : r.open.run = opened'
      BY <1>1, <1>2
    <2>3. \A r \in receipts' : r.session <= next /\ r.open.run <= opened'
      BY <2>1, <1>0, <1>1, <1>2
    <2>4. \A r, q \in receipts' : r.session < q.session => r.open.run < q.open.run
      BY <2>1, <1>0, <1>1, <1>2 DEF IInv, ReceiptsTell
    <2>5. \A r, q \in receipts' : r.session = q.session => r = q
      BY <2>1, <1>1, <1>2 DEF IInv, ReceiptsTell
    <2>6. \A q \in reports' : \E r \in receipts' : r.session = q.session /\ r.open.run = q.run
      BY <1>1, <1>2 DEF IInv, ReceiptsTell
    <2> QED
      BY <1>3, <2>2, <2>3, <2>4, <2>5, <2>6 DEF ReceiptsTell
  <1>7. NewestIsLast'
    <2>1. applied # NoReport => applied.session \in Nat /\ applied.session <= device.epoch
      <3> SUFFICES ASSUME applied # NoReport
                   PROVE  applied.session \in Nat /\ applied.session <= device.epoch
        OBVIOUS
      <3>1. applied \in reports /\ applied \in Report
        BY DEF IInv, NewestIsLast, SessionTypeOK
      <3>2. PICK r \in receipts : r.session = applied.session
        BY <3>1, <1>1 DEF IInv, ReceiptsTell
      <3> QED
        BY <3>1, <3>2, <1>1 DEF IInv, ReceiptsTell, Report
    <2> QED
      BY <2>1, <1>1, <1>2, <1>3 DEF IInv, NewestIsLast, NoReport
  <1> QED
    BY <1>4, <1>5, <1>6, <1>7 DEF IInv

\* What a stored report changes.
LEMMA Stored ==
    ASSUME Bounds, IInv, NEW m \in reports, StoreReport(m)
    PROVE  /\ m \in Report /\ ~device.lapsed
           /\ device' = [device EXCEPT !.lastSequence = m.sequence, !.lastReport = m,
                                       !.lastSeenAt = device'.lastSeenAt]
           /\ device'.lastSeenAt = SeenAt(m)
           /\ device'.lastSeenAt \in (0..MaxClock) \cup {Null}
           /\ device'.lastReport = m /\ device'.lastSequence = m.sequence
           /\ m.session = device.session /\ device.session = device.epoch
  BY DEF IInv, SessionTypeOK, StoreReport, Acceptable, DeviceValid, NewestIsLast, SeenAt,
         Report

LEMMA StoreHolds ==
    ASSUME Bounds, IInv, NEW m \in reports, StoreReport(m) PROVE IInv'
  <1>1. /\ m \in Report /\ ~device.lapsed
        /\ device' = [device EXCEPT !.lastSequence = m.sequence, !.lastReport = m,
                                    !.lastSeenAt = device'.lastSeenAt]
        /\ device'.lastSeenAt \in (0..MaxClock) \cup {Null}
        /\ device'.lastSequence = m.sequence
        /\ m.session = device.session
    BY Stored
  <1>2. /\ device'.session = device.session /\ device'.epoch = device.epoch
        /\ device'.lapsed = device.lapsed
    BY <1>1 DEF IInv, SessionTypeOK
  <1>3. UNCHANGED <<receipts, clock, run, opens, reports, opened>> /\ applied' \in {applied, m}
    BY DEF StoreReport
  <1>4. SessionTypeOK'
    <2>1. device' \in Device
      <3>1. device \in Device
        BY DEF IInv, SessionTypeOK, Device
      <3>2. m.sequence \in 0..MaxSequence
        BY <1>1 DEF Report
      <3> QED
        BY <3>1, <3>2, <1>1 DEF Device
    <2> QED
      BY <2>1, <1>1, <1>3 DEF IInv, SessionTypeOK, Device
  <1>5. OpensAreOfTheirTime' /\ ReceiptsTell'
    BY <1>2, <1>3 DEF IInv, OpensAreOfTheirTime, ReceiptsTell
  <1>6. NewestIsLast'
    <2>1. applied' = applied => device' = device \/ applied = m
      BY DEF StoreReport
    <2>2. CASE applied' = m
      BY <2>2, <1>1, <1>2, <1>3 DEF IInv, NewestIsLast, Report
    <2>3. CASE applied' = applied /\ device' = device
      BY <2>3, <1>3 DEF IInv, NewestIsLast
    <2> QED
      BY <2>1, <2>2, <2>3, <1>3
  <1> QED
    BY <1>4, <1>5, <1>6 DEF IInv

\* What hosts send keeps the invariant.
LEMMA SendHolds ==
    ASSUME Bounds, IInv, RestartHost \/ SendOpen \/ SendReport PROVE IInv'
  <1>1. CASE RestartHost
    BY <1>1 DEF Bounds, IInv, RestartHost, SessionTypeOK, OpensAreOfTheirTime, Open,
                ReceiptsTell, NewestIsLast
  <1>2. CASE SendOpen
    <2> DEFINE m == [run |-> run, expected |-> device.epoch]
    <2>1. m \in Open /\ m.run = run /\ m.expected = device.epoch /\ opens' = opens \cup {m}
      BY <1>2 DEF IInv, SessionTypeOK, Open, SendOpen
    <2>2. UNCHANGED <<device, receipts, clock, run, reports, applied, opened>>
      BY <1>2 DEF SendOpen
    <2>3. SessionTypeOK' /\ ReceiptsTell' /\ NewestIsLast'
      BY <2>1, <2>2 DEF IInv, SessionTypeOK, ReceiptsTell, NewestIsLast
    <2>4. run \in Nat /\ opened \in Nat /\ device.epoch \in Nat /\ opened <= run
      BY DEF IInv, SessionTypeOK, OpensAreOfTheirTime, Bounds
    <2>5. OpensAreOfTheirTime'
      BY <2>1, <2>2, <2>4 DEF IInv, OpensAreOfTheirTime
    <2> QED
      BY <2>3, <2>5 DEF IInv
  <1>3. CASE SendReport
    <2>1. PICK r \in receipts, n \in 1..MaxSequence :
             /\ r.open.run = run
             /\ reports' = reports \cup {[run |-> run, session |-> r.session, sequence |-> n]}
             /\ UNCHANGED <<device, receipts, clock, run, opens, applied, opened>>
      BY <1>3 DEF SendReport
    <2> DEFINE m == [run |-> run, session |-> r.session, sequence |-> n]
    <2>2. m \in Report /\ m.run = run /\ m.session = r.session
      BY DEF IInv, SessionTypeOK, Receipt, Report
    <2>3. SessionTypeOK' /\ OpensAreOfTheirTime' /\ NewestIsLast'
      BY <2>1, <2>2 DEF IInv, SessionTypeOK, OpensAreOfTheirTime, NewestIsLast
    <2>4. ReceiptsTell'
      BY <2>1, <2>2 DEF IInv, ReceiptsTell
    <2> QED
      BY <2>3, <2>4 DEF IInv
  <1> QED
    BY <1>1, <1>2, <1>3

\* So do revocation, expiry, retention and time.
LEMMA RestHolds ==
    ASSUME Bounds, IInv, Revoke \/ Lapse \/ CleanReceipts \/ Tick PROVE IInv'
  <1>1. CASE Revoke
    <2>1. /\ device'.session = 0 /\ device'.epoch = device.epoch /\ device'.lapsed = device.lapsed
          /\ UNCHANGED <<receipts, clock, run, opens, reports, applied, opened>>
      BY <1>1 DEF Revoke, IInv, SessionTypeOK
    <2>2. SessionTypeOK'
      <3>1. device \in Device /\ 0 \in 0..MaxEpoch
        BY DEF IInv, SessionTypeOK, Device, Bounds
      <3>2. device' \in Device
        BY <1>1, <3>1 DEF Revoke, Device
      <3> QED
        BY <2>1, <3>2 DEF IInv, SessionTypeOK, Device
    <2>3. applied # NoReport => applied.session # 0
      BY DEF IInv, SessionTypeOK, Report
    <2> QED
      BY <2>1, <2>2, <2>3 DEF IInv, OpensAreOfTheirTime, ReceiptsTell, NewestIsLast
  <1>2. CASE Lapse
    <2>1. /\ device'.session = device.session /\ device'.epoch = device.epoch /\ device'.lapsed
          /\ device'.lastSequence = device.lastSequence
          /\ UNCHANGED <<receipts, clock, run, opens, reports, applied, opened>>
      BY <1>2 DEF Lapse, IInv, SessionTypeOK
    <2>2. SessionTypeOK'
      BY <1>2 DEF Lapse, IInv, SessionTypeOK
    <2> QED
      BY <2>1, <2>2 DEF IInv, OpensAreOfTheirTime, ReceiptsTell, NewestIsLast
  <1>3. CASE CleanReceipts
    BY <1>3 DEF CleanReceipts, IInv, SessionTypeOK, OpensAreOfTheirTime, ReceiptsTell, NewestIsLast
  <1>4. CASE Tick
    BY <1>4 DEF Tick, Bounds, IInv, SessionTypeOK, OpensAreOfTheirTime, ReceiptsTell, NewestIsLast
  <1> QED
    BY <1>1, <1>2, <1>3, <1>4

LEMMA StepHolds == ASSUME Bounds, IInv, [SessionNext]_session PROVE IInv'
  <1>1. CASE UNCHANGED session
    BY <1>1 DEF session, IInv, SessionTypeOK, OpensAreOfTheirTime, ReceiptsTell, NewestIsLast
  <1>2. CASE SessionNext
    BY <1>2, OpenHolds, StoreHolds, SendHolds, RestHolds DEF SessionNext
  <1> QED
    BY <1>1, <1>2

-----------------------------------------------------------------------------

\* A stored report that is not a repeat is newer than all before.
LEMMA StoredIsNewer ==
    ASSUME Bounds, IInv, NEW m \in reports, StoreReport(m), m # device.lastReport
    PROVE  Newer(m, applied)
  <1>1. m \in Report /\ ~device.lapsed /\ m.session = device.session /\ device.session = device.epoch
    BY Stored
  <1>2. m.sequence > device.lastSequence
    BY DEF StoreReport, Acceptable
  <1>3. CASE applied = NoReport
    BY <1>1, <1>3 DEF Newer, NoReport, Report
  <1>4. CASE applied # NoReport
    <2>1. applied \in reports /\ applied \in Report
      BY <1>4 DEF IInv, NewestIsLast, SessionTypeOK
    <2>2. PICK r \in receipts : r.session = m.session /\ r.open.run = m.run
      BY <1>1 DEF IInv, ReceiptsTell
    <2>3. PICK q \in receipts : q.session = applied.session /\ q.open.run = applied.run
      BY <1>1, <2>1 DEF IInv, ReceiptsTell
    <2>4. q.session <= device.epoch /\ q.session \in Nat /\ device.epoch \in Nat
      BY <1>1 DEF IInv, ReceiptsTell, SessionTypeOK, Receipt
    <2>5. CASE q.session < r.session
      BY <1>1, <2>1, <2>2, <2>3, <2>5 DEF IInv, ReceiptsTell, Newer, Report
    <2>6. CASE q.session = r.session
      <3>1. q = r
        BY <1>1, <2>6 DEF IInv, ReceiptsTell
      <3>2. applied.sequence <= device.lastSequence
        BY <1>1, <1>4, <2>2, <2>3, <2>6 DEF IInv, NewestIsLast
      <3>3. m.sequence \in Nat /\ applied.sequence \in Nat /\ device.lastSequence \in Nat
        BY <1>1, <2>1 DEF Report, IInv, SessionTypeOK
      <3> QED
        BY <1>2, <2>2, <2>3, <3>1, <3>2, <3>3 DEF Newer
    <2> QED
      BY <1>1, <2>2, <2>4, <2>5, <2>6
  <1> QED
    BY <1>3, <1>4

\* No step brings an earlier run back.
LEMMA RunsStand ==
    ASSUME Bounds, IInv, SessionNext
    PROVE  opened' >= opened /\ (device'.session # device.session /\ device'.session # 0
                                    => opened' > opened)
  <1>0. opened \in Nat
    BY DEF IInv, SessionTypeOK
  <1>1. ASSUME NEW m \in opens, OpenSession(m) PROVE opened' > opened /\ opened' \in Nat
    BY <1>1, OpenerIsNewer DEF OpenSession
  <1>2. ASSUME NEW m \in reports, StoreReport(m)
        PROVE  opened' = opened /\ device'.session = device.session
    <2>1. device \in Device
      BY DEF IInv, SessionTypeOK, Device
    <2> QED
      BY <1>2, <2>1 DEF StoreReport, Device
  <1>3. CASE RestartHost \/ SendOpen \/ SendReport \/ CleanReceipts \/ Tick
    BY <1>0, <1>3 DEF RestartHost, SendOpen, SendReport, CleanReceipts, Tick
  <1>4. CASE Revoke \/ Lapse
    <2>1. device \in Device
      BY DEF IInv, SessionTypeOK, Device
    <2>2. opened' = opened
      BY <1>4 DEF Revoke, Lapse
    <2>3. device'.session \in {0, device.session}
      BY <1>4, <2>1 DEF Revoke, Lapse, Device
    <2> QED
      BY <1>0, <2>2, <2>3
  <1> QED
    BY <1>0, <1>1, <1>2, <1>3, <1>4 DEF SessionNext

\* A device is only seen when a newer report is stored.
LEMMA SeenIsNewer ==
    ASSUME Bounds, IInv, SessionNext,
           device'.lastSeenAt # device.lastSeenAt, device'.lastSeenAt # Null
    PROVE  Newer(device'.lastReport, applied) /\ DeviceValid
  <1>1. ASSUME NEW m \in opens, OpenSession(m) PROVE FALSE
    BY <1>1 DEF OpenSession, IInv, SessionTypeOK
  <1>2. ASSUME NEW m \in reports, StoreReport(m)
        PROVE  Newer(device'.lastReport, applied) /\ DeviceValid
    <2>1. device'.lastSeenAt = SeenAt(m) /\ device'.lastReport = m
      BY <1>2, Stored
    <2>2. m # device.lastReport
      BY <2>1 DEF SeenAt
    <2> QED
      BY <1>2, <2>1, <2>2, StoredIsNewer DEF StoreReport, Acceptable
  <1>3. ~(RestartHost \/ SendOpen \/ SendReport \/ CleanReceipts \/ Tick)
    BY DEF RestartHost, SendOpen, SendReport, CleanReceipts, Tick
  <1>4. ~(Revoke \/ Lapse)
    BY DEF Revoke, Lapse, IInv, SessionTypeOK
  <1> QED
    BY <1>1, <1>2, <1>3, <1>4 DEF SessionNext

LEMMA Invariance == ASSUME Bounds PROVE SessionSpec => []IInv
  BY InitHolds, StepHolds, PTL DEF SessionSpec

\* The columns, messages and history have their types.
THEOREM SessionTypeCorrect == ASSUME Bounds PROVE SessionSpec => []SessionTypeOK
  <1>1. IInv => SessionTypeOK
    BY DEF IInv
  <1> QED
    BY Invariance, <1>1, PTL

\* The session never goes back to an earlier run of the host, however late, often or
\* seldom requests arrive: compare-and-swap on the epoch is enough.
THEOREM NewestRunsStand == ASSUME Bounds PROVE SessionSpec => NewestRunStands
  <1>1. ASSUME IInv, [SessionNext]_session
        PROVE  [opened' >= opened /\ (device'.session # device.session /\ device'.session # 0
                                        => opened' > opened)]_session
    BY <1>1, RunsStand
  <1> QED
    BY Invariance, <1>1, PTL DEF SessionSpec, NewestRunStands

\* The time a device was last seen advances only for a report that is newer than
\* every report before, and never for a device that was shut out.
THEOREM SeenIsAlwaysNewer == ASSUME Bounds PROVE SessionSpec => SeenMeansNewer
  <1>1. ASSUME IInv, [SessionNext]_session
        PROVE  [device'.lastSeenAt # device.lastSeenAt /\ device'.lastSeenAt # Null
                  => Newer(device'.lastReport, applied) /\ DeviceValid]_session
    BY <1>1, SeenIsNewer
  <1> QED
    BY Invariance, <1>1, PTL DEF SessionSpec, SeenMeansNewer

-----------------------------------------------------------------------------
(* Noise commands.                                                         *)

\* Bounds are numbers, and Null is no row and no result.
NoiseBounds ==
    /\ Bounds /\ MaxExchange \in Nat
    /\ Null \notin Results \cup Unknowns
    /\ \A x \in Exchange \cup Command : x # Null

\* An exchange reports the status of the run whose session it belongs to, and the
\* last one was sent.
ExchangesFit ==
    /\ \A m \in exchanges : m.status.run = m.context.run
    /\ noise.last # Null => noise.last \in exchanges

\* A command is for the run whose status was seen, and so are the replies that
\* carry it and the steps that carry it out.
CommandsFit ==
    /\ \A c \in Commands : commands[c] # Null => commands[c].seen.run = commands[c].context.run
    /\ \A p \in replies : commands[p.command] # Null /\ commands[p.command].seen.run = p.run
    /\ \A e \in meter.executed : commands[e[1]] # Null /\ commands[e[1]].seen.run = e[2].run

\* The inductive invariant.
NoiseIInv == IInv /\ NoiseTypeOK /\ ExchangesFit /\ CommandsFit

Meter == [revision: 0..MaxExchange, sequence: 0..MaxExchange,
          done: [Commands -> Results \cup {Null}], executed: SUBSET (Commands \X Status)]

\* The invariant of the noise commands, taken apart.
LEMMA NoiseParts ==
    ASSUME NoiseBounds, NoiseIInv
    PROVE  /\ noise \in [last: Exchange \cup {Null}, fresh: BOOLEAN]
           /\ commands \in [Commands -> Command \cup {Null}]
           /\ wishes \subseteq Wish /\ exchanges \subseteq Exchange /\ replies \subseteq Reply
           /\ meter \in Meter /\ run \in 1..MaxRun /\ receipts \subseteq Receipt
           /\ \A x \in Exchange \cup Command : x # Null
           /\ Bounds
  BY DEF NoiseIInv, NoiseTypeOK, Meter, NoiseBounds, IInv, SessionTypeOK

\* Initially no command was sent and nothing is stored.
LEMMA NoiseInitHolds == ASSUME NoiseBounds, NoiseInit PROVE NoiseIInv
  <1>1. IInv
    BY InitHolds DEF NoiseBounds, NoiseInit
  <1>2. meter \in Meter
    BY DEF NoiseBounds, NoiseInit, Meter
  <1>3. NoiseTypeOK
    BY <1>2 DEF NoiseInit, NoiseTypeOK, Meter
  <1>4. ExchangesFit /\ CommandsFit
    BY DEF NoiseInit, ExchangesFit, CommandsFit
  <1> QED
    BY <1>1, <1>3, <1>4 DEF NoiseIInv

\* Every step is one of the session, or leaves it alone.
LEMMA NoiseStepsSession ==
    ASSUME NoiseBounds, NoiseIInv, [NoiseNext]_noiseVars
    PROVE  [SessionNext]_session /\ IInv'
  <1>1. [SessionNext]_session
    <2>1. SessionStep => SessionNext
      BY DEF SessionStep, SessionNext
    <2>2. CrashHost => SessionNext
      BY DEF CrashHost, SessionNext
    <2>3. SendExchange \/ Execute \/ View \/ Age => UNCHANGED session
      BY Zenon DEF SendExchange, Execute, View, Age
    <2>4. ASSUME NEW c \in Commands, Ask(c) \/ RunOut(c) PROVE UNCHANGED session
      BY <2>4 DEF Ask, RunOut
    <2>5. ASSUME NEW w \in wishes, Create(w) PROVE UNCHANGED session
      BY <2>5 DEF Create
    <2>6. ASSUME NEW m \in exchanges, Exchanged(m) PROVE UNCHANGED session
      BY <2>6 DEF Exchanged
    <2>7. UNCHANGED noiseVars => UNCHANGED session
      BY DEF noiseVars
    <2> QED
      BY <2>1, <2>2, <2>3, <2>4, <2>5, <2>6, <2>7, Zenon DEF NoiseNext
  <1>2. IInv'
    BY <1>1, StepHolds DEF NoiseBounds, NoiseIInv
  <1> QED
    BY <1>1, <1>2

\* What a step may do to commands: they stay what they were for, and get receipts.
Kept(list) ==
    /\ list \in [Commands -> Command \cup {Null}]
    /\ \A c \in Commands : commands[c] # Null =>
          list[c] # Null /\ list[c].seen = commands[c].seen /\ list[c].context = commands[c].context
    /\ \A c \in Commands : list[c] # Null /\ commands[c] = Null => list[c].seen.run = list[c].context.run

LEMMA KeptHolds ==
    ASSUME NoiseBounds, NoiseIInv, IInv', Kept(commands'), NoiseTypeOK',
           exchanges \subseteq exchanges', \A m \in exchanges' \ exchanges : m.status.run = m.context.run,
           noise'.last # Null => noise'.last \in exchanges',
           \A p \in replies' \ replies :
              commands'[p.command] # Null /\ commands'[p.command].seen.run = p.run,
           \A e \in meter'.executed \ meter.executed :
              commands'[e[1]] # Null /\ commands'[e[1]].seen.run = e[2].run
    PROVE  NoiseIInv'
  <1> USE NoiseParts
  <1>1. ExchangesFit'
    BY DEF NoiseIInv, ExchangesFit
  <1>2. CommandsFit'
    <2>1. ASSUME NEW c \in Commands, commands'[c] # Null
          PROVE  commands'[c].seen.run = commands'[c].context.run
      BY <2>1 DEF NoiseIInv, CommandsFit, Kept
    <2>2. ASSUME NEW p \in replies' PROVE commands'[p.command] # Null /\ commands'[p.command].seen.run = p.run
      BY <2>2 DEF NoiseIInv, CommandsFit, Kept, Reply
    <2>3. ASSUME NEW e \in meter'.executed
          PROVE  commands'[e[1]] # Null /\ commands'[e[1]].seen.run = e[2].run
      <3>1. CASE e \in meter.executed
        <4>1. e[1] \in Commands
          BY <3>1 DEF Meter
        <4> QED
          BY <3>1, <4>1 DEF NoiseIInv, CommandsFit, Kept
      <3> QED
        BY <2>3, <3>1
    <2> QED
      BY <2>1, <2>2, <2>3 DEF CommandsFit
  <1> QED
    BY <1>1, <1>2 DEF NoiseIInv

LEMMA CleanedKept ==
    ASSUME NoiseBounds, NoiseIInv
    PROVE  /\ Kept(commands) /\ Kept(Cleaned(commands))
           /\ \A c \in Commands : commands[c] = Null <=> Cleaned(commands)[c] = Null
  <1> USE NoiseParts
  <1>1. ASSUME NEW c \in Commands
        PROVE  \/ Cleaned(commands)[c] = commands[c]
               \/ /\ commands[c] \in Command
                  /\ Cleaned(commands)[c] = [commands[c] EXCEPT !.receipt = "COMMAND_EXPIRED"]
    BY <1>1 DEF Cleaned, Pending
  <1>2. ASSUME NEW x \in Command, NEW y, y = [x EXCEPT !.receipt = "COMMAND_EXPIRED"]
        PROVE  y \in Command /\ y # Null /\ y.seen = x.seen /\ y.context = x.context
    BY <1>2 DEF Command, Unknowns
  <1>3. ASSUME NEW c \in Commands
        PROVE  /\ Cleaned(commands)[c] \in Command \cup {Null}
               /\ commands[c] = Null <=> Cleaned(commands)[c] = Null
               /\ Cleaned(commands)[c].seen = commands[c].seen
               /\ Cleaned(commands)[c].context = commands[c].context
    BY <1>1, <1>2
  <1>4. Cleaned(commands) \in [Commands -> Command \cup {Null}]
    BY <1>3 DEF Cleaned
  <1> QED
    BY <1>3, <1>4 DEF Kept

LEMMA ReceivedKept ==
    ASSUME NoiseBounds, NoiseIInv, NEW list, Kept(list), NEW m \in exchanges
    PROVE  Kept(Received(list, m)) /\ Kept(Adopted(list, m))
  <1> USE NoiseParts
  <1>1. ASSUME NEW x \in Command, NEW y, NEW v \in Results \cup Unknowns, y = [x EXCEPT !.receipt = v]
        PROVE  y \in Command /\ y # Null /\ y.seen = x.seen /\ y.context = x.context
    BY <1>1 DEF Command
  <1>2. ASSUME NEW c \in Commands
        PROVE  /\ Received(list, m)[c] \in Command \cup {Null}
               /\ list[c] = Null <=> Received(list, m)[c] = Null
               /\ Received(list, m)[c].seen = list[c].seen
               /\ Received(list, m)[c].context = list[c].context
    <2>1. CASE list[c] # Null /\ \E r \in m.results : r[1] = c
      <3> PICK r \in m.results : r = CHOOSE x \in m.results : x[1] = c
        BY <2>1
      <3>1. r[2] \in Results
        BY DEF Exchange
      <3>2. list[c] \in Command /\ Received(list, m)[c] = [list[c] EXCEPT !.receipt = r[2]]
        BY <2>1 DEF Received, Kept
      <3> QED
        BY <2>1, <3>1, <3>2, <1>1
    <2>2. CASE ~(list[c] # Null /\ \E r \in m.results : r[1] = c)
      <3>1. Received(list, m)[c] = list[c]
        BY <2>2 DEF Received
      <3> QED
        BY <3>1 DEF Kept
    <2> QED
      BY <2>1, <2>2
  <1>3. ASSUME NEW c \in Commands
        PROVE  /\ Adopted(list, m)[c] \in Command \cup {Null}
               /\ list[c] = Null <=> Adopted(list, m)[c] = Null
               /\ Adopted(list, m)[c].seen = list[c].seen
               /\ Adopted(list, m)[c].context = list[c].context
    <2>1. CASE c \in Pending(list) /\ list[c].context # m.context
      <3>1. list[c] \in Command /\ list[c] # Null
            /\ Adopted(list, m)[c] = [list[c] EXCEPT !.receipt = "SESSION_CHANGED"]
        BY <2>1 DEF Adopted, Pending, Kept
      <3> QED
        BY <3>1, <1>1 DEF Unknowns
    <2>2. CASE ~(c \in Pending(list) /\ list[c].context # m.context)
      <3>1. Adopted(list, m)[c] = list[c]
        BY <2>2 DEF Adopted
      <3> QED
        BY <3>1 DEF Kept
    <2> QED
      BY <2>1, <2>2
  <1>4. Received(list, m) \in [Commands -> Command \cup {Null}]
        /\ Adopted(list, m) \in [Commands -> Command \cup {Null}]
    BY <1>2, <1>3 DEF Received, Adopted
  <1>5. Kept(Received(list, m))
    BY <1>2, <1>4 DEF Kept
  <1>6. Kept(Adopted(list, m))
    BY <1>3, <1>4 DEF Kept
  <1> QED
    BY <1>5, <1>6

LEMMA ExchangedHolds ==
    ASSUME NoiseBounds, NoiseIInv, IInv', NEW m \in exchanges, Exchanged(m) PROVE NoiseIInv'
  <1> USE NoiseParts
  <1> PICK list : list = Received(Cleaned(commands), m)
    OBVIOUS
  <1>1. /\ commands' = Adopted(list, m) /\ noise' = [last |-> m, fresh |-> TRUE]
        /\ replies' = replies \cup Sent(commands', m) /\ UNCHANGED <<wishes, exchanges, meter>>
    BY DEF Exchanged
  <1>2. Kept(list)
    BY CleanedKept, ReceivedKept
  <1>3. Kept(commands')
    BY <1>1, <1>2, ReceivedKept
  <1>4. ASSUME NEW p \in Sent(commands', m)
        PROVE  /\ p \in Reply /\ commands'[p.command] # Null
               /\ commands'[p.command].seen.run = p.run
    <2>1. PICK c \in Pending(commands') : p = [run |-> m.context.run, command |-> c]
      BY <1>4 DEF Sent
    <2>2. c \in Commands /\ commands'[c] # Null /\ commands'[c].receipt = Null
      BY <2>1 DEF Pending
    <2>3. commands'[c].context = m.context
      <3>1. ~(c \in Pending(list) /\ list[c].context # m.context)
        <4>1. CASE c \in Pending(list) /\ list[c].context # m.context
          <5>1. list[c] \in Command /\ commands'[c] = [list[c] EXCEPT !.receipt = "SESSION_CHANGED"]
            BY <1>1, <1>2, <4>1, <2>2 DEF Adopted, Pending, Kept
          <5>2. commands'[c].receipt = "SESSION_CHANGED"
            BY <5>1 DEF Command
          <5> QED
            BY <2>2, <5>2 DEF NoiseBounds, Unknowns
        <4> QED
          BY <4>1
      <3>2. commands'[c] = list[c]
        BY <1>1, <2>2, <3>1 DEF Adopted
      <3> QED
        BY <2>2, <3>1, <3>2 DEF Pending
    <2>4. commands'[c].seen.run = commands'[c].context.run
      BY <1>3, <2>2 DEF Kept, NoiseIInv, CommandsFit
    <2>5. m.context.run \in 1..MaxRun
      BY DEF Exchange, Context
    <2> QED
      BY <2>1, <2>2, <2>3, <2>4, <2>5 DEF Reply
  <1>5. NoiseTypeOK'
    BY <1>1, <1>3, <1>4 DEF NoiseIInv, NoiseTypeOK, Kept
  <1>6. noise'.last \in exchanges'
    BY <1>1
  <1> QED
    BY <1>1, <1>3, <1>4, <1>5, <1>6, KeptHolds

LEMMA CreateHolds ==
    ASSUME NoiseBounds, NoiseIInv, IInv', NEW w \in wishes, Create(w) PROVE NoiseIInv'
  <1> USE NoiseParts
  <1> PICK list : list = Cleaned(commands)
    OBVIOUS
  <1> DEFINE x == [seen |-> w.seen, context |-> noise.last.context, overdue |-> FALSE, receipt |-> Null]
  <1>1. /\ commands' = [list EXCEPT ![w.command] = x] /\ commands[w.command] = Null
        /\ noise.last # Null /\ w.seen = noise.last.status
        /\ UNCHANGED <<noise, wishes, exchanges, replies, meter>>
    BY DEF Create, Online
  <1>2. noise.last \in Exchange /\ w.command \in Commands
        /\ noise.last.status.run = noise.last.context.run
    BY <1>1 DEF Wish, NoiseIInv, ExchangesFit
  <1>3. x \in Command /\ x.seen.run = x.context.run
    BY <1>1, <1>2 DEF Command, Exchange
  <1>4. Kept(list) /\ \A c \in Commands : commands[c] = Null <=> list[c] = Null
    BY CleanedKept
  <1>5. Kept(commands')
    BY <1>1, <1>2, <1>3, <1>4 DEF Kept
  <1>6. NoiseTypeOK'
    BY <1>1, <1>5 DEF NoiseIInv, NoiseTypeOK, Kept
  <1>7. noise'.last # Null => noise'.last \in exchanges'
    BY <1>1 DEF NoiseIInv, ExchangesFit
  <1> QED
    BY <1>1, <1>5, <1>6, <1>7, KeptHolds

LEMMA CommandsHold ==
    ASSUME NoiseBounds, NoiseIInv, IInv', View \/ \E c \in Commands : RunOut(c) PROVE NoiseIInv'
  <1> USE NoiseParts
  <1>1. UNCHANGED <<noise, wishes, exchanges, replies, meter>>
    BY DEF View, RunOut
  <1>2. Kept(commands')
    <2>1. CASE View
      BY <2>1, CleanedKept DEF View
    <2>2. ASSUME NEW c \in Commands, RunOut(c) PROVE Kept(commands')
      <3>1. commands[c] \in Command /\ commands' = [commands EXCEPT ![c] = [commands[c] EXCEPT !.overdue = TRUE]]
        BY <2>2 DEF RunOut, Pending
      <3> PICK y : y = [commands[c] EXCEPT !.overdue = TRUE]
        OBVIOUS
      <3>2. y \in Command /\ y # Null /\ y.seen = commands[c].seen /\ y.context = commands[c].context
        BY <3>1 DEF Command
      <3>3. commands[c] # Null
        BY <3>1
      <3> QED
        BY <3>1, <3>2, <3>3 DEF Kept
    <2> QED
      BY <2>1, <2>2
  <1>3. NoiseTypeOK'
    BY <1>1, <1>2 DEF NoiseIInv, NoiseTypeOK, Kept
  <1>4. noise'.last # Null => noise'.last \in exchanges'
    BY <1>1 DEF NoiseIInv, ExchangesFit
  <1> QED
    BY <1>1, <1>2, <1>3, <1>4, KeptHolds

\* The host sends, carries out a command, or crashes.
LEMMA HostStepHolds ==
    ASSUME NoiseBounds, NoiseIInv, IInv', SendExchange \/ Execute \/ CrashHost PROVE NoiseIInv'
  <1> USE NoiseParts
  <1>1. UNCHANGED <<noise, commands, wishes>> /\ replies' \subseteq replies
    BY Zenon DEF SendExchange, Execute, CrashHost
  <1>2. Kept(commands')
    BY <1>1, CleanedKept
  <1>3. CASE SendExchange
    <2>1. PICK r \in receipts, kept \in {{}, {c \in Commands : meter.done[c] # Null}} :
            /\ r.open.run = run /\ meter.sequence < MaxExchange
            /\ meter' = [meter EXCEPT !.sequence = @ + 1]
            /\ exchanges' = exchanges \cup
                 {[context |-> [run |-> run, session |-> r.session], sequence |-> meter'.sequence,
                   status |-> [run |-> run, revision |-> meter.revision],
                   results |-> {<<c, meter.done[c]>> : c \in kept}]}
            /\ UNCHANGED replies
      BY <1>3 DEF SendExchange
    <2>2. meter' \in Meter /\ meter'.sequence \in 1..MaxExchange /\ meter'.executed = meter.executed
      <3>1. meter.sequence + 1 \in 1..MaxExchange
        <4>1. meter.sequence \in 0..MaxExchange /\ MaxExchange \in Nat
          BY DEF Meter, NoiseBounds
        <4> QED
          BY <2>1, <4>1
      <3> QED
        BY <2>1, <3>1 DEF Meter
    <2> PICK m : m = [context |-> [run |-> run, session |-> r.session], sequence |-> meter'.sequence,
                      status |-> [run |-> run, revision |-> meter.revision],
                      results |-> {<<c, meter.done[c]>> : c \in kept}]
      OBVIOUS
    <2>3. {<<c, meter.done[c]>> : c \in kept} \in SUBSET (Commands \X Results)
      BY <2>1 DEF Meter
    <2>4. m \in Exchange /\ m.status.run = m.context.run
      <3>1. r.session \in 1..MaxEpoch /\ meter.revision \in 0..MaxExchange
        BY DEF Receipt, Meter
      <3> QED
        BY <2>2, <2>3, <3>1 DEF Exchange, Context, Status
    <2>5. exchanges' = exchanges \cup {m}
      BY <2>1
    <2>6. NoiseTypeOK'
      BY <1>1, <2>1, <2>2, <2>4, <2>5 DEF NoiseIInv, NoiseTypeOK, Meter
    <2>7. noise'.last # Null => noise'.last \in exchanges'
      BY <1>1, <2>5 DEF NoiseIInv, ExchangesFit
    <2> QED
      BY <1>1, <1>2, <2>1, <2>2, <2>4, <2>5, <2>6, <2>7, KeptHolds
  <1>4. CASE Execute
    <2>1. PICK p \in replies, result \in Results :
            /\ p.run = run /\ meter.revision < MaxExchange
            /\ meter' = [meter EXCEPT
                 !.done[p.command] = result,
                 !.revision = IF result = "COMPLETED" THEN @ + 1 ELSE @,
                 !.executed = @ \cup {<<p.command, [run |-> run, revision |-> meter.revision]>>}]
            /\ UNCHANGED exchanges
      BY <1>4 DEF Execute
    <2> PICK e : e = <<p.command, [run |-> run, revision |-> meter.revision]>>
      OBVIOUS
    <2>2. e \in Commands \X Status /\ e[1] = p.command /\ e[2].run = p.run
      BY <2>1 DEF Reply, Meter, Status
    <2>3. meter' \in Meter /\ meter'.executed = meter.executed \cup {e}
      <3>1. (IF result = "COMPLETED" THEN meter.revision + 1 ELSE meter.revision) \in 0..MaxExchange
        <4>1. meter.revision \in 0..MaxExchange /\ MaxExchange \in Nat
          BY DEF Meter, NoiseBounds
        <4> QED
          BY <2>1, <4>1
      <3>2. [meter.done EXCEPT ![p.command] = result] \in [Commands -> Results \cup {Null}]
        BY DEF Meter, Reply
      <3> QED
        BY <2>1, <2>2, <3>1, <3>2 DEF Meter
    <2>4. commands[p.command] # Null /\ commands[p.command].seen.run = p.run
      BY DEF NoiseIInv, CommandsFit
    <2>5. NoiseTypeOK'
      BY <1>1, <2>1, <2>3 DEF NoiseIInv, NoiseTypeOK, Meter
    <2>6. noise'.last # Null => noise'.last \in exchanges'
      BY <1>1, <2>1 DEF NoiseIInv, ExchangesFit
    <2> QED
      BY <1>1, <1>2, <2>1, <2>2, <2>3, <2>4, <2>5, <2>6, KeptHolds
  <1>5. CASE CrashHost
    <2>1. PICK kept \in {meter.done, [c \in Commands |-> Null]} :
            meter' = [meter EXCEPT !.revision = 0, !.sequence = 0, !.done = kept]
      BY <1>5 DEF CrashHost
    <2>2. meter' \in Meter /\ meter'.executed = meter.executed /\ exchanges' = exchanges
      <3>1. 0 \in 0..MaxExchange
        BY DEF NoiseBounds
      <3>2. kept \in [Commands -> Results \cup {Null}]
        BY DEF Meter
      <3>3. meter' \in Meter /\ meter'.executed = meter.executed
        BY <2>1, <3>1, <3>2 DEF Meter
      <3> QED
        BY <1>5, <3>3 DEF CrashHost
    <2>3. NoiseTypeOK'
      BY <1>1, <2>2 DEF NoiseIInv, NoiseTypeOK, Meter
    <2>4. noise'.last # Null => noise'.last \in exchanges'
      BY <1>1, <2>2 DEF NoiseIInv, ExchangesFit
    <2> QED
      BY <1>1, <1>2, <2>2, <2>3, <2>4, KeptHolds
  <1> QED
    BY <1>3, <1>4, <1>5

LEMMA AskHolds ==
    ASSUME NoiseBounds, NoiseIInv, IInv',
           Age \/ SessionStep \/ UNCHANGED noiseVars \/ \E c \in Commands : Ask(c)
    PROVE  NoiseIInv'
  <1> USE NoiseParts
  <1>1. UNCHANGED <<commands, exchanges, replies, meter>>
    BY Zenon DEF Age, SessionStep, Ask, noiseVars, control
  <1>2. noise' \in [last: Exchange \cup {Null}, fresh: BOOLEAN] /\ noise'.last = noise.last
    BY DEF Age, SessionStep, Ask, noiseVars, control
  <1>3. wishes' \subseteq Wish
    BY DEF Age, SessionStep, Ask, noiseVars, control, Wish, Exchange
  <1>4. NoiseTypeOK'
    BY <1>1, <1>2, <1>3 DEF NoiseIInv, NoiseTypeOK
  <1>5. Kept(commands')
    BY <1>1, CleanedKept
  <1>6. noise'.last # Null => noise'.last \in exchanges'
    BY <1>1, <1>2 DEF NoiseIInv, ExchangesFit
  <1> QED
    BY <1>1, <1>4, <1>5, <1>6, KeptHolds

LEMMA NoiseStepHolds == ASSUME NoiseBounds, NoiseIInv, [NoiseNext]_noiseVars PROVE NoiseIInv'
  <1>1. IInv'
    BY NoiseStepsSession
  <1> QED
    BY <1>1, HostStepHolds, AskHolds, CommandsHold, CreateHolds, ExchangedHolds, Zenon DEF NoiseNext

LEMMA NoiseInvariance == ASSUME NoiseBounds PROVE NoiseSpec => []NoiseIInv
  <1>1. NoiseInit => NoiseIInv
    BY NoiseInitHolds
  <1>2. NoiseIInv /\ [NoiseNext]_noiseVars => NoiseIInv'
    BY NoiseStepHolds
  <1> QED
    BY <1>1, <1>2, PTL DEF NoiseSpec

\* The aggregate, the commands and the messages have their types.
THEOREM NoiseTypeCorrect == ASSUME NoiseBounds PROVE NoiseSpec => []NoiseTypeOK
  <1>1. NoiseIInv => NoiseTypeOK
    BY DEF NoiseIInv
  <1> QED
    BY NoiseInvariance, <1>1, PTL

\* Noise commands keep to the session: every step of NoiseControl is one of
\* NpepSession, so what is proved of sessions holds under them.
THEOREM NoiseKeepsSession == ASSUME NoiseBounds PROVE NoiseSpec => SessionSpec
  <1>1. NoiseInit => SessionInit
    BY DEF NoiseInit
  <1>2. NoiseIInv /\ [NoiseNext]_noiseVars => [SessionNext]_session
    BY NoiseStepsSession
  <1> QED
    BY NoiseInvariance, <1>1, <1>2, PTL DEF NoiseSpec, SessionSpec

\* A command is carried out only by the run of the host whose status the screen had
\* seen, however many runs, sessions, late exchanges and repeats there are.
THEOREM CommandsForTheirHost == ASSUME NoiseBounds PROVE NoiseSpec => []CommandForItsHost
  <1>1. NoiseIInv => CommandForItsHost
    BY DEF NoiseIInv, CommandsFit, CommandForItsHost
  <1> QED
    BY NoiseInvariance, <1>1, PTL

\* A receipt that is final: cleaning, a new session and late results leave it.
LEMMA ReceiptStays ==
    ASSUME NoiseBounds, NoiseIInv, [NoiseNext]_noiseVars,
           NEW c \in Commands, commands[c] # Null,
           commands[c].receipt \in Results \cup {"SESSION_CHANGED"}
    PROVE  commands'[c].receipt = commands[c].receipt
  <1> USE NoiseParts
  <1>1. commands[c].receipt # Null /\ commands[c].receipt # "COMMAND_EXPIRED"
    BY DEF NoiseBounds, Unknowns, Results
  <1>2. Cleaned(commands)[c] = commands[c]
    BY <1>1 DEF Cleaned, Pending
  <1>3. ASSUME NEW m \in exchanges, Exchanged(m) PROVE commands'[c].receipt = commands[c].receipt
    <2> PICK old : old = Cleaned(commands)
      OBVIOUS
    <2> PICK list : list = Received(old, m)
      OBVIOUS
    <2>1. Acceptance(old, m) /\ commands' = Adopted(list, m)
      BY <1>3 DEF Exchanged
    <2>2. list[c].receipt = commands[c].receipt /\ list[c] # Null
      <3>1. CASE \E r \in m.results : r[1] = c
        <4> PICK r \in m.results : r = CHOOSE x \in m.results : x[1] = c
          BY <3>1
        <4>1. r[1] = c
          BY <3>1
        <4>2. r[2] = commands[c].receipt
          BY <1>1, <1>2, <2>1, <4>1 DEF Acceptance
        <4>3. list[c] = [commands[c] EXCEPT !.receipt = r[2]]
          BY <1>2, <3>1 DEF Received
        <4> QED
          BY <4>2, <4>3 DEF Command
      <3>2. CASE ~\E r \in m.results : r[1] = c
        BY <1>2, <3>2 DEF Received
      <3> QED
        BY <3>1, <3>2
    <2> QED
      BY <1>1, <2>1, <2>2 DEF Adopted, Pending
  <1>4. ASSUME NEW w \in wishes, Create(w) PROVE commands'[c].receipt = commands[c].receipt
    <2>1. w.command # c /\ w.command \in Commands
      BY <1>4 DEF Create, Wish
    <2>2. commands'[c] = Cleaned(commands)[c]
      BY <1>4, <2>1, CleanedKept DEF Create, Kept
    <2> QED
      BY <1>2, <2>2
  <1>5. CASE View
    BY <1>2, <1>5 DEF View
  <1>6. ASSUME NEW d \in Commands, RunOut(d) PROVE commands'[c].receipt = commands[c].receipt
    BY <1>1, <1>6 DEF RunOut, Pending
  <1>7. CASE commands' = commands
    BY <1>7
  <1>8. SendExchange \/ Execute \/ CrashHost \/ Age \/ SessionStep \/ UNCHANGED noiseVars
           => commands' = commands
    BY Zenon DEF SendExchange, Execute, CrashHost, Age, SessionStep, noiseVars, control
  <1>9. ASSUME NEW d \in Commands, Ask(d) PROVE commands' = commands
    BY <1>9 DEF Ask
  <1> QED
    BY <1>3, <1>4, <1>5, <1>6, <1>7, <1>8, <1>9, Zenon DEF NoiseNext

\* What a host reported of a command stays, and what was given up for another session
\* stays given up, whatever exchanges come late or again.
THEOREM ActualResultsStay == ASSUME NoiseBounds PROVE NoiseSpec => ActualResultStays
  <1>1. ASSUME NoiseIInv, [NoiseNext]_noiseVars
        PROVE  [\A c \in Commands :
                  commands[c] # Null /\ commands[c].receipt \in Results \cup {"SESSION_CHANGED"}
                     => commands'[c].receipt = commands[c].receipt]_noiseVars
    BY <1>1, ReceiptStays
  <1> QED
    BY NoiseInvariance, <1>1, PTL DEF NoiseSpec, ActualResultStays
=============================================================================
