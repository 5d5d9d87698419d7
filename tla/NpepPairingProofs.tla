------------------------- MODULE NpepPairingProofs -------------------------
(***************************************************************************)
(* Proofs about NpepPairing: who holds a screen, what an active device     *)
(* agrees with and what an admission rests on, for every number of         *)
(* screens, installations, codes and confirmations.                        *)
(***************************************************************************)
EXTENDS NpepPairing, TLAPS

\* What was approved has a screen.
ApprovedHaveScreens ==
    \A r \in Requests : pairing[r] # Null /\ pairing[r].state \in {"APPROVED", "ACTIVATED"} =>
        pairing[r].screen # Null

\* A pairing that waits has no device, and a device it names exists.
DevicesMade ==
    \A r \in Requests : pairing[r] # Null =>
        /\ pairing[r].state \in {"PENDING", "APPROVED"} => pairing[r].device = Null
        /\ pairing[r].device # Null => device[pairing[r].device] # Null

\* What a confirmation read before it had its locks still says which screen the
\* pairing is for: an approval is never moved to another screen.
ConfirmationsAgree ==
    \A h \in Handlers : confirming[h] # Null =>
        LET c == confirming[h]
        IN  /\ pairing[c.request] # Null
            /\ pairing[c.request].state # "PENDING"
            /\ pairing[c.request].screen = c.read.screen
            /\ c.read.screen # Null

\* A code that was claimed says so, and its pairing is on file.
TicketsAgree ==
    \A t \in Tickets : ticket[t] # Null /\ ticket[t].claimedBy # Null =>
        ticket[t].state = "CLAIMED" /\ pairing[ticket[t].claimedBy] # Null

IInv == /\ TypeOK
        /\ OneDevicePerScreen
        /\ DeviceFollowsScreen
        /\ OneDevicePerPairing
        /\ ApprovedHaveScreens
        /\ DevicesMade
        /\ ConfirmationsAgree
        /\ TicketsAgree
        /\ CodeAdmitsOnce

-----------------------------------------------------------------------------
(* What a step may do to one device, one screen, one pairing and one code *)

\* A device keeps what it was made for, and its end is final.
DeviceEnds(d) ==
    IF device[d] = Null THEN device'[d] = Null
    ELSE /\ device'[d] # Null
         /\ device'[d].screen = device[d].screen
         /\ device'[d].class = device[d].class
         /\ device'[d].revision = device[d].revision
         /\ device'[d].epoch = device[d].epoch
         /\ device'[d].state = "ACTIVE" => device[d].state = "ACTIVE"
         /\ device[d].lapsed => device'[d].lapsed

\* Nothing a device depends on changes.
ScreenStands(s) ==
    /\ screen'[s].revision = screen[s].revision
    /\ screen'[s].class = screen[s].class
    /\ Open(s) => Open(s)'
    /\ epoch' = epoch

\* A pairing is opened without a device, moves on and is not activated.
PairingMoves(r) ==
    IF pairing[r] = Null
    THEN \/ pairing'[r] = Null
         \/ /\ pairing'[r].device = Null
            /\ pairing'[r].state \in {"PENDING", "APPROVED"}
            /\ pairing'[r].state = "APPROVED" => pairing'[r].screen # Null
    ELSE /\ pairing'[r] # Null
         /\ pairing'[r].device = pairing[r].device
         /\ pairing'[r].source = pairing[r].source
         /\ pairing[r].state # "PENDING" =>
               pairing'[r].screen = pairing[r].screen /\ pairing'[r].state # "PENDING"
         /\ pairing[r].state = "CANCELLED" => pairing'[r].state = "CANCELLED"
         /\ pairing[r].state = "ACTIVATED" =>
               \/ pairing'[r].state = "ACTIVATED"
               \/ pairing'[r].state = "CANCELLED" /\ epoch' # epoch
         /\ pairing'[r].state = "ACTIVATED" => pairing[r].state = "ACTIVATED"
         /\ pairing'[r].state = "APPROVED" => pairing'[r].screen # Null

\* A code keeps its screen and its claim and does not become valid again.
TicketMoves(t) ==
    IF ticket[t] = Null THEN ticket'[t] = Null
    ELSE /\ ticket'[t] # Null
         /\ ticket'[t].screen = ticket[t].screen
         /\ ticket'[t].claimedBy = ticket[t].claimedBy
         /\ ticket'[t].state = "READY" => ticket[t].state = "READY"
         /\ ticket[t].state = "CLAIMED" => ticket'[t].state = "CLAIMED"

\* No pairing comes from a code in this step.
NoneByCode ==
    \A r \in Requests : pairing[r] = Null => pairing'[r] = Null \/ pairing'[r].source # "SCREEN"

-----------------------------------------------------------------------------
(* Steps that do no more than that *)

\* The device that is active after the step was active before it.
LEMMA DevicesQuiet ==
    ASSUME IInv, \A d \in Devices : DeviceEnds(d),
           \A d \in Devices : device[d] # Null /\ device'[d].state = "ACTIVE" =>
                                  ScreenStands(device[d].screen)
    PROVE  OneDevicePerScreen' /\ DeviceFollowsScreen'
<1>1. \A s \in Screens, d \in Devices : Holds(s, d)' => Holds(s, d)
  BY DEF Holds, DeviceEnds
<1>2. OneDevicePerScreen'
  BY <1>1 DEF IInv, OneDevicePerScreen
<1>3. ASSUME NEW d \in Devices, device'[d] # Null, device'[d].state = "ACTIVE"
      PROVE  /\ device'[d].revision = screen'[device'[d].screen].revision
             /\ device'[d].class = screen'[device'[d].screen].class
             /\ device'[d].epoch = epoch'
             /\ Open(device[d].screen)'
  <2>1. device[d] # Null /\ device[d].state = "ACTIVE" /\ device'[d].screen = device[d].screen
    BY <1>3 DEF DeviceEnds
  <2>2. ScreenStands(device[d].screen)
    BY <1>3, <2>1
  <2> QED
    BY <2>1, <2>2 DEF DeviceEnds, ScreenStands, IInv, DeviceFollowsScreen, Open
<1>4. DeviceFollowsScreen'
  BY <1>3 DEF DeviceFollowsScreen, Open
<1> QED
  BY <1>2, <1>4

LEMMA PairingsQuiet ==
    ASSUME IInv, \A d \in Devices : DeviceEnds(d), \A r \in Requests : PairingMoves(r),
           pairing' \in [Requests -> Pairing \cup {Null}],
           \A h \in Handlers : confirming'[h] = Null \/ confirming'[h] = confirming[h]
    PROVE  OneDevicePerPairing' /\ ApprovedHaveScreens' /\ DevicesMade' /\ ConfirmationsAgree'
<1>1. pairing \in [Requests -> Pairing \cup {Null}]
  BY DEF IInv, TypeOK
<1>2. \A r \in Requests : pairing'[r] # Null /\ pairing'[r].device # Null =>
          pairing[r] # Null /\ pairing[r].device = pairing'[r].device
  BY DEF PairingMoves
<1>3. \A r \in Requests : pairing'[r] # Null /\ pairing'[r].state = "ACTIVATED" =>
          /\ pairing[r] # Null /\ pairing[r].state = "ACTIVATED"
          /\ pairing'[r].device = pairing[r].device /\ pairing'[r].screen = pairing[r].screen
  BY DEF PairingMoves
<1>4. \A d \in Devices : /\ device[d] # Null => device'[d] # Null /\ device'[d].screen = device[d].screen
                         /\ device'[d] # Null => device[d] # Null
  BY DEF DeviceEnds
<1>5. \A r \in Requests : pairing[r] # Null =>
          pairing'[r] # Null /\ pairing'[r].device = pairing[r].device
  BY DEF PairingMoves
<1>6. \A r \in Requests : pairing[r] # Null => pairing[r].device \in Devices \cup {Null}
  BY <1>1 DEF Pairing
<1>7. ASSUME NEW r \in Requests, pairing'[r] # Null, pairing'[r].state = "ACTIVATED"
      PROVE  /\ pairing'[r].device # Null
             /\ device'[pairing'[r].device] # Null
             /\ device'[pairing'[r].device].screen = pairing'[r].screen
  BY <1>3, <1>4, <1>6, <1>7 DEF IInv, OneDevicePerPairing
<1>8. ASSUME NEW q \in Requests, NEW r \in Requests, pairing'[q] # Null, pairing'[r] # Null,
             pairing'[q].device # Null, pairing'[q].device = pairing'[r].device
      PROVE  q = r
  BY <1>2, <1>8 DEF IInv, OneDevicePerPairing
<1>9. ASSUME NEW d \in Devices, device'[d] # Null
      PROVE  \E r \in Requests : pairing'[r] # Null /\ pairing'[r].device = d
  BY <1>4, <1>5, <1>9 DEF IInv, OneDevicePerPairing
<1>10. OneDevicePerPairing'
  BY <1>7, <1>8, <1>9 DEF OneDevicePerPairing
<1>11. ApprovedHaveScreens'
  BY <1>3 DEF PairingMoves, IInv, ApprovedHaveScreens
<1>12. ConfirmationsAgree'
  <2> SUFFICES ASSUME NEW h \in Handlers, confirming'[h] # Null
               PROVE  /\ pairing'[confirming'[h].request] # Null
                      /\ pairing'[confirming'[h].request].state # "PENDING"
                      /\ pairing'[confirming'[h].request].screen = confirming'[h].read.screen
                      /\ confirming'[h].read.screen # Null
    BY DEF ConfirmationsAgree
  <2>1. confirming'[h] = confirming[h] /\ confirming[h] \in Confirmation
    BY DEF IInv, TypeOK
  <2>2. confirming[h].request \in Requests
    BY <2>1 DEF Confirmation
  <2> QED
    BY <2>1, <2>2 DEF PairingMoves, IInv, ConfirmationsAgree
<1>13. DevicesMade'
  <2> SUFFICES ASSUME NEW r \in Requests, pairing'[r] # Null
               PROVE  /\ pairing'[r].state \in {"PENDING", "APPROVED"} => pairing'[r].device = Null
                      /\ pairing'[r].device # Null => device'[pairing'[r].device] # Null
    BY DEF DevicesMade
  <2>1. CASE pairing[r] = Null
    BY <2>1 DEF PairingMoves
  <2>2. CASE pairing[r] # Null
    <3>1. pairing'[r].device = pairing[r].device /\ pairing[r].device \in Devices \cup {Null}
      BY <1>6, <2>2 DEF PairingMoves
    <3>2. pairing'[r].device # Null => device'[pairing'[r].device] # Null
      BY <1>4, <2>2, <3>1 DEF IInv, DevicesMade
    <3>3. pairing'[r].state \in {"PENDING", "APPROVED"} => pairing[r].state \in {"PENDING", "APPROVED"}
      BY <1>1, <2>2 DEF PairingMoves, Pairing
    <3> QED
      BY <2>2, <3>1, <3>2, <3>3 DEF IInv, DevicesMade
  <2> QED
    BY <2>1, <2>2
<1> QED
  BY <1>10, <1>11, <1>12, <1>13

LEMMA TicketsQuiet ==
    ASSUME IInv, \A t \in Tickets : TicketMoves(t), \A r \in Requests : PairingMoves(r), NoneByCode
    PROVE  TicketsAgree' /\ CodeAdmitsOnce'
<1>0. ticket \in [Tickets -> Ticket \cup {Null}]
  BY DEF IInv, TypeOK
<1>1. \A r \in Requests, t \in Tickets : r # Null => (Claims(r, t)' <=> Claims(r, t))
  BY DEF Claims, TicketMoves
<1>2. TicketsAgree'
  <2> SUFFICES ASSUME NEW t \in Tickets, ticket'[t] # Null, ticket'[t].claimedBy # Null
               PROVE  ticket'[t].state = "CLAIMED" /\ pairing'[ticket'[t].claimedBy] # Null
    BY DEF TicketsAgree
  <2>1. ticket[t] # Null /\ ticket[t].claimedBy = ticket'[t].claimedBy
        /\ ticket[t].claimedBy \in Requests
    BY <1>0 DEF TicketMoves, Ticket
  <2> QED
    BY <2>1 DEF TicketMoves, PairingMoves, IInv, TicketsAgree
<1>3. \A r \in Requests : pairing'[r] # Null /\ pairing'[r].source = "SCREEN" =>
          pairing[r] # Null /\ pairing[r].source = "SCREEN"
  BY DEF PairingMoves, NoneByCode
<1>4. \A r \in Requests : r # Null
  BY NullAssumption
<1>5. ASSUME NEW r \in Requests, pairing'[r] # Null, pairing'[r].source = "SCREEN"
      PROVE  \E t \in Tickets : \A u \in Tickets : Claims(r, u)' <=> u = t
  BY <1>1, <1>3, <1>4, <1>5 DEF IInv, CodeAdmitsOnce
<1>6. ASSUME NEW t \in Tickets, NEW u \in Tickets, ticket'[t] # Null, ticket'[u] # Null,
             ticket'[t].screen = ticket'[u].screen,
             ticket'[t].state = "READY", ticket'[u].state = "READY"
      PROVE  t = u
  BY <1>6 DEF TicketMoves, IInv, CodeAdmitsOnce
<1>7. CodeAdmitsOnce'
  BY <1>5, <1>6 DEF CodeAdmitsOnce, Claims
<1> QED
  BY <1>2, <1>7

\* Every step but a confirmation is of this kind.
Quiet ==
    /\ TypeOK'
    /\ \A d \in Devices : DeviceEnds(d)
    /\ \A d \in Devices : device[d] # Null /\ device'[d].state = "ACTIVE" =>
                              ScreenStands(device[d].screen)
    /\ \A r \in Requests : PairingMoves(r)

LEMMA QuietKeeps ==
    ASSUME IInv, Quiet, NoneByCode, \A t \in Tickets : TicketMoves(t),
           \A h \in Handlers : confirming'[h] = Null \/ confirming'[h] = confirming[h]
    PROVE  IInv'
<1>1. OneDevicePerScreen' /\ DeviceFollowsScreen'
  BY DevicesQuiet DEF Quiet
<1>2. OneDevicePerPairing' /\ ApprovedHaveScreens' /\ DevicesMade' /\ ConfirmationsAgree'
  BY PairingsQuiet DEF Quiet, TypeOK
<1>3. TicketsAgree' /\ CodeAdmitsOnce'
  BY TicketsQuiet DEF Quiet
<1> QED
  BY <1>1, <1>2, <1>3 DEF Quiet, IInv

-----------------------------------------------------------------------------
(* What the helpers do *)

LEMMA SameDevices ==
    ASSUME IInv, device' = device
    PROVE  (\A d \in Devices : DeviceEnds(d)) /\ device' \in [Devices -> Device \cup {Null}]
BY DEF IInv, TypeOK, DeviceEnds

LEMMA SamePairings ==
    ASSUME IInv, pairing' = pairing
    PROVE  /\ \A r \in Requests : PairingMoves(r)
           /\ NoneByCode
           /\ pairing' \in [Requests -> Pairing \cup {Null}]
BY DEF IInv, TypeOK, PairingMoves, NoneByCode, ApprovedHaveScreens

LEMMA SameTickets ==
    ASSUME IInv, ticket' = ticket
    PROVE  (\A t \in Tickets : TicketMoves(t)) /\ ticket' \in [Tickets -> Ticket \cup {Null}]
BY DEF IInv, TypeOK, TicketMoves

LEMMA SameScreens ==
    ASSUME screen' = screen, closed' = closed, epoch' = epoch
    PROVE  \A s \in Screens : ScreenStands(s)
BY DEF ScreenStands, Open

\* A device whose row is rewritten with another end, or marked as lapsed.
LEMMA EndedDevice ==
    ASSUME IInv, NEW d \in Devices, device[d] # Null,
           NEW state \in {"EXPIRED", "REVOKED", "INVALIDATED"},
           \/ device'[d] = [device[d] EXCEPT !.state = state]
           \/ device'[d] = [device[d] EXCEPT !.lapsed = TRUE]
    PROVE  DeviceEnds(d) /\ device'[d] \in Device
<1>1. device[d] \in Device
  BY DEF IInv, TypeOK
<1>2. CASE device'[d] = [device[d] EXCEPT !.state = state]
  BY <1>1, <1>2, NullAssumption DEF DeviceEnds, Device
<1>3. CASE device'[d] = [device[d] EXCEPT !.lapsed = TRUE]
  BY <1>1, <1>3, NullAssumption DEF DeviceEnds, Device
<1> QED
  BY <1>2, <1>3

LEMMA FreedEnds ==
    ASSUME IInv, NEW s \in Screens, device' = Freed(s)
    PROVE  (\A d \in Devices : DeviceEnds(d)) /\ device' \in [Devices -> Device \cup {Null}]
<1>1. ASSUME NEW d \in Devices
      PROVE  DeviceEnds(d) /\ device'[d] \in Device \cup {Null}
  <2>1. CASE Holds(s, d) /\ device[d].lapsed
    <3>1. device[d] # Null /\ device'[d] = [device[d] EXCEPT !.state = "EXPIRED"]
      BY <2>1 DEF Freed, Holds
    <3> QED
      BY <3>1, EndedDevice
  <2>2. CASE ~(Holds(s, d) /\ device[d].lapsed)
    BY <2>2 DEF Freed, DeviceEnds, IInv, TypeOK
  <2> QED
    BY <2>1, <2>2
<1>2. device' = [d \in Devices |-> device'[d]]
  BY DEF Freed
<1> QED
  BY <1>1, <1>2

\* Once the fence of some screens has run, nobody holds them.
LEMMA InvalidatedEnds ==
    ASSUME IInv, NEW ss \in SUBSET Screens, device' = Invalidated(ss)
    PROVE  /\ \A d \in Devices : DeviceEnds(d)
           /\ device' \in [Devices -> Device \cup {Null}]
           /\ \A d \in Devices : device[d] # Null /\ device'[d].state = "ACTIVE" =>
                                     device[d].screen \in Screens \ ss
<1>1. ASSUME NEW d \in Devices
      PROVE  /\ DeviceEnds(d) /\ device'[d] \in Device \cup {Null}
             /\ device[d] # Null /\ device'[d].state = "ACTIVE" =>
                    device[d].screen \in Screens \ ss
  <2>1. CASE \E s \in ss : Holds(s, d)
    <3>1. device[d] # Null /\ device'[d] = [device[d] EXCEPT !.state = "INVALIDATED"]
      BY <2>1 DEF Invalidated, Holds
    <3>2. device[d] \in Device
      BY <3>1 DEF IInv, TypeOK
    <3>3. device'[d].state = "INVALIDATED"
      BY <3>1, <3>2 DEF Device
    <3> QED
      BY <3>1, <3>3, EndedDevice
  <2>2. CASE ~\E s \in ss : Holds(s, d)
    <3>1. device'[d] = device[d]
      BY <2>2 DEF Invalidated
    <3>2. device[d] \in Device \cup {Null}
      BY DEF IInv, TypeOK
    <3>3. device[d] # Null /\ device[d].state = "ACTIVE" => device[d].screen \in Screens \ ss
      BY <2>2, <3>2 DEF Holds, Device
    <3> QED
      BY <3>1, <3>2, <3>3 DEF DeviceEnds
  <2> QED
    BY <2>1, <2>2
<1>2. device' = [d \in Devices |-> device'[d]]
  BY DEF Invalidated
<1> QED
  BY <1>1, <1>2

\* A pairing that is cancelled, unless it has made its device.
LEMMA CancelledMoves ==
    ASSUME IInv, NEW r \in Requests, pairing[r] # Null,
           pairing[r].state # "ACTIVATED" \/ epoch' # epoch,
           pairing'[r] = [pairing[r] EXCEPT !.state = "CANCELLED"]
    PROVE  /\ PairingMoves(r) /\ pairing'[r] \in Pairing
           /\ pairing'[r].source = pairing[r].source
<1>1. pairing[r] \in Pairing
  BY DEF IInv, TypeOK
<1>2. pairing'[r] \in Pairing
  BY <1>1 DEF Pairing
<1>3. /\ pairing'[r].state = "CANCELLED" /\ pairing'[r].device = pairing[r].device
      /\ pairing'[r].source = pairing[r].source /\ pairing'[r].screen = pairing[r].screen
  BY <1>1 DEF Pairing
<1>4. pairing'[r] # Null
  BY <1>2, NullAssumption
<1> QED
  BY <1>2, <1>3, <1>4 DEF PairingMoves

LEMMA LapsedMoves ==
    ASSUME IInv, NEW r \in Requests, pairing[r] # Null,
           pairing'[r] = [pairing[r] EXCEPT !.lapsed = TRUE]
    PROVE  PairingMoves(r) /\ pairing'[r] \in Pairing
<1>1. pairing[r] \in Pairing
  BY DEF IInv, TypeOK
<1>2. pairing'[r] \in Pairing
  BY <1>1 DEF Pairing
<1>3. /\ pairing'[r].state = pairing[r].state /\ pairing'[r].device = pairing[r].device
      /\ pairing'[r].source = pairing[r].source /\ pairing'[r].screen = pairing[r].screen
  BY <1>1 DEF Pairing
<1>4. pairing'[r] # Null
  BY <1>2, NullAssumption
<1> QED
  BY <1>2, <1>3, <1>4 DEF PairingMoves, IInv, ApprovedHaveScreens

LEMMA WithdrawnMoves ==
    ASSUME IInv, NEW ss \in SUBSET Screens, pairing' = Withdrawn(ss)
    PROVE  /\ \A r \in Requests : PairingMoves(r)
           /\ NoneByCode
           /\ pairing' \in [Requests -> Pairing \cup {Null}]
<1>1. ASSUME NEW r \in Requests
      PROVE  /\ PairingMoves(r) /\ pairing'[r] \in Pairing \cup {Null}
             /\ pairing[r] = Null => pairing'[r] = Null
  <2> DEFINE taken == /\ pairing[r] # Null /\ pairing[r].state = "APPROVED"
                      /\ pairing[r].screen \in ss
  <2>1. CASE taken
    <3>1. pairing'[r] = [pairing[r] EXCEPT !.state = "CANCELLED"]
      BY <2>1 DEF Withdrawn
    <3> QED
      BY <2>1, <3>1, CancelledMoves
  <2>2. CASE ~taken
    <3>1. pairing'[r] = pairing[r]
      BY <2>2 DEF Withdrawn
    <3> QED
      BY <3>1 DEF PairingMoves, IInv, TypeOK, ApprovedHaveScreens
  <2> QED
    BY <2>1, <2>2
<1>2. pairing' = [r \in Requests |-> pairing'[r]]
  BY DEF Withdrawn
<1> QED
  BY <1>1, <1>2 DEF NoneByCode

LEMMA RecalledMoves ==
    ASSUME IInv, NEW ss \in SUBSET Screens
    PROVE  /\ Recalled(ss) \in [Tickets -> Ticket \cup {Null}]
           /\ ticket' = Recalled(ss) => \A t \in Tickets : TicketMoves(t)
<1>1. ASSUME NEW t \in Tickets
      PROVE  /\ Recalled(ss)[t] \in Ticket \cup {Null}
             /\ ticket'[t] = Recalled(ss)[t] => TicketMoves(t)
  <2> DEFINE taken == /\ ticket[t] # Null /\ ticket[t].state = "READY"
                      /\ ticket[t].screen \in ss
  <2>1. CASE taken
    <3> DEFINE k == [ticket[t] EXCEPT !.state = "CANCELLED"]
    <3>1. Recalled(ss)[t] = k
      BY <2>1 DEF Recalled
    <3>2. ticket[t] \in Ticket
      BY <2>1 DEF IInv, TypeOK
    <3>3. k \in Ticket
      BY <3>2 DEF Ticket
    <3>4. k.screen = ticket[t].screen /\ k.claimedBy = ticket[t].claimedBy /\ k.state = "CANCELLED"
      BY <3>2 DEF Ticket
    <3> HIDE DEF k
    <3>5. k # Null
      BY <3>3, NullAssumption
    <3> QED
      BY <2>1, <3>1, <3>3, <3>4, <3>5 DEF TicketMoves
  <2>2. CASE ~taken
    BY <2>2 DEF Recalled, TicketMoves, IInv, TypeOK
  <2> QED
    BY <2>1, <2>2
<1>2. Recalled(ss) = [t \in Tickets |-> Recalled(ss)[t]]
  BY DEF Recalled
<1> QED
  BY <1>1, <1>2

LEMMA OpenedMoves ==
    ASSUME IInv, NEW r \in Requests, pairing[r] = Null, NEW q \in Pairing,
           q.device = Null, q.state \in {"PENDING", "APPROVED"},
           q.state = "APPROVED" => q.screen # Null,
           pairing' = [pairing EXCEPT ![r] = q]
    PROVE  /\ \A p \in Requests : PairingMoves(p)
           /\ pairing' \in [Requests -> Pairing \cup {Null}]
           /\ q.source # "SCREEN" => NoneByCode
           /\ pairing'[r] = q
<1>1. pairing \in [Requests -> Pairing \cup {Null}]
  BY DEF IInv, TypeOK
<1>2. pairing'[r] = q /\ \A p \in Requests \ {r} : pairing'[p] = pairing[p]
  BY <1>1
<1>3. \A p \in Requests \ {r} : PairingMoves(p)
  BY <1>1, <1>2 DEF PairingMoves, IInv, ApprovedHaveScreens
<1>4. PairingMoves(r)
  BY <1>2 DEF PairingMoves
<1> QED
  BY <1>1, <1>2, <1>3, <1>4 DEF NoneByCode

LEMMA ChangedMoves ==
    ASSUME IInv, NEW r \in Requests, pairing[r] # Null, NEW q \in Pairing,
           pairing' = [pairing EXCEPT ![r] = q], pairing'[r] = q => PairingMoves(r)
    PROVE  /\ \A p \in Requests : PairingMoves(p)
           /\ pairing' \in [Requests -> Pairing \cup {Null}]
           /\ NoneByCode
<1>1. pairing \in [Requests -> Pairing \cup {Null}]
  BY DEF IInv, TypeOK
<1>2. pairing'[r] = q /\ \A p \in Requests \ {r} : pairing'[p] = pairing[p]
  BY <1>1
<1>3. \A p \in Requests \ {r} : PairingMoves(p)
  BY <1>1, <1>2 DEF PairingMoves, IInv, ApprovedHaveScreens
<1> QED
  BY <1>1, <1>2, <1>3 DEF NoneByCode

\* The rows that the four ways of pairing begin with.
LEMMA NewPairingTyped ==
    ASSUME IInv, NEW source \in AllSources, NEW state \in {"PENDING", "APPROVED"},
           NEW s \in Screens \cup {Null}
    PROVE  LET q == NewPairing(source, state, s)
           IN  /\ q \in Pairing /\ q.device = Null /\ q.state = state /\ q.source = source
               /\ q.screen = s
BY BoundAssumption DEF NewPairing, Pairing, Epochs, IInv, TypeOK

LEMMA SnapshotTyped ==
    ASSUME IInv, NEW q \in Pairing, NEW s \in Screens
    PROVE  LET w == Snapshot(q, s)
           IN  /\ w \in Pairing /\ w.device = q.device /\ w.state = "APPROVED"
               /\ w.source = q.source /\ w.screen = s /\ w.screen # Null
<1>1. screen[s] \in Screen
  BY DEF IInv, TypeOK
<1>2. screen[s].revision \in 0..MaxRevision
  BY <1>1, BoundAssumption DEF Screen, Revisions
<1>3. s # Null
  BY NullAssumption
<1> QED
  BY <1>2, <1>3 DEF Snapshot, Pairing

LEMMA PreauthorizedTyped ==
    ASSUME IInv, NEW q \in Pairing, NEW s \in Screens
    PROVE  LET w == Preauthorized(q, s)
           IN  /\ w \in Pairing /\ w.device = q.device /\ w.state = "APPROVED"
               /\ w.source = q.source /\ w.screen = s /\ w.screen # Null
<1> DEFINE v == Snapshot(q, s)
<1>1. /\ v \in Pairing /\ v.device = q.device /\ v.state = "APPROVED"
      /\ v.source = q.source /\ v.screen = s /\ v.screen # Null
  BY SnapshotTyped
<1>2. screen[s] \in Screen
  BY DEF IInv, TypeOK
<1>3. screen[s].access \in 0..MaxRevision /\ screen[s].credential \in 0..MaxRevision
  BY <1>2, BoundAssumption DEF Screen, Revisions
<1>4. Preauthorized(q, s) = [v EXCEPT !.access = screen[s].access,
                                       !.credential = screen[s].credential]
  BY DEF Preauthorized
<1> HIDE DEF v
<1> QED
  BY <1>1, <1>3, <1>4 DEF Pairing

-----------------------------------------------------------------------------
(* The steps *)

\* Steps that leave the screens and the deployment alone.
LEMMA StandingQuiet ==
    ASSUME IInv, screen' = screen, closed' = closed, epoch' = epoch,
           authorized' \subseteq Admins, password' = password,
           \A d \in Devices : DeviceEnds(d), device' \in [Devices -> Device \cup {Null}],
           \A r \in Requests : PairingMoves(r),
           pairing' \in [Requests -> Pairing \cup {Null}],
           ticket' \in [Tickets -> Ticket \cup {Null}],
           confirming' \in [Handlers -> Confirmation \cup {Null}]
    PROVE  Quiet
<1>1. TypeOK'
  BY DEF IInv, TypeOK
<1>2. \A d \in Devices : device[d] # Null => device[d].screen \in Screens
  BY DEF IInv, TypeOK, Device
<1> QED
  BY <1>1, <1>2, SameScreens DEF Quiet

LEMMA CreateQuiet ==
    ASSUME IInv, NEW r \in Requests, Create(r)
    PROVE  Quiet /\ NoneByCode
<1> DEFINE q == NewPairing("ADMIN", "PENDING", Null)
<1>1. pairing[r] = Null /\ pairing' = [pairing EXCEPT ![r] = q]
  BY DEF Create
<1>2. q \in Pairing /\ q.device = Null /\ q.state = "PENDING" /\ q.source = "ADMIN"
  BY NewPairingTyped DEF AllSources
<1> HIDE DEF q
<1>3. q.source # "SCREEN" /\ q.state \in {"PENDING", "APPROVED"}
      /\ (q.state = "APPROVED" => q.screen # Null)
  BY <1>2
<1>4. /\ \A p \in Requests : PairingMoves(p)
      /\ pairing' \in [Requests -> Pairing \cup {Null}] /\ NoneByCode
  BY <1>1, <1>2, <1>3, OpenedMoves
<1>5. UNCHANGED <<screen, closed, authorized, password, epoch, ticket, device, confirming>>
  BY DEF Create, policy
<1> QED
  BY <1>4, <1>5, SameDevices, StandingQuiet DEF IInv, TypeOK

LEMMA ApplyQuiet ==
    ASSUME IInv, NEW r \in Requests, NEW s \in Screens, ApplyForClass(r, s)
    PROVE  Quiet /\ NoneByCode
<1> DEFINE q == NewPairing("CLASS_APPLY", "PENDING", s)
<1>1. pairing[r] = Null /\ pairing' = [pairing EXCEPT ![r] = q] /\ device' = Freed(s)
  BY DEF ApplyForClass
<1>2. q \in Pairing /\ q.device = Null /\ q.state = "PENDING" /\ q.source = "CLASS_APPLY"
  BY NewPairingTyped DEF AllSources
<1> HIDE DEF q
<1>3. q.source # "SCREEN" /\ q.state \in {"PENDING", "APPROVED"}
      /\ (q.state = "APPROVED" => q.screen # Null)
  BY <1>2
<1>4. /\ \A p \in Requests : PairingMoves(p)
      /\ pairing' \in [Requests -> Pairing \cup {Null}] /\ NoneByCode
  BY <1>1, <1>2, <1>3, OpenedMoves
<1>5. UNCHANGED <<screen, closed, authorized, password, epoch, ticket, confirming>>
  BY DEF ApplyForClass, policy
<1> QED
  BY <1>1, <1>4, <1>5, FreedEnds, StandingQuiet DEF IInv, TypeOK

LEMMA PasswordQuiet ==
    ASSUME IInv, NEW r \in Requests, NEW s \in Screens, EnterPassword(r, s)
    PROVE  Quiet /\ NoneByCode
<1> DEFINE v == Preauthorized(NewPairing("CLASS_PASSWORD", "APPROVED", s), s)
           q == [v EXCEPT !.password = password[screen[s].class]]
<1>1. pairing[r] = Null /\ pairing' = [pairing EXCEPT ![r] = q] /\ device' = Freed(s)
  BY DEF EnterPassword
<1>2. /\ v \in Pairing /\ v.device = Null /\ v.state = "APPROVED"
      /\ v.source = "CLASS_PASSWORD" /\ v.screen # Null
  BY NewPairingTyped, PreauthorizedTyped DEF AllSources
<1> HIDE DEF v
<1>3. password[screen[s].class] \in 0..MaxRevision
  BY DEF IInv, TypeOK, Screen
<1>4. /\ q \in Pairing /\ q.device = Null /\ q.state = "APPROVED"
      /\ q.source = "CLASS_PASSWORD" /\ q.screen # Null
  BY <1>2, <1>3 DEF Pairing
<1> HIDE DEF q
<1>5. /\ \A p \in Requests : PairingMoves(p)
      /\ pairing' \in [Requests -> Pairing \cup {Null}] /\ NoneByCode
  BY <1>1, <1>4, OpenedMoves
<1>6. UNCHANGED <<screen, closed, authorized, password, epoch, ticket, confirming>>
  BY DEF EnterPassword, policy
<1> QED
  BY <1>1, <1>5, <1>6, FreedEnds, StandingQuiet DEF IInv, TypeOK

LEMMA ApproveQuiet ==
    ASSUME IInv, NEW a \in Admins, NEW r \in Requests, NEW s \in Screens, Approve(a, r, s)
    PROVE  Quiet /\ NoneByCode
<1> DEFINE v == Snapshot(pairing[r], s)
           q == [v EXCEPT !.approver = a]
<1>1. /\ pairing[r] # Null /\ pairing[r].state = "PENDING"
      /\ pairing' = [pairing EXCEPT ![r] = q] /\ device' = Freed(s)
  BY DEF Approve, Valid
<1>2. pairing[r] \in Pairing
  BY <1>1 DEF IInv, TypeOK
<1>3. /\ v \in Pairing /\ v.device = pairing[r].device /\ v.state = "APPROVED"
      /\ v.source = pairing[r].source /\ v.screen # Null
  BY <1>2, SnapshotTyped
<1> HIDE DEF v
<1>4. /\ q \in Pairing /\ q.device = pairing[r].device /\ q.state = "APPROVED"
      /\ q.source = pairing[r].source /\ q.screen # Null
  BY <1>3 DEF Pairing
<1> HIDE DEF q
<1>5. q # Null
  BY <1>4, NullAssumption
<1>6. /\ \A p \in Requests : PairingMoves(p)
      /\ pairing' \in [Requests -> Pairing \cup {Null}] /\ NoneByCode
  BY <1>1, <1>4, <1>5, ChangedMoves DEF PairingMoves
<1>7. UNCHANGED <<screen, closed, authorized, password, epoch, ticket, confirming>>
  BY DEF Approve, policy
<1> QED
  BY <1>1, <1>6, <1>7, FreedEnds, StandingQuiet DEF IInv, TypeOK

LEMMA CancelQuiet ==
    ASSUME IInv, NEW r \in Requests, Cancel(r)
    PROVE  Quiet /\ NoneByCode
<1> DEFINE q == [pairing[r] EXCEPT !.state = "CANCELLED"]
<1>1. /\ pairing[r] # Null /\ pairing[r].state # "ACTIVATED"
      /\ pairing' = [pairing EXCEPT ![r] = q]
  BY DEF Cancel, Cancellable, Valid
<1>2. q \in Pairing
  BY <1>1 DEF IInv, TypeOK, Pairing
<1>3. pairing'[r] = q => PairingMoves(r)
  BY <1>1, CancelledMoves
<1> HIDE DEF q
<1>4. /\ \A p \in Requests : PairingMoves(p)
      /\ pairing' \in [Requests -> Pairing \cup {Null}] /\ NoneByCode
  BY <1>1, <1>2, <1>3, ChangedMoves
<1>5. UNCHANGED <<screen, closed, authorized, password, epoch, ticket, device, confirming>>
  BY DEF Cancel, policy
<1> QED
  BY <1>4, <1>5, SameDevices, StandingQuiet DEF IInv, TypeOK

LEMMA LapseQuiet ==
    ASSUME IInv, NEW r \in Requests, LapsePairing(r)
    PROVE  Quiet /\ NoneByCode
<1> DEFINE q == [pairing[r] EXCEPT !.lapsed = TRUE]
<1>1. pairing[r] # Null /\ pairing' = [pairing EXCEPT ![r] = q]
  BY DEF LapsePairing
<1>2. q \in Pairing
  BY <1>1 DEF IInv, TypeOK, Pairing
<1>3. pairing'[r] = q => PairingMoves(r)
  BY <1>1, LapsedMoves
<1> HIDE DEF q
<1>4. /\ \A p \in Requests : PairingMoves(p)
      /\ pairing' \in [Requests -> Pairing \cup {Null}] /\ NoneByCode
  BY <1>1, <1>2, <1>3, ChangedMoves
<1>5. UNCHANGED <<screen, closed, authorized, password, epoch, ticket, device, confirming>>
  BY DEF LapsePairing, policy
<1> QED
  BY <1>4, <1>5, SameDevices, StandingQuiet DEF IInv, TypeOK

LEMMA AuthorityQuiet ==
    ASSUME IInv, NEW a \in Admins, ChangeAuthority(a)
    PROVE  Quiet /\ NoneByCode
<1>1. UNCHANGED <<screen, closed, password, epoch, pairing, ticket, device, confirming>>
      /\ authorized' \subseteq Admins
  BY DEF ChangeAuthority, IInv, TypeOK
<1> QED
  BY <1>1, SameDevices, SamePairings, StandingQuiet DEF IInv, TypeOK

LEMMA EndDeviceQuiet ==
    ASSUME IInv, NEW d \in Devices, RevokeDevice(d) \/ LapseDevice(d)
    PROVE  Quiet /\ NoneByCode
<1>1. /\ device[d] # Null
      /\ \/ device' = [device EXCEPT ![d] = [device[d] EXCEPT !.state = "REVOKED"]]
         \/ device' = [device EXCEPT ![d] = [device[d] EXCEPT !.lapsed = TRUE]]
      /\ UNCHANGED <<screen, closed, authorized, password, epoch, pairing, ticket, confirming>>
  BY DEF RevokeDevice, LapseDevice, policy
<1>2. device \in [Devices -> Device \cup {Null}]
  BY DEF IInv, TypeOK
<1>3. /\ \/ device'[d] = [device[d] EXCEPT !.state = "REVOKED"]
         \/ device'[d] = [device[d] EXCEPT !.lapsed = TRUE]
      /\ \A e \in Devices \ {d} : device'[e] = device[e]
  BY <1>1, <1>2
<1>4. DeviceEnds(d) /\ device'[d] \in Device
  BY <1>1, <1>3, EndedDevice
<1>5. \A e \in Devices \ {d} : DeviceEnds(e)
  BY <1>3 DEF DeviceEnds
<1>6. device' \in [Devices -> Device \cup {Null}]
  BY <1>1, <1>2, <1>4
<1> QED
  BY <1>1, <1>4, <1>5, <1>6, SamePairings, StandingQuiet DEF IInv, TypeOK

LEMMA IssueQuiet ==
    ASSUME IInv, NEW t \in Tickets, NEW s \in Screens, IssueTicket(t, s)
    PROVE  /\ Quiet /\ NoneByCode
           /\ \A u \in Tickets \ {t} : TicketMoves(u) /\ ticket'[u] = Recalled({s})[u]
           /\ ticket'[t] # Null /\ ticket'[t].claimedBy = Null
           /\ ticket'[t].state = "READY" /\ ticket'[t].screen = s
<1> DEFINE k == [state |-> "READY", screen |-> s, revision |-> screen[s].revision,
                 access |-> screen[s].access, credential |-> screen[s].credential,
                 epoch |-> epoch, lapsed |-> FALSE, claimedBy |-> Null]
<1>1. /\ device' = Freed(s) /\ ticket' = [Recalled({s}) EXCEPT ![t] = k]
      /\ UNCHANGED <<screen, closed, authorized, password, epoch, pairing, confirming>>
  BY DEF IssueTicket, policy
<1>2. k \in Ticket
  <2>1. screen[s] \in Screen /\ epoch \in Epochs
    BY DEF IInv, TypeOK
  <2> QED
    BY <2>1 DEF Ticket, Screen
<1>3. k.state = "READY" /\ k.screen = s /\ k.claimedBy = Null
  OBVIOUS
<1> HIDE DEF k
<1>4. {s} \in SUBSET Screens
  OBVIOUS
<1>5. Recalled({s}) \in [Tickets -> Ticket \cup {Null}]
  BY <1>4, RecalledMoves
<1>6. ticket'[t] = k /\ \A u \in Tickets \ {t} : ticket'[u] = Recalled({s})[u]
  BY <1>1, <1>5
<1>7. ticket' \in [Tickets -> Ticket \cup {Null}] /\ k # Null
  BY <1>1, <1>2, <1>5, NullAssumption
<1>8. \A u \in Tickets \ {t} : TicketMoves(u)
  <2> SUFFICES ASSUME NEW u \in Tickets \ {t} PROVE TicketMoves(u)
    OBVIOUS
  <2>1. ticket[u] \in Ticket \cup {Null}
    BY DEF IInv, TypeOK
  <2>2. \/ ticket'[u] = ticket[u]
        \/ ticket[u] # Null /\ ticket'[u] = [ticket[u] EXCEPT !.state = "CANCELLED"]
           /\ ticket[u].state = "READY"
    BY <1>6 DEF Recalled
  <2>3. CASE ticket'[u] = ticket[u]
    BY <2>3 DEF TicketMoves
  <2>4. CASE ticket[u] # Null /\ ticket'[u] = [ticket[u] EXCEPT !.state = "CANCELLED"]
             /\ ticket[u].state = "READY"
    <3>1. ticket'[u] \in Ticket /\ ticket'[u].state = "CANCELLED"
          /\ ticket'[u].screen = ticket[u].screen /\ ticket'[u].claimedBy = ticket[u].claimedBy
      BY <2>1, <2>4 DEF Ticket
    <3>2. ticket'[u] # Null
      BY <3>1, NullAssumption
    <3> QED
      BY <2>4, <3>1, <3>2 DEF TicketMoves
  <2> QED
    BY <2>2, <2>3, <2>4
<1>9. Quiet
  BY <1>1, <1>7, FreedEnds, SamePairings, StandingQuiet DEF IInv, TypeOK
<1> QED
  BY <1>1, <1>3, <1>6, <1>7, <1>8, <1>9, SamePairings

LEMMA ClaimQuiet ==
    ASSUME IInv, NEW t \in Tickets, NEW r \in Requests, ClaimTicket(t, r)
    PROVE  /\ Quiet
           /\ ticket[t] # Null /\ ticket[t].state = "READY" /\ pairing[r] = Null
           /\ ticket'[t] # Null /\ ticket'[t].claimedBy = r /\ ticket'[t].state = "CLAIMED"
           /\ \A u \in Tickets \ {t} : ticket'[u] = ticket[u]
           /\ pairing'[r] # Null
           /\ \A p \in Requests \ {r} : pairing'[p] = pairing[p]
<1> DEFINE s == ticket[t].screen
           v == NewPairing("SCREEN", "APPROVED", s)
           q == Preauthorized(v, s)
           k == [ticket[t] EXCEPT !.state = "CLAIMED", !.claimedBy = r]
<1>1. /\ ticket[t] # Null /\ ticket[t].state = "READY" /\ pairing[r] = Null
      /\ device' = Freed(s) /\ pairing' = [pairing EXCEPT ![r] = q]
      /\ ticket' = [ticket EXCEPT ![t] = k]
      /\ UNCHANGED <<screen, closed, authorized, password, epoch, confirming>>
  BY DEF ClaimTicket, Fresh, policy
<1>2. ticket[t] \in Ticket
  BY <1>1 DEF IInv, TypeOK
<1>3. s \in Screens
  BY <1>2 DEF Ticket
<1>4. v \in Pairing /\ v.device = Null
  BY <1>3, NewPairingTyped DEF AllSources
<1> HIDE DEF v
<1>5. q \in Pairing /\ q.device = Null /\ q.state = "APPROVED" /\ q.screen # Null
  BY <1>3, <1>4, PreauthorizedTyped
<1> HIDE DEF q
<1>6. q # Null
  BY <1>5, NullAssumption
<1>7. k \in Ticket /\ k.claimedBy = r /\ k.state = "CLAIMED"
  BY <1>2 DEF Ticket
<1> HIDE DEF k
<1>8. /\ \A p \in Requests : PairingMoves(p)
      /\ pairing' \in [Requests -> Pairing \cup {Null}] /\ pairing'[r] = q
  BY <1>1, <1>5, OpenedMoves
<1>9. ticket \in [Tickets -> Ticket \cup {Null}]
      /\ pairing \in [Requests -> Pairing \cup {Null}]
  BY DEF IInv, TypeOK
<1>10. /\ ticket' \in [Tickets -> Ticket \cup {Null}] /\ ticket'[t] = k /\ k # Null
       /\ \A u \in Tickets \ {t} : ticket'[u] = ticket[u]
  BY <1>1, <1>7, <1>9, NullAssumption
<1>11. \A p \in Requests \ {r} : pairing'[p] = pairing[p]
  BY <1>1, <1>9
<1>12. (\A d \in Devices : DeviceEnds(d)) /\ device' \in [Devices -> Device \cup {Null}]
  BY <1>1, <1>3, FreedEnds
<1>13. Quiet
  BY <1>1, <1>8, <1>10, <1>12, StandingQuiet DEF IInv, TypeOK
<1> QED
  BY <1>1, <1>6, <1>7, <1>8, <1>10, <1>11, <1>13

LEMMA LapseTicketQuiet ==
    ASSUME IInv, NEW t \in Tickets, LapseTicket(t)
    PROVE  Quiet /\ NoneByCode /\ \A u \in Tickets : TicketMoves(u)
<1> DEFINE k == [ticket[t] EXCEPT !.lapsed = TRUE]
<1>1. /\ ticket[t] # Null /\ ticket' = [ticket EXCEPT ![t] = k]
      /\ pairing' = [r \in Requests |-> IF ticket[t].claimedBy = r
                                        THEN [pairing[r] EXCEPT !.lapsed = TRUE] ELSE pairing[r]]
      /\ UNCHANGED <<screen, closed, authorized, password, epoch, device, confirming>>
  BY DEF LapseTicket, policy
<1>2. ticket[t] \in Ticket /\ ticket \in [Tickets -> Ticket \cup {Null}]
      /\ pairing \in [Requests -> Pairing \cup {Null}]
  BY <1>1 DEF IInv, TypeOK
<1>3. k \in Ticket /\ k.state = ticket[t].state /\ k.screen = ticket[t].screen
      /\ k.claimedBy = ticket[t].claimedBy
  BY <1>2 DEF Ticket
<1> HIDE DEF k
<1>4. k # Null
  BY <1>3, NullAssumption
<1>5. ticket'[t] = k /\ (\A u \in Tickets \ {t} : ticket'[u] = ticket[u])
      /\ ticket' \in [Tickets -> Ticket \cup {Null}]
  BY <1>1, <1>2, <1>3
<1>6. \A u \in Tickets : TicketMoves(u)
  BY <1>1, <1>3, <1>4, <1>5 DEF TicketMoves
<1>7. ASSUME NEW r \in Requests
      PROVE  /\ PairingMoves(r) /\ pairing'[r] \in Pairing \cup {Null}
             /\ pairing[r] = Null => pairing'[r] = Null
  <2>1. CASE ticket[t].claimedBy = r
    <3>1. pairing[r] # Null
      BY <1>1, <2>1, NullAssumption DEF IInv, TicketsAgree
    <3>2. pairing'[r] = [pairing[r] EXCEPT !.lapsed = TRUE]
      BY <1>1, <2>1
    <3> QED
      BY <3>1, <3>2, LapsedMoves
  <2>2. CASE ticket[t].claimedBy # r
    <3>1. pairing'[r] = pairing[r]
      BY <1>1, <2>2
    <3> QED
      BY <1>2, <3>1 DEF PairingMoves, IInv, ApprovedHaveScreens
  <2> QED
    BY <2>1, <2>2
<1>8. pairing' \in [Requests -> Pairing \cup {Null}] /\ NoneByCode
  <2>1. pairing' = [r \in Requests |-> pairing'[r]]
    BY <1>1
  <2> QED
    BY <1>7, <2>1 DEF NoneByCode
<1>9. Quiet
  BY <1>1, <1>5, <1>7, <1>8, SameDevices, StandingQuiet DEF IInv, TypeOK
<1> QED
  BY <1>6, <1>8, <1>9

-----------------------------------------------------------------------------
(* The steps that trip a fence *)

\* A fence may run for any set of screens, if the others stand: whoever is
\* active afterwards holds one of the others.
LEMMA FenceQuiet ==
    ASSUME IInv, NEW ss \in SUBSET Screens, Revoke(ss),
           \A s \in Screens \ ss : ScreenStands(s),
           screen' \in [Screens -> Screen], closed' \subseteq Classes,
           UNCHANGED <<authorized, password, epoch, ticket, confirming>>
    PROVE  Quiet /\ NoneByCode
<1>1. device' = Invalidated(ss) /\ pairing' = Withdrawn(ss)
  BY DEF Revoke
<1>2. /\ \A d \in Devices : DeviceEnds(d)
      /\ device' \in [Devices -> Device \cup {Null}]
      /\ \A d \in Devices : device[d] # Null /\ device'[d].state = "ACTIVE" =>
                                device[d].screen \in Screens \ ss
  BY <1>1, InvalidatedEnds
<1>3. /\ \A r \in Requests : PairingMoves(r)
      /\ NoneByCode
      /\ pairing' \in [Requests -> Pairing \cup {Null}]
  BY <1>1, WithdrawnMoves
<1>4. TypeOK'
  BY <1>2, <1>3 DEF IInv, TypeOK
<1> QED
  BY <1>2, <1>3, <1>4 DEF Quiet

LEMMA ChangeScreenQuiet ==
    ASSUME IInv, NEW s \in Screens, ChangeScreen(s)
    PROVE  Quiet /\ NoneByCode
<1>1. PICK active \in BOOLEAN, class \in Classes, renew \in BOOLEAN :
          LET old == screen[s]
              fenced == (old.active /\ ~active) \/ class # old.class
          IN  /\ fenced => old.revision < MaxRevision
              /\ renew => old.credential < MaxRevision
              /\ screen' = [screen EXCEPT ![s] =
                    [old EXCEPT !.active = active, !.class = class,
                                !.revision = IF fenced THEN @ + 1 ELSE @,
                                !.credential = IF renew THEN @ + 1 ELSE @]]
              /\ Revoke(IF fenced THEN {s} ELSE {})
  BY DEF ChangeScreen
<1> DEFINE old == screen[s]
           fenced == (old.active /\ ~active) \/ class # old.class
           w == [old EXCEPT !.active = active, !.class = class,
                            !.revision = IF fenced THEN @ + 1 ELSE @,
                            !.credential = IF renew THEN @ + 1 ELSE @]
           ss == IF fenced THEN {s} ELSE {}
<1>2. screen \in [Screens -> Screen] /\ old \in Screen
  BY DEF IInv, TypeOK
<1>3. w \in Screen
  <2>1. (IF fenced THEN old.revision + 1 ELSE old.revision) \in Revisions
    BY <1>1, <1>2, BoundAssumption DEF Screen, Revisions
  <2>2. (IF renew THEN old.credential + 1 ELSE old.credential) \in Revisions
    BY <1>1, <1>2, BoundAssumption DEF Screen, Revisions
  <2> QED
    BY <1>2, <2>1, <2>2 DEF Screen
<1>4. screen' = [screen EXCEPT ![s] = w] /\ Revoke(ss)
  BY <1>1
<1>5. UNCHANGED <<closed, authorized, password, epoch, ticket, confirming>>
  BY DEF ChangeScreen, policy
<1>6. ~fenced => /\ w.revision = old.revision /\ w.class = old.class
                 /\ old.active => w.active
  BY <1>2 DEF Screen
<1>7. ss \in SUBSET Screens
  OBVIOUS
<1>8. ASSUME NEW x \in Screens \ ss
      PROVE  ScreenStands(x)
  <2>1. CASE x = s
    <3>1. ~fenced /\ screen'[x] = w
      BY <1>2, <1>4, <1>8, <2>1
    <3> QED
      BY <1>5, <1>6, <2>1, <3>1 DEF ScreenStands, Open
  <2>2. CASE x # s
    <3>1. screen'[x] = screen[x]
      BY <1>2, <1>4, <2>2
    <3> QED
      BY <1>5, <3>1 DEF ScreenStands, Open
  <2> QED
    BY <2>1, <2>2
<1> HIDE DEF w, ss
<1>9. screen' \in [Screens -> Screen] /\ closed' \subseteq Classes
  BY <1>2, <1>3, <1>4, <1>5 DEF IInv, TypeOK
<1> QED
  BY <1>4, <1>5, <1>7, <1>8, <1>9, FenceQuiet

LEMMA CloseClassQuiet ==
    ASSUME IInv, NEW c \in Classes, CloseClass(c)
    PROVE  Quiet /\ NoneByCode
<1> DEFINE ss == {s \in Screens : screen[s].class = c}
<1>1. /\ \A s \in ss : screen[s].revision < MaxRevision
      /\ closed' = closed \cup {c}
      /\ screen' = [s \in Screens |-> IF s \in ss THEN [screen[s] EXCEPT !.revision = @ + 1]
                                                  ELSE screen[s]]
      /\ Revoke(ss)
      /\ UNCHANGED <<authorized, password, epoch, ticket, confirming>>
  BY DEF CloseClass
<1>2. screen \in [Screens -> Screen] /\ closed \subseteq Classes
  BY DEF IInv, TypeOK
<1>3. \A s \in Screens : s \in ss => [screen[s] EXCEPT !.revision = @ + 1] \in Screen
  BY <1>1, <1>2, BoundAssumption DEF Screen, Revisions
<1>4. screen' \in [Screens -> Screen] /\ closed' \subseteq Classes
  BY <1>1, <1>2, <1>3
<1>5. \A s \in Screens \ ss : ScreenStands(s)
  BY <1>1 DEF ScreenStands, Open
<1>6. ss \in SUBSET Screens
  OBVIOUS
<1> HIDE DEF ss
<1> QED
  BY <1>1, <1>4, <1>5, <1>6, FenceQuiet

LEMMA RedeployQuiet ==
    ASSUME IInv, Redeploy
    PROVE  Quiet /\ NoneByCode
<1>1. /\ epoch < MaxEpoch /\ epoch' = epoch + 1 /\ device' = Invalidated(Screens)
      /\ pairing' = [r \in Requests |-> IF pairing[r] = Null THEN Null
                                        ELSE [pairing[r] EXCEPT !.state = "CANCELLED"]]
      /\ UNCHANGED <<screen, closed, authorized, password, ticket, confirming>>
  BY DEF Redeploy
<1>2. epoch \in Epochs
  BY DEF IInv, TypeOK
<1>3. epoch' \in Epochs /\ epoch' # epoch
  BY <1>1, <1>2, BoundAssumption DEF Epochs
<1>4. Screens \in SUBSET Screens
  OBVIOUS
<1>5. /\ \A d \in Devices : DeviceEnds(d)
      /\ device' \in [Devices -> Device \cup {Null}]
      /\ \A d \in Devices : ~(device[d] # Null /\ device'[d].state = "ACTIVE")
  BY <1>1, <1>4, InvalidatedEnds
<1>6. ASSUME NEW r \in Requests
      PROVE  /\ PairingMoves(r) /\ pairing'[r] \in Pairing \cup {Null}
             /\ pairing[r] = Null => pairing'[r] = Null
  <2>1. CASE pairing[r] = Null
    BY <1>1, <2>1 DEF PairingMoves
  <2>2. CASE pairing[r] # Null
    <3>1. pairing'[r] = [pairing[r] EXCEPT !.state = "CANCELLED"]
      BY <1>1, <2>2
    <3> QED
      BY <1>3, <2>2, <3>1, CancelledMoves
  <2> QED
    BY <2>1, <2>2
<1>7. pairing' \in [Requests -> Pairing \cup {Null}] /\ NoneByCode
  <2>1. pairing' = [r \in Requests |-> pairing'[r]]
    BY <1>1
  <2> QED
    BY <1>6, <2>1 DEF NoneByCode
<1>8. TypeOK'
  BY <1>1, <1>3, <1>5, <1>7 DEF IInv, TypeOK
<1> QED
  BY <1>5, <1>6, <1>7, <1>8 DEF Quiet

LEMMA OpenClassQuiet ==
    ASSUME IInv, NEW c \in Classes, OpenClass(c)
    PROVE  Quiet /\ NoneByCode
<1>1. /\ closed' = closed \ {c}
      /\ UNCHANGED <<screen, authorized, password, epoch, pairing, ticket, device, confirming>>
  BY DEF OpenClass
<1>2. \A s \in Screens : ScreenStands(s)
  BY <1>1 DEF ScreenStands, Open
<1>3. TypeOK'
  BY <1>1 DEF IInv, TypeOK
<1>4. \A d \in Devices : device[d] # Null => device[d].screen \in Screens
  BY DEF IInv, TypeOK, Device
<1> QED
  BY <1>1, <1>2, <1>3, <1>4, SameDevices, SamePairings DEF Quiet

\* Policies and passwords leave alone what a device depends on.
LEMMA AccessQuiet ==
    ASSUME IInv, NEW s \in Screens, SetAccess(s) \/ SetPassword(s)
    PROVE  Quiet /\ NoneByCode /\ \A t \in Tickets : TicketMoves(t)
<1>1. PICK enabled \in BOOLEAN :
          screen' = [screen EXCEPT ![s].enabled = enabled, ![s].access = @ + 1]
  BY DEF SetAccess, SetPassword
<1>2. /\ screen[s].access < MaxRevision /\ ticket' = Recalled({s})
      /\ UNCHANGED <<closed, authorized, epoch, pairing, device, confirming>>
  BY DEF SetAccess, SetPassword, policy
<1>3. screen \in [Screens -> Screen] /\ screen[s] \in Screen
  BY DEF IInv, TypeOK
<1> DEFINE w == [screen[s] EXCEPT !.enabled = enabled, !.access = @ + 1]
<1>4. screen' = [screen EXCEPT ![s] = w]
  BY <1>1, <1>3
<1>5. /\ w \in Screen /\ w.revision = screen[s].revision /\ w.class = screen[s].class
      /\ w.active = screen[s].active
  <2>1. enabled \in BOOLEAN
    BY <1>1
  <2>2. screen[s].access + 1 \in Revisions
    BY <1>2, <1>3, BoundAssumption DEF Screen, Revisions
  <2> QED
    BY <1>3, <2>1, <2>2 DEF Screen
<1> HIDE DEF w
<1>6. screen' \in [Screens -> Screen] /\ screen'[s] = w
      /\ \A x \in Screens \ {s} : screen'[x] = screen[x]
  BY <1>3, <1>4, <1>5
<1>7. \A x \in Screens : ScreenStands(x)
  BY <1>2, <1>5, <1>6 DEF ScreenStands, Open
<1>8. password' \in [Classes -> 0..MaxRevision]
  <2>0. password \in [Classes -> 0..MaxRevision]
    BY DEF IInv, TypeOK
  <2>1. CASE SetAccess(s)
    BY <2>0, <2>1 DEF SetAccess, policy
  <2>2. CASE SetPassword(s)
    <3>1. PICK given \in BOOLEAN :
              /\ given => password[screen[s].class] < MaxRevision
              /\ password' = IF given THEN [password EXCEPT ![screen[s].class] = @ + 1]
                             ELSE password
      BY <2>2 DEF SetPassword
    <3>2. screen[s].class \in Classes
      BY <1>3 DEF Screen
    <3> QED
      BY <2>0, <3>1, <3>2, BoundAssumption
  <2> QED
    BY <2>1, <2>2
<1>9. {s} \in SUBSET Screens
  OBVIOUS
<1>10. ticket' \in [Tickets -> Ticket \cup {Null}] /\ \A t \in Tickets : TicketMoves(t)
  BY <1>2, <1>9, RecalledMoves
<1>11. TypeOK'
  BY <1>2, <1>6, <1>8, <1>10 DEF IInv, TypeOK
<1>12. \A d \in Devices : device[d] # Null => device[d].screen \in Screens
  BY DEF IInv, TypeOK, Device
<1> QED
  BY <1>2, <1>7, <1>10, <1>11, <1>12, SameDevices, SamePairings DEF Quiet

-----------------------------------------------------------------------------
(* Codes *)

LEMMA IssueKeeps ==
    ASSUME IInv, NEW t \in Tickets, NEW s \in Screens, IssueTicket(t, s)
    PROVE  IInv'
<1>1. Quiet /\ NoneByCode
  BY IssueQuiet
<1>2. /\ \A u \in Tickets \ {t} : TicketMoves(u) /\ ticket'[u] = Recalled({s})[u]
      /\ ticket'[t] # Null /\ ticket'[t].claimedBy = Null
      /\ ticket'[t].state = "READY" /\ ticket'[t].screen = s
  BY IssueQuiet
<1>3. ticket[t] = Null /\ pairing' = pairing /\ confirming' = confirming
  BY DEF IssueTicket, policy
<1>4. OneDevicePerScreen' /\ DeviceFollowsScreen'
  BY <1>1, DevicesQuiet DEF Quiet
<1>5. OneDevicePerPairing' /\ ApprovedHaveScreens' /\ DevicesMade' /\ ConfirmationsAgree'
  BY <1>1, <1>3, PairingsQuiet DEF Quiet, TypeOK
<1>6. TicketsAgree'
  <2>1. \A u \in Tickets : ticket'[u] # Null /\ ticket'[u].claimedBy # Null =>
            /\ ticket[u] # Null /\ ticket[u].claimedBy = ticket'[u].claimedBy
            /\ ticket[u].state = "CLAIMED" => ticket'[u].state = "CLAIMED"
    BY <1>2 DEF TicketMoves
  <2> QED
    BY <1>3, <2>1 DEF IInv, TicketsAgree
<1>7. \A r \in Requests, u \in Tickets : Claims(r, u)' <=> Claims(r, u)
  <2>1. \A r \in Requests : r # Null
    BY NullAssumption
  <2> QED
    BY <1>2, <1>3, <2>1 DEF Claims, TicketMoves
<1>8. \A u \in Tickets \ {t} : ticket'[u] # Null /\ ticket'[u].state = "READY" =>
          /\ ticket[u] # Null /\ ticket[u].state = "READY"
          /\ ticket[u].screen = ticket'[u].screen /\ ticket'[u].screen # s
  <2> SUFFICES ASSUME NEW u \in Tickets \ {t}, ticket'[u] # Null, ticket'[u].state = "READY"
               PROVE  /\ ticket[u] # Null /\ ticket[u].state = "READY"
                      /\ ticket[u].screen = ticket'[u].screen /\ ticket'[u].screen # s
    OBVIOUS
  <2>1. ticket[u] # Null /\ ticket[u].state = "READY" /\ ticket[u].screen = ticket'[u].screen
    BY <1>2 DEF TicketMoves
  <2>2. ticket[u] \in Ticket
    BY <2>1 DEF IInv, TypeOK
  <2>3. ticket[u].screen # s
    BY <1>2, <2>1, <2>2 DEF Recalled, Ticket
  <2> QED
    BY <2>1, <2>3
<1>9. ASSUME NEW u \in Tickets, NEW v \in Tickets, ticket'[u] # Null, ticket'[v] # Null,
             ticket'[u].screen = ticket'[v].screen,
             ticket'[u].state = "READY", ticket'[v].state = "READY"
      PROVE  u = v
  BY <1>2, <1>8, <1>9 DEF IInv, CodeAdmitsOnce
<1>10. ASSUME NEW r \in Requests, pairing'[r] # Null, pairing'[r].source = "SCREEN"
       PROVE  \E u \in Tickets : \A v \in Tickets : Claims(r, v)' <=> v = u
  BY <1>3, <1>7, <1>10 DEF IInv, CodeAdmitsOnce
<1>11. CodeAdmitsOnce'
  BY <1>9, <1>10 DEF CodeAdmitsOnce, Claims
<1> QED
  BY <1>1, <1>4, <1>5, <1>6, <1>11 DEF IInv, Quiet

\* The pairing that claims a code is new, so no other code was claimed by it, and
\* the code was not claimed before.
LEMMA ClaimKeeps ==
    ASSUME IInv, NEW t \in Tickets, NEW r \in Requests, ClaimTicket(t, r)
    PROVE  IInv'
<1>1. /\ Quiet
      /\ ticket[t] # Null /\ ticket[t].state = "READY" /\ pairing[r] = Null
      /\ ticket'[t] # Null /\ ticket'[t].claimedBy = r /\ ticket'[t].state = "CLAIMED"
      /\ \A u \in Tickets \ {t} : ticket'[u] = ticket[u]
      /\ pairing'[r] # Null
      /\ \A p \in Requests \ {r} : pairing'[p] = pairing[p]
  BY ClaimQuiet
<1>2. confirming' = confirming
  BY DEF ClaimTicket, policy
<1>3. OneDevicePerScreen' /\ DeviceFollowsScreen'
  BY <1>1, DevicesQuiet DEF Quiet
<1>4. OneDevicePerPairing' /\ ApprovedHaveScreens' /\ DevicesMade' /\ ConfirmationsAgree'
  BY <1>1, <1>2, PairingsQuiet DEF Quiet, TypeOK
<1>5. ticket \in [Tickets -> Ticket \cup {Null}]
  BY DEF IInv, TypeOK
<1>6. \A u \in Tickets : ticket[u] # Null => ticket[u].claimedBy # r
  BY <1>1, NullAssumption DEF IInv, TicketsAgree
<1>7. ticket[t].claimedBy = Null
  BY <1>1 DEF IInv, TicketsAgree
<1>8. TicketsAgree'
  <2> SUFFICES ASSUME NEW u \in Tickets, ticket'[u] # Null, ticket'[u].claimedBy # Null
               PROVE  ticket'[u].state = "CLAIMED" /\ pairing'[ticket'[u].claimedBy] # Null
    BY DEF TicketsAgree
  <2>1. CASE u = t
    BY <1>1, <2>1
  <2>2. CASE u # t
    <3>1. ticket'[u] = ticket[u] /\ ticket[u].claimedBy \in Requests
      BY <1>1, <1>5, <2>2 DEF Ticket
    <3>2. ticket[u].state = "CLAIMED" /\ pairing[ticket[u].claimedBy] # Null
      BY <3>1 DEF IInv, TicketsAgree
    <3> QED
      BY <1>1, <3>1, <3>2
  <2> QED
    BY <2>1, <2>2
<1>9. \A u \in Tickets : Claims(r, u)' <=> u = t
  BY <1>1, <1>6 DEF Claims
<1>10. \A p \in Requests \ {r}, u \in Tickets : Claims(p, u)' <=> Claims(p, u)
  <2>1. \A p \in Requests : p # Null
    BY NullAssumption
  <2> QED
    BY <1>1, <1>7, <2>1 DEF Claims
<1>11. ASSUME NEW p \in Requests, pairing'[p] # Null, pairing'[p].source = "SCREEN"
       PROVE  \E u \in Tickets : \A v \in Tickets : Claims(p, v)' <=> v = u
  <2>1. CASE p = r
    BY <1>9, <2>1
  <2>2. CASE p # r
    BY <1>1, <1>10, <1>11, <2>2 DEF IInv, CodeAdmitsOnce
  <2> QED
    BY <2>1, <2>2
<1>12. ASSUME NEW u \in Tickets, NEW v \in Tickets, ticket'[u] # Null, ticket'[v] # Null,
              ticket'[u].screen = ticket'[v].screen,
              ticket'[u].state = "READY", ticket'[v].state = "READY"
       PROVE  u = v
  <2>1. u # t /\ v # t
    BY <1>1, <1>12
  <2> QED
    BY <1>1, <1>12, <2>1 DEF IInv, CodeAdmitsOnce
<1>13. CodeAdmitsOnce'
  BY <1>11, <1>12 DEF CodeAdmitsOnce, Claims
<1> QED
  BY <1>1, <1>3, <1>4, <1>8, <1>13 DEF IInv, Quiet

-----------------------------------------------------------------------------
(* Confirmations *)

LEMMA ReadKeeps ==
    ASSUME IInv, NEW h \in Handlers, NEW r \in Requests, NEW d \in Devices, ReadPairing(h, r, d)
    PROVE  Quiet /\ IInv'
<1> DEFINE c == [request |-> r, device |-> d, read |-> pairing[r]]
<1>1. /\ pairing[r] # Null /\ pairing[r].state \in {"APPROVED", "ACTIVATED"}
      /\ confirming' = [confirming EXCEPT ![h] = c]
      /\ UNCHANGED <<screen, closed, authorized, password, epoch, pairing, ticket, device>>
  BY DEF ReadPairing, Valid, policy
<1>2. confirming \in [Handlers -> Confirmation \cup {Null}] /\ pairing[r] \in Pairing
  BY <1>1 DEF IInv, TypeOK
<1>3. c \in Confirmation /\ c.request = r /\ c.read = pairing[r]
  BY <1>2 DEF Confirmation
<1> HIDE DEF c
<1>4. /\ confirming' \in [Handlers -> Confirmation \cup {Null}] /\ confirming'[h] = c
      /\ \A g \in Handlers \ {h} : confirming'[g] = confirming[g]
  BY <1>1, <1>2, <1>3
<1>5. Quiet
  BY <1>1, <1>4, SameDevices, SamePairings, StandingQuiet DEF IInv, TypeOK
<1>6. OneDevicePerScreen' /\ DeviceFollowsScreen'
  BY <1>5, DevicesQuiet DEF Quiet
<1>7. OneDevicePerPairing' /\ ApprovedHaveScreens' /\ DevicesMade'
  BY <1>1 DEF IInv, OneDevicePerPairing, ApprovedHaveScreens, DevicesMade
<1>8. ConfirmationsAgree'
  <2> SUFFICES ASSUME NEW g \in Handlers, confirming'[g] # Null
               PROVE  /\ pairing'[confirming'[g].request] # Null
                      /\ pairing'[confirming'[g].request].state # "PENDING"
                      /\ pairing'[confirming'[g].request].screen = confirming'[g].read.screen
                      /\ confirming'[g].read.screen # Null
    BY DEF ConfirmationsAgree
  <2>1. CASE g = h
    BY <1>1, <1>3, <1>4, <2>1 DEF IInv, ApprovedHaveScreens
  <2>2. CASE g # h
    BY <1>1, <1>4, <2>2 DEF IInv, ConfirmationsAgree
  <2> QED
    BY <2>1, <2>2
<1>9. TicketsAgree' /\ CodeAdmitsOnce'
  BY <1>1 DEF IInv, TicketsAgree, CodeAdmitsOnce, Claims
<1> QED
  BY <1>5, <1>6, <1>7, <1>8, <1>9 DEF IInv, Quiet

LEMMA EndConfirmationKeeps ==
    ASSUME IInv, NEW h \in Handlers, EndConfirmation(h)
    PROVE  Quiet /\ IInv'
<1>1. /\ confirming' = [confirming EXCEPT ![h] = Null]
      /\ UNCHANGED <<screen, closed, authorized, password, epoch, pairing, ticket, device>>
  BY DEF EndConfirmation, policy
<1>2. confirming \in [Handlers -> Confirmation \cup {Null}]
  BY DEF IInv, TypeOK
<1>3. /\ confirming' \in [Handlers -> Confirmation \cup {Null}]
      /\ \A g \in Handlers : confirming'[g] = Null \/ confirming'[g] = confirming[g]
  BY <1>1, <1>2
<1>4. Quiet
  BY <1>1, <1>3, SameDevices, SamePairings, StandingQuiet DEF IInv, TypeOK
<1> QED
  BY <1>1, <1>3, <1>4, SamePairings, SameTickets, QuietKeeps

\* What a confirmation finds under its locks, and what it makes of it.
LEMMA ActivateFacts ==
    ASSUME IInv, NEW h \in Handlers, Activate(h)
    PROVE  \E r \in Requests, d \in Devices, s \in Screens :
              /\ pairing[r] # Null /\ pairing[r].state = "APPROVED" /\ pairing[r].screen = s
              /\ Open(s) /\ Authority(pairing[r]) /\ Available(s) /\ device[d] = Null
              /\ device' = [Freed(s) EXCEPT ![d] = NewDevice(s)]
              /\ pairing' = [pairing EXCEPT ![r] =
                                [pairing[r] EXCEPT !.state = "ACTIVATED", !.device = d]]
<1> DEFINE c == confirming[h]
<1>1. c # Null /\ c \in Confirmation
  BY DEF Activate, IInv, TypeOK
<1>2. c.request \in Requests /\ c.device \in Devices /\ c.read \in Pairing
  BY <1>1 DEF Confirmation
<1>3. /\ pairing[c.request] # Null /\ pairing[c.request].screen = c.read.screen
      /\ c.read.screen # Null
  BY <1>1 DEF IInv, ConfirmationsAgree
<1>4. c.read.screen \in Screens
  BY <1>2, <1>3 DEF Pairing
<1>5. pairing \in [Requests -> Pairing \cup {Null}]
  BY DEF IInv, TypeOK
<1>6. /\ pairing[c.request].state = "APPROVED" /\ Open(c.read.screen)
      /\ Authority(pairing[c.request])
      /\ Available(c.read.screen) /\ device[c.device] = Null
      /\ device' = [Freed(c.read.screen) EXCEPT ![c.device] = NewDevice(c.read.screen)]
      /\ pairing' = [pairing EXCEPT ![c.request].state = "ACTIVATED",
                                     ![c.request].device = c.device]
  BY DEF Activate, Locked
<1>7. pairing' = [pairing EXCEPT ![c.request] =
                     [pairing[c.request] EXCEPT !.state = "ACTIVATED", !.device = c.device]]
  BY <1>2, <1>5, <1>6
<1> QED
  BY <1>2, <1>3, <1>4, <1>6, <1>7

\* The new device is the only one at its screen: whoever held it had lapsed and
\* is marked as such in the same step.
LEMMA ActivateKeeps ==
    ASSUME IInv, NEW h \in Handlers, Activate(h)
    PROVE  IInv'
<1>1. PICK r \in Requests, d \in Devices, s \in Screens :
              /\ pairing[r] # Null /\ pairing[r].state = "APPROVED" /\ pairing[r].screen = s
              /\ Open(s) /\ Authority(pairing[r]) /\ Available(s) /\ device[d] = Null
              /\ device' = [Freed(s) EXCEPT ![d] = NewDevice(s)]
              /\ pairing' = [pairing EXCEPT ![r] =
                                [pairing[r] EXCEPT !.state = "ACTIVATED", !.device = d]]
  BY ActivateFacts
<1> DEFINE n == NewDevice(s)
           q == [pairing[r] EXCEPT !.state = "ACTIVATED", !.device = d]
<1>2. /\ confirming' = [confirming EXCEPT ![h] = Null]
      /\ UNCHANGED <<screen, closed, authorized, password, epoch, ticket>>
  BY DEF Activate, policy
<1>3. /\ confirming' \in [Handlers -> Confirmation \cup {Null}]
      /\ \A g \in Handlers : confirming'[g] = Null \/ confirming'[g] = confirming[g]
  BY <1>2 DEF IInv, TypeOK
<1>4. screen[s] \in Screen /\ epoch \in Epochs
  BY DEF IInv, TypeOK
<1>5. /\ n \in Device /\ n.state = "ACTIVE" /\ n.screen = s /\ n.class = screen[s].class
      /\ n.revision = screen[s].revision /\ n.epoch = epoch /\ ~n.lapsed
  BY <1>4 DEF NewDevice, Device, Screen
<1>6. pairing[r] \in Pairing /\ pairing \in [Requests -> Pairing \cup {Null}]
  BY <1>1 DEF IInv, TypeOK
<1>7. /\ q \in Pairing /\ q.state = "ACTIVATED" /\ q.device = d /\ q.screen = s
      /\ q.source = pairing[r].source
  BY <1>1, <1>6 DEF Pairing
<1>8. pairing' = [pairing EXCEPT ![r] = q] /\ device' = [Freed(s) EXCEPT ![d] = n]
  BY <1>1
<1> HIDE DEF n, q
<1>9. q # Null /\ n # Null /\ d # Null
  BY <1>5, <1>7, NullAssumption
<1>10. /\ pairing'[r] = q /\ \A p \in Requests \ {r} : pairing'[p] = pairing[p]
       /\ pairing' \in [Requests -> Pairing \cup {Null}]
  BY <1>6, <1>7, <1>8
<1>11. device'[d] = n /\ \A e \in Devices \ {d} : device'[e] = Freed(s)[e]
  BY <1>8 DEF Freed
<1>12. ASSUME NEW e \in Devices \ {d}
       PROVE  /\ DeviceEnds(e) /\ device'[e] \in Device \cup {Null}
              /\ device'[e] # Null /\ device'[e].state = "ACTIVE" => device[e].screen # s
  <2>1. CASE Holds(s, e)
    <3>1. device[e] # Null /\ device[e].lapsed
      BY <1>1, <2>1 DEF Available, Holds
    <3>2. device'[e] = [device[e] EXCEPT !.state = "EXPIRED"]
      BY <1>11, <2>1, <3>1 DEF Freed
    <3>3. device[e] \in Device
      BY <3>1 DEF IInv, TypeOK
    <3>4. device'[e].state = "EXPIRED"
      BY <3>2, <3>3 DEF Device
    <3> QED
      BY <3>1, <3>2, <3>4, EndedDevice
  <2>2. CASE ~Holds(s, e)
    <3>1. device'[e] = device[e]
      BY <1>11, <2>2 DEF Freed
    <3> QED
      BY <2>2, <3>1 DEF DeviceEnds, Holds, IInv, TypeOK
  <2> QED
    BY <2>1, <2>2
<1>13. device' \in [Devices -> Device \cup {Null}]
  <2>1. device' = [e \in Devices |-> device'[e]]
    BY <1>8 DEF Freed
  <2> QED
    BY <1>5, <1>11, <1>12, <2>1
<1>14. TypeOK'
  BY <1>2, <1>3, <1>10, <1>13 DEF IInv, TypeOK
<1>15. OneDevicePerScreen'
  <2> SUFFICES ASSUME NEW x \in Screens, NEW e \in Devices, NEW f \in Devices,
                      device'[e] # Null, device'[e].screen = x, device'[e].state = "ACTIVE",
                      device'[f] # Null, device'[f].screen = x, device'[f].state = "ACTIVE"
               PROVE  e = f
    BY DEF OneDevicePerScreen, Holds
  <2>1. \A g \in Devices \ {d} : device'[g] # Null /\ device'[g].state = "ACTIVE" =>
            /\ device[g] # Null /\ device[g].state = "ACTIVE"
            /\ device'[g].screen = device[g].screen /\ device[g].screen # s
    BY <1>12 DEF DeviceEnds
  <2>2. CASE e # d /\ f # d
    BY <2>1, <2>2 DEF IInv, OneDevicePerScreen, Holds
  <2>3. CASE e = d \/ f = d
    BY <1>5, <1>11, <2>1, <2>3
  <2> QED
    BY <2>2, <2>3
<1>16. DeviceFollowsScreen'
  <2> SUFFICES ASSUME NEW e \in Devices, device'[e] # Null, device'[e].state = "ACTIVE"
               PROVE  /\ device'[e].revision = screen[device'[e].screen].revision
                      /\ device'[e].class = screen[device'[e].screen].class
                      /\ device'[e].epoch = epoch
                      /\ screen[device'[e].screen].active
                      /\ screen[device'[e].screen].class \notin closed
    BY <1>2 DEF DeviceFollowsScreen, Open
  <2>1. CASE e = d
    BY <1>1, <1>5, <1>11, <2>1 DEF Open
  <2>2. CASE e # d
    BY <1>12, <2>2 DEF DeviceEnds, IInv, DeviceFollowsScreen, Open
  <2> QED
    BY <2>1, <2>2
<1>17. \A p \in Requests : pairing[p] # Null => pairing[p].device # d
  BY <1>1, <1>9 DEF IInv, DevicesMade
<1>18. \A p \in Requests : pairing[p] # Null => pairing[p].device \in Devices \cup {Null}
  BY <1>6 DEF Pairing
<1>19. \A e \in Devices \ {d} :
           /\ device[e] # Null => device'[e] # Null /\ device'[e].screen = device[e].screen
           /\ device'[e] # Null => device[e] # Null
  BY <1>12 DEF DeviceEnds
<1>20. OneDevicePerPairing'
  <2>1. ASSUME NEW p \in Requests, pairing'[p] # Null, pairing'[p].state = "ACTIVATED"
        PROVE  /\ pairing'[p].device # Null
               /\ device'[pairing'[p].device] # Null
               /\ device'[pairing'[p].device].screen = pairing'[p].screen
    <3>1. CASE p = r
      BY <1>5, <1>7, <1>9, <1>10, <1>11, <3>1
    <3>2. CASE p # r
      BY <1>10, <1>17, <1>18, <1>19, <2>1, <3>2 DEF IInv, OneDevicePerPairing
    <3> QED
      BY <3>1, <3>2
  <2>2. ASSUME NEW p \in Requests, NEW o \in Requests, pairing'[p] # Null, pairing'[o] # Null,
               pairing'[p].device # Null, pairing'[p].device = pairing'[o].device
        PROVE  p = o
    <3>1. CASE p = r \/ o = r
      BY <1>7, <1>10, <1>17, <2>2, <3>1
    <3>2. CASE p # r /\ o # r
      BY <1>10, <2>2, <3>2 DEF IInv, OneDevicePerPairing
    <3> QED
      BY <3>1, <3>2
  <2>3. ASSUME NEW e \in Devices, device'[e] # Null
        PROVE  \E p \in Requests : pairing'[p] # Null /\ pairing'[p].device = e
    <3>1. CASE e = d
      BY <1>7, <1>9, <1>10, <3>1
    <3>2. CASE e # d
      <4>1. PICK p \in Requests : pairing[p] # Null /\ pairing[p].device = e
        BY <1>19, <2>3, <3>2 DEF IInv, OneDevicePerPairing
      <4>2. p # r
        BY <1>1, <4>1, NullAssumption DEF IInv, DevicesMade
      <4> QED
        BY <1>10, <4>1, <4>2
    <3> QED
      BY <3>1, <3>2
  <2> QED
    BY <2>1, <2>2, <2>3 DEF OneDevicePerPairing
<1>21. ApprovedHaveScreens'
  <2>1. s # Null
    BY NullAssumption
  <2> QED
    BY <1>7, <1>10, <2>1 DEF IInv, ApprovedHaveScreens
<1>22. DevicesMade'
  <2> SUFFICES ASSUME NEW p \in Requests, pairing'[p] # Null
               PROVE  /\ pairing'[p].state \in {"PENDING", "APPROVED"} => pairing'[p].device = Null
                      /\ pairing'[p].device # Null => device'[pairing'[p].device] # Null
    BY DEF DevicesMade
  <2>1. CASE p = r
    BY <1>7, <1>9, <1>10, <1>11, <2>1
  <2>2. CASE p # r
    BY <1>10, <1>17, <1>18, <1>19, <2>2 DEF IInv, DevicesMade
  <2> QED
    BY <2>1, <2>2
<1>23. ConfirmationsAgree'
  <2> SUFFICES ASSUME NEW g \in Handlers, confirming'[g] # Null
               PROVE  /\ pairing'[confirming'[g].request] # Null
                      /\ pairing'[confirming'[g].request].state # "PENDING"
                      /\ pairing'[confirming'[g].request].screen = confirming'[g].read.screen
                      /\ confirming'[g].read.screen # Null
    BY DEF ConfirmationsAgree
  <2>1. confirming'[g] = confirming[g] /\ confirming[g] \in Confirmation
    BY <1>3 DEF IInv, TypeOK
  <2>2. confirming[g].request \in Requests
    BY <2>1 DEF Confirmation
  <2>3. /\ pairing[confirming[g].request] # Null
        /\ pairing[confirming[g].request].state # "PENDING"
        /\ pairing[confirming[g].request].screen = confirming[g].read.screen
        /\ confirming[g].read.screen # Null
    BY <2>1 DEF IInv, ConfirmationsAgree
  <2>4. CASE confirming[g].request = r
    BY <1>1, <1>7, <1>9, <1>10, <2>1, <2>3, <2>4
  <2>5. CASE confirming[g].request # r
    BY <1>10, <2>1, <2>2, <2>3, <2>5
  <2> QED
    BY <2>4, <2>5
<1>24. \A p \in Requests : pairing'[p] # Null =>
           pairing[p] # Null /\ pairing'[p].source = pairing[p].source
  BY <1>1, <1>7, <1>10
<1>25. TicketsAgree'
  <2>1. \A p \in Requests : pairing[p] # Null => pairing'[p] # Null
    BY <1>9, <1>10
  <2>2. \A t \in Tickets : ticket[t] # Null => ticket[t].claimedBy \in Requests \cup {Null}
    BY DEF IInv, TypeOK, Ticket
  <2> QED
    BY <1>2, <2>1, <2>2 DEF IInv, TicketsAgree
<1>26. CodeAdmitsOnce'
  BY <1>2, <1>24 DEF IInv, CodeAdmitsOnce, Claims
<1> QED
  BY <1>14, <1>15, <1>16, <1>20, <1>21, <1>22, <1>23, <1>25, <1>26 DEF IInv

-----------------------------------------------------------------------------
(* The invariant *)

\* Every step is quiet or a confirmation that succeeds.
LEMMA StepIsQuiet ==
    ASSUME IInv, Next
    PROVE  IInv' /\ (Quiet \/ \E h \in Handlers : Activate(h))
<1>1. ASSUME NEW r \in Requests, NEW s \in Screens, NEW a \in Admins, Approve(a, r, s)
      PROVE  IInv' /\ Quiet
  <2>1. Quiet /\ NoneByCode
    BY <1>1, ApproveQuiet
  <2>2. ticket' = ticket /\ confirming' = confirming
    BY <1>1 DEF Approve
  <2> QED
    BY <2>1, <2>2, SameTickets, QuietKeeps
<1>2. ASSUME NEW r \in Requests, Create(r) \/ Cancel(r) \/ LapsePairing(r)
      PROVE  IInv' /\ Quiet
  <2>1. Quiet /\ NoneByCode
    BY <1>2, CreateQuiet, CancelQuiet, LapseQuiet
  <2>2. ticket' = ticket /\ confirming' = confirming
    BY <1>2 DEF Create, Cancel, LapsePairing
  <2> QED
    BY <2>1, <2>2, SameTickets, QuietKeeps
<1>3. ASSUME NEW r \in Requests, NEW s \in Screens, ApplyForClass(r, s) \/ EnterPassword(r, s)
      PROVE  IInv' /\ Quiet
  <2>1. Quiet /\ NoneByCode
    BY <1>3, ApplyQuiet, PasswordQuiet
  <2>2. ticket' = ticket /\ confirming' = confirming
    BY <1>3 DEF ApplyForClass, EnterPassword
  <2> QED
    BY <2>1, <2>2, SameTickets, QuietKeeps
<1>4. ASSUME NEW t \in Tickets, NEW r \in Requests, ClaimTicket(t, r)
      PROVE  IInv' /\ Quiet
  BY <1>4, ClaimQuiet, ClaimKeeps
<1>5. ASSUME NEW h \in Handlers, NEW r \in Requests, NEW d \in Devices, ReadPairing(h, r, d)
      PROVE  IInv' /\ Quiet
  BY <1>5, ReadKeeps
<1>6. ASSUME NEW t \in Tickets, NEW s \in Screens, IssueTicket(t, s)
      PROVE  IInv' /\ Quiet
  BY <1>6, IssueQuiet, IssueKeeps
<1>7. ASSUME NEW h \in Handlers, EndConfirmation(h)
      PROVE  IInv' /\ Quiet
  BY <1>7, EndConfirmationKeeps
<1>8. CASE Environment
  <2>1. ASSUME NEW d \in Devices, RevokeDevice(d) \/ LapseDevice(d)
        PROVE  Quiet /\ NoneByCode /\ ticket' = ticket /\ confirming' = confirming
    BY <2>1, EndDeviceQuiet DEF RevokeDevice, LapseDevice
  <2>2. ASSUME NEW s \in Screens, ChangeScreen(s)
        PROVE  Quiet /\ NoneByCode /\ ticket' = ticket /\ confirming' = confirming
    BY <2>2, ChangeScreenQuiet DEF ChangeScreen
  <2>3. ASSUME NEW s \in Screens, SetAccess(s) \/ SetPassword(s)
        PROVE  Quiet /\ NoneByCode /\ (\A t \in Tickets : TicketMoves(t)) /\ confirming' = confirming
    BY <2>3, AccessQuiet DEF SetAccess, SetPassword
  <2>4. ASSUME NEW c \in Classes, CloseClass(c) \/ OpenClass(c)
        PROVE  Quiet /\ NoneByCode /\ ticket' = ticket /\ confirming' = confirming
    BY <2>4, CloseClassQuiet, OpenClassQuiet DEF CloseClass, OpenClass
  <2>5. ASSUME NEW a \in Admins, ChangeAuthority(a)
        PROVE  Quiet /\ NoneByCode /\ ticket' = ticket /\ confirming' = confirming
    BY <2>5, AuthorityQuiet DEF ChangeAuthority
  <2>6. ASSUME NEW t \in Tickets, LapseTicket(t)
        PROVE  Quiet /\ NoneByCode /\ (\A u \in Tickets : TicketMoves(u)) /\ confirming' = confirming
    BY <2>6, LapseTicketQuiet DEF LapseTicket
  <2>7. CASE Redeploy
    <3>1. Quiet /\ NoneByCode /\ ticket' = ticket /\ confirming' = confirming
      BY <2>7, RedeployQuiet DEF Redeploy
    <3> QED
      BY <3>1, SameTickets, QuietKeeps
  <2>8. CASE \E r \in Requests : LapsePairing(r)
    BY <1>2, <2>8
  <2> QED
    BY <1>8, <2>1, <2>2, <2>3, <2>4, <2>5, <2>6, <2>7, <2>8, SameTickets, QuietKeeps
       DEF Environment
<1>9. ASSUME NEW h \in Handlers, Activate(h)
      PROVE  IInv'
  BY <1>9, ActivateKeeps
<1> QED
  BY <1>1, <1>2, <1>3, <1>4, <1>5, <1>6, <1>7, <1>8, <1>9 DEF Next

LEMMA InitEstablishes == Init => IInv
<1> SUFFICES ASSUME Init PROVE IInv
  OBVIOUS
<1>1. TypeOK
  BY BoundAssumption, ChoiceAssumption DEF Init, TypeOK, Screen, Revisions, Epochs
<1>2. /\ \A r \in Requests : pairing[r] = Null
      /\ \A t \in Tickets : ticket[t] = Null
      /\ \A d \in Devices : device[d] = Null
      /\ \A h \in Handlers : confirming[h] = Null
  BY DEF Init
<1> QED
  BY <1>1, <1>2 DEF IInv, OneDevicePerScreen, Holds, DeviceFollowsScreen, OneDevicePerPairing,
     ApprovedHaveScreens, DevicesMade, ConfirmationsAgree, TicketsAgree, CodeAdmitsOnce

LEMMA StutterKeeps == ASSUME IInv, UNCHANGED vars PROVE IInv' /\ Quiet
<1>1. /\ screen' = screen /\ closed' = closed /\ authorized' = authorized
      /\ password' = password /\ epoch' = epoch /\ pairing' = pairing /\ ticket' = ticket
      /\ device' = device /\ confirming' = confirming
  BY DEF vars
<1>2. Quiet
  BY <1>1, SameDevices, SamePairings, StandingQuiet DEF IInv, TypeOK
<1> QED
  BY <1>1, <1>2, SamePairings, SameTickets, QuietKeeps

LEMMA Invariance == Spec => []IInv
<1>1. IInv /\ [Next]_vars => IInv'
  BY StepIsQuiet, StutterKeeps
<1> QED
  BY <1>1, InitEstablishes, PTL DEF Spec

\* The types of the state hold in every run.
THEOREM PairingTypeCorrect == Spec => []TypeOK
<1>1. IInv => TypeOK
  BY DEF IInv
<1> QED
  BY <1>1, Invariance, PTL

\* Whichever confirmations are served at the same time, one device at most is
\* active at a screen.
THEOREM ScreensHaveOneDevice == Spec => []OneDevicePerScreen
<1>1. IInv => OneDevicePerScreen
  BY DEF IInv
<1> QED
  BY <1>1, Invariance, PTL

\* An active device agrees with its screen, class and deployment as they are now.
THEOREM DevicesFollowScreens == Spec => []DeviceFollowsScreen
<1>1. IInv => DeviceFollowsScreen
  BY DEF IInv
<1> QED
  BY <1>1, Invariance, PTL

\* Devices and the pairings that made them correspond one to one.
THEOREM PairingsMakeOneDevice == Spec => []OneDevicePerPairing
<1>1. IInv => OneDevicePerPairing
  BY DEF IInv
<1> QED
  BY <1>1, Invariance, PTL

\* A code admits one installation.
THEOREM CodesAdmitOnce == Spec => []CodeAdmitsOnce
<1>1. IInv => CodeAdmitsOnce
  BY DEF IInv
<1> QED
  BY <1>1, Invariance, PTL

-----------------------------------------------------------------------------
(* What no step does *)

\* A pairing becomes a device only while what admitted it still stands.
THEOREM AdmissionsStand == Spec => AdmissionStands
<1>1. ASSUME IInv, [Next]_vars, NEW r \in Requests, Activated(r)
      PROVE  LET q == pairing[r]
                 s == screen[q.screen]
             IN  /\ q.source \in ByAdministrator => q.approver \in authorized
                 /\ q.source \in ByScreen =>
                       s.enabled /\ s.access = q.access /\ s.credential = q.credential
                 /\ q.source = "CLASS_PASSWORD" => q.password = password[s.class]
                 /\ Open(q.screen)
  <2>1. ~Quiet
    BY <1>1 DEF Quiet, PairingMoves, Activated
  <2>2. PICK h \in Handlers : Activate(h)
    BY <1>1, <2>1, StepIsQuiet, StutterKeeps
  <2>3. PICK p \in Requests, d \in Devices, s \in Screens :
              /\ pairing[p] # Null /\ pairing[p].state = "APPROVED" /\ pairing[p].screen = s
              /\ Open(s) /\ Authority(pairing[p]) /\ Available(s) /\ device[d] = Null
              /\ device' = [Freed(s) EXCEPT ![d] = NewDevice(s)]
              /\ pairing' = [pairing EXCEPT ![p] =
                                [pairing[p] EXCEPT !.state = "ACTIVATED", !.device = d]]
    BY <1>1, <2>2, ActivateFacts
  <2>4. p = r
    <3>1. p # r => pairing'[r] = pairing[r]
      BY <1>1, <2>3 DEF IInv, TypeOK
    <3> QED
      BY <1>1, <3>1 DEF Activated
  <2> QED
    BY <2>3, <2>4 DEF Authority, Admission
<1>2. IInv /\ [Next]_vars =>
        [\A r \in Requests : Activated(r) =>
          LET q == pairing[r]
              s == screen[q.screen]
          IN  /\ q.source \in ByAdministrator => q.approver \in authorized
              /\ q.source \in ByScreen =>
                    s.enabled /\ s.access = q.access /\ s.credential = q.credential
              /\ q.source = "CLASS_PASSWORD" => q.password = password[s.class]
              /\ Open(q.screen)]_vars
  BY <1>1
<1> QED
  BY <1>2, Invariance, PTL DEF Spec, AdmissionStands

\* A device that was shut out never gets in again.
THEOREM ShutOutDevicesStayOut == Spec => ShutOutForGood
<1>1. ASSUME IInv, [Next]_vars, NEW d \in Devices, device[d] # Null, Usable(d)'
      PROVE  Usable(d)
  <2>1. DeviceEnds(d)
    <3>1. CASE Quiet
      BY <3>1 DEF Quiet
    <3>2. CASE \E h \in Handlers : Activate(h)
      <4>1. PICK p \in Requests, e \in Devices, s \in Screens :
              /\ pairing[p] # Null /\ pairing[p].state = "APPROVED" /\ pairing[p].screen = s
              /\ Open(s) /\ Authority(pairing[p]) /\ Available(s) /\ device[e] = Null
              /\ device' = [Freed(s) EXCEPT ![e] = NewDevice(s)]
              /\ pairing' = [pairing EXCEPT ![p] =
                                [pairing[p] EXCEPT !.state = "ACTIVATED", !.device = e]]
        BY <1>1, <3>2, ActivateFacts
      <4>2. device'[d] = Freed(s)[d]
        BY <1>1, <4>1 DEF Freed
      <4>3. CASE Holds(s, d) /\ device[d].lapsed
        <5>1. device'[d] = [device[d] EXCEPT !.state = "EXPIRED"]
          BY <4>2, <4>3 DEF Freed
        <5> QED
          BY <1>1, <5>1, EndedDevice
      <4>4. CASE ~(Holds(s, d) /\ device[d].lapsed)
        <5>1. device'[d] = device[d]
          BY <4>2, <4>4 DEF Freed
        <5> QED
          BY <1>1, <5>1 DEF DeviceEnds
      <4> QED
        BY <4>3, <4>4
    <3> QED
      BY <1>1, <3>1, <3>2, StepIsQuiet, StutterKeeps
  <2>2. device'[d].state = "ACTIVE" /\ ~device'[d].lapsed
    BY <1>1 DEF Usable
  <2>3. device[d].state = "ACTIVE" /\ ~device[d].lapsed
    BY <1>1, <2>1, <2>2 DEF DeviceEnds
  <2> QED
    BY <1>1, <2>3 DEF Usable, IInv, DeviceFollowsScreen
<1>2. IInv /\ [Next]_vars =>
        [\A d \in Devices : device[d] # Null /\ ~Usable(d) => ~Usable(d)']_vars
  BY <1>1
<1> QED
  BY <1>2, Invariance, PTL DEF Spec, ShutOutForGood

\* What was cancelled stays so, and what was activated keeps its device.
THEOREM PairingsSettle == Spec => PairingSettles
<1>1. ASSUME IInv, [Next]_vars, NEW r \in Requests, pairing[r] # Null, pairing'[r] # pairing[r]
      PROVE  /\ pairing[r].state = "CANCELLED" => pairing'[r].state = "CANCELLED"
             /\ pairing[r].state = "ACTIVATED" =>
                   pairing'[r].state = "ACTIVATED" \/ epoch' # epoch
             /\ pairing[r].device # Null => pairing'[r].device = pairing[r].device
  <2>1. CASE Quiet
    BY <1>1, <2>1 DEF Quiet, PairingMoves
  <2>2. CASE \E h \in Handlers : Activate(h)
    <3>1. PICK p \in Requests, d \in Devices, s \in Screens :
              /\ pairing[p] # Null /\ pairing[p].state = "APPROVED" /\ pairing[p].screen = s
              /\ Open(s) /\ Authority(pairing[p]) /\ Available(s) /\ device[d] = Null
              /\ device' = [Freed(s) EXCEPT ![d] = NewDevice(s)]
              /\ pairing' = [pairing EXCEPT ![p] =
                                [pairing[p] EXCEPT !.state = "ACTIVATED", !.device = d]]
      BY <1>1, <2>2, ActivateFacts
    <3>2. p = r
      <4>1. p # r => pairing'[r] = pairing[r]
        BY <3>1 DEF IInv, TypeOK
      <4> QED
        BY <1>1, <4>1
    <3> QED
      BY <1>1, <3>1, <3>2 DEF IInv, DevicesMade
  <2> QED
    BY <1>1, <2>1, <2>2, StepIsQuiet, StutterKeeps
<1>2. IInv /\ [Next]_vars =>
        [\A r \in Requests : pairing[r] # Null /\ pairing'[r] # pairing[r] =>
          /\ pairing[r].state = "CANCELLED" => pairing'[r].state = "CANCELLED"
          /\ pairing[r].state = "ACTIVATED" =>
                pairing'[r].state = "ACTIVATED" \/ epoch' # epoch
          /\ pairing[r].device # Null => pairing'[r].device = pairing[r].device]_vars
  BY <1>1
<1> QED
  BY <1>2, Invariance, PTL DEF Spec, PairingSettles

=============================================================================
