---------------------------- MODULE NpepPairing ----------------------------
(***************************************************************************)
(* How the software on a classroom machine becomes the device of a         *)
(* classroom screen (services/npepService.js, npepScreenPairing.js,        *)
(* npepClassAdmission.js).  An installation opens a pairing in one of four *)
(* ways, somebody with authority over the screen admits it, and the        *)
(* installation confirms: only then does a device with a credential exist. *)
(*                                                                         *)
(* Between these steps everything the admission rests on may change: the   *)
(* administrator may lose the role, the class may be closed, the screen    *)
(* may move, the policy, the password or the deployment may be replaced.   *)
(* Every transaction locks the school and then the screen, so it is one    *)
(* step here; a confirmation reads its pairing before it has those locks,  *)
(* which is a step of its own.  The database's fences (triggers of         *)
(* migration 20260920120000_npep_n1) run inside the step that trips them.  *)
(*                                                                         *)
(* Retries that only repeat an answer change nothing and are left out, and *)
(* so is the deletion of rows a day after they have lapsed.                *)
(***************************************************************************)
EXTENDS Naturals

CONSTANTS
    Screens,        \* ClassroomScreenBinding rows of one school
    Classes,        \* administrative classes
    Admins,         \* login sessions of the school's administrators
    Requests,       \* <<installationId, requestId>> of the pairings
    Tickets,        \* <<screen, requestId>> of the codes screens issue
    Devices,        \* credentialIds that installations choose
    Handlers,       \* confirmations served at the same time
    Sources,        \* the ways of pairing that are used
    Changes,        \* the changes of the environment that happen
    HomeClass,      \* the class of every screen in the beginning
    MaxRevision,    \* bound on every revision column
    MaxEpoch,       \* bound on the deployment epochs
    Null

Revisions == 1..MaxRevision
Epochs == 1..MaxEpoch
AllSources == {"ADMIN", "SCREEN", "CLASS_APPLY", "CLASS_PASSWORD"}
AllChanges == {"screen", "class", "authority", "access", "password", "deployment",
               "lapse", "lapseCode", "revoke", "cancel"}
ByAdministrator == {"ADMIN", "CLASS_APPLY"}
ByScreen == {"SCREEN", "CLASS_PASSWORD"}

\* The columns of a screen binding: isActive, administrativeClassId,
\* npepBindingRevision, npepPairingEnabled, npepPairingRevision and
\* credentialVersion.
Screen == [active: BOOLEAN, class: Classes, revision: Revisions, enabled: BOOLEAN,
           access: Revisions, credential: Revisions]

\* A row of NpepPairing.  What the approval was based on is 0 or Null before
\* the approval and where the source does not use it.
Pairing == [source: AllSources, state: {"PENDING", "APPROVED", "ACTIVATED", "CANCELLED"},
            screen: Screens \cup {Null}, approver: Admins \cup {Null},
            revision: 0..MaxRevision, access: 0..MaxRevision,
            credential: 0..MaxRevision, password: 0..MaxRevision,
            device: Devices \cup {Null}, epoch: Epochs, lapsed: BOOLEAN]

\* A row of NpepScreenPairingTicket.
Ticket == [state: {"READY", "CLAIMED", "CANCELLED"}, screen: Screens, revision: Revisions,
           access: Revisions, credential: Revisions, epoch: Epochs, lapsed: BOOLEAN,
           claimedBy: Requests \cup {Null}]

\* A row of NpepDevice.
Device == [state: {"ACTIVE", "EXPIRED", "REVOKED", "INVALIDATED"}, screen: Screens,
           class: Classes, revision: Revisions, epoch: Epochs, lapsed: BOOLEAN]

\* A confirmation that has read its pairing and waits for the locks.
Confirmation == [request: Requests, device: Devices, read: Pairing]

ASSUME BoundAssumption == MaxRevision \in Nat \ {0} /\ MaxEpoch \in Nat \ {0}
ASSUME NullAssumption == Null \notin Screens \cup Admins \cup Requests \cup Devices
                                     \cup Pairing \cup Ticket \cup Device \cup Confirmation
ASSUME ChoiceAssumption == /\ Sources \subseteq AllSources
                           /\ Changes \subseteq AllChanges
                           /\ HomeClass \in Classes

VARIABLES
    screen,         \* ClassroomScreenBinding
    closed,         \* classes whose workspace or term is not active
    authorized,     \* sessions of accounts that are administrators right now
    password,       \* NpepClassManagement: revision of a class's password, or 0
    epoch,          \* the deployment epoch
    pairing,        \* NpepPairing
    ticket,         \* NpepScreenPairingTicket
    device,         \* NpepDevice
    confirming      \* confirmations under way

vars == <<screen, closed, authorized, password, epoch, pairing, ticket, device, confirming>>
policy == <<closed, authorized, password, epoch>>

TypeOK ==
    /\ screen \in [Screens -> Screen]
    /\ closed \subseteq Classes
    /\ authorized \subseteq Admins
    /\ password \in [Classes -> 0..MaxRevision]
    /\ epoch \in Epochs
    /\ pairing \in [Requests -> Pairing \cup {Null}]
    /\ ticket \in [Tickets -> Ticket \cup {Null}]
    /\ device \in [Devices -> Device \cup {Null}]
    /\ confirming \in [Handlers -> Confirmation \cup {Null}]

Init ==
    /\ screen = [s \in Screens |->
                    [active |-> TRUE, class |-> HomeClass, revision |-> 1,
                     enabled |-> FALSE, access |-> 1, credential |-> 1]]
    /\ closed = {}
    /\ authorized = Admins
    /\ password = [c \in Classes |-> 0]
    /\ epoch = 1
    /\ pairing = [r \in Requests |-> Null]
    /\ ticket = [t \in Tickets |-> Null]
    /\ device = [d \in Devices |-> Null]
    /\ confirming = [h \in Handlers |-> Null]

-----------------------------------------------------------------------------
(* Helpers *)

\* binding(): the screen is in use by an open class.
Open(s) == screen[s].active /\ screen[s].class \notin closed

\* pairValid()
Valid(q) == q # Null /\ q.epoch = epoch /\ ~q.lapsed

Holds(s, d) == device[d] # Null /\ device[d].screen = s /\ device[d].state = "ACTIVE"

\* Mutant: any number of devices.
AvailableAny(s) == TRUE

\* available(): no device whose credential is still good holds the screen.
Available(s) == \A d \in Devices : Holds(s, d) => device[d].lapsed

\* available() also marks the devices of the screen whose time is over.
Freed(s) == [d \in Devices |-> IF Holds(s, d) /\ device[d].lapsed
                               THEN [device[d] EXCEPT !.state = "EXPIRED"]
                               ELSE device[d]]

\* assertScreenAdmission(): pairing is enabled on the screen, and neither its
\* policy nor its credentials have changed since.
Admission(s, q) == /\ screen[s].enabled
                   /\ q.access = screen[s].access
                   /\ q.credential = screen[s].credential

\* deviceValid(): what lets a device in, with its screen locked.
Usable(d) == LET v == device[d]
             IN  /\ v # Null /\ v.state = "ACTIVE" /\ v.epoch = epoch /\ ~v.lapsed
                 /\ Open(v.screen)
                 /\ v.revision = screen[v.screen].revision
                 /\ v.class = screen[v.screen].class

\* npep_revoke_binding() on devices.
Invalidated(ss) ==
    [d \in Devices |-> IF \E s \in ss : Holds(s, d)
                       THEN [device[d] EXCEPT !.state = "INVALIDATED"] ELSE device[d]]

\* Mutant: pairings that have made their device are taken back too.
WithdrawnAny(ss) ==
    [r \in Requests |-> IF pairing[r] # Null /\ pairing[r].screen \in ss
                        THEN [pairing[r] EXCEPT !.state = "CANCELLED"] ELSE pairing[r]]

\* npep_revoke_binding() on pairings that wait for their confirmation.
Withdrawn(ss) ==
    [r \in Requests |-> IF /\ pairing[r] # Null /\ pairing[r].state = "APPROVED"
                           /\ pairing[r].screen \in ss
                        THEN [pairing[r] EXCEPT !.state = "CANCELLED"] ELSE pairing[r]]

\* Mutant: devices keep their rows.
RevokePairings(ss) == /\ device' = device
                      /\ pairing' = Withdrawn(ss)

\* The fence of a screen whose revision moves on.
Revoke(ss) == /\ device' = Invalidated(ss)
              /\ pairing' = Withdrawn(ss)

\* READY codes of some screens are taken back.
Recalled(ss) ==
    [t \in Tickets |-> IF ticket[t] # Null /\ ticket[t].state = "READY" /\ ticket[t].screen \in ss
                       THEN [ticket[t] EXCEPT !.state = "CANCELLED"] ELSE ticket[t]]

-----------------------------------------------------------------------------
(* Opening a pairing *)

NewPairing(source, state, s) ==
    [source |-> source, state |-> state, screen |-> s, approver |-> Null, revision |-> 0,
     access |-> 0, credential |-> 0, password |-> 0, device |-> Null, epoch |-> epoch,
     lapsed |-> FALSE]

\* What a pairing is approved for.
Snapshot(q, s) == [q EXCEPT !.state = "APPROVED", !.screen = s,
                            !.revision = screen[s].revision]

\* Approved on the strength of the screen's policy.
Preauthorized(q, s) == [Snapshot(q, s) EXCEPT !.access = screen[s].access,
                                              !.credential = screen[s].credential]

Create(r) ==
    /\ "ADMIN" \in Sources
    /\ pairing[r] = Null
    /\ pairing' = [pairing EXCEPT ![r] = NewPairing("ADMIN", "PENDING", Null)]
    /\ UNCHANGED <<screen, policy, ticket, device, confirming>>

\* createClassPairing without a password: an application for one screen.
ApplyForClass(r, s) ==
    /\ "CLASS_APPLY" \in Sources
    /\ pairing[r] = Null
    /\ Open(s)
    /\ Available(s)
    /\ device' = Freed(s)
    /\ pairing' = [pairing EXCEPT ![r] = NewPairing("CLASS_APPLY", "PENDING", s)]
    /\ UNCHANGED <<screen, policy, ticket, confirming>>

\* createClassPairing with the password of the class.
EnterPassword(r, s) ==
    /\ "CLASS_PASSWORD" \in Sources
    /\ pairing[r] = Null
    /\ Open(s)
    /\ screen[s].enabled
    /\ password[screen[s].class] # 0
    /\ Available(s)
    /\ device' = Freed(s)
    /\ pairing' = [pairing EXCEPT ![r] =
            [Preauthorized(NewPairing("CLASS_PASSWORD", "APPROVED", s), s)
             EXCEPT !.password = password[screen[s].class]]]
    /\ UNCHANGED <<screen, policy, ticket, confirming>>

\* issueScreenPairing: the screen shows a code, which replaces an earlier one.
IssueTicket(t, s) ==
    /\ "SCREEN" \in Sources
    /\ ticket[t] = Null
    /\ Open(s)
    /\ screen[s].enabled
    /\ Available(s)
    /\ device' = Freed(s)
    /\ ticket' = [Recalled({s}) EXCEPT ![t] =
            [state |-> "READY", screen |-> s, revision |-> screen[s].revision,
             access |-> screen[s].access, credential |-> screen[s].credential,
             epoch |-> epoch, lapsed |-> FALSE, claimedBy |-> Null]]
    /\ UNCHANGED <<screen, policy, pairing, confirming>>

\* Mutant: a code can be used again.
FreshAgain(k) == k.state # "CANCELLED" /\ ~k.lapsed

Fresh(k) == k.state = "READY" /\ ~k.lapsed

\* claimScreenPairing: an installation enters the code.
ClaimTicket(t, r) ==
    LET k == ticket[t]
    IN  /\ k # Null
        /\ Open(k.screen)
        /\ screen[k.screen].revision = k.revision
        /\ Admission(k.screen, k)
        /\ k.epoch = epoch
        /\ pairing[r] = Null
        /\ Fresh(k)
        /\ Available(k.screen)
        /\ device' = Freed(k.screen)
        /\ pairing' = [pairing EXCEPT ![r] =
                Preauthorized(NewPairing("SCREEN", "APPROVED", k.screen), k.screen)]
        /\ ticket' = [ticket EXCEPT ![t].state = "CLAIMED", ![t].claimedBy = r]
        /\ UNCHANGED <<screen, policy, confirming>>

-----------------------------------------------------------------------------
(* Approval, cancellation, confirmation *)

\* approve(): an application only for the screen it named, in a class that has
\* a password.
Approve(a, r, s) ==
    LET q == pairing[r]
    IN  /\ a \in authorized
        /\ Open(s)
        /\ Valid(q)
        /\ q.state = "PENDING"
        /\ q.source = "CLASS_APPLY" => q.screen = s /\ password[screen[s].class] # 0
        /\ Available(s)
        /\ device' = Freed(s)
        /\ pairing' = [pairing EXCEPT ![r] = [Snapshot(q, s) EXCEPT !.approver = a]]
        /\ UNCHANGED <<screen, policy, ticket, confirming>>

\* Mutant: also what is activated.
CancellableAny(q) == Valid(q)

Cancellable(q) == Valid(q) /\ q.state # "ACTIVATED"

\* cancel(): by the installation, or by the administrator who approved.
Cancel(r) ==
    /\ "cancel" \in Changes
    /\ Cancellable(pairing[r])
    /\ pairing' = [pairing EXCEPT ![r].state = "CANCELLED"]
    /\ UNCHANGED <<screen, policy, ticket, device, confirming>>

\* confirm() up to its locks.
ReadPairing(h, r, d) ==
    /\ confirming[h] = Null
    /\ Valid(pairing[r])
    /\ pairing[r].state \in {"APPROVED", "ACTIVATED"}
    /\ confirming' = [confirming EXCEPT ![h] =
            [request |-> r, device |-> d, read |-> pairing[r]]]
    /\ UNCHANGED <<screen, policy, pairing, ticket, device>>

\* Mutant: the authority is not asked for again.
AuthorityThen(q) == TRUE

\* What still stands behind an approval.
Authority(q) ==
    /\ q.source \in ByAdministrator => q.approver \in authorized
    /\ q.source \in ByScreen => Admission(q.screen, q)
    /\ q.source = "CLASS_PASSWORD" => q.password = password[screen[q.screen].class]

\* Mutant: the pairing is not read again under its lock.
LockedStale(h) == confirming[h].read

Locked(h) == pairing[confirming[h].request]

\* Mutant: the device is not tied to a revision of its screen.
NewDeviceUnversioned(s) == [state |-> "ACTIVE", screen |-> s, class |-> screen[s].class,
                            revision |-> 0, epoch |-> epoch, lapsed |-> FALSE]

\* The credential of a new device, good for 90 days.
NewDevice(s) == [state |-> "ACTIVE", screen |-> s, class |-> screen[s].class,
                 revision |-> screen[s].revision, epoch |-> epoch, lapsed |-> FALSE]

\* confirm() under its locks: the device comes into being.
Activate(h) ==
    LET q == Locked(h)
        d == confirming[h].device
        s == confirming[h].read.screen
    IN  /\ confirming[h] # Null
        /\ Open(s)
        /\ screen[s].revision = confirming[h].read.revision
        /\ Valid(q)
        /\ q.state = "APPROVED"
        /\ Authority(q)
        /\ Available(s)
        /\ device[d] = Null
        /\ device' = [Freed(s) EXCEPT ![d] = NewDevice(s)]
        /\ pairing' = [pairing EXCEPT ![confirming[h].request].state = "ACTIVATED",
                                      ![confirming[h].request].device = d]
        /\ confirming' = [confirming EXCEPT ![h] = Null]
        /\ UNCHANGED <<screen, policy, ticket>>

\* A confirmation that fails, or repeats the answer of an earlier one.
EndConfirmation(h) ==
    /\ confirming[h] # Null
    /\ confirming' = [confirming EXCEPT ![h] = Null]
    /\ UNCHANGED <<screen, policy, pairing, ticket, device>>

-----------------------------------------------------------------------------
(* What changes around them *)

\* revoke() by the device itself or by an administrator, at its revision.
RevokeDevice(d) ==
    /\ "revoke" \in Changes
    /\ device[d] # Null /\ device[d].state # "REVOKED"
    /\ Usable(d) \/ authorized # {}
    /\ device' = [device EXCEPT ![d].state = "REVOKED"]
    /\ UNCHANGED <<screen, policy, pairing, ticket, confirming>>

\* An administrator changes a screen: in or out of use, its class, its login.
\* Leaving use or changing class trips npep_binding_fence.
ChangeScreen(s) ==
    /\ "screen" \in Changes
    /\ \E active \in BOOLEAN, class \in Classes, renew \in BOOLEAN :
          LET old == screen[s]
              fenced == (old.active /\ ~active) \/ class # old.class
          IN  /\ fenced => old.revision < MaxRevision
              /\ renew => old.credential < MaxRevision
              /\ screen' = [screen EXCEPT ![s] =
                    [old EXCEPT !.active = active, !.class = class,
                                !.revision = IF fenced THEN @ + 1 ELSE @,
                                !.credential = IF renew THEN @ + 1 ELSE @]]
              /\ Revoke(IF fenced THEN {s} ELSE {})
    /\ UNCHANGED <<policy, ticket, confirming>>

\* Mutant: the fence of a class does nothing.
CloseClassUnfenced(c) ==
    /\ "class" \in Changes
    /\ c \notin closed
    /\ closed' = closed \cup {c}
    /\ UNCHANGED <<screen, authorized, password, epoch, pairing, ticket, device, confirming>>

\* A class or its term is deactivated, which trips npep_workspace_fence or
\* npep_term_fence for all its screens.
CloseClass(c) ==
    LET ss == {s \in Screens : screen[s].class = c}
    IN  /\ "class" \in Changes
        /\ c \notin closed
        /\ \A s \in ss : screen[s].revision < MaxRevision
        /\ closed' = closed \cup {c}
        /\ screen' = [s \in Screens |-> IF s \in ss THEN [screen[s] EXCEPT !.revision = @ + 1]
                                                    ELSE screen[s]]
        /\ Revoke(ss)
        /\ UNCHANGED <<authorized, password, epoch, ticket, confirming>>

OpenClass(c) ==
    /\ "class" \in Changes
    /\ c \in closed
    /\ closed' = closed \ {c}
    /\ UNCHANGED <<screen, authorized, password, epoch, pairing, ticket, device, confirming>>

\* setPairingAccess(): whether the screen may pair on its own.
SetAccess(s) ==
    /\ "access" \in Changes
    /\ authorized # {}
    /\ Open(s)
    /\ screen[s].access < MaxRevision
    /\ \E enabled \in BOOLEAN :
          /\ enabled => password[screen[s].class] # 0
          /\ screen' = [screen EXCEPT ![s].enabled = enabled, ![s].access = @ + 1]
    /\ ticket' = Recalled({s})
    /\ UNCHANGED <<policy, pairing, device, confirming>>

\* The write of npepSchoolManagementService: the password of the screen's
\* class, if one is given, together with the policy of this one screen.
SetPassword(s) ==
    LET c == screen[s].class
    IN  /\ "password" \in Changes
        /\ authorized # {}
        /\ Open(s)
        /\ screen[s].access < MaxRevision
        /\ \E enabled, given \in BOOLEAN :
              /\ given => password[c] < MaxRevision
              /\ enabled => given \/ password[c] # 0
              /\ password' = IF given THEN [password EXCEPT ![c] = @ + 1] ELSE password
              /\ screen' = [screen EXCEPT ![s].enabled = enabled, ![s].access = @ + 1]
        /\ ticket' = Recalled({s})
        /\ UNCHANGED <<closed, authorized, epoch, pairing, device, confirming>>

\* Memberships and sessions come and go.
ChangeAuthority(a) ==
    /\ "authority" \in Changes
    /\ authorized' = IF a \in authorized THEN authorized \ {a} ELSE authorized \cup {a}
    /\ UNCHANGED <<screen, closed, password, epoch, pairing, ticket, device, confirming>>

\* Ten minutes have passed for a pairing without a code, or for a code and the
\* pairing that claimed it; ninety days for a device.
LapsePairing(r) ==
    /\ "lapse" \in Changes
    /\ pairing[r] # Null /\ pairing[r].source # "SCREEN"
    /\ ~pairing[r].lapsed
    /\ pairing' = [pairing EXCEPT ![r].lapsed = TRUE]
    /\ UNCHANGED <<screen, policy, ticket, device, confirming>>

LapseTicket(t) ==
    /\ "lapseCode" \in Changes
    /\ ticket[t] # Null /\ ~ticket[t].lapsed
    /\ ticket' = [ticket EXCEPT ![t].lapsed = TRUE]
    /\ pairing' = [r \in Requests |-> IF ticket[t].claimedBy = r
                                      THEN [pairing[r] EXCEPT !.lapsed = TRUE] ELSE pairing[r]]
    /\ UNCHANGED <<screen, policy, device, confirming>>

LapseDevice(d) ==
    /\ "lapse" \in Changes
    /\ device[d] # Null /\ ~device[d].lapsed
    /\ device' = [device EXCEPT ![d].lapsed = TRUE]
    /\ UNCHANGED <<screen, policy, pairing, ticket, confirming>>

\* activateDeployment(): a new epoch, after which everybody pairs again.
Redeploy ==
    /\ "deployment" \in Changes
    /\ epoch < MaxEpoch
    /\ epoch' = epoch + 1
    /\ device' = Invalidated(Screens)
    /\ pairing' = [r \in Requests |-> IF pairing[r] = Null THEN Null
                                      ELSE [pairing[r] EXCEPT !.state = "CANCELLED"]]
    /\ UNCHANGED <<screen, closed, authorized, password, ticket, confirming>>

Environment ==
    \/ \E d \in Devices : RevokeDevice(d) \/ LapseDevice(d)
    \/ \E s \in Screens : ChangeScreen(s) \/ SetAccess(s) \/ SetPassword(s)
    \/ \E c \in Classes : CloseClass(c) \/ OpenClass(c)
    \/ \E a \in Admins : ChangeAuthority(a)
    \/ \E r \in Requests : LapsePairing(r)
    \/ \E t \in Tickets : LapseTicket(t)
    \/ Redeploy

Next ==
    \/ \E r \in Requests :
          \/ Create(r) \/ Cancel(r)
          \/ \E s \in Screens : \/ ApplyForClass(r, s) \/ EnterPassword(r, s)
                                \/ \E a \in Admins : Approve(a, r, s)
          \/ \E t \in Tickets : ClaimTicket(t, r)
          \/ \E h \in Handlers, d \in Devices : ReadPairing(h, r, d)
    \/ \E t \in Tickets, s \in Screens : IssueTicket(t, s)
    \/ \E h \in Handlers : Activate(h) \/ EndConfirmation(h)
    \/ Environment

Spec == Init /\ [][Next]_vars

-----------------------------------------------------------------------------
(* Invariants *)

\* At most one device holds a screen, whichever pairings are confirmed at the
\* same time, so the unique index on active devices is never hit (available).
OneDevicePerScreen ==
    \A s \in Screens : \A d, e \in Devices : Holds(s, d) /\ Holds(s, e) => d = e

\* An active device was admitted to its screen exactly as the screen is now:
\* the fences catch every change, also one between approval and confirmation.
DeviceFollowsScreen ==
    \A d \in Devices : device[d] # Null /\ device[d].state = "ACTIVE" =>
        /\ device[d].revision = screen[device[d].screen].revision
        /\ device[d].class = screen[device[d].screen].class
        /\ device[d].epoch = epoch
        /\ Open(device[d].screen)

\* A pairing makes one device and no two pairings make the same one, however
\* many confirmations of it are under way (confirm).
OneDevicePerPairing ==
    /\ \A r \in Requests :
          pairing[r] # Null /\ pairing[r].state = "ACTIVATED" =>
              /\ pairing[r].device # Null
              /\ device[pairing[r].device] # Null
              /\ device[pairing[r].device].screen = pairing[r].screen
    /\ \A q, r \in Requests :
          /\ pairing[q] # Null /\ pairing[r] # Null
          /\ pairing[q].device # Null /\ pairing[q].device = pairing[r].device
          => q = r
    /\ \A d \in Devices : device[d] # Null =>
          \E r \in Requests : pairing[r] # Null /\ pairing[r].device = d

Claims(r, t) == ticket[t] # Null /\ ticket[t].claimedBy = r

\* A pairing by code used up one code, its own, and a screen has one code that
\* can still be claimed (npepScreenPairing).
CodeAdmitsOnce ==
    /\ \A r \in Requests : pairing[r] # Null /\ pairing[r].source = "SCREEN" =>
          \E t \in Tickets : \A u \in Tickets : Claims(r, u) <=> u = t
    /\ \A t, u \in Tickets :
          /\ ticket[t] # Null /\ ticket[u] # Null
          /\ ticket[t].screen = ticket[u].screen
          /\ ticket[t].state = "READY" /\ ticket[u].state = "READY"
          => t = u

-----------------------------------------------------------------------------
(* Action properties *)

Activated(r) == /\ pairing[r] # Null /\ pairing[r].state = "APPROVED"
                /\ pairing'[r].state = "ACTIVATED"

\* A pairing becomes a device only while what admitted it still stands: the
\* approver is an administrator, or the policy, the login and the password of
\* the screen are the ones it was admitted under ("Any policy change
\* invalidates previously issued or claimed-but-unconfirmed codes").
AdmissionStands ==
    [][\A r \in Requests : Activated(r) =>
          LET q == pairing[r]
              s == screen[q.screen]
          IN  /\ q.source \in ByAdministrator => q.approver \in authorized
              /\ q.source \in ByScreen =>
                    s.enabled /\ s.access = q.access /\ s.credential = q.credential
              /\ q.source = "CLASS_PASSWORD" => q.password = password[s.class]
              /\ Open(q.screen)]_vars

\* A pairing never leaves its end: what was cancelled stays cancelled, and what
\* was activated is only undone by a new deployment.
PairingSettles ==
    [][\A r \in Requests : pairing[r] # Null /\ pairing'[r] # pairing[r] =>
          /\ pairing[r].state = "CANCELLED" => pairing'[r].state = "CANCELLED"
          /\ pairing[r].state = "ACTIVATED" =>
                pairing'[r].state = "ACTIVATED" \/ epoch' # epoch
          /\ pairing[r].device # Null => pairing'[r].device = pairing[r].device]_vars

\* A device that has been shut out stays out: opening the class again, putting
\* the screen back into use or moving it back does not let it in.
ShutOutForGood ==
    [][\A d \in Devices : device[d] # Null /\ ~Usable(d) => ~Usable(d)']_vars

=============================================================================
