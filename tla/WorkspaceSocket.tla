--------------------------- MODULE WorkspaceSocket ---------------------------
(***************************************************************************)
(* Rooms and events of utils/socket.js.  A client connects with            *)
(* credentials, may change them, joins and leaves the rooms of workspaces; *)
(* a broadcast walks over the sockets in the rooms of a publication and    *)
(* asks the database, for each one, what its credentials may be told.      *)
(* Joins and broadcasts wait for the database in between, so each compares *)
(* a counter of the socket before it acts on what it was told.             *)
(*                                                                         *)
(* Who may read the publication is given: `readers' stands for the         *)
(* accounts, roles, bindings and revisions canReceiveWorkspaceEvent reads. *)
(***************************************************************************)
EXTENDS Integers, NoValue

CONSTANTS
    Sockets,
    Credentials,    \* tokens of accounts and screens
    Rooms,          \* one for each workspace
    Broadcasts,     \* broadcasts under way
    MaxCounter      \* bound on the two counters of a socket

\* socket.data, the rooms the socket is in and whether it is connected.
Socket == [connected : BOOLEAN, credentials : Credentials, rooms : SUBSET Rooms,
           leaveGeneration : 0..MaxCounter, credentialGeneration : 0..MaxCounter]

\* A join that waits for the workspaces.
Join == [socket : Sockets, generation : 0..MaxCounter, ids : SUBSET Rooms]

\* A broadcast: the rooms it is for, the sockets that are left and, while it
\* waits for a verdict, what it has read of the first of them.
Broadcast == [ids : SUBSET Rooms, left : SUBSET Sockets, to : Sockets \cup {Null},
              joined : SUBSET Rooms, credentials : Credentials \cup {Null},
              generation : 0..MaxCounter, verdict : {"none", "full", "signal", "nothing"}]

VARIABLES
    socket,
    joins,          \* joins under way
    broadcast,      \* broadcasts under way
    readers,        \* credentials that may read the publication now
    published,      \* whether it is, or was, published
    wanted,         \* history: rooms the client last asked for
    told            \* history: sockets that were sent the event in full

socketVars == <<socket, joins, broadcast, readers, published, wanted, told>>

SocketTypeOK ==
    /\ socket \in [Sockets -> Socket]
    /\ joins \subseteq Join
    /\ broadcast \in [Broadcasts -> Broadcast \cup {Null}]
    /\ readers \subseteq Credentials /\ published \in BOOLEAN
    /\ wanted \in [Sockets -> SUBSET Rooms]
    /\ told \subseteq Broadcasts \X Sockets

\* connection
SocketInit ==
    /\ \E c \in [Sockets -> Credentials] :
          socket = [s \in Sockets |-> [connected |-> TRUE, credentials |-> c[s], rooms |-> {},
                                       leaveGeneration |-> 0, credentialGeneration |-> 0]]
    /\ joins = {}
    /\ broadcast = [b \in Broadcasts |-> Null]
    /\ readers \in SUBSET Credentials /\ published \in BOOLEAN
    /\ wanted = [s \in Sockets |-> {}]
    /\ told = {}

-----------------------------------------------------------------------------
(* What clients do.                                                        *)

\* Mutant: no new generation.
GivenSilently(s, c) == [socket[s] EXCEPT !.credentials = c]

\* updateCredentials of a socket.
Given(s, c) == [socket[s] EXCEPT !.credentials = c, !.credentialGeneration = @ + 1]

\* update-credentials
UpdateCredentials(s, c) ==
    /\ socket[s].connected /\ socket[s].credentialGeneration < MaxCounter
    /\ socket' = [socket EXCEPT ![s] = Given(s, c)]
    /\ UNCHANGED <<joins, broadcast, readers, published, wanted, told>>

\* join-workspaces, up to the query; it may bring new credentials.
BeginJoin(s, c, ids) ==
    /\ socket[s].connected /\ socket[s].credentialGeneration < MaxCounter
    /\ ids # {}
    /\ socket' = [socket EXCEPT ![s] = Given(s, c)]
    /\ joins' = joins \cup
          {[socket |-> s, generation |-> socket[s].leaveGeneration, ids |-> ids]}
    /\ wanted' = [wanted EXCEPT ![s] = @ \cup ids]
    /\ UNCHANGED <<broadcast, readers, published, told>>

\* Mutant: a leave is not noticed.
StandsConnected(j) == socket[j.socket].connected

\* The socket is there and has left no room since.
Stands(j) == /\ socket[j.socket].connected
             /\ j.generation = socket[j.socket].leaveGeneration

\* join-workspaces with the active workspaces it found.
EndJoin(j, found) ==
    /\ j \in joins /\ found \subseteq j.ids
    /\ joins' = joins \ {j}
    /\ socket' = IF Stands(j) THEN [socket EXCEPT ![j.socket].rooms = @ \cup found] ELSE socket
    /\ UNCHANGED <<broadcast, readers, published, wanted, told>>

\* leave-workspaces
Leave(s, ids) ==
    /\ socket[s].connected /\ socket[s].leaveGeneration < MaxCounter
    /\ socket' = [socket EXCEPT ![s].leaveGeneration = @ + 1, ![s].rooms = @ \ ids]
    /\ wanted' = [wanted EXCEPT ![s] = @ \ ids]
    /\ UNCHANGED <<joins, broadcast, readers, published, told>>

\* The connection ends; socket.io takes the socket out of its rooms.
Disconnect(s) ==
    /\ socket[s].connected
    /\ socket' = [socket EXCEPT ![s].connected = FALSE, ![s].rooms = {}]
    /\ UNCHANGED <<joins, broadcast, readers, published, wanted, told>>

-----------------------------------------------------------------------------
(* broadcastWorkspaceEvent.                                                *)

\* A broadcast that deals with no socket.
Between(ids, left) ==
    [ids |-> ids, left |-> left, to |-> Null, joined |-> {}, credentials |-> Null,
     generation |-> 0, verdict |-> "none"]

\* Fetches the sockets in the rooms.
BeginBroadcast(b, ids) ==
    /\ broadcast[b] = Null /\ ids # {}
    /\ broadcast' = [broadcast EXCEPT ![b] =
          Between(ids, {s \in Sockets : socket[s].rooms \cap ids # {}})]
    /\ UNCHANGED <<socket, joins, readers, published, wanted, told>>

\* Takes the next socket, unless it has left the rooms.
Take(b, s) ==
    /\ broadcast[b] # Null /\ broadcast[b].to = Null /\ s \in broadcast[b].left
    /\ LET joined == socket[s].rooms \cap broadcast[b].ids
           rest == [broadcast[b] EXCEPT !.left = @ \ {s}]
       IN  broadcast' = [broadcast EXCEPT ![b] =
              IF joined = {} THEN rest
              ELSE [rest EXCEPT !.to = s, !.joined = joined,
                                !.credentials = socket[s].credentials,
                                !.generation = socket[s].credentialGeneration]]
    /\ UNCHANGED <<socket, joins, readers, published, wanted, told>>

\* canReceiveWorkspaceEvent reads what the credentials are good for now.
Judge(b) ==
    /\ broadcast[b] # Null /\ broadcast[b].to # Null /\ broadcast[b].verdict = "none"
    /\ broadcast' = [broadcast EXCEPT ![b].verdict =
          IF broadcast[b].credentials \in readers THEN "full"
          ELSE IF published THEN "signal" ELSE "nothing"]
    /\ UNCHANGED <<socket, joins, readers, published, wanted, told>>

\* Whether the socket is still the one that was judged.
Same(b) == LET s == socket[broadcast[b].to]
           IN  /\ broadcast[b].generation = s.credentialGeneration
               /\ s.rooms \cap broadcast[b].joined # {}

\* Emits the event, or only the signal to fetch the feed.
Emit(b) ==
    /\ broadcast[b] # Null /\ broadcast[b].verdict # "none"
    /\ told' = IF Same(b) /\ broadcast[b].verdict = "full"
               THEN told \cup {<<b, broadcast[b].to>>} ELSE told
    /\ broadcast' = [broadcast EXCEPT ![b] = Between(@.ids, @.left)]
    /\ UNCHANGED <<socket, joins, readers, published, wanted>>

EndBroadcast(b) ==
    /\ broadcast[b] # Null /\ broadcast[b].to = Null /\ broadcast[b].left = {}
    /\ broadcast' = [broadcast EXCEPT ![b] = Null]
    /\ told' = {t \in told : t[1] # b}
    /\ UNCHANGED <<socket, joins, readers, published, wanted>>

\* Roles, bindings and the publication change.
ChangeReaders(c) ==
    /\ readers' = IF c \in readers THEN readers \ {c} ELSE readers \cup {c}
    /\ UNCHANGED <<socket, joins, broadcast, published, wanted, told>>

-----------------------------------------------------------------------------

SocketNext ==
    \/ \E s \in Sockets :
          \/ \E c \in Credentials : \/ UpdateCredentials(s, c)
                                    \/ \E ids \in SUBSET Rooms : BeginJoin(s, c, ids)
          \/ \E ids \in SUBSET Rooms : Leave(s, ids)
          \/ Disconnect(s)
          \/ \E b \in Broadcasts : Take(b, s)
    \/ \E j \in joins : \E found \in SUBSET j.ids : EndJoin(j, found)
    \/ \E b \in Broadcasts : \/ \E ids \in SUBSET Rooms : BeginBroadcast(b, ids)
                             \/ Judge(b) \/ Emit(b) \/ EndBroadcast(b)
    \/ \E c \in Credentials : ChangeReaders(c)

SocketSpec == SocketInit /\ [][SocketNext]_socketVars

-----------------------------------------------------------------------------
(* Properties.                                                             *)

\* A socket sits only in rooms its client last asked for: a join that was
\* waiting for the database does not undo a leave (leaveGeneration).
LeaveStands == \A s \in Sockets : socket[s].rooms \subseteq wanted[s]

\* The event in full goes to a socket that is in a room of it, and holds the
\* credentials that were found good: not to whoever took the connection over
\* while the database was asked (credentialGeneration).
EventForItsReader ==
    [][\A b \in Broadcasts, s \in Sockets : <<b, s>> \in told' \ told =>
          /\ socket[s].credentials = broadcast[b].credentials
          /\ socket[s].rooms \cap broadcast[b].ids # {}]_socketVars
=============================================================================
