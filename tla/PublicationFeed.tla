--------------------------- MODULE PublicationFeed ---------------------------
(***************************************************************************)
(* Publications as the public displays of a workspace see them.  A display *)
(* joins the rooms of its workspaces, fetches their feed over HTTP and     *)
(* fetches it again whenever a socket event tells it to; the event itself  *)
(* carries no content.  The handlers of Publication announce what they     *)
(* committed only after the transaction, computing rooms and visibility    *)
(* from what they read before it.                                          *)
(*                                                                         *)
(* A display stands for the clients of one workspace that stay connected   *)
(* and keep their credentials; changes of the feed by the passage of time  *)
(* (publishAt, expiresAt) are left to the client's own timer.              *)
(***************************************************************************)
EXTENDS Publication

VARIABLES
    behind,     \* workspaces whose feed changed since their display fetched it
    signalled   \* workspaces whose display has been told to fetch

feedVars == <<vars, behind, signalled>>

FeedTypeOK == /\ TypeOK
              /\ behind \subseteq Workspaces
              /\ signalled \subseteq Workspaces

FeedInit == /\ Init
            /\ behind = {}
            /\ signalled = {}

\* What the public feed of a workspace shows.
Feed(w) == {<<id, pub[id].revision, pub[id].certifiedBy>> :
               id \in {i \in Ids : /\ Exists(i)
                                   /\ pub[i].doc.status = "PUBLISHED"
                                   /\ w \in pub[i].doc.targets}}

\* broadcastWorkspaceEvent towards displays that follow the public feed.
Reached(event) == IF event.public THEN event.rooms ELSE {}

Broadcasting == {h \in Handlers : Ready(h, "announce") /\ handler'[h] = Null}

Observed ==
    /\ behind' = behind \cup {w \in Workspaces : Feed(w)' # Feed(w)}
    /\ signalled' = signalled \cup UNION {Reached(handler[h]) : h \in Broadcasting}

ServerStep == Next /\ Observed

Broadcast(h) == Announce(h) /\ Observed

Refetch(w) ==
    /\ w \in signalled
    /\ behind' = behind \ {w}
    /\ signalled' = signalled \ {w}
    /\ UNCHANGED vars

FeedNext == ServerStep \/ \E w \in Workspaces : Refetch(w)

\* A handler that committed goes on to its broadcast, and a display that was
\* told to fetch does so; nobody is obliged to send requests.
FeedSpec == /\ FeedInit
            /\ [][FeedNext]_feedVars
            /\ \A h \in Handlers : WF_feedVars(Broadcast(h))
            /\ \A w \in Workspaces : WF_feedVars(Refetch(w))

-----------------------------------------------------------------------------

Announcing(w) == \E h \in Handlers : Ready(h, "announce") /\ w \in Reached(handler[h])

\* No display is left showing an outdated feed without anybody on the way to
\* tell it: whatever changes a workspace's feed (a save that moves targets, a
\* withdrawal, a certification, a split) is announced in that workspace's room,
\* to the public, although rooms and visibility come from earlier reads.
FeedChangeAnnounced == \A w \in behind : w \in signalled \/ Announcing(w)

\* Every display eventually shows the current feed again.
FeedCatchesUp == \A w \in Workspaces : w \in behind ~> w \notin behind
=============================================================================
