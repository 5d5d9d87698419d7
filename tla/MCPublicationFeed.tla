-------------------------- MODULE MCPublicationFeed --------------------------
(***************************************************************************)
(* Three mixes of operations over one database: edits that move an         *)
(* assignment, edits that hide and show it, and a screen that splits       *)
(* shared assignments while teachers certify them.  All start from the     *)
(* same states and are never combined.                                     *)
(***************************************************************************)
EXTENDS PublicationFeed, TLC
CONSTANTS p1, p2, h1, h2, t1, t2, s1, w1, w2, b1

VARIABLE mix    \* "move", "show" or "split", chosen in the beginning

MCScope == {<<t1, w1>>, <<t1, w2>>}
MCScreenWorkspaces == [s \in {s1} |-> {w1}]

MoveMix == INSTANCE PublicationFeed WITH
    Ids <- {p1}, Accounts <- {t1},
    Operations <- {"create", "update", "restore"},
    Statuses <- {"PUBLISHED"}, Patches <- {{"targets"}}

ShowMix == INSTANCE PublicationFeed WITH
    Ids <- {p1}, Accounts <- {t1}, Workspaces <- {w1},
    Operations <- {"create", "update", "restore", "withdraw"},
    Statuses <- {"DRAFT", "PUBLISHED"}, Patches <- {{"status"}}

SplitMix == INSTANCE PublicationFeed WITH
    Operations <- {"create", "certify", "screenUpdate"},
    Statuses <- {"PUBLISHED"}, Patches <- {{"body", "targets"}},
    MaxRevision <- 2

MixedInit == FeedInit /\ mix \in {"move", "show", "split"}
MixedNext == /\ \/ mix = "move" /\ MoveMix!FeedNext
                \/ mix = "show" /\ ShowMix!FeedNext
                \/ mix = "split" /\ SplitMix!FeedNext
             /\ UNCHANGED mix

MixedSpec == /\ MixedInit
             /\ [][MixedNext]_<<feedVars, mix>>
             /\ \A h \in Handlers : WF_feedVars(Broadcast(h))
             /\ \A w \in Workspaces : WF_feedVars(Refetch(w))
=============================================================================
