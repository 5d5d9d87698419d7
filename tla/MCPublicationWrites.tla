------------------------- MODULE MCPublicationWrites -------------------------
(***************************************************************************)
(* Three mixes of operations over one database: the edits of one           *)
(* publication by an account and a screen, a screen's submissions, copies  *)
(* and revocations, and corrections that are withdrawn or split.  They     *)
(* start from the same states and are never combined.                      *)
(***************************************************************************)
EXTENDS MCPublication

CONSTANT c1

VARIABLE mix    \* "edits", "screens" or "corrections", chosen in the beginning

EditMix == INSTANCE Publication WITH
    Ids <- {p1}, Keys <- {}, Reasons <- {},
    Operations <- {"create", "update", "restore", "withdraw", "screenUpdate", "screenRestore"},
    Statuses <- {"PUBLISHED", "DRAFT"}, Patches <- {{"status"}, {"targets"}},
    MaxCredential <- 1

ScreenMix == INSTANCE Publication WITH
    Operations <- {"create", "clone", "screenCreate", "withdraw", "screenUpdate",
                   "rotateScreen", "setScreenActive"},
    Reasons <- {}, Statuses <- {"PUBLISHED"}, Patches <- {{"body", "targets"}}

CorrectionMix == INSTANCE Publication WITH
    Keys <- {}, MaxCredential <- 1,
    Operations <- {"create", "update", "withdraw", "screenUpdate"},
    Statuses <- {"PUBLISHED"}, Patches <- {{"targets"}}

\* Bounds: one publication is created; a second is what a split makes of it, and
\* no request is about that one.
OneCreation ==
    /\ pub[p1] # Null => \A h \in Handlers : ~Ready(h, "create")
    /\ pub[p2] # Null => pub[p2].revision > 1
    /\ \A h \in Handlers, op \in {"update", "withdraw", "screenUpdate"} :
          Ready(h, op) => handler[h].id = p1

MixedInit == Init /\ mix \in {"edits", "screens", "corrections"}
MixedNext == /\ \/ mix = "edits" /\ EditMix!Next
                \/ mix = "screens" /\ ScreenMix!Next
                \/ mix = "corrections" /\ CorrectionMix!Next /\ OneCreation'
             /\ UNCHANGED mix
MixedSpec == MixedInit /\ [][MixedNext]_<<vars, mix>>
=============================================================================
