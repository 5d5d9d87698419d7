------------------------- MODULE MCPublicationHistory -------------------------
(***************************************************************************)
(* Three mixes of operations over one database: what happens to one        *)
(* publication while it is certified, restored, edited by a screen and     *)
(* cleaned up; the same of one a screen has submitted; and what a screen   *)
(* that splits a shared assignment leaves in the histories of both.  They  *)
(* start from the same states and are never combined.                      *)
(***************************************************************************)
EXTENDS MCPublication

VARIABLE mix    \* "edits", "submissions" or "splits", chosen in the beginning

EditMix == INSTANCE Publication WITH
    Ids <- {p1}, Workspaces <- {w1}, Keys <- {},
    Operations <- {"create", "restore", "certify", "screenUpdate", "screenRestore",
                   "setWorkspace", "purge"},
    Patches <- {{"body"}}

SubmissionMix == INSTANCE Publication WITH
    Ids <- {p1}, Workspaces <- {w1}, Types <- {"ASSIGNMENT"},
    Operations <- {"screenCreate", "restore", "certify", "setWorkspace", "purge"}

SplitMix == INSTANCE Publication WITH
    Types <- {"ASSIGNMENT"}, Keys <- {}, MaxRevision <- 2,
    Operations <- {"create", "certify", "screenUpdate"},
    Patches <- {{"body", "targets"}}

MixedInit == Init /\ mix \in {"edits", "submissions", "splits"}
MixedNext == /\ \/ mix = "edits" /\ EditMix!Next
                \/ mix = "submissions" /\ SubmissionMix!Next
                \/ mix = "splits" /\ SplitMix!Next
             /\ UNCHANGED mix
MixedSpec == MixedInit /\ [][MixedNext]_<<vars, mix>>
=============================================================================
