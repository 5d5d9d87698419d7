--------------------------- MODULE MCNpepRuntime ---------------------------
(***************************************************************************)
(* Two mixes over one device: results of every kind while the host         *)
(* restarts and time passes, and the calls of administrators, retried and  *)
(* coalesced, while leave and policy change.  Both start from the same     *)
(* state and are never combined.  Identifiers are interchangeable, so the  *)
(* first operation is o1 and the request that made it is r1.               *)
(***************************************************************************)
EXTENDS NpepRuntime, TLC
CONSTANTS a1, a2, o1, o2, r1, r2, r3

VARIABLE mix    \* "results" or "calls", chosen in the beginning

ResultMix == INSTANCE NpepRuntime WITH
    Requests <- {r1, r2}, Targets <- {"EXAM"},
    Environment <- {"restart", "policy", "age", "expire"}

CallMix == INSTANCE NpepRuntime WITH
    Environment <- {"restart", "policy", "authority", "expire", "session"},
    MaxEvents <- 0

InOrder == /\ op[o2] # Null => op[o1] # Null
           /\ op[o1] # Null => op[o1].request = r1

MixedInit == Init /\ mix \in {"results", "calls"}
MixedNext == /\ \/ mix = "results" /\ ResultMix!Next
                \/ mix = "calls" /\ CallMix!Next
             /\ InOrder'
             /\ UNCHANGED mix

MixedSpec == /\ MixedInit
             /\ [][MixedNext]_<<vars, mix>>
             /\ WF_vars(Look)
             /\ \A o \in Operations : WF_vars(RunOut(o))
=============================================================================
