--------------------------- MODULE MCNpepPairing ---------------------------
(***************************************************************************)
(* Two mixes over one screen: every way of being admitted, with two        *)
(* confirmations at a time and what can withdraw an admission; and the     *)
(* changes of the screen, its class and the deployment under devices that  *)
(* are paired.  Both start from the same states and are never combined.    *)
(***************************************************************************)
EXTENDS NpepPairing, TLC
CONSTANTS a1, a2, b1, b2, c1, c2, r1, r2, t1, t2, d1, d2, h1, h2

VARIABLE mix    \* "admission" or "fences", chosen in the beginning

PairingSymmetry == Permutations(Requests) \cup Permutations(Devices) \cup Permutations(Tickets)
                       \cup Permutations(Handlers)

AdmissionMix == INSTANCE NpepPairing WITH
    Classes <- {c1},
    Changes <- {"access", "password", "authority", "cancel", "revoke", "lapseCode"},
    MaxEpoch <- 1

FenceMix == INSTANCE NpepPairing WITH
    Tickets <- {}, Sources <- {"ADMIN"},
    Changes <- {"screen", "class", "revoke", "lapse", "deployment"}

\* In the second mix one confirmation is under way at a time.
OneConfirmation == \E h \in Handlers : confirming[h] = Null

MixedInit == Init /\ mix \in {"admission", "fences"}
MixedNext == /\ \/ mix = "admission" /\ AdmissionMix!Next
                \/ mix = "fences" /\ FenceMix!Next /\ OneConfirmation'
             /\ UNCHANGED mix
MixedSpec == MixedInit /\ [][MixedNext]_<<vars, mix>>
=============================================================================
