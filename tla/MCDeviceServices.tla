--------------------------- MODULE MCDeviceServices ---------------------------
(***************************************************************************)
(* The services that talk to a paired device.  They share no rows but the  *)
(* session, so a behaviour is of one of them, chosen in the beginning:     *)
(* sessions and status reports, noise commands under a session, exam plans *)
(* (several sessions of a host, or several plans at a time) and seating    *)
(* plans.                                                                  *)
(***************************************************************************)
EXTENDS NoiseControl, ExamPlan, SeatingPlan

CONSTANTS c1, p1, p2, k1, k2, a1, d1, r1, r2, r3, i1

VARIABLE part

\* Noise commands, with fewer runs and sessions and without status reports.
Noise == INSTANCE NoiseControl WITH
    MaxRun <- 2, MaxEpoch <- 2, MaxSequence <- 0, MaxClock <- 0

\* One plan in several sessions, or several plans in one session.
OnePlan == plans[p2] = Null /\ machine.sequence <= 2
OneSession == machine.session <= 1 /\ machine.version = 1

Init == /\ part \in {"sessions", "noise", "plan", "plans", "seats"}
        /\ NoiseInit
        /\ ExamInit
        /\ SeatingInit /\ bound[d1] = k1

Next == /\ \/ /\ part = "sessions" /\ SessionNext
              /\ UNCHANGED <<control, examVars, seatingVars>>
           \/ /\ part = "noise" /\ Noise!NoiseNext
              /\ UNCHANGED <<examVars, seatingVars>>
           \/ /\ ExamNext
              /\ \/ part = "plan" /\ OnePlan'
                 \/ part = "plans" /\ OneSession'
              /\ UNCHANGED <<noiseVars, seatingVars>>
           \/ /\ part = "seats" /\ SeatingNext
              /\ UNCHANGED <<noiseVars, examVars>>
        /\ UNCHANGED part

Spec == Init /\ [][Next]_<<part, noiseVars, examVars, seatingVars>>
=============================================================================
