---------------------------- MODULE RequestLedger ----------------------------
(***************************************************************************)
(* What a request id promises: a request is carried out once, with a       *)
(* result no other request has, and every answer to it is that result.     *)
(***************************************************************************)
CONSTANTS
    Requests,
    Results,
    Null

VARIABLES
    done,           \* the result of each request
    answered        \* what its sender has last been told

Init == /\ done = [r \in Requests |-> Null]
        /\ answered = [r \in Requests |-> Null]

\* The answer is lost.
Forget(r) == /\ answered' = [answered EXCEPT ![r] = Null]
             /\ UNCHANGED done

New == {x \in Results : \A r \in Requests : done[r] # x}

\* The request is carried out and answered.
Do(r) == LET x == answered'[r] IN
         /\ x \in New /\ done[r] = Null
         /\ answered' = [answered EXCEPT ![r] = x]
         /\ done' = [done EXCEPT ![r] = x]

\* It is repeated and answered again.
Repeat(r) == /\ done[r] # Null
             /\ answered' = [answered EXCEPT ![r] = done[r]]
             /\ UNCHANGED done

Next == \E r \in Requests : Forget(r) \/ Do(r) \/ Repeat(r)

Spec == Init /\ [][Next]_<<done, answered>>
=============================================================================
