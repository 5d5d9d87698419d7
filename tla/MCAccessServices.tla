--------------------------- MODULE MCAccessServices ---------------------------
(***************************************************************************)
(* Who gets in, and the agent that deploys.  A behaviour is of one part:   *)
(* login sessions of an account, the PIN of a classroom screen, the rooms  *)
(* of sockets, or upgrades.  The parts share no variables.                 *)
(***************************************************************************)
EXTENDS AccountSession, ScreenLogin, WorkspaceSocket

CONSTANTS s1, s2, w1, w2, b1, b2, a1, a2, k1, c1, c2, m1, m2, e1, j1, j2, j3

VARIABLES
    part,
    main, queue, active, timer, response, script, lock, site        \* DeployAgent

deployVars == <<main, queue, active, timer, response, script, lock, site>>

Jobs == {j1, j2, j3}

Deploy == INSTANCE DeployAgent WITH
    MaxQueue <- 1, MaxMain <- 2, Healthy <- {1}

Init == /\ part \in {"accounts", "screens", "sockets", "deploy"}
        /\ AccountInit
        /\ ScreenInit
        /\ SocketInit /\ socket[k1].credentials = c1
        /\ part # "sockets" => readers = {} /\ ~published
        /\ Deploy!DeployInit

Next == /\ \/ /\ part = "accounts" /\ AccountNext
              /\ UNCHANGED <<screenVars, socketVars, deployVars>>
           \/ /\ part = "screens" /\ ScreenNext
              /\ UNCHANGED <<accountVars, socketVars, deployVars>>
           \/ /\ part = "sockets" /\ SocketNext
              /\ UNCHANGED <<accountVars, screenVars, deployVars>>
           \/ /\ part = "deploy" /\ Deploy!DeployNext
              /\ UNCHANGED <<accountVars, screenVars, socketVars>>
        /\ UNCHANGED part

\* The fairness of DeploySpec; the other parts have none.
Spec == /\ Init /\ [][Next]_<<part, accountVars, screenVars, socketVars, deployVars>>
        /\ \A j \in Jobs : /\ WF_deployVars(Deploy!Close(j))
                           /\ WF_deployVars(Deploy!Timeout(j))
                           /\ WF_deployVars(Deploy!KillHard(j))

-----------------------------------------------------------------------------

\* Nobody waits for ever for an upgrade (DeployAgent).
EveryJobAnswered == Deploy!EveryJobAnswered
=============================================================================
