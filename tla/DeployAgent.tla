---------------------------- MODULE DeployAgent ----------------------------
(***************************************************************************)
(* The deployment agent (deploy/agent/server.js) and the scripts it runs   *)
(* (deploy/upgrade.sh, which calls deploy/rollback.sh).  The agent runs    *)
(* one upgrade at a time, keeps a short queue and answers a request when   *)
(* its upgrade has ended or was killed.  An upgrade takes the lock of the  *)
(* host, fetches what the main branches are then, remembers how to go      *)
(* back, switches, and records the release only once it is ready.          *)
(*                                                                         *)
(* A version stands for a pair of back end and front end commits.  The     *)
(* signature of a request, logs and the database backup are left out.      *)
(***************************************************************************)
EXTENDS Integers, Sequences

CONSTANTS
    Jobs,           \* requests, and the jobs made for them
    MaxQueue,       \* jobs that can wait (3)
    MaxMain,        \* bound on the versions of the main branches
    Healthy,        \* versions that become ready
    Null

Versions == 1..MaxMain

\* The runner's process of a job: what upgrade.sh does next, the commits it
\* planned, and rollback-state.env with the image, the commit and the release
\* record to go back to.
Steps == {"lock", "plan", "build", "up", "wait", "rollback", "settle", "end"}
Saved == [image : Versions, head : Versions, released : Versions]
Script == [step : Steps, plan : Versions, saved : Saved \cup {Null}]

VARIABLES
    main,           \* what origin/main is
    queue,          \* jobs that wait
    active,         \* activeJob
    timer,          \* of the active job: until SIGTERM, then until SIGKILL
    response,       \* of each request
    script,         \* the process of each job
    lock,           \* whose process holds upgrade.lock
    site            \* images tagged current, commits checked out, containers
                    \* that run and deployed-release.json

deployVars == <<main, queue, active, timer, response, script, lock, site>>

DeployTypeOK ==
    /\ main \in Versions
    /\ queue \in Seq(Jobs) /\ Len(queue) <= MaxQueue
    /\ active \in Jobs \cup {Null}
    /\ timer \in {"off", "running", "grace"}
    /\ response \in [Jobs -> {"none", "waiting", "full", "answered", "cut"}]
    /\ script \in [Jobs -> Script \cup {Null}]
    /\ lock \in Jobs \cup {Null}
    /\ site \in [image : Versions, head : Versions, running : Versions, released : Versions]

DeployInit ==
    /\ main = 1
    /\ queue = <<>>
    /\ active = Null
    /\ timer = "off"
    /\ response = [j \in Jobs |-> "none"]
    /\ script = [j \in Jobs |-> Null]
    /\ lock = Null
    /\ site = [image |-> 1, head |-> 1, running |-> 1, released |-> 1]

-----------------------------------------------------------------------------
(* The agent.                                                              *)

Fresh == [step |-> "lock", plan |-> 1, saved |-> Null]

\* drainQueue with a list of waiting jobs and scripts, when none is active.
Drain(list, scripts) ==
    IF list = <<>>
    THEN /\ queue' = list /\ active' = Null /\ timer' = "off" /\ script' = scripts
    ELSE /\ queue' = Tail(list)
         /\ active' = Head(list)
         /\ timer' = "running"
         /\ script' = [scripts EXCEPT ![Head(list)] = Fresh]

\* POST /v1/deploy
Request(j) ==
    /\ response[j] = "none"
    /\ IF Len(queue) >= MaxQueue
       THEN /\ response' = [response EXCEPT ![j] = "full"]
            /\ UNCHANGED <<queue, active, timer, script>>
       ELSE /\ response' = [response EXCEPT ![j] = "waiting"]
            /\ IF active = Null
               THEN Drain(Append(queue, j), script)
               ELSE /\ queue' = Append(queue, j)
                    /\ UNCHANGED <<active, timer, script>>
    /\ UNCHANGED <<main, lock, site>>

Answered(j) == [response EXCEPT ![j] = IF @ = "waiting" THEN "answered" ELSE @]

\* Mutant: the next job is left to a request.
FinishAndStop(j, scripts) ==
    /\ response' = Answered(j)
    /\ active' = Null /\ timer' = "off" /\ script' = scripts
    /\ UNCHANGED queue

\* finish, and what drainQueue does with the result.
Finish(j, scripts) ==
    /\ response' = Answered(j)
    /\ Drain(queue, scripts)

\* The process ended or could not be started (close, error).
Close(j) ==
    /\ active = j /\ script[j].step = "end"
    /\ Finish(j, script)
    /\ UNCHANGED <<main, lock, site>>

Ended(j) == [script EXCEPT ![j].step = "end"]
Unlocked(j) == IF lock = j THEN Null ELSE lock

\* The first timer sends SIGTERM to the process group; the process may end of
\* it at once, or never.
Timeout(j) ==
    /\ active = j /\ timer = "running"
    /\ timer' = "grace"
    /\ \/ UNCHANGED <<script, lock>>
       \/ script' = Ended(j) /\ lock' = Unlocked(j)
    /\ UNCHANGED <<main, queue, active, response, site>>

\* Ten seconds later the second one sends SIGKILL and finishes.
KillHard(j) ==
    /\ active = j /\ timer = "grace"
    /\ Finish(j, Ended(j))
    /\ lock' = Unlocked(j)
    /\ UNCHANGED <<main, site>>

\* The client gives up; the upgrade goes on.
Disconnect(j) ==
    /\ response[j] = "waiting"
    /\ response' = [response EXCEPT ![j] = "cut"]
    /\ UNCHANGED <<main, queue, active, timer, script, lock, site>>

\* The agent stops and is started again.  The upgrade is a process group of
\* its own (detached), which the service manager may or may not take along.
Crash ==
    /\ active # Null
    /\ queue' = <<>> /\ active' = Null /\ timer' = "off"
    /\ response' = [j \in Jobs |-> IF response[j] = "waiting" THEN "cut" ELSE response[j]]
    /\ \/ UNCHANGED <<script, lock>>
       \/ script' = Ended(active) /\ lock' = Unlocked(active)
    /\ UNCHANGED <<main, site>>

-----------------------------------------------------------------------------
(* upgrade.sh and rollback.sh.                                             *)

At(j, step) == script[j] # Null /\ script[j].step = step
Goto(j, step) == script' = [script EXCEPT ![j].step = step]

\* flock -w 900
Lock(j) ==
    /\ At(j, "lock") /\ lock = Null
    /\ lock' = j
    /\ Goto(j, "plan")
    /\ UNCHANGED site

\* Fetches, resolves both refs, makes the backup, tags the images that are
\* current and writes rollback-state.env.
Plan(j) ==
    /\ At(j, "plan")
    /\ script' = [script EXCEPT ![j] = [step |-> "build", plan |-> main, 
                      saved |-> [image |-> site.image, head |-> site.head,
                                 released |-> site.released]]]
    /\ UNCHANGED <<lock, site>>

\* Checks the commits out and builds; a build that fails ends the script there.
Build(j) ==
    /\ At(j, "build")
    /\ \/ /\ site' = [site EXCEPT !.head = script[j].plan, !.image = script[j].plan]
          /\ Goto(j, "up")
          /\ UNCHANGED lock
       \/ /\ site' = [site EXCEPT !.head = script[j].plan]
          /\ Goto(j, "end")
          /\ lock' = Null

\* compose_application_up
Up(j) ==
    /\ At(j, "up")
    /\ \/ /\ site' = [site EXCEPT !.running = site.image]
          /\ Goto(j, "wait")
          /\ UNCHANGED lock
       \/ /\ Goto(j, "end")
          /\ lock' = Null
          /\ UNCHANGED site

\* wait_for_backend; the release is published only after it.
Record(j) ==
    /\ At(j, "wait") /\ site.running \in Healthy
    /\ site' = [site EXCEPT !.released = script[j].plan]
    /\ Goto(j, "end")
    /\ lock' = Null

\* The back end does not become ready.
Unready(j) == At(j, "wait") /\ Goto(j, "rollback") /\ UNCHANGED <<lock, site>>

\* rollback.sh: images, commits and containers first, the record last.
Rollback(j) ==
    /\ At(j, "rollback")
    /\ LET s == script[j].saved
       IN  site' = [site EXCEPT !.image = s.image, !.head = s.head, !.running = s.image]
    /\ Goto(j, "settle")
    /\ UNCHANGED lock

RolledBack(j) ==
    /\ At(j, "settle") /\ site.running \in Healthy
    /\ site' = [site EXCEPT !.released = script[j].saved.released]
    /\ Goto(j, "end")
    /\ lock' = Null

\* die: the lock is not had in time, the plan is refused or something fails
\* that changes nothing; the rollback does not become ready.
Die(j) ==
    /\ script[j] # Null /\ script[j].step \in {"lock", "plan", "rollback", "settle"}
    /\ Goto(j, "end")
    /\ lock' = Unlocked(j)
    /\ UNCHANGED site

Run(j) == /\ \/ Lock(j) \/ Plan(j) \/ Build(j) \/ Up(j) \/ Record(j)
             \/ Unready(j) \/ Rollback(j) \/ RolledBack(j) \/ Die(j)
          /\ UNCHANGED <<main, queue, active, timer, response>>

\* Somebody pushes.
Push == /\ main < MaxMain
        /\ main' = main + 1
        /\ UNCHANGED <<queue, active, timer, response, script, lock, site>>

-----------------------------------------------------------------------------

DeployNext ==
    \/ \E j \in Jobs : \/ Request(j) \/ Close(j) \/ Timeout(j) \/ KillHard(j)
                       \/ Disconnect(j) \/ Run(j)
    \/ Crash
    \/ Push

\* Timers fire and a process that has ended is noticed; a script may hang.
DeploySpec ==
    /\ DeployInit /\ [][DeployNext]_deployVars
    /\ \A j \in Jobs : WF_deployVars(Close(j)) /\ WF_deployVars(Timeout(j))
                       /\ WF_deployVars(KillHard(j))

-----------------------------------------------------------------------------
(* Properties.                                                             *)

\* Nobody waits for ever for an upgrade, wherever the script hangs and
\* whichever upgrades are queued before it (createDeploymentRunner, drainQueue).
EveryJobAnswered == \A j \in Jobs : response[j] = "waiting" ~> response[j] # "waiting"

\* A rollback that succeeds brings the record in line with the containers
\* ("成功部署或回滚时同步更新版本记录", docs/release-v1.0.1.md).  It fails when an
\* earlier upgrade was killed after its build: see the README.
RollbackRecordsWhatRuns ==
    [][\A j \in Jobs : Run(j) /\ RolledBack(j) => site'.released = site'.running]_deployVars
=============================================================================
