------------------------------ MODULE Rollout ------------------------------
(***************************************************************************)
(* Deployments and rollbacks of one application, from the order to the     *)
(* stack that serves it: the deployments table with its commit hashes and  *)
(* environment snapshots, the payloads of the jobs, and the executor's     *)
(* pipelines on the agent's host (git checkout, .env file, images, compose *)
(* stack, health gate).                                                    *)
(*                                                                         *)
(* The job queue is the one of JobQueue, seen from one application: a batch*)
(* at a time, one run at a time (the application's lock), lost reports     *)
(* ended by the reaper, retries with the old payload.  Deployment and job  *)
(* share an id.                                                            *)
(***************************************************************************)
EXTENDS Naturals, FiniteSets

CONSTANTS
    Jobs,        \* ids of ordered operations
    KindsOf,     \* the operations each job may be ordered as
    Branches,    \* branches of the repository
    VarNames, Values, Unset,   \* environment variables
    MaxCommit,   \* bound: commits in the repository
    MaxEvents    \* bound: pushes, edits, retries, crashes and lost requests

ASSUME RolloutAssumption ==
    /\ Jobs \subseteq Nat \ {0}
    /\ IsFiniteSet(Branches)
    /\ KindsOf \in [Jobs -> SUBSET {"deploy", "rollback", "start", "stop",
                                    "restart", "destroy"}]
    /\ Unset \notin Values
    /\ {MaxCommit, MaxEvents} \subseteq Nat
    /\ MaxCommit >= Cardinality(Branches)

VARIABLES
    remote,    \* the tip of each branch in the repository
    commits,   \* commits made so far
    branch,    \* applications.branch
    env,       \* environment_variables
    order,     \* the payload of each job
    stage,     \* how far the request that orders a job has got
    dep,       \* deployments, by the id of their job
    job,       \* jobs.status
    batch,     \* jobs the agent polled and has not begun
    run,       \* the run the application's lock admits
    repo,      \* the work directory: cloned branch and HEAD
    envFile,   \* the .env file compose reads
    images,    \* what each image tag was built from
    stack,     \* what the containers were created from, and their state
    left,      \* history: what the last good rollout left, until .env is written
    untold,    \* history: deployments whose last attempt's commit info got lost
    events

userVars == <<remote, commits, branch, env>>
dbVars == <<order, stage, dep, job>>
hostVars == <<repo, envFile, images, stack, left>>
rolloutVars == <<userVars, dbVars, batch, run, hostVars, untold, events>>

Commits == 1..MaxCommit
Environments == [VarNames -> Values \cup {Unset}]
NoVars == [k \in VarNames |-> Unset]
Tags == [commit : Commits, form : {"full", "short"}]
NoTag == [commit |-> 0, form |-> "none"]
FullTag(c) == [commit |-> c, form |-> "full"]
ShortTag(c) == [commit |-> c, form |-> "short"]   \* commitHash[:8]
Verdicts == {"success", "failed"}

NoOrder == [kind |-> "none", branch |-> "none", env |-> NoVars, tag |-> NoTag]
NoDep == [id |-> 0, status |-> "none", hash |-> 0, snapshot |-> NoVars, prev |-> 0]
NoRun == [job |-> 0, pc |-> "idle", commit |-> 0, info |-> 0, verdict |-> "none"]
NoRepo == [cloned |-> "none", head |-> 0]
NoStack == [commit |-> 0, env |-> NoVars, up |-> "none"]

RolloutTypeOK ==
    /\ remote \in [Branches -> Commits] /\ commits \in Commits
    /\ branch \in Branches /\ env \in Environments
    /\ order \in [Jobs -> [kind : {"none"} \cup UNION {KindsOf[j] : j \in Jobs},
                           branch : Branches \cup {"none"},
                           env : Environments, tag : Tags \cup {NoTag}]]
    /\ stage \in [Jobs -> {"none", "read", "row", "job", "done", "failed"}]
    /\ dep \in [Jobs -> [id : Nat, status : {"none", "pending", "deploying"} \cup Verdicts,
                         hash : Commits \cup {0}, snapshot : Environments,
                         prev : Jobs \cup {0}]]
    /\ job \in [Jobs -> {"none", "queued", "running"} \cup Verdicts]
    /\ batch \subseteq Jobs
    /\ run \in [job : Jobs \cup {0}, commit : Commits \cup {0}, info : Commits \cup {0},
                pc : {"idle", "git", "head", "vars", "image", "build", "up", "gate",
                      "power", "report"},
                verdict : Verdicts \cup {"none"}]
    /\ repo \in [cloned : Branches \cup {"none", "partial"}, head : Commits \cup {0}]
    /\ envFile \in [tag : Tags \cup {NoTag}, env : Environments, there : BOOLEAN]
    /\ images \in [Tags -> Commits \cup {0}]
    /\ stack \in [commit : Commits \cup {0}, env : Environments,
                  up : {"none", "starting", "running", "crashed", "stopped"}]
    /\ left \in [commit : Commits \cup {0}, env : Environments, up : {"none", "running"}]
    /\ untold \subseteq Jobs
    /\ events \in Nat

RolloutInit ==
    /\ commits = Cardinality(Branches)
    /\ remote \in {r \in [Branches -> 1..commits] :
                      \A a, b \in Branches : r[a] = r[b] => a = b}
    /\ branch \in Branches
    /\ env = NoVars
    /\ order = [j \in Jobs |-> NoOrder]
    /\ stage = [j \in Jobs |-> "none"]
    /\ dep = [j \in Jobs |-> NoDep]
    /\ job = [j \in Jobs |-> "none"]
    /\ batch = {}
    /\ run = NoRun
    /\ repo = NoRepo
    /\ envFile = [tag |-> NoTag, env |-> NoVars, there |-> FALSE]
    /\ images = [t \in Tags |-> 0]
    /\ stack = NoStack
    /\ left = NoStack
    /\ untold = {}
    /\ events = 0

-----------------------------------------------------------------------------
(* The repository and the application's row.                               *)

(* What happens a bounded number of times.                                 *)
Event == events < MaxEvents /\ events' = events + 1

(* Somebody pushes a commit (external).                                    *)
Push(b) ==
    /\ commits < MaxCommit /\ Event
    /\ commits' = commits + 1
    /\ remote' = [remote EXCEPT ![b] = commits + 1]
    /\ UNCHANGED <<branch, env, dbVars, batch, run, hostVars, untold>>

Edit == /\ Event
        /\ UNCHANGED <<remote, commits, dbVars, batch, run, hostVars, untold>>

(* ApplicationRepository.Update: the row's branch.                         *)
SetBranch(b) == Edit /\ branch' = b /\ UNCHANGED env

(* SyncEnvVars: the request's variables replace all; an empty list is      *)
(* taken for no list and leaves the variables as they are.                 *)
SyncEnvVars(vars0) ==
    /\ Edit
    /\ env' = IF vars0 = NoVars THEN env ELSE vars0
    /\ UNCHANGED branch

(* UpdateEnvVar and DeleteEnvVar know no variable that is not set.         *)
SetEnvVar(k, v) ==
    /\ Edit
    /\ v = Unset => env[k] # Unset
    /\ env' = [env EXCEPT ![k] = v]
    /\ UNCHANGED branch

-----------------------------------------------------------------------------
(* Ordering an operation: the requests' reads and writes, one by one.      *)

Rows == {j \in Jobs : dep[j].status # "none"}
Successes == {j \in Rows : dep[j].status = "success"}

(* DeploymentRepository.List, ORDER BY triggered_at DESC LIMIT 1.          *)
LatestSuccess ==
    {j \in Successes : \A i \in Successes : dep[i].id <= dep[j].id}

Requested(j, payload, at) ==
    /\ stage[j] = "none"
    /\ payload.kind \in KindsOf[j]
    /\ \A i \in Jobs : i < j => stage[i] # "none"
    /\ order' = [order EXCEPT ![j] = payload]
    /\ stage' = [stage EXCEPT ![j] = at]
    /\ UNCHANGED <<userVars, dep, job, batch, run, hostVars, untold, events>>

(* Service.Deploy reads the row and the variables once; what it read goes  *)
(* into the snapshot and into the payload.                                 *)
OrderDeploy(j) ==
    Requested(j, [kind |-> "deploy", branch |-> branch, env |-> env, tag |-> NoTag],
              "read")

(* Service.Rollback: the tag of the latest successful deployment, made of  *)
(* the hash in its row.  A deployment without a hash ends the request.     *)
OrderRollback(j) ==
    \E p \in LatestSuccess :
        /\ dep[p].hash # 0
        /\ Requested(j, [kind |-> "rollback", branch |-> branch, env |-> env,
                         tag |-> ShortTag(dep[p].hash)], "read")

(* Start, Stop, Restart and Delete have no deployment.                     *)
OrderOther(j, k) ==
    /\ k \notin {"deploy", "rollback"}
    /\ Requested(j, [NoOrder EXCEPT !.kind = k], "job")

(* DeploymentRepository.Create.                                            *)
InsertRow(j) ==
    /\ stage[j] = "read"
    /\ dep' = [dep EXCEPT ![j] = [NoDep EXCEPT !.id = Cardinality(Rows) + 1,
                                               !.status = "pending"]]
    /\ stage' = [stage EXCEPT ![j] = IF order[j].kind = "deploy" THEN "row" ELSE "job"]
    /\ UNCHANGED <<userVars, order, job, batch, run, hostVars, untold, events>>

(* UpdateEnvSnapshot: the variables, and the latest success of a lower id  *)
(* as it is now.                                                           *)
Snapshot(j) ==
    /\ stage[j] = "row"
    /\ LET earlier == {i \in Successes : dep[i].id < dep[j].id}
           last == {i \in earlier : \A h \in earlier : dep[h].id <= dep[i].id} IN
       dep' = [dep EXCEPT ![j].snapshot = order[j].env,
                          ![j].prev = IF last = {} THEN 0 ELSE CHOOSE i \in last : TRUE]
    /\ stage' = [stage EXCEPT ![j] = "job"]
    /\ UNCHANGED <<userVars, order, job, batch, run, hostVars, untold, events>>

(* Service.Diff: the variables a deployment added, changed and removed with*)
(* regard to the deployment its row calls the previous one.                *)
Diff(j) ==
    LET cur == dep[j].snapshot
        prevEnv == IF dep[j].prev = 0 THEN NoVars ELSE dep[dep[j].prev].snapshot IN
    [additions |-> {k \in VarNames : cur[k] # Unset /\ prevEnv[k] = Unset},
     updates |-> {k \in VarNames : Unset \notin {cur[k], prevEnv[k]} /\ cur[k] # prevEnv[k]},
     removals |-> {k \in VarNames : cur[k] = Unset /\ prevEnv[k] # Unset}]

(* Mutant: the job is queued before the snapshot is taken.                 *)
InsertJobEarly(j) ==
    /\ stage[j] \in {"row", "job"}
    /\ job' = [job EXCEPT ![j] = "queued"]
    /\ stage' = [stage EXCEPT ![j] = "done"]
    /\ UNCHANGED <<userVars, order, dep, batch, run, hostVars, untold, events>>

(* jobSvc.Create, the last step of every order.                            *)
InsertJob(j) ==
    /\ stage[j] = "job"
    /\ job' = [job EXCEPT ![j] = "queued"]
    /\ stage' = [stage EXCEPT ![j] = "done"]
    /\ UNCHANGED <<userVars, order, dep, batch, run, hostVars, untold, events>>

(* A statement fails, and the rows written before it stay.                 *)
OrderFails(j) ==
    /\ stage[j] \in {"read", "row", "job"}
    /\ Event
    /\ stage' = [stage EXCEPT ![j] = "failed"]
    /\ UNCHANGED <<userVars, order, dep, job, batch, run, hostVars, untold>>

(* JobHandler.Retry: the row is queued again with the payload it has.      *)
Retry(j) ==
    /\ job[j] = "failed"
    /\ Event
    /\ job' = [job EXCEPT ![j] = "queued"]
    /\ UNCHANGED <<userVars, order, stage, dep, batch, run, hostVars, untold>>

-----------------------------------------------------------------------------
(* The agent: polling, and the reports around a run.                       *)

(* pollAndExecuteJobs: the queued jobs, once the last batch is worked off. *)
Poll ==
    /\ batch = {} /\ run = NoRun
    /\ batch' = {j \in Jobs : job[j] = "queued"}
    /\ batch' # {}
    /\ UNCHANGED <<userVars, dbVars, run, hostVars, untold, events>>

(* Executor.Execute: the pipeline of a job type begins with ...            *)
FirstStep(k) ==
    CASE k = "deploy" -> "git" [] k = "rollback" -> "image"
      [] k \notin {"deploy", "rollback"} -> "power"

(* processJob: the lock, StartJob and the deployment listener's Deploying. *)
Begin(j) ==
    /\ j \in batch /\ run = NoRun
    /\ batch' = batch \ {j}
    /\ \/ /\ run' = [NoRun EXCEPT !.job = j, !.pc = FirstStep(order[j].kind)]
          /\ job' = [job EXCEPT ![j] = "running"]
          /\ dep' = IF j \in Rows THEN [dep EXCEPT ![j].status = "deploying"] ELSE dep
          /\ untold' = untold \ {j}
          /\ UNCHANGED events
       \/ /\ Event
          /\ UNCHANGED <<run, job, dep, untold>>
    /\ UNCHANGED <<userVars, order, stage, hostVars>>

(* FinishJob after the last event was sent; the listener's verdict.        *)
Report ==
    /\ run.pc = "report" /\ run.info = 0
    /\ \/ /\ job' = [job EXCEPT ![run.job] = run.verdict]
          /\ dep' = IF run.job \in Rows THEN [dep EXCEPT ![run.job].status = run.verdict]
                                        ELSE dep
          /\ UNCHANGED events
       \/ /\ Event
          /\ UNCHANGED <<job, dep>>
    /\ run' = NoRun
    /\ UNCHANGED <<userVars, order, stage, batch, hostVars, untold>>

(* The agent process dies with its commands; what they did to the host     *)
(* stays.                                                                  *)
Crash ==
    /\ run # NoRun \/ batch # {}
    /\ Event
    /\ run' = NoRun /\ batch' = {}
    /\ untold' = IF run.info = 0 THEN untold ELSE untold \cup {run.job}
    /\ UNCHANGED <<userVars, dbVars, hostVars>>

(* The reaper ends a run nobody works on.                                  *)
Reap(j) ==
    /\ job[j] = "running" /\ run.job # j
    /\ job' = [job EXCEPT ![j] = "failed"]
    /\ dep' = IF j \in Rows THEN [dep EXCEPT ![j].status = "failed"] ELSE dep
    /\ UNCHANGED <<userVars, order, stage, batch, run, hostVars, untold, events>>

(* UpdateCommitInfo, sent by a goroutine of its own while the pipeline goes*)
(* on; a failed request is only logged.                                    *)
SendCommitInfo ==
    /\ run.info # 0
    /\ run' = [run EXCEPT !.info = 0]
    /\ \/ /\ dep' = [dep EXCEPT ![run.job].hash = run.info]
          /\ UNCHANGED <<untold, events>>
       \/ /\ Event
          /\ untold' = untold \cup {run.job}
          /\ UNCHANGED dep
    /\ UNCHANGED <<userVars, order, stage, job, batch, hostVars>>

-----------------------------------------------------------------------------
(* The pipelines.  A command that fails or outlives the job's timeout ends *)
(* the run as failed.                                                      *)

agentOnly == <<userVars, dbVars, batch, untold, events>>

At(pc) == run.pc = pc
Payload == order[run.job]
Goto(pc) == run' = [run EXCEPT !.pc = pc]
Fail == run' = [run EXCEPT !.pc = "report", !.verdict = "failed"]
Succeed == run' = [run EXCEPT !.pc = "report", !.verdict = "success"]

(* Manager.Clone of one branch; a clone killed by the timeout leaves a .git*)
(* that makes no repository.                                               *)
Clone ==
    /\ At("git") /\ repo.cloned = "none"
    /\ \/ /\ repo' = [cloned |-> Payload.branch, head |-> remote[Payload.branch]]
          /\ Goto("head")
       \/ repo' = repo /\ Fail
       \/ repo' = [cloned |-> "partial", head |-> 0] /\ Fail
    /\ UNCHANGED <<agentOnly, envFile, images, stack, left>>

(* Manager.Pull: checkout, fetch and hard reset.  A clone of depth 1 knows *)
(* one branch, and no other can be checked out in it.                      *)
Pull ==
    /\ At("git") /\ repo.cloned # "none"
    /\ \/ /\ repo.cloned = Payload.branch
          /\ repo' = [repo EXCEPT !.head = remote[Payload.branch]]
          /\ Goto("head")
       \/ repo' = repo /\ Fail
    /\ UNCHANGED <<agentOnly, envFile, images, stack, left>>

(* GetCurrentCommit and the commit info event.                             *)
ReadHead ==
    /\ At("head")
    /\ run' = [run EXCEPT !.pc = "vars", !.commit = repo.head, !.info = repo.head]
    /\ UNCHANGED <<agentOnly, hostVars>>

(* The compose file is looked up, and the user's variables are written     *)
(* first, without the image, if there are any.                             *)
WriteVars ==
    /\ At("vars")
    /\ \/ /\ Payload.env # NoVars
          /\ envFile' = [tag |-> NoTag, env |-> Payload.env, there |-> TRUE]
          /\ left' = NoStack
          /\ Goto("image")
       \/ /\ Payload.env = NoVars
          /\ UNCHANGED <<envFile, left>>
          /\ Goto("image")
       \/ UNCHANGED <<envFile, left>> /\ Fail
    /\ UNCHANGED <<agentOnly, repo, images, stack>>

(* APP_IMAGE and the variables: the tag of this commit for a deploy, the   *)
(* payload's for a rollback, which needs no build.                         *)
WriteImage ==
    /\ At("image")
    /\ \/ /\ envFile' = [tag |-> IF Payload.kind = "deploy" THEN FullTag(run.commit)
                                                             ELSE Payload.tag,
                          env |-> Payload.env, there |-> TRUE]
          /\ left' = NoStack
          /\ Goto(IF Payload.kind = "deploy" THEN "build" ELSE "up")
       \/ UNCHANGED <<envFile, left>> /\ Fail
    /\ UNCHANGED <<agentOnly, repo, images, stack>>

(* compose build tags the checkout's image with APP_IMAGE.                 *)
Build ==
    /\ At("build")
    /\ \/ /\ images' = [images EXCEPT ![envFile.tag] = repo.head]
          /\ Goto("up")
       \/ UNCHANGED images /\ Fail
    /\ UNCHANGED <<agentOnly, repo, envFile, stack, left>>

(* compose up --force-recreate (external): the containers are made from the*)
(* image .env names.  Compose builds an image it does not find from the    *)
(* checkout, if the service has a build section.                           *)
Recreate ==
    /\ envFile.tag # NoTag
    /\ images[envFile.tag] # 0 \/ repo.head # 0
    /\ images' = [images EXCEPT ![envFile.tag] = IF @ # 0 THEN @ ELSE repo.head]
    /\ stack' = [commit |-> images'[envFile.tag], env |-> envFile.env,
                 up |-> "starting"]

(* An up that fails may have taken the old containers down.                *)
RecreateFails ==
    /\ UNCHANGED images
    /\ stack' \in {stack, [stack EXCEPT !.up = IF @ = "none" THEN @ ELSE "stopped"]}

Up ==
    /\ At("up")
    /\ \/ Recreate /\ Goto("gate")
       \/ RecreateFails /\ Fail
    /\ UNCHANGED <<agentOnly, repo, envFile, left>>

(* Mutant: compose up returning without error is success.                  *)
GateOpen ==
    /\ At("gate")
    /\ Succeed /\ left' = stack
    /\ UNCHANGED <<agentOnly, repo, envFile, images, stack>>

(* waitForAppRunning.                                                      *)
HealthGate ==
    /\ At("gate")
    /\ \/ stack.up = "running" /\ Succeed /\ left' = stack
       \/ stack.up \in {"crashed", "starting"} /\ Fail /\ UNCHANGED left
    /\ UNCHANGED <<agentOnly, repo, envFile, images, stack>>

(* Containers come up or crash on boot (external).                         *)
Boot ==
    /\ stack.up = "starting"
    /\ \E s \in {"running", "crashed"} : stack' = [stack EXCEPT !.up = s]
    /\ UNCHANGED <<agentOnly, run, repo, envFile, images, left>>

Power(k) == At("power") /\ Payload.kind = k

(* startApp: compose start of the containers there are.                    *)
StartApp ==
    /\ Power("start")
    /\ \/ /\ stack.up # "none"
          /\ stack' = [stack EXCEPT !.up = IF @ = "running" THEN @ ELSE "starting"]
          /\ Succeed
       \/ UNCHANGED stack /\ Fail
    /\ UNCHANGED <<agentOnly, repo, envFile, images, left>>

StopApp ==
    /\ Power("stop")
    /\ \/ /\ stack' = [stack EXCEPT !.up = IF @ = "none" THEN @ ELSE "stopped"]
          /\ Succeed
       \/ UNCHANGED stack /\ Fail
    /\ UNCHANGED <<agentOnly, repo, envFile, images, left>>

(* Mutant: restart writes .env again, with the variables of its own payload.*)
RestartRewrites ==
    /\ Power("restart")
    /\ \/ /\ envFile.there
          /\ envFile.tag # NoTag /\ images[envFile.tag] # 0
          /\ stack' = [commit |-> images[envFile.tag], env |-> Payload.env,
                       up |-> "starting"]
          /\ UNCHANGED images
          /\ Succeed
       \/ RecreateFails /\ Fail
    /\ UNCHANGED <<agentOnly, repo, envFile, left>>

(* restartApp recreates from the file as it is, and waits for nothing.     *)
RestartApp ==
    /\ Power("restart")
    /\ \/ envFile.there /\ Recreate /\ Succeed
       \/ RecreateFails /\ Fail
    /\ UNCHANGED <<agentOnly, repo, envFile, left>>

(* destroyApp: stop, commit a backup, remove; each may be the last.        *)
DestroyApp ==
    /\ Power("destroy")
    /\ \/ stack.up # "none" /\ stack' = NoStack /\ Succeed
       \/ /\ stack' \in {stack, [stack EXCEPT !.up = IF @ = "none" THEN @ ELSE "stopped"]}
          /\ Fail
    /\ UNCHANGED <<agentOnly, repo, envFile, images, left>>

Pipeline == \/ Clone \/ Pull \/ ReadHead \/ WriteVars \/ WriteImage \/ Build \/ Up
            \/ HealthGate \/ StartApp \/ StopApp \/ RestartApp \/ DestroyApp

RolloutNext ==
    \/ \E b \in Branches : Push(b) \/ SetBranch(b)
    \/ \E vars0 \in Environments : SyncEnvVars(vars0)
    \/ \E k \in VarNames, v \in Values \cup {Unset} : SetEnvVar(k, v)
    \/ \E j \in Jobs : \/ OrderDeploy(j) \/ OrderRollback(j)
                       \/ \E k \in KindsOf[j] : OrderOther(j, k)
                       \/ InsertRow(j) \/ Snapshot(j) \/ InsertJob(j)
                       \/ OrderFails(j) \/ Retry(j) \/ Begin(j) \/ Reap(j)
    \/ Poll \/ Report \/ Crash \/ SendCommitInfo
    \/ Pipeline \/ Boot

RolloutSpec == RolloutInit /\ [][RolloutNext]_rolloutVars

-----------------------------------------------------------------------------
(* Properties.                                                             *)

(* "Success only counts when the app is actually running" (README.md:24):  *)
(* a deployment turns successful only with the stack running, made with the*)
(* variables of its order and, for a deploy, from the commit its row names,*)
(* unless the commit info of this attempt got lost.  What was recorded is  *)
(* what serves, across retries, edits, pushes and crashes.                 *)
SuccessServesItsRecord ==
    [][\A j \in Jobs :
          dep'[j].status = "success" /\ dep[j].status # "success" =>
             /\ stack.up = "running"
             /\ stack.env = order[j].env
             /\ order[j].kind = "deploy" /\ j \notin untold
                   => stack.commit = dep[j].hash]_rolloutVars

(* Stops, starts, restarts and failed pulls change nothing of what the last*)
(* good rollout left: the commit and the variables it served go on being   *)
(* served, until a pipeline writes .env again (executor.go:557-630).  One  *)
(* that writes it and fails leaves the old containers under a new file, so *)
(* the promise ends there.                                                 *)
RestartChangesNothing ==
    left # NoStack /\ stack.up # "none" =>
        /\ stack.commit = left.commit
        /\ stack.env = left.env

(* What the diff view shows of a deploy (application/service.go:226-266,   *)
(* deployment/service.go:186-247) is what its payload deploys: a queued    *)
(* deploy has its snapshot, whatever part of its order failed; the base is *)
(* an earlier deployment that succeeded; and additions, updates and        *)
(* removals turn the base's snapshot into the deployment's own.            *)
DiffExplainsDeploy ==
    \A j \in Rows :
        LET d == Diff(j)  p == dep[j].prev IN
        /\ order[j].kind = "deploy" /\ job[j] # "none" => dep[j].snapshot = order[j].env
        /\ p # 0 => dep[p].status = "success" /\ dep[p].id < dep[j].id
        /\ dep[j].snapshot =
              [k \in VarNames |-> IF k \in d.removals THEN Unset
                             ELSE IF k \in d.additions \cup d.updates
                                  THEN dep[j].snapshot[k]
                             ELSE IF p = 0 THEN Unset ELSE dep[p].snapshot[k]]

(* Service.Rollback's promise ("the tag already exists in the docker       *)
(* daemon", application/service.go:274; executor.go:632-635): a rollback   *)
(* reaches compose up with a tag that some build made.                     *)
RollbackTagExists ==
    run.pc = "up" /\ order[run.job].kind = "rollback" => images[envFile.tag] # 0

=============================================================================
