---------------------------- MODULE AppLifecycle ----------------------------
(***************************************************************************)
(* Applications and deployments on top of the job queue: the operations of *)
(* the application service (check, write, insert a job), and the listeners *)
(* that copy the events of a job into applications.status and              *)
(* deployments.status before the call that published them returns.         *)
(*                                                                         *)
(* A deploy or rollback job has a deployment of its own, named by the job. *)
(***************************************************************************)
EXTENDS JobQueue

CONSTANTS
    Kinds,            \* the operations an operator orders
    MaxCreateFails,   \* bound: how many job inserts fail
    ShortRequests     \* whether a request is handled faster than a job runs

ASSUME AppLifecycleAssumption ==
    /\ Kinds \subseteq {"deploy", "rollback", "start", "stop", "restart",
                        "destroy"}
    /\ MaxCreateFails \in Nat
    /\ ShortRequests \in BOOLEAN
    /\ \A j \in Periodic : AppOf[j] = NoKey  \* scheduled jobs name no application

VARIABLES
    appStatus,    \* applications.status
    deleted,      \* applications with a deleted_at
    kind,         \* jobs.type, from the moment the operation is ordered
    depStatus,    \* deployments.status, "none" before the row exists
    step,         \* how far the request that orders a job has got
    heard,        \* which listeners have seen the event of a call
    createFails   \* inserts that failed so far

appVars == <<appStatus, deleted, kind, depStatus, step, heard, createFails>>

Transitional == {"deploying", "starting", "restarting", "stopping"}
AppStatuses == Transitional \cup {"running", "stopped", "failed", "unknown"}
(* What a health report may say (aggregateContainerHealth and its caller). *)
HealthStatuses == {"running", "starting", "failed", "unknown"}

HasDeployment(j) == kind[j] \in {"deploy", "rollback"}

AppTypeOK ==
    /\ TypeOK
    /\ appStatus \in [Apps -> AppStatuses]
    /\ deleted \in SUBSET Apps
    /\ kind \in [Jobs -> Kinds \cup {"none"}]
    /\ depStatus \in [Jobs -> {"none", "pending", "deploying"} \cup Verdicts]
    /\ step \in [Jobs -> {"none", "checked", "ordered", "announce", "remove"}]
    /\ heard \in [CallIds -> {"none", "app", "all"}]
    /\ createFails \in Nat

AppInit ==
    /\ Init
    /\ appStatus \in [Apps -> {"running", "stopped", "unknown"}]
    /\ deleted = {}
    /\ kind = [j \in Jobs |-> "none"]
    /\ depStatus = [j \in Jobs |-> "none"]
    /\ step = [j \in Jobs |-> "none"]
    /\ heard = [c \in CallIds |-> "none"]
    /\ createFails = 0

-----------------------------------------------------------------------------
(* The operations of the application service.                              *)

(* repo.UpdateStatus, which knows no deleted application.                  *)
SetStatus(a, s) ==
    appStatus' = IF a \in deleted THEN appStatus ELSE [appStatus EXCEPT ![a] = s]

(* What each operation asks of the status it reads.                        *)
Permitted(k, s) ==
    /\ k = "start" => s # "running"
    /\ k = "stop" => s # "stopped"
    /\ k = "destroy" => s \notin Transitional

Succeeded(a) == \E j \in Jobs : AppOf[j] = a /\ depStatus[j] = "success"

(* GetByID and the checks of Deploy, Rollback, Start, Stop, Restart and    *)
(* Delete.  The deployment a rollback picks is not told apart.             *)
Check(j, k) ==
    /\ kind[j] = "none"
    /\ AppOf[j] \in Apps \ deleted
    /\ Permitted(k, appStatus[AppOf[j]])
    /\ k = "rollback" => Succeeded(AppOf[j])
    /\ kind' = [kind EXCEPT ![j] = k]
    /\ step' = [step EXCEPT ![j] = "checked"]
    /\ UNCHANGED <<vars, appStatus, deleted, depStatus, heard, createFails>>

(* Deploy and Rollback insert the deployment, Start and Restart set the    *)
(* status ahead of the job; that fails when the application is gone.       *)
Prepare(j) ==
    /\ step[j] = "checked"
    /\ \/ /\ HasDeployment(j)
          /\ depStatus' = [depStatus EXCEPT ![j] = "pending"]
          /\ step' = [step EXCEPT ![j] = "ordered"]
          /\ UNCHANGED <<appStatus, kind>>
       \/ /\ kind[j] \in {"start", "restart"}
          /\ AppOf[j] \notin deleted
          /\ SetStatus(AppOf[j], IF kind[j] = "start" THEN "starting"
                                                      ELSE "restarting")
          /\ step' = [step EXCEPT ![j] = "ordered"]
          /\ UNCHANGED <<kind, depStatus>>
       \/ /\ kind[j] \in {"start", "restart"}
          /\ AppOf[j] \in deleted
          /\ step' = [step EXCEPT ![j] = "none"]
          /\ kind' = [kind EXCEPT ![j] = "none"]
          /\ UNCHANGED <<appStatus, depStatus>>
    /\ UNCHANGED <<vars, deleted, heard, createFails>>

Insertable(j) ==
    step[j] = (IF kind[j] \in {"stop", "destroy"} THEN "checked" ELSE "ordered")

(* jobSvc.Create: the row is committed before job_created is published.    *)
Insert(j) ==
    /\ Insertable(j)
    /\ Create(j)
    /\ step' = [step EXCEPT ![j] = "announce"]
    /\ UNCHANGED <<appStatus, deleted, kind, depStatus, heard, createFails>>

(* The insert fails: Deploy and Rollback set the status to failed, Start   *)
(* and Restart leave what they wrote before.                               *)
InsertFails(j) ==
    /\ Insertable(j)
    /\ createFails < MaxCreateFails
    /\ createFails' = createFails + 1
    /\ \/ HasDeployment(j) /\ SetStatus(AppOf[j], "failed")
       \/ ~HasDeployment(j) /\ UNCHANGED appStatus
    /\ step' = [step EXCEPT ![j] = "none"]
    /\ UNCHANGED <<vars, deleted, kind, depStatus, heard>>

(* The deployment listener's handleJobCreated; Delete goes on after it.    *)
Announce(j) ==
    /\ step[j] = "announce"
    /\ \/ HasDeployment(j) /\ depStatus' = [depStatus EXCEPT ![j] = "pending"]
       \/ ~HasDeployment(j) /\ UNCHANGED depStatus
    /\ step' = [step EXCEPT ![j] = IF kind[j] = "destroy" THEN "remove" ELSE "none"]
    /\ UNCHANGED <<vars, appStatus, deleted, kind, heard, createFails>>

(* The end of Delete: the row is marked deleted.                           *)
Remove(j) ==
    /\ step[j] = "remove"
    /\ deleted' = deleted \cup {AppOf[j]}
    /\ step' = [step EXCEPT ![j] = "none"]
    /\ UNCHANGED <<vars, appStatus, kind, depStatus, heard, createFails>>

-----------------------------------------------------------------------------
(* The listeners of job_started and job_finished.  The events are published*)
(* whether or not the row changed, and job_finished carries the verdict of *)
(* the request.                                                            *)

(* Mutants: a status the applications know nothing of; a stop that never   *)
(* comes to its end.                                                       *)
StatusOnStartByKind(k) == IF k = "rollback" THEN "rolling_back" ELSE "deploying"
StatusOnSuccessStopping(k) == IF k = "stop" THEN "stopping" ELSE "running"

StatusOnStart(k) ==
    CASE k \in {"deploy", "rollback"} -> "deploying"
      [] k = "start" -> "starting"
      [] k = "stop" -> "stopping"
      [] k = "restart" -> "restarting"

StatusOnSuccess(k) == IF k = "stop" THEN "stopped" ELSE "running"

Published(c) == /\ calls[c] # NoCall
                /\ calls[c].stage = "done"
                /\ AppOf[calls[c].job] # NoKey

(* application.Listener: handleJobStarted and handleJobFinished.           *)
HearApp(c) ==
    /\ Published(c)
    /\ heard[c] = "none"
    /\ LET j == calls[c].job  a == AppOf[j]  k == kind[j] IN
       /\ \/ /\ calls[c].op = "start" /\ k # "destroy"
             /\ SetStatus(a, StatusOnStart(k))
          \/ /\ calls[c].op = "finish" /\ calls[c].verdict = "failed"
             /\ SetStatus(a, "failed")
          \/ /\ calls[c].op = "finish" /\ calls[c].verdict = "success"
             /\ k # "destroy"
             /\ SetStatus(a, StatusOnSuccess(k))
          \/ /\ k = "destroy" /\ calls[c].verdict # "failed"
             /\ UNCHANGED appStatus
       /\ heard' = [heard EXCEPT ![c] = IF HasDeployment(j) THEN "app" ELSE "all"]
    /\ UNCHANGED <<vars, deleted, kind, depStatus, step, createFails>>

(* deployment.Listener: handleJobStarted and handleJobFinished.            *)
HearDeployment(c) ==
    /\ Published(c)
    /\ heard[c] = "app"
    /\ heard' = [heard EXCEPT ![c] = "all"]
    /\ depStatus' = [depStatus EXCEPT ![calls[c].job] =
          IF calls[c].op = "start" THEN "deploying" ELSE calls[c].verdict]
    /\ UNCHANGED <<vars, appStatus, deleted, kind, step, createFails>>

(* Mutant: the call does not wait for the listeners, and the events they   *)
(* have not seen are lost with it.                                         *)
AnswerAtOnce(c) ==
    /\ Reply(c)
    /\ heard' = [heard EXCEPT ![c] = "none"]
    /\ UNCHANGED <<appStatus, deleted, kind, depStatus, step, createFails>>

(* Publish is synchronous: the call returns after the last listener.       *)
Answer(c) ==
    /\ Reply(c)
    /\ Published(c) => heard[c] = "all"
    /\ heard' = [heard EXCEPT ![c] = "none"]
    /\ UNCHANGED <<appStatus, deleted, kind, depStatus, step, createFails>>

-----------------------------------------------------------------------------
(* The executor, and the calls of JobQueue that do not touch these tables. *)

NothingUnderWay(j) == step[j] = "none" /\ \A c \in InFlight : calls[c].job # j

(* With ShortRequests no request about a job that is under way outlasts    *)
(* the job's run, nor the time after which a row is reaped.                *)
InTime(j) == ShortRequests => NothingUnderWay(j)

(* The run of an application's job ends.                                   *)
Run(w, v) ==
    LET j == worker[w].job IN
    /\ Execute(w, v)
    /\ AppOf[j] # NoKey
    /\ InTime(j)
    /\ UNCHANGED appVars

(* A health check ends by sending its report, which may get lost.          *)
(* UpdateHealth overwrites the status of every application it names.       *)
HealthCheck(w, v) ==
    /\ Execute(w, v)
    /\ AppOf[worker[w].job] = NoKey
    /\ \/ UNCHANGED appStatus
       \/ /\ v = "success"
          /\ \E named \in SUBSET Apps : \E s \in [named -> HealthStatuses] :
                appStatus' = [a \in Apps |-> IF a \in named THEN s[a] ELSE appStatus[a]]
    /\ UNCHANGED <<deleted, kind, depStatus, step, heard, createFails>>

Operation(j) ==
    \/ \E k \in Kinds : Check(j, k)
    \/ Prepare(j) \/ Insert(j) \/ InsertFails(j) \/ Announce(j) \/ Remove(j)

Listen(c) == HearApp(c) \/ HearDeployment(c) \/ Answer(c)

Undisturbed ==
    /\ \/ \E j \in Jobs : \/ AppOf[j] = NoKey /\ Create(j)
                          \/ InTime(j) /\ Age(j)
       \/ \E j \in Jobs, c \in CallIds : Request(j, c) \/ ReapNext(j, c)
       \/ \E c \in CallIds : Requeue(c) \/ MarkRunning(c) \/ MarkFinished(c) \/ Fault(c)
       \/ ReapScan
       \/ Poll
       \/ \E w \in Workers : \/ Take(w) \/ LookupLock(w) \/ AcquireLock(w)
                             \/ \E c \in CallIds : SendStart(w, c) \/ SendFinish(w, c)
                             \/ ReleaseLock(w) \/ Leave(w)
       \/ Crash
       \/ Restart
    /\ UNCHANGED appVars

AppNext ==
    \/ \E j \in Jobs : Operation(j)
    \/ \E c \in CallIds : Listen(c)
    \/ \E w \in Workers, v \in Verdicts : Run(w, v) \/ HealthCheck(w, v)
    \/ Undisturbed

allVars == <<vars, appVars>>

AppSpec == AppInit /\ [][AppNext]_allVars

-----------------------------------------------------------------------------
(* Properties.                                                             *)

(* When a job has its verdict and nothing about it is under way, its       *)
(* deployment says the same: created, started and finished events of the   *)
(* agent, the reaper and retries never leave the history behind or ahead of*)
(* the queue (deployment/listener.go).                                     *)
SettledDeploymentsAgree ==
    \A j \in Jobs :
        (HasDeployment(j) /\ status[j] \in Verdicts /\ NothingUnderWay(j))
            => depStatus[j] = status[j]

(* An application is in the middle of an operation only while a job or a   *)
(* request of it is: a status that Delete refuses, with the words "please  *)
(* wait for the operation to finish", goes away.  A health report may call *)
(* the containers themselves starting, hence the three other statuses.     *)
BusyAppHasWork ==
    \A a \in Apps \ deleted :
        appStatus[a] \in Transitional \ {"starting"} =>
            \E j \in Jobs : /\ AppOf[j] = a
                            /\ \/ status[j] \in {"queued", "running"}
                               \/ ~NothingUnderWay(j)

(* Without a failed insert that holds: whatever the order of events,       *)
(* verdicts, health reports and reaps, no application is left in the middle*)
(* of an operation that nobody performs (application/listener.go).         *)
BusyUnlessInsertFailed == createFails = 0 => BusyAppHasWork

(* Delete's promise (service.go, "application cannot be deleted while it is*)
(* %s", of the four transitional statuses): it lets pass no application    *)
(* that a worker is deploying, rolling back, starting, stopping or         *)
(* restarting.                                                             *)
DeletesWaitForRuns ==
    [][\A j \in Jobs :
          (kind[j] = "none" /\ kind'[j] = "destroy")
             => \A w \in Workers :
                   ~ /\ worker[w].pc = "exec"
                     /\ AppOf[worker[w].job] = AppOf[j]
                     /\ kind[worker[w].job] # "destroy"]_allVars

=============================================================================
