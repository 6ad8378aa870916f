------------------------- MODULE AppLifecycle_proofs -------------------------
(***************************************************************************)
(* For any number of applications, jobs, workers and calls: the operations *)
(* and listeners of AppLifecycle use the job queue as JobQueue says, so    *)
(* what is proved of the queue holds with them too; every status the       *)
(* listeners write is one the applications and deployments know; and, with *)
(* short requests, deployments at rest agree with their jobs and no        *)
(* application stays busy without work.                                    *)
(*                                                                         *)
(* The statuses need to know that a job the agent or a call is about was   *)
(* ordered (RowsExist, OrderedOnce): handleJobStarted has no status for a  *)
(* job of an unknown type.  The last two need to know who may still have a *)
(* call about a job (EventsInv): each part says that the events under way  *)
(* are the ones the row's status leaves room for, and the steps are proved *)
(* from one lemma for each variable that says which actions change it.     *)
(***************************************************************************)
EXTENDS AppLifecycle, JobQueue_proofs

(* Calls, polled jobs, workers and the reaper are about rows that exist.   *)
RowsExist ==
    /\ \A c \in CallIds : calls[c] # NoCall => status[calls[c].job] # "none"
    /\ \A b \in batch : status[b.job] # "none"
    /\ \A w \in Workers : worker[w] # Idle => status[worker[w].job] # "none"
    /\ \A j \in reapList : status[j] # "none"

(* Only jobs of applications are ordered, before their row exists and once.*)
OrderedOnce ==
    \A j \in Jobs :
        /\ AppOf[j] = NoKey => step[j] = "none" /\ kind[j] = "none"
        /\ AppOf[j] # NoKey =>
              /\ kind[j] = "none" => step[j] = "none"
              /\ status[j] # "none" => /\ kind[j] # "none"
                                       /\ step[j] \notin {"checked", "ordered"}

AppInv == AppTypeOK /\ JQInv /\ RowsExist /\ OrderedOnce

-----------------------------------------------------------------------------

(* Each step of AppLifecycle is a step of the job queue or leaves its      *)
(* variables alone.                                                        *)
LEMMA AppStepIsQueueStep == ASSUME [AppNext]_allVars PROVE [Next]_vars
<1>1. ASSUME NEW j \in Jobs, Operation(j) PROVE [Next]_vars
  BY <1>1 DEF Operation, Check, Prepare, Insert, InsertFails, Announce, Remove,
     Next
<1>2. ASSUME NEW c \in CallIds, Listen(c) PROVE [Next]_vars
  BY <1>2 DEF Listen, HearApp, HearDeployment, Answer, Next, Serve
<1>3. ASSUME NEW w \in Workers, NEW v \in Verdicts, Run(w, v) \/ HealthCheck(w, v)
      PROVE  Next
  BY <1>3 DEF Run, HealthCheck, Next, Advance
<1>4. CASE Undisturbed
  BY <1>4 DEF Undisturbed, Next, Serve, Advance
<1>5. CASE UNCHANGED allVars
  BY <1>5 DEF allVars
<1> QED BY <1>1, <1>2, <1>3, <1>4, <1>5 DEF AppNext

(* Rows are never removed, and nothing is about a row before it exists.    *)
LEMMA RowsExistStep ==
  ASSUME TypeOK, Handshake, RowsExist, [Next]_vars
  PROVE  /\ RowsExist'
         /\ \A j \in Jobs : status[j] # "none" => status'[j] # "none"
<1> USE JobQueueAssumption
    DEF JobQueueAssumption, TypeOK, RowsExist, rowVars, agentVars, Verdicts,
        Callers, Call, Busy, Idle
<1>1. \A j \in Jobs : status[j] # "none" => status'[j] # "none"
  BY RowStep DEF Lifecycle!Next, Lifecycle!Enqueue, Lifecycle!Begin,
     Lifecycle!End, Lifecycle!Verdicts
<1>2. ASSUME \A c \in CallIds : calls'[c] # NoCall =>
                \/ status[calls'[c].job] # "none" /\ calls'[c].job \in Jobs
                \/ calls[c] # NoCall /\ calls'[c].job = calls[c].job,
             \A b \in batch' : b \in batch \/ (b.job \in Jobs /\ status[b.job] # "none"),
             \A w \in Workers : worker'[w] # Idle =>
                \/ \E b \in batch : worker'[w].job = b.job
                \/ worker[w] # Idle /\ worker'[w].job = worker[w].job,
             \A j \in reapList' : status[j] # "none" /\ j \in Jobs
      PROVE  RowsExist'
  BY <1>1, <1>2
<1>3. ASSUME NEW w \in Workers, NEW pc, worker[w] # Idle, Goto(w, pc)
      PROVE  \A v \in Workers : worker'[v] # Idle =>
                worker[v] # Idle /\ worker'[v].job = worker[v].job
  BY <1>3 DEF Goto
<1>4. ASSUME NEW c \in CallIds, NEW op, NEW q, NEW v, NEW from, NEW j \in Jobs,
             status[j] # "none", Send(c, op, j, q, v, from)
      PROVE  \A d \in CallIds : calls'[d] # NoCall =>
                \/ status[calls'[d].job] # "none" /\ calls'[d].job \in Jobs
                \/ calls[d] # NoCall /\ calls'[d].job = calls[d].job
  BY <1>4 DEF Send
<1>5. ASSUME NEW j \in Jobs, Create(j) \/ Age(j) PROVE RowsExist'
  BY <1>2, <1>5 DEF Create, Age
<1>6. ASSUME NEW j \in Jobs, NEW c \in CallIds, Request(j, c)
      PROVE  RowsExist'
  BY <1>2, <1>4, <1>6 DEF Request, RetryCheck, PeriodicCheck, Retryable
<1>7. ASSUME NEW j \in Jobs, NEW c \in CallIds, ReapNext(j, c)
      PROVE  RowsExist'
  BY <1>2, <1>4, <1>7 DEF ReapNext
<1>8. ASSUME NEW c \in CallIds, Reply(c) PROVE RowsExist'
  BY <1>2, <1>3, <1>8 DEF Reply, Handshake, FromWorker
<1>9. ASSUME NEW c \in CallIds, Serve(c) PROVE RowsExist'
  BY <1>2, <1>8, <1>9 DEF Serve, Requeue, MarkRunning, MarkFinished, Arrived
<1>10. ASSUME NEW c \in CallIds, CallFails(c) PROVE RowsExist'
  BY <1>2, <1>3, <1>10 DEF CallFails, Handshake, FromWorker
<1>11. ASSUME NEW c \in CallIds, ClientTimeout(c) PROVE RowsExist'
  BY <1>2, <1>3, <1>11, OrphanedType DEF ClientTimeout, Handshake, FromWorker
<1>12. CASE ReapScan
  BY <1>2, <1>12 DEF ReapScan, Newest
<1>13. CASE Poll
  <2>1. PICK S \in SUBSET Jobs :
           /\ \A j \in S : status[j] = "queued"
           /\ batch' = {[job |-> j, queued |-> queuedAt[j]] :
                           j \in Oldest(S, PollLimit)}
    BY <1>13 DEF Poll
  <2>2. \A b \in batch' : b.job \in Jobs /\ status[b.job] # "none"
    BY <2>1, OldestIn
  <2> QED BY <1>2, <1>13, <2>2 DEF Poll
<1>14. ASSUME NEW w \in Workers, Take(w) PROVE RowsExist'
  BY <1>2, <1>14 DEF Take
<1>15. ASSUME NEW w \in Workers, NEW c \in CallIds,
              SendStart(w, c) \/ SendFinish(w, c)
       PROVE  RowsExist'
  BY <1>2, <1>3, <1>4, <1>15 DEF SendStart, SendFinish
<1>16. ASSUME NEW w \in Workers, Advance(w) PROVE RowsExist'
  BY <1>2, <1>3, <1>14, <1>15, <1>16
  DEF Advance, LookupLock, AcquireLock, Execute, ReleaseLock, Leave
<1>17. CASE Crash
  BY <1>2, <1>17, OrphanedType DEF Crash
<1>18. CASE Restart \/ UNCHANGED vars
  BY <1>2, <1>18 DEF Restart, vars
<1> QED BY <1>1, <1>5, <1>6, <1>7, <1>9, <1>10, <1>11, <1>12, <1>13, <1>16,
           <1>17, <1>18 DEF Next, Fault

-----------------------------------------------------------------------------

(* A row comes into being by Create alone.                                 *)
LEMMA NewRow ==
  ASSUME TypeOK, Handshake, RowsExist, [Next]_vars,
         NEW j \in Jobs, status[j] = "none", status'[j] # "none"
  PROVE  Create(j)
<1> USE DEF TypeOK, rowVars, agentVars, Call
<1>1. ASSUME NEW i \in Jobs, Create(i) PROVE Create(j)
  BY <1>1 DEF Create, Queue
<1>2. ASSUME NEW c \in CallIds, Serve(c) PROVE FALSE
  BY <1>2 DEF Serve, Requeue, Queue, MarkRunning, MarkFinished, Arrived, Reply,
     RowsExist
<1>3. \/ \E c \in CallIds : Serve(c)
      \/ \E i \in Jobs : Create(i)
      \/ UNCHANGED status
  BY DEF Next, vars, Age, Request, RetryCheck, PeriodicCheck, ReapNext, Fault,
     CallFails, ClientTimeout, ReapScan, Poll, Advance, Take, LookupLock,
     AcquireLock, SendStart, SendFinish, Execute, ReleaseLock, Leave, Crash,
     Restart
<1> QED BY <1>1, <1>2, <1>3

(* Nobody but the request that orders it inserts the job of an application *)
(* (service.go; the scheduled workers create jobs without an application). *)
LEMMA OthersInsertNothing ==
  ASSUME TypeOK, RowsExist, Undisturbed, NEW j \in Jobs, status[j] = "none",
         AppOf[j] # NoKey
  PROVE  ~Create(j)
<1> SUFFICES ASSUME Create(j) PROVE FALSE
  OBVIOUS
<1>1. \/ \E i \in Jobs : AppOf[i] = NoKey /\ Create(i)
      \/ \E c \in CallIds : Requeue(c)
      \/ UNCHANGED clock
  BY DEF Undisturbed, Age, Request, RetryCheck, PeriodicCheck, ReapNext,
     MarkRunning, MarkFinished, Fault, CallFails, ClientTimeout, ReapScan,
     Poll, Take, LookupLock, AcquireLock, SendStart, SendFinish,
     ReleaseLock, Leave, Crash, Restart, rowVars, agentVars
<1>2. clock' # clock
  BY DEF Create, Queue, TypeOK
<1>3. ASSUME NEW c \in CallIds, Requeue(c) PROVE FALSE
  BY <1>2, <1>3
  DEF Requeue, Arrived, Create, Queue, TypeOK, Call, RowsExist
<1>4. ASSUME NEW i \in Jobs, Create(i) PROVE i = j
  BY <1>4 DEF Create, Queue, TypeOK
<1> QED BY <1>1, <1>2, <1>3, <1>4

(* Every step keeps the order of an operation: its type is fixed before the*)
(* row is inserted, and the row comes last (service.go, Deploy to Delete). *)
LEMMA OrderedStep ==
  ASSUME AppTypeOK, Handshake, RowsExist, OrderedOnce, [AppNext]_allVars
  PROVE  OrderedOnce'
<1> USE JobQueueAssumption, AppLifecycleAssumption
    DEF JobQueueAssumption, AppLifecycleAssumption, AppTypeOK, OrderedOnce
<1>1. [Next]_vars
  BY AppStepIsQueueStep
<1>2. ASSUME NEW j \in Jobs, NEW k \in Kinds, Check(j, k) PROVE OrderedOnce'
  BY <1>2 DEF Check, vars, rowVars
<1>3. ASSUME NEW j \in Jobs, Prepare(j) PROVE OrderedOnce'
  BY <1>3 DEF Prepare, HasDeployment, vars, rowVars
<1>4. ASSUME NEW j \in Jobs, Insert(j) PROVE OrderedOnce'
  BY <1>4 DEF Insert, Insertable, Create, Queue, TypeOK
<1>5. ASSUME NEW j \in Jobs, InsertFails(j) PROVE OrderedOnce'
  BY <1>5 DEF InsertFails, vars, rowVars
<1>6. ASSUME NEW j \in Jobs, Announce(j) \/ Remove(j) PROVE OrderedOnce'
  BY <1>6 DEF Announce, Remove, vars, rowVars
<1>7. ASSUME UNCHANGED <<kind, step, status>> PROVE OrderedOnce'
  BY <1>7
<1>8. ASSUME NEW c \in CallIds, Listen(c) PROVE OrderedOnce'
  BY <1>7, <1>8
  DEF Listen, HearApp, HearDeployment, Answer, Reply, vars, rowVars
<1>9. ASSUME NEW w \in Workers, NEW v \in Verdicts, Run(w, v) \/ HealthCheck(w, v)
      PROVE  OrderedOnce'
  BY <1>7, <1>9 DEF Run, HealthCheck, Execute, appVars, rowVars
<1>10. CASE Undisturbed
  <2>1. UNCHANGED <<kind, step>>
    BY <1>10 DEF Undisturbed, appVars
  <2>2. ASSUME NEW j \in Jobs, Create(j), status[j] = "none", AppOf[j] # NoKey
        PROVE  FALSE
    BY <1>10, <2>2, OthersInsertNothing
  <2> QED BY <1>1, <2>1, <2>2, NewRow
<1>11. CASE UNCHANGED allVars
  BY <1>7, <1>11 DEF allVars, appVars, vars, rowVars
<1> QED BY <1>2, <1>3, <1>4, <1>5, <1>6, <1>8, <1>9, <1>10, <1>11
        DEF AppNext, Operation

(* Every step keeps the types of the application and deployment rows: a    *)
(* listener writes a status for every type of job it can hear of.          *)
LEMMA AppTypeStep ==
  ASSUME AppTypeOK, JQInv, RowsExist, OrderedOnce, [AppNext]_allVars
  PROVE  AppTypeOK'
<1> USE JobQueueAssumption, AppLifecycleAssumption
    DEF JobQueueAssumption, AppLifecycleAssumption, AppTypeOK, AppStatuses,
        Transitional
<1>1. TypeOK'
  BY AppStepIsQueueStep, TypeStep DEF JQInv
<1>2. ASSUME NEW a, NEW s \in AppStatuses, SetStatus(a, s)
      PROVE  appStatus' \in [Apps -> AppStatuses]
  BY <1>2 DEF SetStatus
<1>3. ASSUME NEW j \in Jobs, NEW k \in Kinds, Check(j, k) PROVE AppTypeOK'
  BY <1>1, <1>3 DEF Check
<1>4. ASSUME NEW j \in Jobs, Prepare(j) PROVE AppTypeOK'
  <2> USE <1>1, <1>4 DEF Prepare
  <2>1. CASE UNCHANGED appStatus
    BY <2>1
  <2>2. CASE kind[j] \in {"start", "restart"}
    BY <1>2, <2>2
  <2> QED BY <2>1, <2>2
<1>5. ASSUME NEW j \in Jobs, Insert(j) \/ Announce(j) \/ Remove(j)
      PROVE  AppTypeOK'
  BY <1>1, <1>5 DEF Insert, Announce, Remove, OrderedOnce
<1>6. ASSUME NEW j \in Jobs, InsertFails(j) PROVE AppTypeOK'
  BY <1>1, <1>2, <1>6 DEF InsertFails
<1>7. ASSUME NEW c \in CallIds, HearApp(c) PROVE AppTypeOK'
  <2> DEFINE j == calls[c].job
  <2>1. j \in Jobs /\ AppOf[j] # NoKey /\ kind[j] \in Kinds
    BY <1>7 DEF HearApp, Published, TypeOK, Call, RowsExist, OrderedOnce
  <2>2. kind[j] # "destroy" => StatusOnStart(kind[j]) \in AppStatuses
    BY <2>1 DEF StatusOnStart
  <2>3. StatusOnSuccess(kind[j]) \in AppStatuses
    BY DEF StatusOnSuccess
  <2>4. CASE UNCHANGED appStatus
    BY <1>1, <1>7, <2>4 DEF HearApp
  <2>5. CASE \E s \in AppStatuses : SetStatus(AppOf[j], s)
    BY <1>1, <1>2, <1>7, <2>5 DEF HearApp
  <2> QED BY <1>7, <2>2, <2>3, <2>4, <2>5 DEF HearApp
<1>8. ASSUME NEW c \in CallIds, HearDeployment(c) PROVE AppTypeOK'
  <2>1. \/ calls[c].op = "start"
        \/ calls[c].op = "finish" /\ calls[c].verdict \in Verdicts
    BY <1>8 DEF HearDeployment, Published, TypeOK, Call, JQInv, Handshake
  <2> QED BY <1>1, <1>8, <2>1 DEF HearDeployment
<1>9. ASSUME NEW c \in CallIds, Answer(c) PROVE AppTypeOK'
  BY <1>1, <1>9 DEF Answer
<1>10. ASSUME NEW w \in Workers, NEW v \in Verdicts, Run(w, v) PROVE AppTypeOK'
  BY <1>1, <1>10 DEF Run, appVars
<1>11. ASSUME NEW w \in Workers, NEW v \in Verdicts, HealthCheck(w, v)
       PROVE  AppTypeOK'
  BY <1>1, <1>11 DEF HealthCheck, HealthStatuses
<1>12. CASE Undisturbed \/ UNCHANGED allVars
  BY <1>1, <1>12 DEF Undisturbed, allVars, appVars
<1> QED BY <1>3, <1>4, <1>5, <1>6, <1>7, <1>8, <1>9, <1>10, <1>11, <1>12
        DEF AppNext, Operation, Listen

-----------------------------------------------------------------------------
(* The theorems.                                                           *)

(* AppInv is inductive.                                                    *)
LEMMA AppInvInductive ==
  /\ AppInit => AppInv
  /\ AppInv /\ [AppNext]_allVars => AppInv'
<1>1. ASSUME AppInit PROVE AppInv
  <2>1. JQInv
    BY <1>1, JQInvInductive DEF AppInit
  <2>2. RowsExist
    BY <1>1 DEF AppInit, Init, RowsExist
  <2>3. OrderedOnce
    BY <1>1 DEF AppInit, Init, OrderedOnce
  <2>4. AppTypeOK
    BY <1>1, <2>1 DEF AppInit, AppTypeOK, JQInv, AppStatuses, Transitional
  <2> QED BY <2>1, <2>2, <2>3, <2>4 DEF AppInv
<1>2. ASSUME AppInv, [AppNext]_allVars PROVE AppInv'
  <2>1. [Next]_vars
    BY <1>2, AppStepIsQueueStep
  <2>2. JQInv'
    BY <1>2, <2>1, JQInvInductive DEF AppInv
  <2>3. RowsExist'
    BY <1>2, <2>1, RowsExistStep DEF AppInv, JQInv
  <2>4. OrderedOnce' /\ AppTypeOK'
    BY <1>2, OrderedStep, AppTypeStep DEF AppInv, JQInv
  <2> QED BY <2>2, <2>3, <2>4 DEF AppInv
<1> QED BY <1>1, <1>2

(* For every number of applications, jobs, workers and calls: requests,    *)
(* listeners and health reports (application/service.go, listener.go) use  *)
(* the job queue as JobQueue describes it, so that its theorems hold of the*)
(* system with applications and deployments.                               *)
THEOREM AppUsesQueue == AppSpec => Spec
<1>1. AppInit => Init
  BY DEF AppInit
<1> QED BY <1>1, AppStepIsQueueStep, PTL DEF AppSpec, Spec

(* For every number of applications, jobs, workers and calls: the listeners*)
(* (application/listener.go, deployment/listener.go) write a status of the *)
(* application or deployment for every event, and never hear of a job whose*)
(* type they do not know.                                                  *)
THEOREM AppTypeCorrect == AppSpec => []AppTypeOK
<1>1. AppInv => AppTypeOK
  BY DEF AppInv
<1> QED BY <1>1, AppInvInductive, PTL DEF AppSpec

-----------------------------------------------------------------------------
(* Events and verdicts, when requests are short and do not outlive their   *)
(* callers, and the last logs are sent in bounded time.                    *)

About(c, j) == calls[c] # NoCall /\ calls[c].job = j
OfApp(j) == AppOf[j] # NoKey

(* About an old row of an application only the reaper has a call.          *)
OldAreQuiet ==
    \A j \in stale : OfApp(j) =>
        /\ step[j] = "none"
        /\ \A c \in CallIds : About(c, j) => calls[c].from = "reaper"

FromReaper(c) == calls[c] # NoCall /\ calls[c].from = "reaper"

(* The reaper makes one call at a time, to finish a row that is old still. *)
ReaperInOrder ==
    /\ \A c \in CallIds : FromReaper(c) =>
          /\ calls[c].op = "finish"
          /\ \A d \in CallIds : FromReaper(d) => c = d
          /\ (calls[c].stage = "sent" /\ OfApp(calls[c].job)) =>
                calls[c].job \in stale \ reapList
    /\ \A j \in reapList : OfApp(j) => j \in stale

FinishSent(c) == FromWorker(c) /\ calls[c].op = "finish" /\ calls[c].stage = "sent"

(* When a run has ended, and until its verdict is written, the worker is   *)
(* the only one to have a call about the job.                              *)
EndsAreQuiet ==
    /\ \A w \in Workers : (worker[w].pc = "drain" /\ OfApp(worker[w].job)) =>
          /\ step[worker[w].job] = "none"
          /\ \A c \in CallIds : ~About(c, worker[w].job)
    /\ \A c \in CallIds : (FinishSent(c) /\ OfApp(calls[c].job)) =>
          /\ step[calls[c].job] = "none"
          /\ \A d \in CallIds : About(d, calls[c].job) => d = c

(* While a worker is at work on a row it gets no verdict but the worker's. *)
RunsAreOpen ==
    /\ \A w \in Workers : (worker[w].pc \in {"exec", "drain"} /\ OfApp(worker[w].job))
          => status[worker[w].job] \in {"queued", "running"}
    /\ \A c \in CallIds :
          (/\ FromWorker(c) /\ OfApp(calls[c].job)
           /\ \/ calls[c].op = "start" /\ calls[c].stage = "done"
              \/ FinishSent(c))
          => status[calls[c].job] \in {"queued", "running"}

(* The listeners hear of events that were published.                       *)
OnlyPublishedHeard == \A c \in CallIds : heard[c] # "none" => Published(c)

(* Once a job has its verdict, all that is still to be heard of it is that *)
(* verdict, and the deployment has it or will hear of it.                  *)
VerdictsAreFinal ==
    \A j \in Jobs : (OfApp(j) /\ status[j] \in Verdicts) =>
        /\ step[j] = "none"
        /\ \A c \in CallIds : (About(c, j) /\ calls[c].op # "retry") =>
              /\ calls[c].op = "finish" /\ calls[c].stage = "done"
              /\ calls[c].verdict = status[j]
        /\ HasDeployment(j) =>
              \/ depStatus[j] = status[j]
              \/ \E c \in CallIds : /\ About(c, j) /\ calls[c].op = "finish"
                                    /\ heard[c] # "all"

EventsInv ==
    /\ OldAreQuiet
    /\ ReaperInOrder
    /\ EndsAreQuiet
    /\ RunsAreOpen
    /\ OnlyPublishedHeard
    /\ VerdictsAreFinal

QuietInv == AppInv /\ OwnRunInv /\ AbandonedInv /\ EventsInv

-----------------------------------------------------------------------------
(* What a step can change, one variable at a time.                         *)

(* A call in flight is a new one, or one that was carried out or lost its  *)
(* caller since (the requests of agent, reaper, user and scheduler).       *)
LEMMA CallMoves ==
  ASSUME TypeOK, [AppNext]_allVars, NEW c \in CallIds,
         calls'[c] # NoCall, calls'[c] # calls[c]
  PROVE  \/ /\ calls[c] # NoCall
            /\ calls'[c].op = calls[c].op /\ calls'[c].job = calls[c].job
            /\ calls'[c].verdict = calls[c].verdict
            /\ calls'[c].from = calls[c].from \/ (calls'[c].from = "gone" /\ calls[c].from \in Workers)
            /\ calls'[c].stage = calls[c].stage \/ MarkRunning(c) \/ MarkFinished(c)
         \/ /\ calls[c] = NoCall
            /\ \/ \E j \in Jobs : Request(j, c) \/ ReapNext(j, c)
               \/ \E w \in Workers : SendStart(w, c) \/ SendFinish(w, c)
<1> USE JobQueueAssumption, NoCallAssumption DEF JobQueueAssumption, TypeOK
<1> DEFINE Kept ==
      /\ calls[c] # NoCall
      /\ calls'[c].op = calls[c].op /\ calls'[c].job = calls[c].job
      /\ calls'[c].verdict = calls[c].verdict
      /\ calls'[c].from = calls[c].from \/ (calls'[c].from = "gone" /\ calls[c].from \in Workers)
      /\ calls'[c].stage = calls[c].stage \/ MarkRunning(c) \/ MarkFinished(c)
<1> DEFINE New ==
      /\ calls[c] = NoCall
      /\ \/ \E j \in Jobs : Request(j, c) \/ ReapNext(j, c)
         \/ \E w \in Workers : SendStart(w, c) \/ SendFinish(w, c)
<1>1. ASSUME calls[c] # NoCall, calls'[c] = Orphaned(calls[c]), calls[c].from \in Workers
      PROVE  Kept
  BY <1>1, OrphanedType DEF Orphaned, Call
<1>2. ASSUME NEW d \in CallIds, MarkRunning(d) \/ MarkFinished(d) PROVE Kept
  BY <1>2 DEF MarkRunning, MarkFinished, Arrived, Call
<1>3. ASSUME NEW d \in CallIds, Requeue(d) \/ Reply(d) \/ CallFails(d) PROVE FALSE
  BY <1>3 DEF Requeue, Reply, CallFails, Arrived
<1>4. ASSUME NEW d \in CallIds, ClientTimeout(d) PROVE Kept
  BY <1>1, <1>4 DEF ClientTimeout
<1>5. ASSUME Crash PROVE Kept
  BY <1>1, <1>5 DEF Crash
<1>6. ASSUME NEW d \in CallIds, NEW j \in Jobs, Request(j, d) \/ ReapNext(j, d) PROVE New
  BY <1>6 DEF Request, RetryCheck, PeriodicCheck, ReapNext, Send
<1>7. ASSUME NEW d \in CallIds, NEW w \in Workers, SendStart(w, d) \/ SendFinish(w, d) PROVE New
  BY <1>7 DEF SendStart, SendFinish, Send
<1>8. ASSUME UNCHANGED calls PROVE FALSE
  BY <1>8
<1> HIDE DEF Kept, New, TypeOK
<1>9. ASSUME NEW j \in Jobs, Operation(j) PROVE FALSE
  BY <1>8, <1>9 DEF Operation, Check, Prepare, Insert, InsertFails, Announce, Remove, Create, vars
<1>10. ASSUME NEW d \in CallIds, Listen(d) PROVE FALSE
  BY <1>3, <1>8, <1>10 DEF Listen, HearApp, HearDeployment, Answer, vars
<1>11. ASSUME NEW w \in Workers, NEW v \in Verdicts, Run(w, v) \/ HealthCheck(w, v) PROVE FALSE
  BY <1>8, <1>11 DEF Run, HealthCheck, Execute
<1>12. ASSUME Undisturbed PROVE Kept \/ New
  BY <1>2, <1>3, <1>4, <1>5, <1>6, <1>7, <1>8, <1>12
  DEF Undisturbed, Create, Age, Fault, ReapScan, Poll, Take, LookupLock, AcquireLock,
      ReleaseLock, Leave, Restart
<1>13. Kept \/ New
  BY <1>8, <1>9, <1>10, <1>11, <1>12 DEF AppNext, allVars, vars
<1> QED BY <1>13 DEF Kept, New

(* A row's status changes by a queueing, or by a start or finish call that *)
(* is about it (job_repo.go: the UPDATEs of the jobs table).               *)
LEMMA StatusMoves ==
  ASSUME TypeOK, [AppNext]_allVars, NEW j \in Jobs, status'[j] # status[j]
  PROVE  \/ /\ status'[j] = "queued"
            /\ Create(j) \/ \E c \in CallIds : Requeue(c) /\ calls[c].job = j
         \/ /\ status[j] = "queued" /\ status'[j] = "running"
            /\ \E c \in CallIds : MarkRunning(c) /\ calls[c].job = j
         \/ /\ status[j] = "running"
            /\ \E c \in CallIds : /\ MarkFinished(c) /\ calls[c].job = j
                                  /\ status'[j] = calls[c].verdict
<1> DEFINE Moved ==
      \/ /\ status'[j] = "queued"
         /\ Create(j) \/ \E c \in CallIds : Requeue(c) /\ calls[c].job = j
      \/ /\ status[j] = "queued" /\ status'[j] = "running"
         /\ \E c \in CallIds : MarkRunning(c) /\ calls[c].job = j
      \/ /\ status[j] = "running"
         /\ \E c \in CallIds : /\ MarkFinished(c) /\ calls[c].job = j
                               /\ status'[j] = calls[c].verdict
<1> USE DEF TypeOK
<1>1. [Next]_vars
  BY AppStepIsQueueStep
<1>2. ASSUME NEW i \in Jobs, Create(i) PROVE Moved
  BY <1>2 DEF Create, Queue
<1>3. ASSUME NEW c \in CallIds, Requeue(c) PROVE Moved
  BY <1>3 DEF Requeue, Queue, Arrived, Call
<1>4. ASSUME NEW c \in CallIds, MarkRunning(c) PROVE Moved
  BY <1>4 DEF MarkRunning, Arrived, Call
<1>5. ASSUME NEW c \in CallIds, MarkFinished(c) PROVE Moved
  BY <1>5 DEF MarkFinished, Arrived, Call
<1> HIDE DEF Moved, TypeOK
<1>6. ASSUME UNCHANGED status PROVE FALSE
  BY <1>6
<1> QED
  BY <1>1, <1>2, <1>3, <1>4, <1>5, <1>6
  DEF Moved, Next, vars, rowVars, Age, Request, RetryCheck, PeriodicCheck, ReapNext, Serve, Reply,
      Fault, CallFails, ClientTimeout, ReapScan, Poll, Advance, Take, LookupLock,
      AcquireLock, SendStart, SendFinish, Execute, ReleaseLock, Leave, Crash, Restart

(* A worker enters the executor with the answer to its start call, and     *)
(* leaves it when the run ends (job_worker.go, processJob and execute).    *)
LEMMA WorkerMoves ==
  ASSUME TypeOK, [AppNext]_allVars, NEW w \in Workers, worker'[w] # worker[w]
  PROVE  /\ worker'[w].pc = "exec" =>
               \E c \in CallIds : /\ Answer(c) /\ calls[c].from = w
                                 /\ worker[w].pc = "starting"
                                 /\ worker'[w].job = worker[w].job
         /\ worker'[w].pc = "drain" =>
               /\ worker[w].pc = "exec" /\ worker'[w].job = worker[w].job
               /\ \E v \in Verdicts : Run(w, v) \/ HealthCheck(w, v)
<1> DEFINE Entered ==
      \E c \in CallIds : /\ Answer(c) /\ calls[c].from = w /\ worker[w].pc = "starting"
                        /\ worker'[w].job = worker[w].job
<1> DEFINE Ended ==
      /\ worker[w].pc = "exec" /\ worker'[w].job = worker[w].job
      /\ \E v \in Verdicts : Run(w, v) \/ HealthCheck(w, v)
<1> DEFINE Moved == (worker'[w].pc = "exec" => Entered) /\ (worker'[w].pc = "drain" => Ended)
<1> USE DEF TypeOK, Busy, Idle
<1>1. ASSUME NEW c \in CallIds, Answer(c) PROVE Moved
  <2>1. /\ calls[c].from = w
        /\ worker' = [worker EXCEPT ![w].pc = Returned(w)]
    BY <1>1 DEF Answer, Reply, Goto
  <2>2. worker'[w].job = worker[w].job /\ worker'[w].pc = Returned(w)
    BY <2>1
  <2> QED BY <1>1, <2>1, <2>2 DEF Returned
<1>2. ASSUME NEW x \in Workers, NEW v \in Verdicts, Run(x, v) \/ HealthCheck(x, v)
      PROVE  Moved
  <2>1. Execute(x, v)
    BY <1>2 DEF Run, HealthCheck
  <2>2. w = x /\ worker[w].pc = "exec" /\ worker'[w].pc = "drain" /\ worker'[w].job = worker[w].job
    BY <2>1 DEF Execute
  <2> QED BY <1>2, <2>2
<1>3. ASSUME NEW x \in Workers, NEW pc \in {"start", "starting", "finishing", "unlock"},
             Goto(x, pc)
      PROVE  Moved
  BY <1>3 DEF Goto
<1>4. ASSUME NEW x \in Workers, Take(x) PROVE Moved
  BY <1>4 DEF Take
<1>5. ASSUME NEW x \in Workers, Leave(x) PROVE Moved
  BY <1>5 DEF Leave
<1>6. ASSUME Crash PROVE Moved
  BY <1>6 DEF Crash
<1>7. ASSUME NEW c \in CallIds, Fault(c) PROVE Moved
  BY <1>3, <1>7 DEF Fault, CallFails, ClientTimeout
<1> HIDE DEF Moved, TypeOK, Busy, Idle
<1>8. ASSUME UNCHANGED worker PROVE FALSE
  BY <1>8
<1>9. ASSUME NEW j \in Jobs, Operation(j) PROVE FALSE
  BY <1>8, <1>9 DEF Operation, Check, Prepare, Insert, InsertFails, Announce, Remove, Create,
     vars, agentVars
<1>10. ASSUME NEW c \in CallIds, HearApp(c) \/ HearDeployment(c) PROVE FALSE
  BY <1>8, <1>10 DEF HearApp, HearDeployment, vars, agentVars
<1>11. ASSUME Undisturbed PROVE Moved
  BY <1>3, <1>4, <1>5, <1>6, <1>7, <1>8, <1>11
  DEF Undisturbed, Create, Age, Request, RetryCheck, PeriodicCheck, ReapNext, Requeue,
      MarkRunning, MarkFinished, ReapScan, Poll, LookupLock, AcquireLock, SendStart,
      SendFinish, ReleaseLock, Restart, agentVars
<1>12. Moved
  BY <1>1, <1>2, <1>8, <1>9, <1>10, <1>11 DEF AppNext, Listen, allVars, vars, agentVars
<1> QED BY <1>12 DEF Moved

(* A row grows old when the clock says so, and is old no more when it is   *)
(* queued anew or finished.                                                *)
LEMMA StaleMoves ==
  ASSUME TypeOK, [AppNext]_allVars, NEW j \in Jobs
  PROVE  /\ j \in stale' \ stale => Age(j) /\ InTime(j) /\ UNCHANGED appVars
         /\ j \in stale \ stale' =>
               \/ Create(j)
               \/ \E c \in CallIds : Requeue(c) /\ calls[c].job = j
               \/ \E c \in CallIds : MarkFinished(c) /\ calls[c].job = j
<1> DEFINE Left ==
      \/ Create(j)
      \/ \E c \in CallIds : Requeue(c) /\ calls[c].job = j
      \/ \E c \in CallIds : MarkFinished(c) /\ calls[c].job = j
<1>1. ASSUME NEW i \in Jobs, Age(i), InTime(i), UNCHANGED appVars
      PROVE  /\ j \in stale' \ stale => i = j
             /\ j \notin stale \ stale'
  BY <1>1 DEF Age
<1>2. ASSUME NEW i \in Jobs, Create(i) PROVE j \notin stale' \ stale /\ (j \in stale \ stale' => Left)
  BY <1>2 DEF Create, Queue
<1>3. ASSUME NEW c \in CallIds, Requeue(c) PROVE j \notin stale' \ stale /\ (j \in stale \ stale' => Left)
  BY <1>3 DEF Requeue, Queue, Arrived, Call
<1>4. ASSUME NEW c \in CallIds, MarkFinished(c) PROVE j \notin stale' \ stale /\ (j \in stale \ stale' => Left)
  BY <1>4 DEF MarkFinished, Arrived, Call
<1>5. ASSUME UNCHANGED stale PROVE j \notin stale' \ stale /\ j \notin stale \ stale'
  BY <1>5
<1>6. ASSUME NEW i \in Jobs, Operation(i) PROVE Create(i) \/ UNCHANGED stale
  BY <1>6 DEF Operation, Check, Prepare, Insert, InsertFails, Announce, Remove, vars, rowVars
<1>7. ASSUME NEW c \in CallIds, Listen(c) PROVE UNCHANGED stale
  BY <1>7 DEF Listen, HearApp, HearDeployment, Answer, Reply, vars, rowVars
<1>8. ASSUME NEW w \in Workers, NEW v \in Verdicts, Run(w, v) \/ HealthCheck(w, v)
      PROVE  UNCHANGED stale
  BY <1>8 DEF Run, HealthCheck, Execute, rowVars
<1> HIDE DEF Left
<1>9. CASE Undisturbed
  <2>1. \/ \E i \in Jobs : Age(i) /\ InTime(i) /\ UNCHANGED appVars
        \/ \E i \in Jobs : Create(i)
        \/ \E c \in CallIds : Requeue(c) \/ MarkFinished(c)
        \/ UNCHANGED stale
    BY <1>9
    DEF Undisturbed, Request, RetryCheck, PeriodicCheck, ReapNext, MarkRunning, Fault,
        CallFails, ClientTimeout, ReapScan, Poll, Take, LookupLock, AcquireLock, SendStart,
        SendFinish, ReleaseLock, Leave, Crash, Restart, rowVars
  <2> QED BY <1>1, <1>2, <1>3, <1>4, <1>5, <2>1 DEF Left
<1>10. CASE UNCHANGED allVars
  BY <1>5, <1>10 DEF allVars, vars, rowVars
<1> QED BY <1>2, <1>5, <1>6, <1>7, <1>8, <1>9, <1>10 DEF AppNext, Left

(* The reaper's list is filled by its scan and emptied row by row.         *)
LEMMA ReapListMoves ==
  ASSUME [AppNext]_allVars
  PROVE  \/ UNCHANGED reapList
         \/ ReapScan
         \/ \E j \in Jobs, c \in CallIds : ReapNext(j, c)
<1>1. ASSUME NEW j \in Jobs, Operation(j) PROVE UNCHANGED reapList
  BY <1>1 DEF Operation, Check, Prepare, Insert, InsertFails, Announce, Remove, Create, vars
<1>2. ASSUME NEW c \in CallIds, Listen(c) PROVE UNCHANGED reapList
  BY <1>2 DEF Listen, HearApp, HearDeployment, Answer, Reply, vars
<1>3. ASSUME NEW w \in Workers, NEW v \in Verdicts, Run(w, v) \/ HealthCheck(w, v)
      PROVE  UNCHANGED reapList
  BY <1>3 DEF Run, HealthCheck, Execute
<1>4. CASE Undisturbed
  BY <1>4
  DEF Undisturbed, Create, Age, Request, RetryCheck, PeriodicCheck, Requeue, MarkRunning,
      MarkFinished, Fault, CallFails, ClientTimeout, Poll, Take, LookupLock, AcquireLock,
      SendStart, SendFinish, ReleaseLock, Leave, Crash, Restart
<1> QED BY <1>1, <1>2, <1>3, <1>4 DEF AppNext, allVars, vars

(* Once a job's row exists, its type stays, and its order goes on with     *)
(* Announce and Remove or is over (service.go, after jobSvc.Create).       *)
LEMMA OrderMoves ==
  ASSUME AppTypeOK, OrderedOnce, [AppNext]_allVars, NEW j \in Jobs, OfApp(j), status[j] # "none"
  PROVE  /\ kind'[j] = kind[j]
         /\ step'[j] # step[j] => Announce(j) \/ Remove(j)
         /\ step[j] = "none" => step'[j] = "none"
<1> USE DEF AppTypeOK, OrderedOnce, OfApp
<1>1. ASSUME NEW i \in Jobs, Operation(i)
      PROVE  /\ kind'[j] = kind[j]
             /\ step'[j] # step[j] => Announce(j) \/ Remove(j)
  <2>1. CASE Announce(i) \/ Remove(i)
    BY <2>1 DEF Announce, Remove
  <2>2. ASSUME i = j PROVE Announce(i) \/ Remove(i)
    BY <1>1, <2>2 DEF Operation, Check, Prepare, Insert, Insertable, InsertFails, Create
  <2>3. CASE i # j
    BY <1>1, <2>3 DEF Operation, Check, Prepare, Insert, InsertFails, Announce, Remove
  <2> QED BY <2>1, <2>2, <2>3
<1>2. CASE UNCHANGED <<kind, step>>
  BY <1>2
<1>3. ASSUME NEW c \in CallIds, Listen(c) PROVE UNCHANGED <<kind, step>>
  BY <1>3 DEF Listen, HearApp, HearDeployment, Answer
<1>4. ASSUME NEW w \in Workers, NEW v \in Verdicts, Run(w, v) \/ HealthCheck(w, v)
      PROVE  UNCHANGED <<kind, step>>
  BY <1>4 DEF Run, HealthCheck, appVars
<1>5. /\ kind'[j] = kind[j]
      /\ step'[j] # step[j] => Announce(j) \/ Remove(j)
  BY <1>1, <1>2, <1>3, <1>4 DEF AppNext, Undisturbed, appVars, allVars
<1> QED BY <1>5 DEF Announce, Remove

(* A call that was carried out leaves when the listeners have heard of it. *)
LEMMA DoneCallsStay ==
  ASSUME TypeOK, Handshake, [AppNext]_allVars, NEW c \in CallIds,
         calls[c] # NoCall, calls[c].stage = "done", calls'[c] = NoCall
  PROVE  Answer(c)
<1> USE NoCallAssumption DEF TypeOK
<1>1. Orphaned(calls[c]) # NoCall
  <2>1. Orphaned(calls[c]) = [calls[c] EXCEPT !.from = "gone"]
    BY DEF Orphaned
  <2>2. [calls[c] EXCEPT !.from = "gone"] \in Call
    BY DEF Call, Callers
  <2> QED BY <2>1, <2>2
<1>2. ASSUME NEW d \in CallIds, Requeue(d) \/ CallFails(d) PROVE FALSE
  BY <1>2 DEF Requeue, CallFails, Arrived
<1>3. ASSUME NEW d \in CallIds, MarkRunning(d) \/ MarkFinished(d) PROVE FALSE
  BY <1>3 DEF MarkRunning, MarkFinished, Arrived, Call
<1>4. ASSUME NEW d \in CallIds, Answer(d) PROVE d = c
  BY <1>4 DEF Answer, Reply
<1>5. ASSUME NEW d \in CallIds, ClientTimeout(d) PROVE FALSE
  BY <1>1, <1>5 DEF ClientTimeout
<1>6. ASSUME Crash PROVE FALSE
  BY <1>1, <1>6 DEF Crash
<1>7. ASSUME NEW d \in CallIds, NEW j \in Jobs, Request(j, d) \/ ReapNext(j, d) PROVE FALSE
  BY <1>7 DEF Request, RetryCheck, PeriodicCheck, ReapNext, Send
<1>8. ASSUME NEW d \in CallIds, NEW w \in Workers, SendStart(w, d) \/ SendFinish(w, d)
      PROVE  FALSE
  BY <1>8 DEF SendStart, SendFinish, Send
<1>9. ASSUME UNCHANGED calls PROVE FALSE
  BY <1>9
<1> HIDE DEF TypeOK
<1>10. ASSUME NEW j \in Jobs, Operation(j) PROVE FALSE
  BY <1>9, <1>10 DEF Operation, Check, Prepare, Insert, InsertFails, Announce, Remove, Create, vars
<1>11. ASSUME NEW w \in Workers, NEW v \in Verdicts, Run(w, v) \/ HealthCheck(w, v) PROVE FALSE
  BY <1>9, <1>11 DEF Run, HealthCheck, Execute
<1>12. ASSUME Undisturbed PROVE FALSE
  BY <1>2, <1>3, <1>5, <1>6, <1>7, <1>8, <1>9, <1>12
  DEF Undisturbed, Create, Age, Fault, ReapScan, Poll, Take, LookupLock, AcquireLock,
      ReleaseLock, Leave, Restart
<1>13. ASSUME NEW d \in CallIds, HearApp(d) \/ HearDeployment(d) PROVE FALSE
  BY <1>9, <1>13 DEF HearApp, HearDeployment, vars
<1> QED BY <1>4, <1>9, <1>10, <1>11, <1>12, <1>13 DEF AppNext, Listen, allVars, vars

(* The listeners of a call are the only ones to move what was heard of it, *)
(* and with the request that orders a job the only ones to write its       *)
(* deployment (deployment/listener.go).                                    *)
LEMMA HeardMoves ==
  ASSUME AppTypeOK, [AppNext]_allVars
  PROVE  /\ \A c \in CallIds : heard'[c] # heard[c] =>
               \/ HearApp(c) \/ HearDeployment(c)
               \/ Answer(c) /\ heard'[c] = "none"
         /\ \A j \in Jobs : depStatus'[j] # depStatus[j] =>
               \/ Prepare(j) \/ Announce(j)
               \/ \E c \in CallIds : HearDeployment(c) /\ calls[c].job = j
<1> USE DEF AppTypeOK
<1>1. ASSUME NEW c \in CallIds, Listen(c)
      PROVE  /\ \A d \in CallIds : heard'[d] # heard[d] => c = d /\ (Answer(c) => heard'[d] = "none")
             /\ \A j \in Jobs : depStatus'[j] # depStatus[j] => HearDeployment(c) /\ calls[c].job = j
  <2>1. CASE HearApp(c)
    BY <2>1 DEF HearApp, Answer, Reply, vars
  <2>2. CASE HearDeployment(c)
    BY <2>2 DEF HearDeployment, Answer, Reply, vars
  <2>3. CASE Answer(c)
    BY <2>3 DEF Answer
  <2> QED BY <1>1, <2>1, <2>2, <2>3 DEF Listen
<1>2. ASSUME NEW i \in Jobs, Operation(i)
      PROVE  /\ UNCHANGED heard
             /\ \A j \in Jobs : depStatus'[j] # depStatus[j] => j = i /\ (Prepare(i) \/ Announce(i))
  BY <1>2 DEF Operation, Check, Prepare, Insert, InsertFails, Announce, Remove
<1>3. ASSUME NEW w \in Workers, NEW v \in Verdicts, Run(w, v) \/ HealthCheck(w, v)
      PROVE  UNCHANGED <<heard, depStatus>>
  BY <1>3 DEF Run, HealthCheck, appVars
<1>4. CASE UNCHANGED <<heard, depStatus>>
  BY <1>4
<1> HIDE DEF AppTypeOK
<1>5. CASE \E c \in CallIds : Listen(c)
  BY <1>1, <1>5 DEF Listen
<1>6. CASE \E i \in Jobs : Operation(i)
  BY <1>2, <1>6
<1> QED BY <1>3, <1>4, <1>5, <1>6 DEF AppNext, Undisturbed, appVars, allVars

-----------------------------------------------------------------------------
(* Each step keeps the parts of EventsInv.                                 *)

(* Who may begin to call about the job of an application: a user's retry   *)
(* of a job that failed, the reaper, and the worker that holds the job.    *)
LEMMA NewCallsAbout ==
  ASSUME TypeOK, StillQueued, [AppNext]_allVars, NEW j \in Jobs, OfApp(j),
         NEW c \in CallIds, About(c, j)', ~About(c, j)
  PROVE  \/ status[j] \in Retryable /\ calls'[c].op = "retry"
         \/ j \in reapList /\ ReapNext(j, c)
         \/ /\ status[j] = "queued"
            /\ \E w \in Workers : /\ SendStart(w, c) /\ worker[w].job = j
                                  /\ worker[w].pc = "start"
         \/ \E w \in Workers : /\ SendFinish(w, c) /\ worker[w].job = j
                               /\ worker[w].pc = "drain"
<1> USE AppLifecycleAssumption, JobQueueAssumption, NoCallAssumption
    DEF AppLifecycleAssumption, JobQueueAssumption, About, OfApp
<1>1. calls[c] = NoCall
  BY CallMoves
<1>2. \/ \E i \in Jobs : Request(i, c) \/ ReapNext(i, c)
      \/ \E w \in Workers : SendStart(w, c) \/ SendFinish(w, c)
  BY <1>1, CallMoves
<1>3. ASSUME NEW op, NEW i, NEW q, NEW v, NEW from, Send(c, op, i, q, v, from)
      PROVE  i = j /\ calls'[c].op = op
  BY <1>3 DEF Send, TypeOK
<1>4. ASSUME NEW i \in Jobs, Request(i, c)
      PROVE  status[j] \in Retryable /\ calls'[c].op = "retry"
  BY <1>3, <1>4 DEF Request, RetryCheck, PeriodicCheck
<1>5. ASSUME NEW i \in Jobs, ReapNext(i, c) PROVE j \in reapList /\ ReapNext(j, c)
  BY <1>3, <1>5 DEF ReapNext
<1>6. ASSUME NEW w \in Workers, SendStart(w, c)
      PROVE  worker[w].job = j /\ worker[w].pc = "start" /\ status[j] = "queued"
  BY <1>3, <1>6 DEF SendStart, StillQueued
<1>7. ASSUME NEW w \in Workers, SendFinish(w, c)
      PROVE  worker[w].job = j /\ worker[w].pc = "drain"
  BY <1>3, <1>7 DEF SendFinish
<1> QED BY <1>2, <1>4, <1>5, <1>6, <1>7

(* A call that goes on is about the same job and says the same.            *)
LEMMA OldCallsAbout ==
  ASSUME TypeOK, [AppNext]_allVars, NEW j, NEW c \in CallIds, About(c, j)', About(c, j)
  PROVE  /\ calls'[c].op = calls[c].op /\ calls'[c].verdict = calls[c].verdict
         /\ calls'[c].from = calls[c].from \/ (calls'[c].from = "gone" /\ calls[c].from \in Workers)
         /\ calls'[c].stage = calls[c].stage \/ MarkRunning(c) \/ MarkFinished(c)
BY CallMoves DEF About

(* An old row stays in the hands of the reaper.                            *)
LEMMA OldQuietStep ==
  ASSUME ShortRequests, QuietInv, [AppNext]_allVars
  PROVE  OldAreQuiet'
<1> USE JobQueueAssumption DEF JobQueueAssumption, QuietInv, AppInv, OwnRunInv, JQInv, AbandonedInv, EventsInv
<1> SUFFICES ASSUME NEW j \in Jobs, j \in stale', OfApp(j)
             PROVE  /\ step'[j] = "none"
                    /\ \A c \in CallIds : About(c, j)' => calls'[c].from = "reaper"
  <2>1. stale' \subseteq Jobs
    BY AppInvInductive DEF AppTypeOK, TypeOK
  <2> QED BY <2>1 DEF OldAreQuiet, OfApp
<1>1. CASE j \notin stale
  <2>1. Age(j) /\ InTime(j) /\ UNCHANGED appVars
    BY <1>1, StaleMoves
  <2>2. step[j] = "none" /\ \A c \in CallIds : ~About(c, j)
    BY <2>1 DEF InTime, NothingUnderWay, InFlight, About
  <2>3. UNCHANGED <<step, calls>>
    BY <2>1 DEF Age, appVars
  <2> QED BY <2>2, <2>3 DEF About
<1>2. CASE j \in stale
  <2>1. /\ status[j] = "running" /\ step[j] = "none"
        /\ \A c \in CallIds : About(c, j) => calls[c].from = "reaper"
    BY <1>2 DEF OldIsAbandoned, OldAreQuiet
  <2>2. step'[j] = "none"
    BY <2>1, OrderMoves
  <2>3. ASSUME NEW c \in CallIds, About(c, j)' PROVE calls'[c].from = "reaper"
    <3>1. CASE About(c, j)
      BY <2>1, <2>3, <3>1, OldCallsAbout
    <3>2. CASE ~About(c, j)
      <4>1. ASSUME NEW w \in Workers, worker[w].pc = "drain", worker[w].job = j PROVE FALSE
        BY <1>2, <4>1 DEF OldIsAbandoned
      <4>2. ReapNext(j, c)
        BY <2>1, <2>3, <3>2, <4>1, NewCallsAbout DEF Retryable
      <4> QED BY <4>2 DEF ReapNext, Send, TypeOK
    <3> QED BY <3>1, <3>2
  <2> QED BY <2>2, <2>3
<1> QED BY <1>1, <1>2

(* Only the reaper ends what is old (job_reaper_worker.go).                *)
LEMMA OldEndsByReaper ==
  ASSUME QuietInv, [AppNext]_allVars, NEW j \in stale \ stale', OfApp(j)
  PROVE  \E c \in CallIds : /\ MarkFinished(c) /\ calls[c].job = j
                           /\ FromReaper(c) /\ calls[c].stage = "sent"
<1> USE DEF QuietInv, AppInv, OwnRunInv, JQInv, AbandonedInv, EventsInv
<1>1. j \in Jobs /\ status[j] = "running"
  BY DEF TypeOK, OldIsAbandoned
<1>2. ASSUME Create(j) PROVE FALSE
  BY <1>1, <1>2 DEF Create
<1>3. ASSUME NEW c \in CallIds, Requeue(c), calls[c].job = j PROVE FALSE
  BY <1>3 DEF Requeue, Arrived, OldAreQuiet, ReaperInOrder, About, FromReaper
<1>4. ASSUME NEW c \in CallIds, MarkFinished(c), calls[c].job = j
      PROVE  FromReaper(c) /\ calls[c].stage = "sent"
  BY <1>4 DEF MarkFinished, Arrived, OldAreQuiet, About, FromReaper
<1> QED BY <1>1, <1>2, <1>3, <1>4, StaleMoves

(* The reaper keeps finishing one old row after the other.                 *)
LEMMA ReaperStep ==
  ASSUME QuietInv, [AppNext]_allVars
  PROVE  ReaperInOrder'
<1> USE JobQueueAssumption
    DEF JobQueueAssumption, QuietInv, AppInv, OwnRunInv, JQInv, AbandonedInv, EventsInv
<1>1. TypeOK' /\ TypeOK
  BY AppInvInductive DEF AppTypeOK
(* A reaper's call was one before, or ReapNext makes it now.               *)
<1>2. ASSUME NEW c \in CallIds, FromReaper(c)', ~FromReaper(c)
      PROVE  \E j \in reapList : ReapNext(j, c)
  <2>1. calls[c] = NoCall
    BY <1>2, CallMoves DEF FromReaper
  <2>2. ASSUME NEW op, NEW i, NEW q, NEW v, NEW from, Send(c, op, i, q, v, from)
        PROVE  from = "reaper"
    BY <1>1, <1>2, <2>2 DEF Send, FromReaper, TypeOK
  <2>3. ~ \E j \in Jobs : Request(j, c)
    BY <2>2 DEF Request, RetryCheck, PeriodicCheck
  <2>4. ~ \E w \in Workers : SendStart(w, c) \/ SendFinish(w, c)
    BY <2>2 DEF SendStart, SendFinish
  <2> QED BY <1>2, <2>1, <2>3, <2>4, CallMoves DEF FromReaper, ReapNext
<1>3. ASSUME NEW c \in CallIds, FromReaper(c)', FromReaper(c)
      PROVE  /\ calls'[c].op = "finish" /\ calls'[c].job = calls[c].job
             /\ calls'[c].stage = "sent" => calls[c].stage = "sent" /\ ~MarkFinished(c)
  <2>1. calls'[c].op = calls[c].op /\ calls'[c].job = calls[c].job
    BY <1>3, CallMoves DEF FromReaper
  <2>2. ASSUME MarkRunning(c) \/ MarkFinished(c) PROVE calls'[c].stage = "done"
    BY <1>1, <2>2 DEF MarkRunning, MarkFinished, Arrived, Call, TypeOK
  <2>3. calls'[c].stage = "sent" => calls[c].stage = "sent"
    BY <1>3, <2>2, CallMoves DEF FromReaper
  <2> QED BY <1>3, <2>1, <2>2, <2>3 DEF ReaperInOrder
<1>4. ASSUME NEW c \in CallIds, NEW d \in CallIds, FromReaper(c)', FromReaper(d)' PROVE c = d
  <2>1. CASE FromReaper(c) /\ FromReaper(d)
    BY <2>1 DEF ReaperInOrder
  <2>2. ASSUME NEW x \in CallIds, NEW y \in CallIds, FromReaper(x)', ~FromReaper(x), FromReaper(y)'
        PROVE  x = y
    <3>1. PICK j \in reapList : ReapNext(j, x)
      BY <1>2, <2>2
    <3>2. \A e \in CallIds : ~FromReaper(e)
      BY <3>1 DEF ReapNext, InFlight, FromReaper
    <3>3. \A e \in CallIds : e # x => calls'[e] = calls[e]
      BY <1>1, <3>1 DEF ReapNext, Send, TypeOK
    <3> QED BY <2>2, <3>2, <3>3 DEF FromReaper
  <2> QED BY <1>4, <2>1, <2>2
<1>5. ASSUME NEW c \in CallIds, FromReaper(c)', calls'[c].stage = "sent", OfApp(calls'[c].job)
      PROVE  calls'[c].job \in stale' \ reapList'
  <2>1. CASE FromReaper(c)
    <3> DEFINE j == calls[c].job
    <3>1. /\ calls'[c].job = j /\ calls[c].stage = "sent" /\ ~MarkFinished(c)
          /\ j \in stale /\ j \notin reapList
      BY <1>3, <1>5, <2>1 DEF ReaperInOrder
    <3>2. j \in stale'
      BY <1>5, <2>1, <3>1, OldEndsByReaper DEF ReaperInOrder
    <3>3. ~ReapScan
      BY <2>1 DEF ReapScan, ReaperIdle, InFlight, FromReaper
    <3>4. j \notin reapList'
      BY <3>1, <3>3, ReapListMoves DEF ReapNext
    <3> QED BY <3>1, <3>2, <3>4
  <2>2. CASE ~FromReaper(c)
    <3>1. PICK j \in reapList : ReapNext(j, c)
      BY <1>2, <1>5, <2>2
    <3>2. calls'[c].job = j /\ reapList' = reapList \ {j} /\ stale' = stale
      BY <1>1, <3>1 DEF ReapNext, Send, TypeOK, rowVars
    <3> QED BY <1>5, <3>1, <3>2 DEF ReaperInOrder
  <2> QED BY <2>1, <2>2
<1>6. ASSUME NEW j \in reapList', OfApp(j) PROVE j \in stale'
  <2>1. CASE ReapScan
    BY <1>6, <2>1 DEF ReapScan, rowVars
  <2>2. CASE ~ReapScan
    <3>1. j \in reapList /\ j \in stale
      BY <1>6, <2>2, ReapListMoves DEF ReapNext, ReaperInOrder
    <3>2. \A c \in CallIds : FromReaper(c) /\ calls[c].stage = "sent" => calls[c].job # j
      BY <1>6, <3>1 DEF ReaperInOrder
    <3> QED BY <1>6, <3>1, <3>2, OldEndsByReaper
  <2> QED BY <2>1, <2>2
<1>7. \A c \in CallIds : FromReaper(c)' => calls'[c].op = "finish"
  <2>1. ASSUME NEW c \in CallIds, NEW j \in reapList, ReapNext(j, c) PROVE calls'[c].op = "finish"
    BY <1>1, <2>1 DEF ReapNext, Send, TypeOK
  <2> QED BY <1>2, <1>3, <2>1
<1> QED BY <1>4, <1>5, <1>6, <1>7 DEF ReaperInOrder, OfApp

(* While a worker is at work on a row, only its own report closes it.      *)
LEMMA OwnReportCloses ==
  ASSUME QuietInv, [AppNext]_allVars, NEW w \in Workers,
         worker[w].pc \in {"starting", "exec", "drain", "finishing"}, OfApp(worker[w].job),
         status[worker[w].job] \in {"queued", "running"},
         status'[worker[w].job] \notin {"queued", "running"}
  PROVE  \E c \in CallIds : /\ MarkFinished(c) /\ FinishSent(c) /\ calls[c].from = w
                           /\ worker[w].pc = "finishing"
<1> USE JobQueueAssumption
    DEF JobQueueAssumption, QuietInv, AppInv, OwnRunInv, JQInv, AbandonedInv, EventsInv
<1> DEFINE j == worker[w].job
<1>1. j \in Jobs /\ worker[w] # Idle
  BY DEF TypeOK, Busy, Idle
<1>2. PICK c \in CallIds : MarkFinished(c) /\ calls[c].job = j
  <2>1. status'[j] # status[j]
    OBVIOUS
  <2> QED BY <1>1, <2>1, StatusMoves
<1>3. calls[c] # NoCall /\ calls[c].op = "finish" /\ calls[c].stage = "sent"
  BY <1>2 DEF MarkFinished, Arrived
<1>4. calls[c].from # "reaper"
  <2>1. j \notin stale
    BY DEF OldIsAbandoned
  <2> QED BY <1>2, <1>3, <2>1 DEF ReaperInOrder, FromReaper
<1>5. calls[c].from \in Workers
  BY <1>3, <1>4 DEF Senders
<1>6. worker[calls[c].from].pc = "finishing" /\ worker[calls[c].from].job = j
  BY <1>2, <1>3, <1>5 DEF Handshake, FromWorker
<1>7. calls[c].from = w
  BY <1>1, <1>5, <1>6 DEF OneItemPerJob, Idle
<1> QED BY <1>2, <1>3, <1>5, <1>6, <1>7 DEF FinishSent, FromWorker

(* A worker's call begins with SendStart or SendFinish (job_worker.go).    *)
LEMMA WorkerCallsBegin ==
  ASSUME TypeOK, [AppNext]_allVars, NEW c \in CallIds, FromWorker(c)', ~FromWorker(c)
  PROVE  \E w \in Workers : SendStart(w, c) \/ SendFinish(w, c)
<1> USE JobQueueAssumption DEF JobQueueAssumption
<1>1. calls[c] = NoCall
  BY CallMoves DEF FromWorker
<1>2. ASSUME NEW op, NEW i, NEW q, NEW v, NEW from, Send(c, op, i, q, v, from)
      PROVE  from \in Workers
  BY <1>2 DEF Send, FromWorker, TypeOK
<1>3. ~ \E j \in Jobs : Request(j, c) \/ ReapNext(j, c)
  BY <1>2 DEF Request, RetryCheck, PeriodicCheck, ReapNext
<1> QED BY <1>1, <1>3, CallMoves DEF FromWorker

(* A row stays open until its worker's report is written.                  *)
LEMMA OpenStep ==
  ASSUME QuietInv, [AppNext]_allVars
  PROVE  RunsAreOpen'
<1> USE JobQueueAssumption
    DEF JobQueueAssumption, QuietInv, AppInv, OwnRunInv, JQInv, AbandonedInv, EventsInv
<1>1. TypeOK
  OBVIOUS
<1>2. ASSUME NEW w \in Workers, worker'[w].pc \in {"exec", "drain"}, OfApp(worker'[w].job)
      PROVE  status'[worker'[w].job] \in {"queued", "running"}
  <2>1. CASE worker'[w] = worker[w]
    <3>1. status[worker[w].job] \in {"queued", "running"}
      BY <1>2, <2>1 DEF RunsAreOpen
    <3> QED BY <1>2, <2>1, <3>1, OwnReportCloses
  <2>2. CASE worker'[w] # worker[w] /\ worker'[w].pc = "exec"
    <3>1. PICK c \in CallIds : /\ Answer(c) /\ calls[c].from = w /\ worker[w].pc = "starting"
                             /\ worker'[w].job = worker[w].job
      BY <2>2, WorkerMoves
    <3>2. /\ FromWorker(c) /\ calls[c].op = "start" /\ calls[c].stage = "done"
          /\ calls[c].job = worker[w].job
      BY <3>1 DEF Answer, Reply, FromWorker, Handshake
    <3>3. status' = status
      BY <3>1 DEF Answer, Reply, rowVars
    <3> QED BY <1>2, <3>1, <3>2, <3>3 DEF RunsAreOpen
  <2>3. CASE worker'[w] # worker[w] /\ worker'[w].pc = "drain"
    <3>1. /\ worker[w].pc = "exec" /\ worker'[w].job = worker[w].job
          /\ \E v \in Verdicts : Execute(w, v)
      BY <2>3, WorkerMoves DEF Run, HealthCheck
    <3>2. status' = status
      BY <3>1 DEF Execute, rowVars
    <3> QED BY <1>2, <3>1, <3>2 DEF RunsAreOpen
  <2> QED BY <1>2, <2>1, <2>2, <2>3
<1>3. ASSUME NEW c \in CallIds, FromWorker(c)', FromWorker(c), OfApp(calls[c].job),
             status[calls[c].job] \in {"queued", "running"},
             ~(FinishSent(c) /\ MarkFinished(c))
      PROVE  status'[calls[c].job] \in {"queued", "running"}
  <2> DEFINE w == calls[c].from
  <2>1. w \in Workers /\ worker[w].job = calls[c].job /\ worker[w].pc \in {"starting", "finishing"}
    BY <1>3 DEF FromWorker, Handshake
  <2>2. ASSUME NEW d \in CallIds, FinishSent(d), calls[d].from = w PROVE d = c
    BY <1>3, <2>2 DEF FinishSent, FromWorker, Handshake
  <2> QED BY <1>3, <2>1, <2>2, OwnReportCloses
<1>4. ASSUME NEW c \in CallIds, FromWorker(c)', ~FromWorker(c)
      PROVE  \E w \in Workers : SendStart(w, c) \/ SendFinish(w, c)
  BY <1>4, WorkerCallsBegin
<1>5. ASSUME NEW c \in CallIds, FromWorker(c)', OfApp(calls'[c].job),
             calls'[c].op = "start", calls'[c].stage = "done"
      PROVE  status'[calls'[c].job] \in {"queued", "running"}
  <2>1. CASE ~FromWorker(c)
    <3>1. PICK w \in Workers : SendStart(w, c) \/ SendFinish(w, c)
      BY <1>4, <1>5, <2>1
    <3> QED BY <1>1, <1>5, <3>1 DEF SendStart, SendFinish, Send, TypeOK
  <2>2. CASE FromWorker(c)
    <3>1. /\ calls'[c].job = calls[c].job /\ calls'[c].op = calls[c].op
          /\ calls'[c].stage = calls[c].stage \/ MarkRunning(c) \/ MarkFinished(c)
      BY <1>5, <2>2, CallMoves DEF FromWorker
    <3>2. CASE MarkRunning(c)
      <4>1. status[calls[c].job] = "queued"
        BY <2>2, <3>2 DEF MarkRunning, Arrived, StillQueued
      <4>2. status'[calls[c].job] = "running"
        BY <1>1, <3>2, <4>1 DEF MarkRunning, Arrived, TypeOK, Call
      <4> QED BY <3>1, <4>2
    <3>3. ~MarkFinished(c)
      BY <1>5, <3>1 DEF MarkFinished, Arrived
    <3>4. CASE ~MarkRunning(c)
      BY <1>3, <1>5, <2>2, <3>1, <3>3, <3>4 DEF RunsAreOpen
    <3> QED BY <3>2, <3>4
  <2> QED BY <2>1, <2>2
<1>6. ASSUME NEW c \in CallIds, FinishSent(c)', OfApp(calls'[c].job)
      PROVE  status'[calls'[c].job] \in {"queued", "running"}
  <2>1. CASE ~FromWorker(c)
    <3>1. PICK w \in Workers : SendStart(w, c) \/ SendFinish(w, c)
      BY <1>4, <1>6, <2>1 DEF FinishSent
    <3>2. SendFinish(w, c)
      BY <1>1, <1>6, <3>1 DEF SendStart, Send, TypeOK, FinishSent
    <3>3. calls'[c].job = worker[w].job /\ status' = status /\ worker[w].pc = "drain"
      BY <1>1, <3>2 DEF SendFinish, Send, TypeOK, rowVars
    <3> QED BY <1>6, <3>3 DEF RunsAreOpen
  <2>2. CASE FromWorker(c)
    <3>1. /\ calls'[c].job = calls[c].job /\ calls'[c].op = calls[c].op
          /\ calls'[c].stage = calls[c].stage \/ MarkRunning(c) \/ MarkFinished(c)
      BY <1>6, <2>2, CallMoves DEF FinishSent, FromWorker
    <3>2. ~MarkRunning(c) /\ ~MarkFinished(c)
      BY <1>1, <1>6 DEF MarkRunning, MarkFinished, Arrived, FinishSent, TypeOK, Call
    <3>3. FinishSent(c)
      BY <1>6, <2>2, <3>1, <3>2 DEF FinishSent
    <3> QED BY <1>3, <1>6, <2>2, <3>1, <3>2, <3>3 DEF RunsAreOpen, FinishSent
  <2> QED BY <2>1, <2>2
<1> QED BY <1>2, <1>5, <1>6 DEF RunsAreOpen, OfApp

(* From the end of a run to its verdict the worker alone has a call.       *)
LEMMA EndsStep ==
  ASSUME ShortRequests, QuietInv, [AppNext]_allVars
  PROVE  EndsAreQuiet'
<1> USE JobQueueAssumption
    DEF JobQueueAssumption, QuietInv, AppInv, OwnRunInv, JQInv, AbandonedInv, EventsInv
(* What nobody but the worker w can do to the job j it is at work on.      *)
<1>1. ASSUME NEW w \in Workers, NEW j \in Jobs, worker[w].job = j, OfApp(j),
             worker[w].pc \in {"drain", "finishing"}, status[j] \in {"queued", "running"},
             step[j] = "none"
      PROVE  /\ step'[j] = "none"
             /\ \A d \in CallIds : About(d, j)' /\ ~About(d, j) =>
                   SendFinish(w, d) /\ worker[w].pc = "drain"
  <2>1. step'[j] = "none"
    BY <1>1, OrderMoves
  <2>2. ASSUME NEW d \in CallIds, About(d, j)', ~About(d, j)
        PROVE  SendFinish(w, d) /\ worker[w].pc = "drain"
    <3>1. j \notin reapList
      BY <1>1 DEF OldIsAbandoned, ReaperInOrder
    <3>2. ASSUME NEW v \in Workers, worker[v].pc \in {"start", "drain"}, worker[v].job = j
          PROVE  v = w
      BY <1>1, <3>2 DEF OneItemPerJob, Idle
    <3> QED BY <1>1, <2>2, <3>1, <3>2, NewCallsAbout DEF Retryable
  <2> QED BY <2>1, <2>2
<1>2. ASSUME NEW w \in Workers, NEW j \in Jobs, worker'[w].pc = "drain",
             worker'[w].job = j, OfApp(j)
      PROVE  /\ step'[j] = "none"
             /\ \A c \in CallIds : ~About(c, j)'
  <2>1. CASE worker'[w] = worker[w]
    <3>1. /\ step[j] = "none" /\ status[j] \in {"queued", "running"}
          /\ \A c \in CallIds : ~About(c, j)
      BY <1>2, <2>1 DEF EndsAreQuiet, RunsAreOpen
    <3>2. ASSUME NEW c \in CallIds, SendFinish(w, c) PROVE FALSE
      BY <1>2, <3>2 DEF SendFinish, Goto, TypeOK
    <3> QED BY <1>1, <1>2, <2>1, <3>1, <3>2
  <2>2. CASE worker'[w] # worker[w]
    <3>1. /\ worker[w].job = j
          /\ \E v \in Verdicts : Run(w, v) \/ HealthCheck(w, v)
      BY <1>2, <2>2, WorkerMoves
    <3>2. InTime(j) /\ UNCHANGED <<calls, step>>
      BY <1>2, <3>1 DEF Run, HealthCheck, Execute, appVars, OfApp
    <3> QED BY <3>2 DEF InTime, NothingUnderWay, InFlight, About
  <2> QED BY <2>1, <2>2
<1>3. ASSUME NEW c \in CallIds, NEW j \in Jobs, FinishSent(c)', calls'[c].job = j, OfApp(j)
      PROVE  /\ step'[j] = "none"
             /\ \A d \in CallIds : About(d, j)' => d = c
  <2>1. CASE ~FromWorker(c)
    <3>1. PICK w \in Workers : SendStart(w, c) \/ SendFinish(w, c)
      BY <1>3, <2>1, WorkerCallsBegin DEF FinishSent
    <3>2. SendFinish(w, c)
      BY <1>3, <3>1 DEF SendStart, Send, TypeOK, FinishSent
    <3>3. /\ worker[w].job = j /\ worker[w].pc = "drain"
          /\ \A d \in CallIds : d # c => calls'[d] = calls[d]
      BY <1>3, <3>2 DEF SendFinish, Send, TypeOK
    <3>4. /\ step[j] = "none" /\ status[j] \in {"queued", "running"}
          /\ \A d \in CallIds : ~About(d, j)
      BY <1>3, <3>3 DEF EndsAreQuiet, RunsAreOpen
    <3>5. step'[j] = "none"
      BY <1>1, <1>3, <3>3, <3>4
    <3> QED BY <3>3, <3>4, <3>5 DEF About
  <2>2. CASE FromWorker(c)
    <3>1. /\ calls[c].job = j /\ calls'[c].op = calls[c].op
          /\ calls'[c].stage = calls[c].stage \/ MarkRunning(c) \/ MarkFinished(c)
      BY <1>3, <2>2, CallMoves DEF FinishSent, FromWorker
    <3>2. ~MarkRunning(c) /\ ~MarkFinished(c)
      BY <1>3 DEF MarkRunning, MarkFinished, Arrived, FinishSent, TypeOK, Call
    <3>3. FinishSent(c)
      BY <1>3, <2>2, <3>1, <3>2 DEF FinishSent
    <3>4. /\ step[j] = "none" /\ status[j] \in {"queued", "running"}
          /\ \A d \in CallIds : About(d, j) => d = c
      BY <1>3, <3>1, <3>3 DEF EndsAreQuiet, RunsAreOpen, FinishSent
    <3>5. PICK w \in Workers : worker[w].pc = "finishing" /\ worker[w].job = j
      BY <3>1, <3>3 DEF FinishSent, FromWorker, Handshake
    <3>6. /\ step'[j] = "none"
          /\ \A d \in CallIds : About(d, j)' => About(d, j)
      BY <1>1, <1>3, <3>4, <3>5
    <3> QED BY <3>4, <3>6
  <2> QED BY <2>1, <2>2
<1>4. TypeOK'
  BY AppInvInductive DEF AppTypeOK
<1>5. \A w \in Workers : worker'[w].pc = "drain" => worker'[w].job \in Jobs
  BY <1>4 DEF TypeOK, Busy, Idle
<1>6. \A c \in CallIds : FinishSent(c)' => calls'[c].job \in Jobs
  BY <1>4 DEF FinishSent, FromWorker, TypeOK, Call
<1> QED BY <1>2, <1>3, <1>5, <1>6 DEF EndsAreQuiet, OfApp

(* A published event stays until all listeners have heard it, for Publish  *)
(* is synchronous (event bus).                                             *)
LEMMA PublishedStay ==
  ASSUME AppTypeOK, Handshake, [AppNext]_allVars, NEW c \in CallIds, Published(c),
         ~Answer(c)
  PROVE  Published(c)' /\ calls'[c].op = calls[c].op /\ calls'[c].job = calls[c].job
         /\ calls'[c].verdict = calls[c].verdict
<1> USE DEF AppTypeOK, Published
<1>1. calls'[c] # NoCall
  BY DoneCallsStay
<1>2. ~MarkRunning(c) /\ ~MarkFinished(c)
  BY DEF MarkRunning, MarkFinished, Arrived
<1> QED BY <1>1, <1>2, CallMoves

(* Every step keeps the listeners behind the publications.                 *)
LEMMA HeardStep ==
  ASSUME AppTypeOK, Handshake, OnlyPublishedHeard, [AppNext]_allVars
  PROVE  OnlyPublishedHeard'
<1> SUFFICES ASSUME NEW c \in CallIds, heard'[c] # "none" PROVE Published(c)'
  BY DEF OnlyPublishedHeard
<1>1. CASE HearApp(c) \/ HearDeployment(c)
  BY <1>1 DEF HearApp, HearDeployment, Published, vars
<1>2. CASE heard'[c] = heard[c]
  <2>1. Published(c)
    BY <1>2 DEF OnlyPublishedHeard
  <2>2. ~Answer(c)
    BY DEF Answer, AppTypeOK
  <2> QED BY <2>1, <2>2, PublishedStay
<1> QED BY <1>1, <1>2, HeardMoves

(* A verdict stays the last word about its job: nobody is left who would   *)
(* report something else, and the deployment's listener writes it down     *)
(* (deployment/listener.go).                                               *)
LEMMA VerdictsStep ==
  ASSUME QuietInv, [AppNext]_allVars
  PROVE  VerdictsAreFinal'
<1> USE DEF QuietInv, AppInv, OwnRunInv, JQInv, AbandonedInv, EventsInv
<1> SUFFICES ASSUME NEW j \in Jobs, OfApp(j), status'[j] \in Verdicts
             PROVE  /\ step'[j] = "none"
                    /\ \A c \in CallIds : (About(c, j)' /\ calls'[c].op # "retry") =>
                          /\ calls'[c].op = "finish" /\ calls'[c].stage = "done"
                          /\ calls'[c].verdict = status'[j]
                    /\ HasDeployment(j)' =>
                          \/ depStatus'[j] = status'[j]
                          \/ \E c \in CallIds : /\ About(c, j)' /\ calls'[c].op = "finish"
                                                /\ heard'[c] # "all"
  BY DEF VerdictsAreFinal, OfApp
<1>1. CASE status'[j] = status[j]
  <2>0. /\ status[j] \in Verdicts /\ status[j] # "none" /\ step[j] = "none"
        /\ \A c \in CallIds : (About(c, j) /\ calls[c].op # "retry") =>
              /\ calls[c].op = "finish" /\ calls[c].stage = "done"
              /\ calls[c].verdict = status[j]
        /\ HasDeployment(j) =>
              \/ depStatus[j] = status[j]
              \/ \E c \in CallIds : /\ About(c, j) /\ calls[c].op = "finish" /\ heard[c] # "all"
    BY <1>1 DEF VerdictsAreFinal, Verdicts
  <2>1. step'[j] = "none" /\ kind'[j] = kind[j]
    BY <2>0, OrderMoves
  <2>2. ASSUME NEW c \in CallIds, About(c, j)', calls'[c].op # "retry"
        PROVE  /\ calls'[c].op = "finish" /\ calls'[c].stage = "done"
               /\ calls'[c].verdict = status'[j]
    <3>1. CASE About(c, j)
      <4>1. ~MarkRunning(c) /\ ~MarkFinished(c)
        BY <2>0, <2>2, <3>1, OldCallsAbout DEF MarkRunning, MarkFinished, Arrived
      <4> QED BY <1>1, <2>0, <2>2, <3>1, <4>1, OldCallsAbout
    <3>2. CASE ~About(c, j)
      <4>1. j \notin reapList
        BY <2>0 DEF ReaperInOrder, OldIsAbandoned, Verdicts
      <4>2. \A w \in Workers : worker[w].pc = "drain" => worker[w].job # j
        BY <2>0 DEF RunsAreOpen, Verdicts
      <4> QED BY <2>0, <2>2, <3>2, <4>1, <4>2, NewCallsAbout DEF Verdicts
    <3> QED BY <3>1, <3>2
  <2>3. ASSUME HasDeployment(j)'
        PROVE  \/ depStatus'[j] = status'[j]
               \/ \E c \in CallIds : /\ About(c, j)' /\ calls'[c].op = "finish" /\ heard'[c] # "all"
    <3>0. HasDeployment(j)
      BY <2>1, <2>3 DEF HasDeployment
    <3>1. ASSUME NEW c \in CallIds, HearDeployment(c), calls[c].job = j
          PROVE  depStatus'[j] = status'[j]
      <4>1. About(c, j) /\ calls[c].op # "retry"
        BY <3>1 DEF HearDeployment, Published, About, Handshake
      <4>2. calls[c].op = "finish" /\ calls[c].verdict = status[j]
        BY <2>0, <4>1
      <4> QED BY <1>1, <3>1, <4>2 DEF HearDeployment, AppTypeOK
    <3>2. CASE depStatus[j] = status[j]
      <4>1. ~Prepare(j) /\ ~Announce(j)
        BY <2>0 DEF Prepare, Announce
      <4> QED BY <1>1, <3>1, <3>2, <4>1, HeardMoves
    <3>3. ASSUME NEW c \in CallIds, About(c, j), calls[c].op = "finish", heard[c] # "all"
          PROVE  \/ depStatus'[j] = status'[j]
                 \/ About(c, j)' /\ calls'[c].op = "finish" /\ heard'[c] # "all"
      <4>1. Published(c)
        BY <2>0, <3>3 DEF About, Published, OfApp
      <4>2. ~Answer(c)
        BY <3>3, <4>1 DEF Answer
      <4>3. About(c, j)' /\ calls'[c].op = "finish"
        BY <3>3, <4>1, <4>2, PublishedStay DEF About, Published
      <4>4. CASE HearApp(c)
        <5>1. heard'[c] = "app"
          BY <3>0, <3>3, <4>4 DEF HearApp, About, AppTypeOK
        <5> QED BY <4>3, <5>1
      <4>5. CASE HearDeployment(c)
        BY <3>1, <3>3, <4>5 DEF About
      <4>6. CASE heard'[c] = heard[c]
        BY <3>3, <4>3, <4>6
      <4> QED BY <4>2, <4>4, <4>5, <4>6, HeardMoves
    <3> QED BY <2>0, <3>0, <3>2, <3>3
  <2> QED BY <2>1, <2>2, <2>3
<1>2. CASE status'[j] # status[j]
  <2>1. PICK c \in CallIds : /\ MarkFinished(c) /\ calls[c].job = j /\ status[j] = "running"
                           /\ status'[j] = calls[c].verdict
    BY <1>2, StatusMoves DEF Verdicts
  <2>2. About(c, j) /\ calls[c].op = "finish" /\ calls[c].stage = "sent"
    BY <2>1 DEF MarkFinished, Arrived, About
  <2>3. step[j] = "none" /\ \A d \in CallIds : About(d, j) => d = c
    <3>1. CASE FromReaper(c)
      <4>1. j \in stale
        BY <2>1, <2>2, <3>1 DEF ReaperInOrder
      <4> QED BY <3>1, <4>1 DEF OldAreQuiet, ReaperInOrder, FromReaper, About
    <3>2. CASE ~FromReaper(c)
      <4>1. FinishSent(c)
        BY <2>2, <3>2 DEF Senders, About, FromReaper, FinishSent, FromWorker
      <4> QED BY <2>1, <4>1 DEF EndsAreQuiet
    <3> QED BY <3>1, <3>2
  <2>4. /\ \A d \in CallIds : d # c => calls'[d] = calls[d]
        /\ calls'[c].op = "finish" /\ calls'[c].stage = "done" /\ calls'[c].job = j
        /\ calls'[c].verdict = status'[j]
    BY <2>1, <2>2 DEF MarkFinished, About, TypeOK, Call
  <2>5. calls'[c] # NoCall
    <3>1. calls'[c] = [calls[c] EXCEPT !.stage = "done"]
      BY <2>1 DEF MarkFinished, TypeOK
    <3>2. [calls[c] EXCEPT !.stage = "done"] \in Call
      BY <2>2 DEF TypeOK, Call, About
    <3> QED BY <3>1, <3>2, NoCallAssumption
  <2>6. step'[j] = "none"
    BY <2>1, <2>3, OrderMoves
  <2>7. heard'[c] = "none"
    <3>1. heard[c] = "none"
      BY <2>2 DEF OnlyPublishedHeard, Published
    <3>2. ~HearApp(c) /\ ~HearDeployment(c)
      BY <2>2 DEF HearApp, HearDeployment, Published
    <3> QED BY <3>1, <3>2, HeardMoves
  <2> QED BY <2>3, <2>4, <2>5, <2>6, <2>7 DEF About
<1> QED BY <1>1, <1>2

(* With requests that are short and do not outlive their callers, and logs *)
(* that are sent in bounded time, EventsInv is invariant: what handlers and*)
(* listeners find on their way is what the queue says.                     *)
LEMMA EventsInvariant ==
  ASSUME ShortRequests, DrainBounded, ~OrphansServed
  PROVE  AppSpec => []QuietInv
<1>1. AppInit => EventsInv
  BY JobQueueAssumption
  DEF AppInit, Init, EventsInv, OldAreQuiet, ReaperInOrder, EndsAreQuiet, RunsAreOpen,
      OnlyPublishedHeard, VerdictsAreFinal, FromReaper, FromWorker, FinishSent, Idle, Verdicts
<1>2. QuietInv /\ [AppNext]_allVars => EventsInv'
  BY OldQuietStep, ReaperStep, EndsStep, OpenStep, HeardStep, VerdictsStep
  DEF EventsInv, QuietInv, AppInv, JQInv
<1>3. AppSpec => []AppInv
  BY AppInvInductive, PTL DEF AppSpec
<1>4. Spec => []OwnRunInv
  BY OwnRunInvariant
<1>5. Spec => []AbandonedInv
  BY AbandonedInvariant
<1>6. AppSpec => [](AppInv /\ OwnRunInv /\ AbandonedInv)
  BY <1>3, <1>4, <1>5, AppUsesQueue, PTL
<1>7. (AppInv /\ OwnRunInv /\ AbandonedInv) /\ EventsInv /\ [AppNext]_allVars => EventsInv'
  BY <1>2 DEF QuietInv
<1>8. AppSpec => []EventsInv
  BY <1>1, <1>6, <1>7, PTL DEF AppSpec
<1>9. (AppInv /\ OwnRunInv /\ AbandonedInv) /\ EventsInv => QuietInv
  BY DEF QuietInv
<1> QED BY <1>6, <1>8, <1>9, PTL

(* For every number of applications, jobs, workers and calls: whatever     *)
(* order agents, users, the reaper and retries take, a deployment at rest  *)
(* says what its job says (deployment/listener.go, job_repo.go).           *)
THEOREM DeploymentsAgree ==
  ASSUME ShortRequests, DrainBounded, ~OrphansServed
  PROVE  AppSpec => []SettledDeploymentsAgree
<1>1. QuietInv => SettledDeploymentsAgree
  <2> SUFFICES ASSUME QuietInv, NEW j \in Jobs, HasDeployment(j), status[j] \in Verdicts,
                      NothingUnderWay(j)
               PROVE  depStatus[j] = status[j]
    BY DEF SettledDeploymentsAgree
  <2>1. OfApp(j)
    BY DEF QuietInv, AppInv, OrderedOnce, HasDeployment, OfApp
  <2>2. \A c \in CallIds : ~About(c, j)
    BY DEF NothingUnderWay, InFlight, About
  <2> QED BY <2>1, <2>2 DEF QuietInv, EventsInv, VerdictsAreFinal
<1> QED BY <1>1, EventsInvariant, PTL

-----------------------------------------------------------------------------
(* Applications in the middle of an operation.                             *)

NoneExpired == \A j \in Jobs : status[j] # "expired"

(* A request that goes on after jobSvc.Create has inserted its row.        *)
AnnouncedHaveRows ==
    \A j \in Jobs : step[j] \in {"announce", "remove"} => status[j] # "none"

(* Delete marks the application once its job is inserted and announced.    *)
DestroyedAreDeleted ==
    \A j \in Jobs :
        (/\ kind[j] = "destroy" /\ status[j] # "none"
         /\ step[j] \notin {"announce", "remove"}) => AppOf[j] \in deleted

(* Something about the job j is still to be written into its application.  *)
Pending(j) ==
    \/ status[j] \in {"queued", "running"}
    \/ step[j] # "none"
    \/ \E c \in CallIds : /\ About(c, j) /\ calls[c].op = "finish"
                           /\ calls[c].stage = "done" /\ heard[c] = "none"

BusyArePending ==
    createFails = 0 =>
        \A a \in Apps \ deleted :
            appStatus[a] \in Transitional \ {"starting"} =>
                \E j \in Jobs : AppOf[j] = a /\ Pending(j)

BusyInv == NoneExpired /\ AnnouncedHaveRows /\ DestroyedAreDeleted /\ BusyArePending

(* Applications stay deleted, and failures stay counted.                   *)
LEMMA DeletedMoves ==
  ASSUME AppTypeOK, [AppNext]_allVars
  PROVE  deleted \subseteq deleted' /\ createFails' >= createFails
<1> USE DEF AppTypeOK
<1>1. ASSUME NEW i \in Jobs, Operation(i)
      PROVE  deleted \subseteq deleted' /\ createFails' >= createFails
  BY <1>1 DEF Operation, Check, Prepare, Insert, InsertFails, Announce, Remove
<1>2. ASSUME UNCHANGED <<deleted, createFails>>
      PROVE  deleted \subseteq deleted' /\ createFails' >= createFails
  BY <1>2
<1>3. ASSUME NEW c \in CallIds, Listen(c) PROVE UNCHANGED <<deleted, createFails>>
  BY <1>3 DEF Listen, HearApp, HearDeployment, Answer
<1>4. ASSUME NEW w \in Workers, NEW v \in Verdicts, Run(w, v) \/ HealthCheck(w, v)
      PROVE  UNCHANGED <<deleted, createFails>>
  BY <1>4 DEF Run, HealthCheck, appVars
<1> QED BY <1>1, <1>2, <1>3, <1>4 DEF AppNext, Undisturbed, appVars, allVars

(* A job's order goes on by its own operation (service.go).                *)
LEMMA StepMoves ==
  ASSUME AppTypeOK, [AppNext]_allVars, NEW j \in Jobs, step'[j] # step[j]
  PROVE  Operation(j)
<1> USE DEF AppTypeOK
<1>1. ASSUME NEW i \in Jobs, Operation(i) PROVE i = j
  BY <1>1 DEF Operation, Check, Prepare, Insert, InsertFails, Announce, Remove
<1>2. ASSUME NEW c \in CallIds, Listen(c) PROVE FALSE
  BY <1>2 DEF Listen, HearApp, HearDeployment, Answer
<1>3. ASSUME NEW w \in Workers, NEW v \in Verdicts, Run(w, v) \/ HealthCheck(w, v)
      PROVE  FALSE
  BY <1>3 DEF Run, HealthCheck, appVars
<1> QED BY <1>1, <1>2, <1>3 DEF AppNext, Undisturbed, appVars, allVars

(* Who writes applications.status: requests, listeners and health reports  *)
(* (service.go, application/listener.go, UpdateHealth).                    *)
LEMMA AppStatusMoves ==
  ASSUME AppTypeOK, [AppNext]_allVars, NEW a \in Apps, appStatus'[a] # appStatus[a]
  PROVE  \/ \E j \in Jobs : Prepare(j) /\ AppOf[j] = a /\ step'[j] = "ordered"
         \/ appStatus'[a] \in HealthStatuses
         \/ \E c \in CallIds : HearApp(c) /\ AppOf[calls[c].job] = a
<1> DEFINE Moved ==
      \/ \E j \in Jobs : Prepare(j) /\ AppOf[j] = a /\ step'[j] = "ordered"
      \/ appStatus'[a] \in HealthStatuses
      \/ \E c \in CallIds : HearApp(c) /\ AppOf[calls[c].job] = a
<1> USE DEF AppTypeOK
<1>1. ASSUME NEW b, NEW s, SetStatus(b, s) PROVE a = b /\ appStatus'[a] = s
  BY <1>1 DEF SetStatus
<1>2. ASSUME NEW j \in Jobs, Prepare(j) PROVE Moved
  BY <1>1, <1>2 DEF Prepare
<1>3. ASSUME NEW j \in Jobs, InsertFails(j) PROVE Moved
  BY <1>1, <1>3 DEF InsertFails, HealthStatuses
<1>4. ASSUME NEW c \in CallIds, HearApp(c) PROVE Moved
  <2>1. \/ SetStatus(AppOf[calls[c].job], StatusOnStart(kind[calls[c].job]))
        \/ SetStatus(AppOf[calls[c].job], "failed")
        \/ SetStatus(AppOf[calls[c].job], StatusOnSuccess(kind[calls[c].job]))
        \/ UNCHANGED appStatus
    BY <1>4 DEF HearApp
  <2>2. a = AppOf[calls[c].job]
    BY <1>1, <2>1
  <2> QED BY <1>4, <2>2
<1>5. ASSUME NEW w \in Workers, NEW v \in Verdicts, HealthCheck(w, v) PROVE Moved
  <2>1. PICK named \in SUBSET Apps : \E s \in [named -> HealthStatuses] :
          appStatus' = [b \in Apps |-> IF b \in named THEN s[b] ELSE appStatus[b]]
    BY <1>5 DEF HealthCheck
  <2> QED BY <2>1
<1> HIDE DEF Moved
<1>6. ASSUME UNCHANGED appStatus PROVE FALSE
  BY <1>6
<1>7. ASSUME NEW j \in Jobs, Operation(j) PROVE Moved
  BY <1>2, <1>3, <1>6, <1>7 DEF Operation, Check, Insert, Announce, Remove
<1>8. ASSUME NEW c \in CallIds, Listen(c) PROVE Moved
  BY <1>4, <1>6, <1>8 DEF Listen, HearDeployment, Answer
<1>9. ASSUME NEW w \in Workers, NEW v \in Verdicts, Run(w, v) PROVE FALSE
  BY <1>6, <1>9 DEF Run, appVars
<1>10. Moved
  BY <1>5, <1>6, <1>7, <1>8, <1>9 DEF AppNext, Undisturbed, appVars, allVars
<1> QED BY <1>10 DEF Moved

(* The row of an application's job is inserted by the request for it.      *)
LEMMA RowsAreInserted ==
  ASSUME AppInv, [AppNext]_allVars, NEW j \in Jobs, OfApp(j),
         status[j] = "none", status'[j] # "none"
  PROVE  Insert(j)
<1> USE DEF AppInv, JQInv, AppTypeOK
<1>1. Create(j)
  BY AppStepIsQueueStep, NewRow
<1>2. clock' # clock
  BY <1>1 DEF Create, Queue, TypeOK
<1>3. ASSUME NEW i \in Jobs, Create(i) PROVE i = j
  BY <1>1, <1>3 DEF Create, Queue, TypeOK
<1>4. ASSUME NEW i \in Jobs, Operation(i) PROVE Insert(j)
  BY <1>2, <1>3, <1>4
  DEF Operation, Check, Prepare, Insert, InsertFails, Announce, Remove, vars, rowVars
<1>5. ASSUME NEW c \in CallIds, Listen(c) PROVE FALSE
  BY <1>2, <1>5 DEF Listen, HearApp, HearDeployment, Answer, Reply, vars, rowVars
<1>6. ASSUME NEW w \in Workers, NEW v \in Verdicts, Run(w, v) \/ HealthCheck(w, v)
      PROVE  FALSE
  BY <1>2, <1>6 DEF Run, HealthCheck, Execute, rowVars
<1>7. ~Undisturbed
  BY <1>1, OthersInsertNothing DEF OfApp
<1> QED BY <1>2, <1>4, <1>5, <1>6, <1>7 DEF AppNext, allVars, vars, rowVars

(* Every step keeps the first three parts of BusyInv.                      *)
LEMMA NoneExpiredStep ==
  ASSUME AppInv, NoneExpired, [AppNext]_allVars
  PROVE  NoneExpired'
<1> SUFFICES ASSUME NEW j \in Jobs, status'[j] = "expired" PROVE FALSE
  BY DEF NoneExpired
<1>1. status'[j] # status[j]
  BY DEF NoneExpired
<1>2. PICK c \in CallIds : MarkFinished(c) /\ status'[j] = calls[c].verdict
  BY <1>1, StatusMoves DEF AppInv, AppTypeOK
<1>3. calls[c].verdict \in Verdicts
  BY <1>2 DEF MarkFinished, Arrived, AppInv, JQInv, Handshake
<1> QED BY <1>2, <1>3 DEF Verdicts

(* The rest of Delete comes after its job is in the table.                 *)
LEMMA AnnouncedStep ==
  ASSUME AppInv, AnnouncedHaveRows, [AppNext]_allVars
  PROVE  AnnouncedHaveRows'
<1> USE DEF AppInv, JQInv, AppTypeOK
<1> SUFFICES ASSUME NEW j \in Jobs, step'[j] \in {"announce", "remove"}
             PROVE  status'[j] # "none"
  BY DEF AnnouncedHaveRows
<1>1. CASE status[j] # "none"
  BY <1>1, AppStepIsQueueStep, RowsExistStep
<1>2. CASE status[j] = "none"
  <2>1. Operation(j) /\ step[j] \notin {"announce", "remove"}
    BY <1>2, StepMoves DEF AnnouncedHaveRows
  <2>2. Insert(j)
    BY <2>1 DEF Operation, Check, Prepare, InsertFails, Announce, Remove
  <2> QED BY <2>2 DEF Insert, Create, Queue, TypeOK
<1> QED BY <1>1, <1>2

(* Delete ends with the application marked deleted.                        *)
LEMMA DestroyedStep ==
  ASSUME AppInv, DestroyedAreDeleted, [AppNext]_allVars
  PROVE  DestroyedAreDeleted'
<1> USE DEF AppInv, JQInv, AppTypeOK
<1> SUFFICES ASSUME NEW j \in Jobs, kind'[j] = "destroy", status'[j] # "none",
                    step'[j] \notin {"announce", "remove"}
             PROVE  AppOf[j] \in deleted'
  BY DEF DestroyedAreDeleted
<1>1. OfApp(j)
  BY OrderedStep DEF OrderedOnce, OfApp
<1>2. CASE status[j] # "none"
  <2>1. kind[j] = "destroy"
    BY <1>1, <1>2, OrderMoves
  <2>2. CASE step[j] \notin {"announce", "remove"}
    BY <1>2, <2>1, <2>2, DeletedMoves DEF DestroyedAreDeleted
  <2>3. CASE step[j] \in {"announce", "remove"}
    <3>1. Announce(j) \/ Remove(j)
      BY <1>1, <1>2, <2>3, OrderMoves
    <3>2. Remove(j)
      BY <2>1, <3>1 DEF Announce
    <3> QED BY <3>2 DEF Remove
  <2> QED BY <2>2, <2>3
<1>3. CASE status[j] = "none"
  <2>1. Insert(j)
    BY <1>1, <1>3, RowsAreInserted DEF AppInv
  <2> QED BY <2>1 DEF Insert
<1> QED BY <1>2, <1>3

(* What is pending about a job stays pending until the listeners have      *)
(* written it into the application's row, or an insert failed.             *)
LEMMA PendingStays ==
  ASSUME QuietInv, BusyInv, [AppNext]_allVars, NEW j \in Jobs, AppOf[j] \in Apps,
         Pending(j), createFails' = 0, AppOf[j] \notin deleted',
         ~ \E c \in CallIds : /\ HearApp(c) /\ calls[c].job = j
                              /\ calls[c].op = "finish" /\ kind[j] # "destroy"
  PROVE  Pending(j)'
<1> USE JobQueueAssumption
    DEF JobQueueAssumption, QuietInv, AppInv, JQInv, EventsInv, BusyInv, AppTypeOK
<1>1. OfApp(j)
  BY DEF OfApp
<1>2. AppOf[j] \notin deleted /\ createFails = 0
  BY DeletedMoves
<1>3. CASE status[j] \in {"queued", "running"}
  <2>1. CASE status'[j] \in {"queued", "running"}
    BY <2>1 DEF Pending
  <2>2. CASE status'[j] \notin {"queued", "running"}
    <3>1. PICK c \in CallIds : MarkFinished(c) /\ calls[c].job = j
      BY <1>3, <2>2, StatusMoves
    <3>2. calls[c] \in Call /\ calls[c].stage = "sent" /\ calls[c].op = "finish"
      BY <3>1 DEF MarkFinished, Arrived, TypeOK
    <3>3. calls'[c] = [calls[c] EXCEPT !.stage = "done"]
      BY <3>1 DEF MarkFinished, TypeOK
    <3>4. About(c, j)' /\ calls'[c].op = "finish" /\ calls'[c].stage = "done"
      BY <3>1, <3>2, <3>3, NoCallAssumption DEF About, Call
    <3>5. heard[c] = "none"
      BY <3>2 DEF OnlyPublishedHeard, Published
    <3>6. heard'[c] = "none"
      BY <3>2, <3>5, HeardMoves DEF HearApp, HearDeployment, Published
    <3> QED BY <3>4, <3>6 DEF Pending
  <2> QED BY <2>1, <2>2
<1>4. CASE step[j] # "none" /\ status[j] \notin {"queued", "running"}
  <2>1. CASE step'[j] # "none"
    BY <2>1 DEF Pending
  <2>2. CASE step'[j] = "none"
    <3>1. Operation(j)
      BY <1>4, <2>2, StepMoves
    <3>2. step[j] \notin {"announce", "remove"}
      <4>1. status[j] \notin Verdicts
        BY <1>1, <1>4 DEF VerdictsAreFinal
      <4> QED BY <1>4, <4>1 DEF AnnouncedHaveRows, NoneExpired, TypeOK, Statuses
    <3>3. ~Prepare(j)
      BY <1>2, <2>2 DEF Prepare
    <3>4. ~InsertFails(j)
      BY <1>2 DEF InsertFails
    <3> QED BY <2>2, <3>1, <3>2, <3>3, <3>4 DEF Operation, Check, Insert, Announce, Remove
  <2> QED BY <2>1, <2>2
<1>5. ASSUME NEW c \in CallIds, About(c, j), calls[c].op = "finish",
             calls[c].stage = "done", heard[c] = "none"
      PROVE  Pending(j)'
  <2>1. Published(c)
    BY <1>1, <1>5 DEF Published, About, OfApp
  <2>2. ~Answer(c) /\ ~HearDeployment(c)
    BY <1>5, <2>1 DEF Answer, HearDeployment
  <2>3. About(c, j)' /\ calls'[c].op = "finish" /\ calls'[c].stage = "done"
    BY <1>5, <2>1, <2>2, PublishedStay DEF Published, About
  <2>4. CASE heard'[c] = "none"
    BY <2>3, <2>4 DEF Pending
  <2>5. CASE heard'[c] # "none"
    <3>1. HearApp(c)
      BY <1>5, <2>2, <2>5, HeardMoves
    <3>2. kind[j] = "destroy"
      BY <1>5, <3>1 DEF About
    <3>3. status[j] # "none"
      BY <1>5 DEF RowsExist, About
    <3>4. step[j] \in {"announce", "remove"}
      BY <1>2, <3>2, <3>3 DEF DestroyedAreDeleted
    <3>5. step'[j] # "none"
      BY <3>1, <3>4 DEF HearApp
    <3> QED BY <3>5 DEF Pending
  <2> QED BY <2>4, <2>5
<1> QED BY <1>3, <1>4, <1>5 DEF Pending

(* A busy application goes on having something pending: a start event      *)
(* makes it busy while its job runs, and the last event of a job that made *)
(* it busy takes that back (application/listener.go).                      *)
LEMMA BusyStep ==
  ASSUME QuietInv, BusyInv, [AppNext]_allVars
  PROVE  BusyArePending'
<1> USE DEF QuietInv, AppInv, JQInv, EventsInv, BusyInv, AppTypeOK
<1> SUFFICES ASSUME createFails' = 0, NEW a \in Apps \ deleted',
                    appStatus'[a] \in Transitional \ {"starting"}
             PROVE  \E j \in Jobs : AppOf[j] = a /\ Pending(j)'
  BY DEF BusyArePending
<1>0. a \in Apps \ deleted /\ createFails = 0
  BY DeletedMoves
<1>1. ASSUME NEW c \in CallIds, HearApp(c), AppOf[calls[c].job] = a
      PROVE  /\ calls[c].op = "finish" => kind[calls[c].job] = "destroy"
             /\ calls[c].op = "start" \/ UNCHANGED appStatus
  <2>1. ASSUME NEW s, SetStatus(a, s) PROVE appStatus'[a] = s
    BY <1>0, <2>1 DEF SetStatus
  <2>2. ~SetStatus(a, "failed") /\ ~SetStatus(a, StatusOnSuccess(kind[calls[c].job]))
    BY <2>1 DEF StatusOnSuccess, Transitional
  <2> QED BY <1>1, <2>2 DEF HearApp
<1>2. CASE appStatus'[a] = appStatus[a]
  <2>1. PICK j \in Jobs : AppOf[j] = a /\ Pending(j)
    BY <1>0, <1>2 DEF BusyArePending
  <2>2. ~ \E c \in CallIds : /\ HearApp(c) /\ calls[c].job = j
                             /\ calls[c].op = "finish" /\ kind[j] # "destroy"
    BY <1>1, <2>1
  <2> QED BY <2>1, <2>2, PendingStays
<1>3. CASE appStatus'[a] # appStatus[a]
  <2>1. ASSUME NEW j \in Jobs, Prepare(j), AppOf[j] = a, step'[j] = "ordered"
        PROVE  \E i \in Jobs : AppOf[i] = a /\ Pending(i)'
    BY <2>1 DEF Pending
  <2>2. appStatus'[a] \notin HealthStatuses
    BY DEF HealthStatuses, Transitional
  <2>3. ASSUME NEW c \in CallIds, HearApp(c), AppOf[calls[c].job] = a
        PROVE  \E i \in Jobs : AppOf[i] = a /\ Pending(i)'
    <3> DEFINE j == calls[c].job
    <3>1. calls[c] # NoCall /\ j \in Jobs /\ OfApp(j) /\ calls[c].stage = "done"
      BY <2>3 DEF HearApp, Published, TypeOK, Call, OfApp
    <3>2. ~UNCHANGED appStatus
      BY <1>3
    <3>3. calls[c].op = "start"
      BY <1>1, <2>3, <3>2
    <3>4. status[j] # "none" /\ status[j] \notin Verdicts
      BY <3>1, <3>3 DEF RowsExist, VerdictsAreFinal, About
    <3>5. status[j] \in {"queued", "running"}
      BY <3>1, <3>4 DEF NoneExpired, TypeOK, Statuses
    <3>6. status' = status
      BY <2>3 DEF HearApp, vars, rowVars
    <3> QED BY <2>3, <3>1, <3>5, <3>6 DEF Pending
  <2> QED BY <1>3, <2>1, <2>2, <2>3, AppStatusMoves
<1> QED BY <1>2, <1>3

(* For every number of applications, jobs, workers and calls: unless an    *)
(* insert failed, no application is left in the middle of an operation that*)
(* nobody performs (service.go, application/listener.go, job_repo.go).     *)
THEOREM BusyAppsHaveWork ==
  ASSUME ShortRequests, DrainBounded, ~OrphansServed
  PROVE  AppSpec => []BusyUnlessInsertFailed
<1>1. AppInit => BusyInv
  BY DEF AppInit, Init, BusyInv, NoneExpired, AnnouncedHaveRows, DestroyedAreDeleted,
     BusyArePending, Transitional
<1>2. QuietInv /\ BusyInv /\ [AppNext]_allVars => BusyInv'
  BY NoneExpiredStep, AnnouncedStep, DestroyedStep, BusyStep DEF BusyInv, QuietInv
<1>3. QuietInv /\ BusyInv => BusyUnlessInsertFailed
  <2> SUFFICES ASSUME QuietInv, BusyInv, createFails = 0, NEW a \in Apps \ deleted,
                      appStatus[a] \in Transitional \ {"starting"}
               PROVE  \E j \in Jobs : /\ AppOf[j] = a
                                     /\ \/ status[j] \in {"queued", "running"}
                                        \/ ~NothingUnderWay(j)
    BY DEF BusyUnlessInsertFailed, BusyAppHasWork
  <2>1. PICK j \in Jobs : AppOf[j] = a /\ Pending(j)
    BY DEF BusyInv, BusyArePending
  <2> QED BY <2>1 DEF Pending, NothingUnderWay, InFlight, About
<1>4. AppSpec => []BusyInv
  BY <1>1, <1>2, EventsInvariant, PTL DEF AppSpec
<1> QED BY <1>3, <1>4, EventsInvariant, PTL

=============================================================================
