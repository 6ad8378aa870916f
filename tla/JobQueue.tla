------------------------------ MODULE JobQueue ------------------------------
(***************************************************************************)
(* The job queue of one server: the rows of the jobs table, the calls that *)
(* change them (the agent's start and finish requests, the operator's and  *)
(* the scheduler's retries, the reaper), and the agent process that polls  *)
(* the queue, locks the application, runs the job and reports.             *)
(*                                                                         *)
(* A call is a record in a slot of CallIds.  The database statement and    *)
(* the publication of the events that follows it are different steps, and  *)
(* a call whose caller gave up or died goes on as an orphan.               *)
(***************************************************************************)
EXTENDS Naturals, FiniteSets

CONSTANTS
    Jobs,          \* job ids
    Periodic,      \* the jobs the scheduled workers re-queue
    Workers,       \* goroutines of one agent process (AgentJobWorkerCount)
    CallIds,       \* slots for calls in flight (a bound)
    Apps,          \* applications
    AppOf,         \* the application of each job, NoKey for a global one
    Mutexes,       \* mutex objects of the agent's keyed mutex
    NoJob, NoCall, NoKey, NoMutex,
    PollLimit,     \* GetPending's LIMIT
    ReapLimit,     \* the reaper's listing limit
    MaxClock,      \* bound: how many times jobs are queued in all
    MaxFaults,     \* bound: crashes, failed calls and client timeouts in all
    DrainBounded,  \* whether sending the last logs takes bounded time
    OrphansServed  \* whether a request outlives the caller that sent it

ASSUME JobQueueAssumption ==
    /\ Periodic \subseteq Jobs
    /\ AppOf \in [Jobs -> Apps \cup {NoKey}]
    /\ NoJob \notin Jobs /\ NoKey \notin Apps /\ NoMutex \notin Mutexes
    /\ "reaper" \notin Workers /\ "user" \notin Workers
    /\ "scheduler" \notin Workers /\ "gone" \notin Workers
    /\ PollLimit \in Nat \ {0} /\ ReapLimit \in Nat \ {0}
    /\ MaxClock \in Nat /\ MaxFaults \in Nat
    /\ DrainBounded \in BOOLEAN /\ OrphansServed \in BOOLEAN

VARIABLES
    status,     \* jobs.status
    queuedAt,   \* jobs.queued_at, as the number of the queueing
    clock,      \* the last queueing number given
    stale,      \* running rows whose started_at is older than reapAfter
    startedBy,  \* started_at, as the queueing the start call was sent for
    lastRun,    \* history: the queueing whose run the executor began last
    calls,      \* calls in flight
    reapList,   \* rows the current pass of the reaper still has to finish
    faults,     \* faults so far
    agentUp,    \* whether the agent process runs
    batch,      \* jobCh: polled jobs no worker has taken yet
    worker,     \* the job and the place of each worker goroutine
    locks, held, at, want, mref   \* the agent's keyed mutex

KM == INSTANCE KeyedMutex WITH Threads <- Workers, Keys <- Apps

kmVars == <<locks, held, at, want, mref>>
rowVars == <<status, queuedAt, clock, stale, startedBy>>
agentVars == <<agentUp, batch, worker, kmVars>>
vars == <<rowVars, lastRun, calls, reapList, faults, agentVars>>

Verdicts == {"success", "failed"}
Statuses == {"none", "queued", "running", "expired"} \cup Verdicts
Retryable == {"failed", "expired"}
Callers == Workers \cup {"reaper", "user", "scheduler", "gone"}

Call == [op : {"start", "finish", "retry"}, job : Jobs, queued : Nat,
         verdict : Verdicts \cup {"none"}, from : Callers,
         stage : {"sent", "done"}]

ASSUME NoCallAssumption == NoCall \notin Call

Idle == [pc |-> "idle", job |-> NoJob, queued |-> 0, verdict |-> "none"]
Busy == [pc : {"lock", "start", "starting", "exec", "drain", "finishing",
               "unlock"},
         job : Jobs, queued : Nat, verdict : Verdicts \cup {"none"}]

TypeOK ==
    /\ status \in [Jobs -> Statuses]
    /\ queuedAt \in [Jobs -> Nat]
    /\ clock \in Nat
    /\ stale \in SUBSET Jobs
    /\ startedBy \in [Jobs -> Nat]
    /\ lastRun \in [Jobs -> Nat]
    /\ calls \in [CallIds -> Call \cup {NoCall}]
    /\ reapList \in SUBSET Jobs
    /\ faults \in Nat
    /\ agentUp \in BOOLEAN
    /\ batch \in SUBSET [job : Jobs, queued : Nat]
    /\ worker \in [Workers -> Busy \cup {Idle}]
    /\ KM!KMTypeOK

Init ==
    /\ status = [j \in Jobs |-> "none"]
    /\ queuedAt = [j \in Jobs |-> 0]
    /\ clock = 0
    /\ stale = {}
    /\ startedBy = [j \in Jobs |-> 0]
    /\ lastRun = [j \in Jobs |-> 0]
    /\ calls = [c \in CallIds |-> NoCall]
    /\ reapList = {}
    /\ faults = 0
    /\ agentUp = TRUE
    /\ batch = {}
    /\ worker = [w \in Workers |-> Idle]
    /\ KM!KMInit

-----------------------------------------------------------------------------
(* Calls.                                                                  *)

InFlight == {c \in CallIds : calls[c] # NoCall}

Send(c, op, j, q, v, from) ==
    /\ calls[c] = NoCall
    /\ calls' = [calls EXCEPT ![c] =
          [op |-> op, job |-> j, queued |-> q, verdict |-> v,
           from |-> from, stage |-> "sent"]]

Arrived(c, op) == calls[c] # NoCall /\ calls[c].op = op /\ calls[c].stage = "sent"

Goto(w, pc) == worker' = [worker EXCEPT ![w].pc = pc]

(* How a worker goes on once its call returned without error.              *)
Returned(w) == IF worker[w].pc = "starting" THEN "exec" ELSE "unlock"

-----------------------------------------------------------------------------
(* The server: rows of the jobs table.                                     *)

(* The columns every queueing writes: status queued, a new queued_at, and  *)
(* started_at and finished_at null.                                        *)
Queue(j) ==
    /\ clock' = clock + 1
    /\ status' = [status EXCEPT ![j] = "queued"]
    /\ queuedAt' = [queuedAt EXCEPT ![j] = clock + 1]
    /\ stale' = stale \ {j}
    /\ startedBy' = [startedBy EXCEPT ![j] = 0]

(* The bound on queueings, counting the retries that are under way.        *)
MayQueue ==
    clock + Cardinality({c \in InFlight : calls[c].op = "retry"}) < MaxClock

(* JobService.Create, on behalf of an operator or a scheduled worker.      *)
Create(j) ==
    /\ status[j] = "none"
    /\ MayQueue
    /\ Queue(j)
    /\ UNCHANGED <<lastRun, calls, reapList, faults, agentVars>>

(* JobHandler.Retry up to its status check.  The answer of GetByID is not  *)
(* looked at again before the row is written.                              *)
RetryCheck(j, c) ==
    /\ status[j] \in Retryable
    /\ MayQueue
    /\ Send(c, "retry", j, 0, "none", "user")
    /\ UNCHANGED <<rowVars, lastRun, reapList, faults, agentVars>>

(* MetricsCollectWorker.Run and ApplicationHealthCheckWorker.Run up to the *)
(* check of the latest job: anything but a queued one is retried.          *)
PeriodicCheck(j, c) ==
    /\ j \in Periodic
    /\ status[j] \notin {"none", "queued"}
    /\ MayQueue
    /\ \A d \in InFlight : ~(calls[d].from = "scheduler" /\ calls[d].job = j)
    /\ Send(c, "retry", j, 0, "none", "scheduler")
    /\ UNCHANGED <<rowVars, lastRun, reapList, faults, agentVars>>

(* JobRepository.Retry: an UPDATE by id, whatever the row's status.        *)
Requeue(c) ==
    /\ Arrived(c, "retry")
    /\ Queue(calls[c].job)
    /\ calls' = [calls EXCEPT ![c] = NoCall]
    /\ UNCHANGED <<lastRun, reapList, faults, agentVars>>

(* JobRepository.MarkRunning: only a queued row changes, and a row that is *)
(* not queued is returned without an error.                                *)
MarkRunning(c) ==
    /\ Arrived(c, "start")
    /\ LET j == calls[c].job IN
       \/ /\ status[j] = "queued"
          /\ status' = [status EXCEPT ![j] = "running"]
          /\ startedBy' = [startedBy EXCEPT ![j] = calls[c].queued]
       \/ /\ status[j] # "queued"
          /\ UNCHANGED <<status, startedBy>>
    /\ calls' = [calls EXCEPT ![c].stage = "done"]
    /\ UNCHANGED <<queuedAt, clock, stale, lastRun, reapList, faults, agentVars>>

(* Mutant: the UPDATE has no condition on the status.                      *)
MarkFinishedAlways(c) ==
    /\ Arrived(c, "finish")
    /\ status' = [status EXCEPT ![calls[c].job] = calls[c].verdict]
    /\ stale' = stale \ {calls[c].job}
    /\ calls' = [calls EXCEPT ![c].stage = "done"]
    /\ UNCHANGED <<queuedAt, clock, startedBy, lastRun, reapList, faults,
                   agentVars>>

(* JobRepository.MarkFinished: only a running row changes.                 *)
MarkFinished(c) ==
    /\ Arrived(c, "finish")
    /\ LET j == calls[c].job IN
       \/ /\ status[j] = "running"
          /\ status' = [status EXCEPT ![j] = calls[c].verdict]
          /\ stale' = stale \ {j}
       \/ /\ status[j] # "running"
          /\ UNCHANGED <<status, stale>>
    /\ calls' = [calls EXCEPT ![c].stage = "done"]
    /\ UNCHANGED <<queuedAt, clock, startedBy, lastRun, reapList, faults,
                   agentVars>>

(* The events are published and the call returns to whoever waits for it:  *)
(* after StartJob the worker enters the executor.                          *)
Reply(c) ==
    /\ calls[c] # NoCall
    /\ calls[c].stage = "done"
    /\ calls' = [calls EXCEPT ![c] = NoCall]
    /\ LET w == calls[c].from IN
       \/ /\ w \in Workers
          /\ Goto(w, Returned(w))
          /\ lastRun' = IF worker[w].pc = "starting"
                        THEN [lastRun EXCEPT ![worker[w].job] = worker[w].queued]
                        ELSE lastRun
       \/ /\ w \notin Workers
          /\ UNCHANGED <<worker, lastRun>>
    /\ UNCHANGED <<rowVars, reapList, faults, agentUp, batch, kmVars>>

(* Mutant: a worker whose request failed is never told.                    *)
CallFailsSilently(c) ==
    /\ calls[c] # NoCall
    /\ calls[c].stage = "sent"
    /\ calls' = [calls EXCEPT ![c] = NoCall]
    /\ calls[c].from # "gone" /\ faults < MaxFaults
    /\ faults' = faults + 1
    /\ UNCHANGED <<rowVars, lastRun, reapList, agentVars>>

(* The request is lost or the statement fails: nothing changed, and the    *)
(* caller, if there still is one, sees an error.                           *)
CallFails(c) ==
    /\ calls[c] # NoCall
    /\ calls[c].stage = "sent"
    /\ calls' = [calls EXCEPT ![c] = NoCall]
    /\ \/ /\ calls[c].from = "gone"
          /\ UNCHANGED <<faults, worker>>
       \/ /\ calls[c].from # "gone"
          /\ faults < MaxFaults
          /\ faults' = faults + 1
          /\ \/ calls[c].from \in Workers /\ Goto(calls[c].from, "unlock")
             \/ calls[c].from \notin Workers /\ UNCHANGED worker
    /\ UNCHANGED <<rowVars, lastRun, reapList, agentUp, batch, kmVars>>

(* Mutant: the answer is given to the worker of that name, whoever asked.  *)
OrphanedKeepsCaller(call) == call

(* A call without its caller: the server sees the request's context end    *)
(* and fails the statement, or it had read the request and carries on.     *)
Orphaned(call) ==
    IF call.stage = "sent" /\ ~OrphansServed
    THEN NoCall ELSE [call EXCEPT !.from = "gone"]

(* The agent's HTTP client gives up; the server may still do the work.     *)
ClientTimeout(c) ==
    /\ faults < MaxFaults
    /\ faults' = faults + 1
    /\ calls[c] # NoCall
    /\ calls[c].from \in Workers
    /\ calls' = [calls EXCEPT ![c] = Orphaned(calls[c])]
    /\ Goto(calls[c].from, "unlock")
    /\ UNCHANGED <<rowVars, lastRun, reapList, agentUp, batch, kmVars>>

-----------------------------------------------------------------------------
(* Time and the reaper.                                                    *)

(* Mutant: the job timeouts exceed reapAfter.                              *)
BoundedByCallsOnly(j) ==
    \E c \in InFlight : calls[c].job = j /\ calls[c].op # "retry"

(* A run of j that the clock of the agent bounds well below reapAfter:     *)
(* the executor has a timeout per job type, a request has one too.  After  *)
(* the executor the worker waits until every buffered log line was sent,   *)
(* with a context that is never cancelled.                                 *)
Bounded(j) ==
    \/ \E w \in Workers : /\ worker[w].job = j
                         /\ \/ worker[w].pc = "exec"
                            \/ worker[w].pc = "drain" /\ DrainBounded
    \/ \E c \in InFlight : calls[c].job = j /\ calls[c].op # "retry"

(* started_at of a running row gets older than reapAfter.                  *)
Age(j) ==
    /\ status[j] = "running"
    /\ j \notin stale
    /\ ~Bounded(j)
    /\ stale' = stale \cup {j}
    /\ UNCHANGED <<status, queuedAt, clock, startedBy, lastRun, calls, reapList,
                   faults, agentVars>>

(* The n elements of S queued last, and the n queued first.                *)
Newest(S, n) ==
    {j \in S : Cardinality({k \in S : queuedAt[k] > queuedAt[j]}) < n}
Oldest(S, n) ==
    {j \in S : Cardinality({k \in S : queuedAt[k] < queuedAt[j]}) < n}

ReaperIdle == reapList = {} /\ \A c \in InFlight : calls[c].from # "reaper"

(* Mutant: the comparison with reapAfter is inverted.                      *)
ReapScanYoung ==
    /\ ReaperIdle
    /\ reapList' = Newest({j \in Jobs : status[j] = "running"}, ReapLimit) \ stale
    /\ reapList' # {}
    /\ UNCHANGED <<rowVars, lastRun, calls, faults, agentVars>>

(* JobReaperWorker.Run: one listing of running rows, newest first and      *)
(* limited, of which those that started too long ago are kept ...          *)
ReapScan ==
    /\ ReaperIdle
    /\ reapList' = stale \cap Newest({j \in Jobs : status[j] = "running"}, ReapLimit)
    /\ reapList' # {}
    /\ UNCHANGED <<rowVars, lastRun, calls, faults, agentVars>>

(* ... and finished as failed, one after the other, by their id only.      *)
ReapNext(j, c) ==
    /\ j \in reapList
    /\ \A d \in InFlight : calls[d].from # "reaper"
    /\ reapList' = reapList \ {j}
    /\ Send(c, "finish", j, 0, "failed", "reaper")
    /\ UNCHANGED <<rowVars, lastRun, faults, agentVars>>

-----------------------------------------------------------------------------
(* The agent process.                                                      *)

(* Mutant: the poll loop does not wait for the workers of the last batch.  *)
PollWithoutWaiting ==
    /\ agentUp
    /\ batch = {}
    /\ LET queued == {j \in Jobs : status[j] = "queued"} IN
       /\ queued # {}
       /\ batch' = {[job |-> j, queued |-> queuedAt[j]] : j \in Oldest(queued, PollLimit)}
    /\ UNCHANGED <<rowVars, lastRun, calls, reapList, faults, agentUp, worker,
                   kmVars>>

(* pollAndExecuteJobs: one batch at a time, and no poll before every       *)
(* worker of the last batch is done (wg.Wait).                             *)
Poll ==
    /\ agentUp
    /\ batch = {}
    /\ \A w \in Workers : worker[w] = Idle
    /\ LET queued == {j \in Jobs : status[j] = "queued"} IN
       /\ queued # {}
       /\ batch' = {[job |-> j, queued |-> queuedAt[j]] : j \in Oldest(queued, PollLimit)}
    /\ UNCHANGED <<rowVars, lastRun, calls, reapList, faults, agentUp, worker,
                   kmVars>>

(* A worker receives the next job of jobCh.                                *)
Take(w) ==
    /\ worker[w] = Idle
    /\ \E b \in batch :
          /\ \A d \in batch : b.queued <= d.queued
          /\ batch' = batch \ {b}
          /\ worker' = [worker EXCEPT ![w] =
                [pc |-> IF AppOf[b.job] = NoKey THEN "start" ELSE "lock",
                 job |-> b.job, queued |-> b.queued, verdict |-> "none"]]
    /\ UNCHANGED <<rowVars, lastRun, calls, reapList, faults, agentUp, kmVars>>

(* processJob: appLocks.Lock for an application's job.                     *)
LookupLock(w) ==
    /\ worker[w].pc = "lock"
    /\ KM!Lookup(w, AppOf[worker[w].job])
    /\ UNCHANGED <<rowVars, lastRun, calls, reapList, faults, agentUp, batch,
                   worker>>

AcquireLock(w) ==
    /\ worker[w].pc = "lock"
    /\ KM!Acquire(w)
    /\ Goto(w, "start")
    /\ UNCHANGED <<rowVars, lastRun, calls, reapList, faults, agentUp, batch>>

(* processJob: StartJob.                                                   *)
SendStart(w, c) ==
    /\ worker[w].pc = "start"
    /\ Send(c, "start", worker[w].job, worker[w].queued, "none", w)
    /\ Goto(w, "starting")
    /\ UNCHANGED <<rowVars, lastRun, reapList, faults, agentUp, batch, kmVars>>

(* execute: the executor returns, in time or by its timeout ...            *)
Execute(w, v) ==
    /\ worker[w].pc = "exec"
    /\ worker' = [worker EXCEPT ![w] =
          [pc |-> "drain", job |-> @.job, queued |-> @.queued, verdict |-> v]]
    /\ UNCHANGED <<rowVars, lastRun, calls, reapList, faults, agentUp, batch,
                   kmVars>>

(* ... the buffered logs and commit info are sent, and FinishJob is called.*)
SendFinish(w, c) ==
    /\ worker[w].pc = "drain"
    /\ Send(c, "finish", worker[w].job, worker[w].queued, worker[w].verdict, w)
    /\ Goto(w, "finishing")
    /\ UNCHANGED <<rowVars, lastRun, reapList, faults, agentUp, batch, kmVars>>

(* processJob returns, on every path: the deferred unlock, in two steps.   *)
ReleaseLock(w) ==
    /\ worker[w].pc = "unlock"
    /\ KM!Unlock(w)
    /\ UNCHANGED <<rowVars, lastRun, calls, reapList, faults, agentUp, batch,
                   worker>>

Leave(w) ==
    /\ worker[w].pc = "unlock"
    /\ \/ AppOf[worker[w].job] = NoKey /\ UNCHANGED kmVars
       \/ AppOf[worker[w].job] # NoKey /\ KM!Cleanup(w)
    /\ worker' = [worker EXCEPT ![w] = Idle]
    /\ UNCHANGED <<rowVars, lastRun, calls, reapList, faults, agentUp, batch>>

(* The process dies, or is stopped: its context is cancelled, the calls it *)
(* waited for are on their own, and nothing it held in memory survives.    *)
Crash ==
    /\ agentUp
    /\ faults < MaxFaults
    /\ faults' = faults + 1
    /\ agentUp' = FALSE
    /\ batch' = {}
    /\ worker' = [w \in Workers |-> Idle]
    /\ calls' = [c \in CallIds |->
          IF calls[c] # NoCall /\ calls[c].from \in Workers
          THEN Orphaned(calls[c]) ELSE calls[c]]
    /\ locks' = [k \in Apps |-> NoMutex]
    /\ held' = {}
    /\ at' = [w \in Workers |-> "idle"]
    /\ want' = [w \in Workers |-> NoKey]
    /\ mref' = [w \in Workers |-> NoMutex]
    /\ UNCHANGED <<rowVars, lastRun, reapList>>

Restart ==
    /\ ~agentUp
    /\ agentUp' = TRUE
    /\ UNCHANGED <<rowVars, lastRun, calls, reapList, faults, batch, worker,
                   kmVars>>

-----------------------------------------------------------------------------

Request(j, c) == RetryCheck(j, c) \/ PeriodicCheck(j, c)

Serve(c) == Requeue(c) \/ MarkRunning(c) \/ MarkFinished(c) \/ Reply(c)

Fault(c) == CallFails(c) \/ ClientTimeout(c)

Advance(w) ==
    \/ Take(w) \/ LookupLock(w) \/ AcquireLock(w)
    \/ \E c \in CallIds : SendStart(w, c) \/ SendFinish(w, c)
    \/ \E v \in Verdicts : Execute(w, v)
    \/ ReleaseLock(w) \/ Leave(w)

Next ==
    \/ \E j \in Jobs : Create(j) \/ Age(j)
    \/ \E j \in Jobs, c \in CallIds : Request(j, c) \/ ReapNext(j, c)
    \/ \E c \in CallIds : Serve(c) \/ Fault(c)
    \/ ReapScan
    \/ Poll
    \/ \E w \in Workers : Advance(w)
    \/ Crash
    \/ Restart

Spec == Init /\ [][Next]_vars

(* What the code's schedulers keep doing: requests are served, the reaper  *)
(* and the poll loop tick, goroutines run, a stopped agent is restarted by *)
(* its service manager, and time passes.  Nothing obliges an operator or a *)
(* scheduled worker to queue anything, or a fault to happen.               *)
Fairness ==
    /\ \A c \in CallIds : WF_vars(Serve(c))
    /\ \A j \in Jobs : /\ WF_vars(Age(j))
                       /\ WF_vars(\E c \in CallIds : ReapNext(j, c))
    /\ WF_vars(ReapScan)
    /\ WF_vars(Poll)
    /\ WF_vars(Restart)
    /\ \A w \in Workers : WF_vars(Advance(w)) /\ SF_vars(AcquireLock(w))

FairSpec == Spec /\ Fairness

-----------------------------------------------------------------------------
(* Properties.                                                             *)

(* Every entry of the executor belongs to a queueing that was not run      *)
(* before: polls, lost answers, orphaned start calls, crashes, reaping and *)
(* retries in any order never make the agent run one queueing twice, though*)
(* MarkRunning (job_repo.go) reports no error for a row it did not start.  *)
EachQueueingRunsOnce ==
    [][\A w \in Workers :
          (worker[w].pc = "starting" /\ worker'[w].pc = "exec")
             => worker[w].queued > lastRun[worker[w].job]]_vars

(* The table keeps the promise of JobLifecycle: whatever calls arrive late,*)
(* twice or in any order, a verdict is never overwritten by another one and*)
(* no run begins but from the queue (the WHERE clauses of job_repo.go).    *)
Lifecycle == INSTANCE JobLifecycle
RowsFollowLifecycle == Lifecycle!Spec

(* A queued job that no scheduled worker re-queues gets a verdict, although*)
(* answers get lost and the agent may crash with jobs in its hands: the    *)
(* reaper ends what nobody finishes (job_reaper_worker.go).                *)
QueuedJobsSettle ==
    \A j \in Jobs \ Periodic :
        (status[j] = "queued") ~> (status[j] \in Verdicts)

(* The agent is never locked out of its queue: every batch ends, so there  *)
(* is always another poll (wg.Wait in pollAndExecuteJobs).                 *)
BatchesEnd == []<>(batch = {} /\ \A w \in Workers : worker[w] = Idle)

(* An agent's verdict that changes a row is the verdict of the run that    *)
(* set its started_at: FinishJob carries a job id only, and yet no report  *)
(* of an older run finishes a newer one (MarkFinished, job_repo.go), as    *)
(* long as no request outlives its caller.                                 *)
VerdictIsOfThisRun ==
    [][\A c \in CallIds :
          LET call == calls[c] IN
          (/\ call # NoCall
           /\ call.op = "finish" /\ call.stage = "sent"
           /\ call.from # "reaper"
           /\ status[call.job] = "running"
           /\ status'[call.job] \in Verdicts
           /\ calls'[c] = [call EXCEPT !.stage = "done"])
             => call.queued = startedBy[call.job]]_vars

(* The retry handler's promise (job_handler.go, "Only terminal failures    *)
(* can be retried."): the row it re-queues is in a terminal failure.       *)
OnlyFailuresRetried ==
    [][\A c \in CallIds :
          (/\ Arrived(c, "retry") /\ calls[c].from = "user"
           /\ queuedAt'[calls[c].job] # queuedAt[calls[c].job])
             => status[calls[c].job] \in Retryable]_vars

(* The reaper's premise (job_reaper_worker.go, the comment of the type): a *)
(* row it finds running for too long is in the hands of no agent any more. *)
ReapedJobsAreAbandoned ==
    \A j \in stale : \A w \in Workers :
        worker[w].job = j => worker[w].pc \notin {"exec", "drain", "finishing"}

(* processJob's promise (job_worker.go, the comment of appLocks): no two   *)
(* workers are inside the executor for the same application.               *)
OneRunPerApp ==
    \A v, w \in Workers :
        (/\ v # w
         /\ worker[v].pc = "exec" /\ worker[w].pc = "exec"
         /\ AppOf[worker[v].job] # NoKey)
           => AppOf[worker[v].job] # AppOf[worker[w].job]

=============================================================================
