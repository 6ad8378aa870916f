--------------------------- MODULE JobQueue_proofs ---------------------------
(***************************************************************************)
(* For any number of jobs, applications, workers, calls and faults: the    *)
(* job queue keeps its types, its rows follow JobLifecycle, its keyed mutex*)
(* never leaks an entry, and no queueing of a job is executed twice.       *)
(*                                                                         *)
(* Beside the types, the invariant has four parts.  KMP!KMInv is that of   *)
(* the keyed mutex: a step is one of its steps, none, or (Crash) starts    *)
(* it afresh.  Handshake relates a worker that waits for an answer to the  *)
(* one call of it.  OneItemPerJob says that the agent holds a job at most  *)
(* once, which is what the wait for the last batch achieves.  Fresh relates*)
(* what the agent holds, and what a start call has done, to the row.       *)
(*                                                                         *)
(* Then: what excludes runs of one application, and what it depends on     *)
(* (RunsExclude); under the timing assumptions, whom the reaper fails and  *)
(* whose verdict a row bears; and that no worker of a batch is stuck.      *)
(***************************************************************************)
EXTENDS JobQueue, TLAPS

KMP == INSTANCE KeyedMutex_proofs WITH Threads <- Workers, Keys <- Apps

FromWorker(c) == calls[c] # NoCall /\ calls[c].from \in Workers

(* A worker that waits for an answer, and no other, has a call of its own, *)
(* for the job it works on; a finish call carries a verdict, and a retry is*)
(* not waited for.                                                         *)
Handshake ==
    /\ \A c \in CallIds : FromWorker(c) =>
          LET w == calls[c].from IN
          /\ worker[w].pc = (IF calls[c].op = "start" THEN "starting"
                                                      ELSE "finishing")
          /\ calls[c].op # "retry"
          /\ calls[c].job = worker[w].job
          /\ calls[c].queued = worker[w].queued
    /\ \A c, d \in CallIds :
          (FromWorker(c) /\ FromWorker(d) /\ calls[c].from = calls[d].from)
             => c = d
    /\ \A c \in CallIds : calls[c] # NoCall =>
          /\ calls[c].op = "finish" => calls[c].verdict \in Verdicts
          /\ calls[c].op = "retry" => calls[c].stage = "sent"
    /\ \A w \in Workers : worker[w].pc \in {"drain", "finishing"}
             => worker[w].verdict \in Verdicts
    /\ \A w \in Workers : worker[w].pc = "lock" => AppOf[worker[w].job] \in Apps

(* The agent holds a job once: in its batch or in the hands of one worker. *)
OneItemPerJob ==
    /\ \A b, d \in batch : b.job = d.job => b = d
    /\ \A b \in batch, w \in Workers : worker[w] # Idle => worker[w].job # b.job
    /\ \A v, w \in Workers :
          (worker[v] # Idle /\ worker[w] # Idle /\ worker[v].job = worker[w].job)
             => v = w

(* A queueing the executor has begun is not one a queued row, a batch or a *)
(* worker before the executor still stands for; and once a start call was  *)
(* carried out the row is not queued, unless it was queued anew.           *)
Fresh ==
    /\ \A j \in Jobs : /\ lastRun[j] <= queuedAt[j] /\ queuedAt[j] <= clock
                       /\ status[j] = "queued" => lastRun[j] < queuedAt[j]
    /\ \A b \in batch : /\ lastRun[b.job] < b.queued
                        /\ b.queued <= queuedAt[b.job]
    /\ \A w \in Workers : worker[w].pc \in {"lock", "start", "starting"} =>
          /\ lastRun[worker[w].job] < worker[w].queued
          /\ worker[w].queued <= queuedAt[worker[w].job]
    /\ \A c \in CallIds :
          (/\ FromWorker(c) /\ calls[c].op = "start" /\ calls[c].stage = "done"
           /\ status[calls[c].job] = "queued")
             => calls[c].queued < queuedAt[calls[c].job]

JQInv ==
    /\ TypeOK
    /\ KMP!KMInv
    /\ Handshake
    /\ OneItemPerJob
    /\ Fresh

-----------------------------------------------------------------------------
(* The keyed mutex.                                                        *)

(* What the proofs about the keyed mutex assume holds of its use here.     *)
LEMMA KeyedMutexUsed == KMP!KeyedMutexAssumption
BY JobQueueAssumption DEF JobQueueAssumption, KMP!KeyedMutexAssumption

(* A worker does to the keyed mutex what a goroutine may do, and nobody    *)
(* else does anything to it but a crash, after which it is empty again.    *)
LEMMA LockActions ==
  ASSUME Handshake, [Next]_vars
  PROVE  KMP!KMNext \/ UNCHANGED kmVars \/ Crash
<1>1. ASSUME NEW w \in Workers, Advance(w) PROVE KMP!KMNext \/ UNCHANGED kmVars
  <2>1. CASE LookupLock(w)
    BY <2>1 DEF LookupLock, Handshake, KMP!KMNext, KM!Lookup, KMP!Lookup,
       KM!Unreferenced, KMP!Unreferenced
  <2>2. CASE AcquireLock(w)
    BY <2>2 DEF AcquireLock, KMP!KMNext, KM!Acquire, KMP!Acquire
  <2>3. CASE ReleaseLock(w)
    BY <2>3 DEF ReleaseLock, KMP!KMNext, KM!Unlock, KMP!Unlock
  <2>4. CASE Leave(w)
    BY <2>4 DEF Leave, KMP!KMNext, KM!Cleanup, KMP!Cleanup, KM!TryLockMayFail,
       KMP!TryLockMayFail
  <2>5. CASE Take(w) \/ \E c \in CallIds : SendStart(w, c) \/ SendFinish(w, c)
    BY <2>5 DEF Take, SendStart, SendFinish
  <2>6. CASE \E v \in Verdicts : Execute(w, v)
    BY <2>6 DEF Execute
  <2> QED BY <1>1, <2>1, <2>2, <2>3, <2>4, <2>5, <2>6 DEF Advance
<1>2. Next => \/ Crash
              \/ \E w \in Workers : Advance(w)
              \/ UNCHANGED kmVars
  BY DEF Next, Request, Serve, Fault, Create, Age, RetryCheck, PeriodicCheck,
     ReapNext, Requeue, MarkRunning, MarkFinished, Reply, CallFails,
     ClientTimeout, ReapScan, Poll, Restart, agentVars
<1> QED BY <1>1, <1>2 DEF vars, agentVars

(* So its invariant holds here, and no mutex object has two holders.       *)
LEMMA LockStep ==
  ASSUME Handshake, KMP!KMInv, [Next]_vars
  PROVE  KMP!KMInv' /\ (KMP!KMExclusive => KMP!KMExclusive')
<1> USE JobQueueAssumption, KeyedMutexUsed
<1>1. CASE KMP!KMNext
  BY <1>1, KMP!KMInvInductive, KMP!KMExclusiveInductive
<1>2. CASE UNCHANGED kmVars
  BY <1>2, KMP!KMInvInductive, KMP!KMExclusiveInductive DEF kmVars, KMP!kmVars
<1>3. CASE Crash
  BY <1>3 DEF Crash, KMP!KMInv, KMP!KMTypeOK, KMP!CallersRefer, KMP!KMExclusive,
     KMP!OneKeyPerMutex, KMP!HeldHasHolder, KMP!NoOrphanEntry,
     JobQueueAssumption
<1> QED BY <1>1, <1>2, <1>3, LockActions

-----------------------------------------------------------------------------
(* Types.                                                                  *)

(* What is left of a call without its caller is a call, or nothing.        *)
LEMMA OrphanedType ==
  ASSUME NEW call \in Call, JobQueueAssumption
  PROVE  /\ Orphaned(call) \in Call \cup {NoCall}
         /\ Orphaned(call) # NoCall => /\ Orphaned(call).from = "gone"
                                      /\ Orphaned(call).op = call.op
                                      /\ Orphaned(call).job = call.job
                                      /\ Orphaned(call).stage = call.stage
                                      /\ Orphaned(call).verdict = call.verdict
<1>1. [call EXCEPT !.from = "gone"] \in Call
  BY DEF Call, Callers
<1>2. /\ [call EXCEPT !.from = "gone"].from = "gone"
      /\ [call EXCEPT !.from = "gone"].op = call.op
      /\ [call EXCEPT !.from = "gone"].job = call.job
      /\ [call EXCEPT !.from = "gone"].stage = call.stage
      /\ [call EXCEPT !.from = "gone"].verdict = call.verdict
  BY DEF Call
<1> QED BY <1>1, <1>2 DEF Orphaned

(* The jobs of a poll are among those it was offered.                      *)
LEMMA OldestIn == ASSUME NEW S, NEW n PROVE Oldest(S, n) \subseteq S
BY DEF Oldest

(* Every step keeps the types of the tables, the calls and the agent: a    *)
(* call returns to a worker that waits for it (Handshake), and a finish    *)
(* call writes a verdict (job_repo.go, MarkFinished).                      *)
LEMMA TypeStep ==
  ASSUME TypeOK, Handshake, KMP!KMInv, [Next]_vars
  PROVE  TypeOK'
<1> USE JobQueueAssumption
    DEF JobQueueAssumption, TypeOK, rowVars, agentVars, Statuses, Verdicts,
        Callers, Busy, Idle
<1>1. KM!KMTypeOK'
  BY LockStep DEF KMP!KMInv, KMP!KMTypeOK, KM!KMTypeOK
<1> USE <1>1
<1>2. ASSUME NEW j \in Jobs, Queue(j) PROVE
      /\ status' \in [Jobs -> Statuses] /\ queuedAt' \in [Jobs -> Nat]
      /\ clock' \in Nat /\ stale' \in SUBSET Jobs
      /\ startedBy' \in [Jobs -> Nat]
  BY <1>2 DEF Queue
<1>3. ASSUME NEW c \in CallIds, NEW op \in {"start", "finish", "retry"},
             NEW j \in Jobs, NEW q \in Nat, NEW v \in Verdicts \cup {"none"},
             NEW from \in Callers, Send(c, op, j, q, v, from)
      PROVE  calls' \in [CallIds -> Call \cup {NoCall}]
  BY <1>3 DEF Send, Call
<1>4. ASSUME NEW w \in Workers, worker[w] # Idle,
             NEW pc \in {"lock", "start", "starting", "exec", "drain",
                         "finishing", "unlock"}, Goto(w, pc)
      PROVE  worker' \in [Workers -> Busy \cup {Idle}]
  BY <1>4 DEF Goto
<1>5. ASSUME NEW j \in Jobs, Create(j) PROVE TypeOK'
  BY <1>2, <1>5 DEF Create
<1>6. ASSUME NEW j \in Jobs, Age(j) PROVE TypeOK'
  BY <1>6 DEF Age
<1>7. ASSUME NEW j \in Jobs, NEW c \in CallIds, Request(j, c) PROVE TypeOK'
  BY <1>3, <1>7 DEF Request, RetryCheck, PeriodicCheck
<1>8. ASSUME NEW j \in Jobs, NEW c \in CallIds, ReapNext(j, c) PROVE TypeOK'
  BY <1>3, <1>8 DEF ReapNext
<1>9. ASSUME NEW c \in CallIds, Requeue(c) PROVE TypeOK'
  BY <1>2, <1>9 DEF Requeue, Arrived, Call
<1>10. ASSUME NEW c \in CallIds, MarkRunning(c) PROVE TypeOK'
  BY <1>10 DEF MarkRunning, Arrived, Call
<1>11. ASSUME NEW c \in CallIds, MarkFinished(c) PROVE TypeOK'
  BY <1>11 DEF MarkFinished, Arrived, Call, Handshake
<1>12. ASSUME NEW c \in CallIds, Reply(c) PROVE TypeOK'
  BY <1>12 DEF Reply, Goto, Returned, Call, Handshake, FromWorker
<1>13. ASSUME NEW c \in CallIds, CallFails(c) PROVE TypeOK'
  BY <1>13 DEF CallFails, Goto, Call, Handshake, FromWorker
<1>14. ASSUME NEW c \in CallIds, ClientTimeout(c) PROVE TypeOK'
  <2>1. Orphaned(calls[c]) \in Call \cup {NoCall}
    BY <1>14, OrphanedType DEF ClientTimeout
  <2>2. calls' \in [CallIds -> Call \cup {NoCall}]
    BY <1>14, <2>1 DEF ClientTimeout
  <2>3. worker' \in [Workers -> Busy \cup {Idle}]
    BY <1>14 DEF ClientTimeout, Goto, Handshake, FromWorker
  <2> QED BY <1>14, <2>2, <2>3 DEF ClientTimeout
<1>15. CASE ReapScan
  BY <1>15 DEF ReapScan, Newest
<1>16. CASE Poll
  <2>1. PICK S \in SUBSET Jobs :
            batch' = {[job |-> j, queued |-> queuedAt[j]] :
                         j \in Oldest(S, PollLimit)}
    BY <1>16 DEF Poll
  <2>2. batch' \in SUBSET [job : Jobs, queued : Nat]
    BY <2>1, OldestIn
  <2> QED BY <1>16, <2>2 DEF Poll
<1>17. ASSUME NEW w \in Workers, Take(w) PROVE TypeOK'
  BY <1>17 DEF Take
<1>18. ASSUME NEW w \in Workers, LookupLock(w) \/ ReleaseLock(w) PROVE TypeOK'
  BY <1>18 DEF LookupLock, ReleaseLock
<1>19. ASSUME NEW w \in Workers, AcquireLock(w) PROVE TypeOK'
  BY <1>4, <1>19 DEF AcquireLock
<1>20. ASSUME NEW w \in Workers, NEW c \in CallIds, SendStart(w, c)
       PROVE  TypeOK'
  BY <1>3, <1>4, <1>20 DEF SendStart
<1>21. ASSUME NEW w \in Workers, NEW c \in CallIds, SendFinish(w, c)
       PROVE  TypeOK'
  BY <1>3, <1>4, <1>21 DEF SendFinish
<1>22. ASSUME NEW w \in Workers, NEW v \in Verdicts, Execute(w, v)
       PROVE  TypeOK'
  BY <1>22 DEF Execute
<1>23. ASSUME NEW w \in Workers, Leave(w) PROVE TypeOK'
  BY <1>23 DEF Leave
<1>24. CASE Crash
  <2>1. calls' \in [CallIds -> Call \cup {NoCall}]
    BY <1>24, OrphanedType DEF Crash
  <2>2. worker' \in [Workers -> Busy \cup {Idle}]
    BY <1>24 DEF Crash
  <2>3. faults' = faults + 1 /\ agentUp' \in BOOLEAN /\ batch' = {}
    BY <1>24, Zenon DEF Crash
  <2>4. UNCHANGED <<rowVars, lastRun, reapList>>
    BY <1>24 DEF Crash
  <2> QED BY <2>1, <2>2, <2>3, <2>4
<1>25. CASE Restart
  BY <1>25 DEF Restart
<1>26. CASE UNCHANGED vars
  BY <1>26 DEF vars
<1> QED
  BY <1>5, <1>6, <1>7, <1>8, <1>9, <1>10, <1>11, <1>12, <1>13, <1>14, <1>15,
     <1>16, <1>17, <1>18, <1>19, <1>20, <1>21, <1>22, <1>23, <1>24, <1>25,
     <1>26
  DEF Next, Serve, Fault, Advance

-----------------------------------------------------------------------------
(* Calls and callers.                                                      *)

(* Every step keeps the hand-shake: a worker sends a call only when it has *)
(* none, and whatever ends its wait (an answer, an error, a timeout, a     *)
(* crash) also takes the call away from it or takes it away altogether.    *)
LEMMA HandshakeStep ==
  ASSUME TypeOK, Handshake, [Next]_vars
  PROVE  Handshake'
<1> USE JobQueueAssumption
    DEF JobQueueAssumption, TypeOK, Handshake, FromWorker, rowVars, agentVars,
        Verdicts, Callers, Call, Busy, Idle
<1>1. ASSUME UNCHANGED <<calls, worker>> PROVE Handshake'
  BY <1>1
<1>2. ASSUME NEW c \in CallIds, NEW op \in {"finish", "retry"}, NEW j \in Jobs,
             NEW v \in {"none", "failed"}, op = "finish" => v = "failed",
             NEW from \in {"user", "scheduler", "reaper"},
             Send(c, op, j, 0, v, from), UNCHANGED worker
      PROVE  Handshake'
  BY <1>2 DEF Send
<1>3. ASSUME NEW c \in CallIds, calls' = [calls EXCEPT ![c] = NoCall],
             UNCHANGED worker
      PROVE  Handshake'
  BY <1>3
<1>4. ASSUME NEW c \in CallIds, calls[c] # NoCall,
             calls[c].op # "retry",
             calls' = [calls EXCEPT ![c].stage = "done"], UNCHANGED worker
      PROVE  Handshake'
  BY <1>4
<1>5. ASSUME NEW c \in CallIds, FromWorker(c), NEW pc \in {"exec", "unlock"},
             \/ calls'[c] = NoCall
             \/ /\ calls'[c].from = "gone"
                /\ calls'[c].op = calls[c].op
                /\ calls'[c].stage = calls[c].stage
                /\ calls'[c].verdict = calls[c].verdict,
             \A d \in CallIds \ {c} : calls'[d] = calls[d],
             Goto(calls[c].from, pc)
      PROVE  Handshake'
  <2>1. \A w \in Workers \ {calls[c].from} : worker'[w] = worker[w]
    BY <1>5 DEF Goto
  <2>2. worker'[calls[c].from].pc = pc
    BY <1>5 DEF Goto
  <2>3. \A d \in CallIds : FromWorker(d)' =>
           /\ FromWorker(d) /\ calls'[d] = calls[d]
           /\ calls[d].from # calls[c].from
    BY <1>5
  <2>4. \A d \in CallIds : calls'[d] # NoCall =>
           /\ calls'[d].op = "finish" => calls'[d].verdict \in Verdicts
           /\ calls'[d].op = "retry" => calls'[d].stage = "sent"
    BY <1>5
  <2> QED BY <1>5, <2>1, <2>2, <2>3, <2>4
<1>6. ASSUME NEW w \in Workers, NEW c \in CallIds, SendStart(w, c)
      PROVE  Handshake'
  BY <1>6 DEF SendStart, Send, Goto
<1>7. ASSUME NEW w \in Workers, NEW c \in CallIds, SendFinish(w, c)
      PROVE  Handshake'
  BY <1>7 DEF SendFinish, Send, Goto
<1>8. ASSUME NEW w \in Workers, Take(w) PROVE Handshake'
  BY <1>8 DEF Take
<1>9. ASSUME NEW w \in Workers, NEW v \in Verdicts, Execute(w, v)
      PROVE  Handshake'
  BY <1>9 DEF Execute
<1>10. ASSUME NEW w \in Workers, AcquireLock(w) PROVE Handshake'
  BY <1>10 DEF AcquireLock, Goto
<1>11. ASSUME NEW w \in Workers, Leave(w) PROVE Handshake'
  BY <1>11 DEF Leave
<1>12. CASE Crash
  BY <1>12, OrphanedType DEF Crash
<1>13. ASSUME NEW c \in CallIds, Reply(c) PROVE Handshake'
  BY <1>3, <1>5, <1>13 DEF Reply, Returned
<1>14. ASSUME NEW c \in CallIds, CallFails(c) PROVE Handshake'
  BY <1>3, <1>5, <1>14 DEF CallFails
<1>15. ASSUME NEW c \in CallIds, ClientTimeout(c) PROVE Handshake'
  BY <1>5, <1>15, OrphanedType DEF ClientTimeout
<1>16. ASSUME NEW c \in CallIds, Serve(c) PROVE Handshake'
  BY <1>3, <1>4, <1>13, <1>16
  DEF Serve, Requeue, MarkRunning, MarkFinished, Arrived
<1>17. ASSUME NEW j \in Jobs, NEW c \in CallIds, Request(j, c) \/ ReapNext(j, c)
       PROVE  Handshake'
  BY <1>2, <1>17 DEF Request, RetryCheck, PeriodicCheck, ReapNext
<1>18. ASSUME NEW j \in Jobs, Create(j) \/ Age(j) PROVE Handshake'
  BY <1>1, <1>18 DEF Create, Age
<1>19. CASE ReapScan \/ Poll \/ Restart \/ UNCHANGED vars
  BY <1>1, <1>19 DEF ReapScan, Poll, Restart, vars
<1>20. ASSUME NEW w \in Workers, Advance(w) PROVE Handshake'
  BY <1>1, <1>6, <1>7, <1>8, <1>9, <1>10, <1>11, <1>20
  DEF Advance, LookupLock, ReleaseLock
<1> QED BY <1>12, <1>14, <1>15, <1>16, <1>17, <1>18, <1>19, <1>20
        DEF Next, Fault

-----------------------------------------------------------------------------
(* What the agent holds.                                                   *)

(* Every step keeps a job at one place of the agent: a new batch is fetched*)
(* when the last one is done, and lists a job once (pollAndExecuteJobs).   *)
LEMMA OneItemStep ==
  ASSUME TypeOK, Handshake, OneItemPerJob, [Next]_vars
  PROVE  OneItemPerJob'
<1> USE JobQueueAssumption
    DEF JobQueueAssumption, TypeOK, OneItemPerJob, rowVars, agentVars, Verdicts,
        Busy, Idle
<1>1. ASSUME UNCHANGED batch,
             \A w \in Workers : worker'[w] # Idle =>
                worker[w] # Idle /\ worker'[w].job = worker[w].job
      PROVE  OneItemPerJob'
  BY <1>1
<1>2. ASSUME NEW w \in Workers, worker[w] # Idle, NEW pc, Goto(w, pc),
             UNCHANGED batch
      PROVE  OneItemPerJob'
  BY <1>1, <1>2 DEF Goto
<1>3. CASE Poll
  <2>1. PICK S \in SUBSET Jobs :
            batch' = {[job |-> j, queued |-> queuedAt[j]] :
                         j \in Oldest(S, PollLimit)}
    BY <1>3 DEF Poll
  <2>2. \A w \in Workers : worker'[w] = Idle
    BY <1>3 DEF Poll
  <2> QED BY <2>1, <2>2
<1>4. ASSUME NEW w \in Workers, Take(w) PROVE OneItemPerJob'
  BY <1>4 DEF Take
<1>5. ASSUME NEW w \in Workers, Leave(w) PROVE OneItemPerJob'
  BY <1>1, <1>5 DEF Leave
<1>6. ASSUME NEW w \in Workers, NEW v \in Verdicts, Execute(w, v)
      PROVE  OneItemPerJob'
  BY <1>1, <1>6 DEF Execute
<1>7. ASSUME NEW w \in Workers, Advance(w) PROVE OneItemPerJob'
  <2>1. CASE LookupLock(w) \/ ReleaseLock(w)
    BY <1>1, <2>1 DEF LookupLock, ReleaseLock
  <2>2. CASE AcquireLock(w)
    BY <1>2, <2>2 DEF AcquireLock
  <2>3. CASE \E c \in CallIds : SendStart(w, c) \/ SendFinish(w, c)
    BY <1>2, <2>3 DEF SendStart, SendFinish
  <2> QED BY <1>4, <1>5, <1>6, <1>7, <2>1, <2>2, <2>3 DEF Advance
<1>8. CASE Crash
  BY <1>8 DEF Crash
<1>9. ASSUME NEW c \in CallIds, Reply(c) PROVE OneItemPerJob'
  BY <1>1, <1>2, <1>9 DEF Reply, Handshake, FromWorker
<1>10. ASSUME NEW c \in CallIds, Fault(c) PROVE OneItemPerJob'
  BY <1>1, <1>2, <1>10
  DEF Fault, CallFails, ClientTimeout, Handshake, FromWorker
<1>11. ASSUME NEW c \in CallIds, Serve(c) PROVE OneItemPerJob'
  BY <1>1, <1>9, <1>11 DEF Serve, Requeue, MarkRunning, MarkFinished
<1>12. ASSUME NEW j \in Jobs, NEW c \in CallIds, Request(j, c) \/ ReapNext(j, c)
       PROVE  OneItemPerJob'
  BY <1>1, <1>12 DEF Request, RetryCheck, PeriodicCheck, ReapNext
<1>13. ASSUME NEW j \in Jobs, Create(j) \/ Age(j) PROVE OneItemPerJob'
  BY <1>1, <1>13 DEF Create, Age
<1>14. CASE ReapScan \/ Restart \/ UNCHANGED vars
  BY <1>1, <1>14 DEF ReapScan, Restart, vars
<1> QED BY <1>3, <1>7, <1>8, <1>10, <1>11, <1>12, <1>13, <1>14 DEF Next

(* Every step keeps what is queued, polled or on its way to the executor   *)
(* newer than what the executor has begun: a new queueing gets a number of *)
(* its own, and a start call takes the row out of the queue, if it still is*)
(* the row the agent polled (job_repo.go, MarkRunning).                    *)
LEMMA FreshStep ==
  ASSUME TypeOK, Handshake, OneItemPerJob, Fresh, [Next]_vars
  PROVE  Fresh'
<1> USE JobQueueAssumption
    DEF JobQueueAssumption, TypeOK, Handshake, FromWorker, OneItemPerJob, Fresh,
        rowVars, agentVars, Verdicts, Callers, Call, Busy, Idle
<1>1. ASSUME NEW j \in Jobs, Queue(j), UNCHANGED <<lastRun, batch, worker>>,
             \A c \in CallIds : calls'[c] = NoCall \/ calls'[c] = calls[c]
      PROVE  Fresh'
  BY <1>1 DEF Queue
<1>2. ASSUME NEW c \in CallIds, MarkRunning(c) PROVE Fresh'
  BY <1>2 DEF MarkRunning, Arrived
<1>3. ASSUME NEW c \in CallIds, MarkFinished(c) PROVE Fresh'
  BY <1>3 DEF MarkFinished, Arrived
<1>4. ASSUME NEW c \in CallIds, Reply(c) PROVE Fresh'
  BY <1>4 DEF Reply, Goto, Returned
<1>5. CASE Poll
  <2>1. PICK S \in SUBSET Jobs :
           /\ \A j \in S : status[j] = "queued"
           /\ batch' = {[job |-> j, queued |-> queuedAt[j]] :
                           j \in Oldest(S, PollLimit)}
    BY <1>5 DEF Poll
  <2>2. \A b \in batch' : lastRun[b.job] < b.queued /\ b.queued <= queuedAt[b.job]
    BY <2>1, OldestIn
  <2> QED BY <1>5, <2>2 DEF Poll
<1>6. ASSUME NEW w \in Workers, Take(w) PROVE Fresh'
  BY <1>6 DEF Take
<1>7. ASSUME UNCHANGED <<status, queuedAt, clock, lastRun>>, batch' \subseteq batch,
             \A w \in Workers : worker'[w].pc \in {"lock", "start", "starting"} =>
                /\ worker[w].pc \in {"lock", "start", "starting"}
                /\ worker'[w].job = worker[w].job
                /\ worker'[w].queued = worker[w].queued,
             \A c \in CallIds : \/ calls'[c] = NoCall \/ calls'[c] = calls[c]
                                \/ calls'[c].stage = "sent"
                                \/ calls'[c].from = "gone"
      PROVE  Fresh'
  BY <1>7
<1>8. ASSUME NEW w \in Workers, Advance(w) PROVE Fresh'
  <2>1. ASSUME NEW pc, worker[w].pc \in {"lock", "start"} \/ pc = "finishing",
               Goto(w, pc)
        PROVE  \A v \in Workers : worker'[v].pc \in {"lock", "start", "starting"} =>
                /\ worker[v].pc \in {"lock", "start", "starting"}
                /\ worker'[v].job = worker[v].job
                /\ worker'[v].queued = worker[v].queued
    BY <2>1 DEF Goto
  <2>2. CASE LookupLock(w) \/ ReleaseLock(w)
    BY <1>7, <2>2 DEF LookupLock, ReleaseLock
  <2>3. CASE AcquireLock(w)
    BY <1>7, <2>1, <2>3 DEF AcquireLock
  <2>4. CASE \E c \in CallIds : SendStart(w, c) \/ SendFinish(w, c)
    BY <1>7, <2>1, <2>4 DEF SendStart, SendFinish, Send
  <2>5. CASE Leave(w) \/ \E v \in Verdicts : Execute(w, v)
    BY <1>7, <2>5 DEF Leave, Execute
  <2> QED BY <1>6, <1>8, <2>2, <2>3, <2>4, <2>5 DEF Advance
<1>9. CASE Crash
  BY <1>7, <1>9, OrphanedType DEF Crash
<1>10. ASSUME NEW c \in CallIds, Fault(c) PROVE Fresh'
  BY <1>7, <1>10, OrphanedType DEF Fault, CallFails, ClientTimeout, Goto
<1>11. ASSUME NEW c \in CallIds, Serve(c) PROVE Fresh'
  BY <1>1, <1>2, <1>3, <1>4, <1>11 DEF Serve, Requeue, Arrived
<1>12. ASSUME NEW j \in Jobs, NEW c \in CallIds, Request(j, c) \/ ReapNext(j, c)
       PROVE  Fresh'
  BY <1>7, <1>12 DEF Request, RetryCheck, PeriodicCheck, ReapNext, Send
<1>13. ASSUME NEW j \in Jobs, Create(j) \/ Age(j) PROVE Fresh'
  BY <1>1, <1>7, <1>13 DEF Create, Age
<1>14. CASE ReapScan \/ Restart \/ UNCHANGED vars
  BY <1>7, <1>14 DEF ReapScan, Restart, vars
<1> QED BY <1>5, <1>8, <1>9, <1>10, <1>11, <1>12, <1>13, <1>14 DEF Next

-----------------------------------------------------------------------------
(* The theorems.                                                           *)

(* Every step does to a row what JobLifecycle allows (job_repo.go, Retry,  *)
(* MarkRunning and MarkFinished), or nothing.                              *)
LEMMA RowStep ==
  ASSUME TypeOK, Handshake, [Next]_vars
  PROVE  [Lifecycle!Next]_status
<1> USE DEF TypeOK, Lifecycle!Next, rowVars, agentVars
<1>1. ASSUME NEW j \in Jobs, Queue(j) PROVE Lifecycle!Next
  BY <1>1 DEF Queue, Lifecycle!Enqueue
<1>2. ASSUME NEW c \in CallIds, MarkRunning(c) PROVE [Lifecycle!Next]_status
  BY <1>2 DEF MarkRunning, Arrived, Call, Lifecycle!Begin
<1>3. ASSUME NEW c \in CallIds, MarkFinished(c) PROVE [Lifecycle!Next]_status
  BY <1>3 DEF MarkFinished, Arrived, Call, Handshake, Verdicts,
                  Lifecycle!End, Lifecycle!Verdicts
<1>4. ASSUME NEW c \in CallIds, Serve(c) PROVE [Lifecycle!Next]_status
  BY <1>1, <1>2, <1>3, <1>4 DEF Serve, Requeue, Arrived, Reply, Call
<1>5. ASSUME NEW j \in Jobs, Create(j) PROVE [Lifecycle!Next]_status
  BY <1>1, <1>5 DEF Create
<1>6. \/ \E c \in CallIds : Serve(c)
      \/ \E j \in Jobs : Create(j)
      \/ UNCHANGED status
  BY DEF Next, vars, Age, Request, RetryCheck, PeriodicCheck, ReapNext, Fault,
      CallFails, ClientTimeout, ReapScan, Poll, Advance, Take, LookupLock,
      AcquireLock, SendStart, SendFinish, Execute, ReleaseLock, Leave, Crash,
      Restart
<1> QED BY <1>4, <1>5, <1>6

(* JQInv is inductive.                                                     *)
LEMMA JQInvInductive ==
  /\ Init => JQInv
  /\ JQInv /\ [Next]_vars => JQInv'
<1>1. ASSUME Init PROVE JQInv
  <2>1. KMP!KMInv /\ KM!KMTypeOK
    BY <1>1, KMP!KMInvInductive, KeyedMutexUsed
    DEF Init, KM!KMInit, KMP!KMInit, KM!KMTypeOK, KMP!KMTypeOK, KMP!KMInv
  <2>2. TypeOK
    BY <1>1, <2>1 DEF Init, TypeOK, Statuses
  <2>3. Handshake /\ OneItemPerJob /\ Fresh
    BY <1>1 DEF Init, Handshake, FromWorker, OneItemPerJob, Fresh, Idle
  <2> QED BY <2>1, <2>2, <2>3 DEF JQInv
<1>2. ASSUME JQInv, [Next]_vars PROVE JQInv'
  BY <1>2, LockStep, TypeStep, HandshakeStep, OneItemStep, FreshStep DEF JQInv
<1> QED BY <1>1, <1>2

LEMMA JQInvariant == Spec => []JQInv
BY JQInvInductive, PTL DEF Spec

(* For every number of jobs, workers, calls and faults: the columns of the *)
(* jobs table, the calls and the agent's goroutines keep their types; in   *)
(* particular an answer finds its worker waiting (processJob in            *)
(* job_worker.go), and FinishJob writes a verdict.                         *)
THEOREM TypeCorrect == Spec => []TypeOK
<1>1. JQInv => TypeOK
  BY DEF JQInv
<1> QED BY <1>1, JQInvariant, PTL

(* For every number of jobs, workers, calls and faults, whatever is lost,  *)
(* served late or queued again: the agent's executor (execute in           *)
(* job_worker.go) never begins the same queueing of a job twice, although  *)
(* StartJob succeeds on a row that is not queued.                          *)
THEOREM RunsOnce == Spec => EachQueueingRunsOnce
<1>1. JQInv /\ [Next]_vars =>
        [\A w \in Workers :
           (worker[w].pc = "starting" /\ worker'[w].pc = "exec")
              => worker[w].queued > lastRun[worker[w].job]]_vars
  <2> SUFFICES ASSUME JQInv, NEW w \in Workers, worker[w].pc = "starting"
               PROVE  worker[w].queued > lastRun[worker[w].job]
    OBVIOUS
  <2> QED BY DEF JQInv, Fresh, TypeOK, Busy, Idle
<1> QED BY <1>1, JQInvariant, PTL DEF Spec, EachQueueingRunsOnce

(* For every number of jobs, workers, calls and faults: the UPDATE         *)
(* statements of job_repo.go implement JobLifecycle, so that a run begins  *)
(* only from the queue and a verdict ends only a run.                      *)
THEOREM FollowsLifecycle == Spec => RowsFollowLifecycle
<1>1. Init => Lifecycle!Init
  BY DEF Init, Lifecycle!Init
<1>2. JQInv /\ [Next]_vars => [Lifecycle!Next]_status
  BY RowStep DEF JQInv
<1> QED BY <1>1, <1>2, JQInvariant, PTL
        DEF Spec, RowsFollowLifecycle, Lifecycle!Spec

(* For every number of workers and applications, crashes included: the map *)
(* of appLocks (job_worker.go) keeps no entry that no worker will clean up.*)
THEOREM NoLockLeak == Spec => []KM!NoOrphanEntry
<1>1. JQInv => KM!NoOrphanEntry
  BY DEF JQInv, KMP!KMInv, KMP!NoOrphanEntry, KM!NoOrphanEntry
<1> QED BY <1>1, JQInvariant, PTL

-----------------------------------------------------------------------------
(* The executor and the mutexes of the applications (appLocks).            *)

(* A worker holds a mutex of its job's application from the start call to  *)
(* the deferred unlock, on every path of processJob, and none otherwise.   *)
WorkersHold ==
    \A w \in Workers :
        LET item == worker[w] IN
        IF item = Idle \/ AppOf[item.job] = NoKey THEN at[w] = "idle"
        ELSE /\ at[w] \in CASE item.pc = "lock" -> {"idle", "waiting"}
                            [] item.pc = "unlock" -> {"holding", "released"}
                            [] OTHER -> {"holding"}
             /\ at[w] # "idle" => want[w] = AppOf[item.job]

(* Another worker's clean-up has dropped the entry a run was let in by.    *)
RunLostItsEntry ==
    \E w \in Workers : /\ worker[w].pc = "exec"
                       /\ AppOf[worker[w].job] # NoKey
                       /\ locks[AppOf[worker[w].job]] # mref[w]

(* Every step keeps it: who takes a job is in no call of the mutex, who    *)
(* looks up asks for the job's application, and only Leave ends the job.   *)
LEMMA WorkersHoldStep ==
  ASSUME TypeOK, Handshake, WorkersHold, [Next]_vars
  PROVE  WorkersHold'
<1> USE JobQueueAssumption
    DEF JobQueueAssumption, TypeOK, WorkersHold, KM!KMTypeOK, rowVars, agentVars, kmVars,
        Busy, Idle
<1>1. ASSUME UNCHANGED <<worker, at, want>> PROVE WorkersHold'
  BY <1>1
<1>2. ASSUME NEW w \in Workers, NEW pc, Goto(w, pc), UNCHANGED <<at, want>>,
             worker[w].pc \notin {"idle", "lock", "unlock"}, pc \notin {"idle", "lock"}
      PROVE  WorkersHold'
  BY <1>2 DEF Goto
<1>3. ASSUME NEW w \in Workers, Take(w) PROVE WorkersHold'
  BY <1>3 DEF Take
<1>4. ASSUME NEW w \in Workers, LookupLock(w) PROVE WorkersHold'
  BY <1>4 DEF LookupLock, KM!Lookup, Handshake
<1>5. ASSUME NEW w \in Workers, AcquireLock(w) PROVE WorkersHold'
  BY <1>5 DEF AcquireLock, KM!Acquire, Goto, Handshake
<1>6. ASSUME NEW w \in Workers, NEW c \in CallIds, SendStart(w, c) \/ SendFinish(w, c)
      PROVE  WorkersHold'
  BY <1>2, <1>6 DEF SendStart, SendFinish
<1>7. ASSUME NEW w \in Workers, NEW v \in Verdicts, Execute(w, v) PROVE WorkersHold'
  BY <1>7 DEF Execute
<1>8. ASSUME NEW w \in Workers, ReleaseLock(w) PROVE WorkersHold'
  BY <1>8 DEF ReleaseLock, KM!Unlock
<1>9. ASSUME NEW w \in Workers, Leave(w) PROVE WorkersHold'
  BY <1>9 DEF Leave, KM!Cleanup
<1>10. ASSUME NEW c \in CallIds, Serve(c) \/ Fault(c) PROVE WorkersHold'
  <2>1. calls[c] # NoCall /\ calls[c].from \in Workers =>
           worker[calls[c].from].pc \in {"starting", "finishing"}
    BY DEF Handshake, FromWorker
  <2>2. CASE Requeue(c) \/ MarkRunning(c) \/ MarkFinished(c)
    BY <1>1, <2>2 DEF Requeue, MarkRunning, MarkFinished
  <2>3. CASE Reply(c)
    BY <1>1, <1>2, <2>1, <2>3 DEF Reply, Returned
  <2>4. CASE Fault(c)
    BY <1>1, <1>2, <2>1, <2>4 DEF Fault, CallFails, ClientTimeout
  <2> QED BY <1>10, <2>2, <2>3, <2>4 DEF Serve
<1>11. CASE Crash
  BY <1>11 DEF Crash
<1>12. ASSUME NEW j \in Jobs, NEW c \in CallIds, Request(j, c) \/ ReapNext(j, c)
       PROVE  WorkersHold'
  BY <1>1, <1>12 DEF Request, RetryCheck, PeriodicCheck, ReapNext
<1>13. ASSUME NEW j \in Jobs, Create(j) \/ Age(j) PROVE WorkersHold'
  BY <1>1, <1>13 DEF Create, Age
<1>14. CASE ReapScan \/ Poll \/ Restart \/ UNCHANGED vars
  BY <1>1, <1>14 DEF ReapScan, Poll, Restart, vars
<1> QED BY <1>3, <1>4, <1>5, <1>6, <1>7, <1>8, <1>9, <1>10, <1>11, <1>12, <1>13, <1>14
        DEF Next, Advance

LEMMA WorkersHoldInvariant == Spec => [](WorkersHold /\ KMP!KMExclusive)
<1>1. Init => WorkersHold /\ KMP!KMExclusive
  BY KMP!KMExclusiveInductive, KeyedMutexUsed
  DEF Init, WorkersHold, KM!KMInit, KMP!KMInit
<1>2. JQInv /\ WorkersHold /\ KMP!KMExclusive /\ [Next]_vars
         => (WorkersHold /\ KMP!KMExclusive)'
  BY WorkersHoldStep, LockStep DEF JQInv
<1> QED BY <1>1, <1>2, JQInvariant, PTL DEF Spec

(* For every number of workers, jobs and applications: two jobs of one     *)
(* application run at once, against the comment of appLocks                *)
(* (job_worker.go), only if another worker's clean-up has dropped the lock *)
(* entry that one of them had been let in by.                              *)
THEOREM RunsExclude == Spec => [](OneRunPerApp \/ RunLostItsEntry)
<1>1. WorkersHold /\ KMP!KMExclusive => OneRunPerApp \/ RunLostItsEntry
  BY DEF WorkersHold, KMP!KMExclusive, OneRunPerApp, RunLostItsEntry, Idle
<1> QED BY <1>1, WorkersHoldInvariant, PTL

-----------------------------------------------------------------------------
(***************************************************************************)
(* What the job queue guarantees when the timing its comments take for     *)
(* granted is given: the last logs of a job are sent in bounded time       *)
(* (DrainBounded) and no request outlives the caller that sent it          *)
(* (~OrphansServed).  Then the reaper takes abandoned jobs only, and a     *)
(* report ends the run it is about.                                        *)
(*                                                                         *)
(* The key is that a row the agent polled stays queued until the start call*)
(* of the very worker that holds it (StillQueued): no older start call is  *)
(* left to carry out, and the agent holds a job once.                      *)
(***************************************************************************)

(* Who calls what, and nothing an orphan asked for is still to be done.    *)
Senders ==
    \A c \in CallIds : calls[c] # NoCall =>
        /\ calls[c].op = "start" => calls[c].from \in Workers \cup {"gone"}
        /\ calls[c].op = "finish" => calls[c].from \in Workers \cup {"gone", "reaper"}
        /\ calls[c].from = "gone" => calls[c].stage = "done"

(* A worker that waits for an answer has a call under way.                 *)
CallUnderWay ==
    \A w \in Workers : worker[w].pc \in {"starting", "finishing"} =>
        \E c \in CallIds : FromWorker(c) /\ calls[c].from = w

(* A polled row stays queued until its worker's start call is carried out. *)
StillQueued ==
    /\ \A b \in batch : status[b.job] = "queued"
    /\ \A w \in Workers : worker[w].pc \in {"lock", "start"} =>
          status[worker[w].job] = "queued"
    /\ \A c \in CallIds :
          (FromWorker(c) /\ calls[c].op = "start" /\ calls[c].stage = "sent")
             => status[calls[c].job] = "queued"

(* A row that is old is running, and nobody is at work on it.              *)
OldIsAbandoned ==
    /\ \A j \in stale : status[j] = "running"
    /\ \A w \in Workers : worker[w].pc \in {"starting", "exec", "drain", "finishing"}
          => worker[w].job \notin stale

(* While a worker is at work on a running row, it is its run.              *)
RunIsOurs ==
    /\ \A w \in Workers :
          (/\ worker[w].pc \in {"exec", "drain", "finishing"}
           /\ status[worker[w].job] = "running")
             => startedBy[worker[w].job] = worker[w].queued
    /\ \A c \in CallIds :
          (/\ FromWorker(c) /\ calls[c].op = "start" /\ calls[c].stage = "done"
           /\ status[calls[c].job] = "running")
             => startedBy[calls[c].job] = calls[c].queued

OwnRunInv == JQInv /\ Senders /\ StillQueued /\ RunIsOurs
AbandonedInv == CallUnderWay /\ OldIsAbandoned

-----------------------------------------------------------------------------

(* Only the worker that holds a row has a start call to be carried out.    *)
LEMMA StartIsOurs ==
  ASSUME TypeOK, Handshake, Senders, NEW c \in CallIds, Arrived(c, "start")
  PROVE  FromWorker(c)
BY JobQueueAssumption DEF TypeOK, Senders, Arrived, FromWorker, JobQueueAssumption,
   Call

(* Every step keeps the senders: Orphaned drops what has not been done.    *)
LEMMA SendersStep ==
  ASSUME ~OrphansServed, TypeOK, Handshake, Senders, [Next]_vars
  PROVE  Senders'
<1> USE JobQueueAssumption
    DEF JobQueueAssumption, TypeOK, Senders, Handshake, FromWorker, rowVars,
        agentVars, Callers, Call
<1>1. ASSUME \A c \in CallIds :
                \/ calls'[c] = NoCall
                \/ calls'[c] = calls[c]
                \/ /\ calls[c] # NoCall
                   /\ calls'[c].op = calls[c].op
                   /\ calls'[c].from = calls[c].from
                   /\ calls'[c].stage = "done"
      PROVE  Senders'
  BY <1>1
<1>2. ASSUME NEW c \in CallIds, Serve(c) PROVE Senders'
  BY <1>1, <1>2
  DEF Serve, Requeue, MarkRunning, MarkFinished, Reply, Arrived
<1>3. ASSUME NEW call \in Call, Orphaned(call) # NoCall
      PROVE  Orphaned(call).stage = "done"
  BY <1>3, OrphanedType DEF Orphaned
<1>4. CASE Crash
  BY <1>3, <1>4, OrphanedType DEF Crash
<1>5. ASSUME NEW c \in CallIds, Fault(c) PROVE Senders'
  BY <1>1, <1>3, <1>5, OrphanedType DEF Fault, CallFails, ClientTimeout
<1>6. ASSUME NEW j \in Jobs, NEW c \in CallIds, Request(j, c) \/ ReapNext(j, c)
      PROVE  Senders'
  BY <1>6 DEF Request, RetryCheck, PeriodicCheck, ReapNext, Send
<1>7. ASSUME NEW j \in Jobs, Create(j) \/ Age(j) PROVE Senders'
  BY <1>1, <1>7 DEF Create, Age
<1>8. CASE ReapScan \/ Poll \/ Restart \/ UNCHANGED vars
  BY <1>1, <1>8 DEF ReapScan, Poll, Restart, vars
<1>9. ASSUME NEW w \in Workers, NEW c \in CallIds,
             SendStart(w, c) \/ SendFinish(w, c)
      PROVE  Senders'
  BY <1>9 DEF SendStart, SendFinish, Send
<1>10. ASSUME NEW w \in Workers, Advance(w) PROVE Senders'
  BY <1>1, <1>9, <1>10
  DEF Advance, Take, LookupLock, AcquireLock, Execute, ReleaseLock, Leave
<1> QED BY <1>2, <1>4, <1>5, <1>6, <1>7, <1>8, <1>10 DEF Next

(* Every step keeps a call under way for a worker that waits.              *)
LEMMA CallUnderWayStep ==
  ASSUME TypeOK, Handshake, CallUnderWay, [Next]_vars
  PROVE  CallUnderWay'
<1> USE JobQueueAssumption
    DEF JobQueueAssumption, TypeOK, CallUnderWay, Handshake, FromWorker, rowVars,
        agentVars, Call, Busy, Idle
<1>1. ASSUME \A w \in Workers : worker'[w].pc \in {"starting", "finishing"} =>
                /\ worker[w].pc \in {"starting", "finishing"}
                /\ \A c \in CallIds : (calls[c] # NoCall /\ calls[c].from = w)
                      => calls'[c] # NoCall /\ calls'[c].from = w
      PROVE  CallUnderWay'
  BY <1>1
<1>2. ASSUME NEW c \in CallIds, NEW pc \in {"exec", "unlock"}, FromWorker(c),
             Goto(calls[c].from, pc),
             \A d \in CallIds \ {c} : calls'[d] = calls[d]
      PROVE  CallUnderWay'
  <2>1. \A w \in Workers : worker'[w].pc \in {"starting", "finishing"} =>
           w # calls[c].from /\ worker'[w] = worker[w]
    BY <1>2 DEF Goto
  <2> QED BY <1>1, <1>2, <2>1
<1>3. ASSUME UNCHANGED worker, NEW c \in CallIds,
             \A d \in CallIds \ {c} : calls'[d] = calls[d],
             calls[c] = NoCall \/ calls[c].from \notin Workers
      PROVE  CallUnderWay'
  BY <1>1, <1>3
<1>4. ASSUME NEW c \in CallIds, Serve(c) PROVE CallUnderWay'
  <2>1. CASE Requeue(c)
    BY <1>3, <2>1 DEF Requeue, Arrived
  <2>2. CASE MarkRunning(c) \/ MarkFinished(c)
    <3>1. calls'[c] # NoCall /\ calls'[c].from = calls[c].from
      BY <2>2, NoCallAssumption DEF MarkRunning, MarkFinished, Arrived
    <3> QED BY <1>1, <2>2, <3>1 DEF MarkRunning, MarkFinished
  <2>3. CASE Reply(c)
    BY <1>2, <1>3, <2>3 DEF Reply, Returned
  <2> QED BY <1>4, <2>1, <2>2, <2>3 DEF Serve
<1>5. ASSUME NEW c \in CallIds, Fault(c) PROVE CallUnderWay'
  BY <1>2, <1>3, <1>5 DEF Fault, CallFails, ClientTimeout
<1>6. ASSUME NEW j \in Jobs, NEW c \in CallIds, Request(j, c) \/ ReapNext(j, c)
      PROVE  CallUnderWay'
  BY <1>3, <1>6 DEF Request, RetryCheck, PeriodicCheck, ReapNext, Send
<1>7. CASE Crash
  BY <1>7 DEF Crash
<1>8. ASSUME NEW j \in Jobs, Create(j) \/ Age(j) PROVE CallUnderWay'
  BY <1>1, <1>8 DEF Create, Age
<1>9. CASE ReapScan \/ Poll \/ Restart \/ UNCHANGED vars
  BY <1>1, <1>9 DEF ReapScan, Poll, Restart, vars
<1>10. ASSUME NEW w \in Workers, NEW c \in CallIds,
              SendStart(w, c) \/ SendFinish(w, c)
       PROVE  CallUnderWay'
  <2>1. FromWorker(c)' /\ calls'[c].from = w
    BY <1>10, NoCallAssumption DEF SendStart, SendFinish, Send, Callers, Verdicts
  <2>2. \A v \in Workers \ {w} : worker'[v] = worker[v]
    BY <1>10 DEF SendStart, SendFinish, Goto
  <2>3. calls[c] = NoCall /\ \A d \in CallIds \ {c} : calls'[d] = calls[d]
    BY <1>10 DEF SendStart, SendFinish, Send
  <2> QED BY <2>1, <2>2, <2>3
<1>11. ASSUME NEW w \in Workers, Advance(w) PROVE CallUnderWay'
  BY <1>1, <1>10, <1>11
  DEF Advance, Take, LookupLock, AcquireLock, Execute, ReleaseLock, Leave, Goto
<1> QED BY <1>4, <1>5, <1>6, <1>7, <1>8, <1>9, <1>11 DEF Next

(* Every step keeps a polled row queued: a start call that is carried out  *)
(* comes from the one worker that holds the row (MarkRunning, job_repo.go).*)
LEMMA StillQueuedStep ==
  ASSUME TypeOK, Handshake, OneItemPerJob, Senders, StillQueued, [Next]_vars
  PROVE  StillQueued'
<1> USE JobQueueAssumption
    DEF JobQueueAssumption, TypeOK, StillQueued, Handshake, FromWorker, rowVars,
        agentVars, Call, Busy, Idle
<1>1. ASSUME \A j \in Jobs : status[j] = "queued" => status'[j] = "queued",
             batch' \subseteq batch,
             \A w \in Workers : worker'[w].pc \in {"lock", "start"} =>
                /\ worker[w].pc \in {"lock", "start"}
                /\ worker'[w].job = worker[w].job,
             \A c \in CallIds : \/ calls'[c] = NoCall \/ calls'[c] = calls[c]
                                \/ calls'[c].stage = "done"
                                \/ calls'[c].op # "start"
      PROVE  StillQueued'
  BY <1>1
<1>2. ASSUME NEW c \in CallIds, MarkRunning(c) PROVE StillQueued'
  <2> DEFINE j == calls[c].job
  <2>1. FromWorker(c)
    BY <1>2, StartIsOurs DEF MarkRunning
  <2>2. \A i \in Jobs \ {j} : status'[i] = status[i]
    BY <1>2 DEF MarkRunning
  <2>3. \A b \in batch : b.job # j
    BY <1>2, <2>1 DEF MarkRunning, Arrived, OneItemPerJob
  <2>4. \A w \in Workers : worker[w].pc \in {"lock", "start"} => worker[w].job # j
    BY <1>2, <2>1 DEF MarkRunning, Arrived, OneItemPerJob
  <2>5. \A d \in CallIds \ {c} : FromWorker(d) => calls[d].job # j
    BY <1>2, <2>1 DEF MarkRunning, Arrived, OneItemPerJob
  <2>6. /\ UNCHANGED <<batch, worker>>
        /\ calls'[c].stage = "done"
        /\ \A d \in CallIds \ {c} : calls'[d] = calls[d]
    BY <1>2 DEF MarkRunning
  <2> QED BY <2>2, <2>3, <2>4, <2>5, <2>6
<1>3. ASSUME NEW c \in CallIds, Serve(c) PROVE StillQueued'
  BY <1>1, <1>2, <1>3
  DEF Serve, Requeue, Queue, MarkFinished, Arrived, Reply, Goto, Returned
<1>4. ASSUME NEW c \in CallIds, Fault(c) PROVE StillQueued'
  BY <1>1, <1>4, OrphanedType DEF Fault, CallFails, ClientTimeout, Goto
<1>5. ASSUME NEW j \in Jobs, NEW c \in CallIds, Request(j, c) \/ ReapNext(j, c)
      PROVE  StillQueued'
  BY <1>1, <1>5 DEF Request, RetryCheck, PeriodicCheck, ReapNext, Send
<1>6. ASSUME NEW j \in Jobs, Create(j) \/ Age(j) PROVE StillQueued'
  BY <1>1, <1>6 DEF Create, Queue, Age
<1>7. CASE Crash
  BY <1>7, OrphanedType DEF Crash
<1>8. CASE Poll
  <2>1. PICK S \in SUBSET Jobs :
           /\ \A j \in S : status[j] = "queued"
           /\ batch' = {[job |-> j, queued |-> queuedAt[j]] :
                           j \in Oldest(S, PollLimit)}
    BY <1>8 DEF Poll
  <2>2. \A b \in batch' : status[b.job] = "queued"
    BY <2>1, OldestIn
  <2> QED BY <1>8, <2>2 DEF Poll
<1>9. ASSUME NEW w \in Workers, Take(w) PROVE StillQueued'
  BY <1>9 DEF Take
<1>10. ASSUME NEW w \in Workers, NEW c \in CallIds,
              SendStart(w, c) \/ SendFinish(w, c)
       PROVE  StillQueued'
  BY <1>10 DEF SendStart, SendFinish, Send, Goto
<1>11. ASSUME NEW w \in Workers, Advance(w) PROVE StillQueued'
  BY <1>1, <1>9, <1>10, <1>11
  DEF Advance, LookupLock, AcquireLock, Execute, ReleaseLock, Leave, Goto
<1>12. CASE ReapScan \/ Restart \/ UNCHANGED vars
  BY <1>1, <1>12 DEF ReapScan, Restart, vars
<1> QED BY <1>3, <1>4, <1>5, <1>6, <1>7, <1>8, <1>11, <1>12 DEF Next

(* Every step keeps old rows abandoned: a row ages only when neither the   *)
(* executor, the sending of its logs nor a request is at work on it.       *)
LEMMA OldStep ==
  ASSUME DrainBounded, TypeOK, Handshake, CallUnderWay, StillQueued,
         OldIsAbandoned, [Next]_vars
  PROVE  OldIsAbandoned'
<1> USE JobQueueAssumption
    DEF JobQueueAssumption, TypeOK, OldIsAbandoned, rowVars, agentVars, Busy, Idle
<1>1. ASSUME stale' \subseteq stale,
             \A j \in stale' : status'[j] = "running",
             \A w \in Workers :
                worker'[w].pc \in {"starting", "exec", "drain", "finishing"} =>
                   /\ worker[w].pc \in {"starting", "exec", "drain", "finishing"}
                   /\ worker'[w].job = worker[w].job
      PROVE  OldIsAbandoned'
  BY <1>1
<1>2. ASSUME NEW j \in Jobs, Age(j) PROVE OldIsAbandoned'
  <2>1. \A w \in Workers :
           worker[w].pc \in {"starting", "exec", "drain", "finishing"}
              => worker[w].job # j
    BY <1>2 DEF Age, Bounded, InFlight, CallUnderWay, Handshake, FromWorker
  <2> QED BY <1>2, <2>1 DEF Age
<1>3. ASSUME NEW c \in CallIds, Serve(c) PROVE OldIsAbandoned'
  BY <1>1, <1>3
  DEF Serve, Requeue, Queue, MarkRunning, MarkFinished, Arrived, Reply, Goto,
      Returned, Handshake, FromWorker, Call
<1>4. ASSUME NEW c \in CallIds, Fault(c) PROVE OldIsAbandoned'
  BY <1>1, <1>4 DEF Fault, CallFails, ClientTimeout, Goto
<1>5. ASSUME NEW j \in Jobs, NEW c \in CallIds, Request(j, c) \/ ReapNext(j, c)
      PROVE  OldIsAbandoned'
  BY <1>1, <1>5 DEF Request, RetryCheck, PeriodicCheck, ReapNext
<1>6. ASSUME NEW j \in Jobs, Create(j) PROVE OldIsAbandoned'
  BY <1>1, <1>6 DEF Create, Queue
<1>7. ASSUME NEW w \in Workers, NEW c \in CallIds, SendStart(w, c)
      PROVE  OldIsAbandoned'
  BY <1>7 DEF SendStart, Goto, StillQueued
<1>8. ASSUME NEW w \in Workers, Advance(w) PROVE OldIsAbandoned'
  BY <1>1, <1>7, <1>8
  DEF Advance, Take, LookupLock, AcquireLock, SendFinish, Execute, ReleaseLock,
      Leave, Goto
<1>9. CASE ReapScan \/ Poll \/ Crash \/ Restart \/ UNCHANGED vars
  BY <1>1, <1>9 DEF ReapScan, Poll, Crash, Restart, vars
<1> QED BY <1>2, <1>3, <1>4, <1>5, <1>6, <1>8, <1>9 DEF Next

(* Every step keeps a run its worker's own: the start call that begins it  *)
(* is that of the worker, and only a queueing takes the row back.          *)
LEMMA RunIsOursStep ==
  ASSUME TypeOK, Handshake, OneItemPerJob, Senders, StillQueued, RunIsOurs,
         [Next]_vars
  PROVE  RunIsOurs'
<1> USE JobQueueAssumption
    DEF JobQueueAssumption, TypeOK, RunIsOurs, Handshake, FromWorker, rowVars,
        agentVars, Verdicts, Call, Busy, Idle
<1>1. ASSUME \A j \in Jobs : status'[j] = "running" =>
                status[j] = "running" /\ startedBy'[j] = startedBy[j],
             \A w \in Workers : worker'[w].pc \in {"exec", "drain", "finishing"} =>
                /\ worker[w].pc \in {"exec", "drain", "finishing"}
                /\ worker'[w].job = worker[w].job
                /\ worker'[w].queued = worker[w].queued,
             \A c \in CallIds : \/ calls'[c] = NoCall \/ calls'[c] = calls[c]
                                \/ calls'[c].stage = "sent"
                                \/ calls'[c].op # "start"
                                \/ calls'[c].from = "gone"
      PROVE  RunIsOurs'
  BY <1>1
<1>2. ASSUME NEW c \in CallIds, MarkRunning(c) PROVE RunIsOurs'
  <2> DEFINE j == calls[c].job
  <2>1. FromWorker(c) /\ status[j] = "queued"
    BY <1>2, StartIsOurs DEF MarkRunning, Arrived, StillQueued
  <2>2. startedBy'[j] = calls[c].queued
    BY <1>2, <2>1 DEF MarkRunning
  <2>3. \A i \in Jobs \ {j} : status'[i] = status[i] /\ startedBy'[i] = startedBy[i]
    BY <1>2 DEF MarkRunning
  <2>4. \A w \in Workers : worker[w].pc \in {"exec", "drain", "finishing"}
           => worker[w].job # j
    BY <1>2, <2>1 DEF MarkRunning, Arrived, OneItemPerJob
  <2>5. \A d \in CallIds \ {c} : FromWorker(d) => calls[d].job # j
    BY <1>2, <2>1 DEF MarkRunning, Arrived, OneItemPerJob
  <2>6. /\ UNCHANGED worker
        /\ calls'[c].job = j /\ calls'[c].queued = calls[c].queued
        /\ \A d \in CallIds \ {c} : calls'[d] = calls[d]
    BY <1>2 DEF MarkRunning
  <2> QED BY <2>2, <2>3, <2>4, <2>5, <2>6
<1>3. ASSUME NEW c \in CallIds, MarkFinished(c) PROVE RunIsOurs'
  BY <1>1, <1>3 DEF MarkFinished, Arrived
<1>4. ASSUME NEW c \in CallIds, Reply(c) PROVE RunIsOurs'
  BY <1>4 DEF Reply, Goto, Returned
<1>5. ASSUME NEW c \in CallIds, Serve(c) PROVE RunIsOurs'
  BY <1>1, <1>2, <1>3, <1>4, <1>5 DEF Serve, Requeue, Queue, Arrived
<1>6. ASSUME NEW c \in CallIds, Fault(c) PROVE RunIsOurs'
  BY <1>1, <1>6, OrphanedType DEF Fault, CallFails, ClientTimeout, Goto
<1>7. ASSUME NEW j \in Jobs, NEW c \in CallIds, Request(j, c) \/ ReapNext(j, c)
      PROVE  RunIsOurs'
  BY <1>1, <1>7 DEF Request, RetryCheck, PeriodicCheck, ReapNext, Send
<1>8. ASSUME NEW j \in Jobs, Create(j) \/ Age(j) PROVE RunIsOurs'
  BY <1>1, <1>8 DEF Create, Queue, Age
<1>9. ASSUME NEW w \in Workers, NEW c \in CallIds,
             SendStart(w, c) \/ SendFinish(w, c)
      PROVE  RunIsOurs'
  BY <1>1, <1>9 DEF SendStart, SendFinish, Send, Goto
<1>10. ASSUME NEW w \in Workers, Advance(w) PROVE RunIsOurs'
  BY <1>1, <1>9, <1>10
  DEF Advance, Take, LookupLock, AcquireLock, Execute, ReleaseLock, Leave, Goto
<1>11. CASE Crash
  BY <1>1, <1>11, OrphanedType DEF Crash
<1>12. CASE ReapScan \/ Poll \/ Restart \/ UNCHANGED vars
  BY <1>1, <1>12 DEF ReapScan, Poll, Restart, vars
<1> QED BY <1>5, <1>6, <1>7, <1>8, <1>10, <1>11, <1>12 DEF Next

-----------------------------------------------------------------------------
(* The theorems.                                                           *)

(* OwnRunInv is inductive when requests die with their callers, and        *)
(* AbandonedInv with it when the last logs are sent in bounded time.       *)
LEMMA OwnRunInvariant ==
  ASSUME ~OrphansServed
  PROVE  Spec => []OwnRunInv
<1>1. Init => OwnRunInv
  BY JQInvInductive
  DEF Init, OwnRunInv, Senders, StillQueued, RunIsOurs, FromWorker, Idle
<1>2. OwnRunInv /\ [Next]_vars => OwnRunInv'
  BY JQInvInductive, SendersStep, StillQueuedStep, RunIsOursStep
  DEF JQInv, OwnRunInv
<1> QED BY <1>1, <1>2, PTL DEF Spec

LEMMA AbandonedInvariant ==
  ASSUME DrainBounded, ~OrphansServed
  PROVE  Spec => []AbandonedInv
<1>1. Init => AbandonedInv
  BY DEF Init, AbandonedInv, CallUnderWay, OldIsAbandoned, FromWorker, Idle
<1>2. OwnRunInv /\ AbandonedInv /\ [Next]_vars => AbandonedInv'
  BY CallUnderWayStep, OldStep DEF JQInv, OwnRunInv, AbandonedInv
<1> QED BY <1>1, <1>2, OwnRunInvariant, PTL DEF Spec

(* For every number of jobs, workers, calls and faults, given the two      *)
(* timing assumptions: the premise of the reaper's comment                 *)
(* (job_reaper_worker.go) is right, no worker of a running agent is at work*)
(* on a row that is old enough to be failed.                               *)
THEOREM ReapsAbandoned ==
  ASSUME DrainBounded, ~OrphansServed
  PROVE  Spec => []ReapedJobsAreAbandoned
<1>1. AbandonedInv => ReapedJobsAreAbandoned
  BY DEF AbandonedInv, OldIsAbandoned, ReapedJobsAreAbandoned
<1> QED BY <1>1, AbandonedInvariant, PTL

(* For every number of jobs, workers, calls and faults, as long as requests*)
(* die with their callers: FinishJob (job_worker.go) never ends a run other*)
(* than the one it reports on, although it names the job only.             *)
THEOREM VerdictsMatch ==
  ASSUME ~OrphansServed
  PROVE  Spec => VerdictIsOfThisRun
<1>1. OwnRunInv =>
        \A c \in CallIds :
          (/\ calls[c] # NoCall
           /\ calls[c].op = "finish" /\ calls[c].stage = "sent"
           /\ calls[c].from # "reaper"
           /\ status[calls[c].job] = "running")
             => calls[c].queued = startedBy[calls[c].job]
  BY DEF OwnRunInv, JQInv, TypeOK, Call, Handshake, FromWorker, Senders, RunIsOurs
<1>2. OwnRunInv /\ [Next]_vars =>
        [\A c \in CallIds :
          LET call == calls[c] IN
          (/\ call # NoCall
           /\ call.op = "finish" /\ call.stage = "sent"
           /\ call.from # "reaper"
           /\ status[call.job] = "running"
           /\ status'[call.job] \in Verdicts
           /\ calls'[c] = [call EXCEPT !.stage = "done"])
             => call.queued = startedBy[call.job]]_vars
  BY <1>1
<1> QED BY <1>2, OwnRunInvariant, PTL DEF Spec, VerdictIsOfThisRun

-----------------------------------------------------------------------------
(* What keeps the batches moving.                                          *)

(* A worker that is not idle can go on: its call is under way, its mutex is*)
(* free or in the hands of a worker past the lock, or it needs nobody.     *)
NobodyIsStuck ==
    \A w \in Workers : worker[w] # Idle =>
        /\ worker[w].pc \in {"starting", "finishing"} =>
              \E c \in CallIds : calls[c] # NoCall /\ calls[c].from = w
        /\ worker[w].pc = "lock" /\ at[w] = "waiting" /\ mref[w] \in held =>
              \E v \in Workers : /\ at[v] = "holding" /\ mref[v] = mref[w]
                                 /\ worker[v] # Idle /\ worker[v].pc # "lock"
        /\ worker[w].pc = "unlock" /\ AppOf[worker[w].job] # NoKey =>
              at[w] \in {"holding", "released"}

LEMMA CallsAreUnderWay == Spec => []CallUnderWay
<1>1. Init => CallUnderWay
  BY DEF Init, CallUnderWay, Idle
<1>2. JQInv /\ CallUnderWay /\ [Next]_vars => CallUnderWay'
  BY CallUnderWayStep DEF JQInv
<1> QED BY <1>1, <1>2, JQInvariant, PTL DEF Spec

(* For every number of workers, jobs and faults: no worker waits for an    *)
(* answer to a call that is gone, or for a mutex that a waiting worker or  *)
(* nobody holds; so nothing stands in the way of wg.Wait                   *)
(* (pollAndExecuteJobs in job_worker.go), which BatchesEnd says returns.   *)
THEOREM WorkersAreNotStuck == Spec => []NobodyIsStuck
<1>1. ASSUME JQInv, CallUnderWay, WorkersHold PROVE NobodyIsStuck
  <2> SUFFICES ASSUME NEW w \in Workers, worker[w] # Idle
               PROVE  /\ worker[w].pc \in {"starting", "finishing"} =>
                            \E c \in CallIds : calls[c] # NoCall /\ calls[c].from = w
                      /\ worker[w].pc = "lock" /\ at[w] = "waiting" /\ mref[w] \in held =>
                            \E v \in Workers : /\ at[v] = "holding" /\ mref[v] = mref[w]
                                               /\ worker[v] # Idle /\ worker[v].pc # "lock"
                      /\ worker[w].pc = "unlock" /\ AppOf[worker[w].job] # NoKey =>
                            at[w] \in {"holding", "released"}
    BY DEF NobodyIsStuck
  <2>1. ASSUME worker[w].pc \in {"starting", "finishing"}
        PROVE  \E c \in CallIds : calls[c] # NoCall /\ calls[c].from = w
    BY <1>1, <2>1 DEF CallUnderWay, FromWorker
  <2>2. ASSUME mref[w] \in held
        PROVE  \E v \in Workers : /\ at[v] = "holding" /\ mref[v] = mref[w]
                                  /\ worker[v] # Idle /\ worker[v].pc # "lock"
    <3>1. PICK v \in Workers : at[v] = "holding" /\ mref[v] = mref[w]
      BY <1>1, <2>2 DEF JQInv, KMP!KMInv, KMP!HeldHasHolder
    <3>2. worker[v] # Idle /\ worker[v].pc # "lock"
      BY <1>1, <3>1 DEF WorkersHold
    <3> QED BY <3>1, <3>2
  <2>3. ASSUME worker[w].pc = "unlock", AppOf[worker[w].job] # NoKey
        PROVE  at[w] \in {"holding", "released"}
    BY <1>1, <2>3 DEF WorkersHold
  <2> QED BY <2>1, <2>2, <2>3
<1> QED BY <1>1, JQInvariant, CallsAreUnderWay, WorkersHoldInvariant, PTL

=============================================================================
