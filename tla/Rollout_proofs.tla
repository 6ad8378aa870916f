--------------------------- MODULE Rollout_proofs ---------------------------
(***************************************************************************)
(* What deployments and rollbacks promise, for any number of orders,       *)
(* branches, variables, commits and mishaps: what a deployment's row says  *)
(* is what was served, restarts change nothing, and the diff view explains *)
(* what a deploy changed.                                                  *)
(***************************************************************************)
EXTENDS Rollout, FiniteSetTheorems, TLAPS

-----------------------------------------------------------------------------
(* The invariant.                                                          *)

Rolls(j) == order[j].kind \in {"deploy", "rollback"}
Deploys(j) == order[j].kind = "deploy"

(* What an order has written when it has got so far, and what of it stays. *)
OrderOf(j) ==
    /\ job[j] # "none" => stage[j] = "done"
    /\ stage[j] = "none" => dep[j].status = "none"
    /\ stage[j] = "read" => Rolls(j)
    /\ stage[j] = "row" => Deploys(j)
    /\ stage[j] \in {"job", "done"} /\ Deploys(j) => dep[j].snapshot = order[j].env
    /\ dep[j].status # "none" => Rolls(j)
    /\ dep[j].status = "success" => job[j] = "success"
    /\ dep[j].prev # 0 => /\ dep[dep[j].prev].status = "success"
                          /\ dep[dep[j].prev].id < dep[j].id
    /\ order[j].kind = "rollback" => order[j].tag \in Tags
    /\ Deploys(j) => order[j].branch \in Branches

OrdersGoForward ==
    /\ \A j \in Jobs : OrderOf(j)
    /\ IsFiniteSet({j \in Jobs : stage[j] # "none"})

(* A batch holds queued jobs, and the run is of a running one.             *)
OneRun ==
    /\ \A j \in batch : job[j] = "queued"
    /\ run.job # 0 => job[run.job] = "running"
    /\ run.job = 0 => run = NoRun

(* The steps of the pipelines, and which of them a job type takes.         *)
StepsOfTheirKind ==
    run.job # 0 =>
        /\ run.pc \in {"git", "head", "vars", "build"} => Deploys(run.job)
        /\ run.pc \in {"image", "up", "gate"} => Rolls(run.job)
        /\ run.pc = "power" => ~Rolls(run.job)
        /\ run.pc = "report" => run.verdict \in Verdicts
        /\ run.pc # "idle"

(* The commit a run has read is the one that is checked out, and what of it*)
(* is not in the row is still to be sent or was lost.                      *)
CommitIsCheckedOut ==
    run.job # 0 =>
        /\ run.pc = "head" => repo.head \in Commits
        /\ run.pc \in {"git", "head", "power"} => run.commit = 0
        /\ Deploys(run.job) /\ run.pc \in {"vars", "image", "build", "up", "gate"} =>
              repo.head = run.commit /\ run.commit \in Commits
        /\ run.info # 0 => run.info = run.commit
        /\ run.commit # 0 /\ run.info = 0 /\ run.job \notin untold =>
              dep[run.job].hash = run.commit

(* From the .env file to the containers: each step leaves what the next    *)
(* one reads.                                                              *)
WhatIsBuiltIsServed ==
    run.job # 0 =>
        /\ run.pc \in {"build", "up", "gate"} =>
              /\ left = NoStack
              /\ envFile.there /\ envFile.env = order[run.job].env
              /\ envFile.tag \in Tags
              /\ Deploys(run.job) => envFile.tag = FullTag(run.commit)
        /\ run.pc \in {"up", "gate"} /\ Deploys(run.job) => images[envFile.tag] = run.commit
        /\ run.pc = "gate" =>
              /\ stack.commit = images[envFile.tag] /\ stack.commit # 0
              /\ stack.env = envFile.env
        /\ run.pc = "report" /\ run.verdict = "success" /\ Rolls(run.job) =>
              /\ stack.up = "running" /\ stack.env = order[run.job].env
              /\ Deploys(run.job) => stack.commit = run.commit /\ run.commit # 0

(* The last good rollout can be made again from what it left on the host.  *)
GoodRolloutIsKept ==
    left # NoStack =>
        /\ envFile.there /\ envFile.tag \in Tags
        /\ envFile.env = left.env
        /\ images[envFile.tag] = left.commit /\ left.commit # 0

RolloutInv ==
    /\ RolloutTypeOK
    /\ OrdersGoForward
    /\ OneRun
    /\ StepsOfTheirKind
    /\ CommitIsCheckedOut
    /\ WhatIsBuiltIsServed
    /\ GoodRolloutIsKept
    /\ RestartChangesNothing

-----------------------------------------------------------------------------
(* The steps, by what they leave alone.                                    *)

UserStep ==
    \/ \E b \in Branches : Push(b) \/ SetBranch(b)
    \/ \E vars0 \in Environments : SyncEnvVars(vars0)
    \/ \E k \in VarNames, v \in Values \cup {Unset} : SetEnvVar(k, v)

OrderingStep(j) ==
    OrderDeploy(j) \/ OrderRollback(j) \/ (\E k \in KindsOf[j] : OrderOther(j, k))

WriteStep(j) == InsertRow(j) \/ Snapshot(j) \/ InsertJob(j) \/ OrderFails(j)

RolloutAgentStep ==
    \/ \E j \in Jobs : Retry(j) \/ Begin(j) \/ Reap(j)
    \/ Poll \/ Report \/ Crash \/ SendCommitInfo

HostStep == Pipeline \/ Boot

(* Users, requests, the agent's reports and its pipelines each have state  *)
(* of their own.                                                           *)
LEMMA StepsApart ==
    ASSUME [RolloutNext]_rolloutVars
    PROVE  \/ UserStep /\ UNCHANGED <<dbVars, batch, run, hostVars, untold>>
           \/ /\ \E j \in Jobs : OrderingStep(j) \/ WriteStep(j)
              /\ UNCHANGED <<userVars, batch, run, hostVars, untold>>
           \/ RolloutAgentStep /\ UNCHANGED <<userVars, order, stage, hostVars>>
           \/ HostStep /\ UNCHANGED agentOnly
           \/ UNCHANGED rolloutVars
<1>1. ASSUME UserStep PROVE UNCHANGED <<dbVars, batch, run, hostVars, untold>>
  BY <1>1 DEF UserStep, Push, SetBranch, SyncEnvVars, SetEnvVar, Edit
<1>2. ASSUME NEW j \in Jobs, OrderingStep(j) \/ WriteStep(j)
      PROVE  UNCHANGED <<userVars, batch, run, hostVars, untold>>
  BY <1>2 DEF OrderingStep, WriteStep, OrderDeploy, OrderRollback, OrderOther, Requested, InsertRow,
              Snapshot, InsertJob, OrderFails
<1>3. ASSUME RolloutAgentStep PROVE UNCHANGED <<userVars, order, stage, hostVars>>
  BY <1>3 DEF RolloutAgentStep, Retry, Begin, Reap, Poll, Report, Crash, SendCommitInfo, dbVars, Event
<1>4. ASSUME HostStep PROVE UNCHANGED agentOnly
  BY <1>4 DEF HostStep, Pipeline, Clone, Pull, ReadHead, WriteVars, WriteImage, Build, Up, HealthGate,
              StartApp, StopApp, RestartApp, DestroyApp, Boot
<1>5. ASSUME RolloutNext
      PROVE  \/ UserStep \/ RolloutAgentStep \/ HostStep
             \/ \E j \in Jobs : OrderingStep(j) \/ WriteStep(j)
  BY <1>5 DEF RolloutNext, UserStep, OrderingStep, WriteStep, RolloutAgentStep, HostStep
<1> QED BY <1>1, <1>2, <1>3, <1>4, <1>5

-----------------------------------------------------------------------------
(* Types.                                                                  *)

UserTypes ==
    /\ remote \in [Branches -> Commits] /\ commits \in Commits
    /\ branch \in Branches /\ env \in Environments

OrderTypes ==
    order \in [Jobs -> [kind : {"none"} \cup UNION {KindsOf[j] : j \in Jobs},
                        branch : Branches \cup {"none"},
                        env : Environments, tag : Tags \cup {NoTag}]]

DepTypes ==
    dep \in [Jobs -> [id : Nat, status : {"none", "pending", "deploying"} \cup Verdicts,
                      hash : Commits \cup {0}, snapshot : Environments,
                      prev : Jobs \cup {0}]]

JobTypes ==
    /\ stage \in [Jobs -> {"none", "read", "row", "job", "done", "failed"}]
    /\ job \in [Jobs -> {"none", "queued", "running"} \cup Verdicts]

RunTypes ==
    /\ batch \subseteq Jobs
    /\ run \in [job : Jobs \cup {0}, commit : Commits \cup {0}, info : Commits \cup {0},
                pc : {"idle", "git", "head", "vars", "image", "build", "up", "gate",
                      "power", "report"},
                verdict : Verdicts \cup {"none"}]
    /\ untold \subseteq Jobs
    /\ events \in Nat

HostTypes ==
    /\ repo \in [cloned : Branches \cup {"none", "partial"}, head : Commits \cup {0}]
    /\ envFile \in [tag : Tags \cup {NoTag}, env : Environments, there : BOOLEAN]
    /\ images \in [Tags -> Commits \cup {0}]
    /\ stack \in [commit : Commits \cup {0}, env : Environments,
                  up : {"none", "starting", "running", "crashed", "stopped"}]
    /\ left \in [commit : Commits \cup {0}, env : Environments, up : {"none", "running"}]

(* The types, by the part of the system they are about.                    *)
LEMMA TypesApart ==
    RolloutTypeOK <=> UserTypes /\ OrderTypes /\ DepTypes /\ JobTypes /\ RunTypes /\ HostTypes
BY DEF RolloutTypeOK, UserTypes, OrderTypes, DepTypes, JobTypes, RunTypes, HostTypes

(* What is not there yet is of the types too.                              *)
LEMMA NoneAreTyped ==
    /\ NoVars \in Environments
    /\ MaxCommit \in Nat /\ Commits \subseteq Nat \ {0} /\ 0 \notin Jobs
    /\ NoTag \notin Tags
    /\ \A c \in Commits : FullTag(c) \in Tags /\ ShortTag(c) \in Tags
BY RolloutAssumption DEF NoVars, Environments, Commits, NoTag, Tags, FullTag, ShortTag

(* Orders, retries and edits on the server keep the types.                 *)
LEMMA UsersKeepTypes ==
    ASSUME UserTypes, RunTypes, UserStep
    PROVE  UserTypes' /\ events' \in Nat
<1>1. events' \in Nat
  BY DEF RunTypes, UserStep, Push, SetBranch, SyncEnvVars, SetEnvVar, Edit, Event
<1>2. ASSUME NEW b \in Branches, Push(b) PROVE UserTypes'
  BY <1>2, NoneAreTyped DEF Push, UserTypes, Commits
<1>3. ASSUME NEW b \in Branches, SetBranch(b) PROVE UserTypes'
  BY <1>3 DEF SetBranch, Edit, UserTypes
<1>4. ASSUME NEW vars0 \in Environments, SyncEnvVars(vars0) PROVE UserTypes'
  BY <1>4 DEF SyncEnvVars, Edit, UserTypes
<1>5. ASSUME NEW k \in VarNames, NEW v \in Values \cup {Unset}, SetEnvVar(k, v) PROVE UserTypes'
  BY <1>5 DEF SetEnvVar, Edit, UserTypes, Environments
<1> QED BY <1>1, <1>2, <1>3, <1>4, <1>5 DEF UserStep

-----------------------------------------------------------------------------
(* Orders.                                                                 *)

OrderSet ==
    [kind : {"none"} \cup UNION {KindsOf[j] : j \in Jobs}, branch : Branches \cup {"none"},
     env : Environments, tag : Tags \cup {NoTag}]

(* What a request reads makes a payload (application service).             *)
LEMMA RequestsArePayloads ==
    ASSUME UserTypes, DepTypes, NEW j \in Jobs, OrderingStep(j)
    PROVE  \E payload \in OrderSet, at \in {"read", "job"} :
              /\ Requested(j, payload, at)
              /\ at = "read" <=> payload.kind \in {"deploy", "rollback"}
              /\ payload.kind = "rollback" => payload.tag \in Tags
              /\ payload.kind = "deploy" => payload.branch \in Branches
<1>1. CASE OrderDeploy(j)
  <2> DEFINE payload == [kind |-> "deploy", branch |-> branch, env |-> env, tag |-> NoTag]
  <2>1. payload.kind \in KindsOf[j]
    BY <1>1 DEF OrderDeploy, Requested
  <2>2. payload \in OrderSet
    BY <2>1 DEF OrderSet, UserTypes
  <2> QED BY <1>1, <2>2 DEF OrderDeploy, UserTypes
<1>2. CASE OrderRollback(j)
  <2>1. PICK p \in LatestSuccess :
            /\ dep[p].hash # 0
            /\ Requested(j, [kind |-> "rollback", branch |-> branch, env |-> env,
                             tag |-> ShortTag(dep[p].hash)], "read")
    BY <1>2 DEF OrderRollback
  <2> DEFINE payload == [kind |-> "rollback", branch |-> branch, env |-> env,
                         tag |-> ShortTag(dep[p].hash)]
  <2>2. payload.tag \in Tags
    BY <2>1, NoneAreTyped DEF LatestSuccess, Successes, Rows, DepTypes
  <2>3. payload.kind \in KindsOf[j]
    BY <2>1 DEF Requested
  <2>4. payload \in OrderSet
    BY <2>2, <2>3 DEF OrderSet, UserTypes
  <2> QED BY <2>1, <2>2, <2>4
<1>3. CASE \E k \in KindsOf[j] : OrderOther(j, k)
  <2>1. PICK k \in KindsOf[j] : OrderOther(j, k)
    BY <1>3
  <2> DEFINE payload == [NoOrder EXCEPT !.kind = k]
  <2>2. payload = [kind |-> k, branch |-> "none", env |-> NoVars, tag |-> NoTag]
    BY DEF NoOrder
  <2>3. payload \in OrderSet
    BY <2>2, NoneAreTyped DEF OrderSet
  <2>4. Requested(j, payload, "job") /\ k \notin {"deploy", "rollback"}
    BY <2>1 DEF OrderOther
  <2> QED BY <2>2, <2>3, <2>4
<1> QED BY <1>1, <1>2, <1>3 DEF OrderingStep

(* A request writes the order of a job that had none.                      *)
LEMMA RequestKeeps ==
    ASSUME RolloutTypeOK, OrdersGoForward, NEW j \in Jobs, OrderingStep(j)
    PROVE  OrderTypes' /\ DepTypes' /\ JobTypes' /\ OrdersGoForward'
<1> USE TypesApart
<1>1. PICK payload \in OrderSet, at \in {"read", "job"} :
              /\ Requested(j, payload, at)
              /\ at = "read" <=> payload.kind \in {"deploy", "rollback"}
              /\ payload.kind = "rollback" => payload.tag \in Tags
              /\ payload.kind = "deploy" => payload.branch \in Branches
  BY RequestsArePayloads
<1>2. /\ stage[j] = "none"
      /\ order' = [order EXCEPT ![j] = payload]
      /\ stage' = [stage EXCEPT ![j] = at]
      /\ dep' = dep /\ job' = job
  BY <1>1 DEF Requested
<1>3. OrderTypes'
  BY <1>2 DEF OrderTypes, OrderSet
<1>4. DepTypes' /\ JobTypes'
  BY <1>2 DEF DepTypes, JobTypes
<1>5. ASSUME NEW h \in Jobs PROVE OrderOf(h)'
  <2>1. CASE h = j
    BY <1>1, <1>2, <2>1 DEF OrdersGoForward, OrderOf, Rolls, Deploys, OrderTypes, JobTypes
  <2>2. CASE h # j
    BY <1>2, <2>2 DEF OrdersGoForward, OrderOf, Rolls, Deploys, OrderTypes, JobTypes
  <2> QED BY <2>1, <2>2
<1>6. IsFiniteSet({h \in Jobs : stage'[h] # "none"})
  <2>1. {h \in Jobs : stage'[h] # "none"} = {h \in Jobs : stage[h] # "none"} \cup {j}
    BY <1>1, <1>2 DEF JobTypes
  <2> QED BY <2>1, FS_AddElement DEF OrdersGoForward
<1> QED BY <1>3, <1>4, <1>5, <1>6 DEF OrdersGoForward

(* A deployment's row keeps its id and status in this step.                *)
Stays(p) == dep'[p].status = dep[p].status /\ dep'[p].id = dep[p].id

(* The writes of a request: the row, the snapshot, the job.                *)
LEMMA RowWriteKeeps ==
    ASSUME RolloutTypeOK, OrdersGoForward, NEW j \in Jobs, WriteStep(j)
    PROVE  OrderTypes' /\ DepTypes' /\ JobTypes' /\ OrdersGoForward'
<1> USE TypesApart
<1>0. order' = order
  BY DEF WriteStep, InsertRow, Snapshot, InsertJob, OrderFails
<1>1. /\ stage[j] # "none"
      /\ \E s \in {"row", "job", "done", "failed"} : stage' = [stage EXCEPT ![j] = s]
  BY DEF WriteStep, InsertRow, Snapshot, InsertJob, OrderFails
<1>2. job' = job \/ (stage[j] = "job" /\ job' = [job EXCEPT ![j] = "queued"])
  BY DEF WriteStep, InsertRow, Snapshot, InsertJob, OrderFails
<1>3. OrderTypes' /\ JobTypes'
  BY <1>0, <1>1, <1>2 DEF OrderTypes, JobTypes
<1>4. IsFiniteSet({h \in Jobs : stage'[h] # "none"})
  <2>1. {h \in Jobs : stage'[h] # "none"} = {h \in Jobs : stage[h] # "none"}
    BY <1>1 DEF JobTypes
  <2> QED BY <2>1 DEF OrdersGoForward
<1>5. CASE InsertRow(j)
  <2> DEFINE n == Cardinality(Rows) + 1
             row == [NoDep EXCEPT !.id = n, !.status = "pending"]
  <2>1. n \in Nat
    <3>1. Rows \subseteq {h \in Jobs : stage[h] # "none"}
      BY DEF Rows, OrdersGoForward, OrderOf
    <3> QED BY <3>1, FS_Subset, FS_CardinalityType DEF OrdersGoForward
  <2> HIDE DEF n
  <2>2. /\ row.id = n /\ row.status = "pending" /\ row.prev = 0
        /\ row.hash = 0 /\ row.snapshot = NoVars
    BY DEF NoDep
  <2>3. row \in [id : Nat, status : {"none", "pending", "deploying"} \cup Verdicts,
                 hash : Commits \cup {0}, snapshot : Environments, prev : Jobs \cup {0}]
    <3>1. NoVars \in Environments
      BY NoneAreTyped
    <3> HIDE DEF NoVars, Environments, Commits, Verdicts
    <3> QED BY <2>1, <3>1 DEF NoDep
  <2> HIDE DEF row
  <2>4. /\ stage[j] = "read" /\ dep' = [dep EXCEPT ![j] = row] /\ job' = job
        /\ stage' = [stage EXCEPT ![j] = IF Deploys(j) THEN "row" ELSE "job"]
    BY <1>5 DEF InsertRow, row, n, Deploys
  <2>5. DepTypes'
    BY <2>3, <2>4 DEF DepTypes
  <2>6. dep[j].status # "success" /\ Rolls(j)
    BY <2>4 DEF OrdersGoForward, OrderOf
  <2>7. ASSUME NEW h \in Jobs PROVE OrderOf(h)'
    <3>1. CASE h = j
      BY <1>0, <2>2, <2>4, <2>6, <3>1 DEF OrdersGoForward, OrderOf, Rolls, Deploys, DepTypes, JobTypes
    <3>2. CASE h # j
      BY <1>0, <2>4, <2>6, <3>2 DEF OrdersGoForward, OrderOf, Rolls, Deploys, DepTypes, JobTypes
    <3> QED BY <3>1, <3>2
  <2> QED BY <1>3, <1>4, <2>5, <2>7 DEF OrdersGoForward
<1>6. CASE Snapshot(j)
  <2> DEFINE earlier == {i \in Successes : dep[i].id < dep[j].id}
             last == {i \in earlier : \A h \in earlier : dep[h].id <= dep[i].id}
             prev == IF last = {} THEN 0 ELSE CHOOSE i \in last : TRUE
  <2>1. /\ stage[j] = "row" /\ job' = job
        /\ dep' = [dep EXCEPT ![j].snapshot = order[j].env, ![j].prev = prev]
        /\ stage' = [stage EXCEPT ![j] = "job"]
    BY <1>6 DEF Snapshot
  <2>2. prev # 0 => prev \in earlier
    OBVIOUS
  <2>3. prev # 0 => prev \in Jobs /\ dep[prev].status = "success" /\ dep[prev].id < dep[j].id
    BY <2>2 DEF Successes, Rows
  <2> HIDE DEF prev
  <2>4. DepTypes'
    BY <2>1, <2>3 DEF DepTypes, OrderTypes
  <2>5. \A h \in Jobs : Stays(h)
    BY <2>1 DEF DepTypes, Stays
  <2>6. dep'[j].prev = prev /\ dep'[j].snapshot = order[j].env
    BY <2>1 DEF DepTypes
  <2>7. ASSUME NEW h \in Jobs PROVE OrderOf(h)'
    <3>1. CASE h = j
      BY <1>0, <2>1, <2>3, <2>5, <2>6, <3>1
      DEF OrdersGoForward, OrderOf, Rolls, Deploys, DepTypes, JobTypes, Stays
    <3>2. CASE h # j
      <4>1. dep'[h] = dep[h] /\ stage'[h] = stage[h]
        BY <2>1, <3>2 DEF DepTypes, JobTypes
      <4> QED BY <1>0, <2>1, <2>5, <4>1 DEF OrdersGoForward, OrderOf, Rolls, Deploys, DepTypes, JobTypes, Stays
    <3> QED BY <3>1, <3>2
  <2> QED BY <1>3, <1>4, <2>4, <2>7 DEF OrdersGoForward
<1>7. CASE InsertJob(j) \/ OrderFails(j)
  <2>1. dep' = dep /\ \A h \in Jobs \ {j} : stage'[h] = stage[h] /\ job'[h] = job[h]
    BY <1>7 DEF InsertJob, OrderFails, JobTypes
  <2>2. /\ stage[j] \in {"read", "row", "job"}
        /\ \/ stage[j] = "job" /\ stage'[j] = "done" /\ job'[j] = "queued"
           \/ stage'[j] = "failed" /\ job'[j] = job[j]
    BY <1>7 DEF InsertJob, OrderFails, JobTypes
  <2>3. ASSUME NEW h \in Jobs PROVE OrderOf(h)'
    <3>1. CASE h = j
      BY <1>0, <2>1, <2>2, <3>1 DEF OrdersGoForward, OrderOf, Rolls, Deploys, DepTypes, JobTypes
    <3>2. CASE h # j
      BY <1>0, <2>1, <3>2 DEF OrdersGoForward, OrderOf, Rolls, Deploys
    <3> QED BY <3>1, <3>2
  <2> QED BY <1>3, <1>4, <2>1, <2>3 DEF OrdersGoForward, DepTypes
<1> QED BY <1>5, <1>6, <1>7 DEF WriteStep

-----------------------------------------------------------------------------
(* The agent.                                                              *)

(* Polling, the pipelines and the reports keep the types.                  *)
LEMMA AgentKeepsTypes ==
    ASSUME RolloutTypeOK, OneRun, StepsOfTheirKind, RolloutAgentStep
    PROVE  DepTypes' /\ JobTypes' /\ RunTypes'
<1> USE TypesApart
<1>0. stage' = stage /\ events' \in Nat
  <2>1. stage' = stage
    BY DEF RolloutAgentStep, Retry, Begin, Reap, Poll, Report, Crash, SendCommitInfo, dbVars
  <2>2. Event \/ events' = events
    BY DEF RolloutAgentStep, Retry, Begin, Reap, Poll, Report, Crash, SendCommitInfo
  <2> QED BY <2>1, <2>2 DEF Event, RunTypes
<1>1. NoRun \in [job : Jobs \cup {0}, commit : Commits \cup {0}, info : Commits \cup {0},
                pc : {"idle", "git", "head", "vars", "image", "build", "up", "gate",
                      "power", "report"},
                verdict : Verdicts \cup {"none"}]
  BY DEF NoRun
<1>2. CASE \E j \in Jobs : Retry(j)
  BY <1>0, <1>2 DEF Retry, DepTypes, JobTypes, RunTypes
<1>3. ASSUME NEW j \in Jobs, Begin(j) PROVE DepTypes' /\ JobTypes' /\ RunTypes'
  <2>1. CASE UNCHANGED <<run, job, dep, untold>>
    BY <1>0, <1>3, <2>1 DEF Begin, DepTypes, JobTypes, RunTypes
  <2>2. CASE /\ run' = [NoRun EXCEPT !.job = j, !.pc = FirstStep(order[j].kind)]
             /\ job' = [job EXCEPT ![j] = "running"]
             /\ dep' = IF j \in Rows THEN [dep EXCEPT ![j].status = "deploying"] ELSE dep
             /\ untold' = untold \ {j}
    <3>1. FirstStep(order[j].kind) \in {"git", "image", "power"}
      BY DEF FirstStep
    <3>2. run' = [job |-> j, pc |-> FirstStep(order[j].kind), commit |-> 0, info |-> 0,
                  verdict |-> "none"]
      BY <2>2 DEF NoRun
    <3>3. batch' \subseteq Jobs /\ untold' \subseteq Jobs
      BY <1>3, <2>2 DEF Begin, RunTypes
    <3>4. RunTypes'
      BY <1>0, <3>1, <3>2, <3>3 DEF RunTypes
    <3>5. DepTypes' /\ JobTypes'
      BY <1>0, <2>2 DEF DepTypes, JobTypes
    <3> QED BY <3>4, <3>5
  <2> QED BY <1>3, <2>1, <2>2 DEF Begin
<1>4. CASE \E j \in Jobs : Reap(j)
  BY <1>0, <1>4 DEF Reap, DepTypes, JobTypes, RunTypes, Verdicts
<1>5. CASE Poll
  BY <1>0, <1>5 DEF Poll, dbVars, DepTypes, JobTypes, RunTypes
<1>6. CASE Report
  <2>1. run.job \in Jobs /\ run.verdict \in Verdicts
    BY <1>6 DEF Report, OneRun, StepsOfTheirKind, NoRun, RunTypes
  <2>2. run' = NoRun /\ batch' = batch /\ untold' = untold
    BY <1>6 DEF Report
  <2>3. CASE UNCHANGED <<job, dep>>
    BY <1>0, <1>1, <2>2, <2>3 DEF DepTypes, JobTypes, RunTypes
  <2>4. CASE /\ job' = [job EXCEPT ![run.job] = run.verdict]
             /\ dep' = IF run.job \in Rows THEN [dep EXCEPT ![run.job].status = run.verdict]
                                           ELSE dep
    BY <1>0, <1>1, <2>1, <2>2, <2>4 DEF DepTypes, JobTypes, RunTypes
  <2> QED BY <1>6, <2>3, <2>4 DEF Report
<1>7. CASE Crash
  <2>1. run.info # 0 => run.job \in Jobs
    BY DEF OneRun, NoRun, RunTypes
  <2>2. untold' \subseteq Jobs /\ batch' \subseteq Jobs
    BY <1>7, <2>1 DEF Crash, RunTypes
  <2> QED BY <1>0, <1>1, <1>7, <2>2 DEF Crash, dbVars, DepTypes, JobTypes, RunTypes
<1>8. CASE SendCommitInfo
  <2>1. run.job \in Jobs /\ run.info \in Commits
    BY <1>8 DEF SendCommitInfo, OneRun, NoRun, RunTypes
  <2>2. untold' \subseteq Jobs
    BY <1>8, <2>1 DEF SendCommitInfo, RunTypes
  <2>3. DepTypes'
    BY <1>8, <2>1 DEF SendCommitInfo, DepTypes
  <2>4. batch' = batch /\ job' = job /\ run' = [run EXCEPT !.info = 0]
    BY <1>8 DEF SendCommitInfo
  <2> QED BY <1>0, <2>2, <2>3, <2>4 DEF JobTypes, RunTypes
<1> QED BY <1>2, <1>3, <1>4, <1>5, <1>6, <1>7, <1>8 DEF RolloutAgentStep

(* Verdicts and the reaper end running jobs only, and a retry queues again *)
(* what failed: rows keep what the order wrote.                            *)
LEMMA AgentKeepsOrders ==
    ASSUME RolloutTypeOK, OrdersGoForward, OneRun, RolloutAgentStep
    PROVE  OrdersGoForward'
<1> USE TypesApart
<1>0. order' = order /\ stage' = stage
  BY DEF RolloutAgentStep, Retry, Begin, Reap, Poll, Report, Crash, SendCommitInfo, dbVars
<1>1. \A h \in Jobs : /\ dep'[h].id = dep[h].id
                      /\ dep'[h].snapshot = dep[h].snapshot
                      /\ dep'[h].prev = dep[h].prev
                      /\ dep[h].status = "none" => dep'[h].status = "none"
  <2>1. \/ dep' = dep
        \/ \E j \in Rows : \E s : dep' = [dep EXCEPT ![j].status = s]
        \/ \E c : dep' = [dep EXCEPT ![run.job].hash = c]
    <3>1. CASE \E j \in Jobs : Retry(j) \/ Begin(j) \/ Reap(j)
      BY <3>1 DEF Retry, Begin, Reap
    <3>2. CASE Poll \/ Crash
      BY <3>2 DEF Poll, Crash, dbVars
    <3>3. CASE Report
      BY <3>3 DEF Report
    <3>4. CASE SendCommitInfo
      BY <3>4 DEF SendCommitInfo
    <3> QED BY <3>1, <3>2, <3>3, <3>4 DEF RolloutAgentStep
  <2>2. ASSUME NEW j \in Rows, NEW s, dep' = [dep EXCEPT ![j].status = s], NEW h \in Jobs
        PROVE  /\ dep'[h].id = dep[h].id /\ dep'[h].snapshot = dep[h].snapshot
               /\ dep'[h].prev = dep[h].prev
               /\ dep[h].status = "none" => dep'[h].status = "none"
    BY <2>2 DEF DepTypes, Rows
  <2>3. ASSUME NEW c, dep' = [dep EXCEPT ![run.job].hash = c], NEW h \in Jobs
        PROVE  /\ dep'[h].id = dep[h].id /\ dep'[h].snapshot = dep[h].snapshot
               /\ dep'[h].prev = dep[h].prev /\ dep'[h].status = dep[h].status
    BY <2>3 DEF DepTypes
  <2> QED BY <2>1, <2>2, <2>3
<1>2. ASSUME NEW h \in Jobs
      PROVE  /\ job[h] = "none" => job'[h] = "none"
             /\ job[h] = "success" => job'[h] = "success" /\ dep'[h].status = dep[h].status
             /\ dep'[h].status = "success" => dep[h].status = "success" \/ job'[h] = "success"
  <2>1. CASE \E j \in Jobs : Retry(j)
    BY <2>1 DEF Retry, JobTypes
  <2>2. CASE \E j \in Jobs : Begin(j)
    BY <2>2 DEF Begin, OneRun, JobTypes, DepTypes
  <2>3. CASE \E j \in Jobs : Reap(j)
    BY <2>3 DEF Reap, JobTypes, DepTypes
  <2>4. CASE Poll \/ Crash
    BY <2>4 DEF Poll, Crash, dbVars
  <2>5. CASE Report
    <3>1. run.job \in Jobs /\ job[run.job] = "running"
      BY <2>5 DEF Report, OneRun, NoRun, RunTypes
    <3> QED BY <2>5, <3>1 DEF Report, JobTypes, DepTypes
  <2>6. CASE SendCommitInfo
    BY <2>6 DEF SendCommitInfo, DepTypes
  <2> QED BY <2>1, <2>2, <2>3, <2>4, <2>5, <2>6 DEF RolloutAgentStep
<1>3. ASSUME NEW h \in Jobs PROVE OrderOf(h)'
  <2>1. OrderOf(h)
    BY DEF OrdersGoForward
  <2>2. dep'[h].prev # 0 => /\ dep'[dep'[h].prev].status = "success"
                           /\ dep'[dep'[h].prev].id < dep'[h].id
    <3>1. SUFFICES ASSUME dep[h].prev # 0
                   PROVE  /\ dep'[dep[h].prev].status = "success"
                          /\ dep'[dep[h].prev].id < dep[h].id
      BY <1>1
    <3>2. dep[h].prev \in Jobs
      BY <3>1 DEF DepTypes
    <3>3. dep[dep[h].prev].status = "success" /\ job[dep[h].prev] = "success"
      BY <2>1, <3>1, <3>2 DEF OrdersGoForward, OrderOf
    <3> QED BY <1>1, <1>2, <2>1, <3>1, <3>2, <3>3 DEF OrderOf
  <2>3. dep'[h].status = "success" => job'[h] = "success"
    BY <1>2, <2>1 DEF OrderOf
  <2>4. job'[h] # "none" => stage'[h] = "done"
    BY <1>0, <1>2, <2>1 DEF OrderOf
  <2> QED BY <1>0, <1>1, <2>1, <2>2, <2>3, <2>4 DEF OrderOf, Rolls, Deploys
<1> QED BY <1>0, <1>3 DEF OrdersGoForward

(* One run at a time, of a job the queue shows as running.                 *)
LEMMA AgentRunsOne ==
    ASSUME RolloutTypeOK, OneRun, RolloutAgentStep
    PROVE  OneRun'
<1> USE TypesApart
<1>1. CASE \E j \in Jobs : Retry(j)
  BY <1>1 DEF Retry, OneRun, JobTypes, RunTypes
<1>2. ASSUME NEW j \in Jobs, Begin(j) PROVE OneRun'
  <2>1. CASE UNCHANGED <<run, job, dep, untold>>
    BY <1>2, <2>1 DEF Begin, OneRun
  <2>2. CASE run' = [NoRun EXCEPT !.job = j, !.pc = FirstStep(order[j].kind)]
             /\ job' = [job EXCEPT ![j] = "running"]
    <3>1. run'.job = j
      BY <2>2 DEF NoRun
    <3> QED BY <1>2, <2>2, <3>1, NoneAreTyped DEF Begin, OneRun, JobTypes, RunTypes
  <2> QED BY <1>2, <2>1, <2>2 DEF Begin
<1>3. CASE \E j \in Jobs : Reap(j)
  BY <1>3 DEF Reap, OneRun, JobTypes, RunTypes
<1>4. CASE Poll
  BY <1>4 DEF Poll, OneRun, dbVars, NoRun
<1>5. CASE Report
  <2>1. run.job \in Jobs /\ job[run.job] = "running"
    BY <1>5 DEF Report, OneRun, NoRun, RunTypes
  <2> QED BY <1>5, <2>1 DEF Report, OneRun, NoRun, JobTypes, RunTypes
<1>6. CASE Crash
  BY <1>6 DEF Crash, OneRun, dbVars, NoRun
<1>7. CASE SendCommitInfo
  <2>1. run.job \in Jobs /\ run'.job = run.job
    BY <1>7 DEF SendCommitInfo, OneRun, NoRun, RunTypes
  <2> QED BY <1>7, <2>1, NoneAreTyped DEF SendCommitInfo, OneRun, RunTypes
<1> QED BY <1>1, <1>2, <1>3, <1>4, <1>5, <1>6, <1>7 DEF RolloutAgentStep

RunFacts ==
    /\ OneRun /\ StepsOfTheirKind /\ CommitIsCheckedOut
    /\ WhatIsBuiltIsServed /\ GoodRolloutIsKept /\ RestartChangesNothing

(* A run begins with the first step of its kind; what the agent reports of *)
(* it later changes neither the host nor the run's place.                  *)
LEMMA AgentKeepsRuns ==
    ASSUME RolloutTypeOK, OrdersGoForward, RunFacts, RolloutAgentStep,
           UNCHANGED <<userVars, order, stage, hostVars>>
    PROVE  RunFacts'
<1> USE TypesApart
<1>0. OneRun'
  BY AgentRunsOne DEF RunFacts
<1>1. GoodRolloutIsKept' /\ RestartChangesNothing'
  BY DEF RunFacts, GoodRolloutIsKept, RestartChangesNothing, hostVars
<1>2. CASE run'.job = 0
  BY <1>0, <1>1, <1>2 DEF RunFacts, StepsOfTheirKind, CommitIsCheckedOut, WhatIsBuiltIsServed
<1>3. CASE run' = run /\ dep'[run.job].hash = dep[run.job].hash
           /\ (run.job # 0 => (run.job \in untold' <=> run.job \in untold))
  BY <1>0, <1>1, <1>3
  DEF RunFacts, StepsOfTheirKind, CommitIsCheckedOut, WhatIsBuiltIsServed, hostVars, Rolls, Deploys
<1>4. ASSUME NEW j \in Jobs, Begin(j), run' # run PROVE RunFacts'
  <2>1. run' = [NoRun EXCEPT !.job = j, !.pc = FirstStep(order[j].kind)]
    BY <1>4 DEF Begin
  <2>2. /\ run'.job = j /\ run'.pc = FirstStep(order[j].kind)
        /\ run'.commit = 0 /\ run'.info = 0 /\ run'.verdict = "none"
    BY <2>1 DEF NoRun
  <2>3. /\ run'.pc = "git" => order[j].kind = "deploy"
        /\ run'.pc = "image" => order[j].kind = "rollback"
        /\ run'.pc = "power" => order[j].kind \notin {"deploy", "rollback"}
        /\ run'.pc \in {"git", "image", "power"}
    BY <2>2 DEF FirstStep
  <2>4. StepsOfTheirKind'
    BY <2>2, <2>3 DEF StepsOfTheirKind, Rolls, Deploys
  <2>5. CommitIsCheckedOut'
    BY <2>2, <2>3 DEF CommitIsCheckedOut, Deploys
  <2>6. WhatIsBuiltIsServed'
    BY <2>2, <2>3 DEF WhatIsBuiltIsServed
  <2> QED BY <1>0, <1>1, <2>4, <2>5, <2>6 DEF RunFacts
<1>5. CASE SendCommitInfo
  <2>1. /\ run.job \in Jobs /\ run.info # 0 /\ run.info = run.commit
    BY <1>5, NoneAreTyped DEF SendCommitInfo, RunFacts, OneRun, NoRun, CommitIsCheckedOut, RunTypes
  <2>2. /\ run'.job = run.job /\ run'.pc = run.pc /\ run'.commit = run.commit
        /\ run'.verdict = run.verdict /\ run'.info = 0
    BY <1>5 DEF SendCommitInfo, RunTypes
  <2>3. run.job \in untold' \/ dep'[run.job].hash = run.commit
    BY <1>5, <2>1 DEF SendCommitInfo, DepTypes
  <2>4. StepsOfTheirKind'
    BY <2>2 DEF StepsOfTheirKind, Rolls, Deploys, RunFacts
  <2>5. CommitIsCheckedOut'
    BY <2>2, <2>3 DEF CommitIsCheckedOut, Deploys, RunFacts, hostVars
  <2>6. WhatIsBuiltIsServed'
    BY <2>2 DEF WhatIsBuiltIsServed, Rolls, Deploys, RunFacts, hostVars
  <2> QED BY <1>0, <1>1, <2>4, <2>5, <2>6 DEF RunFacts
<1>6. CASE Report \/ Crash
  BY <1>2, <1>6 DEF Report, Crash, NoRun
<1>7. CASE Poll \/ (\E j \in Jobs : Retry(j))
  BY <1>3, <1>7 DEF Poll, Retry, dbVars
<1>8. ASSUME NEW j \in Jobs, Reap(j) PROVE RunFacts'
  <2>1. run' = run /\ untold' = untold /\ run.job # j
    BY <1>8 DEF Reap
  <2>2. dep'[run.job] = dep[run.job] \/ run.job = 0
    BY <1>8, <2>1 DEF Reap, DepTypes, RunTypes
  <2> QED BY <1>2, <1>3, <2>1, <2>2
<1>9. ASSUME NEW j \in Jobs, Begin(j), run' = run PROVE RunFacts'
  <2>1. run.job = 0
    BY <1>9 DEF Begin, NoRun
  <2> QED BY <1>2, <1>9, <2>1
<1> QED BY <1>4, <1>5, <1>6, <1>7, <1>8, <1>9 DEF RolloutAgentStep

-----------------------------------------------------------------------------
(* The pipelines.                                                          *)

(* The run goes on to another step, fails or succeeds.                     *)
Moves(pcs) == /\ run'.job = run.job /\ run'.commit = run.commit /\ run'.info = run.info
              /\ \/ run'.pc \in pcs /\ run'.verdict = run.verdict
                 \/ run'.pc = "report" /\ run'.verdict = "failed"

Ends == /\ run'.job = run.job /\ run'.commit = run.commit /\ run'.info = run.info
        /\ run'.pc = "report" /\ run'.verdict = "success"

(* The ways a run moves: to another step, to its end by failure, by success.*)
LEMMA RunMoves ==
    ASSUME RunTypes
    PROVE  /\ \A pc : Goto(pc) => Moves({pc}) /\ run'.pc = pc
           /\ Fail => Moves({}) /\ run'.pc = "report" /\ run'.verdict = "failed"
           /\ Succeed => Ends
BY DEF Goto, Fail, Succeed, Moves, Ends, RunTypes

(* Only these two make containers.                                         *)
LEMMA RecreateMakes ==
    ASSUME HostTypes, Recreate
    PROVE  /\ envFile.tag \in Tags
           /\ images' \in [Tags -> Commits \cup {0}]
           /\ images'[envFile.tag] # 0
           /\ images[envFile.tag] # 0 => images' = images
           /\ stack'.commit = images'[envFile.tag] /\ stack'.env = envFile.env
           /\ stack'.up = "starting"
           /\ stack' \in [commit : Commits \cup {0}, env : Environments,
                        up : {"none", "starting", "running", "crashed", "stopped"}]
<1>1. envFile.tag \in Tags /\ envFile.env \in Environments
  BY DEF HostTypes, Recreate
<1>2. images' = [images EXCEPT ![envFile.tag] =
                    IF images[envFile.tag] # 0 THEN images[envFile.tag] ELSE repo.head]
  BY DEF Recreate
<1>3. images' \in [Tags -> Commits \cup {0}]
  BY <1>1, <1>2 DEF HostTypes
<1>4. images'[envFile.tag] # 0
  BY <1>1, <1>2 DEF Recreate, HostTypes
<1>5. images[envFile.tag] # 0 => images' = images
  <2>1. ASSUME images[envFile.tag] # 0, NEW t \in Tags PROVE images'[t] = images[t]
    BY <1>1, <1>2, <2>1 DEF HostTypes
  <2> QED BY <1>3, <2>1 DEF HostTypes
<1>6. stack' = [commit |-> images'[envFile.tag], env |-> envFile.env, up |-> "starting"]
  BY DEF Recreate
<1> HIDE DEF Tags, Commits, Environments
<1> QED BY <1>1, <1>3, <1>4, <1>5, <1>6

(* Nothing the last good rollout left is touched, or no containers are left*)
(* to serve.                                                               *)
SameStack == /\ stack'.commit = stack.commit /\ stack'.env = stack.env
             /\ stack.up = "none" => stack'.up = "none"

(* Where no tag, .env or container changes, a good rollout stays good.     *)
LEMMA HostStays ==
    ASSUME GoodRolloutIsKept, RestartChangesNothing,
           UNCHANGED <<envFile, images, left>>, SameStack \/ stack'.up = "none"
    PROVE  GoodRolloutIsKept' /\ RestartChangesNothing'
BY DEF GoodRolloutIsKept, RestartChangesNothing, SameStack

HostHyp == /\ RolloutTypeOK /\ OrdersGoForward /\ RunFacts
           /\ UNCHANGED agentOnly

(* A run that fails promises nothing more.                                 *)
LEMMA FailKeeps ==
    ASSUME HostHyp, run.job \in Jobs, Fail
    PROVE  RunTypes' /\ OneRun' /\ StepsOfTheirKind' /\ CommitIsCheckedOut' /\ WhatIsBuiltIsServed'
<1> USE TypesApart DEF HostHyp
<1>1. /\ run'.job = run.job /\ run'.commit = run.commit /\ run'.info = run.info
      /\ run'.pc = "report" /\ run'.verdict = "failed"
  BY RunMoves DEF Moves
<1>2. RunTypes'
  BY DEF Fail, RunTypes, agentOnly, Verdicts
<1>3. OneRun'
  BY <1>1, NoneAreTyped DEF OneRun, RunFacts, agentOnly, dbVars
<1>4. StepsOfTheirKind'
  BY <1>1 DEF StepsOfTheirKind, Verdicts
<1>5. CommitIsCheckedOut'
  BY <1>1 DEF CommitIsCheckedOut, RunFacts, agentOnly, dbVars
<1>6. WhatIsBuiltIsServed'
  BY <1>1 DEF WhatIsBuiltIsServed
<1> QED BY <1>2, <1>3, <1>4, <1>5, <1>6

(* The job of a run stays, whatever step it takes.                         *)
LEMMA GoesOn ==
    ASSUME HostHyp, NEW pc \in {"git", "head", "vars", "image", "build", "up", "gate",
                                 "power", "report"},
           Goto(pc) \/ (Succeed /\ pc = "report"), run.job \in Jobs
    PROVE  /\ RunTypes' /\ OneRun'
           /\ run'.job = run.job /\ run'.commit = run.commit /\ run'.info = run.info
           /\ run'.pc = pc
           /\ Goto(pc) => run'.verdict = run.verdict
           /\ Succeed => run'.verdict = "success"
<1> USE TypesApart DEF HostHyp
<1>1. RunTypes'
  BY DEF Goto, Succeed, RunTypes, agentOnly, Verdicts
<1>2. /\ run'.job = run.job /\ run'.commit = run.commit /\ run'.info = run.info
      /\ run'.pc = pc
      /\ Goto(pc) => run'.verdict = run.verdict
      /\ Succeed => run'.verdict = "success"
  BY DEF Goto, Succeed, RunTypes
<1>3. OneRun'
  BY <1>2, NoneAreTyped DEF OneRun, RunFacts, agentOnly, dbVars
<1> QED BY <1>1, <1>2, <1>3

(* A run that is at a step has a job.                                      *)
LEMMA RunIsOn ==
    ASSUME RunTypes, OneRun, run.pc # "idle"
    PROVE  run.job \in Jobs
BY DEF RunTypes, OneRun, NoRun

AllKept == HostTypes' /\ RunTypes' /\ RunFacts'

(* Clone and pull leave the tip of the order's branch checked out.         *)
LEMMA CheckoutKeeps ==
    ASSUME HostHyp, Clone \/ Pull
    PROVE  AllKept
<1> USE TypesApart DEF HostHyp
<1>1. run.job \in Jobs /\ run.pc = "git"
  BY RunIsOn DEF Clone, Pull, At, RunFacts
<1>2. Deploys(run.job) /\ run.commit = 0 /\ order[run.job].branch \in Branches
  BY <1>1, NoneAreTyped DEF RunFacts, StepsOfTheirKind, CommitIsCheckedOut, OrdersGoForward, OrderOf
<1>3. remote[order[run.job].branch] \in Commits
  BY <1>2 DEF UserTypes
<1>4. UNCHANGED <<envFile, images, stack, left>>
  BY DEF Clone, Pull
<1>5. GoodRolloutIsKept' /\ RestartChangesNothing'
  BY <1>4, HostStays DEF RunFacts, SameStack
<1>6. HostTypes'
  <2>1. repo' \in [cloned : Branches \cup {"none", "partial"}, head : Commits \cup {0}]
    BY <1>2, <1>3 DEF Clone, Pull, Payload, HostTypes
  <2> QED BY <1>4, <2>1 DEF HostTypes
<1>7. CASE Fail
  BY <1>1, <1>5, <1>6, <1>7, FailKeeps DEF AllKept, RunFacts
<1>8. CASE Goto("head") /\ repo'.head = remote[order[run.job].branch]
  <2>1. /\ RunTypes' /\ OneRun'
        /\ run'.job = run.job /\ run'.commit = run.commit /\ run'.info = run.info
        /\ run'.pc = "head"
    BY <1>1, <1>8, GoesOn
  <2>2. StepsOfTheirKind'
    BY <1>2, <2>1 DEF StepsOfTheirKind, Deploys, agentOnly, dbVars
  <2>3. CommitIsCheckedOut'
    BY <1>2, <1>3, <1>8, <2>1 DEF CommitIsCheckedOut, RunFacts
  <2>4. WhatIsBuiltIsServed'
    BY <2>1 DEF WhatIsBuiltIsServed
  <2> QED BY <1>5, <1>6, <2>1, <2>2, <2>3, <2>4 DEF AllKept, RunFacts
<1>9. Fail \/ (Goto("head") /\ repo'.head = remote[order[run.job].branch])
  BY DEF Clone, Pull, Payload, HostTypes
<1> QED BY <1>7, <1>8, <1>9

(* GetCurrentCommit: the run's commit is the head from here on.            *)
LEMMA ReadHeadKeeps ==
    ASSUME HostHyp, ReadHead
    PROVE  AllKept
<1> USE TypesApart DEF HostHyp
<1>1. run.job \in Jobs /\ run.pc = "head"
  BY RunIsOn DEF ReadHead, At, RunFacts
<1>2. Deploys(run.job) /\ repo.head \in Commits
  BY <1>1, NoneAreTyped DEF RunFacts, StepsOfTheirKind, CommitIsCheckedOut
<1>3. run' = [run EXCEPT !.pc = "vars", !.commit = repo.head, !.info = repo.head]
  BY DEF ReadHead
<1>4. /\ run'.job = run.job /\ run'.commit = repo.head /\ run'.info = repo.head
      /\ run'.pc = "vars" /\ run'.verdict = run.verdict
  BY <1>3 DEF RunTypes
<1>5. RunTypes'
  BY <1>2, <1>3 DEF RunTypes, agentOnly
<1>6. HostTypes' /\ GoodRolloutIsKept' /\ RestartChangesNothing'
  BY HostStays DEF ReadHead, hostVars, HostTypes, RunFacts, SameStack
<1>7. OneRun'
  BY <1>1, <1>4, NoneAreTyped DEF OneRun, RunFacts, agentOnly, dbVars
<1>8. StepsOfTheirKind'
  BY <1>2, <1>4 DEF StepsOfTheirKind, Deploys, agentOnly, dbVars
<1>9. CommitIsCheckedOut'
  BY <1>2, <1>4, NoneAreTyped DEF CommitIsCheckedOut, ReadHead, hostVars
<1>10. WhatIsBuiltIsServed'
  BY <1>4 DEF WhatIsBuiltIsServed
<1> QED BY <1>5, <1>6, <1>7, <1>8, <1>9, <1>10 DEF AllKept, RunFacts

(* The order of a job that nobody has ordered is an order record.          *)
LEMMA NoOrderTyped == NoOrder \in OrderSet
BY NoneAreTyped DEF NoOrder, OrderSet

(* No containers are a stack record.                                       *)
LEMMA NoStackTyped ==
    /\ NoStack \in [commit : Commits \cup {0}, env : Environments, up : {"none", "running"}]
    /\ NoStack \in [commit : Commits \cup {0}, env : Environments,
                   up : {"none", "starting", "running", "crashed", "stopped"}]
    /\ NoStack.up = "none"
BY NoneAreTyped DEF NoStack

(* The variables are written first, without the image.                     *)
LEMMA WriteVarsKeeps ==
    ASSUME HostHyp, WriteVars
    PROVE  AllKept
<1> USE TypesApart DEF HostHyp
<1>1. run.job \in Jobs /\ run.pc = "vars"
  BY RunIsOn DEF WriteVars, At, RunFacts
<1>2. Deploys(run.job)
  BY <1>1, NoneAreTyped DEF RunFacts, StepsOfTheirKind
<1>3. UNCHANGED <<repo, images, stack>>
  BY DEF WriteVars
<1>4. \/ UNCHANGED <<envFile, left>>
      \/ /\ envFile' = [tag |-> NoTag, env |-> order[run.job].env, there |-> TRUE]
         /\ left' = NoStack
  BY DEF WriteVars, Payload
<1>5. HostTypes'
  <2>1. order[run.job].env \in Environments
    BY <1>1 DEF OrderTypes
  <2>2. envFile' \in [tag : Tags \cup {NoTag}, env : Environments, there : BOOLEAN]
    <3>1. CASE UNCHANGED envFile
      BY <3>1 DEF HostTypes
    <3>2. CASE envFile' = [tag |-> NoTag, env |-> order[run.job].env, there |-> TRUE]
      <4> HIDE DEF NoTag, Tags, Environments
      <4> QED BY <2>1, <3>2
    <3> QED BY <1>4, <3>1, <3>2
  <2>3. left' \in [commit : Commits \cup {0}, env : Environments, up : {"none", "running"}]
    BY <1>4, NoStackTyped DEF HostTypes
  <2> QED BY <1>3, <2>2, <2>3 DEF HostTypes
<1>6. GoodRolloutIsKept' /\ RestartChangesNothing'
  <2>1. CASE UNCHANGED <<envFile, left>>
    BY <1>3, <2>1, HostStays DEF RunFacts, SameStack
  <2>2. CASE left' = NoStack
    BY <2>2 DEF GoodRolloutIsKept, RestartChangesNothing
  <2> QED BY <1>4, <2>1, <2>2
<1>7. CASE Fail
  BY <1>1, <1>5, <1>6, <1>7, FailKeeps DEF AllKept, RunFacts
<1>8. CASE Goto("image")
  <2>1. /\ RunTypes' /\ OneRun'
        /\ run'.job = run.job /\ run'.commit = run.commit /\ run'.info = run.info
        /\ run'.pc = "image"
    BY <1>1, <1>8, GoesOn
  <2>2. StepsOfTheirKind'
    BY <1>2, <2>1 DEF StepsOfTheirKind, Deploys, Rolls, agentOnly, dbVars
  <2>3. CommitIsCheckedOut'
    BY <1>1, <1>2, <1>3, <2>1, NoneAreTyped DEF CommitIsCheckedOut, Deploys, RunFacts, agentOnly, dbVars
  <2>4. WhatIsBuiltIsServed'
    BY <2>1 DEF WhatIsBuiltIsServed
  <2> QED BY <1>5, <1>6, <2>1, <2>2, <2>3, <2>4 DEF AllKept, RunFacts
<1> QED BY <1>7, <1>8 DEF WriteVars

(* The image's tag follows from the commit or from the payload.            *)
LEMMA WriteImageKeeps ==
    ASSUME HostHyp, WriteImage
    PROVE  AllKept
<1> USE TypesApart DEF HostHyp
<1>1. run.job \in Jobs /\ run.pc = "image"
  BY RunIsOn DEF WriteImage, At, RunFacts
<1>2. /\ Rolls(run.job)
      /\ Deploys(run.job) => repo.head = run.commit /\ run.commit \in Commits
  BY <1>1, NoneAreTyped DEF RunFacts, StepsOfTheirKind, CommitIsCheckedOut
<1>3. UNCHANGED <<repo, images, stack>>
  BY DEF WriteImage
<1> DEFINE tag == IF Deploys(run.job) THEN FullTag(run.commit) ELSE order[run.job].tag
<1>4. tag \in Tags
  BY <1>1, <1>2, NoneAreTyped DEF Rolls, Deploys, OrdersGoForward, OrderOf
<1>5. CASE UNCHANGED <<envFile, left>> /\ Fail
  <2>1. HostTypes'
    BY <1>3, <1>5 DEF HostTypes
  <2>2. GoodRolloutIsKept' /\ RestartChangesNothing'
    BY <1>3, <1>5, HostStays DEF RunFacts, SameStack
  <2> QED BY <1>1, <1>5, <2>1, <2>2, FailKeeps DEF AllKept, RunFacts
<1>6. CASE /\ envFile' = [tag |-> tag, env |-> order[run.job].env, there |-> TRUE]
           /\ left' = NoStack
           /\ Goto(IF Deploys(run.job) THEN "build" ELSE "up")
  <2> DEFINE pc == IF Deploys(run.job) THEN "build" ELSE "up"
  <2>1. /\ RunTypes' /\ OneRun'
        /\ run'.job = run.job /\ run'.commit = run.commit /\ run'.info = run.info
        /\ run'.pc = pc
    BY <1>1, <1>6, GoesOn
  <2>2. /\ envFile'.tag = tag /\ envFile'.env = order[run.job].env /\ envFile'.there
    BY <1>6
  <2>3. HostTypes'
    BY <1>1, <1>3, <1>4, <1>6, NoStackTyped DEF HostTypes, OrderTypes
  <2>4. GoodRolloutIsKept' /\ RestartChangesNothing'
    BY <1>6 DEF GoodRolloutIsKept, RestartChangesNothing
  <2>5. StepsOfTheirKind'
    BY <1>2, <2>1 DEF StepsOfTheirKind, Deploys, Rolls, agentOnly, dbVars
  <2>6. CommitIsCheckedOut'
    BY <1>1, <1>2, <1>3, <2>1, NoneAreTyped DEF CommitIsCheckedOut, Deploys, RunFacts, agentOnly, dbVars
  <2>7. WhatIsBuiltIsServed'
    BY <1>4, <1>6, <2>1, <2>2 DEF WhatIsBuiltIsServed, Deploys, agentOnly, dbVars
  <2> QED BY <2>1, <2>3, <2>4, <2>5, <2>6, <2>7 DEF AllKept, RunFacts
<1> QED BY <1>5, <1>6 DEF WriteImage, Payload, Deploys

(* compose build makes the tag's image from the commit.                    *)
LEMMA BuildKeeps ==
    ASSUME HostHyp, Build
    PROVE  AllKept
<1> USE TypesApart DEF HostHyp
<1>1. run.job \in Jobs /\ run.pc = "build"
  BY RunIsOn DEF Build, At, RunFacts
<1>2. /\ Deploys(run.job) /\ repo.head = run.commit /\ run.commit \in Commits
      /\ left = NoStack /\ envFile.there /\ envFile.env = order[run.job].env
      /\ envFile.tag \in Tags /\ envFile.tag = FullTag(run.commit)
  BY <1>1, NoneAreTyped DEF RunFacts, StepsOfTheirKind, CommitIsCheckedOut, WhatIsBuiltIsServed
<1>3. UNCHANGED <<repo, envFile, stack, left>>
  BY DEF Build
<1>4. images' = images \/ images' = [images EXCEPT ![envFile.tag] = repo.head]
  BY DEF Build
<1>5. HostTypes'
  BY <1>2, <1>3, <1>4 DEF HostTypes
<1>6. GoodRolloutIsKept' /\ RestartChangesNothing'
  BY <1>2, <1>3 DEF GoodRolloutIsKept, RestartChangesNothing
<1>7. CASE Fail
  BY <1>1, <1>5, <1>6, <1>7, FailKeeps DEF AllKept, RunFacts
<1>8. CASE Goto("up") /\ images' = [images EXCEPT ![envFile.tag] = repo.head]
  <2>1. /\ RunTypes' /\ OneRun'
        /\ run'.job = run.job /\ run'.commit = run.commit /\ run'.info = run.info
        /\ run'.pc = "up"
    BY <1>1, <1>8, GoesOn
  <2>2. StepsOfTheirKind'
    BY <1>2, <2>1 DEF StepsOfTheirKind, Deploys, Rolls, agentOnly, dbVars
  <2>3. CommitIsCheckedOut'
    BY <1>1, <1>2, <1>3, <2>1, NoneAreTyped DEF CommitIsCheckedOut, Deploys, RunFacts, agentOnly, dbVars
  <2>4. images'[envFile.tag] = run.commit
    BY <1>2, <1>8 DEF HostTypes
  <2>5. WhatIsBuiltIsServed'
    BY <1>2, <1>3, <2>1, <2>4 DEF WhatIsBuiltIsServed, Deploys, agentOnly, dbVars
  <2> QED BY <1>5, <1>6, <2>1, <2>2, <2>3, <2>5 DEF AllKept, RunFacts
<1> QED BY <1>7, <1>8 DEF Build

(* compose up makes the containers from the image and the variables.       *)
LEMMA UpKeeps ==
    ASSUME HostHyp, Up
    PROVE  AllKept
<1> USE TypesApart DEF HostHyp
<1>1. run.job \in Jobs /\ run.pc = "up"
  BY RunIsOn DEF Up, At, RunFacts
<1>2. /\ Rolls(run.job) /\ left = NoStack /\ envFile.there
      /\ envFile.env = order[run.job].env
      /\ envFile.tag \in Tags
      /\ Deploys(run.job) => /\ envFile.tag = FullTag(run.commit)
                             /\ images[envFile.tag] = run.commit
                             /\ repo.head = run.commit /\ run.commit \in Commits
  BY <1>1, NoneAreTyped DEF RunFacts, StepsOfTheirKind, CommitIsCheckedOut, WhatIsBuiltIsServed
<1>3. UNCHANGED <<repo, envFile, left>>
  BY DEF Up
<1>4. GoodRolloutIsKept' /\ RestartChangesNothing'
  BY <1>2, <1>3 DEF GoodRolloutIsKept, RestartChangesNothing
<1>5. CASE RecreateFails /\ Fail
  <2>1. HostTypes'
    BY <1>3, <1>5 DEF RecreateFails, HostTypes
  <2> QED BY <1>1, <1>4, <1>5, <2>1, FailKeeps DEF AllKept, RunFacts
<1>6. CASE Recreate /\ Goto("gate")
  <2>1. /\ RunTypes' /\ OneRun'
        /\ run'.job = run.job /\ run'.commit = run.commit /\ run'.info = run.info
        /\ run'.pc = "gate"
    BY <1>1, <1>6, GoesOn
  <2>2. HostTypes'
    BY <1>3, <1>6, RecreateMakes DEF HostTypes
  <2>3. StepsOfTheirKind'
    BY <1>2, <2>1 DEF StepsOfTheirKind, Deploys, Rolls, agentOnly, dbVars
  <2>4. CommitIsCheckedOut'
    BY <1>1, <1>2, <1>3, <2>1, NoneAreTyped DEF CommitIsCheckedOut, Deploys, RunFacts, agentOnly, dbVars
  <2>5. /\ images'[envFile.tag] # 0
        /\ stack'.commit = images'[envFile.tag] /\ stack'.env = envFile.env
        /\ Deploys(run.job) => images'[envFile.tag] = run.commit
    BY <1>2, <1>6, RecreateMakes, NoneAreTyped
  <2>6. WhatIsBuiltIsServed'
    BY <1>2, <1>3, <2>1, <2>5 DEF WhatIsBuiltIsServed, Deploys, agentOnly, dbVars
  <2> QED BY <1>4, <2>1, <2>2, <2>3, <2>4, <2>6 DEF AllKept, RunFacts
<1> QED BY <1>5, <1>6 DEF Up

(* The gate opens on running containers, which are a good rollout now.     *)
LEMMA HealthGateKeeps ==
    ASSUME HostHyp, HealthGate
    PROVE  AllKept
<1> USE TypesApart DEF HostHyp
<1>1. run.job \in Jobs /\ run.pc = "gate"
  BY RunIsOn DEF HealthGate, At, RunFacts
<1>2. /\ Rolls(run.job) /\ envFile.there
      /\ envFile.env = order[run.job].env
      /\ envFile.tag \in Tags
      /\ stack.commit = images[envFile.tag] /\ stack.commit # 0 /\ stack.env = envFile.env
      /\ Deploys(run.job) => images[envFile.tag] = run.commit
  BY <1>1, NoneAreTyped DEF RunFacts, StepsOfTheirKind, WhatIsBuiltIsServed
<1>3. UNCHANGED <<repo, envFile, images, stack>>
  BY DEF HealthGate
<1>4. CASE Fail /\ UNCHANGED left
  <2>1. HostTypes'
    BY <1>3, <1>4 DEF HostTypes
  <2>2. GoodRolloutIsKept' /\ RestartChangesNothing'
    BY <1>3, <1>4, HostStays DEF RunFacts, SameStack
  <2> QED BY <1>1, <1>4, <2>1, <2>2, FailKeeps DEF AllKept, RunFacts
<1>5. CASE stack.up = "running" /\ Succeed /\ left' = stack
  <2>1. /\ RunTypes' /\ OneRun'
        /\ run'.job = run.job /\ run'.commit = run.commit /\ run'.info = run.info
        /\ run'.pc = "report" /\ run'.verdict = "success"
    BY <1>1, <1>5, GoesOn
  <2>2. HostTypes'
    BY <1>3, <1>5 DEF HostTypes
  <2>3. StepsOfTheirKind'
    BY <2>1 DEF StepsOfTheirKind, Verdicts
  <2>4. CommitIsCheckedOut'
    BY <1>1, <2>1, NoneAreTyped DEF CommitIsCheckedOut, RunFacts, agentOnly, dbVars
  <2>5. WhatIsBuiltIsServed'
    BY <1>2, <1>3, <1>5, <2>1 DEF WhatIsBuiltIsServed, Deploys, Rolls, agentOnly, dbVars
  <2>6. GoodRolloutIsKept' /\ RestartChangesNothing'
    BY <1>2, <1>3, <1>5 DEF GoodRolloutIsKept, RestartChangesNothing
  <2> QED BY <2>1, <2>2, <2>3, <2>4, <2>5, <2>6 DEF AllKept, RunFacts
<1> QED BY <1>4, <1>5 DEF HealthGate

(* Containers that come up or crash are the ones that were made.           *)
LEMMA BootKeeps ==
    ASSUME HostHyp, Boot
    PROVE  AllKept
<1> USE TypesApart DEF HostHyp
<1>1. UNCHANGED <<run, repo, envFile, images, left>> /\ stack.up = "starting"
  BY DEF Boot
<1>2. PICK s \in {"running", "crashed"} : stack' = [stack EXCEPT !.up = s]
  BY DEF Boot
<1>3. stack'.commit = stack.commit /\ stack'.env = stack.env
  BY <1>2 DEF HostTypes
<1>4. HostTypes' /\ RunTypes'
  BY <1>1, <1>2 DEF HostTypes, RunTypes, agentOnly
<1>5. GoodRolloutIsKept' /\ RestartChangesNothing'
  BY <1>1, <1>3, HostStays DEF RunFacts, SameStack
<1>6. OneRun' /\ StepsOfTheirKind' /\ CommitIsCheckedOut'
  BY <1>1 DEF RunFacts, OneRun, StepsOfTheirKind, CommitIsCheckedOut, Deploys, Rolls, agentOnly, dbVars
<1>7. WhatIsBuiltIsServed'
  BY <1>1, <1>3 DEF RunFacts, WhatIsBuiltIsServed, Deploys, Rolls, agentOnly, dbVars
<1> QED BY <1>4, <1>5, <1>6, <1>7 DEF AllKept, RunFacts

(* An operation without a rollout ends, well or not.                       *)
LEMMA PowerEnds ==
    ASSUME HostHyp, At("power"), Succeed \/ Fail
    PROVE  RunTypes' /\ OneRun' /\ StepsOfTheirKind' /\ CommitIsCheckedOut' /\ WhatIsBuiltIsServed'
<1> USE TypesApart DEF HostHyp
<1>1. run.job \in Jobs /\ run.pc = "power"
  BY RunIsOn DEF At, RunFacts
<1>2. ~Rolls(run.job) /\ run.commit = 0
  BY <1>1, NoneAreTyped DEF RunFacts, StepsOfTheirKind, CommitIsCheckedOut
<1>3. CASE Fail
  BY <1>1, <1>3, FailKeeps
<1>4. CASE Succeed
  <2>1. /\ RunTypes' /\ OneRun'
        /\ run'.job = run.job /\ run'.commit = run.commit /\ run'.info = run.info
        /\ run'.pc = "report" /\ run'.verdict = "success"
    BY <1>1, <1>4, GoesOn
  <2>2. StepsOfTheirKind'
    BY <2>1 DEF StepsOfTheirKind, Verdicts
  <2>3. CommitIsCheckedOut'
    BY <1>1, <1>2, <2>1, NoneAreTyped DEF CommitIsCheckedOut, RunFacts, agentOnly, dbVars
  <2>4. WhatIsBuiltIsServed'
    BY <1>2, <2>1 DEF WhatIsBuiltIsServed, Deploys, Rolls, agentOnly, dbVars
  <2> QED BY <2>1, <2>2, <2>3, <2>4
<1> QED BY <1>3, <1>4

(* Start, stop and destroy make no containers, and a restart makes them    *)
(* again from what the last good rollout left.                             *)
LEMMA PowerKeeps ==
    ASSUME HostHyp, StartApp \/ StopApp \/ RestartApp \/ DestroyApp
    PROVE  AllKept
<1> USE TypesApart DEF HostHyp
<1>1. UNCHANGED <<repo, envFile, left>> /\ At("power") /\ (Succeed \/ Fail)
  BY DEF StartApp, StopApp, RestartApp, DestroyApp, Power
<1>2. RunTypes' /\ OneRun' /\ StepsOfTheirKind' /\ CommitIsCheckedOut' /\ WhatIsBuiltIsServed'
  BY <1>1, PowerEnds
<1>3. CASE images' = images /\ stack' \in {stack, NoStack}
  <2>1. HostTypes'
    BY <1>1, <1>3, NoStackTyped DEF HostTypes
  <2>2. GoodRolloutIsKept' /\ RestartChangesNothing'
    BY <1>1, <1>3, HostStays, NoStackTyped DEF RunFacts, SameStack
  <2> QED BY <1>2, <2>1, <2>2 DEF AllKept, RunFacts
<1>4. ASSUME images' = images,
             NEW u \in {"none", "starting", "running", "stopped"},
             stack' = [stack EXCEPT !.up = u], stack.up = "none" => u = "none"
      PROVE  AllKept
  <2>1. HostTypes'
    BY <1>1, <1>4 DEF HostTypes
  <2>2. SameStack
    BY <1>4 DEF SameStack, HostTypes
  <2>3. GoodRolloutIsKept' /\ RestartChangesNothing'
    BY <1>1, <1>4, <2>2, HostStays DEF RunFacts
  <2> QED BY <1>2, <2>1, <2>3 DEF AllKept, RunFacts
<1>5. CASE Recreate
  <2>1. HostTypes'
    BY <1>1, <1>5, RecreateMakes DEF HostTypes
  <2>2. GoodRolloutIsKept' /\ RestartChangesNothing'
    BY <1>1, <1>5, RecreateMakes DEF RunFacts, GoodRolloutIsKept, RestartChangesNothing
  <2> QED BY <1>2, <2>1, <2>2 DEF AllKept, RunFacts
<1>6. ASSUME StartApp PROVE AllKept
  <2>1. images' = images
    BY <1>6 DEF StartApp
  <2>2. CASE stack' = stack
    BY <1>3, <2>1, <2>2
  <2>3. CASE stack.up # "none" /\ stack' = [stack EXCEPT !.up = IF @ = "running" THEN @ ELSE "starting"]
    BY <1>4, <2>1, <2>3
  <2> QED BY <1>6, <2>2, <2>3 DEF StartApp
<1>7. ASSUME images' = images,
             stack' \in {stack, [stack EXCEPT !.up = IF @ = "none" THEN @ ELSE "stopped"]}
      PROVE  AllKept
  BY <1>3, <1>4, <1>7
<1>8. ASSUME StopApp PROVE AllKept
  BY <1>7, <1>8 DEF StopApp
<1>9. ASSUME DestroyApp PROVE AllKept
  BY <1>3, <1>7, <1>9 DEF DestroyApp
<1>10. ASSUME RestartApp PROVE AllKept
  BY <1>5, <1>7, <1>10 DEF RestartApp, RecreateFails
<1> QED BY <1>6, <1>8, <1>9, <1>10

(* Every step of a pipeline, whatever command fails in it.                 *)
LEMMA HostKeeps ==
    ASSUME HostHyp, HostStep
    PROVE  AllKept
BY CheckoutKeeps, ReadHeadKeeps, WriteVarsKeeps, WriteImageKeeps, BuildKeeps, UpKeeps,
   HealthGateKeeps, BootKeeps, PowerKeeps
DEF HostStep, Pipeline

-----------------------------------------------------------------------------
(* The theorems.                                                           *)

(* An order that is being written is of a job nobody runs.                 *)
LEMMA OrdersKeepRuns ==
    ASSUME RolloutTypeOK, OrdersGoForward, RunFacts,
           NEW j \in Jobs, OrderingStep(j) \/ WriteStep(j),
           UNCHANGED <<userVars, batch, run, hostVars, untold>>
    PROVE  RunFacts'
<1> USE TypesApart
<1>1. stage[j] # "done"
  BY DEF OrderingStep, WriteStep, OrderDeploy, OrderRollback, OrderOther, Requested, InsertRow, Snapshot,
         InsertJob, OrderFails
<1>2. job[j] = "none"
  BY <1>1 DEF OrdersGoForward, OrderOf
<1>3. /\ job' = job \/ job' = [job EXCEPT ![j] = "queued"]
      /\ \A h \in Jobs \ {j} : order'[h] = order[h] /\ dep'[h] = dep[h]
  BY DEF OrderingStep, WriteStep, OrderDeploy, OrderRollback, OrderOther, Requested, InsertRow, Snapshot,
         InsertJob, OrderFails, OrderTypes, DepTypes
<1>4. OneRun'
  BY <1>2, <1>3 DEF RunFacts, OneRun, RunTypes, JobTypes
<1>5. run.job # 0 => order'[run.job] = order[run.job] /\ dep'[run.job] = dep[run.job]
  BY <1>2, <1>3 DEF RunFacts, OneRun, RunTypes
<1>6. StepsOfTheirKind' /\ CommitIsCheckedOut' /\ WhatIsBuiltIsServed'
  BY <1>5 DEF RunFacts, StepsOfTheirKind, CommitIsCheckedOut, WhatIsBuiltIsServed, Rolls, Deploys, hostVars
<1>7. GoodRolloutIsKept' /\ RestartChangesNothing'
  BY DEF RunFacts, GoodRolloutIsKept, RestartChangesNothing, hostVars
<1> QED BY <1>4, <1>6, <1>7 DEF RunFacts

(* The invariant, from its parts.                                          *)
LEMMA RolloutInvIs == RolloutInv <=> RolloutTypeOK /\ OrdersGoForward /\ RunFacts
BY DEF RolloutInv, RunFacts

(* The parts of the invariant, as the steps below establish them.          *)
LEMMA RolloutInvNext ==
    ASSUME UserTypes', OrderTypes', DepTypes', JobTypes', RunTypes', HostTypes',
           OrdersGoForward', RunFacts'
    PROVE  RolloutInv'
<1>1. RolloutTypeOK'
  BY DEF RolloutTypeOK, UserTypes, OrderTypes, DepTypes, JobTypes, RunTypes, HostTypes
<1> QED BY <1>1 DEF RolloutInv, RunFacts

(* Before the first order nothing is recorded, run or served.              *)
LEMMA RolloutBegins ==
    ASSUME RolloutInit
    PROVE  RolloutInv
<1> USE TypesApart DEF RolloutInit
<1>1. UserTypes
  <2>1. Cardinality(Branches) \in Nat /\ Cardinality(Branches) # 0
    BY RolloutAssumption, FS_CardinalityType, FS_EmptySet
  <2>2. commits \in Commits
    BY <2>1, RolloutAssumption DEF Commits
  <2>3. 1..commits \subseteq Commits
    BY <2>2, NoneAreTyped DEF Commits
  <2> QED BY <2>2, <2>3, NoneAreTyped DEF UserTypes
<1>2. OrderTypes
  <2>1. NoOrder \in OrderSet
    BY NoOrderTyped
  <2> QED BY <2>1 DEF OrderTypes, OrderSet
<1>3. DepTypes
  <2>1. NoDep \in [id : Nat, status : {"none", "pending", "deploying"} \cup Verdicts,
                   hash : Commits \cup {0}, snapshot : Environments, prev : Jobs \cup {0}]
    BY NoneAreTyped DEF NoDep
  <2> QED BY <2>1 DEF DepTypes
<1>4. JobTypes
  BY DEF JobTypes
<1>5. RunTypes
  BY DEF RunTypes, NoRun
<1>6. HostTypes
  <2>1. repo \in [cloned : Branches \cup {"none", "partial"}, head : Commits \cup {0}]
    BY DEF NoRepo
  <2>2. envFile \in [tag : Tags \cup {NoTag}, env : Environments, there : BOOLEAN]
    <3>1. NoVars \in Environments
      BY NoneAreTyped
    <3> HIDE DEF NoTag, Tags, Environments, NoVars
    <3> QED BY <3>1
  <2> QED BY <2>1, <2>2, NoStackTyped DEF HostTypes
<1>7. OrdersGoForward
  <2>1. {j \in Jobs : stage[j] # "none"} = {}
    OBVIOUS
  <2>2. \A j \in Jobs : OrderOf(j)
    BY DEF OrderOf, Rolls, Deploys, NoOrder, NoDep
  <2> QED BY <2>1, <2>2, FS_EmptySet DEF OrdersGoForward
<1>8. RunFacts
  BY DEF RunFacts, OneRun, StepsOfTheirKind, CommitIsCheckedOut, WhatIsBuiltIsServed,
         GoodRolloutIsKept, RestartChangesNothing, NoRun
<1> QED BY <1>1, <1>2, <1>3, <1>4, <1>5, <1>6, <1>7, <1>8, RolloutInvIs

(* A step that changes none of the variables keeps it.                     *)
LEMMA RolloutStutters ==
    ASSUME RolloutInv, UNCHANGED rolloutVars
    PROVE  RolloutInv'
<1> USE DEF rolloutVars, userVars, dbVars, hostVars
<1>1. RolloutTypeOK'
  BY DEF RolloutInv, RolloutTypeOK
<1>2. OrdersGoForward'
  BY DEF RolloutInv, OrdersGoForward, OrderOf, Rolls, Deploys
<1>3. RunFacts'
  BY DEF RolloutInv, RunFacts, OneRun, StepsOfTheirKind, CommitIsCheckedOut, WhatIsBuiltIsServed,
         GoodRolloutIsKept, RestartChangesNothing, Rolls, Deploys
<1> QED BY <1>1, <1>2, <1>3 DEF RolloutInv, RunFacts

(* Every action keeps the invariant.                                       *)
LEMMA RolloutStep ==
    ASSUME RolloutInv, [RolloutNext]_rolloutVars
    PROVE  RolloutInv'
<1> USE RolloutInvIs, TypesApart
<1>1. CASE UserStep /\ UNCHANGED <<dbVars, batch, run, hostVars, untold>>
  <2> USE DEF dbVars, hostVars
  <2>1. UserTypes' /\ events' \in Nat
    BY <1>1, UsersKeepTypes
  <2>2. OrderTypes' /\ DepTypes' /\ JobTypes' /\ RunTypes' /\ HostTypes'
    BY <1>1, <2>1 DEF OrderTypes, DepTypes, JobTypes, RunTypes, HostTypes
  <2>3. OrdersGoForward'
    BY <1>1 DEF OrdersGoForward, OrderOf, Rolls, Deploys
  <2>4. RunFacts'
    BY <1>1 DEF RunFacts, OneRun, StepsOfTheirKind, CommitIsCheckedOut, WhatIsBuiltIsServed,
                GoodRolloutIsKept, RestartChangesNothing, Rolls, Deploys
  <2> QED BY <2>1, <2>2, <2>3, <2>4, RolloutInvNext
<1>2. CASE /\ \E j \in Jobs : OrderingStep(j) \/ WriteStep(j)
           /\ UNCHANGED <<userVars, batch, run, hostVars, untold>>
  <2>1. PICK j \in Jobs : OrderingStep(j) \/ WriteStep(j)
    BY <1>2
  <2>2. OrderTypes' /\ DepTypes' /\ JobTypes' /\ OrdersGoForward'
    BY <2>1, RequestKeeps, RowWriteKeeps
  <2>3. Event \/ events' = events
    BY <2>1 DEF OrderingStep, WriteStep, OrderDeploy, OrderRollback, OrderOther, Requested, InsertRow,
                Snapshot, InsertJob, OrderFails
  <2>4. UserTypes' /\ RunTypes' /\ HostTypes'
    BY <1>2, <2>3 DEF UserTypes, RunTypes, HostTypes, Event, userVars, hostVars
  <2>5. RunFacts'
    BY <1>2, <2>1, OrdersKeepRuns
  <2> QED BY <2>2, <2>4, <2>5, RolloutInvNext
<1>3. CASE RolloutAgentStep /\ UNCHANGED <<userVars, order, stage, hostVars>>
  <2>1. DepTypes' /\ JobTypes' /\ RunTypes'
    BY <1>3, AgentKeepsTypes DEF RunFacts
  <2>2. UserTypes' /\ OrderTypes' /\ HostTypes'
    BY <1>3 DEF UserTypes, OrderTypes, HostTypes, userVars, hostVars
  <2>3. OrdersGoForward'
    BY <1>3, AgentKeepsOrders DEF RunFacts
  <2>4. RunFacts'
    BY <1>3, AgentKeepsRuns
  <2> QED BY <2>1, <2>2, <2>3, <2>4, RolloutInvNext
<1>4. CASE HostStep /\ UNCHANGED agentOnly
  <2>1. AllKept
    BY <1>4, HostKeeps DEF HostHyp
  <2>2. UserTypes' /\ OrderTypes' /\ DepTypes' /\ JobTypes'
    BY <1>4 DEF UserTypes, OrderTypes, DepTypes, JobTypes, agentOnly, userVars, dbVars
  <2>3. OrdersGoForward'
    BY <1>4 DEF OrdersGoForward, OrderOf, Rolls, Deploys, agentOnly, dbVars
  <2> QED BY <2>1, <2>2, <2>3, RolloutInvNext DEF AllKept
<1> QED BY <1>1, <1>2, <1>3, <1>4, StepsApart, RolloutStutters

(* Orders, runs, checkouts, images and containers fit together in every    *)
(* state, whatever fails, dies or is edited in between.                    *)
THEOREM RolloutIsInvariant == RolloutSpec => []RolloutInv
<1>1. RolloutInit => RolloutInv
  BY RolloutBegins
<1> QED BY <1>1, RolloutStep, PTL DEF RolloutSpec

(* Stops, starts, restarts and failed pulls change nothing of what the last*)
(* good rollout left (executor.go).                                        *)
THEOREM RestartsChangeNothing == RolloutSpec => []RestartChangesNothing
<1>1. RolloutInv => RestartChangesNothing
  BY DEF RolloutInv
<1> QED BY <1>1, RolloutIsInvariant, PTL

(* "Success only counts when the app is actually running" (README.md): what*)
(* a successful deployment recorded is what serves then.                   *)
THEOREM SuccessServes == RolloutSpec => SuccessServesItsRecord
<1>1. ASSUME RolloutInv, [RolloutNext]_rolloutVars, NEW j \in Jobs,
             dep'[j].status = "success", dep[j].status # "success"
      PROVE  /\ stack.up = "running" /\ stack.env = order[j].env
             /\ order[j].kind = "deploy" /\ j \notin untold => stack.commit = dep[j].hash
  <2> USE RolloutInvIs, TypesApart
  <2>1. CASE Report
    <3>1. /\ run.pc = "report" /\ run.info = 0
          /\ dep' # dep => /\ run.job \in Rows
                          /\ dep' = [dep EXCEPT ![run.job].status = run.verdict]
      BY <2>1 DEF Report
    <3>2. j = run.job /\ j \in Rows /\ run.verdict = "success"
      BY <1>1, <3>1 DEF DepTypes, Rows
    <3>3. j # 0 /\ Rolls(j)
      BY <1>1, <3>2, NoneAreTyped DEF Rows, OrdersGoForward, OrderOf
    <3>4. /\ stack.up = "running" /\ stack.env = order[j].env
          /\ Deploys(j) => stack.commit = run.commit /\ run.commit # 0
      BY <1>1, <3>1, <3>2, <3>3 DEF RunFacts, WhatIsBuiltIsServed
    <3>5. run.commit # 0 /\ j \notin untold => dep[j].hash = run.commit
      BY <1>1, <3>1, <3>2, <3>3 DEF RunFacts, CommitIsCheckedOut
    <3> QED BY <3>4, <3>5 DEF Deploys
  <2>2. CASE \E i \in Jobs : OrderingStep(i) \/ WriteStep(i)
    <3>1. dep'[j] = dep[j] \/ dep'[j].status = "pending" \/ dep'[j].status = dep[j].status
      <4>1. CASE \E i \in Jobs : OrderingStep(i) \/ InsertJob(i) \/ OrderFails(i)
        BY <4>1 DEF OrderingStep, OrderDeploy, OrderRollback, OrderOther, Requested, InsertJob, OrderFails
      <4>2. CASE \E i \in Jobs : InsertRow(i)
        BY <1>1, <4>2 DEF InsertRow, DepTypes, NoDep
      <4>3. CASE \E i \in Jobs : Snapshot(i)
        BY <1>1, <4>3 DEF Snapshot, DepTypes
      <4> QED BY <2>2, <4>1, <4>2, <4>3 DEF WriteStep
    <3> QED BY <1>1, <3>1
  <2>3. CASE RolloutAgentStep /\ ~Report
    <3>1. CASE \E i \in Jobs : Retry(i) \/ Begin(i) \/ Reap(i)
      BY <1>1, <3>1 DEF Retry, Begin, Reap, DepTypes
    <3>2. CASE Poll \/ Crash
      BY <1>1, <3>2 DEF Poll, Crash, dbVars
    <3>3. CASE SendCommitInfo
      BY <1>1, <3>3 DEF SendCommitInfo, DepTypes
    <3> QED BY <2>3, <3>1, <3>2, <3>3 DEF RolloutAgentStep
  <2>4. CASE dep' = dep
    BY <1>1, <2>4
  <2> QED BY <1>1, <2>1, <2>2, <2>3, <2>4, StepsApart DEF dbVars, agentOnly, rolloutVars
<1>2. RolloutInv /\ [RolloutNext]_rolloutVars =>
         [\A j \in Jobs :
             dep'[j].status = "success" /\ dep[j].status # "success" =>
                /\ stack.up = "running"
                /\ stack.env = order[j].env
                /\ order[j].kind = "deploy" /\ j \notin untold
                      => stack.commit = dep[j].hash]_rolloutVars
  BY <1>1
<1> QED BY <1>2, RolloutIsInvariant, PTL DEF RolloutSpec, SuccessServesItsRecord

(* What the diff view shows of a deploy is what its payload deploys        *)
(* (application/service.go, deployment/service.go).                        *)
THEOREM DiffsExplain == RolloutSpec => []DiffExplainsDeploy
<1>1. ASSUME RolloutInv, NEW j \in Rows
      PROVE  LET d == Diff(j)  p == dep[j].prev IN
             /\ order[j].kind = "deploy" /\ job[j] # "none" => dep[j].snapshot = order[j].env
             /\ p # 0 => dep[p].status = "success" /\ dep[p].id < dep[j].id
             /\ dep[j].snapshot =
                   [k \in VarNames |-> IF k \in d.removals THEN Unset
                                  ELSE IF k \in d.additions \cup d.updates
                                       THEN dep[j].snapshot[k]
                                  ELSE IF p = 0 THEN Unset ELSE dep[p].snapshot[k]]
  <2> USE RolloutInvIs, TypesApart
  <2> DEFINE d == Diff(j)
             p == dep[j].prev
             cur == dep[j].snapshot
             base == IF p = 0 THEN NoVars ELSE dep[p].snapshot
  <2>1. j \in Jobs /\ OrderOf(j)
    BY <1>1 DEF Rows, OrdersGoForward
  <2>2. cur \in Environments
    BY <1>1, <2>1 DEF DepTypes
  <2>3. /\ d.additions = {k \in VarNames : cur[k] # Unset /\ base[k] = Unset}
        /\ d.updates = {k \in VarNames : Unset \notin {cur[k], base[k]} /\ cur[k] # base[k]}
        /\ d.removals = {k \in VarNames : cur[k] = Unset /\ base[k] # Unset}
    BY DEF Diff
  <2>4. \A k \in VarNames : base[k] = IF p = 0 THEN Unset ELSE dep[p].snapshot[k]
    BY DEF NoVars
  <2>5. ASSUME NEW k \in VarNames
        PROVE  cur[k] = IF k \in d.removals THEN Unset
                        ELSE IF k \in d.additions \cup d.updates THEN cur[k]
                        ELSE IF p = 0 THEN Unset ELSE dep[p].snapshot[k]
    <3> HIDE DEF d, base
    <3> QED BY <2>3, <2>4
  <2>6. cur = [k \in VarNames |-> IF k \in d.removals THEN Unset
                                 ELSE IF k \in d.additions \cup d.updates THEN cur[k]
                                 ELSE IF p = 0 THEN Unset ELSE dep[p].snapshot[k]]
    <3> HIDE DEF d
    <3> QED BY <2>2, <2>5 DEF Environments
  <2>7. order[j].kind = "deploy" /\ job[j] # "none" => cur = order[j].env
    BY <2>1 DEF OrderOf, Deploys
  <2>8. p # 0 => dep[p].status = "success" /\ dep[p].id < dep[j].id
    BY <2>1 DEF OrderOf
  <2> QED BY <2>6, <2>7, <2>8
<1>2. RolloutInv => DiffExplainsDeploy
  BY <1>1 DEF DiffExplainsDeploy
<1> QED BY <1>2, RolloutIsInvariant, PTL

=============================================================================
