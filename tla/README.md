# HorizonX in TLA+

HorizonX is a control plane (Go, Postgres, Redis) with an agent on every app
host.  Operators order operations on applications; the server turns them into
rows of a jobs table; the agent polls the rows, runs `docker compose`, and
reports.  This directory models the parts of `src/` where state is shared
between processes, requests and goroutines, checks them with TLC on small
instances and proves theorems about them with TLAPS.

## 1. Inventory

| Component (`src/internal/...`) | State it keeps | Operations | Talks to |
|---|---|---|---|
| Job queue: `adapters/postgres/job_repo.go`, `application/job/service.go`, `adapters/http/job_handler.go` | `jobs` rows: status, queued/started/finished times | Create, Retry, Start, Finish, pending list | event bus, agent, workers |
| Scheduled workers: `workers/*.go` | tickers | reaper, metrics collection, health checks, nightly cleanup | job service |
| Agent job worker: `agent/job_worker.go`, `agent/http_client.go` | the batch, the worker goroutines, the keyed mutex | poll, lock, start, execute, drain logs, finish | server over HTTP, executor |
| Keyed mutex: `agent/keyed_mutex.go` | map from key to mutex | Lock, unlock closure | job worker |
| Event bus: `event/bus.go` | subscribers by event | Publish, synchronously and in order | every service |
| Application service: `application/application/*` | `applications.status`, `deleted_at` | Deploy, Rollback, Start, Stop, Restart, Delete, health | job and deployment services |
| Deployment service: `application/deployment/*` | `deployments.status`, commit, env snapshot | Create, listeners, Diff | bus, webhook |
| Executor: `agent/executor/executor.go` | work directories, containers, image tags | deploy, rollback, start, stop, restart, destroy, health check | docker, git |
| Agent connection: `agent/conn.go` | the shared websocket pointer, the send queue | reconnect loop, pumps | agent router |
| Agent router: `adapters/ws/agentws/*` | connected agents, `servers.is_online` | register, unregister | server service |
| User hub: `adapters/ws/userws/*` | clients, channels, bounded buffers | register, subscribe, broadcast | bus subscribers |
| Metrics collector: `metrics/*.go` | last counters, buffer, Redis stream | collect, latest, flush, load | job worker, Redis |
| Metrics service: `application/metrics/service.go` | buffer, latest, histories | ingest, flush, broadcast | Postgres, Redis, bus |
| Webhook notifier: `adapters/webhook/notifier.go` | settings, bounded queue | enqueue or drop oldest, deliver, reload | bus |
| Sessions: `application/auth`, `application/account`, `adapters/redis/session_store.go` | sessions and the set of a user's sessions | login, logout, revoke all | middleware |
| Rate limiter: `adapters/http/middleware/ratelimit` | hits per key | Allow | router |
| Users: `application/user` | user rows | create, update, delete | sessions |
| Servers: `application/server` | credentials, is_online | register, rotate, authorise | router |
| Installer and upgrade: `app/upgrade.go`, `app/install_server.go`, `app/instance.go` | files, volumes, units, containers of one host | install, upgrade, replace the binary | systemd, docker |
| Logs, audit log, roles, settings, routing, configuration | rows | CRUD | |

What is hard here, and what therefore makes each component correct:

* **Job queue.**  A request may be lost, answered too late, or served after its
  caller died; a row may be re-queued by an operator, a scheduled worker or
  both; a verdict may come from the agent or from the reaper.  No queueing may
  be executed twice, no verdict may be overwritten, a verdict must be that of
  the run it ends, and every queued job must get one.
* **Agent.**  Several workers share one application's directory; a poll must
  wait for the last batch and every batch must end; the process may die at any
  point.
* **Applications and deployments.**  Their status is a copy of what happened to
  a job, made by listeners before a call returns, and also written ahead of the
  job and by health reports.  Once all is quiet the copies must agree, and no
  application may wait for an operation nobody performs.
* **Rollouts.**  What a deployment's record says, what its snapshot and diff
  show, what is in `.env`, which image a tag names and what the containers were
  created from are five copies of one decision, written at five moments, each of
  which may fail.  A success must serve what its record says.
* **Health.**  A verdict is read off the output of `docker compose ps`, a text
  collected by two goroutines, over several containers in any order.
* **Connections and hub.**  Goroutines share a connection pointer and close each
  other's channels; requests of one client travel in several Go channels and
  may be taken in any order; full buffers drop.
* **Accounts.**  Requests read a row or a Redis set and write later; revocation
  must reach every session, an update must not undo another.
* **Metrics and webhook.**  Bounded buffers between goroutines, failing inserts,
  counters that wrap, histories read back in the other order.
* **Installer.**  Commands on one host that may be killed between any two steps
  and must be safe to run again.

Every hazard found in the code is listed at its line in `PROJECT.json`
("hazards"), with the properties that watch it, or why none does.

## 2. Modules

```
JobLifecycle      what the table promises of one row       (abstract)
     ^ refined by
JobQueue  ------ INSTANCE -----> KeyedMutex
     ^ EXTENDS
AppLifecycle

SampleLedger      what the server promises of its samples  (abstract)
     ^ refined by
MetricsService

Rollout   HealthGate   UserHub   AgentLink   Accounts   RateLimiter
Meters    Collector    MetricsService   Webhook    Instance
     one component each, side by side in MCComponents and MCComponentsLive

KeyedMutex_proofs <- JobQueue_proofs <- AppLifecycle_proofs
Accounts_proofs   Accounts, RateLimiter
Host_proofs       Instance, HealthGate, Collector, Meters
Links_proofs      Webhook, AgentLink, UserHub, MetricsService
Rollout_proofs    Rollout
Components_proofs MCComponents: the last four and the keyed mutex at once
MC*: instance modules, one or several .cfg files each
```

### KeyedMutex
The two critical sections under `k.mu` (`Lookup`, `Cleanup`), the blocking
`m.Lock()` between them (`Acquire`) and the `m.Unlock()` outside `k.mu`
(`Unlock`) are the four atomic steps of `keyed_mutex.go`.  `locks` is the Go
map; `held` says which mutex objects are locked; `at`, `want` and `mref` are a
goroutine's program counter, key and captured `m`.  A mutex object is an element
of `Mutexes`; `&sync.Mutex{}` is any element nobody refers to.  `TryLock` may
fail on a locked mutex and, as Go's starvation mode allows, on a free one that
has a waiter; it may also succeed although there are waiters, which is what the
violation run shows.

### JobQueue
One server's rows, the calls that change them, the reaper and one agent
process.

* A row is `status`, `queuedAt` (the number of its queueing: the code's
  timestamps are told apart by order only) and `stale` (a running row whose
  `started_at` is older than `reapAfter`).  `startedBy` and `lastRun` are
  history: the queueing a run was started for, and the last one executed.
* A call is a record in a slot of `CallIds`: *sent*, then *done* when the
  database statement has committed, and gone when its events were published and
  its answer returned.  The agent's start and finish requests have both stages.
  A retry is *sent* when its handler has checked the status, and `Requeue` is
  the unconditional UPDATE.
* `CallFails` loses a request, `ClientTimeout` makes the agent give up,
  `Crash` kills the process (or stops it: its context is cancelled, `FinishJob`
  fails with it).  In the last two the call becomes an orphan that may still
  change the row; `OrphansServed = FALSE` lets only statements that have already
  committed go on.
* A worker's program counter follows `processJob`: *lock*, *start*, *starting*
  (waiting for StartJob), *exec*, *drain* (`wg.Wait` for the log and commit
  goroutines), *finishing*, *unlock*.
* Time is `Age`: a running row gets older than `reapAfter` unless something
  whose duration the code bounds well below it is under way (`Bounded`: the
  executor's timeout, a request).  Draining the logs is bounded only when
  `DrainBounded` says so: the code bounds each of up to 500 requests by five
  minutes and their sum by nothing.

### AppLifecycle
Extends JobQueue; every action is an action of JobQueue or leaves its variables
alone.  A request of the application service goes through `Check`, `Prepare`
(insert the deployment, or write starting/restarting), `Insert` (the job row
commits) and `Announce` (job_created is heard); Delete ends with `Remove`.  The
listeners of job_started and job_finished are `HearApp` and `HearDeployment`,
and `Answer` lets the call return only after both, because `Publish` is
synchronous.  `HealthCheck` is the end of a health-check job, whose report
overwrites any status.  `ShortRequests` is a timing assumption: a request that
is under way when a job runs is handled before that run ends.

### JobLifecycle
The abstract row: a run begins only from the queue, a verdict ends only a run.
`RowsFollowLifecycle` checks that JobQueue implements it under the identity on
`status`.

### Rollout
One application from the order to the stack that serves it.  Server side:
`order` (the payload of a job, fixed when it is inserted), `dep` (the
deployments row: hash, environment snapshot, previous deployment), `stage` (the
handler of Deploy between its inserts: `OrderDeploy`, `InsertRow`, `Snapshot`,
`InsertJob`, with `OrderFails` between any two), `OrderRollback`, `SetEnvVar`,
`SyncEnvVars`, `SetBranch` and `Retry`, which keeps the old payload.  Agent side:
`repo` (cloned branch and HEAD), `envFile`, `images` (what a tag was built
from), `stack` (what the containers were created from), and `run`, whose program
counter goes through the executor's pipelines (`Pipeline`), each step of which
may fail.  `Boot` is a container that comes up or exits; the gate
(`HealthGate`) looks at it.  `SendCommitInfo` is the goroutine that reports the
commit, whose request may be lost; a tag is `FullTag` or `ShortTag` because the
report is cut to eight characters and the image tag is not.  The queue is seen
from one application: a batch at a time, one run at a time, reaped when its
report is lost (`Poll`, `Begin`, `Report`, `Crash`, `Reap`).

### HealthGate
`printed` is what `docker compose ps` wrote, in either JSON form, with or
without a warning on stderr; `output` what the two copying goroutines left of it
in the shared buffer (`Collected`: with both streams writing, any part).  The
parser, `Aggregate` (aggregateContainerHealth, in the order of the listing), the
gate's loop with its two looks at the deadline, and the report of a health check
follow.

### UserHub
`inbox[k]` are the Go channels for register, unregister, subscribe and
unsubscribe, `broadcasts` the event channel, `send[c]` a client's buffer;
`HubStep` takes from any that is not empty, as select does.  A client is its
read pump (`client`, with the request it is handing over), its write pump
(`writer`) and its connection.  The event bus subscribers are reduced to the
channels they broadcast on (`TargetsOf`).  A send on a closed channel makes
`hub = "panicked"`.

### AgentLink
Both ends of the websocket.  Agent: the dial loop, both pumps, `pointer` (the
connection field all goroutines of all dials share) and the closers, one per
dial, that clear it.  Server: a handler per connection (`serve`) with its
authorisation, its registration and the two updates of `online`; the router's
goroutine with `registerQ` and `unregisterQ` and `agents`, the client in its
map.  `RotateSecret` and `ServerKilled` are the faults.  `overlap` and
`forgotten` are history: which exception of a property has come about.

### Accounts
`account[u]` is a row, `alive` the session keys in Redis, `listed[u]` the set
of a user's sessions.  A request is a record in `request`: what it read and
will act on.  Login, logout, kick, both ways to change a password, creation,
edits and deletion are each split at their reads and writes.  `raced` and
`clobbered` are history, for the exceptions the properties name.

### RateLimiter
`Allow` for one key, in ticks; `hits` is the slice, `HitsAt` the loop that filters
it, `admitted` a history of what was let through.

### Meters, Collector
`Meters`: counters `Width` bits wide, the saved reading (`lastRead`), the
published difference (`shown`) and its moving average (`smooth`) of a disk, an
interface, the energy counter and a CPU line, with the differences taken as the
code takes them (`Minus` wraps).  A reading may fail: it is 0 and saved like any
other, but for the CPU's.  `EMA.Update` takes the average to any value between
the old one and the new sample (`Between`); how fast is floating point and left
out.  `wentBack`, `failed` and `spoilt` are history, for what the property
excepts.

`Collector`: the buffer, the Redis stream behind it, load at a start (newest
first), `Latest` for a job.  A stop (`StopCollector`) goes through the buffer one
append at a time (`FlushOne`), each of which may fail and be logged, then empties
the buffer whichever got through (`FlushEnds`); `ProcessEnds` may come at any
point of it.

### MetricsService
An ingest goes through latest, history point, registry and buffer, each under a
lock of its own; the flusher (`BeginFlush`, `EndFlush`, which may fail), the
broadcaster, which holds `latestMu` while the bus delivers, and a reader that
puts the registry's points into memory run beside it.

### SampleLedger
The abstract service: accepted samples are open until a batch is stored or given up
as a whole; a restart settles all that is open.  MetricsService implements it with
`accepted` as the number of ingests (`SamplesKeepTheLedger`); this is proved rather
than checked by a run, as `EveryIngestOnce` is what the run watches.

### Webhook
`Handle` in its channel operations (`Offer`, `Evict`, `Insist`) on the goroutine
that publishes, several at a time, and the worker that takes and posts.

### Instance
A host: `.env` (its secrets as one number, or torn), the compose tree, the
postgres volume and the secret it was created with, docker's build cache, the
server container, the CLI's binary and its backup, the agent's process.  `cmd`
is the command that runs, an installation or an upgrade, step by step;
`Interrupt` kills it between any two, `StepFails` is a step that errors.  The
administrator's password goes from `.env` to the container through compose's
`env_file`, which expands what follows a `$` (`EnvFile`): `Dollars` are the
secrets whose password has one; the other secrets of `.env` are hexadecimal.

## 3. Runs

| Run | Instance | Shows |
|---|---|---|
| job_queue | 1 app job, 1 periodic job, 2 workers, 3 calls, 3 queueings, 1 fault | each queueing runs once; refinement of JobLifecycle |
| job_queue_live | 2 jobs, 1 fault, fairness | queued jobs settle, batches end |
| job_queue_reap | 2 jobs, no fault, unbounded drain | **violated**: a healthy agent's job is reaped |
| job_queue_retry | 1 job | **violated**: a live row is re-queued |
| job_queue_exclusion | 3 jobs of one app, 2 workers | **violated**: two runs of one application |
| app_lifecycle | 2 jobs of all six kinds and a health check, 3 queueings, 1 fault, 1 failed insert | deployments agree with their jobs; only a failed insert leaves an application busy for nothing; only abandoned rows are reaped; verdicts belong to their run |
| app_lifecycle_stuck | 1 job, 1 failed insert | **violated**: restarting for ever |
| app_lifecycle_delete | 2 app jobs, health checks | **violated**: Delete during a deploy |
| components | the twelve components, one moving | 24 properties, below |
| components_live | the six components with fairness, one moving | 6 properties, below |
| rollout_rollback | a deploy and any second order | **violated**: the tag of a rollback does not exist |
| user_hub_closed | 1 client | **violated**: an event is sent on a closed channel |

**The two product runs.**  The components of `MCComponents` and
`MCComponentsLive` share no variable.  The initial state picks one (`which`),
every step is a step of that one, and the others stay in their initial state.
The reachable states are therefore the disjoint union of the components' own,
each explored in full; the run is a way to check them under one configuration,
not a model of their interaction.  A type invariant is asked of the component
that moves; the other properties hold of a component at rest as they do of its
initial state.  In `MCComponentsLive` the fairness of a module is asked while it
moves: its fairness formula with `which` added to each action.

| Component | Property | Says |
|---|---|---|
| keyed mutex | `NoOrphanEntry`, `LockReturns` | no map entry is left behind; every `Lock` returns |
| rollout | `SuccessServesItsRecord` | a deployment turns successful only with the stack up, made from what its record says, unless its commit info was lost |
| | `RestartChangesNothing` | what the last good rollout left goes on being served until a pipeline writes `.env` again |
| | `DiffExplainsDeploy` | snapshot, base and diff describe what the job deploys, whatever part of the order failed |
| health gate | `OpenMeansUp`, `AggregateIgnoresOrder` | no deploy passes with a container that is not up; the verdict is the comment's in every order |
| | `GateEnds` | the gate ends although `compose ps` may fail for ever |
| user hub | `DeliveredInOrder`, `ClosedOnce` | no old status after a newer one; no channel is closed twice |
| | `LeaversAreForgotten` | a client that leaves is rid of its pumps and memberships, although others are too slow for what they are sent |
| agent link | `OnlineAgreesOnceQuiet`, `RouterClosesOnce` | is_online is the truth up to the two named races; unregistration never closes a channel twice |
| | `LostLinksRedial` | an agent whose connection is gone leaves its pumps |
| accounts | `UsableSessionsAreListed`, `KickLeavesOnlyRacers`, `PasswordIsTheLastOneSet` | revocation reaches every session, and a password stays as set, up to the named race |
| rate limiter | `RateIsExact` | at most `Limit` in any window, and no refusal below it |
| meters | `SpikesNeedACause` | a published value is wrong only right after a counter went back or a reading failed, the moving average from then on |
| collector | `RestartKeepsWhatWasFlushed`, `LatestGoesBackOnlyAroundAStart` | what the flush got into the stream is loaded again; time goes back for a job only around a stop and start |
| metrics service | `EveryIngestOnce`, `HistoryIsExact`, `BufferDrains` | a sample is in one place; the history is exact until a reader mixed it; every sample leaves the buffer |
| webhook | `NewestGoesOnlyInACrowd`, `QueueDrains` | the newest is dropped only when two handlers overlap; the queue drains |
| instance | `FirstInstallReachesItsStores`, `CredentialsAreFresh`, `UpgradeKeepsItsBinary` | what an installation prints is what the admin was seeded from, but for a `$` that compose expands; an upgrade killed anywhere leaves a binary |

Several of these carry an exception ("unless", "up to").  Each exception is a
history variable that is set in exactly one circumstance of the code, which the
comment of the property names: the property says that nothing else breaks the
promise.

**Bounds.**  Job queue: `MaxClock` counts queueings, retries under way included:
three are one more than the two jobs need, so that a row is run, ends and is run
again while the other is in flight.  `CallIds` has room for a call of each worker
or one of the reaper, an operator or an orphan.  `MaxFaults = 1`: one fault
makes a call an orphan or a row abandoned.  `ReapLimit` is 1, so that the
reaper's newest-first window hides a row that must be reached later.  Two
workers, because every race here is between two.  In app_lifecycle a second
operation, or a health check or a failing insert, comes beside the first
(`Bound` in MCAppLifecycle), not all of it.

Rollout: two orders, of which the first is a deploy, three commits on two
branches, one variable with one value or none, two events (a push, an edit, a
retry, a crash, a lost request): enough for a deploy, a disturbance and an
operation on its result; a third order would need a third disturbance.  Health
gate: two containers, which makes every order of two different states.  User
hub: two clients, one place in each request channel and two for events, so that
every channel is full at some time; a client asks once (subscribes, unsubscribes or
pings), and a send buffer of one is full after one event or pong, so that the
second of two events meets a slow client.  In components_live there is one place
for events and one of the two channels is used (`OneChannel`), and the hub is not
told to stop, which would end its promise.  Agent link: two connections, because the
races are between an old and a new one.  Accounts: one user, two passwords, two
sessions, two requests at a time.  Limiter: eight ticks, more than two windows
of three.  Meters: three bits, steps of two, so that a counter wraps, goes back
and is misread in every order; a meter has no other bound.  Collector:
a buffer of two, four samples, three starts: two flushes of a full buffer, the
second with copies of the first in the stream.  Metrics service: three samples and
restarts together.  Webhook: room for two, three publishers, five events.
Instance: three generated secrets, one of them with a `$`, and two releases, an
installation, its repetition or repair, and an upgrade.

Deadlock is not checked: in every run the system rests when its bounds are
used up.  Symmetry is used in safety runs only.

**Fairness.**  `Fairness` in JobQueue: goroutines that can run do run, a served
request ends, the tickers of the reaper and the poll loop keep ticking
(`Scheduler.RunByDuration`, `JobWorker.Start`), systemd restarts the agent
(`Restart=always`), time passes.  Getting a mutex (the keyed mutex, `latestMu`)
is strongly fair: Go hands a mutex to a waiter that starved for a millisecond.
`HubFairness`: select is fair to each ready case.  `GateFairness`: the loop runs
and the deadline passes.  `LinkFairness`: both pumps run and the ping ticker
ticks, which is what makes a write fail on a dead connection.
`WebhookFairness`: the HTTP client has a timeout.  `MetricsFairness`: the flush
ticker ticks and the insert has a timeout.  Nobody is obliged to order, connect,
publish, fail or break anything.

The timing assumptions `DrainBounded`, `OrphansServed = FALSE` and
`ShortRequests` name what the comments of the code take for granted.  The runs
that need them say so by their configuration; with them off the same properties
have counterexamples.  One of them is a finding (job_queue_reap).

## 4. Findings

1. *keyed_mutex.go:35*: TryLock does not show that nobody waits.  Two holders of
   one key, and so two runs of one application (`OneRunPerApp`;
   `OneHolderPerKey` states it of the mutex alone).
2. *job_worker.go:275*: draining the logs is unbounded, so the reaper can fail a
   job of a healthy agent (`ReapedJobsAreAbandoned`).
3. *job_handler.go:253*: the retry re-queues a row that is no longer a failure
   (`OnlyFailuresRetried`).
4. *service.go:424 and 360*: a restart or start whose job cannot be inserted
   leaves the status it wrote ahead (`BusyAppHasWork`).
5. *application_repo.go:492*: a health report hides the deploy that is under
   way from Delete (`DeletesWaitForRuns`).
6. *executor.go:457*: the reported commit hash is cut to eight characters, the
   image tag is not, and a rollback orders the tag from the report
   (`RollbackTagExists`).  Beside it: a rollback has no commit hash or snapshot of
   its own, and the "last successful" deployment it picks is the one running.
7. *hub.go:88*: a subscription taken after the client's unregistration leaves a
   closed channel in the set, and the next event panics the server
   (`NoSendOnClosed`).

Seen while modelling, in the models, and without a run of their own because the
repository promises nothing about them or the property names them as an
exception:

* A deploy that fails after writing `.env` leaves it naming an image that was
  not built; the next restart acts on it (executor.go:607).  A clone is of one
  branch and depth one, so a changed branch cannot be pulled (git/manager.go:29),
  and synchronising an empty list leaves old variables (application_repo.go:263).
* agentws/router.go:57 closes the client of the moment, not the one that
  unregisters; the offline update may follow the new connection's online update;
  a killed server leaves `is_online` set.  A rotated secret ends the agent at its
  next dial.
* A session created between the two steps of a revocation, and a login that had
  compared the old password, outlive it (session_store.go:81).  Updates of a user
  write every column back (user/service.go:103).  Deleting a user leaves its
  sessions.
* `Latest` on an empty buffer answers a sample without a server, whose insert
  fails with its whole batch; a reader of the history puts it into memory newest
  first (metrics/service.go:138); the server's buffer is lost when it stops.
* uint64 differences wrap (metrics/disk.go:28), and a reading that fails is saved
  as 0 (system/network.go:41-70, system/disk.go:130-163), so that the next one
  shows the whole counter as growth.  Either goes into the moving average
  (metrics/collector.go:215, ema.go:38), which every later sample publishes beside
  the value and which the server's histories record
  (application/metrics/service.go:81-82): one wrong value is seen for many samples.
* The collector's flush appends the whole buffer again, samples that were appended
  when they were collected included (metrics/collector.go:165).  When only part of
  it gets through, the copies may push a sample out of the window that a start
  reads: a buffer and stream of 1, 2, the copy of 1 refused and that of 2 taken,
  leave 1, 2, 2, of which a window of two has no 1.
* The alphabet of generated passwords has a `$` (instance_env.go:77), the `.env`
  line is not quoted, and compose expands it on its way to the server
  (instance.go:178); the installer prints the line as it is
  (install_server.go:174).  Such a password does not log in.
* instance.go:214: the ARG stands before FROM, so the pinned version is empty in
  the RUN that downloads, whose text never changes: the build cache keeps the
  first binary, which the comment above it (instance.go:210-213) means to avoid.
  An interrupted write leaves a torn `.env` (instance.go:113); a second run of an
  interrupted first installation skips the guard about old volumes and never
  shows the credentials.

## 5. Proofs

`tlapm X_proofs.tla` checks each of the eight proof modules; they share no
assumption beyond the named ASSUMEs of the modules they are about (markers such
as `NoKey` are not among the values they mark, the four names of callers are not
names of workers, bounds, sizes and limits are natural numbers and positive where
the code divides, waits or buffers by them) and hold for every number of jobs,
applications, workers, calls, goroutines, clients, connections, containers,
samples and faults.  All action properties and all invariants that the passing
runs check are proved.  A theorem that needs a timing assumption has it as a
hypothesis.

Three of the named assumptions say more than that something is a number or a
marker.  `AppLifecycleAssumption`: a scheduled job names no application, as the
workers that create one leave its `ApplicationID` empty
(workers/application_health_check_worker.go:93, metrics_collect_worker.go:63).
`RolloutAssumption`: branches are finitely many and each has a first commit.
`MetersAssumption`: `2^Width` is a positive number, a fact about `^` that the
provers do not have; TLC evaluates it.

**KeyedMutex_proofs.**  `KMTypeCorrect`, `KMNoLeak`.  `NoOrphanEntry` alone is
not inductive: when `TryLock` fails in the clean-up, the entry stays and must be
somebody else's.  `KMInv` adds what makes it so: a locked mutex has a holder
(`HeldHasHolder`), goroutines that captured one object did so under one key
(`OneKeyPerMutex`), and a goroutine has a key and an object exactly while it is
in a call (`CallersRefer`).

`KMExcludes` is what finding 1 leaves of exclusion: two goroutines hold one key
only while the entry that one of them holds or waits for is no longer the map's
(`EntryDropped`).  One mutex has one holder (`KMExclusive`), so two holders of a
key have two mutexes, and the map has one entry.  Deleting the entry too early is
therefore the only thing to repair.

**JobQueue_proofs.**  *Rows and calls.*  `TypeCorrect`, `RunsOnce`
(`EachQueueingRunsOnce`),
`FollowsLifecycle` (the refinement of JobLifecycle) and `NoLockLeak`.  The
invariant `JQInv` has four parts beside the types:
* `KMP!KMInv`: each step of the agent is a step of KeyedMutex, leaves it alone,
  or is a crash, which starts it afresh; the proof above is reused;
* `Handshake`: a worker that waits has a call of its own and no other has one.
  Without it an answer could move an idle worker, which breaks the types;
* `OneItemPerJob`: the agent holds a job once, because a poll waits for the last
  batch;
* `Fresh`: what is queued, polled or on its way to the executor is newer than
  what the executor has begun, and a start call that was carried out has taken
  its row out of the queue, unless it was queued anew.  `EachQueueingRunsOnce`
  is the part about a worker in *starting*.

*Exclusion.*  `RunsExclude` carries `KMExcludes` over to jobs: two jobs of one
application run at once only if a clean-up has dropped the entry that one of them
was let in by (`RunLostItsEntry`).  `WorkersHold` ties a worker's step to the
mutex: from the lock to its release it holds the mutex of its job's application.

*Progress.*  `WorkersAreNotStuck` is the part of `BatchesEnd` that is safety: a
worker that waits for an answer has a call that is under way (`CallUnderWay`), a
locked mutex that a worker waits for is in the hands of one past its lock, and a
worker about to unlock has something to unlock (`NobodyIsStuck`).

*Timing.*  With the timing assumptions as hypotheses:
`ReapsAbandoned` (both), `VerdictsMatch` (`~OrphansServed` only).  The argument
is that a polled row stays queued until the start call of the worker that holds
it (`StillQueued`): no orphaned start call is left to carry out, and the agent
holds a job once.  Hence a running row in a worker's hands is its own run
(`RunIsOurs`), and no such row ages (`OldIsAbandoned`).

**AppLifecycle_proofs.**  `AppUsesQueue`: every step is one of JobQueue or
leaves it alone, so all of the above holds of the system with applications.
`AppTypeCorrect`: the listeners have a status for every event.  That needs
`RowsExist` (calls, polled jobs and workers are about rows that exist) and
`OrderedOnce` (the type of a job is fixed before its row is inserted).

`DeploymentsAgree` (`SettledDeploymentsAgree`) and `BusyAppsHaveWork`
(`BusyUnlessInsertFailed`) hold under `ShortRequests`, `DrainBounded` and
`~OrphansServed`, the conditions of the run app_lifecycle.  A deployment is the
copy of a verdict, made when an event is heard, so what must be invariant is who
may still have an event to be heard.  `EventsInv` says it of each state of a row:
of an old row only the reaper has a call (`OldAreQuiet`, `ReaperInOrder`); of a
run that ended and has no verdict yet only its worker (`EndsAreQuiet`); while a
worker runs the row stays open (`RunsAreOpen`); of a row with a verdict only that
verdict is still to be heard, and the deployment has it or will hear it
(`VerdictsAreFinal`).  For the applications `BusyInv` adds that a busy status is
that of an operation whose job is queued, runs or has something to announce
(`BusyArePending`), and that a destroyed application is marked deleted before its
job's verdict can be written into it (`DestroyedAreDeleted`).

**Accounts_proofs.**  Accounts: `SessionsCanBeRevoked`, `RevocationIsComplete`,
`PasswordsStaySet`, from `AccountsAreInvariant`.  A request acts on what it read
earlier, so `AccountsInv` says of each request what its read is still worth:
between its two steps a revocation knows every usable session in the set but
those it raced with (`RevocationsKnow`), and an update that is not stale would
write back the password last set (`FreshReadsAreRight`).  `RequestsHaveRows`,
`SessionsHaveOwners` and `ListedAreOwned` say whose rows and sessions these are.

Rate limiter: `RateStaysExact`.  That a window is never overfull does not follow
from the hits alone, since the window may start anywhere.  `LimiterInv` has it
from the admissions: they are in order, each is a whole window after the one
`Limit` places before it (`AdmissionsSpread`), and the hits are the last of them,
the rest being out of every window to come (`HitsAreTheLastOnes`).

**Host_proofs.**  Instance: `InstallReachesStores`, `UpgradeKeepsBinary` and
`PrintedCredentialsAreSeeded`, from `InstanceIsInvariant`: secrets count up
(`SecretsCountUp`), a binary is at its path or on its way there with a backup
(`BinaryIsThere`), a server that is up has logged in (`UpMeansLoggedIn`), the
`.env` of a first installation is newer than every store it meets
(`FirstIsFresh`), and each command is only at steps of its own
(`StepsOfTheirCommand`).

Health gate: `OpenGateMeansUp` and `VerdictsFollowTheComment`, for listings of any
length.  `GateInv` says that what the gate acts on is what compose printed last
or a part of it.  The verdict is a loop that stops at the first container that
decides; the lemmas `VerdictIgnoresOrder` and `RunningMeansUp` take the least
such index, which exists because the naturals are well ordered.  `GateIsTyped`
adds the types of what it collects.

Collector: `FlushSurvivesRestarts` and `LatestIsMonotonic`; the part that takes
an argument is `FlushIsInReach`, that what a flush has appended is so near the
end of the stream that what it still has to append fits behind it into the window
that the next start loads (`WindowGrows`, `WindowWidens`).  Meters:
`SpikesAreExplained`; `DifferenceIsGrowth` relates counter, saved reading and
growth as long as the counter did not go back and the saved reading had not
failed, and `AverageIsInRange` has the average between values that were right as
long as no other went in.

**Rollout_proofs.**  `SuccessServes`, `RestartsChangeNothing` and `DiffsExplain`,
from `RolloutIsInvariant`.  A decision has five copies (order, row, `.env`, image,
containers), and the invariant says at every step of a pipeline which of them
agree by then: what an order has written when it got so far (`OrdersGoForward`),
that the commit a run has read is checked out and in the row, on its way or lost
(`CommitIsCheckedOut`), that each step leaves what the next one reads, from
`.env` to the containers (`WhatIsBuiltIsServed`), and that the last good rollout
can be made again from what it left (`GoodRolloutIsKept`).  `OneRun` and
`StepsOfTheirKind` say which order a step belongs to.  Each action has its lemma;
the ways a run may move on, fail or end are stated once (`RunMoves`, `GoesOn`,
`FailKeeps`).

**Links_proofs.**  Webhook: `NewestIsKept`; whoever is alone in `Handle` finds the
room it made (`EvictionMakesRoom`), and who is not is in a crowd
(`HandlersCrowd`).

Agent link: `OnlineAgrees` and `RouterClosesAClientOnce`.  The row is online for a
reason (`OnlineHasAHandler`): a handler set it and has not reset it, the server
was killed, or handlers overlapped; without overlap there is one handler at a
time, whose the row is (`OneHandlerAtATime`).  A connection that waits to be
registered was never registered (`RegistersOnce`).

User hub: `ChannelsCloseOnce`, because a client is registered once
(`RegisteredOnce`) and members have open channels until the hub returns
(`MembersAreOpen`); `DeliveryIsInOrder`, because what clients have before them is
older than what the hub has queued (`SentBeforeQueued`).  `HubKeepsItsRoom`: no
channel holds more than its buffer, who sends waits for room or gives up.

Metrics service: `SamplesAreInOnePlace`; `OnePlace` is the property with the
places as sets, so that a step moves one singleton, and `BatchesAreLocked` is
what `flushMu` contributes.  `MetricsKeepTheLedger` is the refinement of
SampleLedger: by `OnePlace` what a flush settles was open, all of a batch is
settled one way, and what a restart finds in requests, buffer and batch is all
that was open (`HeldIsOpen`), so that nothing accepted before it is written
after it. `MetricsAreTyped` adds the types of histories and reader.
`HistoryStaysExact` is inductive once the times are typed; its work is in
`PruneCutsStalePoints`, that what pruning cuts is a prefix that ends before the
first fresh point.

**Components_proofs.**  `ComponentsAreTyped`: the composition of the run
components keeps its types (`ComponentsTypeOK`).  The components share no state, so
each step is one component's and a stutter of the others (`ComponentsStepApart`),
and the inductive invariants of the modules above, conjoined, are inductive for the
whole (`ComponentsInv`).

**Model-checked only.**  Liveness (`LockReturns`, `QueuedJobsSettle`,
`BatchesEnd` and the five other properties of components_live) is out of the
prover's reach, for it needs fairness and ENABLED; of `BatchesEnd` the safety part
is proved (above).  The properties of the violation runs are false of the code; of
`OneRunPerApp` and `OneHolderPerKey` the proofs say when they fail.
`ReapedJobsAreAbandoned`, which its run refutes when the drain is unbounded, is
proved for a bounded one.  One candidate was refuted by
TLC and dropped: that a deployment's verdict stands until its job runs again.  A job
that is retried after its verdict was committed, but before the deployment listener
has heard of it, is run again by a restarted agent, and the old verdict arrives
during that run.  What is proved is that the deployment agrees with its job once that
has settled (`DeploymentsAgree`).

`Kept` in RateLimiter is a filter written by the indices of what it keeps, and
`Prune` and `Aggregate` are written by the index at which their loops stop: a
recursive definition would put what they compute out of the provers' reach.  The
step from that index to what the loop does is one look at the code.

## 6. Plan

1. *Done*: KeyedMutex, JobLifecycle, JobQueue, AppLifecycle, Rollout, HealthGate,
   UserHub, AgentLink, Accounts, RateLimiter, Meters, Collector, MetricsService,
   Webhook and Instance, with runs and proofs.
2. *Done*: every invariant and action property of the passing runs proved, the
   types of the composition included, and the two refinements.
3. The bounded log channel of one run; a crash of the server between a commit
   and the publication of its events.

## 7. What is not modelled

Roles, settings, logs and the audit log are single-statement CRUD; routing,
validation, configuration and formatting have no state worth exploring; reading
`/proc` and floating point are left out of the meters, which keep the integer
differences and the range of their averages.  Of the installer the older bare-metal branches, preflight checks,
the dashboard's image and the provisioning of an agent's host are left out.  Reads that change nothing
(lists, summaries, details) appear only where something acts on them.  A
listener's database error and a crash of the server between a commit and the
publication of its events are not actions (see hazards).
