# pg-helper: a verification development

pg-helper keeps PostgreSQL databases where their configuration says they should
be. A *server* reads sources (files that name a database, its owner, the
version it should live on) and sends jobs to *agents*, one next to each
PostgreSQL instance, which create, back up, restore and migrate databases and
report their status back.

This directory models that program in TLA+, checks the models with TLC and
proves theorems about them with TLAPS. File and line references are to `src/`.

    agent                                              server
    -----                                              ------
    GrpcAgentServer <----- Register stream: jobs ----- DbInstance <--- manager
       |  handler per job                                  ^             ^   ^
       v                                                   |             |   |
    Pending Job Handler (1 worker) <--+                NotifyDbStatus   Source  Web API
       |  ready tasks                 | done tasks         ^            Manager
       v                              |                    |             |  ^
    Db Job Handler (4 workers) -------+                    |             v  | retries
       |  rows, psql, pg_dump                              |            CronServer
       v                                                   |
    Db Status Notifier (1 worker) ------ statuses ---------+


## 1. Inventory

Each part with its state, its operations, what makes it hard, and what it owes.

**BaseConsumer** (`pkg/server/consumer.go`) is every queue of the program.
State: an unbuffered channel, the element in the Run loop's hand, a semaphore,
two wait groups, a closed flag. Operations: `Send`, `Run`, the worker of each
element, `Close`, `Shutdown`. Hard: senders, loop, workers and shutdown
interleave at every channel and counter. Owed: bounded workers; whatever was
accepted is handled before the handler is shut down; a shutdown ends.

**Jobs and tasks** (`internal/job`). State: the jobs under way, and for each
task its status, the tasks it still waits for and a cancelling flag. Operations:
`addJob`, `processTask`, `OnTaskDone`, `readyToRun`. Hard: tasks travel through
two unbuffered queues that feed each other; a task can be failed, cancelled, or
come back untouched. Owed: a task runs once and after those it depends on; a
job ends and is forgotten; nothing locks up.

**Request handlers of the agent** (`internal/handler/grpc_agent`): one
goroutine per job received, which writes rows in a transaction and sends the
job on, holding its connection. Hard: ignored errors, connections held across
sends.

**Database tasks** (`internal/handler/db_task`, `internal/db`). State: a row
per database with stage and status, a row per task, the PostgreSQL server
itself. Operations: one handler per action, each a read of the row, a check, a
write `... AND updated_at = @updated_at`, the work, and deferred final writes;
recovery at start. Hard: jobs of one database interleave, writes are lost
without anybody looking, crashes leave rows half way. Owed: a database reported
ready is there; nobody overwrites a newer row; what is started is finished or
recovered.

**Instances on the server** (`grpc_server/db-instance.go`, `svc_register.go`).
State: `Online`, the databases under `dbLock`, the unbuffered job channel, the
job the last stream could not send. Operations: `Register` with `ServeDbJob`,
`CreateDb`, `MigrateOut`. Hard: streams break and overlap; callers wait with the
lock held. Owed: the flag tells the truth; no job is lost or sent twice; a
registered agent is served.

**Instance manager** (`db-instance-manager.go`, the subscribers). State: the map
of instances under `instLock`, the subscribers of databases and of instances, each
under a mutex. Operations: `NewInstance`, `FilterInstances`, `CreateDb`,
`WaitReady`, `UpdateDatabase`. Hard: one lock is held while another one is waited
for; check-then-subscribe; a goroutine per change that reads the status when it
runs. Owed: nobody waits for a caller of another instance for ever; who waits for a
status is told of it.

**Status notification** (`db_api.go`, `db_status_sender.go`, `agent_server.go`,
`svc_notify_db_status.go`, `database.go`). State: the row, a queue of one
worker, the list an agent registers with, the server's record. Operations:
`UpdateDbStatus`, `NotifyDbStatus`, `loadRegisterAgent`, `Register`,
`Database.Update`. Hard: copies of a row that travel on two ways, announcements
from transactions that roll back, calls that fail and are not repeated. Owed: the
record catches up with the row, and where it does not there is a reason.

**CronServer** (`pkg/server/cron_server.go`). State: a list ordered by trigger
time, a mutex, a wake-up channel. Operations: `Send`, the loop, `Shutdown`. Hard:
a wake-up racing the sleep. Owed: an element fires when its time has come.

**Sources** (`internal/source`, `internal/interface/sourceApi`). State: the
source of each name with its state, the state expected of it and the time of its
next retry; which instances were online; the files behind the sources. Operations:
`AddDatabaseSource` and `MarkDatabaseSourceIdle`, `Handle` by a worker of the queue,
retries and idling by the cron server, `OnDbStatusChanged`,
`OnInstanceStatusChanged`. Hard: the workers write a source without the mutex
the callbacks hold; callbacks and timers arrive after the source was handled,
replaced or synced. Owed: a source that is not what it should be is seen to; the
answer *ready* is true.

**Assembly and shutdown** (`pkg/server/server.go`, `agent/agent.go`,
`server/server.go`, `grpc_server.go`). State: `QuitCtx` and the list of servers of each
program. Operations: `Init`, `PostInit`, `Run`, the signal, `Shutdown` of each
server from the last to the first. Hard: a request passes through seven queues
and goroutines of two processes while one of them is being shut down. Owed: what a
queue accepted is handled; both programs stop.

**Web API, file monitor** are the places requests come from (`Source`, `Servers`).
**Authentication, configuration, validation, logging, command line** are pure
checks and start-up code; not modelled. `PROJECT.json` lists all components, and
the hazards with their lines.


## 2. Modules

| module | models | implements |
|---|---|---|
| `WorkPool` | what a queue promises: accept or discard, handle once, stop when drained | |
| `Consumer` | `BaseConsumer`, one synchronising operation of one goroutine per action | `WorkPool` |
| `JobPlans` | the tasks of create and migrate-out jobs and their dependencies | |
| `TaskOrder` | what the agent promises about tasks: given out once, after their dependencies ended | |
| `AgentJobs` | request handlers, `JobHandler`, `DbTaskHandler`, two queues, the connection pool | `TaskOrder` |
| `DbLife` | what the server may rely on about the life of one database: ready only after work, then only on its way out, never back | |
| `AgentDb` | what jobs do to one database: its row, the PostgreSQL server, faults, crash and recovery | `DbLife` |
| `CronServer` | the list, the mutex, the loop, the goroutines, the clock | |
| `DbInstance` | streams of one agent, callers, `dbLock`, `Online`, the job left over | |
| `StatusFlow` | the way of a status from its row on the agent to the server's record | |
| `Instances` | `DbInstanceManager` over several instances: the locks, the subscribers, `WaitReady` | |
| `Source` | the source handler: files and web requests, workers, timers, callbacks; the manager's `CreateDb` | `DbLife`, step by step, for each record |
| `Servers` | both programs put together: the way of a request through all servers, and their shutdown | |
| `QueueProofs`, `DbInstanceProofs`, `StatusFlowProofs`, `InstancesProofs`, `AgentJobsProofs`, `AgentDbProofs`, `SourceProofs`, `ServersProofs` | theorems | |
| `MCAgentJobs`, `MCAgentDb`, `MCCronServer`, `MCInstances`, `MCSource` | constants of the runs | |

The modules meet where one takes what another promises: `Servers` and `AgentJobs`
take a queue to be what `Consumer` is shown to be (`WorkPool`), `AgentDb` takes
the order of tasks from `TaskOrder`, `StatusFlow` what the locks allow from
`Instances`, `Source` the server's record from both.

`DbLife` is where the two sides of the program meet. `Source` takes the agent to be an
environment that takes a database from its first entry to ready and out again; `AgentDb`
is the agent, and is shown and proved to do nothing else with a row (`ImplementsDbLife`).
What it does besides has no counterpart in `Source`, or two steps of it: a row that
goes from None straight to Failed, and from ready straight to Idle/Done. Conversely what
`Source` lets workers and notices do to the record is proved to keep to that
life (`RecordsKeepToLife`). A record that goes *back* because statuses overtook each other
is what `StatusFlow` is about, and not in `Source`.

How state corresponds to the code:

* A goroutine is a program counter (`send`, `run`, `worker`, `handler`,
  `session`, ...) whose values name the point the goroutine has reached. A
  rendezvous on an unbuffered channel is one step of both ends. A critical
  section that cannot block inside is one action; one that can (`CronServer.Send`,
  `DbInstance.CreateDb`) keeps its mutex in the program counter (`MutexFree`,
  `LockFree`).
* `Consumer`: `hand` is the local `element` of `Run`, `sem` the length of the
  semaphore channel, `wg` and `addingWg` the counters, `chanClosed` the atomic flag.
  A panic ends the process.
* `AgentJobs` uses of each queue only the hand of its Run loop and its workers; the
  finer steps are those of `Consumer`. A connection of the pool is held exactly at
  the steps of `HandlersConnected` and `WorkersConnected`; calls that need one for
  a moment need `FreeConn`. What a task does is reduced to completed, failed, or
  refused (it comes back pending).
* `AgentDb` has the row in `row` and, instead of time stamps, the set `fresh` of
  those who have seen its present version: a write lands only from there, which is
  what `updated_at` decides. Statuses of tasks are the same in memory and in their
  table (an error of `UpdateTaskStatus` is not modelled). `CommandPossible` is what
  PostgreSQL, `pg_dump` and `psql` need: a free name and an existing owner, a dump
  of the same job (a restore from a given path reads a file name made up by
  the agent, `job_create_database.go:99`, which no backup wrote).
* `CronServer`'s clock ticks by one; due means strictly before now, as in
  `processArrivedElements`.
* `DbInstance`'s streams are seen from the agent (`stream`) and from the server
  (`session`); the server may learn late that one broke, and then two handlers
  overlap. `overlapped` remembers it.

* `Source`: a member of `Sources` is one `DatabaseSource` object, `known` the map by name.
  `worker` is the place a worker of the queue has reached in `Handle`, with the status
  it looked up; `sends` counts the goroutines that wait in `sourceProducer.Send`,
  `timers` are the cron elements, `notices` the goroutines of `DbStatusSubscriber` and
  `scans` those of `handleDatabasesOnInstanceOnline` with the statuses they were given. A
  time is a token that is unique among the pending timers of a name: `NextScheduleAt` is
  only ever compared with the time of a timer. `db` is the server's record of each
  database. What the agent does with a request is a free choice, including nothing.
  Two history variables name what the code leaves undone: `parked` (a source without a
  readable password, and idling, which is a TODO at `handler.go:70`) and `overtaken` (a
  callback passed a source while a worker had it, or an outage ended before it was
  reported).

* `StatusFlow`: a version stands for `updated_at`. `row` is the committed row, `writer`
  a goroutine between its write and its commit, `hand` and `sending` are the queue
  "Db Status Notifier", `reg` and `session` the registration with its list, `late` the
  calls the agent gave up. Four history variables name reasons: `vain` (an
  announcement that was lost or overwritten), `undone` (a version that was rolled
  back), `crowded` (two jobs at one database), `origin` (what wrote the record last).
* `Instances` has one database. `request` and `create` are the two halves of
  `DbInstanceManager.CreateDb` (the second may run in a goroutine of its own after a
  migrate-out); the locks are read off them (`HasInstLock`, `HasDbLock`). Mutexes of
  subscribers are held for one action, except the one that `StatusResponse` runs
  under (`describe`). `slipped` remembers who passed a notice between check and
  subscription.
* `Servers`: `stage` counts the servers a program's `Shutdown` has been through, `at`
  is the place of a request, `news` and `call` are the notifier's statuses. What
  the models above say of each place is left out; a queue may accept or discard while
  it is being shut down, as `WorkPool` says.

Operators named after a slip of the code (`AwaitNoExit`, `WriteUnguarded`, ...) are
defined next to the definition they would replace; each property is known to be
refuted by one of them, see `mutants` in `PROJECT.json`.


## 3. Runs

| run | bounds | result |
|---|---|---|
| `consumer` | 3 sends, 2 workers | holds |
| `agent_jobs_ends` | 2 create jobs (3 and 4 tasks), 2 workers, 3 connections | holds |
| `agent_jobs_lockup` | 4 create jobs, 4 workers, 4 connections (the defaults) | **locks up** |
| `agent_db_interleaved` | 2 create jobs, one with a migration and one from a backup, and a migrate-out of one database, 2 faults, 1 crash | holds |
| `agent_db_recovery` | 1 create job, 1 migrate-out, 1 crash | **hangs at start** |
| `cron_fires` | 4 elements: an earlier one, two at the same time, a later one; clock to 5 | holds |
| `db_instance_streams` | 3 streams, 2 calls | holds |
| `status_flow` | 2 writers, 2 writes, 2 registrations, 2 restarts (of agent or server) | holds |
| `instances` | 2 instances, 3 streams, a request that moves the database and one by version, 1 status, 1 `WaitReady` | holds |
| `servers` | 2 jobs of 2 tasks, each program told to stop at any time | holds |
| `source_states` | 1 source from a file and the web, 1 instance, 2 workers, 2 timers and 2 waiting goroutines of a kind, 1 outage | holds |
| `source_moved` | 2 sources of one database, the second moves it to another instance, 1 worker | holds |

Why the bounds are enough. `Consumer`: with three elements and two workers one element
waits in the loop's hand while both workers are busy, and a third sender is at the
door; more senders only repeat this. `AgentJobs`: `OneItemInFlight` bounds what a job
can occupy to one place, so that W workers, the two hands and the single job worker
are filled by W + 3 jobs; two jobs on three connections get through whatever
happens, and the lockup run shows what the defaults make of four.
`AgentDb`: each way of losing a write takes two writers; the third job meets the
row in each stage the other two leave, and two faults allow one in each of two
jobs. `CronServer`: four trigger times reach each of the four insertions.
`DbInstance`: two streams overlap and the third meets what they left.
`StatusFlow`: with two writes there is a newer row and an older copy of it at every
place; the second registration brings the list of the first one up to date; two
restarts let agent and server, or one of them twice, forget. Order is lost by two
messages, so that a third adds none.
`Instances`: a chain of waiting goes from a stream over `dbLock` and `instLock` to the
callers of the other instance, which takes two instances; the second
stream of the first one meets the locks its predecessor left.
`Servers`: two jobs hold both hands of a queue, and two tasks make a job come back
to the queue that was shut down before the one it comes from.
`Source`: two workers may have the same source at once, two timers of a name are one
that counts and one that is stale, and an outage puts a source back to Pending; the
second source replaces the first while events of the first one's instance are still
on their way.

Bounds in guards: `MaxTime` (the clock), `MaxFaults`, `MaxCrashes`, `MaxWrites`, in
`Instances` the sets `Serving` (streams that are up at the start), `Breaking` (streams
that may break) and `Reported` (what an agent may say), and in `Source`
`MaxTimers`, `MaxWaiting` (goroutines of one kind that wait for one thing),
`MaxOutages` and one scan per instance at a time. Sends, jobs,
streams, calls and elements are members of constant sets, each used once. Symmetry is
used in the lockup run and among the workers of `source_states`, neither of which checks
liveness. In `StatusFlow` the last registration of a run stays up (`CanBreak`), and at
most one call is late at a time.
The other runs say `CHECK_DEADLOCK FALSE`, since
the program may have nothing to do (in `Source` somebody may always ask again, and
deadlock is checked); real deadlocks are stated as properties
(`NoLockup`, `ShutdownTerminates`, `SendReturns`, `ElementFires`, `JobEnds`).

### What the passing runs show

* `consumer`: the queue implements `WorkPool`, so that every element is discarded or
  handled once and nothing is left when it stops, also one that was in the loop's hand
  when the channel was closed; a sender in time is served; shutdown ends, unless the process panicked on a send into the
  closed channel, which the gap between `chanClosed.Get` and `addingWg.Add` allows
  (`consumer.go:104-106`).
* `agent_jobs_ends`: nothing locks up; whatever fails, is refused or cancelled, a job has one item on its way,
  tasks run in order and once, and each job ends and is forgotten unless a task came
  back untouched (`createDatabase`, `DbApi.Query` without a connection).
* `agent_db_interleaved`: lost writes and interleaved jobs never make the row claim more
  than the PostgreSQL server holds, because every stage is entered by a compare-and-set
  on a row read in the stage before; the
  row keeps to the life of `DbLife`, which a handler that writes over a newer row would not,
  and comes to the end of it, Idle/Done, only by a fault (`IdleByFault`);
  Processing without an owner takes a crash, a lost write or a migrate-out. (That the
  *data* was restored is not among these: a restore whose final write is
  lost or refused can leave a database that the next create job makes ready.)
* `cron_fires`: the loop never sleeps past an element, and each fires unless sender and
  loop lock each other out (`Locked`): `Send` wakes the loop with the mutex the loop
  wants before it can be woken (`cron_server.go:75`).
* `db_instance_streams`: `Online` never outlives the last handler; without overlap it is
  exact, no job is received twice, and none is forgotten. A `Send` returns
  unless the instance is locked out, with `dbLock` held and no handler that serves
  (`db-instance.go:171`).
* `status_flow`: when nothing is on its way the record is the row, or the last
  announcement was in vain: a call that failed, a list an agent made without a
  connection (`ListDbs` then returns no rows and no error), a copy that was overtaken by
  an older list or a late call (`Database.Update` replaces whatever it has), or by a
  write that was rolled back after it was announced. The record goes back only for
  these reasons, or where two jobs were at the database; and no break and no
  restart keeps the row from being said again. A failed call is *not* made good
  until the stream breaks.
* `instances`: an instance is *locked out* when a sender has its `dbLock` and no
  handler serves: for good, since a handler needs that lock twice before it serves. As
  long as none is, every registration, request, status and `WaitReady` comes to its
  end, though `filterInstances` holds `instLock` over the locks of all instances and the
  instance subscriber its mutex over one. Who waits for a status is about to be told
  of it, unless it passed the notice between its check and its subscription.
* `servers`: the queues of a process that ends are empty, no task and no status finds a
  closed queue, since every queue is closed after those that feed it; what is
  lost comes from outside, or is a task on its way *back* to the queue of jobs, which
  was closed first. The agent stops once it is told to. The server may wait for its agent,
  because `GracefulStop` waits for the Register stream and that one does not look at
  `QuitCtx`. Both stop unless the instance is locked out: then the stream's handler
  waits for `dbLock`, and the notifier for the answer to a call without a deadline
  (`db_status_sender.go:17`). Request handlers of the agent are nobody's
  to wait for, and cut off.
* `source_states`: a source that is not what it should be is in the queue, has a timer,
  waits for an instance that is offline, or for the agent (`NeverStranded`), unless it
  is `parked` or `overtaken`. The exceptions are real: a worker that writes Processing or
  Pending after a callback passed it (`handler.go:67`, `104`) waits for an event that
  does not come again, and so does a source set Pending by an outage too short to be
  reported (`handler.go:248-252`). Timers that outlived their reason do nothing.
  Another exception (`MovedAway`) needs two sources that move a database to and fro: the
  creation after a migrate-out can be refused, because the database is leaving that
  instance in turn (`db-instance.go:150`), in a goroutine whose error nobody reads
  (`db-instance.go:190`); then the source stays Processing.
* `source_moved`: a ready database is noticed (`ReadyIsSeen`), with the same exceptions.
  The web's *ready* is true (`ReadyIsReal`) except after a source was put back on the
  instance its database is leaving: nothing takes the state Ready back.

### What the violated runs show

Each is a disagreement between the code and what it says of itself, in `findings`:

1. `agent_jobs_lockup`: four jobs at a time hold the four pooled connections and
   each waits for another one. With fewer jobs than connections, and fewer than the
   queues and workers have places, this cannot happen (`NoLockupWithRoom`).
2. `agent_db_recovery`: `PostInit` sends into a queue whose loop starts after it.

Also met while modelling, without a violated run of their own:

* A migrate-out never gets its row to Idle/Done: the request handler moves it to
  Idle/Processing (`job_migrate_out.go:83`) before the task that asks for ReadyToUse runs
  (`task_migrate_out.go:35`) and is refused. The only way there is a fault: when the
  handler's own write is lost, the row is still ready for the task. `IdleByFault` says so, and
  is checked and proved; it is what the code does, not what it should do, and the property
  to be turned round when the task is corrected. `ProcessingHasOwner` leaves the stage Idle
  out for the same reason.
* A create job with `MigrateFrom` never makes its database ready: its backup leaves the
  stage `BackupDatabase`, which neither `CanRestore` (`db_utils.go:18`) nor the check of
  `wait_ready` (`task_wait_ready.go:25`) accepts.
* The lockouts of `CronServer.Send` and of `dbLock` (above), which `ElementFires`,
  `EverybodyGetsThrough`, and `ProgramsStop` name as their exceptions.
* Failing tasks do not stop those that depend on them, which are run and refused by the
  stage they find (`task.go:37` says they are cancelled).

Hazards that are real, not in `PROJECT.json`, and that no property is about: a file that is removed and written
again unchanged is skipped (`handler.go:123` of the sources); `wg.Add` in the goroutine
it counts (`cron_server.go:136`), so that a shutdown may overlook one; a create job that
is never recovered, since it sets no `LastJobID` (`job_create_database.go:103`);
`GetDb` without a connection, which returns neither row nor error
(`db_api.go:180`).

### Fairness

Weak fairness per goroutine, unless said otherwise: a goroutine that can run is run, a handler returns, time
passes, a broken stream is noticed in the end (keepalive, `agent_server.go:70-74`). Go's
mutexes and channels queue their waiters, which weak fairness of the one goroutine that
is served stands for. In `Source` a goroutine that sends a source to the queue competes
with others for workers that are now free and now busy; that channels serve their senders
in order is strong fairness of `Take`. Nobody is obliged to call
`Send` or `Shutdown`, to ask for a database, to break a stream, to bring an instance
online, or to fail. In `AgentJobs` fairness of
a worker leaves out `DbConnectFails`: that the database does not answer is never owed.
`StatusFlow`, `Instances` and `Servers` need weak fairness only: of each goroutine,
of a call (which ends, with or without success) and of an agent that goes on trying to
register. In `StatusFlow` and `Instances` a lock is taken for a bounded number of
times, so that its last taker gets it; a connection that breaks, a status, a request
and a signal are never owed, and neither is a connection in `Servers`.


## 4. Theorems

Proved for every value of the constants that meets the assumptions named with each:

* `QueueProofs`, about `Consumer`: `TypeCorrect`, `ConcurrencyBounded`, `AcceptedBeforeHandlerDown`, and
  `Refinement` (the queue implements `WorkPool`). The inductive invariant says what the
  counters count (`addingWg`, `sem` and `wg` are cardinalities of sets of senders and
  workers), where an element can be, and how far a shutdown has come. Without
  the counters' meaning nothing follows from `wg = 0`; without the order of the
  shutdown an element could be in the loop's hand at that time. Assumed: finitely many
  calls, at least one worker (`max(maxConcurrency, 1)`), and that `None` is no call.
  About `CronServer` (whose names are chosen so that one module can extend both):
  `CronTypeCorrect`, `NeverOversleepsAlways`. The loop looks at the first element
  only, so the invariant says that the list is ordered (`ListOrdered`): an insertion before the
  first later element (`InsertIs`) and the removal of whatever has arrived (`RemainingIs`) keep
  it so. For this the model writes the removal by the places of what is kept (`Kept`,
  `Place`, `Remaining`), not with `SelectSeq`: what a recursive definition computes cannot be
  proved here, what a counted set contains can (`Counted`). Assumed: times and horizon are
  natural numbers and the hour is not zero.
* `DbInstanceProofs`: `TypeCorrect`, `OnlineIsAlwaysServed` (for streams that overlap, too),
  and, without overlap, `ServingIsAlwaysOnline`, `JobsReceivedOnce`,
  `JobsNeverForgotten`. The invariant adds that there is one handler, that a job is on one
  place of its way, and that `nonSentDbJob` is cleared only after it was sent.
  Assumed: no call is `nil`.

* `StatusFlowProofs`: `TypeCorrect`, `StaleAlwaysExplained`, `OrderAlwaysKept`. The invariant follows the
  announcement of the row: it is with a writer, in the queue, in a call, on a late call,
  in the record or in `vain`, or the next registration will say it
  (`RowAnnounced`); all copies of one version are equal (`CopiesAgree`); and the same
  for a write in an open transaction (`TransactionAnnounced`), which may have been announced
  and even recorded before its commit makes it the row.
  `OrderAlwaysKept` is an action property; its invariant (`InOrder`) says that a copy newer than
  the row is of a write that was rolled back or is still open (`Settled`), and, as long as no
  two writers have been at work at a time, that what was sent is no newer than what follows
  it on the way (`Queued`). A second writer can announce an older write after a newer one,
  which is what `crowded` stands for. Assumed: `None` is no message.
* `InstancesProofs`: `TypeCorrect` (which says that `instLock` and each `dbLock` have one
  holder), `WaitersAreTold`, `LockOutsLast`. The invariant adds that an instance that says
  something is known, that a creation comes after its request, and that a
  caller between check and subscription has a notice coming or has been passed by it
  (`WaitersHear`); without this last part the subscription itself could break `WaiterIsTold`.
  Assumed: `None` is no instance, no request is a `WaitReady`.
* `AgentJobsProofs`: `TypeCorrect`, `OneInFlight`, `NoLockupWithRoom`, `AgentImplementsOrder`.
  The plan of a job is a chain, so that a task that comes back makes at most one other ready (`WaitsForOne`), and a job that is added has
  one task to begin with, since nobody has touched its tasks yet (`NewIsUntouched`). That
  the item of a job is the only one (`Alone`) is what keeps a job from being new and
  having a task under way at the same time. `OneInFlight` holds with and without free
  connections, so it does not depend on `NoLockup`.
  `NoLockupWithRoom` says how much room is enough (`HasRoom`): a lockup needs as many jobs
  under way as there are connections, or enough of them to fill every worker, both queues
  and what the job worker has to send. Both bounds are tight: `agent_jobs_lockup` has as many
  jobs as connections, and with one worker, four jobs and nine connections TLC finds a lockup.
  The code compares neither number with anything, so `HasRoom` is a condition on the load and
  not an assumption that the agent meets it. The proof counts: a lockup places different jobs
  at all of these places (`WorkersApart`, `RoomForItems`), and a job is at one of them only
  (`OnePlace`, from `OneInFlight`).
  `AgentImplementsOrder` is the refinement `Spec => Order!Spec`. A task on its way
  to a worker is fresh, and one on its way back has ended or was refused (`WayThereIsFresh`,
  `WayBackIsBack`); a dependency is off the list only once it has ended
  (`OffTheListIsDone`); a task that was handed on waits for nobody
  (`SentWaitsForNobody`), so that no later end of another task hands it on again; the
  running tasks are those the workers are at, which bounds them by the number of workers.
  It rests on `OneInFlight`: whoever changes a task is the only one who has it.
  Assumed for all of them: finitely many workers, at least one, and the plans of `JobPlans`.
* `AgentDbProofs`: `TypeCorrect`, `ReadyAlwaysCreated`, `ReadyRemains`, `ProcessingOwned`,
  `AgentImplementsDbLife`, `MigrationsNeverEnd`: the
  compare-and-set argument. What a handler saw of the row (`Sees`) holds as long as
  it is in `fresh`, since every write takes the row from all others, and nothing else
  changes it; from CreateDatabase/Done on the row means a database that was created
  (`Means`), which its writer made (`Made`). `ReadyRemains` follows from the same invariant:
  who saw the row before it was ready does not have it at hand any more.
  The refinement `Spec => Life!Spec` needs what a write is decided on, not only that it
  lands: a handler whose check let it through still has before it the row that it
  checked, as long as it is in `fresh` (`Decided`). So a step either takes the row from
  everybody and moves it in one of four ways (`Written`, `NobodyDecides`), or leaves it and decides
  by what is there (`LetAlone`); each of the four is a step of `DbLife` or a stutter.
  `MigrationsNeverEnd` is about `IdleByFault`: unless its handler failed, a migrate-out job
  that was sent has its row at Idle already (`Migrating`), so that its task, which runs only after that (`Begun`), never admits it. Assumed: the plans
  are those of `JobPlans`, there is a job, and no job is a task.
* `SourceProofs`: `TypeCorrect`, `NeverStrandedAlways`, `ReadyIsRealAlways`,
  `StaleTimersNeverAct`, `RecordsKeepToLife`. `NeverStranded` is far from inductive: a
  worker looks at the database, and what it goes by is out of date when it writes. The
  invariant (`AllTended`) is about sources that nobody passed (`Plain`: the source of its
  name, neither parked nor overtaken). A worker that has such a source has missed no status
  since it looked (`MissedNothing`); at each point where it may let go of the source there
  is a step to come (`Followed`); and a database becomes ready only together with a notice
  (`NoticeDue`). That pending timers of one name have different times (`Timing`) makes a
  source waiting for a time one that a timer will find. `ReadyIsReal` needs that what a
  source, a worker or a scan has taken for ready was ready (`HeardReady`).
  `StaleTimersNeverAct` follows from types and `Timing`: a source that was reached has no
  time. `RecordsKeepToLife` (`RecordsLive`: no worker and no notice takes the record of a
  database back, though both may make an entry for it at any point of its life) needs that
  the agent is asked to create only what has an entry (`AskedAreThere`), and that an entry,
  once made, stays (`PresentStays`): otherwise a request would start a database that was
  never entered. Assumed: each source has a name and an instance, `None` is none of them,
  and the bounds are natural numbers.
  The attempt to prove `NeverStranded` without `MovedAway` showed it to be false for two
  workers and two sources that move a database to and fro, which no run had.
* `ServersProofs`: `TypeCorrect`, `NothingIsCutOff`, `LatecomersLost`. The invariant says
  that a server that is down is idle (`DownIsIdle`) and stays so, because what could give
  it work is in a server that was shut down before it; and that a job whose task is on its
  way has tasks left. Assumed: `Tasks` is a natural number; there may be any number of jobs.

Proved, and not a property of any run: the types of `AgentDb`, `ReadyRemains` (of which
`ImplementsDbLife` says more), `RecordsKeepToLife`, and the inductive invariants.

Only model-checked: liveness throughout, and with it what rests on fairness (`CatchesUp`,
`ElementFires`, `ShutdownTerminates` and the like), which is beyond this prover. `NoLockup`
is proved under `HasRoom`; the two runs of `AgentJobs` show one side of it each.

## 5. What is left

1. `Source` in abstract: a source ends Ready, Idle or waiting for a retry or an event,
   `Source` shown to implement it; a configuration that combines idling with a
   replacement on another instance.
2. Theorems: the refinement of that abstraction; how a lockup of `AgentJobs` with more jobs
   than `HasRoom` allows comes about, as a condition that is necessary and sufficient.

Not modelled:

* authentication and authorization (`pkg/auth`): checks of tokens and certificates that
  keep no state;
* configuration, validation, logging and the command line: start-up code and pure checks;
  the defaults that matter are constants of the runs;
* `RemoveDatabaseSource`: nothing in the agent writes the stage DropDatabase it waits for;
* the daily backup: no job creates one;
* the filter by version, which only leaves instances out, and the conversion of rows to
  the wire format;
* schema migration, packaging and the end-to-end tests.
