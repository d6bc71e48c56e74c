------------------------------ MODULE AgentJobs ------------------------------
(***************************************************************************)
(* How a job of the agent is carried out: the gRPC handler that creates it *)
(* (internal/handler/grpc_agent), the JobHandler that keeps the jobs and   *)
(* the dependencies of their tasks (internal/job), the DbTaskHandler that  *)
(* runs the tasks (internal/handler/db_task), the two BaseConsumers that   *)
(* connect them, and the pool of database connections they all draw from.  *)
(*                                                                         *)
(*    gRPC handler --job--> Pending Job Handler (1 worker) --ready task-+  *)
(*                                  ^                                   |  *)
(*                                  +--done task-- Db Job Handler <-----+  *)
(*                                                 (Workers workers)       *)
(*                                                                         *)
(* Both queues are unbuffered: a Run loop holds one element in its hand    *)
(* until a worker is free (see Consumer.tla), and whoever sends waits      *)
(* until that hand is empty.  What a task does to its database is left to  *)
(* AgentDb.tla: here it ends completed or failed, or was refused and left  *)
(* pending.  The agent is not shut down here: Consumer.tla has the         *)
(* shutdown of one queue.                                                  *)
(***************************************************************************)
EXTENDS JobPlans, FiniteSets

CONSTANTS
  Workers,   \* workers of the Db Job Handler (4 in agent.go)
  MaxConns   \* DbConfig.MaxConns, 4 by default

ASSUME WorkersAssumption == IsFiniteSet(Workers) /\ Workers # {}
ASSUME MaxConnsAssumption == MaxConns \in Nat \ {0}

\* An item of the queues is a task or a job, <<j, 0>>.
JobItem(j) == <<j, 0>>
Items == Tasks \cup {JobItem(j) : j \in Jobs}
NoItem == <<>>

\* Actions whose handler runs inside DbApi.Query: it keeps a connection, and
\* takes a second one for each call that is not given the first.
KeepsConn(t) == ActionOf(t) \in {"create_user", "create", "migrate_out"}

\* Actions whose first status update takes a connection of its own.
BeginTakesConn(t) == ActionOf(t) \notin {"create", "migrate_out"}

VARIABLES
  handler,        \* where the gRPC handler goroutine of each job is
  jobs,           \* JobHandler.jobs
  status,         \* DbTask.Status of each task, in memory
  liveDependsOn,  \* BaseTaskDependency.liveDependsOn
  cancelling,     \* BaseTaskDependency.cancelling
  jobHand,        \* item in the hand of the Pending Job Handler's Run loop
  jobWorker,      \* its only worker
  dbHand,         \* task in the hand of the Db Job Handler's Run loop
  dbWorker,       \* its workers
  refused         \* history: tasks handed back pending by their handler

taskVars == <<status, liveDependsOn, cancelling>>
vars == <<handler, jobs, taskVars, jobHand, jobWorker, dbHand, dbWorker, refused>>

TaskStatus == {"pending", "running", "completed", "failed", "cancelled"}
HandlerStep == {"idle", "connected", "sending", "sent", "returned"}
JobWorkerStep == {"idle", "handle", "send"}
DbWorkerStep == {"idle", "connect", "begin", "work", "send"}

IdleJobWorker == [step |-> "idle", item |-> NoItem, toSend |-> {}]
IdleDbWorker == [step |-> "idle", task |-> NoItem]

TypeOK ==
  /\ handler \in [Jobs -> HandlerStep]
  /\ jobs \subseteq Jobs
  /\ status \in [Tasks -> TaskStatus]
  /\ liveDependsOn \in [Tasks -> SUBSET Tasks]
  /\ cancelling \in [Tasks -> BOOLEAN]
  /\ jobHand \in Items \cup {NoItem}
  /\ jobWorker \in [step : JobWorkerStep, item : Items \cup {NoItem},
                    toSend : SUBSET Tasks]
  /\ dbHand \in Tasks \cup {NoItem}
  /\ dbWorker \in [Workers -> [step : DbWorkerStep, task : Tasks \cup {NoItem}]]
  /\ refused \subseteq Tasks

Init ==
  /\ handler = [j \in Jobs |-> "idle"]
  /\ jobs = {}
  /\ status = [t \in Tasks |-> "pending"]
  /\ liveDependsOn = [t \in Tasks |-> DependsOn(t)]
  /\ cancelling = [t \in Tasks |-> FALSE]
  /\ jobHand = NoItem
  /\ jobWorker = IdleJobWorker
  /\ dbHand = NoItem
  /\ dbWorker = [w \in Workers |-> IdleDbWorker]
  /\ refused = {}

IsFailed(t) == status[t] \in {"failed", "cancelled"}
IsDone(t) == IsFailed(t) \/ status[t] = "completed"
IsCancelling(t) == ~IsDone(t) /\ cancelling[t]
JobIsDone(j) == \A t \in TasksOf(j) : IsDone(t)

\* A slip, refuted by NoLockup: without defer conn.Release() the connection
\* outlives the handler.
HandlersConnectedLeak == {j \in Jobs : handler[j] # "idle"}

\* Who keeps a connection of the pool while waiting for something else.
HandlersConnected == {j \in Jobs : handler[j] \in {"connected", "sending", "sent"}}
WorkersConnected ==
  {w \in Workers : /\ dbWorker[w].step \in {"begin", "work"}
                   /\ KeepsConn(dbWorker[w].task)}

FreeConn == Cardinality(HandlersConnected) + Cardinality(WorkersConnected) < MaxConns

-----------------------------------------------------------------------------
(* Slips of the code below, each one refuted by a property *)

\* ReadyToRun does not look at the dependencies.
ReadyToRunAll(j) == {t \in TasksOf(j) : ~IsDone(t)}

\* DependsDone looks at the list before it takes `done` off.
ReadyAfterDoneTooLate(done) ==
  {t \in TasksOf(done[1]) : ~IsDone(t) /\ liveDependsOn[t] = {}}

\* The task after the one done is ready, the last one of a job or not.
ReadyAfterDoneOffByOne(done) == {<<done[1], done[2] + 1>>}

\* DependsFailed cancels whatever of the job is not done, not only the tasks
\* that waited for the one that failed.
ReadyAfterFailedAll(done) == {t \in TasksOf(done[1]) : ~IsDone(t)}

-----------------------------------------------------------------------------
(* The gRPC handler goroutine of a job: GrpcAgentHandler.handle *)

\* QueryWithRollback: acquire a connection and begin.
HandlerConnect(j) ==
  /\ handler[j] = "idle"
  /\ FreeConn
  /\ handler' = [handler EXCEPT ![j] = "connected"]
  /\ UNCHANGED <<jobs, taskVars, jobHand, jobWorker, dbHand, dbWorker, refused>>

\* The rows are inserted and committed; the job is offered to JobProducer with
\* the connection still held.
HandlerCommit(j) ==
  /\ handler[j] = "connected"
  /\ handler' = [handler EXCEPT ![j] = "sending"]
  /\ UNCHANGED <<jobs, taskVars, jobHand, jobWorker, dbHand, dbWorker, refused>>

\* An early return: a reserved name, nothing to do, or an error of the
\* database.
HandlerGivesUp(j) ==
  /\ handler[j] \in {"idle", "connected"}
  /\ handler' = [handler EXCEPT ![j] = "returned"]
  /\ UNCHANGED <<jobs, taskVars, jobHand, jobWorker, dbHand, dbWorker, refused>>

HandlerSend(j) ==
  /\ handler[j] = "sending"
  /\ jobHand = NoItem
  /\ jobHand' = JobItem(j)
  /\ handler' = [handler EXCEPT ![j] = "sent"]
  /\ UNCHANGED <<jobs, taskVars, jobWorker, dbHand, dbWorker, refused>>

\* Roll back (a no-op) and release the connection.
HandlerReturn(j) ==
  /\ handler[j] = "sent"
  /\ handler' = [handler EXCEPT ![j] = "returned"]
  /\ UNCHANGED <<jobs, taskVars, jobHand, jobWorker, dbHand, dbWorker, refused>>

-----------------------------------------------------------------------------
(* JobHandler, on the one worker of the Pending Job Handler *)

JobWorkerStart ==
  /\ jobHand # NoItem
  /\ jobWorker.step = "idle"
  /\ jobWorker' = [step |-> "handle", item |-> jobHand, toSend |-> {}]
  /\ jobHand' = NoItem
  /\ UNCHANGED <<handler, jobs, taskVars, dbHand, dbWorker, refused>>

\* BaseJob.ReadyToRun
ReadyToRun(j) ==
  {t \in TasksOf(j) : ~IsDone(t) /\ (liveDependsOn[t] = {} \/ cancelling[t])}

\* addJob: keep the job, then send its ready tasks one after the other.
AddJob ==
  LET j == jobWorker.item[1] IN
  /\ jobWorker.step = "handle"
  /\ jobWorker.item = JobItem(j)
  /\ IF j \in jobs
       THEN jobWorker' = IdleJobWorker /\ UNCHANGED jobs    \* ErrJobAlreadyExist
       ELSE /\ jobs' = jobs \cup {j}
            /\ jobWorker' =
                 [jobWorker EXCEPT !.step = "send", !.toSend = ReadyToRun(j)]
  /\ UNCHANGED <<handler, taskVars, jobHand, dbHand, dbWorker, refused>>

\* The tasks that wait for `done` and are not done themselves: DependsDone and
\* DependsFailed take `done` off their list.
Dependents(done) ==
  {t \in TasksOf(done[1]) : ~IsDone(t) /\ done \in liveDependsOn[t]}

\* What OnTaskDone reports as ready, by DependsDone or DependsFailed.
ReadyAfterDone(done) == {t \in Dependents(done) : liveDependsOn[t] = {done}}
ReadyAfterFailed(done) == Dependents(done)

\* processDoneTask, up to the sends.
OnTaskDone(done) ==
  /\ liveDependsOn' = [t \in Tasks |-> IF t \in Dependents(done)
                                         THEN liveDependsOn[t] \ {done}
                                         ELSE liveDependsOn[t]]
  /\ cancelling' = [t \in Tasks |-> cancelling[t]
                                      \/ (IsFailed(done) /\ t \in Dependents(done))]
  /\ jobWorker' =
       [jobWorker EXCEPT
          !.step = "send",
          !.toSend = IF IsFailed(done) THEN ReadyAfterFailed(done)
                                       ELSE ReadyAfterDone(done)]

ProcessDoneTask ==
  LET t == jobWorker.item IN
  /\ jobWorker.step = "handle"
  /\ t \in Tasks
  /\ IsDone(t)
  /\ IF t[1] \in jobs
       THEN OnTaskDone(t)
       ELSE /\ jobWorker' = IdleJobWorker      \* ErrJobNotFound
            /\ UNCHANGED <<liveDependsOn, cancelling>>
  /\ UNCHANGED <<handler, jobs, status, jobHand, dbHand, dbWorker, refused>>

\* processCancellingTask: a task that was to be cancelled comes back not done.
CancelTask ==
  LET t == jobWorker.item IN
  /\ jobWorker.step = "handle"
  /\ t \in Tasks
  /\ IsCancelling(t)
  /\ FreeConn
  /\ status' = [status EXCEPT ![t] = "cancelled"]
  /\ UNCHANGED <<handler, jobs, liveDependsOn, cancelling, jobHand, jobWorker,
                 dbHand, dbWorker, refused>>

\* ErrNotSupportedTaskStatus: the task is dropped, its job stays.
DropTask ==
  LET t == jobWorker.item IN
  /\ jobWorker.step = "handle"
  /\ t \in Tasks
  /\ ~IsDone(t)
  /\ ~IsCancelling(t)
  /\ jobWorker' = IdleJobWorker
  /\ UNCHANGED <<handler, jobs, taskVars, jobHand, dbHand, dbWorker, refused>>

\* readyToRun: the next ready task, in the order of the job's tasks.
SendReadyTask ==
  /\ jobWorker.step = "send"
  /\ dbHand = NoItem
  /\ \E t \in jobWorker.toSend :
       /\ \A u \in jobWorker.toSend : t[2] <= u[2]
       /\ dbHand' = t
       /\ jobWorker' = [jobWorker EXCEPT !.toSend = @ \ {t}]
  /\ UNCHANGED <<handler, jobs, taskVars, jobHand, dbWorker, refused>>

\* After the sends processDoneTask forgets a job that is done, by the
\* statuses of that moment: the tasks just sent may have run by then.
JobWorkerEnd ==
  LET i == jobWorker.item IN
  /\ jobWorker.step = "send"
  /\ jobWorker.toSend = {}
  /\ jobs' = IF i \in Tasks /\ JobIsDone(i[1]) THEN jobs \ {i[1]} ELSE jobs
  /\ jobWorker' = IdleJobWorker
  /\ UNCHANGED <<handler, taskVars, jobHand, dbHand, dbWorker, refused>>

JobWorkerNext ==
  \/ JobWorkerStart
  \/ AddJob
  \/ ProcessDoneTask
  \/ CancelTask
  \/ DropTask
  \/ SendReadyTask
  \/ JobWorkerEnd

-----------------------------------------------------------------------------
(* DbTaskHandler, on a worker of the Db Job Handler *)

SetDbWorker(w, step) == dbWorker' = [dbWorker EXCEPT ![w].step = step]

DbWorkerStart(w) ==
  /\ dbHand # NoItem
  /\ dbWorker[w].step = "idle"
  /\ dbWorker' = [dbWorker EXCEPT
                    ![w] = [step |-> IF KeepsConn(dbHand) THEN "connect" ELSE "begin",
                            task |-> dbHand]]
  /\ dbHand' = NoItem
  /\ UNCHANGED <<handler, jobs, taskVars, jobHand, jobWorker, refused>>

\* DbApi.Query: the connection the handler keeps.
DbConnect(w) ==
  /\ dbWorker[w].step = "connect"
  /\ FreeConn
  /\ SetDbWorker(w, "begin")
  /\ UNCHANGED <<handler, jobs, taskVars, jobHand, jobWorker, dbHand, refused>>

\* The database does not answer: Query returns before the task is touched.
DbConnectFails(w) ==
  /\ dbWorker[w].step = "connect"
  /\ SetDbWorker(w, "send")
  /\ refused' = refused \cup {dbWorker[w].task}
  /\ UNCHANGED <<handler, jobs, taskVars, jobHand, jobWorker, dbHand>>

\* createDatabase returns before the task is touched: no row, another owner,
\* or a stage that does not match.
RefuseCreate(w) ==
  /\ dbWorker[w].step = "begin"
  /\ ActionOf(dbWorker[w].task) = "create"
  /\ SetDbWorker(w, "send")
  /\ refused' = refused \cup {dbWorker[w].task}
  /\ UNCHANGED <<handler, jobs, taskVars, jobHand, jobWorker, dbHand>>

BeginTask(w) ==
  /\ dbWorker[w].step = "begin"
  /\ BeginTakesConn(dbWorker[w].task) => FreeConn
  /\ SetDbWorker(w, "work")
  /\ status' = [status EXCEPT ![dbWorker[w].task] = "running"]
  /\ UNCHANGED <<handler, jobs, liveDependsOn, cancelling, jobHand, jobWorker,
                 dbHand, refused>>

\* The task's own work, then setFinalDbStatus and setFinalTaskStatus, which
\* take a connection each; the kept connection is released on return.
FinishTask(w) ==
  /\ dbWorker[w].step = "work"
  /\ FreeConn
  /\ SetDbWorker(w, "send")
  /\ \E s \in {"completed", "failed"} :
       status' = [status EXCEPT ![dbWorker[w].task] = s]
  /\ UNCHANGED <<handler, jobs, liveDependsOn, cancelling, jobHand, jobWorker,
                 dbHand, refused>>

\* h.jobProducer.Send(task): back to the Pending Job Handler.
ReturnTask(w) ==
  /\ dbWorker[w].step = "send"
  /\ jobHand = NoItem
  /\ jobHand' = dbWorker[w].task
  /\ dbWorker' = [dbWorker EXCEPT ![w] = IdleDbWorker]
  /\ UNCHANGED <<handler, jobs, taskVars, jobWorker, dbHand, refused>>

-----------------------------------------------------------------------------
HandlerNext(j) ==
  \/ HandlerConnect(j)
  \/ HandlerCommit(j)
  \/ HandlerGivesUp(j)
  \/ HandlerSend(j)
  \/ HandlerReturn(j)

\* What a db worker does when the database answers it.
DbWorkerNext(w) ==
  \/ DbWorkerStart(w)
  \/ DbConnect(w)
  \/ RefuseCreate(w)
  \/ BeginTask(w)
  \/ FinishTask(w)
  \/ ReturnTask(w)

Next ==
  \/ \E j \in Jobs : HandlerNext(j)
  \/ JobWorkerNext
  \/ \E w \in Workers : DbWorkerNext(w) \/ DbConnectFails(w)

Spec == Init /\ [][Next]_vars

\* Goroutines that can run are run: every request gets its turn at the pool,
\* and a task's work ends.  That the database does not answer is never owed.
Fairness ==
  /\ \A j \in Jobs : WF_vars(HandlerNext(j))
  /\ WF_vars(JobWorkerNext)
  /\ \A w \in Workers : WF_vars(DbWorkerNext(w))

FairSpec == Spec /\ Fairness

-----------------------------------------------------------------------------
(* Properties *)

\* Where the items of a job are on their way: offered, in a Run loop's hand,
\* in a worker, or listed to be sent.
InFlight(j) ==
  LET Of(item) == item # NoItem /\ item[1] = j IN
  {<<"offered", JobItem(k)>> : k \in {k \in {j} : handler[k] = "sending"}}
  \cup {<<"jobHand", i>> : i \in {i \in {jobHand} : Of(i)}}
  \cup {<<"jobWorker", i>> :
           i \in {i \in {jobWorker.item} : jobWorker.step = "handle" /\ Of(i)}}
  \cup {<<"toSend", t>> : t \in {t \in jobWorker.toSend : Of(t)}}
  \cup {<<"dbHand", t>> : t \in {t \in {dbHand} : Of(t)}}
  \cup {<<"dbWorker", dbWorker[w].task, w>> :
           w \in {w \in Workers : Of(dbWorker[w].task)}}

\* job.go, job_handler.go, task.go: whatever fails or is cancelled, a job has
\* at most one item on its way through the two queues.  This is what bounds
\* the goroutines and connections a job can hold at a time, and with it the
\* number of jobs the agent can take on without locking up.
OneItemInFlight == \A j \in Jobs : Cardinality(InFlight(j)) <= 1

Busy ==
  \/ \E j \in Jobs : handler[j] # "returned"
  \/ jobHand # NoItem
  \/ jobWorker.step # "idle"
  \/ dbHand # NoItem
  \/ \E w \in Workers : dbWorker[w].step # "idle"

HandlerCanMove(j) ==
  \/ handler[j] = "idle" /\ FreeConn
  \/ handler[j] \in {"connected", "sent"}
  \/ handler[j] = "sending" /\ jobHand = NoItem

JobWorkerCanMove ==
  \/ jobWorker.step = "idle" /\ jobHand # NoItem
  \/ jobWorker.step = "handle" /\ (jobWorker.item \in Tasks => ~IsCancelling(jobWorker.item) \/ FreeConn)
  \/ jobWorker.step = "send" /\ (jobWorker.toSend = {} \/ dbHand = NoItem)

DbWorkerCanMove(w) ==
  \/ dbWorker[w].step = "idle" /\ dbHand # NoItem
  \/ dbWorker[w].step \in {"connect", "begin", "work"} /\ FreeConn
  \/ dbWorker[w].step = "send" /\ jobHand = NoItem

\* agent.go:19-31, db_api.go:67-98: while the agent has something to do, some
\* goroutine can go on without the database failing: the senders, the two Run
\* loops, the workers and the connection pool never all wait on each other.
NoLockup ==
  Busy => \/ \E j \in Jobs : HandlerCanMove(j)
          \/ JobWorkerCanMove
          \/ \E w \in Workers : DbWorkerCanMove(w)

\* A job's task that came back pending and that nobody will look at again.
LeftPending(j) == \E t \in TasksOf(j) \cap refused : ~IsDone(t)

\* grpc_agent/handler.go:32-42, job_handler.go:76-139: a job that was offered
\* is carried out to the end of its last task and forgotten, unless the
\* handler of one of its tasks returned without touching the task.
JobEnds ==
  \A j \in Jobs :
    handler[j] = "sending"
      ~> \/ JobIsDone(j) /\ j \notin jobs
         \/ LeftPending(j)

-----------------------------------------------------------------------------
(* What the agent promises about its tasks, TaskOrder.tla *)

GivenOut(t) ==
  \/ dbHand = t
  \/ \E w \in Workers : dbWorker[w].task = t
  \/ t \in refused

PhaseOf(t) ==
  CASE IsDone(t) -> "ended"
    [] status[t] = "running" -> "running"
    [] status[t] = "pending" /\ GivenOut(t) -> "given"
    [] OTHER -> "waiting"

Order == INSTANCE TaskOrder WITH
  MaxRunning <- Cardinality(Workers),
  phase      <- [t \in Tasks |-> PhaseOf(t)],
  running    <- Cardinality({t \in Tasks : status[t] = "running"})

\* job.go:66-92, task.go:59-106 and the queues between them: no task is run
\* before the tasks it depends on, and none is run twice.
ImplementsTaskOrder == Order!Spec

=============================================================================
