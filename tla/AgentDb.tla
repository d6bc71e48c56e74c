------------------------------- MODULE AgentDb -------------------------------
(***************************************************************************)
(* What the jobs of the agent do to one database: the row of table dbs     *)
(* (its stage, its status, the job that may be recovered), the rows of     *)
(* table db_tasks, and the PostgreSQL server itself (the user, the         *)
(* database, the dumps).                                                   *)
(*                                                                         *)
(* Every handler reads the row, decides, and writes it with                *)
(*    UPDATE dbs ... WHERE id = @id AND updated_at = @updated_at           *)
(* so a write lands only when nobody wrote since the read; whether it did  *)
(* is not looked at by any caller.  Jobs of one database interleave at     *)
(* each of these steps, and the agent may crash between any two of them.   *)
(* When a task starts is taken from TaskOrder.tla, which AgentJobs.tla     *)
(* implements: once, after the tasks it depends on have ended, failed or   *)
(* not.                                                                    *)
(***************************************************************************)
EXTENDS JobPlans, FiniteSets

CONSTANTS
  OwnerOf,     \* the owner each job asks for
  NoJob,       \* no job
  MaxFaults,   \* bound: how often PostgreSQL or a command fails
  MaxCrashes   \* bound: how often the agent crashes

ASSUME BoundsAssumption == MaxFaults \in Nat /\ MaxCrashes \in Nat

VARIABLES
  agent,    \* "up", "down" after a crash, "hung" when it cannot start again
  row,      \* the row of table dbs
  fresh,    \* who has read or written the row since its last change
  handler,  \* where the gRPC handler of each job is
  status,   \* DbTask.Status, the same in memory and in table db_tasks
  pc,       \* where the handler of each task is
  failed,   \* tasks whose command failed
  server,   \* what exists on the PostgreSQL server
  faults,   \* history: tasks and handlers that met a fault of the environment
  crashes   \* crashes so far

dbVars == <<row, fresh>>
vars == <<agent, dbVars, handler, status, pc, failed, server, faults, crashes>>

Stages == {"None", "CreateUser", "CreateDatabase", "BackupDatabase",
           "RestoreDatabase", "ReadyToUse", "Idle"}
DbStatus == {"Processing", "Done", "Failed"}
TaskStatus == {"pending", "running", "completed", "failed", "cancelled"}
TaskStep == {"waiting", "read", "mark", "work", "finalDb", "finalTask", "end", "left"}
HandlerStep == {"idle", "ready", "sent", "unrooted", "declined"}
Owners == {OwnerOf[j] : j \in Jobs}
Participants == Tasks \cup Jobs

TypeOK ==
  /\ agent \in {"up", "down", "hung"}
  /\ row \in [exists : BOOLEAN, stage : Stages, status : DbStatus,
              owner : Owners, lastJob : Jobs \cup {NoJob}]
  /\ fresh \subseteq Participants
  /\ handler \in [Jobs -> HandlerStep]
  /\ status \in [Tasks -> TaskStatus]
  /\ pc \in [Tasks -> TaskStep]
  /\ failed \subseteq Tasks
  /\ server \in [users : SUBSET Owners, database : BOOLEAN, dumps : SUBSET Jobs]
  /\ faults \subseteq Participants
  /\ crashes \in 0..MaxCrashes

Init ==
  /\ agent = "up"
  /\ row = [exists |-> FALSE, stage |-> "None", status |-> "Processing",
            owner |-> CHOOSE o \in Owners : TRUE, lastJob |-> NoJob]
  /\ fresh = {}
  /\ handler = [j \in Jobs |-> "idle"]
  /\ status = [t \in Tasks |-> "pending"]
  /\ pc = [t \in Tasks |-> "waiting"]
  /\ failed = {}
  /\ server = [users |-> {}, database |-> FALSE, dumps |-> {}]
  /\ faults = {}
  /\ crashes = 0

TaskDone(t) == status[t] \in {"completed", "failed", "cancelled"}
TaskFailed(t) == status[t] \in {"failed", "cancelled"}
JobDone(j) == \A t \in TasksOf(j) : TaskDone(t)
IsMigrateOut(j) == Plan[j] = MigrateOutPlan

\* The predicates of db_utils.go.
IsReadyToUse == row.stage = "ReadyToUse" /\ row.status = "Done"
CanRestore == row.status = "Done" /\ row.stage \in {"CreateDatabase", "RestoreDatabase"}
ShouldBackup ==
  \/ row.stage = "CreateDatabase" /\ row.status = "Done"
  \/ row.stage = "BackupDatabase" /\ row.status = "Failed"

\* The stage each handler moves the row to, Processing while it works.
StageOf(t) ==
  CASE ActionOf(t) = "create_user" -> "CreateUser"
    [] ActionOf(t) = "create" -> "CreateDatabase"
    [] ActionOf(t) = "backup" -> "BackupDatabase"
    [] ActionOf(t) = "restore" -> "RestoreDatabase"

\* The environment may fail p, a task or the handler of a job, now.
MayFault(p) == Cardinality(faults \cup {p}) <= MaxFaults

-----------------------------------------------------------------------------
(* DbApi.UpdateDbStatus *)

\* A slip: SetDbStatus without "AND updated_at = @updated_at".
WriteUnguarded(p, new) ==
  /\ row' = new
  /\ fresh' = {p}

\* SetDbStatus: lands only when the row is the one its writer last saw.
Write(p, new) ==
  IF p \in fresh THEN row' = new /\ fresh' = {p} ELSE UNCHANGED dbVars

\* No caller looks at the error of UpdateDbStatus: a write that fails is lost.
WriteOrLose(p, new) ==
  \/ Write(p, new) /\ UNCHANGED faults
  \/ /\ MayFault(p)
     /\ faults' = faults \cup {p}
     /\ UNCHANGED dbVars

-----------------------------------------------------------------------------
(* Slips of the code below, each one refuted by a property *)

\* WaitReadyDb does not look at the status, only at the stage.
AdmitsAnyStatus(t) ==
  CASE ActionOf(t) = "create_user" -> row.stage \in {"None", "CreateUser"}
    [] ActionOf(t) = "create" ->
         /\ row.owner = OwnerOf[t[1]]
         /\ row.stage \in {"None", "CreateUser", "CreateDatabase"}
    [] ActionOf(t) = "backup" -> ShouldBackup
    [] ActionOf(t) = "restore" -> CanRestore
    [] ActionOf(t) = "wait_ready" -> row.stage \in {"CreateDatabase", "RestoreDatabase"}
    [] ActionOf(t) = "migrate_out" -> IsReadyToUse

\* The row is claimed for the job, but not moved to Idle.
MigrateOutUnmoved(j) ==
  /\ agent = "up"
  /\ handler[j] = "ready"
  /\ handler' = [handler EXCEPT ![j] = "sent"]
  /\ WriteOrLose(j, [row EXCEPT !.lastJob = j])
  /\ UNCHANGED <<agent, status, pc, failed, server, crashes>>

\* setFinalDbStatus is not deferred, so that an error skips it.
FinalDbOnSuccess(t) ==
  /\ pc[t] = "finalDb"
  /\ pc' = [pc EXCEPT ![t] = "finalTask"]
  /\ IF t \in failed
       THEN UNCHANGED <<dbVars, faults>>
       ELSE WriteOrLose(t, [row EXCEPT !.stage = StageOf(t), !.status = "Done"])
  /\ UNCHANGED <<agent, handler, status, failed, server, crashes>>

-----------------------------------------------------------------------------
(* The gRPC handlers, job_create_database.go and job_migrate_out.go *)

\* One transaction: the row if there is none, the tasks; then the job is sent.
CreateJob(j) ==
  /\ agent = "up"
  /\ handler[j] = "idle"
  /\ ~IsMigrateOut(j)
  /\ handler' = [handler EXCEPT ![j] = "sent"]
  /\ row' = IF row.exists THEN row
                          ELSE [row EXCEPT !.exists = TRUE, !.owner = OwnerOf[j]]
  /\ UNCHANGED <<agent, fresh, status, pc, failed, server, faults, crashes>>

\* The commit of a handler that created the row fails: nobody looks, and the
\* job is sent without a row its tasks could find by its id.
CreateJobUncommitted(j) ==
  /\ agent = "up"
  /\ handler[j] = "idle"
  /\ ~IsMigrateOut(j)
  /\ ~row.exists
  /\ MayFault(j)
  /\ faults' = faults \cup {j}
  /\ handler' = [handler EXCEPT ![j] = "unrooted"]
  /\ UNCHANGED <<agent, dbVars, status, pc, failed, server, crashes>>

\* An error of the database in either handler: rolled back, and the job
\* dropped.  Or two handlers create the row at a time, and the name is taken.
JobDropped(j) ==
  /\ agent = "up"
  /\ handler[j] = "idle"
  /\ \/ MayFault(j) /\ faults' = faults \cup {j}
     \/ ~IsMigrateOut(j) /\ row.exists /\ UNCHANGED faults
  /\ handler' = [handler EXCEPT ![j] = "declined"]
  /\ UNCHANGED <<agent, dbVars, status, pc, failed, server, crashes>>

\* The server asks for a migration only of a database an agent reported.
MigrateOutRead(j) ==
  /\ agent = "up"
  /\ handler[j] = "idle"
  /\ IsMigrateOut(j)
  /\ row.exists
  /\ IF IsReadyToUse
       THEN /\ handler' = [handler EXCEPT ![j] = "ready"]
            /\ fresh' = fresh \cup {j}
       ELSE /\ handler' = [handler EXCEPT ![j] = "declined"]
            /\ UNCHANGED fresh
  /\ UNCHANGED <<agent, row, status, pc, failed, server, faults, crashes>>

\* Idle/Processing and LastJobID if the row did not change since; from here on
\* the handler looks at no error, the one of the commit included, and sends
\* the job in any case.
MigrateOutCommit(j) ==
  /\ agent = "up"
  /\ handler[j] = "ready"
  /\ handler' = [handler EXCEPT ![j] = "sent"]
  /\ WriteOrLose(j, [row EXCEPT !.stage = "Idle", !.status = "Processing", !.lastJob = j])
  /\ UNCHANGED <<agent, status, pc, failed, server, crashes>>

\* The task could not be inserted, which undoes the transaction: a job of one
\* task without an action is sent, which nobody carries out.
MigrateOutTaskless(j) ==
  /\ agent = "up"
  /\ handler[j] = "ready"
  /\ MayFault(j)
  /\ faults' = faults \cup {j}
  /\ handler' = [handler EXCEPT ![j] = "sent"]
  /\ pc' = [t \in Tasks |-> IF t[1] = j THEN "left" ELSE pc[t]]
  /\ UNCHANGED <<agent, dbVars, status, failed, server, crashes>>

-----------------------------------------------------------------------------
(* The task handlers of db_task, one step at a time *)

\* TaskOrder!Give and Run: the tasks before it have ended.
CanStart(t) ==
  /\ agent = "up"
  /\ handler[t[1]] \in {"sent", "unrooted"}
  /\ pc[t] = "waiting"
  /\ \A d \in DependsOn(t) : TaskDone(d)

\* UpdateTaskStatus(running); createDatabase does that only after its checks.
StartTask(t) ==
  /\ CanStart(t)
  /\ pc' = [pc EXCEPT ![t] = "read"]
  /\ status' = IF ActionOf(t) = "create" THEN status
                                         ELSE [status EXCEPT ![t] = "running"]
  /\ UNCHANGED <<agent, dbVars, handler, failed, server, faults, crashes>>

\* The state of the row each handler asks for.
Admits(t) ==
  CASE ActionOf(t) = "create_user" -> row.stage \in {"None", "CreateUser"}
    [] ActionOf(t) = "create" ->
         /\ row.owner = OwnerOf[t[1]]
         /\ row.stage \in {"None", "CreateUser", "CreateDatabase"}
    [] ActionOf(t) = "backup" -> ShouldBackup
    [] ActionOf(t) = "restore" -> CanRestore
    [] ActionOf(t) = "wait_ready" -> CanRestore
    [] ActionOf(t) = "migrate_out" -> IsReadyToUse

\* createDatabase finds the row by its name, the others by its id.
FindsRow(t) ==
  row.exists /\ (handler[t[1]] = "unrooted" => ActionOf(t) = "create")

\* The row is read and found suitable.
ReadAdmitted(t) ==
  /\ pc[t] = "read"
  /\ FindsRow(t)
  /\ Admits(t)
  /\ pc' = [pc EXCEPT ![t] = "mark"]
  /\ fresh' = fresh \cup {t}
  /\ UNCHANGED <<agent, row, handler, status, failed, server, faults, crashes>>

\* The row cannot be read, or does not suit: the task fails without a word to
\* the row.  createDatabase leaves its task pending, which JobHandler cancels
\* when the task before failed, and forgets otherwise.
ReadRefused(t) ==
  /\ pc[t] = "read"
  /\ \/ ~(FindsRow(t) /\ Admits(t)) /\ UNCHANGED faults
     \/ MayFault(t) /\ faults' = faults \cup {t}
  /\ IF ActionOf(t) # "create"
       THEN /\ status' = [status EXCEPT ![t] = "failed"]
            /\ pc' = [pc EXCEPT ![t] = "end"]
       ELSE IF \E d \in DependsOn(t) : TaskFailed(d)
         THEN /\ status' = [status EXCEPT ![t] = "cancelled"]
              /\ pc' = [pc EXCEPT ![t] = "end"]
         ELSE /\ pc' = [pc EXCEPT ![t] = "left"]
              /\ UNCHANGED status
  /\ UNCHANGED <<agent, dbVars, handler, failed, server, crashes>>

HasWork(t) == ActionOf(t) \in {"create_user", "create", "backup", "restore"}

MarkProcessing(t) ==
  /\ pc[t] = "mark"
  /\ HasWork(t)
  /\ pc' = [pc EXCEPT ![t] = "work"]
  /\ status' = [status EXCEPT ![t] = "running"]
  /\ WriteOrLose(t, [row EXCEPT !.stage = StageOf(t), !.status = "Processing"])
  /\ UNCHANGED <<agent, handler, failed, server, crashes>>

\* WaitReadyDb and migrateOut only write the row.
MarkFinal(t) ==
  /\ pc[t] = "mark"
  /\ ~HasWork(t)
  /\ pc' = [pc EXCEPT ![t] = "finalTask"]
  /\ IF ActionOf(t) = "wait_ready"
       THEN WriteOrLose(t, [row EXCEPT !.stage = "ReadyToUse"])
       ELSE WriteOrLose(t, [row EXCEPT !.stage = "Idle", !.status = "Done"])
  /\ UNCHANGED <<agent, handler, status, failed, server, crashes>>

\* Whether PostgreSQL, pg_dump or psql carries the command out: CREATE
\* DATABASE wants a new name and an owner, psql a dump of this job.
CommandPossible(t) ==
  CASE ActionOf(t) = "create" -> ~server.database /\ OwnerOf[t[1]] \in server.users
    [] ActionOf(t) = "restore" -> t[1] \in server.dumps
    [] OTHER -> TRUE

Commanded(t) ==
  CASE ActionOf(t) = "create_user" ->
         [server EXCEPT !.users = @ \cup {OwnerOf[t[1]]}]
    [] ActionOf(t) = "create" -> [server EXCEPT !.database = TRUE]
    [] ActionOf(t) = "backup" -> [server EXCEPT !.dumps = @ \cup {t[1]}]
    [] OTHER -> server

Work(t) ==
  /\ pc[t] = "work"
  /\ CommandPossible(t)
  /\ server' = Commanded(t)
  /\ pc' = [pc EXCEPT ![t] = "finalDb"]
  /\ UNCHANGED <<agent, dbVars, handler, status, failed, faults, crashes>>

WorkFails(t) ==
  /\ pc[t] = "work"
  /\ \/ ~CommandPossible(t) /\ UNCHANGED faults
     \/ MayFault(t) /\ faults' = faults \cup {t}
  /\ failed' = failed \cup {t}
  /\ pc' = [pc EXCEPT ![t] = "finalDb"]
  /\ UNCHANGED <<agent, dbVars, handler, status, server, crashes>>

\* setFinalDbStatus, deferred: writes the handler's copy, which has the stage
\* of MarkProcessing even when that write was lost.
FinalDb(t) ==
  /\ pc[t] = "finalDb"
  /\ pc' = [pc EXCEPT ![t] = "finalTask"]
  /\ WriteOrLose(t, [row EXCEPT !.stage = StageOf(t),
                                !.status = IF t \in failed THEN "Failed" ELSE "Done"])
  /\ UNCHANGED <<agent, handler, status, failed, server, crashes>>

\* setFinalTaskStatus, deferred before it and so run after it.
FinalTask(t) ==
  /\ pc[t] = "finalTask"
  /\ pc' = [pc EXCEPT ![t] = "end"]
  /\ status' = [status EXCEPT ![t] = IF t \in failed THEN "failed" ELSE "completed"]
  /\ UNCHANGED <<agent, dbVars, handler, failed, server, faults, crashes>>

-----------------------------------------------------------------------------
(* Crash and restart *)

\* Memory is gone: tasks under way, jobs not done, requests being handled.
\* Rows and the PostgreSQL server stay.
Crash ==
  /\ agent = "up"
  /\ crashes < MaxCrashes
  /\ crashes' = crashes + 1
  /\ agent' = "down"
  /\ fresh' = {}
  /\ pc' = [t \in Tasks |-> IF handler[t[1]] \in {"ready", "sent", "unrooted"} /\ pc[t] # "end"
                              THEN "left" ELSE pc[t]]
  /\ handler' = [j \in Jobs |-> IF handler[j] = "ready" THEN "declined" ELSE handler[j]]
  /\ UNCHANGED <<row, status, failed, server, faults>>

\* recoverJobs: the last job of the row, if it has tasks that are not done.
JobToRecover == row.exists /\ row.lastJob # NoJob /\ ~JobDone(row.lastJob)

\* PostInit sends the job it recovers to a consumer whose Run loop starts only
\* after every PostInit has returned.
Restart ==
  /\ agent = "down"
  /\ agent' = IF JobToRecover THEN "hung" ELSE "up"
  /\ UNCHANGED <<dbVars, handler, status, pc, failed, server, faults, crashes>>

-----------------------------------------------------------------------------
GrpcHandlerNext(j) ==
  \/ CreateJob(j)
  \/ CreateJobUncommitted(j)
  \/ JobDropped(j)
  \/ MigrateOutRead(j)
  \/ MigrateOutCommit(j)
  \/ MigrateOutTaskless(j)

TaskNext(t) ==
  \/ StartTask(t)
  \/ ReadAdmitted(t)
  \/ ReadRefused(t)
  \/ MarkProcessing(t)
  \/ MarkFinal(t)
  \/ Work(t)
  \/ WorkFails(t)
  \/ FinalDb(t)
  \/ FinalTask(t)

Next ==
  \/ \E j \in Jobs : GrpcHandlerNext(j)
  \/ \E t \in Tasks : TaskNext(t)
  \/ Crash
  \/ Restart

Spec == Init /\ [][Next]_vars

-----------------------------------------------------------------------------
(* Properties *)

\* db_utils.go:14-16, task_wait_ready.go: a database reported ready to use (or
\* on its way out) exists, and so does its owner, whatever jobs, crashes and
\* lost writes came together.
ReadyMeansCreated ==
  row.stage \in {"ReadyToUse", "Idle"} => server.database /\ row.owner \in server.users

\* handler.go:106-115: a database is left in Processing only by a crash, by a
\* write that was lost, or by a migrate-out; otherwise the task that set it is
\* still there to finish it.
ProcessingHasOwner ==
  row.status = "Processing" /\ row.stage \notin {"None", "Idle"}
    => \/ \E t \in fresh \cap Tasks : pc[t] \in {"work", "finalDb"}
       \/ crashes > 0
       \/ faults # {}

\* db_utils.go:5-16: what the row says of the life of the database.
LifeOf ==
  CASE row.stage = "None" -> "none"
    [] row.stage = "Idle" /\ row.status = "Done" -> "idle"
    [] row.stage = "Idle" /\ row.status # "Done" -> "leaving"
    [] row.stage \notin {"None", "Idle"} /\ row.status = "Failed" -> "failed"
    [] IsReadyToUse -> "ready"
    [] OTHER -> "working"

\* The handlers of db_task and of a migrate-out take the row of a database only
\* through the life that DbLife describes, whoever else is at work on it.
Life == INSTANCE DbLife WITH life <- LifeOf
ImplementsDbLife == Life!Spec

\* job_migrate_out.go:72-92, task_migrate_out.go:35: the row comes to Idle/Done,
\* for which a migration waits, only by a request handler that failed: the task
\* of a migrate-out refuses the row as its own handler should leave it.
IdleByFault ==
  row.stage = "Idle" /\ row.status = "Done" => \E j \in Jobs : IsMigrateOut(j) /\ j \in faults

\* db_task/handler.go:118-119, "Recovering jobs ... done": a restarted agent
\* comes up again.
RecoveryEnds == agent # "hung"

=============================================================================
