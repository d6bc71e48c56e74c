------------------------------- MODULE Servers -------------------------------
(***************************************************************************)
(* How the program is put together and how it stops: the server and one    *)
(* agent, each a list of servers that are shut down one after the other    *)
(* from the last to the first once the program was signalled (server.go,   *)
(* agent.go, pkg/server/server.go).                                        *)
(*                                                                         *)
(* A queue is what WorkPool promises: while it is being shut down it may   *)
(* accept or discard, it is down when nothing it accepted is left, and it  *)
(* discards from then on.  A request for a database goes through all of    *)
(* them: from the web API or a file to a worker of the source queue, over  *)
(* the stream to a request handler of the agent, which nobody waits for,   *)
(* then to and fro between the queues of jobs and of tasks; each task      *)
(* sends a status, which the notifier reports to the server.               *)
(***************************************************************************)
EXTENDS Naturals, FiniteSets

CONSTANTS
  Jobs,   \* requests for a database
  Tasks   \* the number of tasks of each job

ASSUME TasksAssumption == Tasks \in Nat

Programs == {"server", "agent"}

VARIABLES
  quit,    \* QuitCtx of each program is cancelled
  stage,   \* BaseServer.Shutdown: the server it is at, counted from the last one
  at,      \* where each request is
  left,    \* the tasks its job still has to run
  news,    \* the statuses the notifier has accepted and not reported
  call,    \* the NotifyDbStatus call it is in
  link,    \* GrpcAgentServer.Run
  stream,  \* the Register handler
  lost     \* history: what closed queues discarded

jobVars    == <<at, left>>
statusVars == <<news, call>>
streamVars == <<link, stream>>
vars == <<quit, stage, jobVars, statusVars, streamVars, lost>>

Place == {"none", "web", "monitor", "offered", "sources", "asking", "pending", "sent",
          "handler", "jobs", "worker", "tasks", "telling", "returning", "done", "gone"}

\* The servers of each program that wait for something when they are shut down:
\* all but the cron server and the signal server, which come last.
Servers == {"web", "monitor", "sources", "grpc", "link", "jobs", "tasks", "statuses"}
ProgramOf(x) == IF x \in {"web", "monitor", "sources", "grpc"} THEN "server" ELSE "agent"
LastRank == 4
Over(p) == stage[p] > LastRank

TypeOK ==
  /\ quit \in [Programs -> BOOLEAN]
  /\ stage \in [Programs -> 0..(LastRank + 1)]
  /\ \A p \in Programs : stage[p] > 0 => quit[p]
  /\ at \in [Jobs -> Place]
  /\ left \in [Jobs -> 0..Tasks]
  /\ news \subseteq Jobs \X (1..Tasks)
  /\ call \in {"none", "sent", "served"}
  /\ call # "none" => news # {}
  /\ link \in {"dialling", "up", "out"}
  /\ stream \in {"none", "locking", "serving"}
  /\ lost \subseteq {"source", "job", "task", "result", "status"}

Init ==
  /\ quit = [p \in Programs |-> FALSE]
  /\ stage = [p \in Programs |-> 0]
  /\ at = [j \in Jobs |-> "none"]
  /\ left = [j \in Jobs |-> Tasks]
  /\ news = {}
  /\ call = "none"
  /\ link = "dialling"
  /\ stream = "none"
  /\ lost = {}

-----------------------------------------------------------------------------
(* Slips of the code below, each one refuted by a property *)

\* The queue of tasks is listed before the notifier, and outlives it.
RankOfListed(x) ==
  CASE x \in {"web", "link"}         -> 1
    [] x \in {"monitor", "jobs"}     -> 2
    [] x \in {"sources", "statuses"} -> 3
    [] x \in {"grpc", "tasks"}       -> 4

\* Shutdown closes a queue and goes on.
ShutdownNextAtOnce(p) ==
  /\ quit[p]
  /\ stage[p] <= LastRank
  /\ stage' = [stage EXCEPT ![p] = @ + 1]
  /\ UNCHANGED <<quit, jobVars, statusVars, streamVars, lost>>

\* Run goes on dialling until it has a stream.
LinkEndsWithStream ==
  /\ link = "up" /\ quit["agent"]
  /\ link' = "out"
  /\ UNCHANGED <<quit, stage, jobVars, statusVars, stream, lost>>

\* A job is not looked at before its next task is sent.
StartJobUndone(j) ==
  /\ at[j] = "jobs"
  /\ \A k \in Jobs : at[k] # "worker"
  /\ at' = [at EXCEPT ![j] = "worker"]
  /\ UNCHANGED <<quit, stage, left, statusVars, streamVars, lost>>

-----------------------------------------------------------------------------
(* BaseServer *)

\* The servers in the order in which Shutdown comes to them, from the last in the
\* list of their program.
Rank(x) ==
  CASE x \in {"web", "link"}       -> 1
    [] x \in {"monitor", "jobs"}   -> 2
    [] x \in {"sources", "tasks"}  -> 3
    [] x \in {"grpc", "statuses"}  -> 4

Closed(x) == stage[ProgramOf(x)] >= Rank(x)
Down(x) == stage[ProgramOf(x)] > Rank(x)

\* What a Shutdown waits for.
Busy(x) ==
  CASE x = "web"      -> \E j \in Jobs : at[j] = "web"
    [] x = "monitor"  -> \E j \in Jobs : at[j] = "monitor"
    [] x = "sources"  -> \E j \in Jobs : at[j] \in {"sources", "asking"}
    [] x = "grpc"     -> stream # "none" \/ call = "served"
    [] x = "link"     -> link # "out"
    [] x = "jobs"     -> \E j \in Jobs : at[j] \in {"jobs", "worker"}
    [] x = "tasks"    -> \E j \in Jobs : at[j] \in {"tasks", "telling", "returning"}
    [] x = "statuses" -> news # {}

Signal(p) ==
  /\ ~quit[p]
  /\ quit' = [quit EXCEPT ![p] = TRUE]
  /\ UNCHANGED <<stage, jobVars, statusVars, streamVars, lost>>

\* Run waits for QuitCtx; Shutdown goes from server to server; then the process
\* ends with every goroutine that is left.
ShutdownNext(p) ==
  /\ quit[p]
  /\ ~Over(p)
  /\ \A x \in Servers : ProgramOf(x) = p /\ Rank(x) = stage[p] => ~Busy(x)
  /\ stage' = [stage EXCEPT ![p] = @ + 1]
  /\ LET killed == IF stage[p] < LastRank THEN {}
                   ELSE IF p = "server" THEN {"offered", "pending"} ELSE {"handler"}
     IN at' = [j \in Jobs |-> IF at[j] \in killed THEN "gone" ELSE at[j]]
  /\ UNCHANGED <<quit, left, statusVars, streamVars, lost>>

\* Producer.Send: the queue takes the element, or discards it once it is closed.
Send(j, queue, place, what) ==
  \/ ~Down(queue) /\ at' = [at EXCEPT ![j] = place] /\ UNCHANGED lost
  \/ Closed(queue) /\ at' = [at EXCEPT ![j] = "gone"] /\ lost' = lost \cup {what}

-----------------------------------------------------------------------------
(* The server *)

\* A web request, or an event of a file.
Ask(j, front) ==
  /\ at[j] = "none"
  /\ ~Closed(front)
  /\ at' = [at EXCEPT ![j] = front]
  /\ UNCHANGED <<quit, stage, left, statusVars, streamVars, lost>>

\* AddDatabaseSource: go Send.
AddDatabaseSource(j) ==
  /\ at[j] \in {"web", "monitor"}
  /\ at' = [at EXCEPT ![j] = "offered"]
  /\ UNCHANGED <<quit, stage, left, statusVars, streamVars, lost>>

OfferSource(j) ==
  /\ at[j] = "offered"
  /\ Send(j, "sources", "sources", "source")
  /\ UNCHANGED <<quit, stage, left, statusVars, streamVars>>

\* CreateDb of the manager: the instance is offline, or a worker keeps its dbLock
\* until the stream takes the job.
DbLockFree == \A j \in Jobs : at[j] # "asking"

CreateDb(j) ==
  /\ at[j] = "sources"
  /\ DbLockFree
  /\ at' = [at EXCEPT ![j] = IF stream = "serving" THEN "asking" ELSE "pending"]
  /\ UNCHANGED <<quit, stage, left, statusVars, streamVars, lost>>

TakeJob(j) ==
  /\ at[j] = "asking"
  /\ stream = "serving"
  /\ at' = [at EXCEPT ![j] = "sent"]
  /\ UNCHANGED <<quit, stage, left, statusVars, streamVars, lost>>

\* UpdateDatabases and StatusResponse take dbLock; the sources that wait for the
\* instance are sent again.
Serve ==
  /\ stream = "locking"
  /\ DbLockFree
  /\ stream' = "serving"
  /\ at' = [j \in Jobs |-> IF at[j] = "pending" THEN "offered" ELSE at[j]]
  /\ UNCHANGED <<quit, stage, left, statusVars, link, lost>>

\* The context of the stream is done; the handler of Register returns.
StreamDone ==
  /\ stream = "serving"
  /\ link # "up"
  /\ stream' = "none"
  /\ UNCHANGED <<quit, stage, jobVars, statusVars, link, lost>>

-----------------------------------------------------------------------------
(* The agent: the connection *)

\* GracefulStop takes no more calls.
Register ==
  /\ link = "dialling"
  /\ stream = "none"
  /\ ~quit["agent"]
  /\ ~Closed("grpc")
  /\ \A j \in Jobs : at[j] # "sent"
  /\ link' = "up"
  /\ stream' = "locking"
  /\ UNCHANGED <<quit, stage, jobVars, statusVars, lost>>

\* The stream breaks, and the agent dials again or, where the server does not
\* accept its credentials, gives up and stays.
Break ==
  /\ link = "up"
  /\ link' \in {"dialling", "out"}
  /\ UNCHANGED <<quit, stage, jobVars, statusVars, stream, lost>>

\* Recv returns Canceled, or runUntilSuccess sees QuitCtx.
LinkEnds ==
  /\ link # "out"
  /\ quit["agent"]
  /\ link' = "out"
  /\ UNCHANGED <<quit, stage, jobVars, statusVars, stream, lost>>

\* go s.handler.handle(task), or the job is lost with its stream.
Receive(j) ==
  /\ at[j] = "sent"
  /\ \/ link = "up" /\ at' = [at EXCEPT ![j] = "handler"]
     \/ link # "up" /\ at' = [at EXCEPT ![j] = "gone"]
  /\ UNCHANGED <<quit, stage, left, statusVars, streamVars, lost>>

-----------------------------------------------------------------------------
(* The agent: jobs, tasks and statuses *)

\* The request handler wrote its rows and sends the job on.
SendJob(j) ==
  /\ at[j] = "handler"
  /\ Send(j, "jobs", "jobs", "job")
  /\ UNCHANGED <<quit, stage, left, statusVars, streamVars>>

\* The Pending Job Handler has one worker.
StartJob(j) ==
  /\ at[j] = "jobs"
  /\ \A k \in Jobs : at[k] # "worker"
  /\ at' = [at EXCEPT ![j] = IF left[j] = 0 THEN "done" ELSE "worker"]
  /\ UNCHANGED <<quit, stage, left, statusVars, streamVars, lost>>

SendTask(j) ==
  /\ at[j] = "worker"
  /\ Send(j, "tasks", "tasks", "task")
  /\ UNCHANGED <<quit, stage, left, statusVars, streamVars>>

\* The task writes the row and announces what it wrote.
RunTask(j) ==
  /\ at[j] = "tasks"
  /\ at' = [at EXCEPT ![j] = "telling"]
  /\ UNCHANGED <<quit, stage, left, statusVars, streamVars, lost>>

\* The notifier has one status in its hand and one in a call.
SendStatus(j) ==
  /\ at[j] = "telling"
  /\ at' = [at EXCEPT ![j] = "returning"]
  /\ left' = [left EXCEPT ![j] = @ - 1]
  /\ \/ ~Down("statuses") /\ Cardinality(news) < 2
        /\ news' = news \cup {<<j, left[j]>>} /\ UNCHANGED lost
     \/ Closed("statuses") /\ lost' = lost \cup {"status"} /\ UNCHANGED news
  /\ UNCHANGED <<quit, stage, call, streamVars>>

\* The db worker sends its task back.
ReturnTask(j) ==
  /\ at[j] = "returning"
  /\ Send(j, "jobs", "jobs", "result")
  /\ UNCHANGED <<quit, stage, left, statusVars, streamVars>>

StartCall ==
  /\ call = "none"
  /\ news # {}
  /\ call' = "sent"
  /\ UNCHANGED <<quit, stage, jobVars, news, streamVars, lost>>

\* NotifyDbStatus has no deadline, but a connection that is gone ends it.
CallFails ==
  /\ call = "sent"
  /\ call' = "none"
  /\ \E n \in news : news' = news \ {n}
  /\ UNCHANGED <<quit, stage, jobVars, streamVars, lost>>

CallArrives ==
  /\ call = "sent"
  /\ ~Closed("grpc")
  /\ call' = "served"
  /\ UNCHANGED <<quit, stage, jobVars, news, streamVars, lost>>

CallReturns ==
  /\ call = "served"
  /\ DbLockFree
  /\ call' = "none"
  /\ \E n \in news : news' = news \ {n}
  /\ UNCHANGED <<quit, stage, jobVars, streamVars, lost>>

-----------------------------------------------------------------------------
JobNext(j) ==
  \/ AddDatabaseSource(j)
  \/ OfferSource(j)
  \/ CreateDb(j)
  \/ TakeJob(j)
  \/ Receive(j)
  \/ SendJob(j)
  \/ StartJob(j)
  \/ SendTask(j)
  \/ RunTask(j)
  \/ SendStatus(j)
  \/ ReturnTask(j)

CallNext == CallFails \/ CallReturns

Next ==
  \/ \E p \in Programs : Signal(p) \/ ShutdownNext(p)
  \/ \E j \in Jobs : JobNext(j) \/ \E front \in {"web", "monitor"} : Ask(j, front)
  \/ Serve \/ StreamDone \/ Register \/ Break \/ LinkEnds
  \/ StartCall \/ CallArrives \/ CallNext

Spec == Init /\ [][Next]_vars

\* Goroutines that can run are run and a call ends where it can.  Nobody owes a
\* request, a signal or a connection.
Fairness ==
  /\ \A p \in Programs : WF_vars(ShutdownNext(p))
  /\ \A j \in Jobs : WF_vars(JobNext(j))
  /\ WF_vars(Serve)
  /\ WF_vars(StreamDone)
  /\ WF_vars(LinkEnds)
  /\ WF_vars(StartCall)
  /\ WF_vars(CallNext)

FairSpec == Spec /\ Fairness

-----------------------------------------------------------------------------
(* Properties *)

\* consumer.go:72-77, agent.go:36-42: when a process ends, its queues have handled
\* all they accepted, down to the last status; only goroutines nobody waits for
\* are cut off.
NothingCutOff ==
  /\ Over("agent") => \A x \in {"link", "jobs", "tasks", "statuses"} : ~Busy(x)
  /\ Over("server") => \A x \in {"web", "monitor", "sources", "grpc"} : ~Busy(x)

\* agent.go:36-42: no task the Pending Job Handler gives out and no status of a
\* task meets a closed queue.  What is discarded came from outside or comes back
\* from a task.
OnlyLatecomersLost == lost \subseteq {"source", "job", "result"}

\* A worker of the source queue asks an instance whose jobs no handler takes.
LockedOut == ~DbLockFree /\ stream # "serving"

\* server.go:59-65, grpc_server.go:75, db_status_sender.go:17: the agent stops when
\* it is told to, and so does the server once its agent was told as well: it waits
\* for the stream of an agent that stays, since the handler of the stream does not
\* look at QuitCtx.  Only an instance that is locked out keeps them from stopping,
\* the agent by a status the server does not answer.
ProgramsStop ==
  /\ <>[](\/ LockedOut
          \/ quit["agent"] => Over("agent") /\ (quit["server"] => Over("server")))
  /\ []<>(LockedOut \/ stream # "none" \/ (quit["server"] => Over("server")))

=============================================================================
