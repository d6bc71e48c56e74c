--------------------------- MODULE AgentJobsProofs ---------------------------
(***************************************************************************)
(* Theorems about AgentJobs, for any jobs, workers and connections: a job  *)
(* has one item on its way.  The argument: the plan of a job is a chain,   *)
(* so that a task that comes back has one dependent, and a job that is     *)
(* added, whose tasks nobody has touched yet, has one task without a       *)
(* dependency.                                                             *)
(*                                                                         *)
(* The agent implements TaskOrder: two things are to be shown of a step.   *)
(* A task is handed to the queue only when the task before it has ended,   *)
(* and nobody else has a task that is handed on, begun, ended or           *)
(* cancelled; the second one is that a job has one item on its way.        *)
(***************************************************************************)
EXTENDS AgentJobs, FiniteSetTheorems, FunctionTheorems, TLAPS

\* Whose hands are empty, and when.
HandsMatchSteps ==
  /\ jobWorker.step = "idle" => jobWorker.toSend = {}
  /\ jobWorker.step = "handle" => jobWorker.item # NoItem /\ jobWorker.toSend = {}
  /\ jobWorker.step = "send" => jobWorker.item # NoItem
  /\ \A w \in Workers : dbWorker[w].step = "idle" <=> dbWorker[w].task = NoItem

\* Nothing of a job is under way before its handler offers it.
NothingUnsent ==
  \A j \in Jobs : handler[j] \in {"idle", "connected"} => InFlight(j) = {}

Alone == \A j \in Jobs : \A p, q \in InFlight(j) : p = q

\* A task waits for the one before it or for nobody.
WaitsForOne == \A t \in Tasks : liveDependsOn[t] \subseteq DependsOn(t)

\* The job has not come to addJob.
IsNew(j) ==
  \/ handler[j] \in {"idle", "connected", "sending"}
  \/ jobHand = JobItem(j)
  \/ jobWorker.step = "handle" /\ jobWorker.item = JobItem(j)

\* Its tasks are as they were created.
NewIsUntouched ==
  \A j \in Jobs : IsNew(j) =>
    \A t \in TasksOf(j) : liveDependsOn[t] = DependsOn(t) /\ ~cancelling[t]

IndInv == TypeOK /\ HandsMatchSteps /\ NothingUnsent /\ Alone /\ WaitsForOne /\ NewIsUntouched

-----------------------------------------------------------------------------
(* Items and places *)

\* A task is a pair of its job and a positive number; the item of a job is
\* numbered 0; neither is the empty hand.
LEMMA ItemFacts ==
  /\ \A t \in Tasks : /\ t = <<t[1], t[2]>>
                      /\ t[1] \in Jobs
                      /\ t[2] \in Nat \ {0}
                      /\ t \in TasksOf(t[1])
                      /\ t # NoItem
  /\ \A j \in Jobs : /\ JobItem(j)[1] = j
                     /\ JobItem(j) \notin Tasks
                     /\ JobItem(j) # NoItem
                     /\ \A t \in TasksOf(j) : t \in Tasks /\ t[1] = j
<1>1. ASSUME NEW j \in Jobs, NEW t \in TasksOf(j)
      PROVE  /\ t = <<t[1], t[2]>>
             /\ t[1] = j
             /\ t[2] \in Nat \ {0}
             /\ t # NoItem
             /\ t \in Tasks
  <2>1. PICK i \in 1..Len(Plan[j]) : t = <<j, i>>
    BY DEF TasksOf
  <2> QED
    BY <2>1 DEF NoItem, Tasks
<1>2. ASSUME NEW t \in Tasks
      PROVE  \E j \in Jobs : t \in TasksOf(j)
  BY DEF Tasks
<1>3. ASSUME NEW j \in Jobs
      PROVE  JobItem(j)[1] = j /\ JobItem(j)[2] = 0 /\ JobItem(j) # NoItem
  BY DEF JobItem, NoItem
<1>4. ASSUME NEW j \in Jobs
      PROVE  JobItem(j) \notin Tasks
  BY <1>1, <1>2, <1>3
<1> QED
  BY <1>1, <1>2, <1>3, <1>4

\* What it means to be under way, place by place.
Of(item, j) == item # NoItem /\ item[1] = j

At(p, j) ==
  \/ p = <<"offered", JobItem(j)>> /\ handler[j] = "sending"
  \/ p = <<"jobHand", jobHand>> /\ Of(jobHand, j)
  \/ p = <<"jobWorker", jobWorker.item>> /\ jobWorker.step = "handle" /\ Of(jobWorker.item, j)
  \/ \E t \in jobWorker.toSend : p = <<"toSend", t>> /\ Of(t, j)
  \/ p = <<"dbHand", dbHand>> /\ Of(dbHand, j)
  \/ \E w \in Workers : p = <<"dbWorker", dbWorker[w].task, w>> /\ Of(dbWorker[w].task, j)

\* The items on their way are those that are at some place.
LEMMA InFlightBy ==
  ASSUME NEW j \in Jobs
  PROVE  \A p : /\ p \in InFlight(j) <=> At(p, j)
                /\ p \in InFlight(j)' <=> At(p, j)'
BY DEF InFlight, At, Of

\* A step takes at most one item of a job from its place to another one.
Flows(j) ==
  /\ \A p, q \in InFlight(j)' : p = q
  /\ InFlight(j) = {} => InFlight(j)' = {}

\* What is under way stayed where it was, or went from old to new.
Moves(j, old, new) ==
  \A p : At(p, j)' => \/ At(p, j) /\ p # old
                      \/ p = new /\ At(old, j)

\* A step that puts no item anywhere.
LEMMA NothingMoves ==
  ASSUME NEW j \in Jobs, Alone, \A p : At(p, j)' => At(p, j)
  PROVE  Flows(j)
BY InFlightBy DEF Alone, Flows

\* A step that takes one item from a place to the next.
LEMMA OneMoves ==
  ASSUME NEW j \in Jobs, Alone, NEW old, NEW new, Moves(j, old, new)
  PROVE  Flows(j)
<1>1. \A p : /\ p \in InFlight(j) <=> At(p, j)
             /\ p \in InFlight(j)' <=> At(p, j)'
  BY InFlightBy
<1>2. \A p, q : At(p, j) /\ At(q, j) => p = q
  BY <1>1 DEF Alone
<1>3. \A p, q : At(p, j)' /\ At(q, j)' => p = q
  BY <1>2 DEF Moves
<1> QED
  BY <1>1, <1>3 DEF Flows, Moves

\* What is left to show of a step that does not touch the dependencies.
LEMMA Together ==
  ASSUME IndInv, TypeOK', HandsMatchSteps', UNCHANGED <<liveDependsOn, cancelling>>,
         \A j \in Jobs :
           /\ Flows(j)
           /\ handler'[j] \in {"idle", "connected"} => handler[j] \in {"idle", "connected"}
           /\ IsNew(j)' => IsNew(j)
  PROVE  IndInv'
<1>1. Alone' /\ NothingUnsent'
  BY DEF IndInv, Alone, NothingUnsent, Flows
<1>2. WaitsForOne' /\ NewIsUntouched'
  BY DEF IndInv, WaitsForOne, NewIsUntouched
<1> QED
  BY <1>1, <1>2 DEF IndInv

\* A step of one goroutine that hands nothing over.
LEMMA InPlace ==
  ASSUME IndInv, TypeOK', HandsMatchSteps',
         UNCHANGED <<liveDependsOn, cancelling, jobHand, jobWorker, dbHand>>,
         \A w \in Workers : dbWorker'[w].task = dbWorker[w].task,
         \A j \in Jobs :
           /\ handler'[j] = "sending" => handler[j] = "sending"
           /\ handler'[j] \in {"idle", "connected"} => handler[j] \in {"idle", "connected"}
  PROVE  IndInv'
<1> USE DEF IndInv
<1>1. ASSUME NEW j \in Jobs
      PROVE  Flows(j) /\ (IsNew(j)' => IsNew(j))
  <2>1. \A p : At(p, j)' => At(p, j)
    BY DEF At, Of
  <2> QED
    BY <2>1, NothingMoves DEF IsNew
<1> QED
  BY <1>1, Together

-----------------------------------------------------------------------------
(* Every step keeps the invariant *)

\* A handler gets its connection.
LEMMA HandlerConnectKeeps ==
  ASSUME IndInv, NEW j \in Jobs, HandlerConnect(j)
  PROVE  IndInv'
<1> USE DEF IndInv, TypeOK, taskVars
<1>1. TypeOK'
  BY DEF HandlerConnect, HandlerStep
<1>2. HandsMatchSteps'
  BY DEF HandlerConnect, HandsMatchSteps
<1> QED
  BY <1>1, <1>2, InPlace DEF HandlerConnect

\* A handler returns early.
LEMMA HandlerGivesUpKeeps ==
  ASSUME IndInv, NEW j \in Jobs, HandlerGivesUp(j)
  PROVE  IndInv'
<1> USE DEF IndInv, TypeOK, taskVars
<1>1. TypeOK'
  BY DEF HandlerGivesUp, HandlerStep
<1>2. HandsMatchSteps'
  BY DEF HandlerGivesUp, HandsMatchSteps
<1> QED
  BY <1>1, <1>2, InPlace DEF HandlerGivesUp

\* The job goes from its handler to the hand of the Run loop.
LEMMA HandlerSendKeeps ==
  ASSUME IndInv, NEW k \in Jobs, HandlerSend(k)
  PROVE  IndInv'
<1> USE DEF IndInv, TypeOK, taskVars
<1>1. TypeOK'
  BY DEF HandlerSend, HandlerStep, Items
<1>2. HandsMatchSteps'
  BY DEF HandlerSend, HandsMatchSteps
<1>3. ASSUME NEW j \in Jobs
      PROVE  /\ Flows(j)
             /\ handler'[j] \in {"idle", "connected"}
                  => handler[j] \in {"idle", "connected"}
             /\ IsNew(j)' => IsNew(j)
  <2>1. PICK old, new : old = <<"offered", JobItem(k)>> /\ new = <<"jobHand", JobItem(k)>>
    OBVIOUS
  <2>2. Moves(j, old, new)
    BY <2>1, ItemFacts DEF HandlerSend, Moves, At, Of
  <2>3. Flows(j)
    BY <2>2, OneMoves
  <2>4. /\ handler'[j] \in {"idle", "connected"} => handler[j] \in {"idle", "connected"}
        /\ IsNew(j)' => IsNew(j)
    BY ItemFacts DEF HandlerSend, IsNew
  <2> QED
    BY <2>3, <2>4
<1> QED
  BY <1>1, <1>2, <1>3, Together DEF HandlerSend

\* A handler returns.
LEMMA HandlerReturnKeeps ==
  ASSUME IndInv, NEW j \in Jobs, HandlerReturn(j)
  PROVE  IndInv'
<1> USE DEF IndInv, TypeOK, taskVars
<1>1. TypeOK'
  BY DEF HandlerReturn, HandlerStep
<1>2. HandsMatchSteps'
  BY DEF HandlerReturn, HandsMatchSteps
<1> QED
  BY <1>1, <1>2, InPlace DEF HandlerReturn

\* An item goes from the hand to the worker.
LEMMA JobWorkerStartKeeps ==
  ASSUME IndInv, JobWorkerStart
  PROVE  IndInv'
<1> USE DEF IndInv, TypeOK, taskVars
<1>1. TypeOK'
  BY DEF JobWorkerStart, JobWorkerStep, Items
<1>2. HandsMatchSteps'
  BY DEF JobWorkerStart, HandsMatchSteps
<1>3. ASSUME NEW j \in Jobs
      PROVE  /\ Flows(j)
             /\ handler'[j] \in {"idle", "connected"}
                  => handler[j] \in {"idle", "connected"}
             /\ IsNew(j)' => IsNew(j)
  <2>1. PICK old, new : old = <<"jobHand", jobHand>> /\ new = <<"jobWorker", jobHand>>
    OBVIOUS
  <2>2. Moves(j, old, new)
    BY <2>1 DEF JobWorkerStart, Moves, At, Of, HandsMatchSteps
  <2>3. Flows(j)
    BY <2>2, OneMoves
  <2>4. /\ handler'[j] \in {"idle", "connected"} => handler[j] \in {"idle", "connected"}
        /\ IsNew(j)' => IsNew(j)
    BY ItemFacts DEF JobWorkerStart, IsNew
  <2> QED
    BY <2>3, <2>4
<1> QED
  BY <1>1, <1>2, <1>3, Together DEF JobWorkerStart

\* A task that came back not done is marked as cancelled.
LEMMA CancelTaskKeeps ==
  ASSUME IndInv, CancelTask
  PROVE  IndInv'
<1> USE DEF IndInv, TypeOK, taskVars
<1>1. TypeOK'
  BY DEF CancelTask, TaskStatus
<1>2. HandsMatchSteps'
  BY DEF CancelTask, HandsMatchSteps
<1> QED
  BY <1>1, <1>2, InPlace DEF CancelTask

\* A task that came back untouched is gone.
LEMMA DropTaskKeeps ==
  ASSUME IndInv, DropTask
  PROVE  IndInv'
<1> USE DEF IndInv, TypeOK, taskVars
<1>1. TypeOK'
  BY DEF DropTask, JobWorkerStep, Items, IdleJobWorker
<1>2. HandsMatchSteps'
  BY DEF DropTask, HandsMatchSteps, IdleJobWorker
<1>3. ASSUME NEW j \in Jobs
      PROVE  /\ Flows(j)
             /\ handler'[j] \in {"idle", "connected"}
                  => handler[j] \in {"idle", "connected"}
             /\ IsNew(j)' => IsNew(j)
  <2>1. \A p : At(p, j)' => At(p, j)
    BY DEF DropTask, At, Of, IdleJobWorker
  <2>2. Flows(j)
    BY <2>1, NothingMoves
  <2>3. /\ handler'[j] \in {"idle", "connected"} => handler[j] \in {"idle", "connected"}
        /\ IsNew(j)' => IsNew(j)
    BY DEF DropTask, IsNew, IdleJobWorker
  <2> QED
    BY <2>2, <2>3
<1> QED
  BY <1>1, <1>2, <1>3, Together DEF DropTask

\* Nothing is left to send.
LEMMA JobWorkerEndKeeps ==
  ASSUME IndInv, JobWorkerEnd
  PROVE  IndInv'
<1> USE DEF IndInv, TypeOK, taskVars
<1>1. TypeOK'
  BY DEF JobWorkerEnd, JobWorkerStep, Items, IdleJobWorker
<1>2. HandsMatchSteps'
  BY DEF JobWorkerEnd, HandsMatchSteps, IdleJobWorker
<1>3. ASSUME NEW j \in Jobs
      PROVE  /\ Flows(j)
             /\ handler'[j] \in {"idle", "connected"}
                  => handler[j] \in {"idle", "connected"}
             /\ IsNew(j)' => IsNew(j)
  <2>1. \A p : At(p, j)' => At(p, j)
    BY DEF JobWorkerEnd, At, Of, IdleJobWorker
  <2>2. Flows(j)
    BY <2>1, NothingMoves
  <2>3. /\ handler'[j] \in {"idle", "connected"} => handler[j] \in {"idle", "connected"}
        /\ IsNew(j)' => IsNew(j)
    BY DEF JobWorkerEnd, IsNew, IdleJobWorker
  <2> QED
    BY <2>2, <2>3
<1> QED
  BY <1>1, <1>2, <1>3, Together DEF JobWorkerEnd

\* A task goes from the hand to a worker.
LEMMA DbWorkerStartKeeps ==
  ASSUME IndInv, NEW w \in Workers, DbWorkerStart(w)
  PROVE  IndInv'
<1> USE DEF IndInv, TypeOK, taskVars
<1>1. TypeOK'
  BY DEF DbWorkerStart, DbWorkerStep
<1>2. HandsMatchSteps'
  BY DEF DbWorkerStart, HandsMatchSteps
<1>3. ASSUME NEW j \in Jobs
      PROVE  /\ Flows(j)
             /\ handler'[j] \in {"idle", "connected"}
                  => handler[j] \in {"idle", "connected"}
             /\ IsNew(j)' => IsNew(j)
  <2>1. PICK old, new : old = <<"dbHand", dbHand>> /\ new = <<"dbWorker", dbHand, w>>
    OBVIOUS
  <2>2. Moves(j, old, new)
    BY <2>1 DEF DbWorkerStart, Moves, At, Of
  <2>3. Flows(j)
    BY <2>2, OneMoves
  <2>4. /\ handler'[j] \in {"idle", "connected"} => handler[j] \in {"idle", "connected"}
        /\ IsNew(j)' => IsNew(j)
    BY DEF DbWorkerStart, IsNew
  <2> QED
    BY <2>3, <2>4
<1> QED
  BY <1>1, <1>2, <1>3, Together DEF DbWorkerStart

\* A worker gets the connection its task keeps.
LEMMA DbConnectKeeps ==
  ASSUME IndInv, NEW w \in Workers, DbConnect(w)
  PROVE  IndInv'
<1> USE DEF IndInv, TypeOK, taskVars
<1>1. TypeOK'
  BY DEF DbConnect, DbWorkerStep, SetDbWorker
<1>2. HandsMatchSteps'
  BY DEF DbConnect, HandsMatchSteps, SetDbWorker
<1> QED
  BY <1>1, <1>2, InPlace DEF DbConnect, SetDbWorker

\* The database does not answer a worker.
LEMMA DbConnectFailsKeeps ==
  ASSUME IndInv, NEW w \in Workers, DbConnectFails(w)
  PROVE  IndInv'
<1> USE DEF IndInv, TypeOK, taskVars
<1>1. TypeOK'
  BY DEF DbConnectFails, DbWorkerStep, HandsMatchSteps, SetDbWorker
<1>2. HandsMatchSteps'
  BY DEF DbConnectFails, HandsMatchSteps, SetDbWorker
<1> QED
  BY <1>1, <1>2, InPlace DEF DbConnectFails, SetDbWorker

\* A worker refuses its task.
LEMMA RefuseCreateKeeps ==
  ASSUME IndInv, NEW w \in Workers, RefuseCreate(w)
  PROVE  IndInv'
<1> USE DEF IndInv, TypeOK, taskVars
<1>1. TypeOK'
  BY DEF RefuseCreate, DbWorkerStep, HandsMatchSteps, SetDbWorker
<1>2. HandsMatchSteps'
  BY DEF RefuseCreate, HandsMatchSteps, SetDbWorker
<1> QED
  BY <1>1, <1>2, InPlace DEF RefuseCreate, SetDbWorker

\* A worker begins its task.
LEMMA BeginTaskKeeps ==
  ASSUME IndInv, NEW w \in Workers, BeginTask(w)
  PROVE  IndInv'
<1> USE DEF IndInv, TypeOK, taskVars
<1>1. TypeOK'
  BY DEF BeginTask, DbWorkerStep, HandsMatchSteps, TaskStatus, SetDbWorker
<1>2. HandsMatchSteps'
  BY DEF BeginTask, HandsMatchSteps, SetDbWorker
<1> QED
  BY <1>1, <1>2, InPlace DEF BeginTask, SetDbWorker

\* A worker finishes its task.
LEMMA FinishTaskKeeps ==
  ASSUME IndInv, NEW w \in Workers, FinishTask(w)
  PROVE  IndInv'
<1> USE DEF IndInv, TypeOK, taskVars
<1>1. TypeOK'
  BY DEF FinishTask, DbWorkerStep, HandsMatchSteps, TaskStatus, SetDbWorker
<1>2. HandsMatchSteps'
  BY DEF FinishTask, HandsMatchSteps, SetDbWorker
<1> QED
  BY <1>1, <1>2, InPlace DEF FinishTask, SetDbWorker

\* A task goes from its worker to the hand of the other queue.
LEMMA ReturnTaskKeeps ==
  ASSUME IndInv, NEW w \in Workers, ReturnTask(w)
  PROVE  IndInv'
<1> USE DEF IndInv, TypeOK, taskVars
<1>1. TypeOK'
  BY DEF ReturnTask, DbWorkerStep, Items, IdleDbWorker, HandsMatchSteps
<1>2. HandsMatchSteps'
  BY DEF ReturnTask, HandsMatchSteps, IdleDbWorker
<1>3. ASSUME NEW j \in Jobs
      PROVE  /\ Flows(j)
             /\ handler'[j] \in {"idle", "connected"}
                  => handler[j] \in {"idle", "connected"}
             /\ IsNew(j)' => IsNew(j)
  <2>1. PICK old, new : old = <<"dbWorker", dbWorker[w].task, w>> /\ new = <<"jobHand", dbWorker[w].task>>
    OBVIOUS
  <2>2. Moves(j, old, new)
    BY <2>1, ItemFacts DEF ReturnTask, Moves, At, Of, IdleDbWorker, HandsMatchSteps
  <2>3. Flows(j)
    BY <2>2, OneMoves
  <2>4. /\ handler'[j] \in {"idle", "connected"} => handler[j] \in {"idle", "connected"}
        /\ IsNew(j)' => IsNew(j)
    BY ItemFacts DEF ReturnTask, IsNew, HandsMatchSteps
  <2> QED
    BY <2>3, <2>4
<1> QED
  BY <1>1, <1>2, <1>3, Together DEF ReturnTask

\* A handler offers its job, of which nothing was under way.
LEMMA HandlerCommitKeeps ==
  ASSUME IndInv, NEW k \in Jobs, HandlerCommit(k)
  PROVE  IndInv'
<1> USE DEF IndInv, TypeOK, taskVars
<1>1. TypeOK'
  BY DEF HandlerCommit, HandlerStep
<1>2. HandsMatchSteps'
  BY DEF HandlerCommit, HandsMatchSteps
<1>3. ASSUME NEW j \in Jobs, j # k
      PROVE  Flows(j)
  <2>1. \A p : At(p, j)' => At(p, j)
    BY <1>3 DEF HandlerCommit, At, Of
  <2> QED
    BY <2>1, NothingMoves
<1>4. \A p, q \in InFlight(k)' : p = q
  <2>1. \A p : ~At(p, k)
    BY InFlightBy DEF HandlerCommit, NothingUnsent
  <2>2. \A p : At(p, k)' => p = <<"offered", JobItem(k)>>
    BY <2>1 DEF HandlerCommit, At, Of
  <2> QED
    BY <2>2, InFlightBy
<1>5. Alone'
  BY <1>3, <1>4 DEF Alone, Flows
<1>6. NothingUnsent'
  BY <1>3 DEF HandlerCommit, NothingUnsent, Flows
<1>7. WaitsForOne' /\ NewIsUntouched'
  BY DEF HandlerCommit, WaitsForOne, NewIsUntouched, IsNew
<1> QED
  BY <1>1, <1>2, <1>5, <1>6, <1>7

\* The first task of a job is the one without a dependency.
LEMMA AddJobKeeps ==
  ASSUME IndInv, AddJob
  PROVE  IndInv'
<1> USE DEF IndInv, TypeOK, taskVars
<1>1. PICK k \in Jobs : jobWorker.item = JobItem(k)
  BY ItemFacts DEF AddJob, HandsMatchSteps, Items
<1>2. jobWorker.item[1] = k
  BY <1>1, ItemFacts
<1>3. ReadyToRun(k) \subseteq {<<k, 1>>}
  <2>1. \A t \in TasksOf(k) : liveDependsOn[t] = DependsOn(t) /\ ~cancelling[t]
    BY <1>1 DEF AddJob, NewIsUntouched, IsNew
  <2>2. \A t \in TasksOf(k) : DependsOn(t) = {} => t = <<k, 1>>
    BY ItemFacts DEF DependsOn
  <2> QED
    BY <2>1, <2>2 DEF ReadyToRun
<1>4. ReadyToRun(k) \subseteq Tasks
  BY ItemFacts DEF ReadyToRun
<1>5. \/ k \in jobs /\ jobWorker' = IdleJobWorker /\ jobs' = jobs
      \/ /\ k \notin jobs /\ jobs' = jobs \cup {k}
         /\ jobWorker' = [step |-> "send", item |-> JobItem(k), toSend |-> ReadyToRun(k)]
  BY <1>1, <1>2 DEF AddJob
<1>6. TypeOK'
  <2>1. jobWorker' \in [step : JobWorkerStep, item : Items \cup {NoItem}, toSend : SUBSET Tasks]
    BY <1>4, <1>5 DEF JobWorkerStep, IdleJobWorker, Items
  <2> QED
    BY <1>5, <2>1 DEF AddJob
<1>7. HandsMatchSteps'
  BY <1>5, ItemFacts DEF AddJob, HandsMatchSteps, IdleJobWorker
<1>8. ASSUME NEW j \in Jobs
      PROVE  Flows(j)
  <2>1. CASE j # k \/ k \in jobs
    <3>1. \A p : At(p, j)' => At(p, j)
      BY <1>3, <1>5, <2>1, ItemFacts DEF AddJob, At, Of, IdleJobWorker
    <3> QED
      BY <3>1, NothingMoves
  <2>2. CASE j = k /\ k \notin jobs
    <3>1. PICK old, new : old = <<"jobWorker", JobItem(k)>> /\ new = <<"toSend", <<k, 1>>>>
      OBVIOUS
    <3>2. Moves(j, old, new)
      BY <1>1, <1>3, <1>5, <2>2, <3>1, ItemFacts
         DEF AddJob, Moves, At, Of, HandsMatchSteps
    <3> QED
      BY <3>2, OneMoves
  <2> QED
    BY <2>1, <2>2
<1>9. \A j \in Jobs : IsNew(j)' => IsNew(j)
  BY <1>5 DEF AddJob, IsNew, IdleJobWorker
<1> QED
  BY <1>6, <1>7, <1>8, <1>9, Together DEF AddJob

\* A task that is done has one dependent, the next one; and it is not of a job
\* that is new.
LEMMA ProcessDoneTaskKeeps ==
  ASSUME IndInv, ProcessDoneTask
  PROVE  IndInv'
<1> USE DEF IndInv, TypeOK, taskVars
<1>1. PICK d \in Tasks : d = jobWorker.item
  BY DEF ProcessDoneTask
<1>2. d[1] \in Jobs /\ d \in TasksOf(d[1]) /\ d[2] \in Nat \ {0}
  BY ItemFacts
<1>3. Dependents(d) \subseteq {<<d[1], d[2] + 1>>}
  <2> SUFFICES ASSUME NEW t \in Dependents(d)
               PROVE  t = <<d[1], d[2] + 1>>
    OBVIOUS
  <2>1. t \in TasksOf(d[1]) /\ t \in Tasks /\ d \in DependsOn(t)
    BY <1>2, ItemFacts DEF Dependents, WaitsForOne
  <2>2. d = <<t[1], t[2] - 1>>
    BY <2>1 DEF DependsOn
  <2>3. t = <<t[1], t[2]>> /\ t[2] \in Nat
    BY <2>1, ItemFacts
  <2> QED
    BY <2>2, <2>3
<1>4. Dependents(d) \subseteq Tasks /\ \A t \in Dependents(d) : t[1] = d[1]
  BY <1>2, ItemFacts DEF Dependents
<1>5. \/ jobWorker' = IdleJobWorker /\ UNCHANGED <<liveDependsOn, cancelling>>
      \/ OnTaskDone(d)
  BY <1>1 DEF ProcessDoneTask
<1>6. PICK S \in SUBSET Dependents(d) :
        \/ jobWorker' = IdleJobWorker
        \/ jobWorker' = [step |-> "send", item |-> d, toSend |-> S]
  <2>1. ReadyAfterDone(d) \subseteq Dependents(d) /\ ReadyAfterFailed(d) \subseteq Dependents(d)
    BY DEF ReadyAfterDone, ReadyAfterFailed
  <2>2. CASE jobWorker' = IdleJobWorker
    BY <2>2
  <2>3. CASE OnTaskDone(d)
    <3>1. PICK S \in SUBSET Dependents(d) :
            jobWorker' = [jobWorker EXCEPT !.step = "send", !.toSend = S]
      BY <2>1, <2>3 DEF OnTaskDone
    <3>2. jobWorker' = [step |-> "send", item |-> d, toSend |-> S]
      BY <1>1, <3>1
    <3> QED
      BY <3>2
  <2> QED
    BY <1>5, <2>2, <2>3
<1>7. TypeOK'
  <2>1. jobWorker' \in [step : JobWorkerStep, item : Items \cup {NoItem}, toSend : SUBSET Tasks]
    BY <1>4, <1>6 DEF JobWorkerStep, IdleJobWorker, Items
  <2>2. liveDependsOn' \in [Tasks -> SUBSET Tasks] /\ cancelling' \in [Tasks -> BOOLEAN]
    <3>1. CASE OnTaskDone(d)
      BY <3>1 DEF OnTaskDone
    <3> QED
      BY <1>5, <3>1
  <2> QED
    BY <2>1, <2>2 DEF ProcessDoneTask
<1>8. HandsMatchSteps'
  BY <1>6, ItemFacts DEF ProcessDoneTask, HandsMatchSteps, IdleJobWorker
<1>9. ASSUME NEW j \in Jobs
      PROVE  Flows(j)
  <2>1. PICK old, new : old = <<"jobWorker", d>> /\ new = <<"toSend", <<d[1], d[2] + 1>>>>
    OBVIOUS
  <2>2. Moves(j, old, new)
    BY <1>1, <1>3, <1>4, <1>6, <2>1, ItemFacts
       DEF ProcessDoneTask, Moves, At, Of, HandsMatchSteps, IdleJobWorker
  <2> QED
    BY <2>2, OneMoves
<1>10. Alone' /\ NothingUnsent'
  BY <1>9 DEF ProcessDoneTask, Alone, NothingUnsent, Flows
<1>11. WaitsForOne'
  BY <1>5 DEF OnTaskDone, WaitsForOne
<1>12. NewIsUntouched'
  <2> SUFFICES ASSUME NEW j \in Jobs, IsNew(j)', NEW t \in TasksOf(j)
               PROVE  liveDependsOn'[t] = DependsOn(t) /\ ~cancelling'[t]
    BY DEF NewIsUntouched
  <2>1. IsNew(j) /\ (jobHand = JobItem(j) \/ handler[j] \in {"idle", "connected", "sending"})
    BY <1>6 DEF ProcessDoneTask, IsNew, IdleJobWorker
  <2>2. j # d[1]
    <3> SUFFICES ASSUME j = d[1] PROVE FALSE
      OBVIOUS
    <3>1. At(<<"jobWorker", d>>, j)
      BY <1>1, ItemFacts DEF ProcessDoneTask, At, Of
    <3>2. <<"jobWorker", d>> \in InFlight(j)
      BY <3>1, InFlightBy
    <3>3. ~At(<<"offered", JobItem(j)>>, j) /\ ~At(<<"jobHand", JobItem(j)>>, j)
      BY <3>2, InFlightBy DEF Alone
    <3> QED
      BY <2>1, <3>2, <3>3, ItemFacts DEF At, Of, NothingUnsent
  <2>3. t \in Tasks /\ t \notin Dependents(d)
    BY <1>4, <2>2, ItemFacts
  <2>4. liveDependsOn'[t] = liveDependsOn[t] /\ cancelling'[t] = cancelling[t]
    BY <1>5, <2>3 DEF OnTaskDone
  <2> QED
    BY <2>1, <2>4 DEF NewIsUntouched
<1> QED
  BY <1>7, <1>8, <1>10, <1>11, <1>12

\* A ready task goes to the hand of the queue of tasks.
LEMMA SendReadyTaskKeeps ==
  ASSUME IndInv, SendReadyTask
  PROVE  IndInv'
<1> USE DEF IndInv, TypeOK, taskVars
<1>1. PICK t \in jobWorker.toSend : /\ dbHand' = t
                                   /\ jobWorker' = [jobWorker EXCEPT !.toSend = @ \ {t}]
  BY DEF SendReadyTask
<1>2. TypeOK'
  BY <1>1 DEF SendReadyTask
<1>3. HandsMatchSteps'
  BY <1>1 DEF SendReadyTask, HandsMatchSteps
<1>4. ASSUME NEW j \in Jobs
      PROVE  /\ Flows(j)
             /\ IsNew(j)' => IsNew(j)
  <2>1. PICK old, new : old = <<"toSend", t>> /\ new = <<"dbHand", t>>
    OBVIOUS
  <2>2. Moves(j, old, new)
    BY <1>1, <2>1 DEF SendReadyTask, Moves, At, Of
  <2> QED
    BY <1>1, <2>2, OneMoves DEF SendReadyTask, IsNew
<1> QED
  BY <1>2, <1>3, <1>4, Together DEF SendReadyTask

\* A step that changes nothing.
LEMMA StutterKeeps ==
  ASSUME IndInv, UNCHANGED vars
  PROVE  IndInv'
<1> USE DEF vars, taskVars, IndInv
<1>1. TypeOK' /\ HandsMatchSteps'
  BY DEF TypeOK, HandsMatchSteps
<1>2. \A j \in Jobs : InFlight(j)' = InFlight(j)
  BY DEF InFlight
<1>3. NothingUnsent' /\ Alone' /\ WaitsForOne' /\ NewIsUntouched'
  BY <1>2 DEF NothingUnsent, Alone, WaitsForOne, NewIsUntouched, IsNew
<1> QED
  BY <1>1, <1>3

\* Every step of the agent keeps the invariant.
LEMMA StepKeeps == IndInv /\ [Next]_vars => IndInv'
<1> SUFFICES ASSUME IndInv, [Next]_vars PROVE IndInv'
  OBVIOUS
<1>1. ASSUME NEW j \in Jobs, HandlerNext(j) PROVE IndInv'
  BY <1>1, HandlerConnectKeeps, HandlerCommitKeeps, HandlerGivesUpKeeps,
     HandlerSendKeeps, HandlerReturnKeeps DEF HandlerNext
<1>2. CASE JobWorkerNext
  BY <1>2, JobWorkerStartKeeps, AddJobKeeps, ProcessDoneTaskKeeps, CancelTaskKeeps,
     DropTaskKeeps, SendReadyTaskKeeps, JobWorkerEndKeeps DEF JobWorkerNext
<1>3. ASSUME NEW w \in Workers, DbWorkerNext(w) \/ DbConnectFails(w) PROVE IndInv'
  BY <1>3, DbWorkerStartKeeps, DbConnectKeeps, DbConnectFailsKeeps, RefuseCreateKeeps,
     BeginTaskKeeps, FinishTaskKeeps, ReturnTaskKeeps DEF DbWorkerNext
<1> QED
  BY <1>1, <1>2, <1>3, StutterKeeps DEF Next

-----------------------------------------------------------------------------
(* Theorems about the items of a job *)

\* The inductive invariant holds in every reachable state.
THEOREM Invariance == Spec => []IndInv
<1>1. Init => IndInv
  <2> SUFFICES ASSUME Init PROVE IndInv
    OBVIOUS
  <2>1. \A t \in Tasks : DependsOn(t) \subseteq Tasks
    BY DEF Tasks, TasksOf, DependsOn
  <2>2. TypeOK
    BY <2>1 DEF Init, TypeOK, HandlerStep, TaskStatus, IdleJobWorker, JobWorkerStep, IdleDbWorker, DbWorkerStep
  <2>3. HandsMatchSteps /\ WaitsForOne
    BY DEF Init, HandsMatchSteps, WaitsForOne, IdleJobWorker, IdleDbWorker
  <2>4. \A j \in Jobs : InFlight(j) = {}
    BY DEF Init, InFlight, IdleJobWorker, IdleDbWorker
  <2>5. NothingUnsent /\ Alone
    BY <2>4 DEF NothingUnsent, Alone
  <2>6. NewIsUntouched
    BY ItemFacts DEF Init, NewIsUntouched
  <2> QED
    BY <2>2, <2>3, <2>5, <2>6 DEF IndInv
<1> QED
  BY <1>1, StepKeeps, PTL DEF Spec

\* The state of the handlers, the queues and the workers is well formed.
THEOREM TypeCorrect == Spec => []TypeOK
<1>1. IndInv => TypeOK
  BY DEF IndInv
<1> QED
  BY <1>1, Invariance, PTL

\* job.go, job_handler.go, task.go: whatever fails, is refused or is cancelled, a
\* job has at most one item on its way through the queues.
THEOREM OneInFlight == Spec => []OneItemInFlight
<1>1. IndInv => OneItemInFlight
  <2> SUFFICES ASSUME IndInv, NEW j \in Jobs
               PROVE  Cardinality(InFlight(j)) <= 1
    BY DEF OneItemInFlight
  <2>1. CASE InFlight(j) = {}
    BY <2>1, FS_EmptySet
  <2>2. CASE InFlight(j) # {}
    <3>1. PICK p : InFlight(j) = {p}
      BY <2>2 DEF IndInv, Alone
    <3>2. Cardinality({p}) = 1
      BY FS_Singleton
    <3>3. Cardinality(InFlight(j)) = 1
      BY <3>1, <3>2
    <3> QED
      BY <3>3
  <2> QED
    BY <2>1, <2>2
<1> QED
  BY <1>1, Invariance, PTL

-----------------------------------------------------------------------------
(* How many jobs there is room for *)

\* The jobs that are in the queues, in a worker, or offered.
UnderWay == {j \in Jobs : InFlight(j) # {}}

\* There are fewer of them than connections, and too few to fill the workers, both
\* queues and the list of the job worker.
HasRoom ==
  /\ IsFiniteSet(UnderWay)
  /\ Cardinality(UnderWay) < MaxConns
  /\ Cardinality(UnderWay) < Cardinality(Workers) + 3

\* A job is at one place, and what is at a place is of a job under way.
LEMMA OnePlace ==
  ASSUME IndInv, NEW j \in Jobs, NEW p, At(p, j)
  PROVE  j \in UnderWay /\ \A q : At(q, j) => q = p
BY InFlightBy DEF IndInv, Alone, UnderWay

\* The job of a worker's task.
LEMMA WorkersJob ==
  ASSUME IndInv, NEW w \in Workers, dbWorker[w].step # "idle"
  PROVE  /\ dbWorker[w].task \in Tasks
         /\ dbWorker[w].task[1] \in Jobs
         /\ At(<<"dbWorker", dbWorker[w].task, w>>, dbWorker[w].task[1])
<1>1. dbWorker[w].task \in Tasks BY DEF IndInv, TypeOK, HandsMatchSteps
<1> QED BY <1>1, ItemFacts DEF At, Of

\* Workers have tasks of different jobs.
LEMMA WorkersApart ==
  ASSUME IndInv, NEW S \in SUBSET Workers, \A w \in S : dbWorker[w].step # "idle"
  PROVE  LET D == {dbWorker[w].task[1] : w \in S}
         IN  /\ IsFiniteSet(S) /\ IsFiniteSet(D)
             /\ Cardinality(D) = Cardinality(S)
             /\ D \subseteq UnderWay
<1> DEFINE D == {dbWorker[w].task[1] : w \in S}
           f == [w \in S |-> dbWorker[w].task[1]]
<1>1. IsFiniteSet(S) BY WorkersAssumption, FS_Subset
<1>2. \A w \in S : f[w] \in Jobs /\ At(<<"dbWorker", dbWorker[w].task, w>>, f[w])
  BY WorkersJob
<1>3. \A v, w \in S : f[v] = f[w] => v = w
  <2> SUFFICES ASSUME NEW v \in S, NEW w \in S, f[v] = f[w] PROVE v = w OBVIOUS
  <2>1. <<"dbWorker", dbWorker[v].task, v>> = <<"dbWorker", dbWorker[w].task, w>>
    BY <1>2, OnePlace
  <2> QED BY <2>1
<1>4. f \in Bijection(S, D)
  <2>1. f \in [S -> D] OBVIOUS
  <2>2. \A d \in D : \E w \in S : f[w] = d OBVIOUS
  <2> HIDE DEF f, D
  <2> QED BY <1>3, <2>1, <2>2, Fun_IsBij
<1>5. ExistsBijection(S, D) BY <1>4 DEF ExistsBijection
<1>6. D \subseteq UnderWay
  <2>1. \A w \in S : f[w] \in UnderWay BY <1>2, OnePlace
  <2> QED BY <2>1
<1> HIDE DEF f
<1> QED BY <1>1, <1>5, <1>6, FS_Bijection

\* The connections kept by handlers that cannot go on, and by workers, are kept for
\* as many jobs.
LEMMA RoomForOne ==
  ASSUME IndInv, HasRoom, \A j \in Jobs : handler[j] \notin {"connected", "sent"}
  PROVE  FreeConn
<1> DEFINE D == {dbWorker[w].task[1] : w \in WorkersConnected}
<1>1. /\ IsFiniteSet(D) /\ Cardinality(D) = Cardinality(WorkersConnected)
      /\ D \subseteq UnderWay
  BY WorkersApart DEF WorkersConnected
<1>2. HandlersConnected \subseteq UnderWay
  <2>1. \A j \in HandlersConnected : At(<<"offered", JobItem(j)>>, j)
    BY DEF HandlersConnected, At
  <2> QED BY <2>1, OnePlace DEF HandlersConnected
<1>3. HandlersConnected \cap D = {}
  <2> SUFFICES ASSUME NEW w \in WorkersConnected, dbWorker[w].task[1] \in HandlersConnected
               PROVE  FALSE
    OBVIOUS
  <2> DEFINE j == dbWorker[w].task[1]
  <2>1. j \in Jobs /\ At(<<"offered", JobItem(j)>>, j) BY DEF HandlersConnected, At
  <2>2. At(<<"dbWorker", dbWorker[w].task, w>>, j) BY WorkersJob DEF WorkersConnected
  <2>3. <<"dbWorker", dbWorker[w].task, w>> = <<"offered", JobItem(j)>> BY <2>1, <2>2, OnePlace
  <2> QED BY <2>3
<1>4. IsFiniteSet(HandlersConnected) BY <1>2, FS_Subset DEF HasRoom
<1> HIDE DEF D
<1>5. /\ Cardinality(HandlersConnected \cup D) = Cardinality(HandlersConnected) + Cardinality(D) - Cardinality({})
      /\ Cardinality({}) = 0
  BY <1>1, <1>3, <1>4, FS_Union, FS_EmptySet
<1>6. Cardinality(HandlersConnected \cup D) <= Cardinality(UnderWay)
  BY <1>1, <1>2, FS_Subset DEF HasRoom
<1>7. /\ Cardinality(HandlersConnected) \in Nat /\ Cardinality(D) \in Nat
      /\ Cardinality(UnderWay) \in Nat
  BY <1>1, <1>4, FS_CardinalityType DEF HasRoom
<1> QED BY <1>1, <1>5, <1>6, <1>7, MaxConnsAssumption DEF HasRoom, FreeConn

\* Workers, queues and the list of the job worker are not full all at once.
LEMMA RoomForItems ==
  ASSUME IndInv, HasRoom, jobHand # NoItem, dbHand # NoItem, jobWorker.toSend # {},
         \A w \in Workers : dbWorker[w].step # "idle"
  PROVE  FALSE
<1> DEFINE D == {dbWorker[w].task[1] : w \in Workers}
<1>1. /\ IsFiniteSet(D) /\ Cardinality(D) = Cardinality(Workers)
      /\ D \subseteq UnderWay
  BY WorkersApart
<1>2. PICK t \in jobWorker.toSend : t \in Tasks BY DEF IndInv, TypeOK
<1> DEFINE a == jobHand[1]
           b == dbHand[1]
           c == t[1]
<1>3. a \in Jobs /\ b \in Jobs /\ c \in Jobs
  BY <1>2, ItemFacts DEF IndInv, TypeOK, Items
<1>4. At(<<"jobHand", jobHand>>, a) /\ At(<<"dbHand", dbHand>>, b) /\ At(<<"toSend", t>>, c)
  <2>1. t # NoItem BY <1>2, ItemFacts
  <2> QED BY <2>1 DEF At, Of
<1>5. a # b /\ a # c /\ b # c
  BY <1>3, <1>4, OnePlace
<1>6. \A w \in Workers : dbWorker[w].task[1] \notin {a, b, c}
  <2> SUFFICES ASSUME NEW w \in Workers, dbWorker[w].task[1] \in {a, b, c} PROVE FALSE OBVIOUS
  <2>1. At(<<"dbWorker", dbWorker[w].task, w>>, dbWorker[w].task[1]) BY WorkersJob
  <2> QED BY <2>1, <1>3, <1>4, OnePlace
<1>7. a \notin D /\ b \notin D /\ c \notin D BY <1>6
<1>8. a \in UnderWay /\ b \in UnderWay /\ c \in UnderWay BY <1>3, <1>4, OnePlace
<1> HIDE DEF D, a, b, c
<1>9. IsFiniteSet(D \cup {a}) /\ Cardinality(D \cup {a}) = Cardinality(D) + 1
  BY <1>1, <1>7, FS_AddElement
<1>10. /\ IsFiniteSet((D \cup {a}) \cup {b})
       /\ Cardinality((D \cup {a}) \cup {b}) = Cardinality(D \cup {a}) + 1
  BY <1>9, <1>7, <1>5, FS_AddElement
<1>11. Cardinality(((D \cup {a}) \cup {b}) \cup {c}) = Cardinality((D \cup {a}) \cup {b}) + 1
  BY <1>10, <1>7, <1>5, FS_AddElement
<1>12. Cardinality(((D \cup {a}) \cup {b}) \cup {c}) <= Cardinality(UnderWay)
  BY <1>1, <1>8, FS_Subset DEF HasRoom
<1>13. Cardinality(D) \in Nat /\ Cardinality(UnderWay) \in Nat
  BY <1>1, FS_CardinalityType DEF HasRoom
<1> QED BY <1>1, <1>9, <1>10, <1>11, <1>12, <1>13 DEF HasRoom

\* agent.go:19-31, db_api.go:67-98: as long as fewer jobs are under way than there
\* are connections, and not so many that workers, queues and the list of the job
\* worker are all full, some goroutine can go on, for any jobs, workers and
\* connections.  With as many jobs as connections the agent can lock up, and with
\* one worker and four jobs it can for any number of connections.
THEOREM NoLockupWithRoom == Spec => [](HasRoom => NoLockup)
<1>1. IndInv => (HasRoom => NoLockup)
  <2> SUFFICES ASSUME IndInv, HasRoom, Busy,
                      \A j \in Jobs : ~HandlerCanMove(j),
                      ~JobWorkerCanMove,
                      \A w \in Workers : ~DbWorkerCanMove(w)
               PROVE  FALSE
    BY DEF NoLockup
  <2>1. FreeConn BY RoomForOne DEF HandlerCanMove
  <2>2. ASSUME NEW j \in Jobs, handler[j] # "returned" PROVE jobHand # NoItem
    BY <2>1, <2>2 DEF HandlerCanMove, IndInv, TypeOK, HandlerStep
  <2>3. ASSUME NEW w \in Workers, dbWorker[w].step # "idle" PROVE jobHand # NoItem
    BY <2>1, <2>3 DEF DbWorkerCanMove, IndInv, TypeOK, DbWorkerStep
  <2>4. ASSUME dbHand # NoItem PROVE \A w \in Workers : dbWorker[w].step # "idle"
    BY <2>4 DEF DbWorkerCanMove
  <2>5. dbHand # NoItem => jobHand # NoItem
    BY <2>3, <2>4, WorkersAssumption
  <2>6. jobWorker.step # "idle" => jobWorker.step = "send" /\ jobWorker.toSend # {} /\ dbHand # NoItem
    BY <2>1 DEF JobWorkerCanMove, IndInv, TypeOK, JobWorkerStep
  <2>7. jobHand # NoItem BY <2>2, <2>3, <2>5, <2>6 DEF Busy
  <2>8. jobWorker.toSend # {} /\ dbHand # NoItem BY <2>6, <2>7 DEF JobWorkerCanMove
  <2> QED BY <2>4, <2>7, <2>8, RoomForItems
<1> QED BY <1>1, Invariance, PTL

-----------------------------------------------------------------------------
(* What the refinement needs *)

\* A task no worker has touched, and one a worker has done with.
Fresh(t) == status[t] = "pending" /\ t \notin refused
Back(t) == IsDone(t) \/ (status[t] = "pending" /\ t \in refused)

\* The tasks on their way to a worker are fresh, those on their way back are
\* not.
WayThereIsFresh ==
  /\ \A t \in jobWorker.toSend : Fresh(t)
  /\ dbHand # NoItem => Fresh(dbHand)
  /\ \A w \in Workers : dbWorker[w].step \in {"connect", "begin"} => Fresh(dbWorker[w].task)

WayBackIsBack ==
  /\ \A w \in Workers : dbWorker[w].step = "send" => Back(dbWorker[w].task)
  /\ jobHand \in Tasks => Back(jobHand)
  /\ jobWorker.step = "handle" /\ jobWorker.item \in Tasks => Back(jobWorker.item)

\* The running tasks are those the workers work at.
RunningIsAtWork ==
  \A t \in Tasks :
    status[t] = "running"
      <=> \E w \in Workers : dbWorker[w].step = "work" /\ dbWorker[w].task = t

\* A task is handed to the queue once it waits for nobody.
Sent(t) ==
  \/ ~Fresh(t)
  \/ t \in jobWorker.toSend
  \/ dbHand = t
  \/ \E w \in Workers : dbWorker[w].task = t

SentWaitsForNobody == \A t \in Tasks : Sent(t) => liveDependsOn[t] = {}

\* A dependency is taken off a list when it has ended.
OffTheListIsDone ==
  \A t \in Tasks : \A d \in DependsOn(t) : d \in liveDependsOn[t] \/ IsDone(d)

\* No worker has touched the tasks of a job that is new.
NewIsFresh == \A j \in Jobs : IsNew(j) => \A t \in TasksOf(j) : Fresh(t)

OrderInv ==
  /\ WayThereIsFresh
  /\ WayBackIsBack
  /\ RunningIsAtWork
  /\ SentWaitsForNobody
  /\ OffTheListIsDone
  /\ NewIsFresh

\* What a step does to the promise: one of its steps, or nothing.
OrderStep == [Order!Next]_(Order!orderVars)

RunningTasks == {t \in Tasks : status[t] = "running"}

-----------------------------------------------------------------------------
(* The mapping *)

\* The four phases exclude each other.
LEMMA Phases ==
  ASSUME TypeOK, TypeOK', NEW t \in Tasks
  PROVE  /\ PhaseOf(t) = "ended" <=> IsDone(t)
         /\ PhaseOf(t) = "running" <=> status[t] = "running"
         /\ PhaseOf(t) = "given" <=> status[t] = "pending" /\ GivenOut(t)
         /\ PhaseOf(t) = "waiting" <=> status[t] = "pending" /\ ~GivenOut(t)
         /\ PhaseOf(t)' = "ended" <=> IsDone(t)'
         /\ PhaseOf(t)' = "running" <=> status'[t] = "running"
         /\ PhaseOf(t)' = "given" <=> status'[t] = "pending" /\ GivenOut(t)'
         /\ PhaseOf(t)' = "waiting" <=> status'[t] = "pending" /\ ~GivenOut(t)'
<1>1. status[t] \in TaskStatus /\ status'[t] \in TaskStatus
  BY DEF TypeOK
<1> QED
  BY <1>1 DEF PhaseOf, IsDone, IsFailed, TaskStatus

\* A task whose status stays, and that is not given out by the step, keeps its
\* phase.
LEMMA SamePhase ==
  ASSUME TypeOK, TypeOK', NEW t \in Tasks, status'[t] = status[t],
         IsDone(t) \/ (GivenOut(t)' <=> GivenOut(t))
  PROVE  PhaseOf(t)' = PhaseOf(t)
<1>1. IsDone(t)' <=> IsDone(t)
  BY DEF IsDone, IsFailed
<1>2. IsDone(t) \/ status[t] = "running" \/ status[t] = "pending"
  BY DEF TypeOK, IsDone, IsFailed, TaskStatus
<1> QED
  BY <1>1, <1>2, Phases

\* One task advances.
LEMMA Advances ==
  ASSUME NEW t \in Tasks, NEW from, NEW to,
         PhaseOf(t) \in from, PhaseOf(t)' = to,
         \A u \in Tasks \ {t} : PhaseOf(u)' = PhaseOf(u)
  PROVE  Order!Advance(t, from, to)
BY DEF Order!Advance

\* The running tasks are at most as many as the workers that are not free.
LEMMA RunningFits ==
  ASSUME IndInv, RunningIsAtWork
  PROVE  /\ IsFiniteSet(RunningTasks)
         /\ Cardinality(RunningTasks) \in Nat
         /\ \A w \in Workers :
              dbWorker[w].step # "work" => Cardinality(RunningTasks) < Cardinality(Workers)
<1> DEFINE AtWork == {w \in Workers : dbWorker[w].step = "work"}
           f == [w \in AtWork |-> dbWorker[w].task]
<1>1. IsFiniteSet(AtWork)
  BY WorkersAssumption, FS_Subset
<1>2. f \in Surjection(AtWork, RunningTasks)
  <2>1. \A w \in AtWork : dbWorker[w].task \in RunningTasks
    BY DEF IndInv, TypeOK, HandsMatchSteps, RunningIsAtWork, RunningTasks
  <2>2. \A t \in RunningTasks : \E w \in AtWork : f[w] = t
    BY DEF RunningIsAtWork, RunningTasks
  <2> QED
    BY <2>1, <2>2 DEF Surjection
<1>3. IsFiniteSet(RunningTasks) /\ Cardinality(RunningTasks) <= Cardinality(AtWork)
  BY <1>1, <1>2, FS_Surjection
<1>4. ASSUME NEW w \in Workers, dbWorker[w].step # "work"
      PROVE  Cardinality(AtWork) < Cardinality(Workers)
  BY <1>4, WorkersAssumption, FS_Subset, FS_CardinalityType, <1>1
<1> QED
  BY <1>1, <1>3, <1>4, WorkersAssumption, FS_CardinalityType

-----------------------------------------------------------------------------
(* Who has a task *)

\* Nobody else has the task of a worker, and its job is not new.
LEMMA WorkerHasIt ==
  ASSUME IndInv, NEW w \in Workers, dbWorker[w].step # "idle"
  PROVE  LET t == dbWorker[w].task IN
         /\ t \in Tasks
         /\ t \notin jobWorker.toSend
         /\ dbHand # t
         /\ jobHand # t
         /\ ~(jobWorker.step = "handle" /\ jobWorker.item = t)
         /\ \A v \in Workers : dbWorker[v].task = t => v = w
         /\ ~IsNew(t[1])
<1> DEFINE t == dbWorker[w].task
           here == <<"dbWorker", t, w>>
<1>1. t \in Tasks /\ t # NoItem /\ t[1] \in Jobs
  BY ItemFacts DEF IndInv, TypeOK, HandsMatchSteps
<1>2. here \in InFlight(t[1])
  BY <1>1, InFlightBy DEF At, Of
<1>3. \A p : At(p, t[1]) => p = here
  BY <1>1, <1>2, InFlightBy DEF IndInv, Alone
<1>4. ~At(<<"toSend", t>>, t[1]) /\ ~At(<<"dbHand", t>>, t[1]) /\ ~At(<<"jobHand", t>>, t[1])
      /\ ~At(<<"jobWorker", t>>, t[1])
      /\ ~At(<<"offered", JobItem(t[1])>>, t[1])
      /\ ~At(<<"jobHand", JobItem(t[1])>>, t[1])
      /\ ~At(<<"jobWorker", JobItem(t[1])>>, t[1])
  BY <1>3
<1>5. \A v \in Workers : v # w => ~At(<<"dbWorker", t, v>>, t[1])
  BY <1>3
<1>6. handler[t[1]] \notin {"idle", "connected"}
  BY <1>1, <1>2 DEF IndInv, NothingUnsent
<1>7. ~IsNew(t[1])
  BY <1>1, <1>4, <1>6, ItemFacts DEF IsNew, At, Of
<1>8. \A v \in Workers : dbWorker[v].task = t => v = w
  BY <1>1, <1>5 DEF At, Of
<1> QED
  BY <1>1, <1>4, <1>7, <1>8 DEF At, Of

\* Nobody else has the task that came back, and its job is not new.
LEMMA JobWorkerHasIt ==
  ASSUME IndInv, jobWorker.step = "handle", jobWorker.item \in Tasks
  PROVE  LET t == jobWorker.item IN
         /\ dbHand # t
         /\ jobHand # t
         /\ \A v \in Workers : dbWorker[v].task # t
         /\ ~IsNew(t[1])
<1> DEFINE t == jobWorker.item
           here == <<"jobWorker", t>>
<1>1. t \in Tasks /\ t # NoItem /\ t[1] \in Jobs
  BY ItemFacts
<1>2. here \in InFlight(t[1])
  BY <1>1, InFlightBy DEF At, Of
<1>3. \A p : At(p, t[1]) => p = here
  BY <1>1, <1>2, InFlightBy DEF IndInv, Alone
<1>4. ~At(<<"dbHand", t>>, t[1]) /\ ~At(<<"jobHand", t>>, t[1])
      /\ ~At(<<"offered", JobItem(t[1])>>, t[1])
      /\ ~At(<<"jobHand", JobItem(t[1])>>, t[1])
  BY <1>3
<1>5. \A v \in Workers : ~At(<<"dbWorker", t, v>>, t[1])
  BY <1>3
<1>6. handler[t[1]] \notin {"idle", "connected"}
  BY <1>1, <1>2 DEF IndInv, NothingUnsent
<1>7. ~IsNew(t[1])
  BY <1>1, <1>4, <1>6, ItemFacts DEF IsNew, At, Of
<1> QED
  BY <1>1, <1>4, <1>5, <1>7 DEF At, Of

\* No worker has a task that is still to be sent.
LEMMA ToSendHasIt ==
  ASSUME IndInv, NEW t \in jobWorker.toSend
  PROVE  t \in Tasks /\ \A v \in Workers : dbWorker[v].task # t
<1>1. t \in Tasks /\ t # NoItem /\ t[1] \in Jobs
  BY ItemFacts DEF IndInv, TypeOK
<1>2. <<"toSend", t>> \in InFlight(t[1])
  BY <1>1, InFlightBy DEF At, Of
<1>3. \A v \in Workers : ~At(<<"dbWorker", t, v>>, t[1])
  BY <1>1, <1>2, InFlightBy DEF IndInv, Alone
<1> QED
  BY <1>1, <1>3 DEF At, Of

-----------------------------------------------------------------------------
(* Every step keeps the invariant and is a step of TaskOrder, or none *)

\* A step that hands items on, and touches no task.
LEMMA HandsOver ==
  ASSUME IndInv, IndInv', OrderInv,
         UNCHANGED <<status, refused, liveDependsOn>>,
         WayThereIsFresh', WayBackIsBack',
         \A w \in Workers :
           dbWorker[w].step = "work" \/ dbWorker'[w].step = "work"
             => dbWorker'[w] = dbWorker[w],
         \A t \in Tasks : Sent(t)' => Sent(t) \/ liveDependsOn[t] = {},
         \A t \in Tasks : IsDone(t) \/ (GivenOut(t)' <=> GivenOut(t)),
         \A j \in Jobs : IsNew(j)' => IsNew(j)
  PROVE  OrderInv' /\ OrderStep
<1> USE DEF OrderInv
<1>1. RunningIsAtWork'
  BY DEF RunningIsAtWork
<1>2. SentWaitsForNobody'
  BY DEF SentWaitsForNobody
<1>3. OffTheListIsDone'
  BY DEF OffTheListIsDone, IsDone, IsFailed
<1>4. NewIsFresh'
  BY DEF NewIsFresh, Fresh
<1>5. \A t \in Tasks : PhaseOf(t)' = PhaseOf(t)
  BY SamePhase DEF IndInv
<1>6. UNCHANGED Order!orderVars
  BY <1>5 DEF Order!orderVars
<1> QED
  BY <1>1, <1>2, <1>3, <1>4, <1>6 DEF OrderStep

\* The steps of a handler, up to the hand of the Run loop.
LEMMA HandlerKeeps ==
  ASSUME IndInv, IndInv', OrderInv, NEW j \in Jobs, HandlerNext(j)
  PROVE  OrderInv' /\ OrderStep
<1> USE DEF taskVars
<1>1. CASE HandlerSend(j)
  <2>1. WayThereIsFresh' /\ WayBackIsBack'
    BY <1>1, ItemFacts DEF HandlerSend, OrderInv, WayThereIsFresh, WayBackIsBack,
       Fresh, Back, IsDone, IsFailed
  <2>2. \A i \in Jobs : IsNew(i)' => IsNew(i)
    BY <1>1, ItemFacts DEF HandlerSend, IsNew, IndInv, TypeOK
  <2> QED
    BY <1>1, <2>1, <2>2, HandsOver DEF HandlerSend, Sent, Fresh, GivenOut
<1>2. CASE ~HandlerSend(j)
  <2>1. /\ UNCHANGED <<jobs, taskVars, jobHand, jobWorker, dbHand, dbWorker, refused>>
        /\ \A i \in Jobs : handler'[i] = handler[i] \/
             handler[i] \in {"idle", "connected"} \/ handler'[i] = "returned"
    BY <1>2 DEF HandlerNext, HandlerConnect, HandlerCommit, HandlerGivesUp, HandlerReturn,
       IndInv, TypeOK
  <2>2. WayThereIsFresh' /\ WayBackIsBack'
    BY <2>1 DEF OrderInv, WayThereIsFresh, WayBackIsBack, Fresh, Back, IsDone, IsFailed
  <2>3. \A i \in Jobs : IsNew(i)' => IsNew(i)
    BY <2>1 DEF IsNew
  <2> QED
    BY <2>1, <2>2, <2>3, HandsOver DEF Sent, Fresh, GivenOut
<1> QED
  BY <1>1, <1>2

\* A step that changes nothing.
LEMMA StandsStill ==
  ASSUME IndInv, IndInv', OrderInv, UNCHANGED vars
  PROVE  OrderInv' /\ OrderStep
<1> USE DEF vars, taskVars
<1>1. WayThereIsFresh' /\ WayBackIsBack'
  BY DEF OrderInv, WayThereIsFresh, WayBackIsBack, Fresh, Back, IsDone, IsFailed
<1> QED
  BY <1>1, HandsOver DEF Sent, Fresh, GivenOut, IsNew

\* The worker takes what is in the hand.
LEMMA JobWorkerStartMaps ==
  ASSUME IndInv, IndInv', OrderInv, JobWorkerStart
  PROVE  OrderInv' /\ OrderStep
<1> USE DEF JobWorkerStart, taskVars, IndInv, TypeOK, HandsMatchSteps
<1>1. WayThereIsFresh'
  BY DEF OrderInv, WayThereIsFresh, Fresh
<1>2. WayBackIsBack'
  BY ItemFacts DEF OrderInv, WayBackIsBack, Back, IsDone, IsFailed
<1>3. \A t \in Tasks : Sent(t)' => Sent(t)
  BY DEF Sent, Fresh
<1>4. \A t \in Tasks : IsDone(t) \/ (GivenOut(t)' <=> GivenOut(t))
  BY DEF GivenOut
<1>5. \A j \in Jobs : IsNew(j)' => IsNew(j)
  BY ItemFacts DEF IsNew
<1>6. \A v \in Workers :
        dbWorker[v].step = "work" \/ dbWorker'[v].step = "work" => dbWorker'[v] = dbWorker[v]
  OBVIOUS
<1> QED
  BY <1>1, <1>2, <1>3, <1>4, <1>5, <1>6, HandsOver

\* The worker drops a task that came back.
LEMMA DropTaskMaps ==
  ASSUME IndInv, IndInv', OrderInv, DropTask
  PROVE  OrderInv' /\ OrderStep
<1> USE DEF DropTask, taskVars, IndInv, TypeOK, IdleJobWorker
<1>1. WayThereIsFresh'
  BY DEF OrderInv, WayThereIsFresh, Fresh
<1>2. WayBackIsBack'
  BY DEF OrderInv, WayBackIsBack, Back, IsDone, IsFailed
<1>3. \A t \in Tasks : Sent(t)' => Sent(t)
  BY DEF Sent, Fresh
<1>4. \A t \in Tasks : IsDone(t) \/ (GivenOut(t)' <=> GivenOut(t))
  BY DEF GivenOut
<1>5. \A j \in Jobs : IsNew(j)' => IsNew(j)
  BY DEF IsNew
<1>6. \A v \in Workers :
        dbWorker[v].step = "work" \/ dbWorker'[v].step = "work" => dbWorker'[v] = dbWorker[v]
  OBVIOUS
<1> QED
  BY <1>1, <1>2, <1>3, <1>4, <1>5, <1>6, HandsOver

\* Nothing is left to send.
LEMMA JobWorkerEndMaps ==
  ASSUME IndInv, IndInv', OrderInv, JobWorkerEnd
  PROVE  OrderInv' /\ OrderStep
<1> USE DEF JobWorkerEnd, taskVars, IndInv, TypeOK, IdleJobWorker
<1>1. WayThereIsFresh'
  BY DEF OrderInv, WayThereIsFresh, Fresh
<1>2. WayBackIsBack'
  BY DEF OrderInv, WayBackIsBack, Back, IsDone, IsFailed
<1>3. \A t \in Tasks : Sent(t)' => Sent(t)
  BY DEF Sent, Fresh
<1>4. \A t \in Tasks : IsDone(t) \/ (GivenOut(t)' <=> GivenOut(t))
  BY DEF GivenOut
<1>5. \A j \in Jobs : IsNew(j)' => IsNew(j)
  BY DEF IsNew
<1>6. \A v \in Workers :
        dbWorker[v].step = "work" \/ dbWorker'[v].step = "work" => dbWorker'[v] = dbWorker[v]
  OBVIOUS
<1> QED
  BY <1>1, <1>2, <1>3, <1>4, <1>5, <1>6, HandsOver

\* A worker takes the task that is in the hand.
LEMMA DbWorkerStartMaps ==
  ASSUME IndInv, IndInv', OrderInv, NEW w \in Workers, DbWorkerStart(w)
  PROVE  OrderInv' /\ OrderStep
<1> USE DEF DbWorkerStart, taskVars, IndInv, TypeOK
<1>1. WayThereIsFresh'
  BY DEF OrderInv, WayThereIsFresh, Fresh
<1>2. WayBackIsBack'
  BY DEF OrderInv, WayBackIsBack, Back, IsDone, IsFailed
<1>3. \A t \in Tasks : Sent(t)' => Sent(t)
  BY ItemFacts DEF Sent, Fresh
<1>4. \A t \in Tasks : IsDone(t) \/ (GivenOut(t)' <=> GivenOut(t))
  BY DEF GivenOut, HandsMatchSteps
<1>5. \A j \in Jobs : IsNew(j)' => IsNew(j)
  BY DEF IsNew
<1>6. \A v \in Workers :
        dbWorker[v].step = "work" \/ dbWorker'[v].step = "work" => dbWorker'[v] = dbWorker[v]
  OBVIOUS
<1> QED
  BY <1>1, <1>2, <1>3, <1>4, <1>5, <1>6, HandsOver

\* A worker gets the connection its task keeps.
LEMMA DbConnectMaps ==
  ASSUME IndInv, IndInv', OrderInv, NEW w \in Workers, DbConnect(w)
  PROVE  OrderInv' /\ OrderStep
<1> USE DEF DbConnect, taskVars, IndInv, TypeOK, SetDbWorker
<1>1. WayThereIsFresh'
  BY DEF OrderInv, WayThereIsFresh, Fresh
<1>2. WayBackIsBack'
  BY DEF OrderInv, WayBackIsBack, Back, IsDone, IsFailed
<1>3. \A t \in Tasks : Sent(t)' => Sent(t)
  BY DEF Sent, Fresh
<1>4. \A t \in Tasks : IsDone(t) \/ (GivenOut(t)' <=> GivenOut(t))
  BY DEF GivenOut
<1>5. \A j \in Jobs : IsNew(j)' => IsNew(j)
  BY DEF IsNew
<1>6. \A v \in Workers :
        dbWorker[v].step = "work" \/ dbWorker'[v].step = "work" => dbWorker'[v] = dbWorker[v]
  OBVIOUS
<1> QED
  BY <1>1, <1>2, <1>3, <1>4, <1>5, <1>6, HandsOver

\* A worker hands its task back.
LEMMA ReturnTaskMaps ==
  ASSUME IndInv, IndInv', OrderInv, NEW w \in Workers, ReturnTask(w)
  PROVE  OrderInv' /\ OrderStep
<1> USE DEF ReturnTask, taskVars, IndInv, TypeOK, IdleDbWorker
<1>1. WayThereIsFresh'
  BY DEF OrderInv, WayThereIsFresh, Fresh
<1>2. WayBackIsBack'
  BY DEF OrderInv, WayBackIsBack, Back, IsDone, IsFailed
<1>3. \A t \in Tasks : Sent(t)' => Sent(t)
  BY ItemFacts DEF Sent, Fresh
<1>4. \A t \in Tasks : IsDone(t) \/ (GivenOut(t)' <=> GivenOut(t))
  BY DEF GivenOut, OrderInv, WayBackIsBack, Back
<1>5. \A j \in Jobs : IsNew(j)' => IsNew(j)
  BY ItemFacts DEF IsNew
<1>6. \A v \in Workers :
        dbWorker[v].step = "work" \/ dbWorker'[v].step = "work" => dbWorker'[v] = dbWorker[v]
  OBVIOUS
<1> QED
  BY <1>1, <1>2, <1>3, <1>4, <1>5, <1>6, HandsOver

\* A task of a job that is added is fresh and waits for nobody.
LEMMA AddJobMaps ==
  ASSUME IndInv, IndInv', OrderInv, AddJob
  PROVE  OrderInv' /\ OrderStep
<1> USE DEF taskVars, IndInv, TypeOK
<1>1. PICK k \in Jobs : jobWorker.item = JobItem(k)
  BY DEF AddJob, HandsMatchSteps, Items
<1>2. IsNew(k) /\ jobWorker.item[1] = k
  BY <1>1, ItemFacts DEF AddJob, IsNew
<1>3. \A t \in ReadyToRun(k) : t \in Tasks /\ Fresh(t) /\ liveDependsOn[t] = {}
  BY <1>2, ItemFacts DEF ReadyToRun, OrderInv, NewIsFresh, NewIsUntouched
<1>4. jobWorker'.toSend \subseteq ReadyToRun(k) /\ jobWorker'.step # "handle"
  <2>1. \/ jobWorker' = IdleJobWorker
        \/ jobWorker' = [step |-> "send", item |-> JobItem(k), toSend |-> ReadyToRun(k)]
    BY <1>1, <1>2 DEF AddJob
  <2> QED
    BY <2>1 DEF IdleJobWorker
<1>5. WayThereIsFresh'
  BY <1>3, <1>4 DEF AddJob, OrderInv, WayThereIsFresh, Fresh
<1>6. WayBackIsBack'
  BY <1>4 DEF AddJob, OrderInv, WayBackIsBack, Back, IsDone, IsFailed
<1>7. \A t \in Tasks : Sent(t)' => Sent(t) \/ liveDependsOn[t] = {}
  BY <1>3, <1>4 DEF AddJob, Sent, Fresh
<1>8. \A j \in Jobs : IsNew(j)' => IsNew(j)
  BY <1>4 DEF AddJob, IsNew
<1> QED
  BY <1>5, <1>6, <1>7, <1>8, HandsOver DEF AddJob, GivenOut

\* A task that has ended is taken off the list of its dependent, which then
\* waits for nobody: it waited for this one only.
LEMMA ProcessDoneTaskMaps ==
  ASSUME IndInv, IndInv', OrderInv, ProcessDoneTask
  PROVE  OrderInv' /\ OrderStep
<1> USE DEF taskVars, IndInv, TypeOK
<1>1. PICK d \in Tasks : d = jobWorker.item /\ IsDone(d)
  BY DEF ProcessDoneTask
<1>2. Dependents(d) \subseteq Tasks
  BY <1>1, ItemFacts DEF Dependents
<1>3. \/ jobWorker' = IdleJobWorker /\ liveDependsOn' = liveDependsOn
      \/ OnTaskDone(d)
  BY <1>1 DEF ProcessDoneTask
<1>4. \A t \in Tasks :
        \/ liveDependsOn'[t] = liveDependsOn[t]
        \/ liveDependsOn'[t] = liveDependsOn[t] \ {d}
  BY <1>3 DEF OnTaskDone
<1>5. \A t \in Dependents(d) : Fresh(t)
  BY <1>2 DEF Dependents, OrderInv, SentWaitsForNobody, Sent
<1>6. jobWorker'.step # "handle" /\ jobWorker'.toSend \subseteq Dependents(d)
  <2>1. ReadyAfterDone(d) \subseteq Dependents(d) /\ ReadyAfterFailed(d) \subseteq Dependents(d)
    BY DEF ReadyAfterDone, ReadyAfterFailed
  <2>2. CASE jobWorker' = IdleJobWorker
    BY <2>2 DEF IdleJobWorker
  <2>3. CASE OnTaskDone(d)
    <3>1. PICK S \in SUBSET Dependents(d) :
            jobWorker' = [jobWorker EXCEPT !.step = "send", !.toSend = S]
      BY <2>1, <2>3 DEF OnTaskDone
    <3>2. jobWorker'.step = "send" /\ jobWorker'.toSend = S
      BY <3>1
    <3> QED
      BY <3>2
  <2> QED
    BY <1>3, <2>2, <2>3
<1>7. \A t \in jobWorker'.toSend : liveDependsOn'[t] = {}
  <2> SUFFICES ASSUME NEW t \in jobWorker'.toSend
               PROVE  liveDependsOn'[t] = {}
    OBVIOUS
  <2>1. t \in Tasks /\ t \in Dependents(d) /\ d \in liveDependsOn[t]
    BY <1>2, <1>6 DEF Dependents
  <2>2. DependsOn(t) = {d}
    BY <2>1 DEF WaitsForOne, DependsOn
  <2>3. liveDependsOn'[t] = liveDependsOn[t] \ {d}
    BY <1>3, <1>6, <2>1 DEF OnTaskDone, IdleJobWorker
  <2> QED
    BY <2>1, <2>2, <2>3 DEF WaitsForOne
<1>8. WayThereIsFresh'
  BY <1>5, <1>6 DEF ProcessDoneTask, OrderInv, WayThereIsFresh, Fresh
<1>9. WayBackIsBack'
  BY <1>6 DEF ProcessDoneTask, OrderInv, WayBackIsBack, Back, IsDone, IsFailed
<1>10. RunningIsAtWork'
  BY DEF ProcessDoneTask, OrderInv, RunningIsAtWork
<1>11. SentWaitsForNobody'
  BY <1>4, <1>7 DEF ProcessDoneTask, OrderInv, SentWaitsForNobody, Sent, Fresh
<1>12. OffTheListIsDone'
  BY <1>1, <1>4 DEF ProcessDoneTask, OrderInv, OffTheListIsDone, IsDone, IsFailed
<1>13. NewIsFresh'
  BY <1>6 DEF ProcessDoneTask, OrderInv, NewIsFresh, IsNew, Fresh
<1>14. \A t \in Tasks : PhaseOf(t)' = PhaseOf(t)
  BY SamePhase DEF ProcessDoneTask, GivenOut
<1>15. UNCHANGED Order!orderVars
  BY <1>14 DEF Order!orderVars, ProcessDoneTask
<1> QED
  BY <1>8, <1>9, <1>10, <1>11, <1>12, <1>13, <1>15 DEF OrderInv, OrderStep

\* A ready task is given out: it waits for nobody, so that what it depends on
\* has ended.
LEMMA SendReadyTaskMaps ==
  ASSUME IndInv, IndInv', OrderInv, SendReadyTask
  PROVE  OrderInv' /\ OrderStep
<1> USE DEF taskVars, IndInv, TypeOK
<1>1. PICK t \in jobWorker.toSend : /\ dbHand' = t
                                   /\ jobWorker' = [jobWorker EXCEPT !.toSend = @ \ {t}]
  BY DEF SendReadyTask
<1>2. t \in Tasks /\ t # NoItem /\ \A v \in Workers : dbWorker[v].task # t
  BY ToSendHasIt, ItemFacts
<1>3. Fresh(t) /\ liveDependsOn[t] = {}
  BY <1>2 DEF OrderInv, WayThereIsFresh, SentWaitsForNobody, Sent
<1>4. WayThereIsFresh' /\ WayBackIsBack'
  BY <1>1, <1>3 DEF SendReadyTask, OrderInv, WayThereIsFresh, WayBackIsBack,
     Fresh, Back, IsDone, IsFailed
<1>5. RunningIsAtWork'
  BY DEF SendReadyTask, OrderInv, RunningIsAtWork
<1>6. SentWaitsForNobody'
  BY <1>1, <1>3 DEF SendReadyTask, OrderInv, SentWaitsForNobody, Sent, Fresh
<1>7. OffTheListIsDone'
  BY DEF SendReadyTask, OrderInv, OffTheListIsDone, IsDone, IsFailed
<1>8. NewIsFresh'
  BY <1>1 DEF SendReadyTask, OrderInv, NewIsFresh, IsNew, Fresh
<1>9. Order!Give(t)
  <2>1. \A u \in Tasks \ {t} : PhaseOf(u)' = PhaseOf(u)
    BY <1>1, SamePhase, ItemFacts DEF SendReadyTask, GivenOut
  <2>2. PhaseOf(t) = "waiting"
    BY <1>2, <1>3, Phases DEF SendReadyTask, Fresh, GivenOut
  <2>3. PhaseOf(t)' = "given"
    BY <1>1, <1>2, <1>3, Phases DEF SendReadyTask, Fresh, GivenOut
  <2>4. Order!Advance(t, {"waiting"}, "given")
    BY <1>2, <2>1, <2>2, <2>3, Advances
  <2>5. \A d \in DependsOn(t) : d \in Tasks /\ PhaseOf(d) = "ended"
    <3>1. DependsOn(t) \subseteq Tasks
      BY <1>2 DEF Tasks, TasksOf, DependsOn
    <3>2. \A d \in DependsOn(t) : IsDone(d)
      BY <1>2, <1>3 DEF OrderInv, OffTheListIsDone
    <3> QED
      BY <3>1, <3>2, Phases
  <2> QED
    BY <2>4, <2>5 DEF Order!Give, SendReadyTask
<1> QED
  BY <1>2, <1>4, <1>5, <1>6, <1>7, <1>8, <1>9 DEF OrderInv, OrderStep, Order!Next

\* A refused task keeps its phase: it was given out, and is remembered.
LEMMA RefusedMaps ==
  ASSUME IndInv, IndInv', OrderInv, NEW w \in Workers, DbConnectFails(w) \/ RefuseCreate(w)
  PROVE  OrderInv' /\ OrderStep
<1> USE DEF taskVars, IndInv, TypeOK
<1> DEFINE t == dbWorker[w].task
<1>1. /\ dbWorker[w].step \in {"connect", "begin"}
      /\ dbWorker' = [dbWorker EXCEPT ![w].step = "send"]
      /\ refused' = refused \cup {t}
      /\ UNCHANGED <<handler, jobs, taskVars, jobHand, jobWorker, dbHand>>
  BY DEF DbConnectFails, RefuseCreate, SetDbWorker
<1>2. /\ t \in Tasks
      /\ t \notin jobWorker.toSend
      /\ dbHand # t
      /\ \A v \in Workers : dbWorker[v].task = t => v = w
      /\ ~IsNew(t[1])
  BY <1>1, WorkerHasIt
<1>3. Fresh(t)
  BY <1>1 DEF OrderInv, WayThereIsFresh
<1>4. WayThereIsFresh'
  BY <1>1, <1>2 DEF OrderInv, WayThereIsFresh, Fresh
<1>5. WayBackIsBack'
  BY <1>1, <1>3 DEF OrderInv, WayBackIsBack, Back, Fresh, IsDone, IsFailed
<1>6. RunningIsAtWork'
  BY <1>1 DEF OrderInv, RunningIsAtWork
<1>7. SentWaitsForNobody'
  BY <1>1 DEF OrderInv, SentWaitsForNobody, Sent, Fresh
<1>8. OffTheListIsDone'
  BY <1>1 DEF OrderInv, OffTheListIsDone, IsDone, IsFailed
<1>9. NewIsFresh'
  <2>1. \A j \in Jobs : IsNew(j)' => IsNew(j)
    BY <1>1 DEF IsNew
  <2> QED
    BY <1>1, <1>2, <2>1, ItemFacts DEF OrderInv, NewIsFresh, Fresh
<1>10. \A u \in Tasks : PhaseOf(u)' = PhaseOf(u)
  BY <1>1, SamePhase DEF GivenOut
<1>11. UNCHANGED Order!orderVars
  BY <1>1, <1>10 DEF Order!orderVars
<1> QED
  BY <1>4, <1>5, <1>6, <1>7, <1>8, <1>9, <1>11 DEF OrderInv, OrderStep

\* What is common to the steps that change the status of a task: nobody else
\* holds the task, so that only its own phase changes.
LEMMA OneStatus ==
  ASSUME IndInv, IndInv', OrderInv, NEW t \in Tasks, NEW s,
         status' = [status EXCEPT ![t] = s],
         UNCHANGED <<handler, jobs, liveDependsOn, cancelling, jobHand, jobWorker, dbHand, refused>>,
         \A w \in Workers : dbWorker'[w].task = dbWorker[w].task,
         GivenOut(t), ~IsDone(t), ~IsNew(t[1])
  PROVE  /\ SentWaitsForNobody'
         /\ OffTheListIsDone'
         /\ NewIsFresh'
         /\ \A u \in Tasks \ {t} : PhaseOf(u)' = PhaseOf(u)
<1> USE DEF IndInv, TypeOK
<1>1. SentWaitsForNobody'
  BY DEF OrderInv, SentWaitsForNobody, Sent, Fresh, GivenOut
<1>2. OffTheListIsDone'
  <2>1. \A d \in Tasks : IsDone(d) => IsDone(d)'
    BY DEF IsDone, IsFailed
  <2>2. \A u \in Tasks : DependsOn(u) \subseteq Tasks
    BY DEF Tasks, TasksOf, DependsOn
  <2> QED
    BY <2>1, <2>2 DEF OrderInv, OffTheListIsDone
<1>3. NewIsFresh'
  <2>1. \A j \in Jobs : IsNew(j)' => IsNew(j)
    BY DEF IsNew
  <2> QED
    BY <2>1, ItemFacts DEF OrderInv, NewIsFresh, Fresh
<1>4. \A u \in Tasks \ {t} : PhaseOf(u)' = PhaseOf(u)
  BY SamePhase DEF GivenOut
<1> QED
  BY <1>1, <1>2, <1>3, <1>4

\* A task that is cancelled was given out and refused: it ends without having
\* run.
LEMMA CancelTaskMaps ==
  ASSUME IndInv, IndInv', OrderInv, CancelTask
  PROVE  OrderInv' /\ OrderStep
<1> USE DEF IndInv, TypeOK
<1>0. PICK t \in Tasks : t = jobWorker.item
  BY DEF CancelTask
<1>1. /\ jobWorker.step = "handle"
      /\ ~IsDone(t)
      /\ status' = [status EXCEPT ![t] = "cancelled"]
      /\ UNCHANGED <<handler, jobs, liveDependsOn, cancelling, jobHand, jobWorker,
                     dbHand, dbWorker, refused>>
  BY <1>0 DEF CancelTask, IsCancelling
<1>2. /\ dbHand # t
      /\ jobHand # t
      /\ \A v \in Workers : dbWorker[v].task # t
      /\ ~IsNew(t[1])
  BY <1>0, <1>1, JobWorkerHasIt
<1>3. status[t] = "pending" /\ t \in refused /\ GivenOut(t)
  BY <1>0, <1>1 DEF OrderInv, WayBackIsBack, Back, GivenOut
<1>4. /\ SentWaitsForNobody' /\ OffTheListIsDone' /\ NewIsFresh'
      /\ \A u \in Tasks \ {t} : PhaseOf(u)' = PhaseOf(u)
  BY <1>1, <1>2, <1>3, OneStatus
<1>5. WayThereIsFresh'
  BY <1>1, <1>2 DEF OrderInv, WayThereIsFresh, Fresh, HandsMatchSteps
<1>6. WayBackIsBack'
  BY <1>1, <1>2 DEF OrderInv, WayBackIsBack, Back, IsDone, IsFailed
<1>7. RunningIsAtWork'
  BY <1>1, <1>3 DEF OrderInv, RunningIsAtWork
<1>8. Order!EndUnrun(t)
  <2>1. PhaseOf(t) = "given" /\ PhaseOf(t)' = "ended"
    BY <1>1, <1>3, Phases DEF IsDone, IsFailed
  <2>2. Order!Advance(t, {"given"}, "ended")
    BY <1>1, <1>4, <2>1, Advances
  <2>3. RunningTasks' = RunningTasks
    BY <1>1, <1>3 DEF RunningTasks
  <2> QED
    BY <2>2, <2>3 DEF Order!EndUnrun, RunningTasks
<1> QED
  BY <1>1, <1>4, <1>5, <1>6, <1>7, <1>8 DEF OrderInv, OrderStep, Order!Next

\* A worker that begins a task was not at work.
LEMMA BeginTaskMaps ==
  ASSUME IndInv, IndInv', OrderInv, NEW w \in Workers, BeginTask(w)
  PROVE  OrderInv' /\ OrderStep
<1> USE DEF IndInv, TypeOK
<1>0. PICK t \in Tasks : t = dbWorker[w].task
  BY WorkerHasIt DEF BeginTask
<1>1. /\ dbWorker[w].step = "begin"
      /\ dbWorker' = [dbWorker EXCEPT ![w].step = "work"]
      /\ status' = [status EXCEPT ![t] = "running"]
      /\ UNCHANGED <<handler, jobs, liveDependsOn, cancelling, jobHand, jobWorker,
                     dbHand, refused>>
  BY <1>0 DEF BeginTask, SetDbWorker
<1>2. /\ t \notin jobWorker.toSend
      /\ dbHand # t
      /\ jobHand # t
      /\ ~(jobWorker.step = "handle" /\ jobWorker.item = t)
      /\ \A v \in Workers : dbWorker[v].task = t => v = w
      /\ ~IsNew(t[1])
  BY <1>0, <1>1, WorkerHasIt
<1>3. Fresh(t) /\ GivenOut(t) /\ ~IsDone(t)
  BY <1>0, <1>1 DEF OrderInv, WayThereIsFresh, Fresh, GivenOut, IsDone, IsFailed
<1>4. /\ SentWaitsForNobody' /\ OffTheListIsDone' /\ NewIsFresh'
      /\ \A u \in Tasks \ {t} : PhaseOf(u)' = PhaseOf(u)
  <2>1. \A v \in Workers : dbWorker'[v].task = dbWorker[v].task
    BY <1>1
  <2>2. status' = [status EXCEPT ![t] = "running"] /\ ~IsNew(t[1])
    BY <1>1, <1>2
  <2>3. UNCHANGED <<handler, jobs, liveDependsOn, cancelling, jobHand, jobWorker, dbHand, refused>>
    BY <1>1
  <2> HIDE DEF IndInv, TypeOK
  <2> QED
    BY <1>3, <2>1, <2>2, <2>3, OneStatus
<1>5. WayThereIsFresh'
  BY <1>1, <1>2 DEF OrderInv, WayThereIsFresh, Fresh
<1>6. WayBackIsBack'
  BY <1>1, <1>2 DEF OrderInv, WayBackIsBack, Back, IsDone, IsFailed
<1>7. RunningIsAtWork'
  BY <1>0, <1>1, <1>2 DEF OrderInv, RunningIsAtWork
<1>8. Order!Run(t)
  <2>1. PhaseOf(t) = "given" /\ PhaseOf(t)' = "running"
    BY <1>1, <1>2, <1>3, Phases DEF Fresh
  <2>2. Order!Advance(t, {"given"}, "running")
    BY <1>2, <1>4, <2>1, Advances
  <2>3. RunningTasks' = RunningTasks \cup {t} /\ t \notin RunningTasks
    BY <1>1, <1>2, <1>3 DEF RunningTasks, Fresh
  <2>4. /\ IsFiniteSet(RunningTasks)
        /\ Cardinality(RunningTasks) < Cardinality(Workers)
    BY <1>1, RunningFits DEF OrderInv
  <2>5. Cardinality(RunningTasks') = Cardinality(RunningTasks) + 1
    BY <2>3, <2>4, FS_AddElement
  <2> QED
    BY <2>2, <2>4, <2>5 DEF Order!Run, RunningTasks
<1> QED
  BY <1>2, <1>4, <1>5, <1>6, <1>7, <1>8 DEF OrderInv, OrderStep, Order!Next

\* A worker ends the task it works at.
LEMMA FinishTaskMaps ==
  ASSUME IndInv, IndInv', OrderInv, NEW w \in Workers, FinishTask(w)
  PROVE  OrderInv' /\ OrderStep
<1> USE DEF IndInv, TypeOK
<1>0. PICK t \in Tasks : t = dbWorker[w].task
  BY WorkerHasIt DEF FinishTask
<1>1. PICK s \in {"completed", "failed"} : status' = [status EXCEPT ![t] = s]
  BY <1>0 DEF FinishTask
<1>2. /\ dbWorker[w].step = "work"
      /\ dbWorker' = [dbWorker EXCEPT ![w].step = "send"]
      /\ UNCHANGED <<handler, jobs, liveDependsOn, cancelling, jobHand, jobWorker,
                     dbHand, refused>>
  BY DEF FinishTask, SetDbWorker
<1>3. /\ t \notin jobWorker.toSend
      /\ dbHand # t
      /\ \A v \in Workers : dbWorker[v].task = t => v = w
      /\ ~IsNew(t[1])
  BY <1>0, <1>2, WorkerHasIt
<1>4. status[t] = "running" /\ GivenOut(t) /\ ~IsDone(t)
  BY <1>0, <1>2, <1>3 DEF OrderInv, RunningIsAtWork, GivenOut, IsDone, IsFailed
<1>5. /\ SentWaitsForNobody' /\ OffTheListIsDone' /\ NewIsFresh'
      /\ \A u \in Tasks \ {t} : PhaseOf(u)' = PhaseOf(u)
  <2>1. \A v \in Workers : dbWorker'[v].task = dbWorker[v].task
    BY <1>2
  <2>2. status' = [status EXCEPT ![t] = s] /\ ~IsNew(t[1])
    BY <1>1, <1>3
  <2>3. UNCHANGED <<handler, jobs, liveDependsOn, cancelling, jobHand, jobWorker, dbHand, refused>>
    BY <1>2
  <2> HIDE DEF IndInv, TypeOK
  <2> QED
    <3>1. GivenOut(t) /\ ~IsDone(t)
      BY <1>4
    <3> QED
      BY <2>1, <2>2, <2>3, <3>1, OneStatus
<1>6. WayThereIsFresh'
  BY <1>1, <1>2, <1>3 DEF OrderInv, WayThereIsFresh, Fresh
<1>7. WayBackIsBack'
  BY <1>0, <1>1, <1>2, <1>3 DEF OrderInv, WayBackIsBack, Back, IsDone, IsFailed
<1>8. RunningIsAtWork'
  BY <1>0, <1>1, <1>2, <1>3 DEF OrderInv, RunningIsAtWork
<1>9. Order!End(t)
  <2>1. PhaseOf(t) = "running" /\ PhaseOf(t)' = "ended"
    BY <1>1, <1>3, <1>4, Phases DEF IsDone, IsFailed
  <2>2. Order!Advance(t, {"running"}, "ended")
    BY <1>3, <1>5, <2>1, Advances
  <2>3. RunningTasks' = RunningTasks \ {t} /\ t \in RunningTasks
    BY <1>1, <1>3, <1>4 DEF RunningTasks
  <2>4. IsFiniteSet(RunningTasks)
    BY RunningFits DEF OrderInv
  <2>5. Cardinality(RunningTasks') = Cardinality(RunningTasks) - 1
    BY <2>3, <2>4, FS_RemoveElement
  <2> QED
    BY <2>2, <2>5 DEF Order!End, RunningTasks
<1> QED
  BY <1>3, <1>5, <1>6, <1>7, <1>8, <1>9 DEF OrderInv, OrderStep, Order!Next

\* Every step of the agent.
LEMMA StepMaps ==
  ASSUME IndInv, OrderInv, [Next]_vars
  PROVE  OrderInv' /\ OrderStep
<1>1. IndInv'
  BY StepKeeps
<1>2. ASSUME NEW j \in Jobs, HandlerNext(j) PROVE OrderInv' /\ OrderStep
  BY <1>1, <1>2, HandlerKeeps
<1>3. CASE JobWorkerNext
  BY <1>1, <1>3, JobWorkerStartMaps, AddJobMaps, ProcessDoneTaskMaps, CancelTaskMaps,
     DropTaskMaps, SendReadyTaskMaps, JobWorkerEndMaps DEF JobWorkerNext
<1>4. ASSUME NEW w \in Workers, DbWorkerNext(w) \/ DbConnectFails(w)
      PROVE  OrderInv' /\ OrderStep
  BY <1>1, <1>4, DbWorkerStartMaps, DbConnectMaps, RefusedMaps, BeginTaskMaps,
     FinishTaskMaps, ReturnTaskMaps DEF DbWorkerNext
<1> QED
  BY <1>1, <1>2, <1>3, <1>4, StandsStill DEF Next

-----------------------------------------------------------------------------
(* Theorem *)

\* job.go:66-92, task.go:59-106, job_handler.go, task_handler.go: whatever is
\* refused, fails or is cancelled, each task is given to a worker at most once
\* and only after the tasks it depends on have ended, at most as many run as
\* there are workers, and what has ended stays ended.
THEOREM AgentImplementsOrder == Spec => ImplementsTaskOrder
<1>1. Init => OrderInv
  <2> SUFFICES ASSUME Init PROVE OrderInv
    OBVIOUS
  <2>1. NoItem \notin Tasks
    BY ItemFacts
  <2> QED
    BY <2>1, ItemFacts DEF Init, OrderInv, WayThereIsFresh, WayBackIsBack, RunningIsAtWork,
       SentWaitsForNobody, OffTheListIsDone, NewIsFresh, Sent, Fresh, IdleJobWorker, IdleDbWorker
<1>2. Init => Order!Init
  <2> SUFFICES ASSUME Init PROVE Order!Init
    OBVIOUS
  <2>1. \A t \in Tasks : PhaseOf(t) = "waiting"
    BY ItemFacts DEF Init, PhaseOf, GivenOut, IsDone, IsFailed, IdleDbWorker
  <2>2. {t \in Tasks : status[t] = "running"} = {}
    BY DEF Init
  <2> QED
    BY <2>1, <2>2, FS_EmptySet DEF Order!Init
<1>3. IndInv /\ OrderInv /\ [Next]_vars => OrderInv' /\ [Order!Next]_(Order!orderVars)
  BY StepMaps DEF OrderStep
<1> QED
  BY <1>1, <1>2, <1>3, Invariance, PTL DEF Spec, ImplementsTaskOrder, Order!Spec

=============================================================================
