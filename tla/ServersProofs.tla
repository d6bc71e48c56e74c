---------------------------- MODULE ServersProofs ----------------------------
(***************************************************************************)
(* Theorems about the shutdown of the two programs, for any number of      *)
(* requests and of tasks.  The argument: a queue that is down is empty and *)
(* stays so, because what could fill it is in a server that was shut down  *)
(* before it.                                                              *)
(***************************************************************************)
EXTENDS Servers, FiniteSetTheorems, TLAPS

\* A job is with its worker, or one of its tasks is under way, only while it has
\* tasks left.
HasTask == \A j \in Jobs : at[j] \in {"worker", "tasks", "telling"} => left[j] > 0

\* A server that is down is idle.
DownIsIdle == \A x \in Servers : Down(x) => ~Busy(x)

Inv ==
  /\ TypeOK
  /\ HasTask
  /\ DownIsIdle
  /\ OnlyLatecomersLost

-----------------------------------------------------------------------------
\* Every server has a place in the order of its program.
LEMMA Ranks ==
  ASSUME NEW x \in Servers
  PROVE  Rank(x) \in 1..LastRank /\ ProgramOf(x) \in Programs
BY DEF Servers, Rank, LastRank, ProgramOf, Programs

\* The order, read off stage.
LEMMA DownBy ==
  ASSUME TypeOK
  PROVE  /\ Down("web") <=> stage["server"] > 1
         /\ Down("monitor") <=> stage["server"] > 2
         /\ Down("sources") <=> stage["server"] > 3
         /\ Down("grpc") <=> stage["server"] > 4
         /\ Closed("grpc") <=> stage["server"] >= 4
         /\ Closed("sources") <=> stage["server"] >= 3
         /\ Down("link") <=> stage["agent"] > 1
         /\ Down("jobs") <=> stage["agent"] > 2
         /\ Down("tasks") <=> stage["agent"] > 3
         /\ Down("statuses") <=> stage["agent"] > 4
         /\ Closed("jobs") <=> stage["agent"] >= 2
         /\ Closed("tasks") <=> stage["agent"] >= 3
         /\ Closed("statuses") <=> stage["agent"] >= 4
BY DEF Down, Closed, Rank, ProgramOf

\* What the state of a server says of the requests.
LEMMA BusyBy ==
  /\ Busy("web") <=> \E j \in Jobs : at[j] = "web"
  /\ Busy("monitor") <=> \E j \in Jobs : at[j] = "monitor"
  /\ Busy("sources") <=> \E j \in Jobs : at[j] \in {"sources", "asking"}
  /\ Busy("grpc") <=> stream # "none" \/ call = "served"
  /\ Busy("link") <=> link # "out"
  /\ Busy("jobs") <=> \E j \in Jobs : at[j] \in {"jobs", "worker"}
  /\ Busy("tasks") <=> \E j \in Jobs : at[j] \in {"tasks", "telling", "returning"}
  /\ Busy("statuses") <=> news # {}
BY DEF Busy

\* DownIsIdle, spelled out.
LEMMA Idle ==
  ASSUME TypeOK
  PROVE  DownIsIdle <=>
           /\ stage["server"] > 1 => \A j \in Jobs : at[j] # "web"
           /\ stage["server"] > 2 => \A j \in Jobs : at[j] # "monitor"
           /\ stage["server"] > 3 => \A j \in Jobs : at[j] \notin {"sources", "asking"}
           /\ stage["server"] > 4 => stream = "none" /\ call # "served"
           /\ stage["agent"] > 1 => link = "out"
           /\ stage["agent"] > 2 => \A j \in Jobs : at[j] \notin {"jobs", "worker"}
           /\ stage["agent"] > 3 => \A j \in Jobs : at[j] \notin {"tasks", "telling", "returning"}
           /\ stage["agent"] > 4 => news = {}
<1>1. DownIsIdle <=> /\ Down("web") => ~Busy("web")
                     /\ Down("monitor") => ~Busy("monitor")
                     /\ Down("sources") => ~Busy("sources")
                     /\ Down("grpc") => ~Busy("grpc")
                     /\ Down("link") => ~Busy("link")
                     /\ Down("jobs") => ~Busy("jobs")
                     /\ Down("tasks") => ~Busy("tasks")
                     /\ Down("statuses") => ~Busy("statuses")
  BY DEF DownIsIdle, Servers
<1> QED BY <1>1, DownBy, BusyBy

-----------------------------------------------------------------------------
(* The steps.  IdleParts is DownIsIdle as Idle spells it out. *)

IdleParts ==
  /\ stage["server"] > 1 => \A j \in Jobs : at[j] # "web"
  /\ stage["server"] > 2 => \A j \in Jobs : at[j] # "monitor"
  /\ stage["server"] > 3 => \A j \in Jobs : at[j] \notin {"sources", "asking"}
  /\ stage["server"] > 4 => stream = "none" /\ call # "served"
  /\ stage["agent"] > 1 => link = "out"
  /\ stage["agent"] > 2 => \A j \in Jobs : at[j] \notin {"jobs", "worker"}
  /\ stage["agent"] > 3 => \A j \in Jobs : at[j] \notin {"tasks", "telling", "returning"}
  /\ stage["agent"] > 4 => news = {}

Core == TypeOK /\ HasTask /\ IdleParts /\ OnlyLatecomersLost

LEMMA CoreIsInv == Core <=> Inv
BY Idle DEF Core, Inv, IdleParts

LEMMA InitCore == Init => Core
BY TasksAssumption DEF Init, Core, TypeOK, HasTask, IdleParts, OnlyLatecomersLost, Programs, Place,
   LastRank

\* A step of a server's shutdown finds it idle.
LEMMA ShutdownStep ==
  ASSUME Core, NEW p \in Programs, ShutdownNext(p)
  PROVE  Core'
<1> USE DEF Core, Programs
<1>1. TypeOK'
  <2>1. /\ stage[p] \in 0..LastRank /\ quit[p]
        /\ stage' = [stage EXCEPT ![p] = @ + 1]
        /\ UNCHANGED <<quit, left, news, call, link, stream, lost>>
    BY DEF ShutdownNext, TypeOK, Over, LastRank, statusVars, streamVars
  <2>2. at' \in [Jobs -> Place]
    BY DEF ShutdownNext, TypeOK, Place
  <2> QED BY <2>1, <2>2 DEF TypeOK, LastRank
<1>2. HasTask'
  BY DEF ShutdownNext, TypeOK, HasTask, Place
<1>3. OnlyLatecomersLost'
  BY DEF ShutdownNext, OnlyLatecomersLost
<1>4. \A j \in Jobs : at'[j] = at[j] \/ at'[j] = "gone"
  BY DEF ShutdownNext, TypeOK
<1>5. CASE p = "server"
  <2>1. /\ stage["server"] = 1 => ~Busy("web")
        /\ stage["server"] = 2 => ~Busy("monitor")
        /\ stage["server"] = 3 => ~Busy("sources")
        /\ stage["server"] = 4 => ~Busy("grpc")
    BY <1>5 DEF ShutdownNext, Servers, Rank, ProgramOf
  <2>2. /\ stage'["server"] = stage["server"] + 1
        /\ stage'["agent"] = stage["agent"]
        /\ stage["server"] \in 0..(LastRank + 1)
    BY <1>5 DEF ShutdownNext, TypeOK
  <2>3. UNCHANGED <<news, call, link, stream>>
    BY DEF ShutdownNext, statusVars, streamVars
  <2>4. IdleParts'
    BY <1>4, <2>1, <2>2, <2>3, BusyBy DEF IdleParts, LastRank
  <2> QED BY <1>1, <1>2, <1>3, <2>4
<1>6. CASE p = "agent"
  <2>1. /\ stage["agent"] = 1 => ~Busy("link")
        /\ stage["agent"] = 2 => ~Busy("jobs")
        /\ stage["agent"] = 3 => ~Busy("tasks")
        /\ stage["agent"] = 4 => ~Busy("statuses")
    BY <1>6 DEF ShutdownNext, Servers, Rank, ProgramOf
  <2>2. /\ stage'["agent"] = stage["agent"] + 1
        /\ stage'["server"] = stage["server"]
        /\ stage["agent"] \in 0..(LastRank + 1)
    BY <1>6 DEF ShutdownNext, TypeOK
  <2>3. UNCHANGED <<news, call, link, stream>>
    BY DEF ShutdownNext, statusVars, streamVars
  <2>4. IdleParts'
    BY <1>4, <2>1, <2>2, <2>3, BusyBy DEF IdleParts, LastRank
  <2> QED BY <1>1, <1>2, <1>3, <2>4
<1> QED BY <1>5, <1>6

\* A step of a request moves it into a queue that is not down, or out of them all.
LEMMA JobStep ==
  ASSUME Core, NEW j \in Jobs, JobNext(j)
  PROVE  Core'
<1>a. /\ Down("sources") <=> stage["server"] > 3
      /\ Down("jobs") <=> stage["agent"] > 2
      /\ Down("tasks") <=> stage["agent"] > 3
      /\ Down("statuses") <=> stage["agent"] > 4
      /\ Closed("tasks") => stage["agent"] > 2
      /\ Closed("statuses") => stage["agent"] > 3
      /\ stage \in [Programs -> 0..(LastRank + 1)]
      /\ stage["agent"] \in Nat /\ stage["server"] \in Nat
  BY DownBy DEF Core, TypeOK, LastRank, Programs
<1> USE DEF Core, jobVars, statusVars, streamVars
<1>b. ASSUME UNCHANGED <<quit, stage, statusVars, streamVars>>,
             left' \in [Jobs -> 0..Tasks],
             NEW there \in Place, at' = [at EXCEPT ![j] = there],
             lost' \subseteq {"source", "job", "result"}
      PROVE  TypeOK'
  BY <1>b DEF TypeOK, Place
<1>c. ASSUME UNCHANGED <<stage, statusVars, streamVars>>,
             NEW there, at' = [at EXCEPT ![j] = there],
             there \in {"web", "monitor"} => FALSE,
             there \in {"sources", "asking"} => stage["server"] <= 3,
             there \in {"jobs", "worker"} => stage["agent"] <= 2,
             there \in {"tasks", "telling", "returning"} => stage["agent"] <= 3
      PROVE  IdleParts'
  BY <1>a, <1>c DEF IdleParts, TypeOK
<1>d. ASSUME left' = left, NEW there, at' = [at EXCEPT ![j] = there],
             there \in {"worker", "tasks", "telling"} => left[j] > 0
      PROVE  HasTask'
  BY <1>d DEF HasTask, TypeOK
<1>1. CASE AddDatabaseSource(j)
  <2>1. PICK there \in Place : /\ at' = [at EXCEPT ![j] = there]
                              /\ there = "offered"
    BY <1>1 DEF AddDatabaseSource, Place, TypeOK
  <2>2. /\ UNCHANGED <<quit, stage, left, statusVars, streamVars, lost>>
        /\ at[j] \in {"web", "monitor"}
    BY <1>1 DEF AddDatabaseSource
  <2>3. TypeOK'
    BY <1>b, <2>1, <2>2 DEF TypeOK, OnlyLatecomersLost
  <2>4. IdleParts'
    BY <1>a, <1>c, <2>1, <2>2 DEF IdleParts
  <2>5. HasTask'
    BY <1>d, <2>1, <2>2 DEF HasTask, TypeOK
  <2> QED BY <2>2, <2>3, <2>4, <2>5 DEF OnlyLatecomersLost
<1>2. CASE OfferSource(j)
  <2>1. PICK there \in Place : /\ at' = [at EXCEPT ![j] = there]
                              /\ there \in {"sources", "gone"} /\ (there = "sources" => ~Down("sources"))
    BY <1>2 DEF OfferSource, Send, Place
  <2>2. /\ UNCHANGED <<quit, stage, left, statusVars, streamVars>>
        /\ at[j] = "offered"
        /\ lost' = lost \/ (Closed("sources") /\ lost' = lost \cup {"source"})
    BY <1>2 DEF OfferSource, Send
  <2>3. OnlyLatecomersLost'
    BY <1>a, <2>2 DEF OnlyLatecomersLost, IdleParts
  <2>4. TypeOK'
    BY <1>b, <2>1, <2>2, <2>3 DEF TypeOK, OnlyLatecomersLost
  <2>5. IdleParts'
    BY <1>a, <1>c, <2>1, <2>2 DEF IdleParts
  <2>6. HasTask'
    BY <1>d, <2>1, <2>2 DEF HasTask
  <2> QED BY <2>3, <2>4, <2>5, <2>6
<1>3. CASE CreateDb(j)
  <2>1. PICK there \in Place : /\ at' = [at EXCEPT ![j] = there]
                              /\ there \in {"asking", "pending"}
    BY <1>3 DEF CreateDb, Place, TypeOK
  <2>2. /\ UNCHANGED <<quit, stage, left, statusVars, streamVars, lost>>
        /\ at[j] = "sources"
    BY <1>3 DEF CreateDb
  <2>3. TypeOK'
    BY <1>b, <2>1, <2>2 DEF TypeOK, OnlyLatecomersLost
  <2>4. IdleParts'
    BY <1>a, <1>c, <2>1, <2>2 DEF IdleParts
  <2>5. HasTask'
    BY <1>d, <2>1, <2>2 DEF HasTask, TypeOK
  <2> QED BY <2>2, <2>3, <2>4, <2>5 DEF OnlyLatecomersLost
<1>4. CASE TakeJob(j)
  <2>1. PICK there \in Place : /\ at' = [at EXCEPT ![j] = there]
                              /\ there = "sent"
    BY <1>4 DEF TakeJob, Place, TypeOK
  <2>2. /\ UNCHANGED <<quit, stage, left, statusVars, streamVars, lost>>
        /\ at[j] = "asking"
    BY <1>4 DEF TakeJob
  <2>3. TypeOK'
    BY <1>b, <2>1, <2>2 DEF TypeOK, OnlyLatecomersLost
  <2>4. IdleParts'
    BY <1>a, <1>c, <2>1, <2>2 DEF IdleParts
  <2>5. HasTask'
    BY <1>d, <2>1, <2>2 DEF HasTask, TypeOK
  <2> QED BY <2>2, <2>3, <2>4, <2>5 DEF OnlyLatecomersLost
<1>5. CASE Receive(j)
  <2>1. PICK there \in Place : /\ at' = [at EXCEPT ![j] = there]
                              /\ there \in {"handler", "gone"}
    BY <1>5 DEF Receive, Place, TypeOK
  <2>2. /\ UNCHANGED <<quit, stage, left, statusVars, streamVars, lost>>
        /\ at[j] = "sent"
    BY <1>5 DEF Receive
  <2>3. TypeOK'
    BY <1>b, <2>1, <2>2 DEF TypeOK, OnlyLatecomersLost
  <2>4. IdleParts'
    BY <1>a, <1>c, <2>1, <2>2 DEF IdleParts
  <2>5. HasTask'
    BY <1>d, <2>1, <2>2 DEF HasTask, TypeOK
  <2> QED BY <2>2, <2>3, <2>4, <2>5 DEF OnlyLatecomersLost
<1>6. CASE SendJob(j)
  <2>1. PICK there \in Place : /\ at' = [at EXCEPT ![j] = there]
                              /\ there \in {"jobs", "gone"} /\ (there = "jobs" => ~Down("jobs"))
    BY <1>6 DEF SendJob, Send, Place
  <2>2. /\ UNCHANGED <<quit, stage, left, statusVars, streamVars>>
        /\ at[j] = "handler"
        /\ lost' = lost \/ (Closed("jobs") /\ lost' = lost \cup {"job"})
    BY <1>6 DEF SendJob, Send
  <2>3. OnlyLatecomersLost'
    BY <1>a, <2>2 DEF OnlyLatecomersLost, IdleParts
  <2>4. TypeOK'
    BY <1>b, <2>1, <2>2, <2>3 DEF TypeOK, OnlyLatecomersLost
  <2>5. IdleParts'
    BY <1>a, <1>c, <2>1, <2>2 DEF IdleParts
  <2>6. HasTask'
    BY <1>d, <2>1, <2>2 DEF HasTask
  <2> QED BY <2>3, <2>4, <2>5, <2>6
<1>7. CASE StartJob(j)
  <2>1. PICK there \in Place : /\ at' = [at EXCEPT ![j] = there]
                              /\ there \in {"worker", "done"} /\ (there = "worker" => left[j] # 0)
    BY <1>7 DEF StartJob, Place, TypeOK
  <2>2. /\ UNCHANGED <<quit, stage, left, statusVars, streamVars, lost>>
        /\ at[j] = "jobs"
    BY <1>7 DEF StartJob
  <2>3. TypeOK'
    BY <1>b, <2>1, <2>2 DEF TypeOK, OnlyLatecomersLost
  <2>4. IdleParts'
    BY <1>a, <1>c, <2>1, <2>2 DEF IdleParts
  <2>5. HasTask'
    BY <1>d, <2>1, <2>2, TasksAssumption DEF HasTask, TypeOK
  <2> QED BY <2>2, <2>3, <2>4, <2>5 DEF OnlyLatecomersLost
<1>8. CASE SendTask(j)
  <2>1. PICK there \in Place : /\ at' = [at EXCEPT ![j] = there]
                              /\ there \in {"tasks", "gone"} /\ (there = "tasks" => ~Down("tasks"))
    BY <1>8 DEF SendTask, Send, Place
  <2>2. /\ UNCHANGED <<quit, stage, left, statusVars, streamVars>>
        /\ at[j] = "worker"
        /\ lost' = lost \/ (Closed("tasks") /\ lost' = lost \cup {"task"})
    BY <1>8 DEF SendTask, Send
  <2>3. OnlyLatecomersLost'
    BY <1>a, <2>2 DEF OnlyLatecomersLost, IdleParts
  <2>4. TypeOK'
    BY <1>b, <2>1, <2>2, <2>3 DEF TypeOK, OnlyLatecomersLost
  <2>5. IdleParts'
    BY <1>a, <1>c, <2>1, <2>2 DEF IdleParts
  <2>6. HasTask'
    BY <1>d, <2>1, <2>2 DEF HasTask
  <2> QED BY <2>3, <2>4, <2>5, <2>6
<1>9. CASE RunTask(j)
  <2>1. PICK there \in Place : /\ at' = [at EXCEPT ![j] = there]
                              /\ there = "telling"
    BY <1>9 DEF RunTask, Place, TypeOK
  <2>2. /\ UNCHANGED <<quit, stage, left, statusVars, streamVars, lost>>
        /\ at[j] = "tasks"
    BY <1>9 DEF RunTask
  <2>3. TypeOK'
    BY <1>b, <2>1, <2>2 DEF TypeOK, OnlyLatecomersLost
  <2>4. IdleParts'
    BY <1>a, <1>c, <2>1, <2>2 DEF IdleParts
  <2>5. HasTask'
    BY <1>d, <2>1, <2>2 DEF HasTask, TypeOK
  <2> QED BY <2>2, <2>3, <2>4, <2>5 DEF OnlyLatecomersLost
<1>10. CASE SendStatus(j)
  <2>1. /\ at[j] = "telling" /\ left[j] \in 1..Tasks
        /\ at' = [at EXCEPT ![j] = "returning"]
        /\ left' = [left EXCEPT ![j] = @ - 1]
        /\ UNCHANGED <<quit, stage, call, streamVars>>
    BY <1>10, TasksAssumption DEF SendStatus, HasTask, TypeOK
  <2>2. ~Closed("statuses")
    BY <1>a, <2>1 DEF IdleParts
  <2>3. /\ news' = news \cup {<<j, left[j]>>}
        /\ stage["agent"] <= 3
        /\ lost' = lost
    BY <1>10, <1>a, <2>1, <2>2 DEF SendStatus, IdleParts
  <2>4. TypeOK'
    BY <2>1, <2>3, TasksAssumption DEF TypeOK, Place
  <2>5. IdleParts'
    BY <2>1, <2>3, <1>a DEF IdleParts, TypeOK
  <2>6. HasTask'
    BY <2>1 DEF HasTask, TypeOK
  <2> QED BY <2>3, <2>4, <2>5, <2>6 DEF OnlyLatecomersLost
<1>11. CASE ReturnTask(j)
  <2>1. PICK there \in Place : /\ at' = [at EXCEPT ![j] = there]
                              /\ there \in {"jobs", "gone"} /\ (there = "jobs" => ~Down("jobs"))
    BY <1>11 DEF ReturnTask, Send, Place
  <2>2. /\ UNCHANGED <<quit, stage, left, statusVars, streamVars>>
        /\ at[j] = "returning"
        /\ lost' = lost \/ (Closed("jobs") /\ lost' = lost \cup {"result"})
    BY <1>11 DEF ReturnTask, Send
  <2>3. OnlyLatecomersLost'
    BY <1>a, <2>2 DEF OnlyLatecomersLost, IdleParts
  <2>4. TypeOK'
    BY <1>b, <2>1, <2>2, <2>3 DEF TypeOK, OnlyLatecomersLost
  <2>5. IdleParts'
    BY <1>a, <1>c, <2>1, <2>2 DEF IdleParts
  <2>6. HasTask'
    BY <1>d, <2>1, <2>2 DEF HasTask
  <2> QED BY <2>3, <2>4, <2>5, <2>6
<1> QED BY <1>1, <1>2, <1>3, <1>4, <1>5, <1>6, <1>7, <1>8, <1>9, <1>10, <1>11 DEF JobNext

\* The other steps start what a server that is down does not take, or end it.
LEMMA OtherStep ==
  ASSUME Core,
         \/ \E p \in Programs : Signal(p)
         \/ \E j \in Jobs : \E front \in {"web", "monitor"} : Ask(j, front)
         \/ Serve \/ StreamDone \/ Register \/ Break \/ LinkEnds
         \/ StartCall \/ CallArrives \/ CallNext
  PROVE  Core'
<1> USE DownBy DEF Core, TypeOK, HasTask, IdleParts, OnlyLatecomersLost, Programs, Place, LastRank,
       jobVars, statusVars, streamVars
<1>1. ASSUME NEW p \in Programs, Signal(p) PROVE Core'
  BY <1>1 DEF Signal
<1>2. ASSUME NEW j \in Jobs, NEW front \in {"web", "monitor"}, Ask(j, front) PROVE Core'
  BY <1>2 DEF Ask, Closed, Rank, ProgramOf
<1>3. CASE Serve
  BY <1>3 DEF Serve
<1>4. CASE StreamDone
  BY <1>4 DEF StreamDone
<1>5. CASE Register
  BY <1>5 DEF Register
<1>6. CASE Break
  BY <1>6 DEF Break
<1>7. CASE LinkEnds
  BY <1>7 DEF LinkEnds
<1>8. CASE StartCall
  BY <1>8 DEF StartCall
<1>9. CASE CallArrives
  BY <1>9 DEF CallArrives
<1>10. CASE CallFails
  BY <1>10 DEF CallFails
<1>11. CASE CallReturns
  BY <1>11 DEF CallReturns
<1> QED BY <1>1, <1>2, <1>3, <1>4, <1>5, <1>6, <1>7, <1>8, <1>9, <1>10, <1>11 DEF CallNext

LEMMA StutterCore ==
  ASSUME Core, UNCHANGED vars
  PROVE  Core'
BY DEF Core, TypeOK, HasTask, IdleParts, OnlyLatecomersLost, vars, jobVars, statusVars, streamVars

\* The inductive invariant.
THEOREM Invariance == Spec => []Inv
<1>1. Init => Core
  BY InitCore
<1>2. Core /\ [Next]_vars => Core'
  BY ShutdownStep, JobStep, OtherStep, StutterCore DEF Next
<1>3. Spec => []Core
  BY <1>1, <1>2, PTL DEF Spec
<1> QED BY <1>3, CoreIsInv, PTL

-----------------------------------------------------------------------------
\* Types, with the two facts that hold a call to a status and a shutdown to a signal.
THEOREM TypeCorrect == Spec => []TypeOK
<1>1. Inv => TypeOK
  BY DEF Inv
<1> QED BY <1>1, Invariance, PTL

\* server.go, agent.go, consumer.go:72-77: however many requests are under way when
\* the programs are told to stop, a process ends only with its queues empty.
THEOREM NothingIsCutOff == Spec => []NothingCutOff
<1>1. Inv => NothingCutOff
  <2> SUFFICES ASSUME Inv PROVE NothingCutOff
    OBVIOUS
  <2>1. ASSUME NEW x \in Servers, Over(ProgramOf(x)) PROVE ~Busy(x)
    <3>1. Rank(x) \in 1..4 /\ stage[ProgramOf(x)] \in 0..5 /\ stage[ProgramOf(x)] > 4
      BY <2>1, Ranks DEF Inv, TypeOK, Over, LastRank
    <3>2. Down(x)
      BY <3>1 DEF Down
    <3> QED BY <3>2 DEF Inv, DownIsIdle
  <2>2. \A x \in {"link", "jobs", "tasks", "statuses"} : x \in Servers /\ ProgramOf(x) = "agent"
    BY DEF Servers, ProgramOf
  <2>3. \A x \in {"web", "monitor", "sources", "grpc"} : x \in Servers /\ ProgramOf(x) = "server"
    BY DEF Servers, ProgramOf
  <2> QED BY <2>1, <2>2, <2>3 DEF NothingCutOff
<1> QED BY <1>1, Invariance, PTL

\* agent.go:36-42: the order in which the agent shuts its queues down loses neither a
\* task nor a status.
THEOREM LatecomersLost == Spec => []OnlyLatecomersLost
<1>1. Inv => OnlyLatecomersLost
  BY DEF Inv
<1> QED BY <1>1, Invariance, PTL

=============================================================================
