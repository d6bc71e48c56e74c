------------------------------- MODULE Source -------------------------------
(***************************************************************************)
(* The source handler of the server (src/internal/source/handler.go): the  *)
(* databases that files and web requests ask for, the workers of the       *)
(* "Source Manager" queue that ask the instance manager to create them,    *)
(* the timers of retries and of the delayed idling, and the callbacks by   *)
(* which the manager reports databases and instances.                      *)
(*                                                                         *)
(* databasesMutex guards the map and the callbacks, but not Handle: a      *)
(* worker looks at the database, then writes the state of its source in    *)
(* further steps, and callbacks pass it in between.  Each action is what   *)
(* one goroutine does without another one seeing it half done; the fields  *)
(* of one source that are assigned next to each other change together.     *)
(*                                                                         *)
(* A member of Sources is one DatabaseSource object; loading the same      *)
(* configuration again makes an object that is skipped.  Sending to the    *)
(* cron server and to the agent is immediate: CronServer and DbInstance    *)
(* model how those calls may wait.  The agent is the environment: it       *)
(* starts, ends or ignores what it is asked for (AgentDb).                 *)
(***************************************************************************)
EXTENDS Naturals

CONSTANTS
  Sources,     \* the DatabaseSource objects of a run
  Names,       \* database names
  Instances,   \* PostgreSQL instances
  Paths,       \* watched files
  Workers,     \* workers of the source queue
  NameOf,      \* name, instance, MigrateFrom and BackupPath of each
  InstanceOf,
  FromOf,
  BackupOf,
  None,        \* no source, name or instance
  MaxTimers,   \* bound: timers pending for one name
  MaxWaiting,  \* bound: goroutines of one kind that wait for one thing
  MaxOutages   \* bound: how often an instance goes offline

ASSUME ConfigAssumption ==
  /\ NameOf \in [Sources -> Names]
  /\ InstanceOf \in [Sources -> Instances]
  /\ FromOf \in [Sources -> Instances \cup {None}]
ASSUME NoneAssumption == None \notin Sources \cup Names \cup Instances
ASSUME BoundAssumption == MaxTimers \in Nat /\ MaxWaiting \in Nat \ {0} /\ MaxOutages \in Nat

VARIABLES
  known,      \* BaseSourceHandler.Databases
  src,        \* State, ExpectState and NextScheduleAt of each source
  fileName,   \* FileSourceHandler.sourceMap
  sends,      \* goroutines that wait to send each source to the queue
  worker,     \* where each worker is
  timers,     \* elements of the cron server
  wasOnline,  \* BaseSourceHandler.Instances; one that is not there counts as offline
  scans,      \* goroutines of handleDatabasesOnInstanceOnline
  online,     \* DbInstance.Online
  outages,    \* how often instances went offline, for the bound
  announces,  \* InstanceStatusSubscriber.OnStatusChanged calls to come
  db,         \* the databases as the server knows them
  notices,    \* goroutines of DbStatusSubscriber.OnStatusChanged
  job,        \* what the agent is asked to do with each database
  followUps,  \* sources to be created when their old database is idle
  parked,     \* history: sources whose last handling leaves nothing to follow
  overtaken   \* history: sources a callback passed while a worker had them

handlerVars == <<known, src, sends, timers>>
statusVars  == <<db, notices, job, followUps>>
onlineVars  == <<wasOnline, scans, online, outages, announces>>
history     == <<parked, overtaken>>
vars == <<handlerVars, fileName, worker, statusVars, onlineVars, history>>

SourceStates == {"Unknown", "Pending", "Scheduling", "Processing", "Idle", "Ready"}
DbStatuses   == {"absent", "none", "working", "failed", "ready", "leaving", "idle"}
WorkerSteps  == {"idle", "look", "sync", "process", "password", "create", "offline", "failed"}

Times  == 1..MaxTimers
NoTime == 0

TypeOK ==
  /\ known \in [Names -> Sources \cup {None}]
  /\ src \in [Sources -> [state : SourceStates, expect : {"unset", "Ready", "Idle"},
                          next : Times \cup {NoTime}]]
  /\ fileName \in [Paths -> Names \cup {None}]
  /\ sends \in [Sources -> 0..MaxWaiting]
  /\ worker \in [Workers -> [at : WorkerSteps, of : Sources \cup {None}, saw : DbStatuses]]
  /\ timers \subseteq [name : Names, at : Times, kind : {"retry", "idle"}]
  /\ wasOnline \in [Instances -> BOOLEAN]
  /\ scans \subseteq [of : Instances, saw : [Names -> DbStatuses]]
  /\ online \in [Instances -> BOOLEAN]
  /\ outages \in 0..MaxOutages
  /\ announces \in [Instances -> 0..MaxWaiting]
  /\ db \in [Instances -> [Names -> DbStatuses]]
  /\ notices \in [Instances -> [Names -> 0..MaxWaiting]]
  /\ job \in [Instances -> [Names -> {"none", "create", "leave", "ignored"}]]
  /\ followUps \subseteq Sources
  /\ parked \subseteq Sources
  /\ overtaken \subseteq Sources

NoWork == [at |-> "idle", of |-> None, saw |-> "absent"]

Init ==
  /\ known = [n \in Names |-> None]
  /\ src = [s \in Sources |-> [state |-> "Unknown", expect |-> "unset", next |-> NoTime]]
  /\ fileName = [p \in Paths |-> None]
  /\ sends = [s \in Sources |-> 0]
  /\ worker = [w \in Workers |-> NoWork]
  /\ timers = {}
  /\ wasOnline = [i \in Instances |-> FALSE]
  /\ scans = {}
  /\ online = [i \in Instances |-> FALSE]
  /\ outages = 0
  /\ announces = [i \in Instances |-> 0]
  /\ db = [i \in Instances |-> [n \in Names |-> "absent"]]
  /\ notices = [i \in Instances |-> [n \in Names |-> 0]]
  /\ job = [i \in Instances |-> [n \in Names |-> "none"]]
  /\ followUps = {}
  /\ parked = {}
  /\ overtaken = {}

-----------------------------------------------------------------------------
Current(s) == known[NameOf[s]] = s
Synced(c) == c.state = c.expect

More(counts, x) == [counts EXCEPT ![x] = @ + 1]
Fewer(counts, x) == [counts EXCEPT ![x] = @ - 1]
Room(n) == n < MaxWaiting

-----------------------------------------------------------------------------
(* Slips of the code below, each one refuted by a property *)

\* Only a source that was just handled learns that its database is ready.
ReachesIfProcessing(c, status) == status = "ready" /\ c.expect = "Ready" /\ c.state = "Processing"

\* The retry time outlives the success.
ReachedKeepsTime(c) == [c EXCEPT !.state = c.expect]

\* The retry leaves NextScheduleAt, or the state Failed, as it was.
RetriedUntimed(c, t) == [c EXCEPT !.state = "Scheduling"]
RetriedFailed(c, t) == [c EXCEPT !.state = "Failed", !.next = t]

\* The status of any instance is taken for that of the source's own.
HearersAnywhere(i, n) == {s \in Sources : Current(s) /\ NameOf[s] = n}

-----------------------------------------------------------------------------
(* One source: database_source.go *)

\* The stage of a status, as far as a source may expect it.  An agent that
\* has begun to migrate a database out reports the stage Idle already.
Stage(status) ==
  CASE status = "ready" -> "Ready"
    [] status \in {"leaving", "idle"} -> "Idle"
    [] OTHER -> "other"

Reaches(c, status) == Stage(status) = c.expect /\ ~Synced(c)
Fails(c, status) == status = "failed" /\ c.state = "Processing"

\* The source after ResetRetryDelay and with a retry at time t.
Reached(c) == [state |-> c.expect, expect |-> c.expect, next |-> NoTime]
Retried(c, t) == [state |-> "Scheduling", expect |-> c.expect, next |-> t]

\* time.Now().Add(...): a time no timer of the name is set to.  Once its timer
\* has fired, a time is as good as none.
FreeTimes(n) == {t \in Times : \A e \in timers : e.name = n => e.at # t}
NewTime(n) == CHOOSE t \in FreeTimes(n) : TRUE

RetryAt(s) == [name |-> NameOf[s], at |-> NewTime(NameOf[s]), kind |-> "retry"]

\* updateDbStatus of each source in DOMAIN told, with the status its database
\* has at the instance of the source.
UpdateDbStatus(told) ==
  LET failing == {s \in DOMAIN told : ~Reaches(src[s], told[s]) /\ Fails(src[s], told[s])}
  IN  /\ \A s \in failing : FreeTimes(NameOf[s]) # {}
      /\ src' = [s \in Sources |->
                   IF s \in failing THEN Retried(src[s], NewTime(NameOf[s]))
                   ELSE IF s \in DOMAIN told /\ Reaches(src[s], told[s]) THEN Reached(src[s])
                   ELSE src[s]]
      /\ timers' = timers \cup {RetryAt(s) : s \in failing}

\* Sources with a worker that looked at their database and goes by that.
InHand == {worker[w].of : w \in {v \in Workers : worker[v].at \notin {"idle", "look"}}}

-----------------------------------------------------------------------------
(* What files and web requests ask for *)

\* IsConfigChanged
SameConfig(s, r) ==
  <<InstanceOf[s], FromOf[s], BackupOf[s]>> = <<InstanceOf[r], FromOf[r], BackupOf[r]>>

\* A new object, or one like the source that is there, which is skipped.
AddDatabaseSource(s) ==
  LET old == known[NameOf[s]]
  IN  \/ /\ old # None /\ SameConfig(s, old)
         /\ UNCHANGED <<handlerVars, statusVars, onlineVars, worker, history>>
      \/ /\ old # None => ~SameConfig(s, old)
         /\ src[s].expect = "unset"
         /\ known' = [known EXCEPT ![NameOf[s]] = s]
         /\ src' = [src EXCEPT ![s].expect = "Ready"]
         /\ sends' = More(sends, s)
         /\ parked' = parked \ {old}
         /\ overtaken' = overtaken \ {old}
         /\ UNCHANGED <<timers, statusVars, onlineVars, worker>>

\* The source is idled after Config.DeleyDelete.
MarkDatabaseSourceIdle(n) ==
  LET s == known[n]
  IN  \/ /\ s # None => src[s].expect = "Idle"
         /\ UNCHANGED <<handlerVars, worker, statusVars, onlineVars, history>>
      \/ /\ s # None /\ src[s].expect # "Idle"
         /\ FreeTimes(n) # {}
         /\ src' = [src EXCEPT ![s] = [state |-> "Scheduling", expect |-> "Idle",
                                       next |-> NewTime(n)]]
         /\ timers' = timers \cup {[name |-> n, at |-> NewTime(n), kind |-> "idle"]}
         /\ UNCHANGED <<known, sends, worker, statusVars, onlineVars, history>>

WebCreate(s) == AddDatabaseSource(s) /\ UNCHANGED fileName

\* The path stands for the name even if the request does not validate.
FileWritten(p, s) ==
  /\ fileName' = [fileName EXCEPT ![p] = NameOf[s]]
  /\ \/ AddDatabaseSource(s)
     \/ UNCHANGED <<handlerVars, statusVars, onlineVars, worker, history>>

FileRemoved(p) ==
  /\ fileName[p] # None
  /\ fileName' = [fileName EXCEPT ![p] = None]
  /\ MarkDatabaseSourceIdle(fileName[p])

-----------------------------------------------------------------------------
(* Handle: a worker of the source queue *)

Of(w) == worker[w].of
Goto(w, step) == worker' = [worker EXCEPT ![w] = [at |-> step, of |-> Of(w), saw |-> "absent"]]
Return(w) == worker' = [worker EXCEPT ![w] = NoWork]
Holders(s) == {w \in Workers : worker[w].at # "idle" /\ Of(w) = s}

\* The handling starts afresh unless another worker has the source, too.
Take(w, s) ==
  /\ worker[w].at = "idle"
  /\ sends[s] > 0
  /\ sends' = Fewer(sends, s)
  /\ worker' = [worker EXCEPT ![w] = [at |-> "look", of |-> s, saw |-> "absent"]]
  /\ parked' = parked \ {s}
  /\ overtaken' = IF Holders(s) = {} THEN overtaken \ {s} ELSE overtaken
  /\ UNCHANGED <<known, src, timers, fileName, statusVars, onlineVars>>

\* GetDbStatus; an unknown database is an error.
LookUp(w) ==
  LET s == Of(w)
  IN  /\ worker[w].at = "look"
      /\ worker' = [worker EXCEPT ![w] = [at |-> "sync", of |-> s,
                                          saw |-> db[InstanceOf[s]][NameOf[s]]]]
      /\ UNCHANGED <<handlerVars, fileName, statusVars, onlineVars, history>>

Told(s, status) == [r \in {s} |-> status]

\* The rest of syncDatabaseSource; without a status a source is not synced,
\* whatever its state.
Sync(w) ==
  LET s == Of(w)
      saw == worker[w].saw
  IN  /\ worker[w].at = "sync"
      /\ IF saw = "absent" THEN UNCHANGED <<src, timers>> ELSE UpdateDbStatus(Told(s, saw))
      /\ IF saw # "absent" /\ Synced(src'[s]) THEN Return(w) ELSE Goto(w, "process")
      /\ overtaken' = IF Holders(s) = {w} \/ ~Current(s) THEN overtaken ELSE overtaken \cup {s}
      /\ UNCHANGED <<known, sends, fileName, statusVars, onlineVars, parked>>

\* State = Processing; idling itself is still to be written.
Process(w) ==
  LET s == Of(w)
      idling == src[s].expect = "Idle"
  IN  /\ worker[w].at = "process"
      /\ src' = [src EXCEPT ![s].state = "Processing"]
      /\ IF idling THEN Return(w) ELSE Goto(w, "password")
      /\ parked' = IF idling /\ Current(s) THEN parked \cup {s} ELSE parked
      /\ UNCHANGED <<known, sends, timers, fileName, statusVars, onlineVars, overtaken>>

\* PasswordContent; without a password the source stays Processing.
ReadPassword(w) ==
  /\ worker[w].at = "password"
  /\ \/ Goto(w, "create") /\ UNCHANGED parked
     \/ Return(w) /\ parked' = parked \cup {s \in {Of(w)} : Current(s)}
  /\ UNCHANGED <<handlerVars, fileName, statusVars, onlineVars, overtaken>>

-----------------------------------------------------------------------------
(* What the instance manager does for a worker *)

NeededInstances(s) == {InstanceOf[s], FromOf[s]} \ {None}

\* DbInstance.CreateDb: an entry for the name is made; a database that does
\* not exist or failed is asked for; one that leaves is refused.
Refuses(i, n) == Stage(db[i][n]) = "Idle"
Asks(i, n) == db[i][n] \in {"absent", "none", "failed"}
WithEntry(i, n) == IF db[i][n] = "absent" THEN [db EXCEPT ![i][n] = "none"] ELSE db
WithJob(i, n) == IF Asks(i, n) THEN [job EXCEPT ![i][n] = "create"] ELSE job

\* DbInstance.MigrateOut is not needed for a database that is not there or
\* already idle.
ReadyToMigrate(i, n) == db[i][n] \in {"absent", "none", "idle"}

CreateDb(w) ==
  LET s == Of(w)
      n == NameOf[s]
      i == InstanceOf[s]
      from == FromOf[s]
      leavesFirst == from # None /\ ~ReadyToMigrate(from, n)
  IN  /\ worker[w].at = "create"
      /\ \/ /\ \E k \in NeededInstances(s) : ~online[k]
            /\ Goto(w, "offline")
            /\ UNCHANGED <<db, job, followUps>>
         \/ /\ \A k \in NeededInstances(s) : online[k]
            /\ leavesFirst
            /\ job' = [job EXCEPT ![from][n] = "leave"]
            /\ followUps' = followUps \cup {s}
            /\ Return(w)
            /\ UNCHANGED db
         \/ /\ \A k \in NeededInstances(s) : online[k]
            /\ ~leavesFirst
            /\ db' = WithEntry(i, n)
            /\ job' = WithJob(i, n)
            /\ IF Refuses(i, n) THEN Goto(w, "failed") ELSE Return(w)
            /\ UNCHANGED followUps
      /\ UNCHANGED <<handlerVars, fileName, notices, onlineVars, history>>

\* State = Pending, after ErrInstanceOffline.
SetPending(w) ==
  /\ worker[w].at = "offline"
  /\ src' = [src EXCEPT ![Of(w)].state = "Pending"]
  /\ Return(w)
  /\ UNCHANGED <<known, sends, timers, fileName, statusVars, onlineVars, history>>

\* State = Failed and retryNextTime, after any other error.
RetryNextTime(w) ==
  LET s == Of(w)
  IN  /\ worker[w].at = "failed"
      /\ FreeTimes(NameOf[s]) # {}
      /\ src' = [src EXCEPT ![s] = Retried(src[s], NewTime(NameOf[s]))]
      /\ timers' = timers \cup {RetryAt(s)}
      /\ Return(w)
      /\ UNCHANGED <<known, sends, fileName, statusVars, onlineVars, history>>

\* The HandleFunc of a timer: the source that has the name now is sent if it
\* still waits for this time.
TimerFires(e) ==
  LET s == known[e.name]
      sent == /\ s # None
              /\ src[s].next = e.at
              /\ e.kind = "idle" => src[s].expect = "Idle"
  IN  /\ e \in timers
      /\ timers' = timers \ {e}
      /\ \/ sent /\ Room(sends[s]) /\ sends' = More(sends, s) /\ src' = [src EXCEPT ![s].next = NoTime]
         \/ ~sent /\ UNCHANGED <<sends, src>>
      /\ UNCHANGED <<known, fileName, worker, statusVars, onlineVars, history>>

-----------------------------------------------------------------------------
(* Callbacks *)

\* OnDbStatusChanged, for the source that has the name and the instance.
Hearers(i, n) == {s \in Sources : Current(s) /\ NameOf[s] = n /\ InstanceOf[s] = i}

\* DbStatusSubscriber.OnStatusChanged reads the status when it comes to run;
\* only final ones are passed on.  Creations that waited for the database to
\* be idle are asked for.
NoticeRuns(i, n) ==
  LET status == db[i][n]
      final == status \in {"failed", "ready", "idle"}
      moving == IF status = "idle" THEN {s \in followUps : FromOf[s] = i /\ NameOf[s] = n} ELSE {}
  IN  /\ notices[i][n] > 0
      /\ notices' = [notices EXCEPT ![i] = Fewer(@, n)]
      /\ IF final
         THEN /\ UpdateDbStatus([s \in Hearers(i, n) |-> status])
              /\ overtaken' = overtaken \cup (Hearers(i, n) \cap InHand)
         ELSE UNCHANGED <<src, timers, overtaken>>
      /\ followUps' = followUps \ moving
      /\ db' = [k \in Instances |->
                  IF \E s \in moving : InstanceOf[s] = k THEN WithEntry(k, n)[k] ELSE db[k]]
      /\ job' = [k \in Instances |->
                   IF \E s \in moving : InstanceOf[s] = k THEN WithJob(k, n)[k] ELSE job[k]]
      /\ UNCHANGED <<known, sends, fileName, worker, onlineVars, parked>>

\* The Register handlers of an instance set Online, and report it then.
SetOnline(i) ==
  /\ Room(announces[i])
  /\ online[i] => outages < MaxOutages
  /\ online' = [online EXCEPT ![i] = ~@]
  /\ outages' = IF online[i] THEN outages + 1 ELSE outages
  /\ announces' = More(announces, i)
  /\ UNCHANGED <<handlerVars, fileName, worker, statusVars, wasOnline, scans, history>>

Wanting(i) == {s \in Sources : Current(s) /\ i \in NeededInstances(s)}

\* OnInstanceStatusChanged: a change that was undone before it is reported is
\* not seen.
Announce(i) ==
  LET now == online[i]
  IN  /\ announces[i] > 0
      /\ \A scan \in scans : scan.of # i
      /\ announces' = Fewer(announces, i)
      /\ wasOnline' = [wasOnline EXCEPT ![i] = now]
      /\ scans' = IF now /\ ~wasOnline[i]
                  THEN scans \cup {[of |-> i, saw |-> db[i]]} ELSE scans
      /\ overtaken' = IF wasOnline[i] = now THEN overtaken \cup Wanting(i) ELSE overtaken
      /\ UNCHANGED <<handlerVars, fileName, worker, statusVars, online, outages, parked>>

\* handleDatabasesOnInstanceOnline: each unsynced source learns the status of
\* its database and is sent to the queue if it was Pending.
ScanRuns(scan) ==
  LET wanting == {s \in Wanting(scan.of) : ~Synced(src[s])}
      reported == {s \in wanting : InstanceOf[s] = scan.of /\ scan.saw[NameOf[s]] # "absent"}
      pending == {s \in wanting : src[s].state = "Pending"}
      told == [s \in reported |-> scan.saw[NameOf[s]]]
      woken == {s \in pending : s \notin reported \/ ~Reaches(src[s], told[s])}
      failing == {s \in reported : ~Reaches(src[s], told[s]) /\ Fails(src[s], told[s])}
  IN  /\ scan \in scans
      /\ \A s \in woken : Room(sends[s])
      /\ \A s \in failing : FreeTimes(NameOf[s]) # {}
      /\ scans' = scans \ {scan}
      /\ src' = [s \in Sources |->
                   IF s \in woken THEN Retried(src[s], NoTime)
                   ELSE IF s \in failing THEN Retried(src[s], NewTime(NameOf[s]))
                   ELSE IF s \in reported /\ Reaches(src[s], told[s]) THEN Reached(src[s])
                   ELSE src[s]]
      /\ timers' = timers \cup {RetryAt(s) : s \in failing}
      /\ sends' = [s \in Sources |-> IF s \in woken THEN sends[s] + 1 ELSE sends[s]]
      /\ overtaken' = overtaken \cup (wanting \cap InHand)
      /\ UNCHANGED <<known, fileName, worker, statusVars, wasOnline, online, outages, announces, parked>>

-----------------------------------------------------------------------------
(* The agent *)

\* NotifyDbStatus or a snapshot: the record changes, and a goroutine starts
\* to tell the subscribers.
DbBecomes(i, n, status) ==
  /\ Room(notices[i][n])
  /\ db' = [db EXCEPT ![i][n] = status]
  /\ notices' = [notices EXCEPT ![i] = More(@, n)]

\* A database from before the server started comes with the first snapshot.
AgentReports(i, n) ==
  /\ ~online[i]
  /\ db[i][n] = "absent"
  /\ DbBecomes(i, n, "ready")
  /\ UNCHANGED <<handlerVars, fileName, worker, job, followUps, onlineVars, history>>

AgentStarts(i, n) ==
  /\ online[i]
  /\ \/ job[i][n] = "create" /\ Asks(i, n) /\ DbBecomes(i, n, "working")
     \/ job[i][n] = "leave" /\ db[i][n] = "ready" /\ DbBecomes(i, n, "leaving")
  /\ job' = [job EXCEPT ![i][n] = "none"]
  /\ UNCHANGED <<handlerVars, fileName, worker, followUps, onlineVars, history>>

\* Requests that do not fit, and many errors, leave no trace in the status.
AgentIgnores(i, n) ==
  /\ online[i]
  /\ job[i][n] \in {"create", "leave"}
  /\ job' = [job EXCEPT ![i][n] = "ignored"]
  /\ UNCHANGED <<handlerVars, fileName, worker, db, notices, followUps, onlineVars, history>>

AgentEnds(i, n) ==
  /\ \/ db[i][n] = "working" /\ (DbBecomes(i, n, "ready") \/ DbBecomes(i, n, "failed"))
     \/ db[i][n] = "leaving" /\ DbBecomes(i, n, "idle")
  /\ UNCHANGED <<handlerVars, fileName, worker, job, followUps, onlineVars, history>>

-----------------------------------------------------------------------------
Ask ==
  \/ \E s \in Sources : WebCreate(s)
  \/ \E p \in Paths : FileRemoved(p) \/ \E s \in Sources : FileWritten(p, s)

WorkerNext(w) ==
  LookUp(w) \/ Sync(w) \/ Process(w) \/ ReadPassword(w) \/ CreateDb(w)
    \/ SetPending(w) \/ RetryNextTime(w)

Callback ==
  \/ \E i \in Instances : Announce(i) \/ \E n \in Names : NoticeRuns(i, n)
  \/ \E scan \in scans : ScanRuns(scan)

AgentNext(i, n) ==
  AgentReports(i, n) \/ AgentStarts(i, n) \/ AgentIgnores(i, n) \/ AgentEnds(i, n)

Next ==
  \/ Ask
  \/ \E w \in Workers : WorkerNext(w) \/ \E s \in Sources : Take(w, s)
  \/ \E e \in timers : TimerFires(e)
  \/ Callback
  \/ \E i \in Instances : SetOnline(i) \/ \E n \in Names : AgentNext(i, n)

Spec == Init /\ [][Next]_vars

\* Goroutines that can run are run; the senders of the unbuffered queue are
\* served in their order.  Nobody has to ask for anything, no instance has to
\* come online, and the agent may leave a database as it is.
Fairness ==
  /\ \A w \in Workers : WF_vars(WorkerNext(w))
  /\ \A s \in Sources : SF_vars(\E w \in Workers : Take(w, s))
  /\ \A n \in Names, t \in Times, k \in {"retry", "idle"} :
       WF_vars(TimerFires([name |-> n, at |-> t, kind |-> k]))
  /\ \A i \in Instances : WF_vars(Announce(i)) /\ \A n \in Names : WF_vars(NoticeRuns(i, n))
  /\ \A i \in Instances : WF_vars(\E scan \in scans : scan.of = i /\ ScanRuns(scan))

FairSpec == Spec /\ Fairness

-----------------------------------------------------------------------------
(* Properties *)

IsReady(n, i) ==
  LET s == known[n] IN s # None /\ InstanceOf[s] = i /\ src[s].state = "Ready"

\* handler.go:284-292: the web answers that a database is ready at an instance
\* only if it is, or was until an earlier source of that name had it moved away;
\* nothing takes the state Ready back then.
ReadyIsReal ==
  \A n \in Names, i \in Instances :
    IsReady(n, i) =>
      \/ db[i][n] = "ready"
      \/ /\ Stage(db[i][n]) = "Idle"
         /\ \E s \in Sources : NameOf[s] = n /\ FromOf[s] = i /\ src[s].expect # "unset"

Awaited(s) ==
  \/ sends[s] > 0
  \/ Holders(s) # {}
  \/ \E e \in timers : e.name = NameOf[s] /\ e.at = src[s].next
  \/ \E scan \in scans : scan.of \in NeededInstances(s)

AwaitsInstance(s) ==
  /\ src[s].state = "Pending"
  /\ \E i \in NeededInstances(s) : ~online[i] \/ announces[i] > 0

AwaitsAgent(s) ==
  LET i == InstanceOf[s]
      n == NameOf[s]
  IN  /\ src[s].state = "Processing"
      /\ \/ job[i][n] # "none"
         \/ db[i][n] = "working"
         \/ notices[i][n] > 0
         \/ s \in followUps

\* DbInstance.CreateDb refuses a database that another source has had moved
\* away, and the goroutine that asks once the old one is idle drops the error.
MovedAway(s) ==
  /\ src[s].state = "Processing"
  /\ Stage(db[InstanceOf[s]][NameOf[s]]) = "Idle"

\* handler.go:59-113, 172-193, 221-282: a source that is not what it should be
\* has somebody who will see to it, unless its database has left its instance.
NeverStranded ==
  \A s \in Sources :
    Current(s) /\ ~Synced(src[s]) =>
      Awaited(s) \/ AwaitsInstance(s) \/ AwaitsAgent(s) \/ MovedAway(s) \/ s \in parked \/ s \in overtaken

\* handler.go:162-170, 232-240: a timer sends only the source that has the name
\* now, and only one that is not yet what it should be.
StaleTimersDoNothing ==
  [][\A s \in Sources :
       sends'[s] > sends[s] => known'[NameOf[s]] = s /\ ~Synced(src'[s])]_vars

\* handler.go:172-193, 261-282: a source that wants its database finds out that
\* it is ready, unless the database or the source changes before.
ReadyIsSeen ==
  \A s \in Sources :
    Current(s) /\ src[s].expect = "Ready" /\ db[InstanceOf[s]][NameOf[s]] = "ready" ~>
      \/ src[s].state = "Ready"
      \/ ~Current(s) \/ src[s].expect # "Ready" \/ db[InstanceOf[s]][NameOf[s]] # "ready"
      \/ s \in parked \/ s \in overtaken
      \/ src[s].state = "Pending" /\ \E i \in NeededInstances(s) : ~online[i]

=============================================================================
