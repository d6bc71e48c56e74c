---------------------------- MODULE SourceProofs ----------------------------
(***************************************************************************)
(* Theorems about Source, for any sources, instances, workers and bounds.  *)
(*                                                                         *)
(* That no source is stranded is an invariant of the whole handler: it     *)
(* holds of a source because each worker that has it has missed no status  *)
(* (MissedNothing), because each place it may be left at has a step to     *)
(* come (Followed), and because a database becomes ready only with a       *)
(* notice (NoticeDue).  Two workers that have the same source, and a       *)
(* callback that runs while a worker has it, break this; the invariant is  *)
(* about the sources that neither has happened to (Plain).                 *)
(***************************************************************************)
EXTENDS Source, TLAPS

-----------------------------------------------------------------------------
(* What each actor leaves alone *)

\* A worker keeps the sources known, the queue and the instances; only CreateDb changes
\* what the instance manager knows of a database, and what is parked or overtaken
\* stays so.
LEMMA WorkerFrame ==
  ASSUME NEW w, WorkerNext(w)
  PROVE  /\ UNCHANGED <<known, sends, fileName, notices, onlineVars>>
         /\ UNCHANGED statusVars \/ CreateDb(w)
         /\ parked \subseteq parked' /\ overtaken \subseteq overtaken'
<1>1. CASE LookUp(w) BY <1>1 DEF LookUp, handlerVars, statusVars, history
<1>2. CASE Sync(w) BY <1>2 DEF Sync, statusVars
<1>3. CASE Process(w) BY <1>3 DEF Process, statusVars
<1>4. CASE ReadPassword(w) BY <1>4 DEF ReadPassword, handlerVars, statusVars
<1>5. CASE CreateDb(w) BY <1>5 DEF CreateDb, handlerVars, history
<1>6. CASE SetPending(w) BY <1>6 DEF SetPending, statusVars, history
<1>7. CASE RetryNextTime(w) BY <1>7 DEF RetryNextTime, statusVars, history
<1> QED BY <1>1, <1>2, <1>3, <1>4, <1>5, <1>6, <1>7 DEF WorkerNext

\* So do the taking of a source, the timers, the callbacks and the instances.
LEMMA TakeFrame ==
  ASSUME NEW w, NEW s, Take(w, s)
  PROVE  UNCHANGED <<known, src, timers, fileName, statusVars, onlineVars>>
BY DEF Take

LEMMA TimerFrame ==
  ASSUME NEW e, TimerFires(e)
  PROVE  UNCHANGED <<known, fileName, worker, statusVars, onlineVars, history>>
BY DEF TimerFires

LEMMA NoticeFrame ==
  ASSUME NEW i, NEW n, NoticeRuns(i, n)
  PROVE  /\ UNCHANGED <<known, sends, fileName, worker, onlineVars, parked>>
         /\ overtaken \subseteq overtaken'
BY DEF NoticeRuns

LEMMA AnnounceFrame ==
  ASSUME NEW i, Announce(i)
  PROVE  /\ UNCHANGED <<handlerVars, fileName, worker, statusVars, online, outages, parked>>
         /\ overtaken \subseteq overtaken'
BY DEF Announce

LEMMA ScanFrame ==
  ASSUME NEW scan, ScanRuns(scan)
  PROVE  /\ UNCHANGED <<known, fileName, worker, statusVars, wasOnline, online, outages, announces, parked>>
         /\ overtaken \subseteq overtaken' /\ scans' \subseteq scans
BY DEF ScanRuns

LEMMA OnlineFrame ==
  ASSUME NEW i, SetOnline(i)
  PROVE  UNCHANGED <<handlerVars, fileName, worker, statusVars, wasOnline, scans, history>>
BY DEF SetOnline

LEMMA AgentFrame ==
  ASSUME NEW i, NEW n, AgentNext(i, n)
  PROVE  UNCHANGED <<handlerVars, fileName, worker, followUps, onlineVars, history>>
<1>1. CASE AgentReports(i, n) BY <1>1 DEF AgentReports
<1>2. CASE AgentStarts(i, n) BY <1>2 DEF AgentStarts
<1>3. CASE AgentIgnores(i, n) BY <1>3 DEF AgentIgnores
<1>4. CASE AgentEnds(i, n) BY <1>4 DEF AgentEnds
<1> QED BY <1>1, <1>2, <1>3, <1>4 DEF AgentNext

-----------------------------------------------------------------------------
(* Types, and sources nobody added *)

\* A worker that is not idle has a source that was added.
HeldAreKnown ==
  \A w \in Workers : worker[w].at # "idle" => Of(w) \in Sources /\ src[Of(w)].expect # "unset"

\* A source nobody added is as it was created.
Untouched ==
  \A s \in Sources :
    src[s].expect = "unset" =>
      src[s].state = "Unknown" /\ src[s].next = NoTime /\ sends[s] = 0 /\ ~Current(s)

\* Notices are about databases the agent has reported.
NoticedAreThere ==
  \A i \in Instances, n \in Names : notices[i][n] > 0 => db[i][n] \notin {"absent", "none"}

KnownFits == \A n \in Names : known[n] # None => NameOf[known[n]] = n

Basic == TypeOK /\ HeldAreKnown /\ Untouched /\ KnownFits /\ NoticedAreThere

\* Which statuses a source may expect.
LEMMA StageIs ==
  ASSUME NEW x \in DbStatuses
  PROVE  /\ Stage(x) = "Ready" <=> x = "ready"
         /\ Stage(x) = "Idle" <=> x \in {"leaving", "idle"}
         /\ Stage(x) \in {"Ready", "Idle", "other"}
<1>1. CASE x = "ready" BY <1>1 DEF Stage
<1>2. CASE x \in {"leaving", "idle"} BY <1>2 DEF Stage
<1>3. CASE x \in DbStatuses \ {"ready", "leaving", "idle"}
  <2>1. Stage(x) = "other" BY <1>3 DEF Stage
  <2> QED BY <2>1, <1>3
<1> QED BY <1>1, <1>2, <1>3 DEF DbStatuses

\* A time that is chosen is one no timer of the name is set to.
LEMMA NewTimeIsFree ==
  ASSUME NEW n, FreeTimes(n) # {}
  PROVE  /\ NewTime(n) \in FreeTimes(n)
         /\ NewTime(n) \in Times
         /\ NewTime(n) # NoTime
BY BoundAssumption DEF NewTime, FreeTimes, Times, NoTime

\* The fields of a source and of its configuration.
LEMMA RecordsOf ==
  ASSUME TypeOK, NEW s \in Sources
  PROVE  /\ src[s].state \in SourceStates
         /\ src[s].expect \in {"unset", "Ready", "Idle"}
         /\ src[s].next \in Times \cup {NoTime}
         /\ NameOf[s] \in Names
         /\ InstanceOf[s] \in Instances
         /\ FromOf[s] \in Instances \cup {None}
         /\ src[s].expect # "unset" => src[s].expect \in SourceStates
BY ConfigAssumption DEF TypeOK, SourceStates

-----------------------------------------------------------------------------
(* What the operators of the module do *)

\* What updateDbStatus may do to one source: it is what it should be, it is to
\* be tried again at a time of its own, or nothing happens.
SrcUpdates(s, told) ==
  \/ /\ s \in DOMAIN told
     /\ Reaches(src[s], told[s])
     /\ src'[s] = Reached(src[s])
  \/ /\ s \in DOMAIN told
     /\ ~Reaches(src[s], told[s])
     /\ Fails(src[s], told[s])
     /\ \E t \in FreeTimes(NameOf[s]) :
          /\ t \in Times
          /\ t # NoTime
          /\ src'[s] = Retried(src[s], t)
          /\ [name |-> NameOf[s], at |-> t, kind |-> "retry"] \in timers'
  \/ /\ s \in DOMAIN told => ~Reaches(src[s], told[s]) /\ ~Fails(src[s], told[s])
     /\ src'[s] = src[s]

\* Timers are added, each of them for a retry and at a time of its own.
TimersGrow ==
  /\ timers \subseteq timers'
  /\ \A e \in timers' \ timers :
       /\ e.name \in Names
       /\ e.kind = "retry"
       /\ e.at \in FreeTimes(e.name)
       /\ e.at \in Times
       /\ e = [name |-> e.name, at |-> e.at, kind |-> "retry"]

\* updateDbStatus does to each source one of these, and nothing to the others.
LEMMA Updated ==
  ASSUME TypeOK, NEW told, DOMAIN told \subseteq Sources, UpdateDbStatus(told)
  PROVE  /\ \A s \in Sources : SrcUpdates(s, told)
         /\ TimersGrow
         /\ src' = [s \in Sources |-> src'[s]]
<1> DEFINE failing == {s \in DOMAIN told : ~Reaches(src[s], told[s]) /\ Fails(src[s], told[s])}
<1>1. /\ \A s \in failing : FreeTimes(NameOf[s]) # {}
      /\ timers' = timers \cup {RetryAt(s) : s \in failing}
      /\ src' = [s \in Sources |->
                   IF s \in failing THEN Retried(src[s], NewTime(NameOf[s]))
                   ELSE IF s \in DOMAIN told /\ Reaches(src[s], told[s]) THEN Reached(src[s])
                   ELSE src[s]]
  BY DEF UpdateDbStatus
<1>2. failing \subseteq Sources OBVIOUS
<1> HIDE DEF failing
<1>3. TimersGrow
  <2>1. \A s \in failing : NewTime(NameOf[s]) \in FreeTimes(NameOf[s]) /\ NewTime(NameOf[s]) \in Times
    BY <1>1, NewTimeIsFree
  <2> QED BY <1>1, <1>2, <2>1, ConfigAssumption DEF TimersGrow, RetryAt
<1>4. ASSUME NEW s \in Sources PROVE SrcUpdates(s, told)
  <2>1. CASE s \in failing
    <3>1. NewTime(NameOf[s]) \in FreeTimes(NameOf[s]) /\ NewTime(NameOf[s]) \in Times /\ NewTime(NameOf[s]) # NoTime
      BY <1>1, <2>1, NewTimeIsFree
    <3>2. src'[s] = Retried(src[s], NewTime(NameOf[s]))
      BY <1>1, <2>1
    <3>3. [name |-> NameOf[s], at |-> NewTime(NameOf[s]), kind |-> "retry"] \in timers'
      BY <1>1, <2>1 DEF RetryAt
    <3> QED BY <3>1, <3>2, <3>3, <2>1 DEF SrcUpdates, failing
  <2>2. CASE s \notin failing /\ s \in DOMAIN told /\ Reaches(src[s], told[s])
    BY <1>1, <2>2 DEF SrcUpdates
  <2>3. CASE s \notin failing /\ ~(s \in DOMAIN told /\ Reaches(src[s], told[s]))
    BY <1>1, <2>3 DEF SrcUpdates, failing
  <2> QED BY <2>1, <2>2, <2>3
<1> QED BY <1>1, <1>3, <1>4

SrcRecord == [state : SourceStates, expect : {"unset", "Ready", "Idle"}, next : Times \cup {NoTime}]

Timer == [name : Names, at : Times, kind : {"retry", "idle"}]

\* updateDbStatus keeps the types.
LEMMA UpdatedFits ==
  ASSUME TypeOK, NEW told, DOMAIN told \subseteq Sources, UpdateDbStatus(told),
         \A s \in DOMAIN told : told[s] \in DbStatuses
  PROVE  src' \in [Sources -> SrcRecord] /\ timers' \subseteq Timer
<1>1. ASSUME NEW s \in Sources PROVE src'[s] \in SrcRecord
  <2>1. SrcUpdates(s, told) BY Updated
  <2>2. CASE s \in DOMAIN told /\ Reaches(src[s], told[s])
    <3>1. src[s].expect # "unset" BY <2>2, StageIs DEF Reaches
    <3> QED BY <2>1, <2>2, <3>1, RecordsOf DEF SrcUpdates, SrcRecord, Reached
  <2>3. CASE ~(s \in DOMAIN told /\ Reaches(src[s], told[s]))
    <3>1. CASE src'[s] = src[s] BY <3>1 DEF TypeOK, SrcRecord
    <3>2. ASSUME NEW t \in Times, src'[s] = Retried(src[s], t)
          PROVE  src'[s] \in SrcRecord
      BY <3>2, RecordsOf DEF SrcRecord, SourceStates, Retried
    <3> QED BY <2>1, <2>3, <3>1, <3>2 DEF SrcUpdates
  <2> QED BY <2>2, <2>3
<1>2. src' = [s \in Sources |-> src'[s]] BY Updated
<1>3. timers' \subseteq Timer
  <2>1. TimersGrow BY Updated
  <2>2. timers \subseteq Timer BY DEF TypeOK, Timer
  <2>3. \A e \in timers' \ timers : e \in Timer BY <2>1 DEF TimersGrow, Timer
  <2> QED BY <2>2, <2>3
<1> QED BY <1>1, <1>2, <1>3

\* What handleDatabasesOnInstanceOnline may do to one source.
ScanUpdates(scan, s) ==
  LET told == scan.saw[NameOf[s]]
      wanted == s \in Wanting(scan.of) /\ ~Synced(src[s])
      reported == wanted /\ InstanceOf[s] = scan.of /\ told # "absent"
  IN  \/ /\ reported
         /\ Reaches(src[s], told)
         /\ src'[s] = Reached(src[s])
         /\ sends'[s] = sends[s]
      \/ /\ reported
         /\ ~Reaches(src[s], told)
         /\ Fails(src[s], told)
         /\ \E t \in FreeTimes(NameOf[s]) :
              /\ t \in Times
              /\ t # NoTime
              /\ src'[s] = Retried(src[s], t)
              /\ [name |-> NameOf[s], at |-> t, kind |-> "retry"] \in timers'
         /\ sends'[s] = sends[s]
      \/ /\ wanted
         /\ src[s].state = "Pending"
         /\ Room(sends[s])
         /\ src'[s] = Retried(src[s], NoTime)
         /\ sends'[s] = sends[s] + 1
      \/ /\ wanted => src[s].state # "Pending"
         /\ src'[s] = src[s]
         /\ sends'[s] = sends[s]

\* The scan does to each source one of these.
LEMMA Scanned ==
  ASSUME TypeOK, NEW scan \in scans, ScanRuns(scan)
  PROVE  /\ \A s \in Sources : ScanUpdates(scan, s)
         /\ TimersGrow
         /\ src' = [s \in Sources |-> src'[s]]
         /\ sends' = [s \in Sources |-> sends'[s]]
<1> DEFINE wanting == {s \in Wanting(scan.of) : ~Synced(src[s])}
           reported == {s \in wanting : InstanceOf[s] = scan.of /\ scan.saw[NameOf[s]] # "absent"}
           pending == {s \in wanting : src[s].state = "Pending"}
           told == [s \in reported |-> scan.saw[NameOf[s]]]
           woken == {s \in pending : s \notin reported \/ ~Reaches(src[s], told[s])}
           failing == {s \in reported : ~Reaches(src[s], told[s]) /\ Fails(src[s], told[s])}
<1>1. /\ \A s \in woken : Room(sends[s])
      /\ \A s \in failing : FreeTimes(NameOf[s]) # {}
      /\ src' = [s \in Sources |->
                   IF s \in woken THEN Retried(src[s], NoTime)
                   ELSE IF s \in failing THEN Retried(src[s], NewTime(NameOf[s]))
                   ELSE IF s \in reported /\ Reaches(src[s], told[s]) THEN Reached(src[s])
                   ELSE src[s]]
      /\ timers' = timers \cup {RetryAt(s) : s \in failing}
      /\ sends' = [s \in Sources |-> IF s \in woken THEN sends[s] + 1 ELSE sends[s]]
  BY DEF ScanRuns
<1>2. failing \subseteq Sources BY DEF Wanting
<1>3. \A s \in reported : told[s] = scan.saw[NameOf[s]] OBVIOUS
<1>4. TimersGrow
  <2> HIDE DEF failing
  <2>1. \A s \in failing : NewTime(NameOf[s]) \in FreeTimes(NameOf[s]) /\ NewTime(NameOf[s]) \in Times
    BY <1>1, NewTimeIsFree
  <2> QED BY <1>1, <1>2, <2>1, ConfigAssumption DEF TimersGrow, RetryAt
<1>5. ASSUME NEW s \in Sources PROVE ScanUpdates(scan, s)
  <2>1. s \in woken => s \notin failing BY DEF Fails
  <2>2. s \in wanting <=> s \in Wanting(scan.of) /\ ~Synced(src[s]) OBVIOUS
  <2>3. s \in reported <=> /\ s \in wanting
                           /\ InstanceOf[s] = scan.of /\ scan.saw[NameOf[s]] # "absent"
    OBVIOUS
  <2>4. s \in woken <=> /\ s \in wanting /\ src[s].state = "Pending"
                        /\ s \in reported => ~Reaches(src[s], scan.saw[NameOf[s]])
    BY <1>3, <2>3
  <2>5. s \in failing <=> /\ s \in reported
                          /\ ~Reaches(src[s], scan.saw[NameOf[s]])
                          /\ Fails(src[s], scan.saw[NameOf[s]])
    BY <1>3
  <2>6. s \in reported => told[s] = scan.saw[NameOf[s]] BY <1>3
  <2> HIDE DEF wanting, reported, pending, told, woken, failing
  <2>7. CASE s \in failing
    <3>1. NewTime(NameOf[s]) \in FreeTimes(NameOf[s]) /\ NewTime(NameOf[s]) \in Times /\ NewTime(NameOf[s]) # NoTime
      BY <1>1, <2>7, NewTimeIsFree
    <3>2. src'[s] = Retried(src[s], NewTime(NameOf[s]))
      BY <1>1, <2>1, <2>7
    <3>3. [name |-> NameOf[s], at |-> NewTime(NameOf[s]), kind |-> "retry"] \in timers'
      BY <1>1, <2>7 DEF RetryAt
    <3>4. sends'[s] = sends[s] BY <1>1, <2>1, <2>7
    <3> QED BY <3>1, <3>2, <3>3, <3>4, <2>2, <2>3, <2>5, <2>7 DEF ScanUpdates
  <2>8. CASE s \notin failing /\ s \notin woken /\ s \in reported /\ Reaches(src[s], told[s])
    <3>1. src'[s] = Reached(src[s]) /\ sends'[s] = sends[s] BY <1>1, <2>8
    <3> QED BY <2>2, <2>3, <2>6, <2>8, <3>1 DEF ScanUpdates
  <2>9. CASE s \in woken
    <3>1. /\ Room(sends[s]) /\ src'[s] = Retried(src[s], NoTime)
          /\ sends'[s] = sends[s] + 1
      BY <1>1, <2>9
    <3> QED BY <2>2, <2>3, <2>4, <2>9, <3>1 DEF ScanUpdates
  <2>10. CASE s \notin failing /\ s \notin woken /\ ~(s \in reported /\ Reaches(src[s], told[s]))
    <3>1. src'[s] = src[s] /\ sends'[s] = sends[s] BY <1>1, <2>10
    <3>2. s \in wanting => src[s].state # "Pending" BY <2>4, <2>6, <2>10
    <3> QED BY <2>2, <3>1, <3>2 DEF ScanUpdates
  <2> QED BY <2>7, <2>8, <2>9, <2>10
<1> QED BY <1>1, <1>4, <1>5

\* A request adds a source, marks one idle, or leaves all but the files alone.
LEMMA AskStep ==
  ASSUME TypeOK, Ask
  PROVE  /\ fileName' \in [Paths -> Names \cup {None}]
         /\ \/ \E s \in Sources : AddDatabaseSource(s)
            \/ \E n \in Names : MarkDatabaseSourceIdle(n)
            \/ UNCHANGED <<handlerVars, statusVars, onlineVars, worker, history>>
<1>1. CASE \E s \in Sources : WebCreate(s) BY <1>1 DEF WebCreate, TypeOK
<1>2. CASE \E p \in Paths, s \in Sources : FileWritten(p, s)
  BY <1>2, ConfigAssumption DEF FileWritten, TypeOK
<1>3. CASE \E p \in Paths : FileRemoved(p) BY <1>3 DEF FileRemoved, TypeOK
<1> QED BY <1>1, <1>2, <1>3 DEF Ask

\* An assignment to one field of a source, as a record.
LEMMA StateSet ==
  ASSUME TypeOK, NEW s \in Sources, NEW x, src' = [src EXCEPT ![s].state = x]
  PROVE  src' = [src EXCEPT ![s] = [state |-> x, expect |-> src[s].expect, next |-> src[s].next]]
<1>1. src \in [Sources -> SrcRecord] BY DEF TypeOK, SrcRecord
<1>2. src'[s] = [state |-> x, expect |-> src[s].expect, next |-> src[s].next]
  BY <1>1 DEF SrcRecord
<1>3. \A r \in Sources \ {s} : src'[r] = src[r] BY <1>1
<1>4. src' = [r \in Sources |-> src'[r]] BY <1>1
<1> QED BY <1>1, <1>2, <1>3, <1>4

\* The same for ExpectState.
LEMMA ExpectSet ==
  ASSUME TypeOK, NEW s \in Sources, NEW x, src' = [src EXCEPT ![s].expect = x]
  PROVE  src' = [src EXCEPT ![s] = [state |-> src[s].state, expect |-> x, next |-> src[s].next]]
<1>1. src \in [Sources -> SrcRecord] BY DEF TypeOK, SrcRecord
<1>2. src'[s] = [state |-> src[s].state, expect |-> x, next |-> src[s].next]
  BY <1>1 DEF SrcRecord
<1>3. \A r \in Sources \ {s} : src'[r] = src[r] BY <1>1
<1>4. src' = [r \in Sources |-> src'[r]] BY <1>1
<1> QED BY <1>1, <1>2, <1>3, <1>4

\* The same for NextScheduleAt.
LEMMA NextSet ==
  ASSUME TypeOK, NEW s \in Sources, NEW x, src' = [src EXCEPT ![s].next = x]
  PROVE  src' = [src EXCEPT ![s] = [state |-> src[s].state, expect |-> src[s].expect, next |-> x]]
<1>1. src \in [Sources -> SrcRecord] BY DEF TypeOK, SrcRecord
<1>2. src'[s] = [state |-> src[s].state, expect |-> src[s].expect, next |-> x]
  BY <1>1 DEF SrcRecord
<1>3. \A r \in Sources \ {s} : src'[r] = src[r] BY <1>1
<1>4. src' = [r \in Sources |-> src'[r]] BY <1>1
<1> QED BY <1>1, <1>2, <1>3, <1>4

\* The requests of files and of the web keep the types.
LEMMA TypeAsk ==
  ASSUME TypeOK, Untouched, Ask
  PROVE  TypeOK'
<1>1. fileName' \in [Paths -> Names \cup {None}] BY AskStep
<1>2. ASSUME NEW s \in Sources, AddDatabaseSource(s) PROVE TypeOK'
  <2>1. CASE UNCHANGED <<handlerVars, statusVars, onlineVars, worker, history>>
    BY <1>1, <2>1 DEF TypeOK, handlerVars, statusVars, onlineVars, history
  <2>2. CASE ~UNCHANGED <<handlerVars, statusVars, onlineVars, worker, history>>
    <3>1. /\ src[s].expect = "unset"
          /\ known' = [known EXCEPT ![NameOf[s]] = s]
          /\ src' = [src EXCEPT ![s].expect = "Ready"]
          /\ sends' = [sends EXCEPT ![s] = @ + 1]
          /\ parked' = parked \ {known[NameOf[s]]}
          /\ overtaken' = overtaken \ {known[NameOf[s]]}
          /\ UNCHANGED <<timers, statusVars, onlineVars, worker>>
      BY <1>2, <2>2 DEF AddDatabaseSource, More
    <3>2. sends[s] = 0 BY <3>1 DEF Untouched
    <3>3. sends' \in [Sources -> 0..MaxWaiting] BY <3>1, <3>2, BoundAssumption DEF TypeOK
    <3>4. src' \in [Sources -> SrcRecord]
      <4>1. src' = [src EXCEPT ![s] = [state |-> src[s].state, expect |-> "Ready", next |-> src[s].next]]
        BY <3>1, ExpectSet
      <4>2. [state |-> src[s].state, expect |-> "Ready", next |-> src[s].next] \in SrcRecord
        BY RecordsOf DEF SrcRecord
      <4>3. src \in [Sources -> SrcRecord] BY DEF TypeOK, SrcRecord
      <4> QED BY <4>1, <4>2, <4>3
    <3>5. known' \in [Names -> Sources \cup {None}] BY <3>1, ConfigAssumption DEF TypeOK
    <3> QED BY <1>1, <3>1, <3>3, <3>4, <3>5 DEF TypeOK, statusVars, onlineVars, SrcRecord
  <2> QED BY <2>1, <2>2
<1>3. ASSUME NEW n \in Names, MarkDatabaseSourceIdle(n) PROVE TypeOK'
  <2>1. CASE UNCHANGED <<handlerVars, statusVars, onlineVars, worker, history>>
    BY <1>1, <2>1 DEF TypeOK, handlerVars, statusVars, onlineVars, history
  <2>2. CASE ~UNCHANGED <<handlerVars, statusVars, onlineVars, worker, history>>
    <3>1. /\ known[n] # None
          /\ FreeTimes(n) # {}
          /\ src' = [src EXCEPT ![known[n]] = [state |-> "Scheduling", expect |-> "Idle",
                                               next |-> NewTime(n)]]
          /\ timers' = timers \cup {[name |-> n, at |-> NewTime(n), kind |-> "idle"]}
          /\ UNCHANGED <<known, sends, worker, statusVars, onlineVars, history>>
      BY <1>3, <2>2 DEF MarkDatabaseSourceIdle, handlerVars
    <3>2. NewTime(n) \in Times BY <3>1, NewTimeIsFree
    <3>3. src' \in [Sources -> SrcRecord] BY <3>1, <3>2 DEF TypeOK, SrcRecord, SourceStates
    <3> QED BY <1>1, <3>1, <3>2, <3>3 DEF TypeOK, statusVars, onlineVars, history, SrcRecord
  <2> QED BY <2>1, <2>2
<1>4. CASE UNCHANGED <<handlerVars, statusVars, onlineVars, worker, history>>
  BY <1>1, <1>4 DEF TypeOK, handlerVars, statusVars, onlineVars, history
<1> QED BY <1>2, <1>3, <1>4, AskStep

WorkerRecord == [at : WorkerSteps, of : Sources \cup {None}, saw : DbStatuses]

\* The steps of a worker keep the types.
LEMMA TypeWorker ==
  ASSUME TypeOK, HeldAreKnown, NEW w \in Workers, WorkerNext(w)
  PROVE  TypeOK'
<1>1. worker[w].at # "idle" => Of(w) \in Sources BY DEF HeldAreKnown
<1>2. NoWork \in [at : WorkerSteps, of : Sources \cup {None}, saw : DbStatuses]
  BY DEF NoWork, WorkerSteps, DbStatuses
<1>3. CASE LookUp(w)
  <2>1. Of(w) \in Sources BY <1>1, <1>3 DEF LookUp
  <2>2. db[InstanceOf[Of(w)]][NameOf[Of(w)]] \in DbStatuses BY <2>1, ConfigAssumption DEF TypeOK
  <2>3. worker' \in [Workers -> WorkerRecord]
    BY <1>3, <2>1, <2>2 DEF LookUp, TypeOK, WorkerRecord, WorkerSteps
  <2> QED
    BY <1>3, <2>3 DEF LookUp, TypeOK, WorkerRecord, handlerVars, statusVars, onlineVars, history
<1>4. ASSUME Return(w) \/ \E step \in WorkerSteps : Goto(w, step)
      PROVE  worker' \in [Workers -> [at : WorkerSteps, of : Sources \cup {None}, saw : DbStatuses]]
  <2>1. worker[w].of \in Sources \cup {None} BY DEF TypeOK
  <2>2. CASE Return(w) BY <1>2, <2>2 DEF TypeOK, Return
  <2>3. ASSUME NEW step \in WorkerSteps, Goto(w, step)
        PROVE  worker' \in [Workers -> [at : WorkerSteps, of : Sources \cup {None}, saw : DbStatuses]]
    BY <2>1, <2>3 DEF Goto, TypeOK, Of, DbStatuses
  <2> QED BY <1>4, <2>2, <2>3
<1>5. CASE Sync(w)
  <2>1. worker' \in [Workers -> [at : WorkerSteps, of : Sources \cup {None}, saw : DbStatuses]]
    BY <1>4, <1>5 DEF Sync, WorkerSteps
  <2>2. src' \in [Sources -> SrcRecord] /\ timers' \subseteq Timer
    <3>1. CASE worker[w].saw = "absent" BY <1>5, <3>1 DEF Sync, TypeOK, SrcRecord, Timer
    <3>2. CASE worker[w].saw # "absent"
      <4>1. UpdateDbStatus(Told(Of(w), worker[w].saw)) BY <1>5, <3>2 DEF Sync
      <4>2. worker[w].saw \in DbStatuses BY DEF TypeOK
      <4> QED BY <1>1, <1>5, <4>1, <4>2, UpdatedFits DEF Told, Sync
    <3> QED BY <3>1, <3>2
  <2> QED BY <1>1, <1>5, <2>1, <2>2 DEF Sync, TypeOK, SrcRecord, Timer, statusVars, onlineVars
<1>6. CASE Process(w)
  <2>1. Of(w) \in Sources BY <1>1, <1>6 DEF Process
  <2>2. worker' \in [Workers -> WorkerRecord]
    BY <1>4, <1>6 DEF Process, WorkerSteps, WorkerRecord
  <2>3. src' \in [Sources -> SrcRecord]
    <3>1. src' = [src EXCEPT ![Of(w)] = [state |-> "Processing", expect |-> src[Of(w)].expect, next |-> src[Of(w)].next]]
      BY <1>6, <2>1, StateSet DEF Process
    <3> QED BY <2>1, <3>1, RecordsOf DEF TypeOK, SrcRecord, SourceStates
  <2> QED BY <1>6, <2>1, <2>2, <2>3
      DEF Process, TypeOK, statusVars, onlineVars, SrcRecord, WorkerRecord
<1>7. CASE ReadPassword(w)
  BY <1>1, <1>4, <1>7 DEF ReadPassword, TypeOK, handlerVars, statusVars, onlineVars, WorkerSteps
<1>8. CASE CreateDb(w)
  <2> DEFINE s == Of(w)
  <2>1. /\ s \in Sources
        /\ NameOf[s] \in Names
        /\ InstanceOf[s] \in Instances
        /\ FromOf[s] \in Instances \cup {None}
    BY <1>1, <1>8, ConfigAssumption DEF CreateDb
  <2> HIDE DEF s
  <2>2. worker' \in [Workers -> [at : WorkerSteps, of : Sources \cup {None}, saw : DbStatuses]]
    BY <1>4, <1>8 DEF CreateDb, WorkerSteps
  <2>3. db' \in [Instances -> [Names -> DbStatuses]]
    <3>1. db' = db \/ db' = WithEntry(InstanceOf[s], NameOf[s]) BY <1>8 DEF CreateDb, s
    <3>2. WithEntry(InstanceOf[s], NameOf[s]) \in [Instances -> [Names -> DbStatuses]]
      BY <2>1 DEF WithEntry, TypeOK, DbStatuses
    <3> QED BY <3>1, <3>2 DEF TypeOK
  <2>4. job' \in [Instances -> [Names -> {"none", "create", "leave", "ignored"}]]
    <3>1. \/ job' = job
          \/ job' = WithJob(InstanceOf[s], NameOf[s])
          \/ FromOf[s] # None /\ job' = [job EXCEPT ![FromOf[s]][NameOf[s]] = "leave"]
      BY <1>8 DEF CreateDb, s
    <3>2. WithJob(InstanceOf[s], NameOf[s]) \in
             [Instances -> [Names -> {"none", "create", "leave", "ignored"}]]
      BY <2>1 DEF WithJob, TypeOK
    <3>3. CASE FromOf[s] # None /\ job' = [job EXCEPT ![FromOf[s]][NameOf[s]] = "leave"]
      BY <2>1, <3>3 DEF TypeOK
    <3> QED BY <3>1, <3>2, <3>3 DEF TypeOK
  <2>5. followUps' \subseteq Sources BY <1>8, <2>1 DEF CreateDb, TypeOK, s
  <2> QED BY <1>8, <2>2, <2>3, <2>4, <2>5 DEF CreateDb, TypeOK, handlerVars, onlineVars, history
<1>9. CASE SetPending(w)
  <2>1. Of(w) \in Sources BY <1>1, <1>9 DEF SetPending
  <2>2. worker' \in [Workers -> WorkerRecord] BY <1>4, <1>9 DEF SetPending, WorkerRecord
  <2>3. src' \in [Sources -> SrcRecord]
    <3>1. src' = [src EXCEPT ![Of(w)] = [state |-> "Pending", expect |-> src[Of(w)].expect, next |-> src[Of(w)].next]]
      BY <1>9, <2>1, StateSet DEF SetPending
    <3> QED BY <2>1, <3>1, RecordsOf DEF TypeOK, SrcRecord, SourceStates
  <2> QED BY <1>9, <2>2, <2>3
      DEF SetPending, TypeOK, statusVars, onlineVars, history, SrcRecord, WorkerRecord
<1>10. CASE RetryNextTime(w)
  <2>1. NewTime(NameOf[Of(w)]) \in Times BY <1>10, NewTimeIsFree DEF RetryNextTime
  <2>2. Of(w) \in Sources /\ NameOf[Of(w)] \in Names
    BY <1>1, <1>10, ConfigAssumption DEF RetryNextTime
  <2>3. worker' \in [Workers -> [at : WorkerSteps, of : Sources \cup {None}, saw : DbStatuses]]
    BY <1>4, <1>10 DEF RetryNextTime
  <2>4. src' \in [Sources -> SrcRecord]
    BY <1>10, <2>1, <2>2, RecordsOf DEF RetryNextTime, Retried, TypeOK, SrcRecord, SourceStates
  <2>5. timers' \subseteq Timer BY <1>10, <2>1, <2>2 DEF RetryNextTime, RetryAt, TypeOK, Timer
  <2> QED BY <1>10, <2>3, <2>4, <2>5
      DEF RetryNextTime, TypeOK, statusVars, onlineVars, history, SrcRecord, Timer
<1> QED BY <1>3, <1>5, <1>6, <1>7, <1>8, <1>9, <1>10 DEF WorkerNext

\* Taking a source from the queue keeps the types.
LEMMA TypeTake ==
  ASSUME TypeOK, NEW w \in Workers, NEW s \in Sources, Take(w, s)
  PROVE  TypeOK'
<1>1. sends' \in [Sources -> 0..MaxWaiting] BY BoundAssumption DEF Take, Fewer, TypeOK
<1>2. worker' \in [Workers -> WorkerRecord]
  BY DEF Take, TypeOK, WorkerRecord, WorkerSteps, DbStatuses
<1> QED BY <1>1, <1>2 DEF Take, TypeOK, WorkerRecord, statusVars, onlineVars

\* A timer that fires keeps the types.
LEMMA TypeTimer ==
  ASSUME TypeOK, NEW e \in timers, TimerFires(e)
  PROVE  TypeOK'
<1> DEFINE s == known[e.name]
<1>1. e.name \in Names BY DEF TypeOK
<1>2. s \in Sources \cup {None} BY <1>1 DEF TypeOK
<1>3. \/ UNCHANGED <<sends, src>>
      \/ s # None /\ Room(sends[s]) /\ sends' = More(sends, s) /\ src' = [src EXCEPT ![s].next = NoTime]
  BY DEF TimerFires
<1> HIDE DEF s
<1>4. CASE UNCHANGED <<sends, src>>
  BY <1>4 DEF TimerFires, TypeOK, statusVars, onlineVars, history
<1>5. CASE s # None /\ Room(sends[s]) /\ sends' = More(sends, s) /\ src' = [src EXCEPT ![s].next = NoTime]
  <2>1. s \in Sources BY <1>2, <1>5
  <2>2. sends' \in [Sources -> 0..MaxWaiting] BY <1>5, <2>1, BoundAssumption DEF More, Room, TypeOK
  <2>3. src' = [src EXCEPT ![s] = [state |-> src[s].state, expect |-> src[s].expect, next |-> NoTime]]
    BY <1>5, <2>1, NextSet
  <2>4. src' \in [Sources -> SrcRecord] BY <2>1, <2>3, RecordsOf DEF TypeOK, SrcRecord
  <2> QED BY <2>2, <2>4 DEF TimerFires, TypeOK, SrcRecord, statusVars, onlineVars, history
<1> QED BY <1>3, <1>4, <1>5

\* A notice keeps the types.
LEMMA TypeNotice ==
  ASSUME TypeOK, NEW i \in Instances, NEW n \in Names, NoticeRuns(i, n)
  PROVE  TypeOK'
<1> DEFINE moving == IF db[i][n] = "idle" THEN {s \in followUps : FromOf[s] = i /\ NameOf[s] = n} ELSE {}
           told == [s \in Hearers(i, n) |-> db[i][n]]
<1>1. src' \in [Sources -> SrcRecord] /\ timers' \subseteq Timer
  <2>1. CASE UNCHANGED <<src, timers>> BY <2>1 DEF TypeOK, SrcRecord, Timer
  <2>2. CASE UpdateDbStatus(told)
    <3>1. db[i][n] \in DbStatuses /\ Hearers(i, n) \subseteq Sources BY DEF TypeOK, Hearers
    <3> QED BY <2>2, <3>1, UpdatedFits
  <2> QED BY <2>1, <2>2 DEF NoticeRuns
<1>2. notices' \in [Instances -> [Names -> 0..MaxWaiting]]
  <2>1. notices[i] \in [Names -> 0..MaxWaiting] /\ notices[i][n] > 0 BY DEF NoticeRuns, TypeOK
  <2>2. Fewer(notices[i], n) \in [Names -> 0..MaxWaiting] BY <2>1, BoundAssumption DEF Fewer
  <2>3. notices' = [notices EXCEPT ![i] = Fewer(notices[i], n)] BY DEF NoticeRuns
  <2> QED BY <2>2, <2>3 DEF TypeOK
<1>3. db' \in [Instances -> [Names -> DbStatuses]]
  <2>1. \A k \in Instances : WithEntry(k, n) \in [Instances -> [Names -> DbStatuses]]
    BY DEF WithEntry, TypeOK, DbStatuses
  <2> HIDE DEF moving
  <2>2. db' = [k \in Instances |-> IF \E s \in moving : InstanceOf[s] = k THEN WithEntry(k, n)[k] ELSE db[k]]
    BY DEF NoticeRuns, moving
  <2> QED BY <2>1, <2>2 DEF TypeOK
<1>4. job' \in [Instances -> [Names -> {"none", "create", "leave", "ignored"}]]
  <2>1. \A k \in Instances : WithJob(k, n) \in [Instances -> [Names -> {"none", "create", "leave", "ignored"}]]
    BY DEF WithJob, TypeOK
  <2> HIDE DEF moving
  <2>2. job' = [k \in Instances |-> IF \E s \in moving : InstanceOf[s] = k THEN WithJob(k, n)[k] ELSE job[k]]
    BY DEF NoticeRuns, moving
  <2> QED BY <2>1, <2>2 DEF TypeOK
<1>5. overtaken' \subseteq Sources BY DEF NoticeRuns, Hearers, TypeOK
<1>6. followUps' \subseteq Sources BY DEF NoticeRuns, TypeOK
<1> QED BY <1>1, <1>2, <1>3, <1>4, <1>5, <1>6 DEF NoticeRuns, TypeOK, SrcRecord, Timer, onlineVars

\* The changes of an instance and their announcements keep the types.
LEMMA TypeInstance ==
  ASSUME TypeOK, NEW i \in Instances, SetOnline(i) \/ Announce(i)
  PROVE  TypeOK'
<1>1. CASE SetOnline(i)
  <2>1. announces' \in [Instances -> 0..MaxWaiting]
    BY <1>1, BoundAssumption DEF SetOnline, Room, More, TypeOK
  <2>2. outages' \in 0..MaxOutages
    <3>1. outages \in 0..MaxOutages BY DEF TypeOK
    <3>2. outages' = outages \/ (outages < MaxOutages /\ outages' = outages + 1)
      BY <1>1 DEF SetOnline
    <3> QED BY <3>1, <3>2, BoundAssumption
  <2> QED BY <1>1, <2>1, <2>2 DEF SetOnline, TypeOK, handlerVars, statusVars, history
<1>2. CASE Announce(i)
  <2>1. announces' \in [Instances -> 0..MaxWaiting]
    BY <1>2, BoundAssumption DEF Announce, Fewer, TypeOK
  <2>2. scans' \subseteq [of : Instances, saw : [Names -> DbStatuses]]
    BY <1>2 DEF Announce, TypeOK
  <2>3. wasOnline' \in [Instances -> BOOLEAN]
    <3>1. wasOnline' = [wasOnline EXCEPT ![i] = online[i]] BY <1>2 DEF Announce
    <3>2. wasOnline \in [Instances -> BOOLEAN] /\ online[i] \in BOOLEAN BY DEF TypeOK
    <3> QED BY <3>1, <3>2
  <2>4. overtaken' \subseteq Sources
    <3>1. overtaken' = overtaken \/ overtaken' = overtaken \cup Wanting(i) BY <1>2 DEF Announce
    <3>2. Wanting(i) \subseteq Sources BY DEF Wanting
    <3>3. overtaken \subseteq Sources BY Zenon DEF TypeOK
    <3> QED BY <3>1, <3>2, <3>3
  <2> QED BY <1>2, <2>1, <2>2, <2>3, <2>4 DEF Announce, TypeOK, handlerVars, statusVars
<1> QED BY <1>1, <1>2

\* A scan keeps the types.
LEMMA TypeScan ==
  ASSUME TypeOK, NEW scan \in scans, ScanRuns(scan)
  PROVE  TypeOK'
<1>1. src' \in [Sources -> SrcRecord]
  <2>1. ASSUME NEW s \in Sources PROVE src'[s] \in SrcRecord
    <3>1. scan.saw[NameOf[s]] \in DbStatuses BY ConfigAssumption DEF TypeOK
    <3>2. src[s] \in SrcRecord BY DEF TypeOK, SrcRecord
    <3>3. CASE Reaches(src[s], scan.saw[NameOf[s]]) /\ src'[s] = Reached(src[s])
      <4>1. src[s].expect # "unset" BY <3>1, <3>3, StageIs DEF Reaches
      <4> QED BY <3>3, <4>1, RecordsOf DEF SrcRecord, Reached
    <3>4. CASE src'[s] = src[s] BY <3>2, <3>4
    <3>5. ASSUME NEW t \in Times \cup {NoTime}, src'[s] = Retried(src[s], t)
          PROVE  src'[s] \in SrcRecord
      BY <3>5, RecordsOf DEF SrcRecord, SourceStates, Retried
    <3> QED BY <3>3, <3>4, <3>5, Scanned DEF ScanUpdates
  <2> QED BY <2>1, Scanned
<1>2. sends' \in [Sources -> 0..MaxWaiting]
  <2>1. ASSUME NEW s \in Sources PROVE sends'[s] \in 0..MaxWaiting
    <3>1. sends[s] \in 0..MaxWaiting BY DEF TypeOK
    <3>2. ScanUpdates(scan, s) BY Scanned
    <3>3. \/ sends'[s] = sends[s]
          \/ Room(sends[s]) /\ sends'[s] = sends[s] + 1
      BY <3>2 DEF ScanUpdates
    <3> QED BY <3>1, <3>3, BoundAssumption DEF Room
  <2> QED BY <2>1, Scanned
<1>3. timers' \subseteq Timer
  <2>1. timers \subseteq Timer BY DEF TypeOK, Timer
  <2> QED BY <2>1, Scanned DEF TimersGrow, Timer
<1>4. overtaken' \subseteq Sources BY DEF ScanRuns, Wanting, TypeOK
<1>5. scans' \subseteq [of : Instances, saw : [Names -> DbStatuses]] BY ScanFrame DEF TypeOK
<1> QED BY <1>1, <1>2, <1>3, <1>4, <1>5 DEF ScanRuns, TypeOK, SrcRecord, Timer, statusVars

\* The agent keeps the types.
LEMMA TypeAgent ==
  ASSUME TypeOK, NEW i \in Instances, NEW n \in Names, AgentNext(i, n)
  PROVE  TypeOK'
<1>1. ASSUME NEW status \in DbStatuses, DbBecomes(i, n, status)
      PROVE  /\ db' \in [Instances -> [Names -> DbStatuses]]
             /\ notices' \in [Instances -> [Names -> 0..MaxWaiting]]
  <2>1. db' \in [Instances -> [Names -> DbStatuses]] BY <1>1 DEF DbBecomes, TypeOK
  <2>2. notices[i] \in [Names -> 0..MaxWaiting] BY DEF TypeOK
  <2>3. More(notices[i], n) \in [Names -> 0..MaxWaiting]
    BY <1>1, <2>2, BoundAssumption DEF DbBecomes, Room, More
  <2>4. notices' = [notices EXCEPT ![i] = More(notices[i], n)] BY <1>1 DEF DbBecomes
  <2> QED BY <2>1, <2>3, <2>4 DEF TypeOK
<1>2. CASE AgentReports(i, n)
  BY <1>1, <1>2 DEF AgentReports, TypeOK, DbStatuses, handlerVars, onlineVars, history
<1>3. CASE AgentStarts(i, n)
  <2>1. job' \in [Instances -> [Names -> {"none", "create", "leave", "ignored"}]]
    BY <1>3 DEF AgentStarts, TypeOK
  <2>2. DbBecomes(i, n, "working") \/ DbBecomes(i, n, "leaving") BY <1>3 DEF AgentStarts
  <2>3. /\ db' \in [Instances -> [Names -> DbStatuses]]
        /\ notices' \in [Instances -> [Names -> 0..MaxWaiting]]
    BY <1>1, <2>2 DEF DbStatuses
  <2> QED BY <1>3, <2>1, <2>3 DEF AgentStarts, TypeOK, handlerVars, onlineVars, history
<1>4. CASE AgentIgnores(i, n)
  BY <1>4 DEF AgentIgnores, TypeOK, handlerVars, onlineVars, history
<1>5. CASE AgentEnds(i, n)
  <2>1. DbBecomes(i, n, "ready") \/ DbBecomes(i, n, "failed") \/ DbBecomes(i, n, "idle")
    BY <1>5 DEF AgentEnds
  <2>2. /\ db' \in [Instances -> [Names -> DbStatuses]]
        /\ notices' \in [Instances -> [Names -> 0..MaxWaiting]]
    BY <1>1, <2>1 DEF DbStatuses
  <2> QED BY <1>5, <2>2 DEF AgentEnds, TypeOK, handlerVars, onlineVars, history
<1> QED BY <1>2, <1>3, <1>4, <1>5 DEF AgentNext

-----------------------------------------------------------------------------
(* What the steps do to one source *)

\* The step assigns to one source, these values.
OnlySrc(s) == \A r \in Sources : r # s => src'[r] = src[r]

SetsSrc(s, state, expect, next) ==
  /\ src'[s] = [state |-> state, expect |-> expect, next |-> next]
  /\ src'[s].state = state
  /\ src'[s].expect = expect
  /\ src'[s].next = next
  /\ OnlySrc(s)

\* AddDatabaseSource of a source that is new.
Added(s) ==
  /\ src[s].expect = "unset"
  /\ SetsSrc(s, "Unknown", "Ready", NoTime)
  /\ known' = [known EXCEPT ![NameOf[s]] = s]
  /\ sends[s] = 0
  /\ sends' = [sends EXCEPT ![s] = 1]
  /\ parked' = parked \ {known[NameOf[s]]}
  /\ overtaken' = overtaken \ {known[NameOf[s]]}
  /\ UNCHANGED <<timers, statusVars, onlineVars, worker>>

\* MarkDatabaseSourceIdle of a source that is not yet to be idle.
MarkedIdle(s) ==
  \E t \in FreeTimes(NameOf[s]) :
    /\ t \in Times
    /\ t # NoTime
    /\ Current(s)
    /\ src[s].expect = "Ready"
    /\ SetsSrc(s, "Scheduling", "Idle", t)
    /\ timers' = timers \cup {[name |-> NameOf[s], at |-> t, kind |-> "idle"]}
    /\ UNCHANGED <<known, sends, worker, statusVars, onlineVars, history>>

\* A request does one of these, or leaves all but the files alone.
LEMMA AskDoes ==
  ASSUME Basic, Ask
  PROVE  \/ \E s \in Sources : Added(s) \/ MarkedIdle(s)
         \/ UNCHANGED <<handlerVars, statusVars, onlineVars, worker, history>>
<1> USE DEF Basic
<1>1. ASSUME NEW s \in Sources, AddDatabaseSource(s)
      PROVE  Added(s) \/ UNCHANGED <<handlerVars, statusVars, onlineVars, worker, history>>
  <2>1. CASE UNCHANGED <<handlerVars, statusVars, onlineVars, worker, history>> BY <2>1
  <2>2. CASE ~UNCHANGED <<handlerVars, statusVars, onlineVars, worker, history>>
    <3>1. /\ src[s].expect = "unset"
          /\ known' = [known EXCEPT ![NameOf[s]] = s]
          /\ src' = [src EXCEPT ![s].expect = "Ready"]
          /\ sends' = More(sends, s)
          /\ parked' = parked \ {known[NameOf[s]]}
          /\ overtaken' = overtaken \ {known[NameOf[s]]}
          /\ UNCHANGED <<timers, statusVars, onlineVars, worker>>
      BY <1>1, <2>2 DEF AddDatabaseSource
    <3>2. sends[s] = 0 /\ src[s].state = "Unknown" /\ src[s].next = NoTime BY <3>1 DEF Untouched
    <3>3. src' = [src EXCEPT ![s] = [state |-> "Unknown", expect |-> "Ready", next |-> NoTime]]
      <4>1. src' = [src EXCEPT ![s].expect = "Ready"] BY <3>1
      <4>2. src' = [src EXCEPT ![s] = [state |-> src[s].state, expect |-> "Ready", next |-> src[s].next]]
        BY <4>1, ExpectSet
      <4> QED BY <3>2, <4>2
    <3>4. SetsSrc(s, "Unknown", "Ready", NoTime) BY <3>3 DEF SetsSrc, OnlySrc, TypeOK
    <3>5. sends' = [sends EXCEPT ![s] = @ + 1] BY <3>1 DEF More
    <3> QED BY <3>1, <3>2, <3>4, <3>5 DEF Added
  <2> QED BY <2>1, <2>2
<1>2. ASSUME NEW n \in Names, MarkDatabaseSourceIdle(n)
      PROVE  \/ \E s \in Sources : MarkedIdle(s)
             \/ UNCHANGED <<handlerVars, statusVars, onlineVars, worker, history>>
  <2>1. CASE UNCHANGED <<handlerVars, statusVars, onlineVars, worker, history>> BY <2>1
  <2>2. CASE ~UNCHANGED <<handlerVars, statusVars, onlineVars, worker, history>>
    <3> DEFINE s == known[n]
    <3>1. /\ s # None
          /\ src[s].expect # "Idle"
          /\ FreeTimes(n) # {}
          /\ src' = [src EXCEPT ![s] = [state |-> "Scheduling", expect |-> "Idle", next |-> NewTime(n)]]
          /\ timers' = timers \cup {[name |-> n, at |-> NewTime(n), kind |-> "idle"]}
          /\ UNCHANGED <<known, sends, worker, statusVars, onlineVars, history>>
      BY <1>2, <2>2 DEF MarkDatabaseSourceIdle, handlerVars
    <3>2. s \in Sources /\ NameOf[s] = n /\ Current(s) BY <3>1 DEF TypeOK, KnownFits, Current
    <3>3. src[s].expect = "Ready" BY <3>1, <3>2, RecordsOf DEF Untouched
    <3>4. NewTime(n) \in FreeTimes(n) /\ NewTime(n) \in Times /\ NewTime(n) # NoTime
      BY <3>1, NewTimeIsFree
    <3> HIDE DEF s
    <3>5. SetsSrc(s, "Scheduling", "Idle", NewTime(n)) BY <3>1, <3>2 DEF SetsSrc, OnlySrc, TypeOK
    <3> QED BY <3>1, <3>2, <3>3, <3>4, <3>5 DEF MarkedIdle
  <2> QED BY <2>1, <2>2
<1> QED BY <1>1, <1>2, AskStep

\* What Process, SetPending and RetryNextTime assign to the source of a worker.
ProcessSets(w) == SetsSrc(Of(w), "Processing", src[Of(w)].expect, src[Of(w)].next)

PendingSets(w) == SetsSrc(Of(w), "Pending", src[Of(w)].expect, src[Of(w)].next)

\* Process and SetPending assign to the source of the worker alone.
LEMMA WorkerSets ==
  ASSUME TypeOK, HeldAreKnown, NEW w \in Workers
  PROVE  /\ worker[w].at # "idle" => Of(w) \in Sources
         /\ Process(w) => ProcessSets(w)
         /\ SetPending(w) => PendingSets(w)
<1>1. worker[w].at # "idle" => Of(w) \in Sources BY DEF HeldAreKnown
<1>2. ASSUME Process(w) PROVE ProcessSets(w)
  <2>1. Of(w) \in Sources BY <1>1, <1>2 DEF Process
  <2>2. src' = [src EXCEPT ![Of(w)] = [state |-> "Processing", expect |-> src[Of(w)].expect, next |-> src[Of(w)].next]]
    BY <1>2, <2>1, StateSet DEF Process
  <2> QED BY <2>1, <2>2 DEF ProcessSets, SetsSrc, OnlySrc, TypeOK
<1>3. ASSUME SetPending(w) PROVE PendingSets(w)
  <2>1. Of(w) \in Sources BY <1>1, <1>3 DEF SetPending
  <2>2. src' = [src EXCEPT ![Of(w)] = [state |-> "Pending", expect |-> src[Of(w)].expect, next |-> src[Of(w)].next]]
    BY <1>3, <2>1, StateSet DEF SetPending
  <2> QED BY <2>1, <2>2 DEF PendingSets, SetsSrc, OnlySrc, TypeOK
<1> QED BY <1>1, <1>2, <1>3

RetryTimed(w) ==
  \E t \in FreeTimes(NameOf[Of(w)]) :
    /\ t \in Times
    /\ t # NoTime
    /\ SetsSrc(Of(w), "Scheduling", src[Of(w)].expect, t)
    /\ timers' = timers \cup {[name |-> NameOf[Of(w)], at |-> t, kind |-> "retry"]}

\* RetryNextTime gives the source of the worker a time with a timer.
LEMMA RetryDoes ==
  ASSUME TypeOK, HeldAreKnown, NEW w \in Workers, RetryNextTime(w)
  PROVE  Of(w) \in Sources /\ RetryTimed(w)
<1> DEFINE t == NewTime(NameOf[Of(w)])
<1>1. t \in FreeTimes(NameOf[Of(w)]) /\ t \in Times /\ t # NoTime BY NewTimeIsFree DEF RetryNextTime
<1>2. Of(w) \in Sources BY DEF HeldAreKnown, RetryNextTime
<1>3. /\ src' = [src EXCEPT ![Of(w)] = Retried(src[Of(w)], t)]
      /\ timers' = timers \cup {[name |-> NameOf[Of(w)], at |-> t, kind |-> "retry"]}
  BY DEF RetryNextTime, RetryAt
<1> HIDE DEF t
<1>4. SetsSrc(Of(w), "Scheduling", src[Of(w)].expect, t)
  BY <1>2, <1>3 DEF Retried, SetsSrc, OnlySrc, TypeOK
<1> QED BY <1>1, <1>2, <1>3, <1>4 DEF RetryTimed

\* A timer sends the source that has the name now, or does nothing.
Fired(e) ==
  \/ /\ known[e.name] # None
     /\ known[e.name] \in Sources
     /\ Current(known[e.name])
     /\ src[known[e.name]].next = e.at
     /\ e.kind = "idle" => src[known[e.name]].expect = "Idle"
     /\ sends' = [sends EXCEPT ![known[e.name]] = @ + 1]
     /\ SetsSrc(known[e.name], src[known[e.name]].state, src[known[e.name]].expect, NoTime)
  \/ /\ ~ /\ known[e.name] # None
          /\ src[known[e.name]].next = e.at
          /\ e.kind = "idle" => src[known[e.name]].expect = "Idle"
     /\ UNCHANGED <<src, sends>>

\* The timers do that.
LEMMA TimerDoes ==
  ASSUME Basic, NEW e \in timers, TimerFires(e)
  PROVE  Fired(e)
<1> DEFINE s == known[e.name]
           sent == /\ s # None
                   /\ src[s].next = e.at
                   /\ e.kind = "idle" => src[s].expect = "Idle"
<1> USE DEF Basic
<1>1. e.name \in Names BY DEF TypeOK
<1>2. \/ sent /\ sends' = [sends EXCEPT ![s] = @ + 1] /\ src' = [src EXCEPT ![s].next = NoTime]
      \/ ~sent /\ UNCHANGED <<sends, src>>
  BY DEF TimerFires, More
<1>3. CASE ~sent BY <1>2, <1>3 DEF Fired
<1>4. CASE sent
  <2>1. s \in Sources /\ Current(s) BY <1>1, <1>4 DEF TypeOK, KnownFits, Current
  <2>2. src' = [src EXCEPT ![s].next = NoTime] /\ sends' = [sends EXCEPT ![s] = @ + 1] BY <1>2, <1>4
  <2> HIDE DEF s
  <2>3. src' = [src EXCEPT ![s] = [state |-> src[s].state, expect |-> src[s].expect, next |-> NoTime]]
    BY <2>1, <2>2, NextSet
  <2>4. SetsSrc(s, src[s].state, src[s].expect, NoTime) BY <2>1, <2>3 DEF SetsSrc, OnlySrc, TypeOK
  <2> QED BY <1>4, <2>1, <2>2, <2>4 DEF Fired, s
<1> QED BY <1>3, <1>4

\* Each step keeps the types.
LEMMA TypeNext ==
  ASSUME Basic, Next
  PROVE  TypeOK'
BY TypeAsk, TypeWorker, TypeTake, TypeTimer, TypeNotice, TypeInstance, TypeScan, TypeAgent
   DEF Basic, Next, Callback

\* The fields of a source that was told a status.
LEMMA Fields ==
  ASSUME NEW c, NEW t
  PROVE  /\ Reached(c).state = c.expect
         /\ Reached(c).expect = c.expect
         /\ Reached(c).next = NoTime
         /\ Retried(c, t).state = "Scheduling"
         /\ Retried(c, t).expect = c.expect
         /\ Retried(c, t).next = t
BY DEF Reached, Retried

\* A source that may have been told a status.
TellsSource(s) ==
  \/ src'[s] = src[s]
  \/ src'[s] = Reached(src[s])
  \/ \E t \in Times \cup {NoTime} : src'[s] = Retried(src[s], t)

\* Workers tell their own source, notices those that hear them, and scans those
\* that have the name.
LEMMA Tells ==
  ASSUME Basic
  PROVE  /\ \A w \in Workers : Sync(w) => OnlySrc(Of(w)) /\ TellsSource(Of(w))
         /\ \A i \in Instances, n \in Names : NoticeRuns(i, n) =>
               \A s \in Sources : TellsSource(s) /\ (s \notin Hearers(i, n) => src'[s] = src[s])
         /\ \A scan \in scans : ScanRuns(scan) =>
               \A s \in Sources : TellsSource(s) /\ (~Current(s) => src'[s] = src[s] /\ sends'[s] = sends[s])
<1> USE DEF Basic
<1>1. ASSUME NEW told, DOMAIN told \subseteq Sources, UpdateDbStatus(told), NEW s \in Sources
      PROVE  TellsSource(s) /\ (s \notin DOMAIN told => src'[s] = src[s])
  <2>1. SrcUpdates(s, told) BY <1>1, Updated
  <2> QED BY <2>1 DEF SrcUpdates, TellsSource
<1>2. ASSUME NEW w \in Workers, Sync(w) PROVE OnlySrc(Of(w)) /\ TellsSource(Of(w))
  <2>1. Of(w) \in Sources BY <1>2 DEF Sync, HeldAreKnown
  <2>2. CASE worker[w].saw = "absent" BY <1>2, <2>2 DEF Sync, OnlySrc, TellsSource
  <2>3. CASE worker[w].saw # "absent"
    <3>1. UpdateDbStatus(Told(Of(w), worker[w].saw)) BY <1>2, <2>3 DEF Sync
    <3>2. DOMAIN Told(Of(w), worker[w].saw) = {Of(w)} BY DEF Told
    <3> QED BY <1>1, <2>1, <3>1, <3>2 DEF OnlySrc
  <2> QED BY <2>2, <2>3
<1>3. ASSUME NEW i \in Instances, NEW n \in Names, NoticeRuns(i, n), NEW s \in Sources
      PROVE  TellsSource(s) /\ (s \notin Hearers(i, n) => src'[s] = src[s])
  <2> DEFINE told == [r \in Hearers(i, n) |-> db[i][n]]
  <2>1. DOMAIN told = Hearers(i, n) OBVIOUS
  <2>2. Hearers(i, n) \subseteq Sources BY DEF Hearers
  <2>3. UpdateDbStatus(told) \/ src' = src BY <1>3 DEF NoticeRuns
  <2> HIDE DEF told
  <2> QED BY <1>1, <2>1, <2>2, <2>3 DEF TellsSource
<1>4. ASSUME NEW scan \in scans, ScanRuns(scan), NEW s \in Sources
      PROVE  TellsSource(s) /\ (~Current(s) => src'[s] = src[s] /\ sends'[s] = sends[s])
  <2>1. ScanUpdates(scan, s) BY <1>4, Scanned
  <2> QED BY <2>1 DEF ScanUpdates, TellsSource, Wanting
<1> QED BY <1>2, <1>3, <1>4

\* A source that was added stays so, and one to be idle stays so: nothing gives up
\* what a source is expected to be.
LEMMA ExpectStays ==
  ASSUME Basic, Next, NEW s \in Sources, src[s].expect # "unset"
  PROVE  /\ src'[s].expect # "unset"
         /\ src[s].expect = "Idle" => src'[s].expect = "Idle"
<1> USE DEF Basic
<1>1. CASE src' = src BY <1>1
<1>2. CASE \E r \in Sources : Added(r) \/ MarkedIdle(r)
  BY <1>2 DEF Added, MarkedIdle, SetsSrc, OnlySrc
<1>3. ASSUME NEW r, NEW st, NEW nx, SetsSrc(r, st, src[r].expect, nx)
      PROVE  src'[s].expect = src[s].expect
  BY <1>3 DEF SetsSrc, OnlySrc
<1>4. CASE \E w \in Workers : Process(w) \/ SetPending(w) \/ RetryNextTime(w)
  BY <1>3, <1>4, WorkerSets, RetryDoes DEF ProcessSets, PendingSets, RetryTimed
<1>5. CASE \E e \in timers : TimerFires(e)
  BY <1>3, <1>5, TimerDoes DEF Fired
<1>6. ASSUME TellsSource(s) PROVE src'[s].expect = src[s].expect
  BY <1>6, Fields DEF TellsSource
<1>7. CASE \E w \in Workers : Sync(w) BY <1>6, <1>7, Tells DEF OnlySrc
<1>8. CASE \E i \in Instances, n \in Names : NoticeRuns(i, n) BY <1>6, <1>8, Tells
<1>9. CASE \E scan \in scans : ScanRuns(scan) BY <1>6, <1>9, Tells
<1>10. CASE \E w \in Workers : LookUp(w) \/ ReadPassword(w) \/ CreateDb(w) \/ \E r \in Sources : Take(w, r)
  BY <1>1, <1>10 DEF LookUp, ReadPassword, CreateDb, Take, handlerVars
<1>11. CASE \E i \in Instances : SetOnline(i) \/ Announce(i) \/ \E n \in Names : AgentNext(i, n)
  BY <1>1, <1>11, AgentFrame, AnnounceFrame, OnlineFrame DEF handlerVars
<1>12. CASE Ask BY <1>1, <1>2, <1>12, AskDoes DEF handlerVars
<1> QED BY <1>4, <1>5, <1>7, <1>8, <1>9, <1>10, <1>11, <1>12 DEF Next, WorkerNext, Callback

\* A worker goes on with its source, or leaves it.
LEMMA WorkerStep ==
  ASSUME NEW w, WorkerNext(w)
  PROVE  worker[w].at # "idle" /\ (LookUp(w) \/ Return(w) \/ \E step : Goto(w, step))
<1>1. CASE LookUp(w) BY <1>1 DEF LookUp
<1>2. CASE Sync(w) BY <1>2 DEF Sync
<1>3. CASE Process(w) BY <1>3 DEF Process
<1>4. CASE ReadPassword(w) BY <1>4 DEF ReadPassword
<1>5. CASE CreateDb(w) BY <1>5 DEF CreateDb
<1>6. CASE SetPending(w) BY <1>6 DEF SetPending
<1>7. CASE RetryNextTime(w) BY <1>7 DEF RetryNextTime
<1> QED BY <1>1, <1>2, <1>3, <1>4, <1>5, <1>6, <1>7 DEF WorkerNext

\* One worker moves at a time.
LEMMA OnlyWorker ==
  ASSUME TypeOK, NEW w \in Workers, WorkerNext(w) \/ \E s \in Sources : Take(w, s),
         NEW v \in Workers, v # w
  PROVE  worker'[v] = worker[v]
<1>1. CASE LookUp(w) BY <1>1 DEF LookUp, TypeOK
<1>2. CASE Return(w) BY <1>2 DEF Return, TypeOK
<1>3. CASE \E step : Goto(w, step) BY <1>3 DEF Goto, TypeOK
<1>4. CASE \E s \in Sources : Take(w, s) BY <1>4 DEF Take, TypeOK
<1> QED BY <1>1, <1>2, <1>3, <1>4, WorkerStep

\* The sources of the workers stay added ones.
LEMMA HeldNext ==
  ASSUME Basic, Next
  PROVE  HeldAreKnown'
<1> USE DEF Basic
<1>1. SUFFICES ASSUME NEW w \in Workers, worker'[w].at # "idle"
               PROVE  worker'[w].of \in Sources /\ src'[worker'[w].of].expect # "unset"
  BY DEF HeldAreKnown, Of
<1>2. CASE worker[w].at # "idle" /\ worker'[w].of = worker[w].of
  BY <1>2, ExpectStays DEF HeldAreKnown, Of
<1>3. CASE \E s \in Sources : Take(w, s)
  <2>1. PICK s \in Sources : Take(w, s) BY <1>3
  <2>2. worker'[w].of = s BY <2>1 DEF Take, TypeOK
  <2>3. src[s].expect # "unset" BY <2>1 DEF Take, Untouched
  <2> QED BY <2>2, <2>3, ExpectStays
<1>4. CASE ~ \E s \in Sources : Take(w, s)
  <2>1. \/ worker'[w] = worker[w]
        \/ Return(w)
        \/ worker[w].at # "idle" /\ \E step : Goto(w, step)
        \/ LookUp(w)
    <3>1. ASSUME NEW v \in Workers, WorkerNext(v) \/ \E s \in Sources : Take(v, s)
          PROVE  v # w => worker'[w] = worker[w]
      BY <3>1, OnlyWorker
    <3>2. CASE WorkerNext(w)
      BY <3>2, WorkerStep
    <3>3. CASE worker' = worker BY <3>3
    <3>4. ASSUME ~ \E v \in Workers : WorkerNext(v) \/ \E s \in Sources : Take(v, s)
          PROVE  worker' = worker
      <4>1. CASE Ask BY <4>1, AskDoes DEF Added, MarkedIdle
      <4>2. CASE \E e \in timers : TimerFires(e) BY <4>2, TimerFrame
      <4>3. CASE Callback BY <4>3, NoticeFrame, AnnounceFrame, ScanFrame DEF Callback
      <4>4. CASE \E i \in Instances : SetOnline(i) \/ \E n \in Names : AgentNext(i, n)
        BY <4>4, OnlineFrame, AgentFrame
      <4> QED BY <3>4, <4>1, <4>2, <4>3, <4>4 DEF Next
    <3> QED BY <1>4, <3>1, <3>2, <3>3, <3>4
  <2>2. Return(w) => worker'[w].at = "idle" BY DEF Return, NoWork, TypeOK
  <2>3. \A step : Goto(w, step) => worker'[w].of = worker[w].of BY DEF Goto, Of, TypeOK
  <2>4. LookUp(w) => worker'[w].of = worker[w].of /\ worker[w].at # "idle" BY DEF LookUp, Of, TypeOK
  <2> QED BY <1>1, <1>2, <2>1, <2>2, <2>3, <2>4
<1> QED BY <1>3, <1>4

\* A source is known under its own name.
LEMMA KnownNext ==
  ASSUME Basic, Next
  PROVE  KnownFits'
<1> USE DEF Basic
<1>1. CASE known' = known BY <1>1 DEF KnownFits
<1>2. CASE \E s \in Sources : Added(s) BY <1>2 DEF Added, KnownFits, TypeOK
<1>3. CASE Ask BY <1>1, <1>2, <1>3, AskDoes DEF MarkedIdle, handlerVars
<1>4. CASE ~Ask
  BY <1>1, <1>4, WorkerFrame, AgentFrame, TakeFrame, TimerFrame, NoticeFrame, AnnounceFrame, ScanFrame, OnlineFrame
     DEF Next, Callback, handlerVars
<1> QED BY <1>3, <1>4

\* A source nobody added stays as it is.
LEMMA UntouchedNext ==
  ASSUME Basic, Next
  PROVE  Untouched'
<1> USE DEF Basic
<1>1. SUFFICES ASSUME NEW s \in Sources, src'[s].expect = "unset"
               PROVE  src'[s].state = "Unknown" /\ src'[s].next = NoTime /\ sends'[s] = 0 /\ ~Current(s)'
  BY DEF Untouched
<1>2. src[s].expect = "unset" /\ ~Current(s) BY <1>1, ExpectStays DEF Untouched
<1> SUFFICES src'[s] = src[s] /\ sends'[s] = sends[s] /\ (Current(s)' => Current(s))
  BY <1>2 DEF Untouched
<1>3. CASE UNCHANGED <<known, src, sends>> BY <1>3 DEF Current
<1>4. CASE Ask
  <2>1. ASSUME NEW r \in Sources, Added(r) PROVE src'[s] = src[s] /\ sends'[s] = sends[s] /\ ~Current(s)'
    <3>1. r # s BY <1>1, <2>1 DEF Added, SetsSrc
    <3>2. known'[NameOf[s]] = known[NameOf[s]] \/ known'[NameOf[s]] = r
      BY <2>1, ConfigAssumption DEF Added, TypeOK
    <3> QED BY <1>2, <2>1, <3>1, <3>2 DEF Added, SetsSrc, OnlySrc, TypeOK, Current
  <2>2. ASSUME NEW r \in Sources, MarkedIdle(r) PROVE src'[s] = src[s] /\ UNCHANGED <<known, sends>>
    <3>1. r # s BY <1>2, <2>2 DEF MarkedIdle
    <3> QED BY <2>2, <3>1 DEF MarkedIdle, SetsSrc, OnlySrc
  <2> QED BY <1>3, <1>4, <2>1, <2>2, AskDoes DEF handlerVars, Current
<1>5. ASSUME NEW r \in Sources, r # s, OnlySrc(r), UNCHANGED <<known, sends>>
      PROVE  src'[s] = src[s] /\ sends'[s] = sends[s] /\ (Current(s)' => Current(s))
  BY <1>5 DEF OnlySrc, Current
<1>6. \A w \in Workers : worker[w].at # "idle" => Of(w) \in Sources /\ Of(w) # s
  BY <1>2 DEF HeldAreKnown
<1>7. CASE \E w \in Workers : Process(w) \/ SetPending(w) \/ RetryNextTime(w) \/ Sync(w)
  <2>1. PICK w \in Workers : Process(w) \/ SetPending(w) \/ RetryNextTime(w) \/ Sync(w) BY <1>7
  <2>2. OnlySrc(Of(w))
    BY <2>1, WorkerSets, RetryDoes, Tells DEF ProcessSets, PendingSets, RetryTimed, SetsSrc
  <2>3. worker[w].at # "idle" /\ UNCHANGED <<known, sends>>
    BY <2>1 DEF Process, SetPending, RetryNextTime, Sync
  <2> QED BY <1>5, <1>6, <2>2, <2>3
<1>8. CASE \E e \in timers : TimerFires(e)
  <2>1. PICK e \in timers : TimerFires(e) BY <1>8
  <2>2. known' = known /\ Fired(e) BY <2>1, TimerDoes, TimerFrame
  <2>3. CASE UNCHANGED <<src, sends>> BY <1>3, <2>2, <2>3
  <2>4. CASE ~UNCHANGED <<src, sends>>
    <3>1. /\ known[e.name] # None
          /\ sends' = [sends EXCEPT ![known[e.name]] = @ + 1]
          /\ OnlySrc(known[e.name])
      BY <2>2, <2>4 DEF Fired, SetsSrc
    <3>2. e.name \in Names BY DEF TypeOK, Timer
    <3>3. known[e.name] # s BY <1>2, <3>1, <3>2 DEF Current, KnownFits
    <3>4. src'[s] = src[s] BY <3>1, <3>3 DEF OnlySrc
    <3>5. sends'[s] = sends[s] BY <3>1, <3>3 DEF TypeOK
    <3> QED BY <1>2, <2>2, <3>4, <3>5 DEF Current
  <2> QED BY <2>3, <2>4
<1>9. CASE \E i \in Instances, n \in Names : NoticeRuns(i, n)
  <2>1. PICK i \in Instances, n \in Names : NoticeRuns(i, n) BY <1>9
  <2>2. s \notin Hearers(i, n) BY <1>2 DEF Hearers
  <2>3. src'[s] = src[s] BY <2>1, <2>2, Tells
  <2> QED BY <2>1, <2>3 DEF NoticeRuns, Current
<1>10. CASE \E scan \in scans : ScanRuns(scan)
  <2>1. PICK scan \in scans : ScanRuns(scan) BY <1>10
  <2>2. src'[s] = src[s] /\ sends'[s] = sends[s] BY <1>2, <2>1, Tells
  <2>3. known' = known BY <2>1, ScanFrame
  <2> QED BY <2>2, <2>3 DEF Current
<1>11. CASE \E w \in Workers, r \in Sources : Take(w, r)
  <2>1. PICK w \in Workers, r \in Sources : Take(w, r) BY <1>11
  <2>2. r # s BY <2>1, <1>2 DEF Take, Untouched
  <2> QED BY <2>1, <2>2 DEF Take, Fewer, TypeOK, Current
<1>12. CASE \E w \in Workers : LookUp(w) \/ ReadPassword(w) \/ CreateDb(w)
  BY <1>3, <1>12 DEF LookUp, ReadPassword, CreateDb, handlerVars
<1>13. CASE \E i \in Instances : SetOnline(i) \/ Announce(i) \/ \E n \in Names : AgentNext(i, n)
  BY <1>3, <1>13, AgentFrame, AnnounceFrame, OnlineFrame DEF handlerVars
<1> QED BY <1>4, <1>7, <1>8, <1>9, <1>10, <1>11, <1>12, <1>13 DEF Next, WorkerNext, Callback

\* Databases change only by an entry that CreateDb makes.
EntriesOnly ==
  \A i \in Instances, n \in Names :
    db'[i][n] = db[i][n] \/ (db[i][n] = "absent" /\ db'[i][n] = "none")

\* CreateDb of the instance makes no more than the entry.
LEMMA EntryOnly ==
  ASSUME TypeOK, NEW k \in Instances, NEW m \in Names, NEW i \in Instances, NEW n \in Names,
         NEW entered, entered = WithEntry(k, m)
  PROVE  \/ entered[i][n] = db[i][n]
         \/ db[i][n] = "absent" /\ entered[i][n] = "none"
<1>1. db[i] \in [Names -> DbStatuses] BY DEF TypeOK
<1>2. CASE db[k][m] = "absent"
  <2>1. entered = [db EXCEPT ![k] = [db[k] EXCEPT ![m] = "none"]] BY <1>2 DEF WithEntry
  <2>2. CASE i = k /\ n = m BY <1>1, <1>2, <2>1, <2>2 DEF TypeOK
  <2>3. CASE i = k /\ n # m
    <3>1. entered[i] = [db[k] EXCEPT ![m] = "none"] BY <2>1, <2>3 DEF TypeOK
    <3> QED BY <1>1, <2>3, <3>1
  <2>4. CASE i # k
    <3>1. entered[i] = db[i] BY <2>1, <2>4 DEF TypeOK
    <3> QED BY <3>1
  <2> QED BY <2>2, <2>3, <2>4
<1>3. CASE db[k][m] # "absent" BY <1>3 DEF WithEntry
<1> QED BY <1>2, <1>3

\* A worker that asks for a database makes no more than the entry.
LEMMA CreateDbDoes ==
  ASSUME TypeOK, HeldAreKnown, NEW w \in Workers, CreateDb(w)
  PROVE  EntriesOnly
<1>1. db' = db \/ db' = WithEntry(InstanceOf[Of(w)], NameOf[Of(w)]) BY DEF CreateDb
<1>2. Of(w) \in Sources BY DEF CreateDb, HeldAreKnown
<1>3. InstanceOf[Of(w)] \in Instances /\ NameOf[Of(w)] \in Names BY <1>2, ConfigAssumption
<1>4. ASSUME NEW i \in Instances, NEW n \in Names
      PROVE  db'[i][n] = db[i][n] \/ (db[i][n] = "absent" /\ db'[i][n] = "none")
  <2>1. CASE db' = db BY <2>1
  <2>2. CASE db' = WithEntry(InstanceOf[Of(w)], NameOf[Of(w)]) BY <1>3, <2>2, EntryOnly
  <2> QED BY <1>1, <2>1, <2>2
<1> QED BY <1>4 DEF EntriesOnly

\* Nor does a notice that asks for the databases that waited for it.
LEMMA NoticeEntries ==
  ASSUME TypeOK, NEW i \in Instances, NEW n \in Names, NoticeRuns(i, n)
  PROVE  EntriesOnly
<1> DEFINE moving == IF db[i][n] = "idle" THEN {s \in followUps : FromOf[s] = i /\ NameOf[s] = n} ELSE {}
<1>1. db' = [k \in Instances |-> IF \E s \in moving : InstanceOf[s] = k THEN WithEntry(k, n)[k] ELSE db[k]]
  BY DEF NoticeRuns
<1> HIDE DEF moving
<1>2. ASSUME NEW k \in Instances PROVE db'[k] = db[k] \/ db'[k] = WithEntry(k, n)[k] BY <1>1
<1>3. ASSUME NEW k \in Instances, NEW m \in Names
      PROVE  db'[k][m] = db[k][m] \/ (db[k][m] = "absent" /\ db'[k][m] = "none")
  <2>1. PICK entered : entered = WithEntry(k, n) OBVIOUS
  <2>2. entered[k][m] = db[k][m] \/ (db[k][m] = "absent" /\ entered[k][m] = "none")
    BY <2>1, EntryOnly
  <2>3. db'[k] = db[k] \/ db'[k] = entered[k] BY <1>2, <2>1
  <2> QED BY <2>2, <2>3
<1> QED BY <1>3 DEF EntriesOnly

\* Whenever the agent changes a status, it gives a notice.
LEMMA AgentDoes ==
  ASSUME TypeOK, NEW i \in Instances, NEW n \in Names, AgentNext(i, n)
  PROVE  /\ \/ UNCHANGED <<db, notices>>
            \/ \E status \in {"ready", "working", "failed", "leaving", "idle"} :
                 /\ db' = [db EXCEPT ![i][n] = status]
                 /\ notices' = [notices EXCEPT ![i] = [notices[i] EXCEPT ![n] = @ + 1]]
                 /\ status \in {"leaving", "idle"} <=> db[i][n] = "ready" \/ db[i][n] = "leaving"
         /\ UNCHANGED <<handlerVars, fileName, worker, followUps, onlineVars, history>>
BY DEF AgentNext, AgentReports, AgentStarts, AgentIgnores, AgentEnds, DbBecomes, More, Asks

\* A database the agent has reported stays reported.
LEMMA NoticedNext ==
  ASSUME Basic, Next
  PROVE  NoticedAreThere'
<1> USE DEF Basic
<1>1. ASSUME EntriesOnly, \A i \in Instances, n \in Names : notices'[i][n] <= notices[i][n]
      PROVE  NoticedAreThere'
  <2>1. SUFFICES ASSUME NEW i \in Instances, NEW n \in Names, notices'[i][n] > 0
                 PROVE  db'[i][n] \notin {"absent", "none"}
    BY DEF NoticedAreThere
  <2>2. notices[i][n] \in Nat /\ notices'[i][n] \in Nat BY TypeNext, BoundAssumption DEF TypeOK
  <2>3. notices[i][n] > 0 BY <1>1, <2>1, <2>2
  <2> QED BY <1>1, <2>3 DEF NoticedAreThere, EntriesOnly
<1>2. CASE UNCHANGED <<db, notices>> BY <1>2 DEF NoticedAreThere
<1>3. CASE \E w \in Workers : CreateDb(w)
  <2>1. EntriesOnly /\ notices' = notices BY <1>3, CreateDbDoes DEF CreateDb
  <2>2. \A i \in Instances, n \in Names : notices[i][n] \in Nat BY BoundAssumption DEF TypeOK
  <2> QED BY <1>1, <2>1, <2>2
<1>4. CASE \E i \in Instances, n \in Names : NoticeRuns(i, n)
  <2>1. PICK i \in Instances, n \in Names : NoticeRuns(i, n) BY <1>4
  <2>2. notices' = [notices EXCEPT ![i] = [notices[i] EXCEPT ![n] = @ - 1]]
    BY <2>1 DEF NoticeRuns, Fewer
  <2>3. \A k \in Instances, m \in Names : notices'[k][m] <= notices[k][m]
    BY <2>2, BoundAssumption DEF TypeOK
  <2> QED BY <1>1, <2>1, <2>3, NoticeEntries
<1>5. CASE \E i \in Instances, n \in Names : AgentNext(i, n)
  <2>1. PICK i \in Instances, n \in Names : AgentNext(i, n) BY <1>5
  <2>2. SUFFICES ASSUME NEW status \in {"ready", "working", "failed", "leaving", "idle"},
                        db' = [db EXCEPT ![i][n] = status],
                        notices' = [notices EXCEPT ![i] = [notices[i] EXCEPT ![n] = @ + 1]]
                 PROVE  NoticedAreThere'
    BY <1>2, <2>1, AgentDoes
  <2>3. ASSUME NEW k \in Instances, NEW m \in Names, notices'[k][m] > 0
        PROVE  db'[k][m] \notin {"absent", "none"}
    <3>1. CASE k = i /\ m = n BY <2>2, <3>1 DEF TypeOK
    <3>2. CASE ~(k = i /\ m = n)
      <4>1. db'[k][m] = db[k][m] /\ notices'[k][m] = notices[k][m] BY <2>2, <3>2 DEF TypeOK
      <4> QED BY <2>3, <4>1 DEF NoticedAreThere
    <3> QED BY <3>1, <3>2
  <2> QED BY <2>3 DEF NoticedAreThere
<1>6. CASE Ask BY <1>2, <1>6, AskDoes DEF Added, MarkedIdle, statusVars
<1>7. CASE \E w \in Workers : (WorkerNext(w) /\ ~CreateDb(w)) \/ \E s \in Sources : Take(w, s)
  BY <1>2, <1>7, WorkerFrame, TakeFrame DEF statusVars
<1>8. CASE \/ \E e \in timers : TimerFires(e)
           \/ \E scan \in scans : ScanRuns(scan)
           \/ \E i \in Instances : SetOnline(i) \/ Announce(i)
  BY <1>2, <1>8, TimerFrame, AnnounceFrame, ScanFrame, OnlineFrame DEF statusVars
<1> QED BY <1>3, <1>4, <1>5, <1>6, <1>7, <1>8 DEF Next, Callback

\* The types and the facts about sources nobody added are inductive.
LEMMA BasicNext ==
  ASSUME Basic, [Next]_vars
  PROVE  Basic'
<1>1. CASE Next
  BY <1>1, TypeNext, HeldNext, KnownNext, UntouchedNext, NoticedNext DEF Basic
<1>2. CASE UNCHANGED vars
  BY <1>2 DEF vars, handlerVars, statusVars, onlineVars, history, Basic, TypeOK, HeldAreKnown, Of,
         Untouched, Current,
              KnownFits, NoticedAreThere
<1> QED BY <1>1, <1>2

-----------------------------------------------------------------------------
(* Times and timers *)

\* A source that waits for a time is not what it should be; a timer stands for that
\* time; and if it is the timer of the delayed idling, the source is to be idle.
TimedAreUnsynced == \A s \in Sources : src[s].next # NoTime => ~Synced(src[s])

TimersStand ==
  \A s \in Sources : Current(s) /\ src[s].next # NoTime =>
    \E e \in timers : e.name = NameOf[s] /\ e.at = src[s].next

IdleTimersFit ==
  \A s \in Sources, e \in timers :
    Current(s) /\ e.name = NameOf[s] /\ e.at = src[s].next /\ e.kind = "idle" => src[s].expect = "Idle"

Timing == TimedAreUnsynced /\ TimersStand /\ IdleTimersFit

\* The same of one source.
SourceTiming(s) ==
  /\ src[s].next # NoTime => ~Synced(src[s])
  /\ Current(s) /\ src[s].next # NoTime =>
       \E e \in timers : e.name = NameOf[s] /\ e.at = src[s].next
  /\ \A e \in timers :
       Current(s) /\ e.name = NameOf[s] /\ e.at = src[s].next /\ e.kind = "idle" => src[s].expect = "Idle"

\* Timing is what holds of each source.
LEMMA TimingOfEach ==
  Timing <=> \A s \in Sources : SourceTiming(s)
BY DEF Timing, TimedAreUnsynced, TimersStand, IdleTimersFit, SourceTiming

\* A step that adds timers with times of their own and leaves the time of the source
\* keeps it.
LEMMA TimingStays ==
  ASSUME Basic, Basic', Timing, NEW s \in Sources, TimersGrow,
         src'[s].next = src[s].next,
         src'[s].expect = src[s].expect,
         src'[s].next # NoTime => ~Synced(src'[s]),
         Current(s)' => Current(s)
  PROVE  SourceTiming(s)'
<1>1. SourceTiming(s) BY TimingOfEach
<1>2. ASSUME NEW e \in timers', Current(s)', e.name = NameOf[s], e.at = src'[s].next, e.kind = "idle"
      PROVE  src'[s].expect = "Idle"
  BY <1>1, <1>2 DEF TimersGrow, SourceTiming
<1>3. ASSUME Current(s)', src'[s].next # NoTime
      PROVE  \E e \in timers' : e.name = NameOf[s] /\ e.at = src'[s].next
  BY <1>1, <1>3 DEF TimersGrow, SourceTiming
<1> QED BY <1>2, <1>3 DEF SourceTiming

\* So does a step that tells the source a status.
LEMMA TimingTold ==
  ASSUME Basic, Basic', Timing, NEW s \in Sources, TimersGrow,
         \/ src'[s] = src[s]
         \/ src'[s] = Reached(src[s])
         \/ src'[s] = Retried(src[s], NoTime)
         \/ \E t \in FreeTimes(NameOf[s]) :
              /\ src'[s] = Retried(src[s], t)
              /\ [name |-> NameOf[s], at |-> t, kind |-> "retry"] \in timers',
         Current(s)' => Current(s)
  PROVE  SourceTiming(s)'
<1>1. CASE src'[s] = src[s] BY <1>1, TimingStays, TimingOfEach DEF SourceTiming
<1>2. CASE src'[s].next = NoTime
  <2>1. \A e \in timers' : e.at # NoTime BY DEF Basic, TypeOK, Times, NoTime
  <2> QED BY <1>2, <2>1 DEF SourceTiming
<1>3. ASSUME NEW t \in FreeTimes(NameOf[s]),
             src'[s] = Retried(src[s], t),
             [name |-> NameOf[s], at |-> t, kind |-> "retry"] \in timers'
      PROVE  SourceTiming(s)'
  <2>1. src'[s].state = "Scheduling" /\ src'[s].expect = src[s].expect /\ src'[s].next = t
    BY <1>3, Fields
  <2>2. ~Synced(src'[s]) BY <2>1, RecordsOf DEF Synced, Basic
  <2>3. ASSUME NEW e \in timers', e.name = NameOf[s], e.at = t PROVE e.kind # "idle"
    BY <2>3 DEF TimersGrow, FreeTimes
  <2> QED BY <1>3, <2>1, <2>2, <2>3 DEF SourceTiming
<1>4. src'[s] = Reached(src[s]) \/ src'[s] = Retried(src[s], NoTime) => src'[s].next = NoTime
  BY Fields
<1> QED BY <1>1, <1>2, <1>3, <1>4

\* Each step keeps it: a time is taken from the source before its timer goes.
LEMMA TimingNext ==
  ASSUME Basic, Basic', Timing, Next
  PROVE  Timing'
<1> SUFFICES ASSUME NEW s \in Sources PROVE SourceTiming(s)'
  BY TimingOfEach DEF Timing, TimedAreUnsynced, TimersStand, IdleTimersFit, SourceTiming
<1> USE DEF Basic
<1>1. SourceTiming(s) BY TimingOfEach
<1>2. CASE UNCHANGED <<known, src, timers>> BY <1>1, <1>2 DEF SourceTiming, Current
<1>3. CASE \E r \in Sources : Added(r)
  <2>1. PICK r \in Sources : Added(r) BY <1>3
  <2>2. TimersGrow BY <2>1 DEF Added, TimersGrow
  <2>3. CASE r = s
    <3>1. src'[s].next = NoTime BY <2>1, <2>3 DEF Added, SetsSrc
    <3>2. \A e \in timers' : e.at # NoTime BY DEF Basic, TypeOK, Times, NoTime
    <3> QED BY <3>1, <3>2 DEF SourceTiming
  <2>4. CASE r # s
    <3>1. src'[s] = src[s] /\ (Current(s)' => Current(s))
      BY <2>1, <2>4 DEF Added, SetsSrc, OnlySrc, Current, TypeOK
    <3> QED BY <2>2, <3>1, TimingTold
  <2> QED BY <2>3, <2>4
<1>4. CASE \E r \in Sources : MarkedIdle(r)
  <2>1. PICK r \in Sources : MarkedIdle(r) BY <1>4
  <2>2. PICK t \in FreeTimes(NameOf[r]) :
          /\ Current(r)
          /\ t # NoTime
          /\ SetsSrc(r, "Scheduling", "Idle", t)
          /\ timers' = timers \cup {[name |-> NameOf[r], at |-> t, kind |-> "idle"]}
          /\ known' = known
    BY <2>1 DEF MarkedIdle
  <2>3. CASE r = s
    <3>1. ~Synced(src'[s]) BY <2>2, <2>3 DEF Synced, SetsSrc
    <3>2. [name |-> NameOf[r], at |-> t, kind |-> "idle"] \in timers' BY <2>2
    <3> QED BY <2>2, <2>3, <3>1, <3>2 DEF SourceTiming, SetsSrc
  <2>4. CASE r # s
    <3>1. src'[s] = src[s] BY <2>2, <2>4 DEF SetsSrc, OnlySrc
    <3>2. ASSUME Current(s) PROVE NameOf[s] # NameOf[r] BY <2>2, <2>4, <3>2 DEF Current
    <3> QED BY <1>1, <2>2, <3>1, <3>2 DEF SourceTiming, Current
  <2> QED BY <2>3, <2>4
<1>5. CASE \E w \in Workers : Process(w) \/ SetPending(w)
  <2>1. PICK w \in Workers : Process(w) \/ SetPending(w) BY <1>5
  <2>2. UNCHANGED <<known, timers>> /\ TimersGrow BY <2>1 DEF Process, SetPending, TimersGrow
  <2>3. SetsSrc(Of(w), "Processing", src[Of(w)].expect, src[Of(w)].next) \/ SetsSrc(Of(w), "Pending", src[Of(w)].expect, src[Of(w)].next)
    BY <2>1, WorkerSets DEF ProcessSets, PendingSets
  <2>4. CASE s = Of(w)
    <3>1. src'[s].next = src[s].next /\ src'[s].expect = src[s].expect /\ src'[s].state \in {"Processing", "Pending"}
      BY <2>3, <2>4 DEF SetsSrc
    <3>2. ~Synced(src'[s]) BY <3>1, RecordsOf DEF Synced
    <3> QED BY <2>2, <3>1, <3>2, TimingStays DEF Current
  <2>5. CASE s # Of(w)
    <3>1. src'[s] = src[s] BY <2>3, <2>5 DEF SetsSrc, OnlySrc
    <3> QED BY <2>2, <3>1, TimingTold DEF Current
  <2> QED BY <2>4, <2>5
<1>6. CASE \E w \in Workers : RetryNextTime(w)
  <2>1. PICK w \in Workers : RetryNextTime(w) BY <1>6
  <2>2. PICK t \in FreeTimes(NameOf[Of(w)]) :
          /\ t \in Times
          /\ SetsSrc(Of(w), "Scheduling", src[Of(w)].expect, t)
          /\ timers' = timers \cup {[name |-> NameOf[Of(w)], at |-> t, kind |-> "retry"]}
    BY <2>1, RetryDoes DEF RetryTimed
  <2>3. Of(w) \in Sources /\ NameOf[Of(w)] \in Names BY <2>1, RetryDoes, ConfigAssumption
  <2>4. TimersGrow /\ known' = known BY <2>1, <2>2, <2>3 DEF TimersGrow, RetryNextTime
  <2>5. CASE s = Of(w)
    <3>1. src'[s] = Retried(src[s], t) BY <2>2, <2>5 DEF SetsSrc, Retried
    <3> QED BY <2>2, <2>4, <2>5, <3>1, TimingTold DEF Current
  <2>6. CASE s # Of(w)
    <3>1. src'[s] = src[s] BY <2>2, <2>6 DEF SetsSrc, OnlySrc
    <3> QED BY <2>4, <3>1, TimingTold DEF Current
  <2> QED BY <2>5, <2>6
<1>7. CASE \E e \in timers : TimerFires(e)
  <2>1. PICK e \in timers : TimerFires(e) BY <1>7
  <2>2. timers' = timers \ {e} /\ known' = known BY <2>1 DEF TimerFires
  <2>3. Fired(e) BY <2>1, TimerDoes
  <2>4. CASE src'[s].next = NoTime
    <3>1. \A d \in timers' : d.at # NoTime BY DEF Basic, TypeOK, Times, NoTime
    <3> QED BY <2>4, <3>1 DEF SourceTiming
  <2>5. CASE src'[s] = src[s] /\ src[s].next # NoTime
    <3>1. Current(s) /\ e.name = NameOf[s] => src[s].next # e.at
      <4>1. SUFFICES ASSUME Current(s), e.name = NameOf[s], src[s].next = e.at PROVE FALSE OBVIOUS
      <4>2. known[e.name] = s /\ s # None BY <4>1, NoneAssumption DEF Current
      <4>3. e.kind = "idle" => src[s].expect = "Idle" BY <1>1, <2>1, <4>1 DEF SourceTiming
      <4>4. SetsSrc(s, src[s].state, src[s].expect, NoTime) BY <2>3, <4>1, <4>2, <4>3 DEF Fired
      <4> QED BY <2>5, <4>4 DEF SetsSrc
    <3> QED BY <1>1, <2>2, <2>5, <3>1 DEF SourceTiming, Current
  <2>6. src'[s] = src[s] \/ src'[s].next = NoTime BY <2>3 DEF Fired, SetsSrc, OnlySrc
  <2> QED BY <2>4, <2>5, <2>6
<1>8. ASSUME NEW told, DOMAIN told \subseteq Sources, UpdateDbStatus(told), known' = known
      PROVE  SourceTiming(s)'
  <2>1. SrcUpdates(s, told) /\ TimersGrow BY <1>8, Updated
  <2> QED BY <1>8, <2>1, TimingTold DEF SrcUpdates, Current
<1>9. CASE \E w \in Workers : Sync(w)
  <2>1. PICK w \in Workers : Sync(w) BY <1>9
  <2>2. Of(w) \in Sources /\ DOMAIN Told(Of(w), worker[w].saw) = {Of(w)}
    BY <2>1 DEF Sync, HeldAreKnown, Told
  <2> QED BY <1>2, <1>8, <2>1, <2>2 DEF Sync
<1>10. CASE \E i \in Instances, n \in Names : NoticeRuns(i, n)
  <2>1. PICK i \in Instances, n \in Names : NoticeRuns(i, n) BY <1>10
  <2> DEFINE told == [r \in Hearers(i, n) |-> db[i][n]]
  <2>2. DOMAIN told \subseteq Sources BY DEF Hearers
  <2>3. UpdateDbStatus(told) \/ UNCHANGED <<src, timers>> BY <2>1 DEF NoticeRuns
  <2>4. known' = known BY <2>1 DEF NoticeRuns
  <2> HIDE DEF told
  <2> QED BY <1>2, <1>8, <2>2, <2>3, <2>4
<1>11. CASE \E scan \in scans : ScanRuns(scan)
  <2>1. PICK scan \in scans : ScanRuns(scan) BY <1>11
  <2>2. ScanUpdates(scan, s) /\ TimersGrow BY <2>1, Scanned
  <2>3. known' = known BY <2>1 DEF ScanRuns
  <2> QED BY <2>2, <2>3, TimingTold DEF ScanUpdates, Current
<1>12. CASE \E w \in Workers : LookUp(w) \/ ReadPassword(w) \/ CreateDb(w) \/ \E r \in Sources : Take(w, r)
  BY <1>2, <1>12 DEF LookUp, ReadPassword, CreateDb, Take, handlerVars
<1>13. CASE \E i \in Instances : SetOnline(i) \/ Announce(i) \/ \E n \in Names : AgentNext(i, n)
  BY <1>2, <1>13, AgentFrame, AnnounceFrame, OnlineFrame DEF handlerVars
<1>14. CASE Ask BY <1>2, <1>3, <1>4, <1>14, AskDoes DEF handlerVars
<1> QED BY <1>5, <1>6, <1>7, <1>9, <1>10, <1>11, <1>12, <1>13, <1>14 DEF Next, WorkerNext, Callback

-----------------------------------------------------------------------------
(* What was ready *)

\* A source was added that wants the database moved away from the instance.
Mover(i, n) == \E s \in Sources : NameOf[s] = n /\ FromOf[s] = i /\ src[s].expect # "unset"

\* The database is ready, or was until it was moved away.
WasReady(i, n) == db[i][n] = "ready" \/ (Stage(db[i][n]) = "Idle" /\ Mover(i, n))

\* The agent is asked to let a database leave only for such a source, and who takes
\* a database for ready, a source, a worker or a scan, has seen it so.
LeavingIsAsked == \A i \in Instances, n \in Names : job[i][n] = "leave" => Mover(i, n)

HeardReady ==
  /\ \A s \in Sources : src[s].state = "Ready" => WasReady(InstanceOf[s], NameOf[s])
  /\ \A w \in Workers :
       worker[w].at # "idle" /\ worker[w].saw = "ready" => WasReady(InstanceOf[Of(w)], NameOf[Of(w)])
  /\ \A scan \in scans, n \in Names : scan.saw[n] = "ready" => WasReady(scan.of, n)

Truth == LeavingIsAsked /\ HeardReady

\* How a database may change: a database that is ready changes only by leaving.
LEMMA DbMoves ==
  ASSUME Basic, Next, NEW i \in Instances, NEW n \in Names
  PROVE  \/ db'[i][n] = db[i][n]
         \/ (db[i][n] = "absent" /\ db'[i][n] = "none")
         \/ (db[i][n] = "ready" /\ job[i][n] = "leave" /\ db'[i][n] = "leaving")
         \/ (db[i][n] = "leaving" /\ db'[i][n] = "idle")
         \/ (db[i][n] \in {"absent", "none", "working", "failed"} /\ db'[i][n] \in {"working", "ready", "failed"})
<1> USE DEF Basic
<1>1. CASE db' = db BY <1>1
<1>2. CASE EntriesOnly BY <1>2 DEF EntriesOnly
<1>3. CASE \E w \in Workers : CreateDb(w) BY <1>2, <1>3, CreateDbDoes
<1>4. CASE \E k \in Instances, m \in Names : NoticeRuns(k, m) BY <1>2, <1>4, NoticeEntries
<1>5. CASE \E k \in Instances, m \in Names : AgentNext(k, m)
  <2>1. PICK k \in Instances, m \in Names : AgentNext(k, m) BY <1>5
  <2>2. ASSUME NEW status, DbBecomes(k, m, status)
        PROVE  /\ k = i /\ m = n => db'[i][n] = status
               /\ ~(k = i /\ m = n) => db'[i][n] = db[i][n]
    BY <2>2 DEF DbBecomes, TypeOK
  <2>3. CASE ~(k = i /\ m = n)
    BY <1>1, <2>1, <2>2, <2>3 DEF AgentNext, AgentReports, AgentStarts, AgentIgnores, AgentEnds
  <2>4. CASE k = i /\ m = n
    BY <1>1, <2>1, <2>2, <2>4
       DEF AgentNext, AgentReports, AgentStarts, AgentIgnores, AgentEnds, Asks
  <2> QED BY <2>3, <2>4
<1>6. CASE Ask BY <1>1, <1>6, AskDoes DEF Added, MarkedIdle, statusVars
<1>7. CASE \E w \in Workers : (WorkerNext(w) /\ ~CreateDb(w)) \/ \E s \in Sources : Take(w, s)
  BY <1>1, <1>7, WorkerFrame, TakeFrame DEF statusVars
<1>8. CASE \/ \E e \in timers : TimerFires(e)
           \/ \E scan \in scans : ScanRuns(scan)
           \/ \E k \in Instances : SetOnline(k) \/ Announce(k)
  BY <1>1, <1>8, TimerFrame, AnnounceFrame, ScanFrame, OnlineFrame DEF statusVars
<1> QED BY <1>3, <1>4, <1>5, <1>6, <1>7, <1>8 DEF Next, Callback

\* What was ready stays so.
LEMMA WasReadyStays ==
  ASSUME Basic, Basic', Next, LeavingIsAsked, NEW i \in Instances, NEW n \in Names, WasReady(i, n)
  PROVE  WasReady(i, n)'
<1>1. Mover(i, n) => Mover(i, n)' BY ExpectStays DEF Mover
<1>2. db[i][n] \in DbStatuses /\ db'[i][n] \in DbStatuses BY DEF Basic, TypeOK
<1>3. db[i][n] \in {"ready", "leaving", "idle"} BY <1>2, StageIs DEF WasReady
<1>4. CASE db'[i][n] = db[i][n] BY <1>1, <1>4 DEF WasReady
<1>5. CASE db'[i][n] \in {"leaving", "idle"} /\ Mover(i, n)' BY <1>2, <1>5, StageIs DEF WasReady
<1>6. CASE db[i][n] = "ready" /\ job[i][n] = "leave" /\ db'[i][n] = "leaving"
  BY <1>1, <1>5, <1>6 DEF LeavingIsAsked
<1>7. CASE db[i][n] = "leaving" /\ db'[i][n] = "idle" BY <1>1, <1>5, <1>7 DEF WasReady
<1> QED BY <1>3, <1>4, <1>6, <1>7, DbMoves

\* Somebody reports the status to the source: a worker, a notice or a scan.
Reported(s, status) ==
  \/ \E w \in Workers : worker[w].at = "sync" /\ worker[w].saw = status /\ Of(w) = s
  \/ db[InstanceOf[s]][NameOf[s]] = status
  \/ \E scan \in scans : scan.of = InstanceOf[s] /\ scan.saw[NameOf[s]] = status

\* A source becomes what it should be only by a report that it is.
LEMMA StateIsReported ==
  ASSUME Basic, Next, NEW s \in Sources, src'[s].state \in {"Ready", "Idle"}, src'[s].state # src[s].state
  PROVE  \E status \in DbStatuses : Stage(status) = src'[s].state /\ Reported(s, status)
<1> USE DEF Basic
<1>1. src'[s] # src[s] OBVIOUS
<1>2. ASSUME NEW r, NEW st \in {"Unknown", "Scheduling", "Processing", "Pending"}, NEW ex, NEW nx, SetsSrc(r, st, ex, nx)
      PROVE  FALSE
  <2>1. CASE r = s BY <1>2, <2>1 DEF SetsSrc
  <2>2. CASE r # s BY <1>1, <1>2, <2>2 DEF SetsSrc, OnlySrc
  <2> QED BY <2>1, <2>2
<1>3. CASE Ask BY <1>1, <1>2, <1>3, AskDoes DEF Added, MarkedIdle, handlerVars
<1>4. CASE \E w \in Workers : Process(w) \/ SetPending(w) \/ RetryNextTime(w)
  BY <1>2, <1>4, WorkerSets, RetryDoes DEF ProcessSets, PendingSets, RetryTimed
<1>5. CASE \E e \in timers : TimerFires(e)
  <2>1. PICK e \in timers : TimerFires(e) BY <1>5
  <2>2. PICK r : SetsSrc(r, src[r].state, src[r].expect, NoTime) BY <1>1, <2>1, TimerDoes DEF Fired
  <2> QED BY <1>1, <2>2 DEF SetsSrc, OnlySrc
<1>6. ASSUME NEW told, DOMAIN told \subseteq Sources, UpdateDbStatus(told)
      PROVE  s \in DOMAIN told /\ Stage(told[s]) = src'[s].state
  <2>1. SrcUpdates(s, told) BY <1>6, Updated
  <2>2. \A t : Retried(src[s], t).state \notin {"Ready", "Idle"} BY Fields
  <2>3. s \in DOMAIN told /\ Reaches(src[s], told[s]) /\ src'[s] = Reached(src[s])
    BY <1>1, <2>1, <2>2 DEF SrcUpdates
  <2> QED BY <2>3, Fields DEF Reaches
<1>7. CASE \E w \in Workers : Sync(w)
  <2>1. PICK w \in Workers : Sync(w) BY <1>7
  <2>2. /\ Of(w) \in Sources
        /\ DOMAIN Told(Of(w), worker[w].saw) = {Of(w)}
        /\ Told(Of(w), worker[w].saw)[Of(w)] = worker[w].saw
        /\ worker[w].saw \in DbStatuses
    BY <2>1 DEF Sync, HeldAreKnown, Told, TypeOK
  <2>3. UpdateDbStatus(Told(Of(w), worker[w].saw)) BY <1>1, <2>1 DEF Sync
  <2>4. s = Of(w) /\ Stage(worker[w].saw) = src'[s].state BY <1>6, <2>2, <2>3
  <2> QED BY <2>1, <2>2, <2>4 DEF Reported, Sync
<1>8. CASE \E i \in Instances, n \in Names : NoticeRuns(i, n)
  <2>1. PICK i \in Instances, n \in Names : NoticeRuns(i, n) BY <1>8
  <2> DEFINE told == [r \in Hearers(i, n) |-> db[i][n]]
  <2>2. DOMAIN told = Hearers(i, n) /\ \A r \in DOMAIN told : told[r] = db[i][n] OBVIOUS
  <2>3. UpdateDbStatus(told) BY <1>1, <2>1 DEF NoticeRuns
  <2>4. Hearers(i, n) \subseteq Sources /\ db[i][n] \in DbStatuses BY DEF Hearers, TypeOK
  <2> HIDE DEF told
  <2>5. s \in Hearers(i, n) /\ Stage(db[i][n]) = src'[s].state BY <1>6, <2>2, <2>3, <2>4
  <2> QED BY <2>4, <2>5 DEF Hearers, Reported
<1>9. CASE \E scan \in scans : ScanRuns(scan)
  <2>1. PICK scan \in scans : ScanRuns(scan) BY <1>9
  <2>2. ScanUpdates(scan, s) BY <2>1, Scanned
  <2>3. \A t : Retried(src[s], t).state \notin {"Ready", "Idle"} BY Fields
  <2>4. /\ InstanceOf[s] = scan.of
        /\ Reaches(src[s], scan.saw[NameOf[s]])
        /\ src'[s] = Reached(src[s])
    BY <1>1, <2>2, <2>3 DEF ScanUpdates
  <2>5. Stage(scan.saw[NameOf[s]]) = src'[s].state BY <2>4, Fields DEF Reaches
  <2>6. scan.saw[NameOf[s]] \in DbStatuses BY ConfigAssumption DEF TypeOK
  <2> QED BY <2>1, <2>4, <2>5, <2>6 DEF Reported
<1>10. CASE \E w \in Workers : LookUp(w) \/ ReadPassword(w) \/ CreateDb(w) \/ \E r \in Sources : Take(w, r)
  BY <1>1, <1>10 DEF LookUp, ReadPassword, CreateDb, Take, handlerVars
<1>11. CASE \E i \in Instances : SetOnline(i) \/ Announce(i) \/ \E n \in Names : AgentNext(i, n)
  BY <1>1, <1>11, AgentFrame, AnnounceFrame, OnlineFrame DEF handlerVars
<1> QED BY <1>3, <1>4, <1>5, <1>7, <1>8, <1>9, <1>10, <1>11 DEF Next, WorkerNext, Callback

\* A source becomes ready only when its database was ready.
LEMMA BecomesReady ==
  ASSUME Basic, Truth, Next, NEW s \in Sources, src'[s].state = "Ready", src[s].state # "Ready"
  PROVE  WasReady(InstanceOf[s], NameOf[s])
<1>1. Reported(s, "ready") BY StateIsReported, StageIs
<1> QED BY <1>1, ConfigAssumption DEF Reported, Truth, HeardReady, WasReady

\* How a worker may move: what it saw is forgotten before it goes on.
WorkerMoves(w) ==
  \/ worker'[w] = worker[w]
  \/ worker'[w] = NoWork
  \/ /\ worker[w].at # "idle"
     /\ worker'[w].of = worker[w].of
     /\ worker'[w].saw = "absent"
  \/ LookUp(w)
  \/ \E s \in Sources : Take(w, s)

\* The workers move so.
LEMMA WorkersMove ==
  ASSUME Basic, Next, NEW w \in Workers
  PROVE  WorkerMoves(w)
<1> USE DEF Basic
<1>1. CASE worker' = worker BY <1>1 DEF WorkerMoves
<1>2. CASE \E v \in Workers : v # w /\ (WorkerNext(v) \/ \E s \in Sources : Take(v, s))
  <2>1. worker'[w] = worker[w]
    BY <1>2
       DEF WorkerNext, LookUp, Sync, Process, ReadPassword, CreateDb, SetPending, RetryNextTime,
                Take, Return, Goto, TypeOK
  <2> QED BY <2>1 DEF WorkerMoves
<1>3. CASE WorkerNext(w)
  <2>1. LookUp(w) \/ Return(w) \/ (worker[w].at # "idle" /\ \E step : Goto(w, step))
    BY <1>3, WorkerStep
  <2>2. Return(w) => worker'[w] = NoWork BY DEF Return, TypeOK
  <2>3. \A step : Goto(w, step) => worker'[w].of = worker[w].of /\ worker'[w].saw = "absent"
    BY DEF Goto, Of, TypeOK
  <2> QED BY <2>1, <2>2, <2>3 DEF WorkerMoves
<1>4. CASE \E s \in Sources : Take(w, s) BY <1>4 DEF WorkerMoves
<1>5. CASE Ask BY <1>1, <1>5, AskDoes DEF Added, MarkedIdle
<1>6. CASE \E e \in timers : TimerFires(e) BY <1>1, <1>6, TimerFrame
<1>7. CASE Callback BY <1>1, <1>7, NoticeFrame, AnnounceFrame, ScanFrame DEF Callback
<1>8. CASE \E i \in Instances : SetOnline(i) \/ \E n \in Names : AgentNext(i, n)
  BY <1>1, <1>8, OnlineFrame, AgentFrame
<1> QED BY <1>2, <1>3, <1>4, <1>5, <1>6, <1>7, <1>8 DEF Next

\* Who asks a database to leave is such a source.
LEMMA LeavingNext ==
  ASSUME Basic, Basic', LeavingIsAsked, Next
  PROVE  LeavingIsAsked'
<1> USE DEF Basic
<1>1. SUFFICES ASSUME NEW i \in Instances, NEW n \in Names, job'[i][n] = "leave"
               PROVE  Mover(i, n)'
  BY DEF LeavingIsAsked
<1>2. CASE job[i][n] = "leave"
  <2>1. Mover(i, n) BY <1>2 DEF LeavingIsAsked
  <2> QED BY <2>1, ExpectStays DEF Mover
<1>3. CASE job' = job BY <1>1, <1>2, <1>3
<1>4. ASSUME NEW k \in Instances, NEW m \in Names, NEW asked, asked = WithJob(k, m), asked[i][n] = "leave"
      PROVE  job[i][n] = "leave"
  <2>1. CASE asked = job BY <1>4, <2>1
  <2>2. CASE asked = [job EXCEPT ![k] = [job[k] EXCEPT ![m] = "create"]]
    <3>1. job[k] \in [Names -> {"none", "create", "leave", "ignored"}] BY DEF TypeOK
    <3>2. CASE k # i BY <1>4, <2>2, <3>2 DEF TypeOK
    <3>3. CASE k = i
      <4>1. asked[i] = [job[k] EXCEPT ![m] = "create"] BY <2>2, <3>3 DEF TypeOK
      <4> QED BY <1>4, <3>1, <3>3, <4>1
    <3> QED BY <3>2, <3>3
  <2> QED BY <1>4, <2>1, <2>2 DEF WithJob
<1>5. CASE \E w \in Workers : CreateDb(w)
  <2>1. PICK w \in Workers : CreateDb(w) BY <1>5
  <2>2. /\ Of(w) \in Sources
        /\ src[Of(w)].expect # "unset"
        /\ NameOf[Of(w)] \in Names
        /\ InstanceOf[Of(w)] \in Instances
        /\ FromOf[Of(w)] \in Instances \cup {None}
    BY <2>1, ConfigAssumption DEF CreateDb, HeldAreKnown
  <2>3. CASE job' = WithJob(InstanceOf[Of(w)], NameOf[Of(w)]) BY <1>1, <1>2, <1>4, <2>2, <2>3
  <2>4. CASE FromOf[Of(w)] # None /\ job' = [job EXCEPT ![FromOf[Of(w)]][NameOf[Of(w)]] = "leave"]
    <3>1. CASE FromOf[Of(w)] = i /\ NameOf[Of(w)] = n
      <4>1. src' = src BY <2>1 DEF CreateDb, handlerVars
      <4> QED BY <2>2, <3>1, <4>1 DEF Mover
    <3>2. CASE ~(FromOf[Of(w)] = i /\ NameOf[Of(w)] = n)
      <4>1. job'[i][n] = job[i][n] BY <2>2, <2>4, <3>2 DEF TypeOK
      <4> QED BY <1>1, <1>2, <4>1
    <3> QED BY <3>1, <3>2
  <2> QED BY <1>3, <2>1, <2>3, <2>4 DEF CreateDb
<1>6. CASE \E k \in Instances, m \in Names : NoticeRuns(k, m)
  <2>1. PICK k \in Instances, m \in Names : NoticeRuns(k, m) BY <1>6
  <2> DEFINE moving == IF db[k][m] = "idle" THEN {s \in followUps : FromOf[s] = k /\ NameOf[s] = m} ELSE {}
  <2>2. job' = [x \in Instances |-> IF \E s \in moving : InstanceOf[s] = x THEN WithJob(x, m)[x] ELSE job[x]]
    BY <2>1 DEF NoticeRuns
  <2> HIDE DEF moving
  <2>3. PICK asked : asked = WithJob(i, m) OBVIOUS
  <2>4. job'[i] = job[i] \/ job'[i] = asked[i] BY <2>2, <2>3
  <2> QED BY <1>1, <1>2, <1>4, <2>3, <2>4
<1>7. CASE \E k \in Instances, m \in Names : AgentNext(k, m)
  <2>1. PICK k \in Instances, m \in Names : AgentNext(k, m) BY <1>7
  <2>2. job' = job \/ \E x \in {"none", "ignored"} : job' = [job EXCEPT ![k][m] = x]
    BY <2>1 DEF AgentNext, AgentReports, AgentStarts, AgentIgnores, AgentEnds
  <2>3. ASSUME NEW x \in {"none", "ignored"}, job' = [job EXCEPT ![k][m] = x]
        PROVE  job[i][n] = "leave"
    <3>1. CASE k = i /\ m = n BY <1>1, <2>3, <3>1 DEF TypeOK
    <3>2. CASE ~(k = i /\ m = n) BY <1>1, <2>3, <3>2 DEF TypeOK
    <3> QED BY <3>1, <3>2
  <2> QED BY <1>2, <1>3, <2>2, <2>3
<1>8. CASE Ask BY <1>3, <1>8, AskDoes DEF Added, MarkedIdle, statusVars
<1>9. CASE \E w \in Workers : (WorkerNext(w) /\ ~CreateDb(w)) \/ \E s \in Sources : Take(w, s)
  BY <1>3, <1>9, WorkerFrame, TakeFrame DEF statusVars
<1>10. CASE \/ \E e \in timers : TimerFires(e)
            \/ \E scan \in scans : ScanRuns(scan)
            \/ \E k \in Instances : SetOnline(k) \/ Announce(k)
  BY <1>3, <1>10, TimerFrame, AnnounceFrame, ScanFrame, OnlineFrame DEF statusVars
<1> QED BY <1>5, <1>6, <1>7, <1>8, <1>9, <1>10 DEF Next, Callback

\* A scan that is new goes by the databases as they are.
LEMMA ScansMove ==
  ASSUME Basic, Next, NEW scan \in scans'
  PROVE  \/ scan \in scans
         \/ \E i \in Instances : Announce(i) /\ scan = [of |-> i, saw |-> db[i]]
<1>1. CASE scans' \subseteq scans BY <1>1
<1>2. CASE \E i \in Instances : Announce(i) BY <1>2 DEF Announce
<1>3. CASE Ask BY <1>1, <1>3, AskDoes DEF Added, MarkedIdle, onlineVars
<1>4. CASE ~Ask /\ ~ \E i \in Instances : Announce(i)
  BY <1>1, <1>4, WorkerFrame, AgentFrame, TakeFrame, TimerFrame, NoticeFrame, ScanFrame, OnlineFrame
     DEF Next, Callback, onlineVars
<1> QED BY <1>2, <1>3, <1>4

\* What was heard ready stays heard and true.
LEMMA TruthNext ==
  ASSUME Basic, Basic', Truth, Next
  PROVE  Truth'
<1> USE DEF Basic
<1>1. \A i \in Instances, n \in Names : WasReady(i, n) => WasReady(i, n)' BY WasReadyStays DEF Truth
<1>2. ASSUME NEW s \in Sources, src'[s].state = "Ready" PROVE WasReady(InstanceOf[s], NameOf[s])'
  <2>1. WasReady(InstanceOf[s], NameOf[s]) BY <1>2, BecomesReady DEF Truth, HeardReady
  <2> QED BY <1>1, <2>1, ConfigAssumption
<1>3. ASSUME NEW w \in Workers, worker'[w].at # "idle", worker'[w].saw = "ready"
      PROVE  \E s \in Sources : s = worker'[w].of /\ WasReady(InstanceOf[s], NameOf[s])'
  <2>1. CASE worker'[w] = worker[w]
    <3>1. WasReady(InstanceOf[Of(w)], NameOf[Of(w)]) /\ Of(w) \in Sources
      BY <1>3, <2>1 DEF Truth, HeardReady, HeldAreKnown
    <3> QED BY <1>1, <2>1, <3>1, ConfigAssumption DEF Of
  <2>2. CASE LookUp(w)
    <3>1. Of(w) \in Sources BY <2>2 DEF LookUp, HeldAreKnown
    <3>2. worker'[w].of = Of(w) /\ worker'[w].saw = db[InstanceOf[Of(w)]][NameOf[Of(w)]]
      BY <2>2 DEF LookUp, TypeOK
    <3>3. WasReady(InstanceOf[Of(w)], NameOf[Of(w)]) BY <1>3, <3>2 DEF WasReady
    <3> QED BY <1>1, <3>1, <3>2, <3>3, ConfigAssumption
  <2>3. ASSUME NEW s \in Sources, Take(w, s) PROVE worker'[w].saw = "absent"
    BY <2>3 DEF Take, TypeOK
  <2> QED BY <1>3, <2>1, <2>2, <2>3, WorkersMove DEF WorkerMoves, NoWork
<1>4. ASSUME NEW scan \in scans', NEW n \in Names, scan.saw[n] = "ready" PROVE WasReady(scan.of, n)'
  <2>1. CASE scan \in scans
    <3>1. WasReady(scan.of, n) /\ scan.of \in Instances BY <1>4, <2>1 DEF Truth, HeardReady, TypeOK
    <3> QED BY <1>1, <3>1
  <2>2. CASE \E i \in Instances : Announce(i) /\ scan = [of |-> i, saw |-> db[i]]
    <3>1. WasReady(scan.of, n) /\ scan.of \in Instances BY <1>4, <2>2 DEF WasReady
    <3> QED BY <1>1, <3>1
  <2> QED BY <2>1, <2>2, ScansMove
<1>5. \A w \in Workers :
        worker'[w].at # "idle" /\ worker'[w].saw = "ready" => WasReady(InstanceOf[Of(w)], NameOf[Of(w)])'
  BY <1>3 DEF Of, WasReady, Mover
<1>6. HeardReady' BY <1>2, <1>4, <1>5 DEF HeardReady
<1> QED BY <1>6, LeavingNext DEF Truth

-----------------------------------------------------------------------------
(* What was seen *)

\* The server has a record of the database, which is so for all that was seen.
Present(i, n) == db[i][n] # "absent"

SeenArePresent ==
  /\ \A s \in Sources : src[s].state \in {"Ready", "Idle"} => Present(InstanceOf[s], NameOf[s])
  /\ \A w \in Workers :
       worker[w].at # "idle" /\ worker[w].saw # "absent" => Present(InstanceOf[Of(w)], NameOf[Of(w)])
  /\ \A scan \in scans, n \in Names : scan.saw[n] # "absent" => Present(scan.of, n)

\* Records are not deleted.
LEMMA PresentStays ==
  ASSUME Basic, Next, NEW i \in Instances, NEW n \in Names, Present(i, n)
  PROVE  Present(i, n)'
BY DbMoves DEF Present

\* What was seen stays there.
LEMMA SeenNext ==
  ASSUME Basic, Basic', SeenArePresent, Next
  PROVE  SeenArePresent'
<1> USE DEF Basic
<1>1. \A i \in Instances, n \in Names : Present(i, n) => Present(i, n)' BY PresentStays
<1>2. ASSUME NEW s \in Sources, src'[s].state \in {"Ready", "Idle"} PROVE Present(InstanceOf[s], NameOf[s])'
  <2>1. CASE src'[s].state = src[s].state BY <1>1, <1>2, <2>1, ConfigAssumption DEF SeenArePresent
  <2>2. CASE src'[s].state # src[s].state
    <3>1. PICK status \in DbStatuses : Stage(status) = src'[s].state /\ Reported(s, status)
      BY <1>2, <2>2, StateIsReported
    <3>2. status # "absent" BY <1>2, <3>1, StageIs
    <3>3. Present(InstanceOf[s], NameOf[s])
      BY <3>1, <3>2, ConfigAssumption DEF Reported, SeenArePresent, Present
    <3> QED BY <1>1, <3>3, ConfigAssumption
  <2> QED BY <2>1, <2>2
<1>3. ASSUME NEW w \in Workers, worker'[w].at # "idle", worker'[w].saw # "absent"
      PROVE  \E s \in Sources : s = worker'[w].of /\ Present(InstanceOf[s], NameOf[s])'
  <2>1. CASE worker'[w] = worker[w]
    <3>1. Present(InstanceOf[Of(w)], NameOf[Of(w)]) /\ Of(w) \in Sources
      BY <1>3, <2>1 DEF SeenArePresent, HeldAreKnown
    <3> QED BY <1>1, <2>1, <3>1, ConfigAssumption DEF Of
  <2>2. CASE LookUp(w)
    <3>1. Of(w) \in Sources BY <2>2 DEF LookUp, HeldAreKnown
    <3>2. worker'[w].of = Of(w) /\ worker'[w].saw = db[InstanceOf[Of(w)]][NameOf[Of(w)]]
      BY <2>2 DEF LookUp, TypeOK
    <3>3. Present(InstanceOf[Of(w)], NameOf[Of(w)]) BY <1>3, <3>2 DEF Present
    <3> QED BY <1>1, <3>1, <3>2, <3>3, ConfigAssumption
  <2>3. ASSUME NEW s \in Sources, Take(w, s) PROVE worker'[w].saw = "absent"
    BY <2>3 DEF Take, TypeOK
  <2> QED BY <1>3, <2>1, <2>2, <2>3, WorkersMove DEF WorkerMoves, NoWork
<1>4. ASSUME NEW scan \in scans', NEW n \in Names, scan.saw[n] # "absent" PROVE Present(scan.of, n)'
  <2>1. CASE scan \in scans
    <3>1. Present(scan.of, n) /\ scan.of \in Instances BY <1>4, <2>1 DEF SeenArePresent, TypeOK
    <3> QED BY <1>1, <3>1
  <2>2. CASE \E i \in Instances : Announce(i) /\ scan = [of |-> i, saw |-> db[i]]
    <3>1. Present(scan.of, n) /\ scan.of \in Instances BY <1>4, <2>2 DEF Present
    <3> QED BY <1>1, <3>1
  <2> QED BY <2>1, <2>2, ScansMove
<1>5. \A w \in Workers :
        worker'[w].at # "idle" /\ worker'[w].saw # "absent" => Present(InstanceOf[Of(w)], NameOf[Of(w)])'
  BY <1>3 DEF Of, Present
<1> QED BY <1>2, <1>4, <1>5 DEF SeenArePresent

-----------------------------------------------------------------------------
(* Sources that are seen to *)

\* No callback passed the source while a worker had it.
Plain(s) == Current(s) /\ s \notin overtaken

\* Where a worker has not found the source as it should be, and where it is yet to
\* set its state.
Past == {"process", "password", "create", "offline", "failed"}

Early == {"look", "sync", "process"}

\* The worker does not know that the database is ready, and does not look again.
Unseeing(w) ==
  \/ worker[w].at \in {"process", "password", "create"}
  \/ worker[w].at = "sync" /\ worker[w].saw # "ready"

\* The worker looks, or has seen that the database is ready.
AboutToSee(w) ==
  \/ worker[w].at = "look"
  \/ worker[w].at = "sync" /\ worker[w].saw = "ready"

\* The worker goes on without regard to the state of the source.
Blind(w) ==
  \/ worker[w].at \in Past
  \/ worker[w].at = "sync" /\ worker[w].saw = "absent"

\* If the database is ready, a notice is to say so.
NoticeDue(s) == db[InstanceOf[s]][NameOf[s]] = "ready" => notices[InstanceOf[s]][NameOf[s]] > 0

\* An instance the source needs is to come online, or has and is to be reported.
InstanceDue(s) ==
  \E i \in NeededInstances(s) : ~online[i] \/ announces[i] > 0 \/ \E scan \in scans : scan.of = i

\* The agent is to do something with the database, or is doing so, or has done so
\* and is to be heard; or the database has left.
AgentDue(s) ==
  LET i == InstanceOf[s]
      n == NameOf[s]
  IN  \/ job[i][n] # "none"
      \/ db[i][n] = "working"
      \/ notices[i][n] > 0
      \/ s \in followUps
      \/ Stage(db[i][n]) = "Idle"

InProcess(s) == src[s].state = "Processing" /\ src[s].expect = "Ready"

\* The source is to be handled from the start.
Again(s) ==
  \/ sends[s] > 0
  \/ src[s].next # NoTime
  \/ \E w \in Workers : worker[w].at \in Early /\ Of(w) = s

\* One worker at a time has found the source not as it should be.
OnePast(s) ==
  \A v, w \in Workers :
    worker[v].at \in Past /\ worker[w].at \in Past /\ Of(v) = s /\ Of(w) = s => v = w

\* A worker goes on blindly only if the source is not as it should be.
BlindAreNeeded(s) == \A w \in Workers : Blind(w) /\ Of(w) = s => ~Synced(src[s])

\* No worker misses that the database is ready.
MissedNothing(s) == \A w \in Workers : Unseeing(w) /\ Of(w) = s /\ src[s].expect = "Ready" => NoticeDue(s)

\* A worker that found an instance offline will have it reported when it is online.
OfflineStands(s) == \A w \in Workers : worker[w].at = "offline" /\ Of(w) = s => InstanceDue(s)

\* A source in the hands of a worker is in process, unless it is handled again.
PastGoOn(s) ==
  \A w \in Workers :
    worker[w].at \in Past \ {"process"} /\ Of(w) = s => InProcess(s) \/ Again(s)

\* A source in process is told when its database is ready.
ReadyIsTold(s) ==
  InProcess(s) => NoticeDue(s) \/ \E w \in Workers : AboutToSee(w) /\ Of(w) = s

\* A source that is not as it should be has somebody who will see to it.
Followed(s) ==
  ~Synced(src[s]) /\ s \notin parked =>
    \/ sends[s] > 0
    \/ src[s].next # NoTime
    \/ Holders(s) # {}
    \/ src[s].state = "Pending" /\ InstanceDue(s)
    \/ InProcess(s) /\ AgentDue(s)

\* All of that, for a source no callback passed.
Tended(s) ==
  Plain(s) =>
    /\ OnePast(s)
    /\ BlindAreNeeded(s)
    /\ MissedNothing(s)
    /\ OfflineStands(s)
    /\ PastGoOn(s)
    /\ ReadyIsTold(s)
    /\ Followed(s)

AllTended == \A s \in Sources : Tended(s)

\* A source nobody passed was such a one before, is new, or was just taken by its
\* only worker.
LEMMA PlainBefore ==
  ASSUME Basic, Next, NEW s \in Sources, Plain(s)'
  PROVE  \/ Plain(s)
         \/ Added(s)
         \/ Current(s) /\ Holders(s) = {} /\ \E w \in Workers : Take(w, s)
<1> USE DEF Basic
<1>1. ASSUME known' = known, overtaken \subseteq overtaken' PROVE Plain(s)
  BY <1>1 DEF Plain, Current
<1>2. CASE Ask
  <2>1. ASSUME NEW r \in Sources, Added(r), r # s PROVE Plain(s)
    <3>1. known'[NameOf[s]] = known[NameOf[s]] \/ known'[NameOf[s]] = r
      BY <2>1, ConfigAssumption DEF Added, TypeOK
    <3>2. known[NameOf[s]] = s BY <2>1, <3>1 DEF Plain, Current
    <3>3. NameOf[r] # NameOf[s] BY <2>1, <3>2, ConfigAssumption DEF Plain, Current, Added, TypeOK
    <3>4. known[NameOf[r]] # s BY <3>3, ConfigAssumption, NoneAssumption DEF KnownFits
    <3> QED BY <2>1, <3>2, <3>4 DEF Plain, Current, Added
  <2>2. ASSUME NEW r \in Sources, MarkedIdle(r) PROVE Plain(s) BY <1>1, <2>2 DEF MarkedIdle, history
  <2> QED BY <1>1, <1>2, <2>1, <2>2, AskDoes DEF handlerVars, history
<1>3. CASE \E w \in Workers, r \in Sources : Take(w, r)
  <2>1. PICK w \in Workers, r \in Sources : Take(w, r) BY <1>3
  <2>2. CASE r = s /\ Holders(s) = {} BY <2>1, <2>2 DEF Take, Plain, Current
  <2>3. CASE ~(r = s /\ Holders(s) = {}) BY <2>1, <2>3 DEF Take, Plain, Current
  <2> QED BY <2>2, <2>3
<1>4. CASE ~Ask /\ ~ \E w \in Workers, r \in Sources : Take(w, r)
  BY <1>1, <1>4, WorkerFrame, AgentFrame, TimerFrame, NoticeFrame, AnnounceFrame, ScanFrame, OnlineFrame
     DEF Next, Callback, handlerVars, history
<1> QED BY <1>2, <1>3, <1>4

\* No worker takes, leaves or goes on with the source.
SameHolders(s) ==
  \A w \in Workers :
    \/ worker'[w] = worker[w]
    \/ /\ worker[w].at # "idle" => Of(w) # s
       /\ worker'[w].at # "idle" => worker'[w].of # s

\* The workers that have the source are the same, and where they were.
LEMMA HoldersStay ==
  ASSUME TypeOK, NEW s \in Sources, SameHolders(s), NEW w \in Workers
  PROVE  /\ Of(w)' = s /\ worker'[w].at # "idle" <=> Of(w) = s /\ worker[w].at # "idle"
         /\ Of(w)' = s /\ worker'[w].at # "idle" => worker'[w] = worker[w]
BY DEF SameHolders, Of

\* A step elsewhere keeps the source tended if what the source waits for is still
\* to come.
LEMMA TendedStays ==
  ASSUME Basic, Basic', AllTended, NEW s \in Sources, Plain(s), SameHolders(s),
         src'[s] = src[s],
         sends[s] > 0 => sends'[s] > 0,
         s \in parked => s \in parked',
         NoticeDue(s) => NoticeDue(s)',
         (~Synced(src[s]) /\ InstanceDue(s)) => InstanceDue(s)',
         (InProcess(s) /\ AgentDue(s)) => AgentDue(s)' \/ Holders(s) # {}
  PROVE  Tended(s)'
<1> USE DEF Basic
<1>1. Tended(s) BY DEF AllTended
<1>2. \A w \in Workers :
        /\ Of(w)' = s /\ worker'[w].at # "idle" <=> Of(w) = s /\ worker[w].at # "idle"
        /\ Of(w)' = s /\ worker'[w].at # "idle" => worker'[w] = worker[w]
  BY HoldersStay
<1>3. "idle" \notin Past /\ "idle" \notin Early BY DEF Past, Early
<1>4. OnePast(s)' BY <1>1, <1>2, <1>3 DEF Tended, OnePast, Of
<1>5. BlindAreNeeded(s)' BY <1>1, <1>2, <1>3 DEF Tended, BlindAreNeeded, Blind, Of
<1>6. MissedNothing(s)' BY <1>1, <1>2 DEF Tended, MissedNothing, Unseeing, Of
<1>7. OfflineStands(s)'
  <2>1. ASSUME NEW w \in Workers, worker'[w].at = "offline", Of(w)' = s PROVE InstanceDue(s)'
    <3>1. worker[w].at = "offline" /\ Of(w) = s BY <1>2, <2>1
    <3>2. ~Synced(src[s]) BY <1>1, <3>1 DEF Tended, BlindAreNeeded, Blind, Past
    <3> QED BY <1>1, <3>1, <3>2 DEF Tended, OfflineStands
  <2> QED BY <2>1 DEF OfflineStands
<1>8. Again(s) => Again(s)' BY <1>2, <1>3 DEF Again
<1>9. InProcess(s)' <=> InProcess(s) BY DEF InProcess
<1>10. PastGoOn(s)' BY <1>1, <1>2, <1>3, <1>8, <1>9 DEF Tended, PastGoOn
<1>11. \A w \in Workers : AboutToSee(w) /\ Of(w) = s => AboutToSee(w)' /\ Of(w)' = s
  BY <1>2 DEF AboutToSee
<1>12. ReadyIsTold(s)' BY <1>1, <1>9, <1>11 DEF Tended, ReadyIsTold
<1>13. Holders(s) # {} => Holders(s)' # {} BY <1>2 DEF Holders
<1>14. Followed(s)' BY <1>1, <1>9, <1>13 DEF Tended, Followed
<1> QED BY <1>4, <1>5, <1>6, <1>7, <1>10, <1>12, <1>14 DEF Tended

-----------------------------------------------------------------------------
(* What is due *)

\* The steps that tell no source anything.
Quietly ==
  \/ Ask
  \/ \E w \in Workers : WorkerNext(w) \/ \E s \in Sources : Take(w, s)
  \/ \E e \in timers : TimerFires(e)
  \/ \E i \in Instances : Announce(i) \/ SetOnline(i) \/ \E n \in Names : AgentNext(i, n)

\* A notice that is due stays due: a database becomes ready only with a notice.
LEMMA NoticeDueStays ==
  ASSUME Basic, Quietly, NEW s \in Sources, NoticeDue(s)
  PROVE  NoticeDue(s)'
<1> USE DEF Basic
<1>1. InstanceOf[s] \in Instances /\ NameOf[s] \in Names BY ConfigAssumption
<1>2. CASE UNCHANGED <<db, notices>> BY <1>2 DEF NoticeDue
<1>3. CASE \E w \in Workers : CreateDb(w)
  <2>1. PICK w \in Workers : CreateDb(w) BY <1>3
  <2>2. EntriesOnly /\ notices' = notices BY <2>1, CreateDbDoes DEF CreateDb
  <2> QED BY <1>1, <2>2 DEF EntriesOnly, NoticeDue
<1>4. CASE \E i \in Instances, n \in Names : AgentNext(i, n)
  <2>1. PICK i \in Instances, n \in Names : AgentNext(i, n) BY <1>4
  <2>2. SUFFICES ASSUME NEW status,
                        db' = [db EXCEPT ![i][n] = status],
                        notices' = [notices EXCEPT ![i] = [notices[i] EXCEPT ![n] = @ + 1]]
                 PROVE  NoticeDue(s)'
    BY <1>2, <2>1, AgentDoes
  <2>3. CASE i = InstanceOf[s] /\ n = NameOf[s]
    <3>1. notices[i][n] \in Nat BY BoundAssumption DEF TypeOK
    <3>2. notices'[i][n] = notices[i][n] + 1 BY <2>2 DEF TypeOK
    <3> QED BY <2>3, <3>1, <3>2 DEF NoticeDue
  <2>4. CASE ~(i = InstanceOf[s] /\ n = NameOf[s])
    <3>1. /\ db'[InstanceOf[s]][NameOf[s]] = db[InstanceOf[s]][NameOf[s]]
          /\ notices'[InstanceOf[s]][NameOf[s]] = notices[InstanceOf[s]][NameOf[s]]
      BY <1>1, <2>2, <2>4 DEF TypeOK
    <3> QED BY <3>1 DEF NoticeDue
  <2> QED BY <2>3, <2>4
<1>5. CASE Ask BY <1>2, <1>5, AskDoes DEF Added, MarkedIdle, statusVars
<1>6. CASE \E w \in Workers : (WorkerNext(w) /\ ~CreateDb(w)) \/ \E r \in Sources : Take(w, r)
  BY <1>2, <1>6, WorkerFrame, TakeFrame DEF statusVars
<1>7. CASE (\E e \in timers : TimerFires(e)) \/ \E k \in Instances : SetOnline(k) \/ Announce(k)
  BY <1>2, <1>7 DEF TimerFires, SetOnline, Announce, statusVars
<1> QED BY <1>3, <1>4, <1>5, <1>6, <1>7 DEF Quietly

\* CreateDb of the instance takes no job from the agent, and gives one if the
\* database is to be asked for.
LEMMA JobOnly ==
  ASSUME TypeOK, NEW k \in Instances, NEW m \in Names, NEW i \in Instances, NEW n \in Names,
         NEW asked, asked = WithJob(k, m)
  PROVE  /\ job[i][n] # "none" => asked[i][n] # "none"
         /\ k = i /\ m = n /\ Asks(i, n) => asked[i][n] # "none"
<1>1. job[k] \in [Names -> {"none", "create", "leave", "ignored"}] BY DEF TypeOK
<1>2. CASE Asks(k, m)
  <2>1. asked = [job EXCEPT ![k] = [job[k] EXCEPT ![m] = "create"]] BY <1>2 DEF WithJob
  <2>2. CASE i = k
    <3>1. asked[i] = [job[k] EXCEPT ![m] = "create"] BY <2>1, <2>2 DEF TypeOK
    <3> QED BY <1>1, <2>2, <3>1
  <2>3. CASE i # k BY <2>1, <2>3 DEF TypeOK
  <2> QED BY <2>2, <2>3
<1>3. CASE ~Asks(k, m) BY <1>3 DEF WithJob
<1> QED BY <1>2, <1>3

\* What the agent is to do stays so, is done, or is ignored for good.
LEMMA AgentDueStays ==
  ASSUME Basic, Basic', Quietly, NEW s \in Sources, AgentDue(s)
  PROVE  AgentDue(s)'
<1> USE DEF Basic
<1> DEFINE i == InstanceOf[s]
           n == NameOf[s]
<1>1. i \in Instances /\ n \in Names BY ConfigAssumption
<1>2. CASE UNCHANGED <<db, notices, job, followUps>> BY <1>2 DEF AgentDue
<1>3. CASE \E w \in Workers : CreateDb(w)
  <2>1. PICK w \in Workers : CreateDb(w) BY <1>3
  <2>2. EntriesOnly /\ notices' = notices /\ followUps \subseteq followUps'
    BY <2>1, CreateDbDoes DEF CreateDb
  <2>3. /\ InstanceOf[Of(w)] \in Instances
        /\ NameOf[Of(w)] \in Names
        /\ FromOf[Of(w)] \in Instances \cup {None}
    BY <2>1, ConfigAssumption DEF CreateDb, HeldAreKnown
  <2>4. job[i][n] # "none" => job'[i][n] # "none"
    <3>1. CASE job' = job BY <3>1
    <3>2. CASE job' = WithJob(InstanceOf[Of(w)], NameOf[Of(w)]) BY <1>1, <2>3, <3>2, JobOnly
    <3>3. CASE FromOf[Of(w)] # None /\ job' = [job EXCEPT ![FromOf[Of(w)]][NameOf[Of(w)]] = "leave"]
      <4>1. CASE FromOf[Of(w)] = i /\ NameOf[Of(w)] = n BY <1>1, <3>3, <4>1 DEF TypeOK
      <4>2. CASE ~(FromOf[Of(w)] = i /\ NameOf[Of(w)] = n) BY <1>1, <2>3, <3>3, <4>2 DEF TypeOK
      <4> QED BY <4>1, <4>2
    <3> QED BY <2>1, <3>1, <3>2, <3>3 DEF CreateDb
  <2>5. db[i][n] = "working" => db'[i][n] = "working" BY <1>1, <2>2 DEF EntriesOnly
  <2>6. Stage(db[i][n]) = "Idle" => Stage(db'[i][n]) = "Idle"
    <3>1. db[i][n] \in DbStatuses /\ db'[i][n] \in DbStatuses BY <1>1 DEF TypeOK
    <3> QED BY <1>1, <2>2, <3>1, StageIs DEF EntriesOnly
  <2> QED BY <2>2, <2>4, <2>5, <2>6 DEF AgentDue
<1>4. CASE \E k \in Instances, m \in Names : AgentNext(k, m)
  <2>1. PICK k \in Instances, m \in Names : AgentNext(k, m) BY <1>4
  <2>2. followUps' = followUps BY <2>1, AgentDoes
  <2>3. CASE k = i /\ m = n
    <3>1. CASE AgentIgnores(i, n) BY <1>1, <3>1 DEF AgentIgnores, AgentDue, TypeOK
    <3>2. CASE ~AgentIgnores(i, n)
      <4>1. PICK status : DbBecomes(i, n, status)
        BY <2>1, <2>3, <3>2 DEF AgentNext, AgentReports, AgentStarts, AgentEnds
      <4>2. notices[i][n] \in Nat BY <1>1, BoundAssumption DEF TypeOK
      <4>3. notices' = [notices EXCEPT ![i] = [notices[i] EXCEPT ![n] = @ + 1]]
        BY <4>1 DEF DbBecomes, More
      <4>4. notices'[i][n] = notices[i][n] + 1 BY <1>1, <4>3 DEF TypeOK
      <4>5. notices'[i][n] > 0 BY <4>2, <4>4
      <4> QED BY <4>5 DEF AgentDue
    <3> QED BY <3>1, <3>2
  <2>4. CASE ~(k = i /\ m = n)
    <3>1. db'[i][n] = db[i][n] /\ notices'[i][n] = notices[i][n]
      <4>1. CASE UNCHANGED <<db, notices>> BY <4>1
      <4>2. ASSUME NEW status,
                   db' = [db EXCEPT ![k][m] = status],
                   notices' = [notices EXCEPT ![k] = [notices[k] EXCEPT ![m] = @ + 1]]
            PROVE  db'[i][n] = db[i][n] /\ notices'[i][n] = notices[i][n]
        <5>1. db' = [db EXCEPT ![k] = [db[k] EXCEPT ![m] = status]] BY <4>2
        <5>2. CASE k = i
          <6>1. db'[i] = [db[k] EXCEPT ![m] = status] BY <1>1, <5>1, <5>2 DEF TypeOK
          <6>2. notices'[i] = [notices[k] EXCEPT ![m] = @ + 1]
            <7>1. notices' = [notices EXCEPT ![k] = [notices[k] EXCEPT ![m] = @ + 1]] BY <4>2
            <7>2. DOMAIN notices = Instances BY DEF TypeOK
            <7> QED BY <5>2, <7>1, <7>2
          <6>3. db[k] \in [Names -> DbStatuses] /\ notices[k] \in [Names -> 0..MaxWaiting]
            BY DEF TypeOK
          <6> QED BY <1>1, <2>4, <5>2, <6>1, <6>2, <6>3
        <5>3. CASE k # i BY <1>1, <4>2, <5>1, <5>3 DEF TypeOK
        <5> QED BY <5>2, <5>3
      <4> QED BY <2>1, <4>1, <4>2, AgentDoes
    <3>3. job'[i][n] = job[i][n]
      <4>1. CASE job' = job BY <4>1
      <4>2. ASSUME NEW x, job' = [job EXCEPT ![k][m] = x] PROVE job'[i][n] = job[i][n]
        <5>1. job' = [job EXCEPT ![k] = [job[k] EXCEPT ![m] = x]] BY <4>2
        <5>2. CASE k = i
          <6>1. job'[i] = [job[k] EXCEPT ![m] = x] BY <1>1, <5>1, <5>2 DEF TypeOK
          <6>2. job[k] \in [Names -> {"none", "create", "leave", "ignored"}] BY DEF TypeOK
          <6> QED BY <1>1, <2>4, <5>2, <6>1, <6>2
        <5>3. CASE k # i BY <1>1, <5>1, <5>3 DEF TypeOK
        <5> QED BY <5>2, <5>3
      <4>3. job' = job \/ \E x \in {"none", "ignored"} : job' = [job EXCEPT ![k][m] = x]
        BY <2>1 DEF AgentNext, AgentReports, AgentStarts, AgentIgnores, AgentEnds
      <4> QED BY <4>1, <4>2, <4>3
    <3> QED BY <2>2, <3>1, <3>3 DEF AgentDue
  <2> QED BY <2>3, <2>4
<1>5. CASE Ask BY <1>2, <1>5, AskDoes DEF Added, MarkedIdle, statusVars
<1>6. CASE \E w \in Workers : (WorkerNext(w) /\ ~CreateDb(w)) \/ \E r \in Sources : Take(w, r)
  BY <1>2, <1>6, WorkerFrame, TakeFrame DEF statusVars
<1>7. CASE (\E e \in timers : TimerFires(e)) \/ \E k \in Instances : SetOnline(k) \/ Announce(k)
  BY <1>2, <1>7 DEF TimerFires, SetOnline, Announce, statusVars
<1> QED BY <1>3, <1>4, <1>5, <1>6, <1>7 DEF Quietly

\* An instance stays to be reported, unless its report passes the source.
LEMMA InstanceDueStays ==
  ASSUME Basic, Quietly, NEW s \in Sources, InstanceDue(s), Plain(s)'
  PROVE  InstanceDue(s)'
<1> USE DEF Basic
<1>1. CASE UNCHANGED <<online, announces, scans>> BY <1>1 DEF InstanceDue
<1>2. PICK i \in NeededInstances(s) : ~online[i] \/ announces[i] > 0 \/ \E scan \in scans : scan.of = i
  BY DEF InstanceDue
<1>3. i \in Instances BY ConfigAssumption DEF NeededInstances
<1>4. ASSUME NEW k \in Instances, SetOnline(k) PROVE InstanceDue(s)'
  <2>1. announces[i] \in Nat BY <1>3, BoundAssumption DEF TypeOK
  <2>2. CASE k = i
    <3>1. announces'[i] = announces[i] + 1 BY <1>3, <1>4, <2>2 DEF SetOnline, More, TypeOK
    <3>2. announces'[i] > 0 BY <2>1, <3>1
    <3> QED BY <3>2 DEF InstanceDue
  <2>3. CASE k # i
    <3>1. announces'[i] = announces[i] /\ online'[i] = online[i] /\ scans' = scans
      BY <1>3, <1>4, <2>3 DEF SetOnline, More, TypeOK
    <3> QED BY <1>2, <3>1 DEF InstanceDue
  <2> QED BY <2>2, <2>3
<1>5. ASSUME NEW k \in Instances, Announce(k) PROVE InstanceDue(s)'
  <2>1. scans \subseteq scans' /\ online' = online BY <1>5 DEF Announce
  <2>2. CASE k # i
    <3>1. announces'[i] = announces[i] BY <1>3, <1>5, <2>2 DEF Announce, Fewer, TypeOK
    <3> QED BY <1>2, <2>1, <3>1 DEF InstanceDue
  <2>3. CASE k = i /\ online[i]
    <3>1. ~wasOnline[i]
      <4>1. known' = known BY <1>5 DEF Announce, handlerVars
      <4>2. s \in Wanting(i) BY <4>1 DEF Wanting, Plain, Current
      <4> QED BY <1>5, <2>3, <4>2, <1>3 DEF Announce, Plain, TypeOK
    <3>2. [of |-> i, saw |-> db[i]] \in scans' BY <1>5, <2>3, <3>1 DEF Announce
    <3> QED BY <3>2 DEF InstanceDue
  <2>4. CASE ~online[i] BY <2>1, <2>4 DEF InstanceDue
  <2> QED BY <2>2, <2>3, <2>4
<1>6. CASE Ask BY <1>1, <1>6, AskDoes DEF Added, MarkedIdle, onlineVars
<1>7. CASE ~Ask /\ ~ \E k \in Instances : SetOnline(k) \/ Announce(k)
  BY <1>1, <1>7, WorkerFrame, AgentFrame, TakeFrame, TimerFrame DEF Quietly, onlineVars
<1> QED BY <1>4, <1>5, <1>6, <1>7

\* What is due stays due in steps that tell nothing.
LEMMA DuesStay ==
  ASSUME Basic, Basic', Quietly, NEW s \in Sources, Plain(s)'
  PROVE  /\ NoticeDue(s) => NoticeDue(s)'
         /\ InstanceDue(s) => InstanceDue(s)'
         /\ AgentDue(s) => AgentDue(s)'
BY NoticeDueStays, InstanceDueStays, AgentDueStays

OthersKeep(w) == \A v \in Workers : v # w => worker'[v] = worker[v]

\* The other workers are where they were.
LEMMA OneWorkerMoves ==
  ASSUME TypeOK, NEW w \in Workers, WorkerNext(w) \/ \E s \in Sources : Take(w, s)
  PROVE  OthersKeep(w) /\ worker[w].at \in WorkerSteps
<1>1. OthersKeep(w) BY OnlyWorker DEF OthersKeep
<1> QED BY <1>1 DEF TypeOK

\* The steps of a worker with another source.
LEMMA ForeignWorker ==
  ASSUME Basic, Basic', AllTended, NEW s \in Sources, Plain(s)', NEW w \in Workers, WorkerNext(w), Of(w) # s
  PROVE  Tended(s)'
<1> USE DEF Basic
<1>1. Next /\ Quietly BY DEF Next, Quietly
<1>2. OthersKeep(w) BY OneWorkerMoves
<1>3. /\ worker[w].at # "idle"
      /\ UNCHANGED <<known, sends>>
      /\ parked \subseteq parked'
      /\ overtaken \subseteq overtaken'
  BY WorkerFrame, WorkerStep
<1>4. Plain(s) BY <1>3 DEF Plain, Current
<1>5. SameHolders(s)
  <2>1. \A r \in Sources : ~Take(w, r) BY <1>3 DEF Take
  <2>2. worker'[w] = worker[w] \/ worker'[w] = NoWork \/ worker'[w].of = worker[w].of
    BY <1>1, <2>1, WorkersMove DEF WorkerMoves, LookUp, TypeOK, Of
  <2> QED BY <1>2, <2>2 DEF SameHolders, OthersKeep, Of, NoWork
<1>6. src'[s] = src[s]
  <2>1. CASE LookUp(w) \/ ReadPassword(w) \/ CreateDb(w)
    BY <2>1 DEF LookUp, ReadPassword, CreateDb, handlerVars
  <2>2. CASE Process(w) \/ SetPending(w) \/ RetryNextTime(w) \/ Sync(w)
    <3>1. OnlySrc(Of(w))
      BY <2>2, WorkerSets, RetryDoes, Tells DEF ProcessSets, PendingSets, RetryTimed, SetsSrc
    <3> QED BY <3>1 DEF OnlySrc
  <2> QED BY <2>1, <2>2 DEF WorkerNext
<1> QED BY <1>1, <1>3, <1>4, <1>5, <1>6, DuesStay, TendedStays

-----------------------------------------------------------------------------
(* The steps, one by one *)

\* A source that is new is sent to the queue.
LEMMA TendedAdded ==
  ASSUME Basic, NEW s \in Sources, Added(s)
  PROVE  Tended(s)'
<1> USE DEF Basic
<1>1. \A w \in Workers : worker'[w].at # "idle" => Of(w)' # s
  BY DEF Added, HeldAreKnown, Of
<1>2. "idle" \notin Past /\ "idle" \notin Early BY DEF Past, Early
<1>3. OnePast(s)' /\ BlindAreNeeded(s)' /\ MissedNothing(s)' /\ OfflineStands(s)' /\ PastGoOn(s)'
  BY <1>1, <1>2 DEF OnePast, BlindAreNeeded, Blind, MissedNothing, Unseeing, OfflineStands, PastGoOn
<1>4. ReadyIsTold(s)' BY DEF Added, SetsSrc, ReadyIsTold, InProcess
<1>5. Followed(s)' BY DEF Added, Followed, TypeOK
<1> QED BY <1>3, <1>4, <1>5 DEF Tended

\* A worker that takes the source looks at its database first.
LEMMA TendedTaken ==
  ASSUME Basic, AllTended, NEW s \in Sources, Plain(s)', NEW w \in Workers, Take(w, s), Next
  PROVE  Tended(s)'
<1> USE DEF Basic
<1>1. OthersKeep(w) BY OneWorkerMoves
<1>2. worker'[w] = [at |-> "look", of |-> s, saw |-> "absent"] BY DEF Take, TypeOK
<1>3. worker'[w].at = "look" /\ worker'[w].of = s BY <1>2
<1>4. "idle" \notin Past /\ "idle" \notin Early /\ "look" \notin Past /\ "look" \in Early
  BY DEF Past, Early
<1>5. OnePast(s) /\ BlindAreNeeded(s) /\ MissedNothing(s) /\ OfflineStands(s)
  <2>1. CASE Plain(s) BY <2>1 DEF AllTended, Tended
  <2>2. CASE Holders(s) = {}
    <3>1. \A v \in Workers : worker[v].at # "idle" => Of(v) # s BY <2>2 DEF Holders
    <3> QED BY <1>4, <3>1 DEF OnePast, BlindAreNeeded, Blind, MissedNothing, Unseeing, OfflineStands
  <2>3. ~Added(s) BY DEF Added, Take
  <2> QED BY <2>1, <2>2, <2>3, PlainBefore
<1>6. UNCHANGED <<src, statusVars, onlineVars>> BY DEF Take
<1>7. \A v \in Workers : v # w => worker'[v] = worker[v] BY <1>1 DEF OthersKeep
<1>8. OnePast(s)' BY <1>3, <1>4, <1>5, <1>7 DEF OnePast, Of
<1>9. BlindAreNeeded(s)' BY <1>3, <1>4, <1>5, <1>6, <1>7 DEF BlindAreNeeded, Blind, Of
<1>10. NoticeDue(s)' = NoticeDue(s) /\ InstanceDue(s)' = InstanceDue(s)
  BY <1>6 DEF NoticeDue, InstanceDue, statusVars, onlineVars
<1>11. MissedNothing(s)' BY <1>3, <1>5, <1>6, <1>7, <1>10 DEF MissedNothing, Unseeing, Of
<1>12. OfflineStands(s)' BY <1>3, <1>5, <1>7, <1>10 DEF OfflineStands, Of
<1>13. PastGoOn(s)' BY <1>3, <1>4 DEF PastGoOn, Again, Of
<1>14. ReadyIsTold(s)' BY <1>3 DEF ReadyIsTold, AboutToSee, Of
<1>15. Followed(s)' BY <1>3 DEF Followed, Holders, Of
<1> QED BY <1>8, <1>9, <1>11, <1>12, <1>13, <1>14, <1>15 DEF Tended

\* What the worker sees is so: a database that is not ready yet will be noticed.
LEMMA TendedLookedUp ==
  ASSUME Basic, SeenArePresent, AllTended, NEW s \in Sources, Plain(s)', NEW w \in Workers, LookUp(w), Of(w) = s
  PROVE  Tended(s)'
<1> USE DEF Basic
<1>1. \A v \in Workers : v # w => worker'[v] = worker[v] BY DEF LookUp
<1>2. worker[w].at = "look" /\ worker'[w] = [at |-> "sync", of |-> s, saw |-> db[InstanceOf[s]][NameOf[s]]]
  BY DEF LookUp, TypeOK, Of
<1>3. worker'[w].at = "sync" /\ worker'[w].of = s /\ worker'[w].saw = db[InstanceOf[s]][NameOf[s]]
  BY <1>2
<1>4. "look" \notin Past /\ "sync" \notin Past /\ "sync" \in Early BY DEF Past, Early
<1>5. UNCHANGED <<known, src, sends, parked, overtaken, statusVars, onlineVars>>
  BY DEF LookUp, handlerVars, history
<1>6. Tended(s) /\ Plain(s) BY <1>5 DEF AllTended, Plain, Current
<1>7. OnePast(s)' BY <1>1, <1>3, <1>4, <1>6 DEF Tended, OnePast, Of
<1>8. BlindAreNeeded(s)'
  <2>1. ASSUME db[InstanceOf[s]][NameOf[s]] = "absent" PROVE ~Synced(src[s])
    <3>1. src[s].state \notin {"Ready", "Idle"} BY <2>1 DEF SeenArePresent, Present
    <3>2. src[s].expect \in {"Ready", "Idle"} BY <1>2, RecordsOf DEF HeldAreKnown
    <3> QED BY <3>1, <3>2 DEF Synced
  <2> QED BY <1>1, <1>3, <1>4, <1>5, <1>6, <2>1 DEF Tended, BlindAreNeeded, Blind, Of
<1>9. NoticeDue(s)' = NoticeDue(s) /\ InstanceDue(s)' = InstanceDue(s) /\ AgentDue(s)' = AgentDue(s)
  BY <1>5 DEF NoticeDue, InstanceDue, AgentDue, statusVars, onlineVars
<1>10. MissedNothing(s)'
  <2>1. db[InstanceOf[s]][NameOf[s]] # "ready" => NoticeDue(s) BY DEF NoticeDue
  <2> QED BY <1>1, <1>3, <1>5, <1>6, <1>9, <2>1 DEF Tended, MissedNothing, Unseeing, Of
<1>11. OfflineStands(s)' BY <1>1, <1>3, <1>6, <1>9 DEF Tended, OfflineStands, Of
<1>12. PastGoOn(s)' BY <1>3, <1>4 DEF PastGoOn, Again, Of
<1>13. ReadyIsTold(s)'
  <2>1. ASSUME InProcess(s)'
        PROVE  NoticeDue(s)' \/ \E v \in Workers : AboutToSee(v)' /\ Of(v)' = s
    <3>1. InProcess(s) BY <1>5, <2>1 DEF InProcess
    <3>2. NoticeDue(s) \/ \E v \in Workers : AboutToSee(v) /\ Of(v) = s
      BY <1>6, <3>1 DEF Tended, ReadyIsTold
    <3>3. NoticeDue(s) \/ AboutToSee(w)' BY <1>3 DEF NoticeDue, AboutToSee
    <3> QED BY <1>1, <1>3, <1>9, <3>2, <3>3 DEF AboutToSee, Of
  <2> QED BY <2>1 DEF ReadyIsTold
<1>14. Followed(s)' BY <1>3 DEF Followed, Holders, Of
<1> QED BY <1>7, <1>8, <1>10, <1>11, <1>12, <1>13, <1>14 DEF Tended

\* The worker gives the source up only if it is as it should be.
LEMMA TendedSynced ==
  ASSUME Basic, Basic', AllTended, NEW s \in Sources, Plain(s)', NEW w \in Workers, Sync(w), Of(w) = s
  PROVE  Tended(s)'
<1> USE DEF Basic
<1>1. UNCHANGED <<known, sends, statusVars, onlineVars, parked>> /\ worker[w].at = "sync"
  BY DEF Sync
<1>2. Holders(s) = {w} /\ s \notin overtaken
  BY <1>1 DEF Sync, Plain, Current
<1>3. Tended(s) /\ Plain(s) BY <1>1, <1>2 DEF AllTended, Plain, Current
<1>4. OthersKeep(w) BY OneWorkerMoves DEF WorkerNext
<1>5. \A v \in Workers : v # w => worker'[v] = worker[v] /\ (worker[v].at # "idle" => Of(v) # s)
  BY <1>2, <1>4 DEF OthersKeep, Holders
<1>6. \/ worker'[w] = NoWork /\ worker[w].saw # "absent" /\ Synced(src'[s])
      \/ /\ worker'[w] = [at |-> "process", of |-> s, saw |-> "absent"]
         /\ worker[w].saw = "absent" \/ ~Synced(src'[s])
  BY DEF Sync, Return, Goto, Of, TypeOK
<1>7. NoWork.at = "idle" BY DEF NoWork
<1>8. "idle" \notin Past /\ "idle" \notin Early /\ "process" \in Past BY DEF Past, Early
<1>9. \A v \in Workers : worker'[v].at # "idle" /\ Of(v)' = s => v = w /\ worker'[v].at = "process"
  BY <1>5, <1>6, <1>7 DEF Of
<1>10. NoticeDue(s)' = NoticeDue(s) BY <1>1 DEF NoticeDue, statusVars
<1>11. TellsSource(s) BY Tells
<1>12. src'[s].expect = src[s].expect BY <1>11, Fields DEF TellsSource
<1>13. worker[w].saw = "absent" => src'[s] = src[s] BY DEF Sync
<1>14. ASSUME worker[w].saw = "ready", src[s].expect = "Ready" PROVE Synced(src'[s])
  <2>1. UpdateDbStatus(Told(s, "ready")) BY <1>14 DEF Sync
  <2>2. DOMAIN Told(s, "ready") = {s} /\ Told(s, "ready")[s] = "ready" BY DEF Told
  <2>3. SrcUpdates(s, Told(s, "ready")) BY <2>1, <2>2, Updated
  <2>4. Reaches(src[s], "ready") <=> ~Synced(src[s]) BY <1>14, StageIs DEF Reaches, DbStatuses
  <2>5. src'[s] = Reached(src[s]) \/ (Synced(src[s]) /\ (src'[s] = src[s] \/ Fails(src[s], "ready")))
    BY <2>2, <2>3, <2>4 DEF SrcUpdates
  <2>6. ~Fails(src[s], "ready") BY DEF Fails
  <2>7. CASE src'[s] = Reached(src[s])
    <3>1. Reached(src[s]).state = Reached(src[s]).expect BY Fields
    <3> QED BY <2>7, <3>1 DEF Synced
  <2>8. CASE Synced(src[s]) /\ src'[s] = src[s] BY <2>8 DEF Synced
  <2> QED BY <2>5, <2>6, <2>7, <2>8
<1>15. ASSUME worker'[w].at = "process" PROVE ~Synced(src'[s])
  <2>1. worker[w].saw = "absent" => ~Synced(src[s]) BY <1>1, <1>3 DEF Tended, BlindAreNeeded, Blind
  <2> QED BY <1>6, <1>7, <1>13, <1>15, <2>1
<1>16. ASSUME worker'[w].at = "process", src'[s].expect = "Ready" PROVE NoticeDue(s)'
  <2>1. worker[w].saw # "ready" BY <1>12, <1>14, <1>15, <1>16
  <2>2. Unseeing(w) BY <1>1, <2>1 DEF Unseeing
  <2> QED BY <1>3, <1>10, <1>12, <1>16, <2>2 DEF Tended, MissedNothing
<1>17. OnePast(s)' BY <1>8, <1>9 DEF OnePast
<1>18. BlindAreNeeded(s)' BY <1>8, <1>9, <1>15 DEF BlindAreNeeded, Blind
<1>19. MissedNothing(s)' BY <1>9, <1>16 DEF MissedNothing, Unseeing
<1>20. OfflineStands(s)' /\ PastGoOn(s)' BY <1>8, <1>9 DEF OfflineStands, PastGoOn
<1>21. worker'[w].at = "process" \/ Synced(src'[s]) BY <1>6
<1>22. ReadyIsTold(s)'
  <2>1. ASSUME InProcess(s)' PROVE NoticeDue(s)'
    <3>1. ~Synced(src'[s]) /\ src'[s].expect = "Ready" BY <2>1 DEF InProcess, Synced
    <3> QED BY <1>16, <1>21, <3>1
  <2> QED BY <2>1 DEF ReadyIsTold
<1>23. Followed(s)'
  <2>1. worker'[w].at = "process" => worker'[w].of = s BY <1>6, <1>7
  <2> QED BY <1>21, <2>1 DEF Followed, Holders, Of
<1> QED BY <1>17, <1>18, <1>19, <1>20, <1>22, <1>23 DEF Tended

\* The source is in process; if it is to be idle, this is the end of it.
LEMMA TendedProcessed ==
  ASSUME Basic, Basic', AllTended, NEW s \in Sources, Plain(s)', NEW w \in Workers, Process(w), Of(w) = s
  PROVE  Tended(s)'
<1> USE DEF Basic
<1>1. UNCHANGED <<known, sends, statusVars, onlineVars, overtaken>> /\ worker[w].at = "process"
  BY DEF Process
<1>2. Tended(s) /\ Plain(s) /\ Current(s) BY <1>1 DEF AllTended, Plain, Current
<1>3. \A v \in Workers : v # w => worker'[v] = worker[v]
  BY OneWorkerMoves DEF WorkerNext, OthersKeep
<1>4. SetsSrc(s, "Processing", src[s].expect, src[s].next) BY WorkerSets DEF ProcessSets
<1>5. src'[s].state = "Processing" /\ src'[s].expect = src[s].expect /\ src'[s].next = src[s].next
  BY <1>4 DEF SetsSrc
<1>6. src[s].expect \in {"Ready", "Idle"} BY <1>1, RecordsOf DEF HeldAreKnown
<1>7. \/ worker'[w] = NoWork /\ src[s].expect = "Idle" /\ s \in parked'
      \/ worker'[w] = [at |-> "password", of |-> s, saw |-> "absent"] /\ src[s].expect = "Ready"
  BY <1>2, <1>6 DEF Process, Return, Goto, Of, TypeOK
<1>8. \/ worker'[w].at = "idle" /\ src[s].expect = "Idle" /\ s \in parked'
      \/ worker'[w].at = "password" /\ worker'[w].of = s /\ src[s].expect = "Ready"
  BY <1>7 DEF NoWork
<1>9. "idle" \notin Past /\ "process" \in Past /\ "password" \in Past BY DEF Past
<1>10. \A v \in Workers : v # w /\ worker[v].at \in Past => Of(v) # s
  BY <1>1, <1>2, <1>9 DEF Tended, OnePast
<1>11. ~Synced(src'[s]) BY <1>5, <1>6 DEF Synced
<1>12. NoticeDue(s)' = NoticeDue(s) /\ InstanceDue(s)' = InstanceDue(s)
  BY <1>1 DEF NoticeDue, InstanceDue, statusVars, onlineVars
<1>13. OnePast(s)' BY <1>3, <1>8, <1>9, <1>10 DEF OnePast, Of
<1>14. BlindAreNeeded(s)' BY <1>11 DEF BlindAreNeeded
<1>15. src[s].expect = "Ready" => NoticeDue(s) BY <1>1, <1>2 DEF Tended, MissedNothing, Unseeing
<1>16. MissedNothing(s)' BY <1>5, <1>12, <1>15 DEF MissedNothing
<1>17. OfflineStands(s)' BY <1>2, <1>3, <1>8, <1>12 DEF Tended, OfflineStands, Of
<1>18. PastGoOn(s)'
  <2>1. ASSUME NEW v \in Workers, worker'[v].at \in Past \ {"process"}, Of(v)' = s PROVE InProcess(s)'
    <3>1. v = w BY <1>3, <1>10, <2>1 DEF Of
    <3> QED BY <1>5, <1>8, <1>9, <2>1, <3>1 DEF InProcess
  <2> QED BY <2>1 DEF PastGoOn
<1>19. ReadyIsTold(s)' BY <1>5, <1>12, <1>15 DEF ReadyIsTold, InProcess
<1>20. Followed(s)' BY <1>8 DEF Followed, Holders, Of
<1> QED BY <1>13, <1>14, <1>16, <1>17, <1>18, <1>19, <1>20 DEF Tended

\* Without a password nobody sees to the source any more.
LEMMA TendedPassword ==
  ASSUME Basic, AllTended, NEW s \in Sources, Plain(s)', NEW w \in Workers, ReadPassword(w), Of(w) = s
  PROVE  Tended(s)'
<1> USE DEF Basic
<1>1. UNCHANGED <<known, src, sends, statusVars, onlineVars, overtaken>> /\ worker[w].at = "password"
  BY DEF ReadPassword, handlerVars
<1>2. Tended(s) /\ Plain(s) /\ Current(s) BY <1>1 DEF AllTended, Plain, Current
<1>3. \A v \in Workers : v # w => worker'[v] = worker[v]
  BY OneWorkerMoves DEF WorkerNext, OthersKeep
<1>4. \/ worker'[w] = NoWork /\ s \in parked'
      \/ worker'[w] = [at |-> "create", of |-> s, saw |-> "absent"]
  BY <1>2 DEF ReadPassword, Return, Goto, Of, TypeOK
<1>5. \/ worker'[w].at = "idle" /\ s \in parked'
      \/ worker'[w].at = "create" /\ worker'[w].of = s
  BY <1>4 DEF NoWork
<1>6. "idle" \notin Past /\ "password" \in Past /\ "create" \in Past /\ "password" \notin Early
  BY DEF Past, Early
<1>7. /\ NoticeDue(s)' = NoticeDue(s) /\ InstanceDue(s)' = InstanceDue(s) /\ InProcess(s)' = InProcess(s)
  BY <1>1 DEF NoticeDue, InstanceDue, InProcess, statusVars, onlineVars
<1>8. OnePast(s)' BY <1>1, <1>2, <1>3, <1>5, <1>6 DEF Tended, OnePast, Of
<1>9. BlindAreNeeded(s)' BY <1>1, <1>2, <1>3, <1>5, <1>6 DEF Tended, BlindAreNeeded, Blind, Of
<1>10. MissedNothing(s)' BY <1>1, <1>2, <1>3, <1>5, <1>7 DEF Tended, MissedNothing, Unseeing, Of
<1>11. OfflineStands(s)' BY <1>2, <1>3, <1>5, <1>7 DEF Tended, OfflineStands, Of
<1>12. Again(s) => Again(s)' BY <1>1, <1>3, <1>6 DEF Again, Of
<1>13. PastGoOn(s)'
  <2>1. \A v \in Workers : worker'[v].at \in Past \ {"process"} /\ Of(v)' = s =>
           worker[v].at \in Past \ {"process"} /\ Of(v) = s
    BY <1>1, <1>3, <1>5, <1>6 DEF Of
  <2> QED BY <1>2, <1>7, <1>12, <2>1 DEF Tended, PastGoOn
<1>14. ReadyIsTold(s)'
  <2>1. \A v \in Workers : AboutToSee(v) /\ Of(v) = s => AboutToSee(v)' /\ Of(v)' = s
    BY <1>1, <1>3 DEF AboutToSee, Of
  <2> QED BY <1>2, <1>7, <2>1 DEF Tended, ReadyIsTold
<1>15. Followed(s)' BY <1>5 DEF Followed, Holders, Of
<1> QED BY <1>8, <1>9, <1>10, <1>11, <1>13, <1>14, <1>15 DEF Tended

\* The database is asked for, or is there and will be noticed, or is refused.
LEMMA TendedCreated ==
  ASSUME Basic, Basic', AllTended, NEW s \in Sources, Plain(s)', NEW w \in Workers, CreateDb(w), Of(w) = s
  PROVE  Tended(s)'
<1> USE DEF Basic
<1> DEFINE i == InstanceOf[s]
           n == NameOf[s]
<1>1. UNCHANGED <<known, src, sends, notices, onlineVars, parked, overtaken>> /\ worker[w].at = "create"
  BY DEF CreateDb, handlerVars, history
<1>2. Tended(s) /\ Plain(s) /\ Current(s) BY <1>1 DEF AllTended, Plain, Current
<1>3. \A v \in Workers : v # w => worker'[v] = worker[v]
  BY OneWorkerMoves DEF WorkerNext, OthersKeep
<1>4. i \in Instances /\ n \in Names /\ FromOf[s] \in Instances \cup {None} BY ConfigAssumption
<1>5. Quietly /\ Next BY DEF Quietly, Next, WorkerNext
<1>6. EntriesOnly BY CreateDbDoes
<1>7. (NoticeDue(s) => NoticeDue(s)') /\ (InstanceDue(s) => InstanceDue(s)') BY <1>5, DuesStay
<1>8. "idle" \notin Past /\ "create" \in Past /\ "create" \notin Early BY DEF Past, Early
<1>9. worker'[w].at \in {"idle", "offline", "failed"} /\ (worker'[w].at # "idle" => worker'[w].of = s)
  BY DEF CreateDb, Return, Goto, Of, NoWork, TypeOK
<1>10. OnePast(s)' BY <1>1, <1>2, <1>3, <1>8, <1>9 DEF Tended, OnePast, Of
<1>11. BlindAreNeeded(s)' BY <1>1, <1>2, <1>3, <1>8, <1>9 DEF Tended, BlindAreNeeded, Blind, Of
<1>12. MissedNothing(s)' BY <1>1, <1>2, <1>3, <1>7, <1>9 DEF Tended, MissedNothing, Unseeing, Of
<1>13. worker'[w].at = "offline" => InstanceDue(s)
  <2>1. worker'[w].at = "offline" => \E k \in NeededInstances(s) : ~online[k]
    BY DEF CreateDb, Return, Goto, NoWork, TypeOK
  <2> QED BY <2>1 DEF InstanceDue
<1>14. OfflineStands(s)' BY <1>2, <1>3, <1>7, <1>13 DEF Tended, OfflineStands, Of
<1>15. InProcess(s)' = InProcess(s) BY <1>1 DEF InProcess
<1>16. Again(s) => Again(s)' BY <1>1, <1>3, <1>8 DEF Again, Of
<1>17. InProcess(s) \/ Again(s) BY <1>1, <1>2, <1>8 DEF Tended, PastGoOn
<1>18. PastGoOn(s)' BY <1>15, <1>16, <1>17 DEF PastGoOn
<1>19. ReadyIsTold(s)'
  <2>1. \A v \in Workers : AboutToSee(v) /\ Of(v) = s => AboutToSee(v)' /\ Of(v)' = s
    BY <1>1, <1>3 DEF AboutToSee, Of
  <2> QED BY <1>2, <1>7, <1>15, <2>1 DEF Tended, ReadyIsTold
<1>20. ASSUME worker'[w].at = "idle", InProcess(s) PROVE AgentDue(s)'
  <2>1. Goto(w, "offline") \/ Goto(w, "failed") => FALSE BY <1>20 DEF Goto, TypeOK
  <2>2. CASE followUps' = followUps \cup {s} BY <2>2 DEF AgentDue
  <2>3. CASE db' = WithEntry(i, n) /\ job' = WithJob(i, n) /\ ~Refuses(i, n)
    <3>1. CASE Asks(i, n)
      <4>1. PICK asked : asked = WithJob(i, n) OBVIOUS
      <4>2. asked[i][n] # "none" BY <1>4, <3>1, <4>1, JobOnly
      <4>3. job'[i][n] # "none" BY <2>3, <4>1, <4>2
      <4> QED BY <4>3 DEF AgentDue
    <3>2. CASE db[i][n] = "working"
      <4>1. db'[i][n] = "working" BY <1>4, <1>6, <3>2 DEF EntriesOnly
      <4> QED BY <4>1 DEF AgentDue
    <3>3. CASE db[i][n] = "ready"
      <4>1. NoticeDue(s) BY <1>1, <1>2, <1>20 DEF Tended, MissedNothing, Unseeing, InProcess
      <4>2. notices'[i][n] > 0 BY <1>1, <3>3, <4>1 DEF NoticeDue
      <4> QED BY <4>2 DEF AgentDue
    <3>4. db[i][n] \notin {"leaving", "idle"}
      <4>1. db[i][n] \in DbStatuses BY <1>4 DEF TypeOK
      <4> QED BY <2>3, <4>1, StageIs DEF Refuses
    <3>5. db[i][n] \in DbStatuses BY <1>4 DEF TypeOK
    <3> QED BY <3>1, <3>2, <3>3, <3>4, <3>5 DEF Asks, DbStatuses
  <2> QED BY <2>1, <2>2, <2>3 DEF CreateDb
<1>21. Followed(s)'
  <2>1. CASE worker'[w].at # "idle" BY <1>9, <2>1 DEF Followed, Holders, Of
  <2>2. CASE worker'[w].at = "idle" /\ InProcess(s) BY <1>15, <1>20, <2>2 DEF Followed
  <2>3. CASE Again(s)
    <3>1. sends'[s] > 0 \/ src'[s].next # NoTime \/ Holders(s)' # {}
      BY <1>1, <1>3, <1>8, <2>3 DEF Again, Early, Holders, Of
    <3> QED BY <3>1 DEF Followed
  <2> QED BY <1>17, <2>1, <2>2, <2>3
<1> QED BY <1>10, <1>11, <1>12, <1>14, <1>18, <1>19, <1>21 DEF Tended

\* The instance is offline and will be reported, or the source is tried again.
LEMMA TendedFailed ==
  ASSUME Basic, Basic', AllTended, NEW s \in Sources, Plain(s)', NEW w \in Workers,
         SetPending(w) \/ RetryNextTime(w), Of(w) = s
  PROVE  Tended(s)'
<1> USE DEF Basic
<1>1. UNCHANGED <<known, sends, statusVars, onlineVars, parked, overtaken>>
  BY DEF SetPending, RetryNextTime, history
<1>2. worker[w].at \in {"offline", "failed"} /\ (SetPending(w) => worker[w].at = "offline")
  BY DEF SetPending, RetryNextTime
<1>3. Tended(s) /\ Plain(s) /\ Current(s) BY <1>1 DEF AllTended, Plain, Current
<1>4. \A v \in Workers : v # w => worker'[v] = worker[v]
  BY OneWorkerMoves DEF WorkerNext, OthersKeep
<1>5. worker'[w].at = "idle" BY DEF SetPending, RetryNextTime, Return, NoWork, TypeOK
<1>6. "idle" \notin Past /\ "offline" \in Past /\ "failed" \in Past BY DEF Past
<1>7. \A v \in Workers : worker'[v].at \in Past => Of(v)' # s
  BY <1>2, <1>3, <1>4, <1>5, <1>6 DEF Tended, OnePast, Of
<1>8. PICK st \in {"Pending", "Scheduling"}, nx \in Times \cup {NoTime} :
        /\ SetsSrc(s, st, src[s].expect, nx)
        /\ st = "Pending" \/ nx # NoTime
        /\ st = "Pending" => SetPending(w)
  BY WorkerSets, RetryDoes, RecordsOf DEF PendingSets, RetryTimed
<1>9. src'[s].state = st /\ src'[s].expect = src[s].expect /\ src'[s].next = nx BY <1>8 DEF SetsSrc
<1>10. src[s].expect \in {"Ready", "Idle"} BY <1>2, RecordsOf DEF HeldAreKnown
<1>11. ~Synced(src'[s]) BY <1>9, <1>10 DEF Synced
<1>12. NoticeDue(s)' = NoticeDue(s) /\ InstanceDue(s)' = InstanceDue(s)
  BY <1>1 DEF NoticeDue, InstanceDue, statusVars, onlineVars
<1>13. OnePast(s)' BY <1>7 DEF OnePast
<1>14. BlindAreNeeded(s)' BY <1>11 DEF BlindAreNeeded
<1>15. MissedNothing(s)' BY <1>3, <1>4, <1>5, <1>9, <1>12 DEF Tended, MissedNothing, Unseeing, Of
<1>16. OfflineStands(s)' BY <1>6, <1>7 DEF OfflineStands
<1>17. PastGoOn(s)' BY <1>7 DEF PastGoOn
<1>18. ReadyIsTold(s)' BY <1>9 DEF ReadyIsTold, InProcess
<1>19. Followed(s)'
  <2>1. CASE nx # NoTime BY <1>9, <2>1 DEF Followed
  <2>2. CASE st = "Pending"
    <3>1. InstanceDue(s) BY <1>2, <1>3, <1>8, <2>2 DEF Tended, OfflineStands
    <3> QED BY <1>9, <1>12, <2>2, <3>1 DEF Followed
  <2> QED BY <1>8, <2>1, <2>2
<1> QED BY <1>13, <1>14, <1>15, <1>16, <1>17, <1>18, <1>19 DEF Tended

\* The source waits for the timer of the delayed idling.
LEMMA TendedIdled ==
  ASSUME Basic, Basic', AllTended, NEW s \in Sources, Plain(s)', MarkedIdle(s)
  PROVE  Tended(s)'
<1> USE DEF Basic
<1>1. UNCHANGED <<known, sends, worker, statusVars, onlineVars, parked, overtaken>>
  BY DEF MarkedIdle, history
<1>2. Tended(s) /\ Plain(s) BY <1>1 DEF AllTended, Plain, Current
<1>3. src'[s].state = "Scheduling" /\ src'[s].expect = "Idle" /\ src'[s].next # NoTime
  BY DEF MarkedIdle, SetsSrc
<1>4. InstanceDue(s)' = InstanceDue(s) BY <1>1 DEF InstanceDue, onlineVars
<1>5. \A w \in Workers : worker'[w] = worker[w] BY <1>1
<1>6. OnePast(s)' BY <1>1, <1>2, <1>5 DEF Tended, OnePast, Of
<1>7. BlindAreNeeded(s)' /\ MissedNothing(s)' /\ PastGoOn(s)' /\ ReadyIsTold(s)' /\ Followed(s)'
  BY <1>3
     DEF BlindAreNeeded, Synced, MissedNothing, PastGoOn, Again, ReadyIsTold, InProcess, Followed
<1>8. OfflineStands(s)' BY <1>2, <1>4, <1>5 DEF Tended, OfflineStands, Of
<1> QED BY <1>6, <1>7, <1>8 DEF Tended

\* What files and the web ask for.
LEMMA TendedAsked ==
  ASSUME Basic, Basic', AllTended, NEW s \in Sources, Plain(s)', Ask
  PROVE  Tended(s)'
<1> USE DEF Basic
<1>1. Next /\ Quietly BY DEF Next, Quietly
<1>2. CASE Added(s) BY <1>2, TendedAdded
<1>3. CASE MarkedIdle(s) BY <1>3, TendedIdled
<1>4. CASE ~Added(s) /\ ~MarkedIdle(s)
  <2>1. worker' = worker /\ src'[s] = src[s] /\ (sends[s] > 0 => sends'[s] > 0) /\ (s \in parked => s \in parked')
    <3>1. CASE UNCHANGED <<handlerVars, statusVars, onlineVars, worker, history>>
      BY <3>1 DEF handlerVars, history
    <3>2. ASSUME NEW r \in Sources, MarkedIdle(r)
          PROVE  worker' = worker /\ src'[s] = src[s] /\ sends' = sends /\ parked' = parked
      BY <1>4, <3>2 DEF MarkedIdle, SetsSrc, OnlySrc, history
    <3>3. ASSUME NEW r \in Sources, Added(r)
          PROVE  worker' = worker /\ src'[s] = src[s] /\ sends'[s] = sends[s] /\ (s \in parked => s \in parked')
      <4>1. r # s BY <1>4, <3>3
      <4>2. known[NameOf[r]] # s
        <5>1. known'[NameOf[s]] = s BY DEF Plain, Current
        <5>2. known'[NameOf[r]] = r BY <3>3, ConfigAssumption DEF Added, TypeOK
        <5>3. NameOf[r] # NameOf[s] BY <4>1, <5>1, <5>2
        <5> QED BY <5>3, ConfigAssumption, NoneAssumption DEF KnownFits
      <4> QED BY <3>3, <4>1, <4>2 DEF Added, SetsSrc, OnlySrc, TypeOK
    <3> QED BY <3>1, <3>2, <3>3, AskDoes
  <2>2. \A w \in Workers, r \in Sources : ~Take(w, r)
    BY <2>1 DEF Take, TypeOK
  <2>3. Plain(s) BY <1>1, <1>4, <2>2, PlainBefore
  <2>4. SameHolders(s) BY <2>1 DEF SameHolders
  <2> QED BY <1>1, <2>1, <2>3, <2>4, DuesStay, TendedStays
<1> QED BY <1>2, <1>3, <1>4

\* Steps that do not touch the source.
LEMMA TendedElsewhere ==
  ASSUME Basic, Basic', AllTended, NEW s \in Sources, Plain(s)',
         \/ \E w \in Workers, r \in Sources \ {s} : Take(w, r)
         \/ \E i \in Instances : Announce(i) \/ SetOnline(i) \/ \E n \in Names : AgentNext(i, n)
  PROVE  Tended(s)'
<1> USE DEF Basic
<1>1. Next /\ Quietly BY DEF Next, Quietly, Callback
<1>2. CASE \E w \in Workers, r \in Sources \ {s} : Take(w, r)
  <2>1. PICK w \in Workers, r \in Sources \ {s} : Take(w, r) BY <1>2
  <2>2. UNCHANGED <<known, src>> /\ sends'[s] = sends[s] /\ (s \in parked => s \in parked')
    BY <2>1 DEF Take, Fewer, TypeOK
  <2>3. Plain(s) BY <2>1, <2>2 DEF Plain, Current, Take
  <2>4. worker[w].at = "idle" /\ worker'[w].of = r /\ \A v \in Workers : v # w => worker'[v] = worker[v]
    BY <2>1 DEF Take, TypeOK
  <2>5. SameHolders(s) BY <2>4 DEF SameHolders
  <2> QED BY <1>1, <2>2, <2>3, <2>5, DuesStay, TendedStays
<1>3. CASE \E i \in Instances : Announce(i) \/ SetOnline(i) \/ \E n \in Names : AgentNext(i, n)
  <2>1. UNCHANGED <<known, src, sends, worker, parked>> /\ overtaken \subseteq overtaken'
    BY <1>3, AgentFrame, AnnounceFrame, OnlineFrame DEF handlerVars, history
  <2>2. Plain(s) /\ SameHolders(s) BY <2>1 DEF Plain, Current, SameHolders
  <2> QED BY <1>1, <2>1, <2>2, DuesStay, TendedStays
<1> QED BY <1>2, <1>3

\* A timer sends the source to the queue, or is not its own.
LEMMA TendedTimer ==
  ASSUME Basic, Basic', AllTended, NEW s \in Sources, Plain(s)', NEW e \in timers, TimerFires(e)
  PROVE  Tended(s)'
<1> USE DEF Basic
<1>1. UNCHANGED <<known, worker, statusVars, onlineVars, parked, overtaken>>
  BY DEF TimerFires, history
<1>2. Tended(s) /\ Plain(s) BY <1>1 DEF AllTended, Plain, Current
<1>3. Fired(e) BY TimerDoes
<1>4. Next /\ Quietly BY DEF Next, Quietly
<1>5. CASE src'[s] = src[s] /\ sends'[s] = sends[s]
  <2>1. SameHolders(s) BY <1>1 DEF SameHolders
  <2> QED BY <1>1, <1>2, <1>4, <1>5, <2>1, DuesStay, TendedStays
<1>6. CASE /\ src'[s].state = src[s].state /\ src'[s].expect = src[s].expect
           /\ sends'[s] > 0
  <2>1. NoticeDue(s)' = NoticeDue(s) /\ InstanceDue(s)' = InstanceDue(s) /\ InProcess(s)' = InProcess(s)
    BY <1>1, <1>6 DEF NoticeDue, InstanceDue, InProcess, statusVars, onlineVars
  <2>2. Synced(src'[s]) = Synced(src[s]) BY <1>6 DEF Synced
  <2>3. \A w \in Workers : worker'[w] = worker[w] BY <1>1
  <2>4. OnePast(s)' BY <1>2, <2>3 DEF Tended, OnePast, Of
  <2>5. BlindAreNeeded(s)' BY <1>2, <2>2, <2>3 DEF Tended, BlindAreNeeded, Blind, Of
  <2>6. MissedNothing(s)' BY <1>2, <1>6, <2>1, <2>3 DEF Tended, MissedNothing, Unseeing, Of
  <2>7. OfflineStands(s)' BY <1>2, <2>1, <2>3 DEF Tended, OfflineStands, Of
  <2>8. PastGoOn(s)' /\ Followed(s)' BY <1>6 DEF PastGoOn, Again, Followed
  <2>9. ReadyIsTold(s)' BY <1>2, <2>1, <2>3 DEF Tended, ReadyIsTold, AboutToSee, Of
  <2> QED BY <2>4, <2>5, <2>6, <2>7, <2>8, <2>9 DEF Tended
<1>7. CASE known[e.name] = s /\ sends' = [sends EXCEPT ![s] = @ + 1] /\ SetsSrc(s, src[s].state, src[s].expect, NoTime)
  <2>1. sends[s] \in Nat BY BoundAssumption DEF TypeOK
  <2>2. sends'[s] = sends[s] + 1 BY <1>7 DEF TypeOK
  <2> QED BY <1>6, <1>7, <2>1, <2>2 DEF SetsSrc
<1>8. CASE known[e.name] # s
  BY <1>3, <1>5, <1>8 DEF Fired, SetsSrc, OnlySrc, TypeOK
<1> QED BY <1>3, <1>5, <1>7, <1>8 DEF Fired

\* Whoever has the source is still to look at its database.
LEMMA TendedAtLook ==
  ASSUME Basic, NEW s \in Sources, Plain(s), worker' = worker, s \notin InHand,
         InProcess(s)' => NoticeDue(s)' \/ ((NoticeDue(s) => NoticeDue(s)') /\ Tended(s) /\ InProcess(s)),
         \/ Synced(src'[s])
         \/ src'[s].next # NoTime
         \/ sends'[s] > 0
         \/ Holders(s)' # {}
         \/ s \in parked'
         \/ src'[s].state = "Pending" /\ InstanceDue(s)'
         \/ InProcess(s)' /\ AgentDue(s)'
  PROVE  Tended(s)'
<1>1. \A w \in Workers : worker'[w].at \in {"idle", "look"} \/ Of(w)' # s BY DEF InHand, Of
<1>2. {"idle", "look"} \cap Past = {} BY DEF Past
<1>3. OnePast(s)' /\ BlindAreNeeded(s)' /\ MissedNothing(s)' /\ OfflineStands(s)' /\ PastGoOn(s)'
  BY <1>1, <1>2 DEF OnePast, BlindAreNeeded, Blind, MissedNothing, Unseeing, OfflineStands, PastGoOn
<1>4. ReadyIsTold(s)'
  <2>1. \A w \in Workers : AboutToSee(w) /\ Of(w) = s => AboutToSee(w)' /\ Of(w)' = s
    BY DEF AboutToSee, Of
  <2> QED BY <2>1 DEF ReadyIsTold, Tended
<1>5. Followed(s)' BY DEF Followed
<1> QED BY <1>3, <1>4, <1>5 DEF Tended

\* The notice is for the source.
LEMMA TendedTold ==
  ASSUME Basic, Basic', AllTended, NEW s \in Sources, Plain(s)', NEW i \in Instances, NEW n \in Names,
         NoticeRuns(i, n), s \in Hearers(i, n)
  PROVE  Tended(s)'
<1> USE DEF Basic
<1>1. UNCHANGED <<known, sends, worker, onlineVars, parked>> /\ overtaken \subseteq overtaken'
  BY DEF NoticeRuns
<1>2. Plain(s) /\ Tended(s) BY <1>1 DEF AllTended, Plain, Current
<1>3. NameOf[s] = n /\ InstanceOf[s] = i BY DEF Hearers
<1>4. db[i][n] \in DbStatuses /\ db[i][n] \notin {"absent", "none"}
  BY DEF TypeOK, NoticeRuns, NoticedAreThere
<1>5. db'[i][n] = db[i][n] BY <1>4, NoticeEntries DEF EntriesOnly
<1>6. InstanceDue(s)' = InstanceDue(s) BY <1>1 DEF InstanceDue, onlineVars
<1>7. CASE db[i][n] \in {"working", "leaving"}
  <2>1. src' = src BY <1>7 DEF NoticeRuns
  <2>2. SameHolders(s) BY <1>1 DEF SameHolders
  <2>3. NoticeDue(s)' BY <1>3, <1>5, <1>7 DEF NoticeDue
  <2>4. AgentDue(s)' BY <1>3, <1>4, <1>5, <1>7, StageIs DEF AgentDue
  <2> QED BY <1>1, <1>2, <1>6, <2>1, <2>2, <2>3, <2>4, TendedStays
<1>8. CASE db[i][n] \in {"failed", "ready", "idle"}
  <2> DEFINE told == [r \in Hearers(i, n) |-> db[i][n]]
  <2>1. UpdateDbStatus(told) /\ s \notin InHand BY <1>8 DEF NoticeRuns, Plain
  <2>2. DOMAIN told \subseteq Sources /\ s \in DOMAIN told /\ told[s] = db[i][n] BY DEF Hearers
  <2> HIDE DEF told
  <2>3. SrcUpdates(s, told) BY <2>1, <2>2, Updated
  <2>4. CASE src'[s] = Reached(src[s])
    <3>1. Synced(src'[s]) BY <2>4, Fields DEF Synced
    <3>2. ~InProcess(s)' BY <3>1 DEF InProcess, Synced
    <3> QED BY <1>1, <1>2, <2>1, <3>1, <3>2, TendedAtLook
  <2>5. ASSUME NEW t, t # NoTime, src'[s] = Retried(src[s], t) PROVE Tended(s)'
    <3>1. src'[s].next # NoTime /\ src'[s].state = "Scheduling" BY <2>5, Fields
    <3>2. ~InProcess(s)' BY <3>1 DEF InProcess
    <3> QED BY <1>1, <1>2, <2>1, <3>1, <3>2, TendedAtLook
  <2>6. CASE src'[s] = src[s] /\ ~Reaches(src[s], db[i][n]) /\ ~Fails(src[s], db[i][n])
    <3>1. ASSUME InProcess(s) PROVE db[i][n] = "idle"
      <4>1. ~Synced(src[s]) BY <3>1 DEF InProcess, Synced
      <4>2. db[i][n] # "ready" BY <1>4, <2>6, <3>1, <4>1, StageIs DEF Reaches, InProcess
      <4>3. db[i][n] # "failed" BY <2>6, <3>1 DEF Fails, InProcess
      <4> QED BY <1>8, <4>2, <4>3
    <3>2. InProcess(s)' = InProcess(s) BY <2>6 DEF InProcess
    <3>3. InProcess(s) => NoticeDue(s)' BY <1>3, <1>5, <3>1 DEF NoticeDue
    <3>4. InProcess(s) => AgentDue(s)' BY <1>3, <1>4, <1>5, <3>1, StageIs DEF AgentDue
    <3>5. Holders(s)' = Holders(s) BY <1>1 DEF Holders, Of
    <3>6. Followed(s) BY <1>2 DEF Tended
    <3>7. \/ Synced(src'[s])
          \/ src'[s].next # NoTime
          \/ sends'[s] > 0
          \/ Holders(s)' # {}
          \/ s \in parked'
          \/ src'[s].state = "Pending" /\ InstanceDue(s)'
          \/ InProcess(s)' /\ AgentDue(s)'
      BY <1>1, <1>6, <2>6, <3>2, <3>4, <3>5, <3>6 DEF Followed
    <3> QED BY <1>1, <1>2, <2>1, <3>2, <3>3, <3>7, TendedAtLook
  <2> QED BY <2>2, <2>3, <2>4, <2>5, <2>6 DEF SrcUpdates
<1> QED BY <1>4, <1>7, <1>8 DEF DbStatuses

\* The notice is for others; the source may have waited for this database to be
\* idle, and asks for its own now.
LEMMA TendedUntold ==
  ASSUME Basic, Basic', AllTended, NEW s \in Sources, Plain(s)', NEW i \in Instances, NEW n \in Names,
         NoticeRuns(i, n), s \notin Hearers(i, n)
  PROVE  Tended(s)'
<1> USE DEF Basic
<1> DEFINE k == InstanceOf[s]
           m == NameOf[s]
           moving == IF db[i][n] = "idle" THEN {r \in followUps : FromOf[r] = i /\ NameOf[r] = n} ELSE {}
<1>1. UNCHANGED <<known, sends, worker, onlineVars, parked>> /\ overtaken \subseteq overtaken'
  BY DEF NoticeRuns
<1>2. Plain(s) /\ Tended(s) BY <1>1 DEF AllTended, Plain, Current
<1>3. src'[s] = src[s] BY Tells
<1>4. k \in Instances /\ m \in Names /\ ~(k = i /\ m = n)
  BY <1>2, ConfigAssumption DEF Hearers, Plain
<1>5. notices'[k][m] = notices[k][m]
  <2>1. notices' = [notices EXCEPT ![i] = [notices[i] EXCEPT ![n] = @ - 1]] BY DEF NoticeRuns, Fewer
  <2>2. CASE k = i
    <3>1. notices'[i] = [notices[i] EXCEPT ![n] = @ - 1] BY <2>1 DEF TypeOK
    <3>2. notices[i] \in [Names -> 0..MaxWaiting] BY DEF TypeOK
    <3> QED BY <1>4, <2>2, <3>1, <3>2
  <2>3. CASE k # i BY <1>4, <2>1, <2>3 DEF TypeOK
  <2> QED BY <2>2, <2>3
<1>6. EntriesOnly BY NoticeEntries
<1>7. NoticeDue(s) => NoticeDue(s)' BY <1>4, <1>5, <1>6 DEF NoticeDue, EntriesOnly
<1>8. InstanceDue(s)' = InstanceDue(s) BY <1>1 DEF InstanceDue, onlineVars
<1>9. job' = [x \in Instances |-> IF \E r \in moving : InstanceOf[r] = x THEN WithJob(x, n)[x] ELSE job[x]]
  BY DEF NoticeRuns
<1>10. followUps' = followUps \ moving BY DEF NoticeRuns
<1>11. s \in moving => m = n OBVIOUS
<1> HIDE DEF moving
<1>12. PICK asked : asked = WithJob(k, n) OBVIOUS
<1>13. job'[k] = IF \E r \in moving : InstanceOf[r] = k THEN asked[k] ELSE job[k]
  BY <1>4, <1>9, <1>12
<1>14. job[k][m] # "none" => job'[k][m] # "none"
  <2>1. job[k][m] # "none" => asked[k][m] # "none" BY <1>4, <1>12, JobOnly
  <2> QED BY <1>13, <2>1
<1>15. db[k][m] \in DbStatuses /\ db'[k][m] \in DbStatuses BY <1>4 DEF TypeOK
<1>16. /\ db[k][m] = "working" => db'[k][m] = "working"
       /\ Stage(db[k][m]) = "Idle" => Stage(db'[k][m]) = "Idle"
  BY <1>4, <1>6, <1>15, StageIs DEF EntriesOnly
<1>17. ASSUME s \in moving, InProcess(s), Holders(s) = {} PROVE AgentDue(s)'
  <2>1. job'[k] = asked[k] BY <1>13, <1>17
  <2>2. CASE Asks(k, n)
    <3>1. asked[k][n] # "none" BY <1>4, <1>12, <2>2, JobOnly
    <3> QED BY <1>11, <1>17, <2>1, <3>1 DEF AgentDue
  <2>3. CASE db[k][m] = "working" BY <1>16, <2>3 DEF AgentDue
  <2>4. CASE Stage(db[k][m]) = "Idle" BY <1>16, <2>4 DEF AgentDue
  <2>5. CASE db[k][m] = "ready"
    <3>1. \A w \in Workers : ~(AboutToSee(w) /\ Of(w) = s) BY <1>17 DEF AboutToSee, Holders
    <3>2. NoticeDue(s) BY <1>2, <1>17, <3>1 DEF Tended, ReadyIsTold
    <3>3. notices'[k][m] > 0 BY <1>5, <2>5, <3>2 DEF NoticeDue
    <3> QED BY <3>3 DEF AgentDue
  <2>6. Asks(k, m) \/ db[k][m] = "working" \/ Stage(db[k][m]) = "Idle" \/ db[k][m] = "ready"
    BY <1>15, StageIs DEF Asks, DbStatuses
  <2> QED BY <1>11, <1>17, <2>2, <2>3, <2>4, <2>5, <2>6
<1>18. InProcess(s) /\ AgentDue(s) => AgentDue(s)' \/ Holders(s) # {}
  BY <1>5, <1>10, <1>14, <1>16, <1>17 DEF AgentDue
<1>19. SameHolders(s) BY <1>1 DEF SameHolders
<1> QED BY <1>1, <1>2, <1>3, <1>7, <1>8, <1>18, <1>19, TendedStays

\* The scan wakes the source up if it is Pending, or does not look for it.
LEMMA TendedScanned ==
  ASSUME Basic, Basic', AllTended, NEW s \in Sources, Plain(s)', NEW scan \in scans, ScanRuns(scan)
  PROVE  Tended(s)'
<1> USE DEF Basic
<1>1. UNCHANGED <<known, worker, statusVars, online, announces, parked>> /\ scans' = scans \ {scan}
  BY DEF ScanRuns
<1>2. overtaken \subseteq overtaken' BY DEF ScanRuns
<1>3. Plain(s) /\ Tended(s) BY <1>1, <1>2 DEF AllTended, Plain, Current
<1>4. ScanUpdates(scan, s) BY Scanned
<1>5. NoticeDue(s)' = NoticeDue(s) /\ AgentDue(s)' = AgentDue(s)
  BY <1>1 DEF NoticeDue, AgentDue, statusVars
<1>6. sends[s] \in Nat BY BoundAssumption DEF TypeOK
<1>7. CASE s \in Wanting(scan.of) /\ ~Synced(src[s])
  <2>1. s \notin InHand BY <1>7 DEF ScanRuns, Plain
  <2>2. CASE src'[s] = Reached(src[s])
    <3>1. Synced(src'[s]) BY <2>2, Fields DEF Synced
    <3>2. ~InProcess(s)' BY <3>1 DEF InProcess, Synced
    <3> QED BY <1>1, <1>3, <2>1, <3>1, <3>2, TendedAtLook
  <2>3. ASSUME NEW t, t # NoTime \/ sends'[s] > 0, src'[s] = Retried(src[s], t) PROVE Tended(s)'
    <3>1. src'[s].next = t /\ src'[s].state = "Scheduling" BY <2>3, Fields
    <3>2. ~InProcess(s)' BY <3>1 DEF InProcess
    <3> QED BY <1>1, <1>3, <2>1, <2>3, <3>1, <3>2, TendedAtLook
  <2>4. CASE src'[s] = src[s] /\ sends'[s] = sends[s] /\ src[s].state # "Pending"
    <3>1. InProcess(s)' = InProcess(s) BY <2>4 DEF InProcess
    <3>2. Holders(s)' = Holders(s) BY <1>1 DEF Holders, Of
    <3>3. Followed(s) BY <1>3 DEF Tended
    <3>4. \/ src'[s].next # NoTime
          \/ sends'[s] > 0
          \/ Holders(s)' # {}
          \/ s \in parked'
          \/ InProcess(s)' /\ AgentDue(s)'
      BY <1>1, <1>5, <1>7, <2>4, <3>1, <3>2, <3>3 DEF Followed
    <3> QED BY <1>1, <1>3, <1>5, <2>1, <3>1, <3>4, TendedAtLook
  <2>5. sends[s] + 1 > 0 BY <1>6
  <2> QED BY <1>4, <1>7, <2>2, <2>3, <2>4, <2>5 DEF ScanUpdates
<1>8. CASE ~(s \in Wanting(scan.of) /\ ~Synced(src[s]))
  <2>1. src'[s] = src[s] /\ sends'[s] = sends[s] BY <1>4, <1>8 DEF ScanUpdates
  <2>2. ASSUME ~Synced(src[s]), InstanceDue(s) PROVE InstanceDue(s)'
    <3>1. scan.of \notin NeededInstances(s) BY <1>3, <1>8, <2>2 DEF Wanting, Plain
    <3> QED BY <1>1, <2>2, <3>1 DEF InstanceDue
  <2>3. SameHolders(s) BY <1>1 DEF SameHolders
  <2> QED BY <1>1, <1>3, <1>5, <2>1, <2>2, <2>3, TendedStays
<1> QED BY <1>7, <1>8

\* Each step keeps each source tended.
LEMMA TendedNext ==
  ASSUME Basic, Basic', SeenArePresent, AllTended, Next
  PROVE  AllTended'
<1> SUFFICES ASSUME NEW s \in Sources PROVE Tended(s)' BY DEF AllTended
<1> SUFFICES ASSUME Plain(s)' PROVE Tended(s)' BY DEF Tended
<1>1. CASE Ask BY <1>1, TendedAsked
<1>2. CASE \E w \in Workers : WorkerNext(w)
  <2>1. PICK w \in Workers : WorkerNext(w) BY <1>2
  <2>2. CASE Of(w) # s BY <2>1, <2>2, ForeignWorker
  <2>3. CASE Of(w) = s
    BY <2>1, <2>3, TendedLookedUp, TendedSynced, TendedProcessed, TendedPassword, TendedCreated,
       TendedFailed
       DEF WorkerNext
  <2> QED BY <2>2, <2>3
<1>3. CASE \E w \in Workers, r \in Sources : Take(w, r) BY <1>3, TendedTaken, TendedElsewhere
<1>4. CASE \E e \in timers : TimerFires(e) BY <1>4, TendedTimer
<1>5. CASE Callback BY <1>5, TendedElsewhere, TendedTold, TendedUntold, TendedScanned DEF Callback
<1>6. CASE \E i \in Instances : SetOnline(i) \/ \E n \in Names : AgentNext(i, n)
  BY <1>6, TendedElsewhere
<1> QED BY <1>1, <1>2, <1>3, <1>4, <1>5, <1>6 DEF Next

-----------------------------------------------------------------------------
(* Theorems *)

\* The inductive invariant.
Inductive == Basic /\ Timing /\ Truth /\ SeenArePresent /\ AllTended

\* It holds at first.
LEMMA InitInductive ==
  ASSUME Init
  PROVE  Inductive
<1> USE DEF Init
<1>1. TypeOK
  BY BoundAssumption, NoneAssumption
     DEF TypeOK, SourceStates, DbStatuses, WorkerSteps, NoWork, NoTime
<1>2. \A w \in Workers : worker[w].at = "idle" BY DEF NoWork
<1>3. \A s \in Sources :
        /\ src[s].state = "Unknown" /\ src[s].expect = "unset" /\ src[s].next = NoTime /\ sends[s] = 0
        /\ ~Current(s)
  BY ConfigAssumption, NoneAssumption DEF Current
<1>4. Basic
  BY <1>1, <1>2, <1>3 DEF Basic, HeldAreKnown, Untouched, KnownFits, NoticedAreThere
<1>5. Timing BY <1>3 DEF Timing, TimedAreUnsynced, TimersStand, IdleTimersFit
<1>6. Truth BY <1>2, <1>3 DEF Truth, LeavingIsAsked, HeardReady
<1>7. SeenArePresent BY <1>2, <1>3 DEF SeenArePresent
<1>8. AllTended BY <1>3 DEF AllTended, Tended, Plain
<1> QED BY <1>4, <1>5, <1>6, <1>7, <1>8 DEF Inductive

\* Each step keeps it.
LEMMA InductiveNext ==
  ASSUME Inductive, [Next]_vars
  PROVE  Inductive'
<1>1. CASE Next
  BY <1>1, BasicNext, TimingNext, TruthNext, SeenNext, TendedNext DEF Inductive
<1>2. CASE UNCHANGED vars
  <2> USE <1>2 DEF vars, handlerVars, statusVars, onlineVars, history
  <2>1. Basic' BY BasicNext DEF Inductive
  <2>2. Timing' BY DEF Inductive, Timing, TimedAreUnsynced, TimersStand, IdleTimersFit, Current
  <2>3. Truth' BY DEF Inductive, Truth, LeavingIsAsked, HeardReady, WasReady, Mover, Of
  <2>4. SeenArePresent' BY DEF Inductive, SeenArePresent, Present, Of
  <2>5. ASSUME NEW s \in Sources PROVE Tended(s)'
    <3>1. Plain(s)' = Plain(s) BY DEF Plain, Current
    <3>2. SameHolders(s) /\ src' = src /\ sends' = sends /\ parked' = parked BY DEF SameHolders
    <3>3. NoticeDue(s)' = NoticeDue(s) /\ InstanceDue(s)' = InstanceDue(s) /\ AgentDue(s)' = AgentDue(s)
      BY DEF NoticeDue, InstanceDue, AgentDue
    <3>4. CASE Plain(s) BY <2>1, <3>2, <3>3, <3>4, TendedStays DEF Inductive
    <3>5. CASE ~Plain(s) BY <3>1, <3>5 DEF Tended
    <3> QED BY <3>4, <3>5
  <2> QED BY <2>1, <2>2, <2>3, <2>4, <2>5 DEF Inductive, AllTended
<1> QED BY <1>1, <1>2

\* The inductive invariant holds in every reachable state.
THEOREM InductiveInvariant == Spec => []Inductive
BY InitInductive, InductiveNext, PTL DEF Spec

\* The state of the sources, the workers and the databases is well formed.
THEOREM TypeCorrect == Spec => []TypeOK
<1>1. Inductive => TypeOK BY DEF Inductive, Basic
<1> QED BY <1>1, InductiveInvariant, PTL

\* handler.go:59-113, 172-193, 221-282: a source that is not what it should be has
\* somebody who will see to it, unless it has no password, a callback passed a worker
\* that had it, or its database has left its instance.
THEOREM NeverStrandedAlways == Spec => []NeverStranded
<1>1. Inductive => NeverStranded
  <2> SUFFICES ASSUME Inductive, NEW s \in Sources, Current(s), ~Synced(src[s]), s \notin parked, s \notin overtaken
               PROVE  Awaited(s) \/ AwaitsInstance(s) \/ AwaitsAgent(s) \/ MovedAway(s)
    BY DEF NeverStranded
  <2>1. Followed(s) BY DEF Inductive, AllTended, Tended, Plain
  <2>2. CASE sends[s] > 0 \/ Holders(s) # {} BY <2>2 DEF Awaited
  <2>3. CASE src[s].next # NoTime BY <2>3 DEF Inductive, Timing, TimersStand, Awaited
  <2>4. CASE src[s].state = "Pending" /\ InstanceDue(s)
    BY <2>4 DEF InstanceDue, AwaitsInstance, Awaited
  <2>5. CASE InProcess(s) /\ AgentDue(s) BY <2>5 DEF InProcess, AgentDue, AwaitsAgent, MovedAway
  <2> QED BY <2>1, <2>2, <2>3, <2>4, <2>5 DEF Followed
<1> QED BY <1>1, InductiveInvariant, PTL

\* handler.go:284-292: a source is ready only if its database is, or was until a source
\* of that name had it moved away.
THEOREM ReadyIsRealAlways == Spec => []ReadyIsReal
<1>1. Inductive => ReadyIsReal
  <2> SUFFICES ASSUME Inductive, NEW n \in Names, NEW i \in Instances, IsReady(n, i)
               PROVE  WasReady(i, n)
    BY DEF ReadyIsReal, WasReady, Mover
  <2>1. known[n] \in Sources /\ NameOf[known[n]] = n /\ InstanceOf[known[n]] = i /\ src[known[n]].state = "Ready"
    BY DEF IsReady, Inductive, Basic, TypeOK, KnownFits
  <2> QED BY <2>1 DEF Inductive, Truth, HeardReady
<1> QED BY <1>1, InductiveInvariant, PTL

\* handler.go:162-170, 232-240: a timer, like whoever else sends a source, sends only
\* the one that has the name, and that is not yet what it should be.
THEOREM StaleTimersNeverAct == Spec => StaleTimersDoNothing
<1>1. ASSUME Inductive, Next, NEW s \in Sources, sends'[s] > sends[s]
      PROVE  known'[NameOf[s]] = s /\ ~Synced(src'[s])
  <2> Basic /\ TimedAreUnsynced /\ Next BY <1>1 DEF Inductive, Timing
  <2> USE DEF Basic
  <2>1. sends[s] \in Nat BY BoundAssumption DEF TypeOK
  <2>2. sends' # sends BY <1>1, <2>1
  <2>3. CASE Ask
    <3>1. PICK r \in Sources : Added(r) BY <2>2, <2>3, AskDoes DEF MarkedIdle, handlerVars
    <3>2. r = s BY <1>1, <2>1, <3>1 DEF Added, TypeOK
    <3> QED BY <3>1, <3>2, ConfigAssumption DEF Added, SetsSrc, Synced, TypeOK
  <2>4. CASE \E e \in timers : TimerFires(e)
    <3>1. PICK e \in timers : TimerFires(e) BY <2>4
    <3>2. e.at \in Times /\ e.at # NoTime BY BoundAssumption DEF TypeOK, Times, NoTime
    <3>3. /\ known[e.name] \in Sources
          /\ Current(known[e.name])
          /\ src[known[e.name]].next = e.at
          /\ sends' = [sends EXCEPT ![known[e.name]] = @ + 1]
          /\ SetsSrc(known[e.name], src[known[e.name]].state, src[known[e.name]].expect, NoTime)
      BY <2>2, <3>1, TimerDoes DEF Fired
    <3>4. known[e.name] = s BY <1>1, <2>1, <3>3 DEF TypeOK
    <3>5. ~Synced(src[s]) BY <3>2, <3>3, <3>4 DEF TimedAreUnsynced
    <3>6. ~Synced(src'[s]) BY <3>3, <3>4, <3>5 DEF SetsSrc, Synced
    <3>7. known' = known BY <3>1 DEF TimerFires
    <3> QED BY <3>3, <3>4, <3>6, <3>7 DEF Current
  <2>5. CASE \E scan \in scans : ScanRuns(scan)
    <3>1. PICK scan \in scans : ScanRuns(scan) BY <2>5
    <3>2. ScanUpdates(scan, s) BY <3>1, Scanned
    <3>3. sends'[s] # sends[s] BY <1>1, <2>1
    <3>4. /\ s \in Wanting(scan.of)
          /\ ~Synced(src[s])
          /\ src'[s] = Retried(src[s], NoTime)
      BY <3>2, <3>3 DEF ScanUpdates
    <3>5. src'[s].state = "Scheduling" /\ src'[s].expect = src[s].expect BY <3>4, Fields
    <3>6. ~Synced(src'[s]) BY <3>5, RecordsOf DEF Synced
    <3>7. known' = known BY <3>1 DEF ScanRuns
    <3> QED BY <3>4, <3>6, <3>7 DEF Wanting, Current
  <2>6. CASE \E w \in Workers, r \in Sources : Take(w, r)
    <3>1. PICK w \in Workers, r \in Sources : Take(w, r) BY <2>6
    <3>2. sends' = [sends EXCEPT ![r] = @ - 1] BY <3>1 DEF Take, Fewer
    <3>3. sends'[s] <= sends[s] BY <2>1, <3>2 DEF TypeOK
    <3>4. sends'[s] \in Nat BY <2>1, <3>1, <3>2 DEF Take, TypeOK
    <3> QED BY <1>1, <2>1, <3>3, <3>4
  <2>7. CASE \E w \in Workers : WorkerNext(w)
    BY <2>2, <2>7, WorkerFrame DEF handlerVars
  <2>8. CASE \E i \in Instances :
               \/ Announce(i) \/ SetOnline(i)
               \/ \E n \in Names : NoticeRuns(i, n) \/ AgentNext(i, n)
    BY <2>2, <2>8, AgentFrame, NoticeFrame, AnnounceFrame, OnlineFrame DEF handlerVars
  <2> QED BY <1>1, <2>3, <2>4, <2>5, <2>6, <2>7, <2>8 DEF Next, Callback
<1>2. Inductive /\ [Next]_vars =>
        [\A s \in Sources : sends'[s] > sends[s] => known'[NameOf[s]] = s /\ ~Synced(src'[s])]_vars
  BY <1>1
<1> QED BY <1>2, InductiveInvariant, PTL DEF Spec, StaleTimersDoNothing

-----------------------------------------------------------------------------
(* The record of a database *)

\* db-instance.go:61-100, 139-155: entries that workers and notices make while the
\* agent reports leave each database on the way that its agent is proved to keep to
\* (AgentDb!ImplementsDbLife): none is started over or brought back.
Record(i, n) == INSTANCE DbLife WITH life <- db[i][n]
RecordsLive ==
  [][\A i \in Instances, n \in Names :
       db'[i][n] # db[i][n] => Record(i, n)!Next]_vars

\* The agent is asked to create only what has an entry.
AskedAreThere == \A i \in Instances, n \in Names : job[i][n] = "create" => db[i][n] # "absent"

\* CreateDb of the instance asks for the one database that it makes an entry for.
LEMMA AskedIs ==
  ASSUME TypeOK, NEW k \in Instances, NEW m \in Names, NEW i \in Instances, NEW n \in Names,
         NEW asked, asked = WithJob(k, m), NEW entered, entered = WithEntry(k, m)
  PROVE  asked[i][n] = job[i][n] \/ (k = i /\ m = n /\ entered[i][n] # "absent")
<1>1. job[k] \in [Names -> {"none", "create", "leave", "ignored"}] /\ db[k] \in [Names -> DbStatuses]
  BY DEF TypeOK
<1>2. CASE k = i /\ m = n
  <2>1. CASE db[k][m] = "absent"
    <3>1. entered = [db EXCEPT ![k] = [db[k] EXCEPT ![m] = "none"]] BY <2>1 DEF WithEntry
    <3>2. entered[k] = [db[k] EXCEPT ![m] = "none"] BY <3>1 DEF TypeOK
    <3> QED BY <1>1, <1>2, <3>2
  <2>2. CASE db[k][m] # "absent" BY <1>2, <2>2 DEF WithEntry
  <2> QED BY <2>1, <2>2
<1>3. CASE ~(k = i /\ m = n) /\ Asks(k, m)
  <2>1. asked = [job EXCEPT ![k] = [job[k] EXCEPT ![m] = "create"]] BY <1>3 DEF WithJob
  <2>2. CASE k = i
    <3>1. asked[i] = [job[k] EXCEPT ![m] = "create"] BY <2>1, <2>2 DEF TypeOK
    <3> QED BY <1>1, <1>3, <2>2, <3>1
  <2>3. CASE k # i BY <2>1, <2>3 DEF TypeOK
  <2> QED BY <2>2, <2>3
<1>4. CASE ~Asks(k, m) BY <1>4 DEF WithJob
<1> QED BY <1>2, <1>3, <1>4

\* Only a worker that creates, a notice and the agent write the records and the requests.
LEMMA WhoRecords ==
  ASSUME Next
  PROVE  \/ UNCHANGED <<db, job>>
         \/ \E w \in Workers : CreateDb(w)
         \/ \E i \in Instances, n \in Names : NoticeRuns(i, n) \/ AgentNext(i, n)
<1>1. CASE Ask
  BY <1>1 DEF Ask, WebCreate, FileRemoved, FileWritten, AddDatabaseSource, MarkDatabaseSourceIdle, statusVars
<1>2. CASE \E w \in Workers : WorkerNext(w)
  BY <1>2, WorkerFrame DEF statusVars
<1>3. CASE \/ \E w \in Workers, s \in Sources : Take(w, s)
           \/ \E e \in timers : TimerFires(e)
           \/ \E i \in Instances : SetOnline(i)
  BY <1>3, TakeFrame, TimerFrame, OnlineFrame DEF statusVars
<1>4. CASE Callback BY <1>4, AnnounceFrame, ScanFrame DEF Callback, statusVars
<1>5. CASE \E i \in Instances, n \in Names : AgentNext(i, n) BY <1>5
<1> QED BY <1>1, <1>2, <1>3, <1>4, <1>5 DEF Next

\* An entry stays, so that a request is never without one.
LEMMA AskedNext ==
  ASSUME Basic, AskedAreThere, [Next]_vars
  PROVE  AskedAreThere'
<1> USE DEF Basic
<1> SUFFICES ASSUME NEW i \in Instances, NEW n \in Names, job'[i][n] = "create"
             PROVE  db'[i][n] # "absent"
  BY DEF AskedAreThere
<1>1. CASE UNCHANGED <<db, job>> BY <1>1 DEF AskedAreThere
<1>2. CASE job'[i][n] = job[i][n] /\ Next
  <2>1. Present(i, n) BY <1>2 DEF AskedAreThere, Present
  <2> QED BY <1>2, <2>1, PresentStays DEF Present
<1>3. CASE \E w \in Workers : CreateDb(w)
  <2>1. PICK w \in Workers : CreateDb(w) BY <1>3
  <2> DEFINE s == Of(w)
             k == InstanceOf[s]
             m == NameOf[s]
             from == FromOf[s]
  <2>2. s \in Sources BY <2>1 DEF CreateDb, HeldAreKnown
  <2>3. k \in Instances /\ m \in Names BY <2>2, ConfigAssumption
  <2>4. \/ UNCHANGED <<db, job>>
        \/ job' = [job EXCEPT ![from][m] = "leave"]
        \/ db' = WithEntry(k, m) /\ job' = WithJob(k, m)
    BY <2>1 DEF CreateDb
  <2>5. CASE job' = [job EXCEPT ![from][m] = "leave"]
    <3>1. job'[i][n] = job[i][n] \/ job'[i][n] = "leave" BY <2>5 DEF TypeOK
    <3> QED BY <1>2, <1>3, <3>1 DEF Next, WorkerNext
  <2>6. CASE db' = WithEntry(k, m) /\ job' = WithJob(k, m)
    <3>1. job'[i][n] = job[i][n] \/ db'[i][n] # "absent" BY <2>3, <2>6, AskedIs
    <3> QED BY <1>2, <1>3, <3>1 DEF Next, WorkerNext
  <2> QED BY <1>1, <2>4, <2>5, <2>6
<1>4. CASE \E k \in Instances, m \in Names : NoticeRuns(k, m)
  <2>1. PICK k \in Instances, m \in Names : NoticeRuns(k, m) BY <1>4
  <2> DEFINE moving == IF db[k][m] = "idle" THEN {s \in followUps : FromOf[s] = k /\ NameOf[s] = m} ELSE {}
  <2>2. PICK entered, asked : entered = WithEntry(i, m) /\ asked = WithJob(i, m) OBVIOUS
  <2>3. \/ db'[i] = db[i] /\ job'[i] = job[i]
        \/ db'[i] = entered[i] /\ job'[i] = asked[i]
    <3>1. /\ db' = [x \in Instances |-> IF \E s \in moving : InstanceOf[s] = x THEN WithEntry(x, m)[x] ELSE db[x]]
          /\ job' = [x \in Instances |-> IF \E s \in moving : InstanceOf[s] = x THEN WithJob(x, m)[x] ELSE job[x]]
      BY <2>1 DEF NoticeRuns
    <3> HIDE DEF moving
    <3> QED BY <2>2, <3>1
  <2>4. job'[i][n] = job[i][n] \/ db'[i][n] # "absent" BY <2>2, <2>3, AskedIs
  <2> QED BY <1>2, <1>4, <2>4 DEF Next, Callback
<1>5. CASE \E k \in Instances, m \in Names : AgentNext(k, m)
  <2>1. PICK k \in Instances, m \in Names : AgentNext(k, m) BY <1>5
  <2>2. \/ UNCHANGED job
        \/ \E now \in {"none", "ignored"} : job' = [job EXCEPT ![k] = [job[k] EXCEPT ![m] = now]]
    BY <2>1 DEF AgentNext, AgentReports, AgentStarts, AgentIgnores, AgentEnds
  <2>3. job'[i][n] = job[i][n]
    <3>1. CASE k = i
      <4>1. job[k] \in [Names -> {"none", "create", "leave", "ignored"}] BY DEF TypeOK
      <4> QED BY <2>2, <3>1, <4>1 DEF TypeOK
    <3>2. CASE k # i BY <2>2, <3>2 DEF TypeOK
    <3> QED BY <3>1, <3>2
  <2> QED BY <1>2, <1>5, <2>3 DEF Next
<1>6. UNCHANGED vars => UNCHANGED <<db, job>> BY DEF vars, statusVars
<1> QED BY <1>1, <1>3, <1>4, <1>5, <1>6, WhoRecords

\* What one step does to the record of a database.
LEMMA RecordStep ==
  ASSUME Basic, AskedAreThere, Next, NEW i \in Instances, NEW n \in Names, db'[i][n] # db[i][n]
  PROVE  Record(i, n)!Next
<1> USE DEF Basic
<1>1. CASE EntriesOnly
  BY <1>1 DEF EntriesOnly, Record!Next, Record!Appear, Record!Move
<1>2. CASE \E k \in Instances, m \in Names : AgentNext(k, m)
  <2>1. PICK k \in Instances, m \in Names : AgentNext(k, m) BY <1>2
  <2>2. PICK to :
          /\ db' = [db EXCEPT ![k] = [db[k] EXCEPT ![m] = to]]
          /\ <<db[k][m], to>> \in {<<"absent", "ready">>, <<"none", "working">>, <<"failed", "working">>,
                                   <<"ready", "leaving">>, <<"working", "ready">>,
                                   <<"working", "failed">>, <<"leaving", "idle">>}
    BY <2>1 DEF AgentNext, AgentReports, AgentStarts, AgentIgnores, AgentEnds, DbBecomes, Asks, AskedAreThere
  <2>3. db[k] \in [Names -> DbStatuses] BY DEF TypeOK
  <2>4. k = i /\ m = n
    <3>1. CASE k # i BY <2>2, <3>1 DEF TypeOK
    <3>2. CASE k = i BY <2>2, <2>3, <3>2 DEF TypeOK
    <3> QED BY <3>1, <3>2
  <2>5. db'[i][n] = to
    <3>1. db'[i] = [db[k] EXCEPT ![m] = to] BY <2>2, <2>4 DEF TypeOK
    <3> QED BY <2>3, <2>4, <3>1
  <2> QED BY <2>2, <2>4, <2>5
       DEF Record!Next, Record!Appear, Record!Begin, Record!Fail, Record!Succeed, Record!Leave, Record!Left,
           Record!Move
<1>3. CASE \E w \in Workers : CreateDb(w) BY <1>1, <1>3, CreateDbDoes
<1>4. CASE \E k \in Instances, m \in Names : NoticeRuns(k, m) BY <1>1, <1>4, NoticeEntries
<1> QED BY <1>2, <1>3, <1>4, WhoRecords

\* db-instance.go:61-100, 139-155: no worker, notice or report takes a database back
\* on the way from its first entry to its end.
THEOREM RecordsKeepToLife == Spec => RecordsLive
<1>1. Init => AskedAreThere BY DEF Init, AskedAreThere
<1>2. Inductive /\ AskedAreThere /\ [Next]_vars => AskedAreThere' BY AskedNext DEF Inductive
<1>3. Inductive /\ AskedAreThere /\ [Next]_vars =>
        [\A i \in Instances, n \in Names : db'[i][n] # db[i][n] => Record(i, n)!Next]_vars
  BY RecordStep DEF Inductive
<1> QED BY <1>1, <1>2, <1>3, InductiveInvariant, PTL DEF Spec, RecordsLive

=============================================================================
