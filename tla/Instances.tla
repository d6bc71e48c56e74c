------------------------------ MODULE Instances ------------------------------
(***************************************************************************)
(* DbInstanceManager with several instances, for one database: who waits   *)
(* for whom (db-instance-manager.go, db-instance.go, svc_register.go,      *)
(* svc_notify_db_status.go and the two subscriber lists).                  *)
(*                                                                         *)
(* Four locks: instLock guards the map of instances, dbLock of each        *)
(* instance its databases, one mutex each the lists of subscribers.        *)
(* instLock is kept while filterInstances takes one dbLock after the       *)
(* other, dbLock while CreateDb and MigrateOut wait for a stream to take   *)
(* their job, and the mutex of InstanceStatusSubscriber while it takes a   *)
(* dbLock.  A lock that is taken for a moment only is asked for and given  *)
(* back in one action.                                                     *)
(*                                                                         *)
(* Requests come from the source handler (Source), statuses from the agent *)
(* (StatusFlow); what a stream does with a job is DbInstance.              *)
(***************************************************************************)
EXTENDS Naturals

CONSTANTS
  Insts,      \* PostgreSQL instances
  Sessions,   \* Register calls
  Requests,   \* calls of DbInstanceManager.CreateDb
  Statuses,   \* calls of NotifyDbStatus
  Waits,      \* calls of WaitReady
  OfSession,  \* the instance of each
  OfStatus,
  OfWait,
  NameOf,     \* InstanceName of each request, or None
  FromOf,     \* MigrateFrom of each request, or None
  Serving,    \* bound: sessions that serve when a run begins
  Breaking,   \* bound: sessions whose stream breaks
  Reported,   \* bound: what agents report in a run
  None

\* What an instance says of the database: nothing of it yet, some stage under
\* way, a failed one, ready to use, moving out, moved out or dropped.
Says == {"none", "working", "failed", "ready", "leaving", "idle"}

ASSUME ConfigAssumption ==
  /\ Serving \cup Breaking \subseteq Sessions
  /\ Reported \subseteq Says \ {"none"}
  /\ OfSession \in [Sessions -> Insts]
  /\ OfStatus \in [Statuses -> Insts]
  /\ OfWait \in [Waits -> Insts]
  /\ NameOf \in [Requests -> Insts \cup {None}]
  /\ FromOf \in [Requests -> Insts \cup {None}]
ASSUME NoneAssumption == None \notin Insts
ASSUME CallsAssumption == Requests \cap Waits = {}

VARIABLES
  known,       \* DbInstanceManager.Instances
  online,      \* the instances whose flag Online is set
  record,      \* what each instance says of the database
  session,     \* where the Register handler of each session is
  request,     \* where each CreateDb is, which instances filterInstances has
               \* still to look at, and the one it found
  create,      \* DbInstance.CreateDb of each request, in a goroutine after a migration
  status,      \* where each NotifyDbStatus is
  wait,        \* where each WaitReady is
  notices,     \* goroutines of OnStatusChanged of each instance
  subscribers, \* DbStatusSubscriber.subscribers: those of requests and WaitReady
  slipped      \* history: calls passed between their check and their subscription

sessionVars == <<session, online>>
requestVars == <<request, create>>
noticeVars  == <<notices, subscribers, wait, slipped>>
vars == <<known, record, status, sessionVars, requestVars, noticeVars>>

SessionStep == {"idle", "new", "update", "online", "announce", "describe", "serving",
                "leaving", "announceDown", "describeDown", "ended"}
RequestStep == {"idle", "filter", "found", "migrate", "subscribe", "sendOut", "done"}
CreateStep == {"none", "due", "send", "sent", "unneeded", "refused"}

\* Calls that wait in DbInstance.Send for a stream of the instance.
SendsOut(r, i) == request[r].at = "sendOut" /\ FromOf[r] = i
SendsCreate(r, i) == create[r] = "send" /\ request[r].inst = i
Sends(r, i) == SendsOut(r, i) \/ SendsCreate(r, i)

\* Who has dbLock and who has instLock, where an action ends with the lock kept.
HasDbLock(r, i) == Sends(r, i) \/ (request[r].at = "subscribe" /\ FromOf[r] = i)
HasInstLock(r) == request[r].at = "filter"

LocksAreExclusive ==
  \A r, q \in Requests :
    (HasInstLock(r) /\ HasInstLock(q)) \/ (\E i \in Insts : HasDbLock(r, i) /\ HasDbLock(q, i))
      => r = q

TypeOK ==
  /\ known \subseteq Insts
  /\ online \subseteq known
  /\ record \in [Insts -> Says]
  /\ session \in [Sessions -> SessionStep]
  /\ request \in [Requests -> [at : RequestStep, left : SUBSET Insts, inst : Insts \cup {None}]]
  /\ \A r \in Requests : request[r].at = "filter" => request[r].left \subseteq known
  /\ create \in [Requests -> CreateStep]
  /\ status \in [Statuses -> {"idle", "lookup", "write", "done"}]
  /\ wait \in [Waits -> {"idle", "lookup", "checked", "subscribed", "returned"}]
  /\ notices \in [Insts -> Nat]
  /\ subscribers \subseteq Requests \cup Waits
  /\ slipped \subseteq Requests \cup Waits
  /\ LocksAreExclusive

Init ==
  /\ known = {OfSession[s] : s \in Serving}
  /\ online = known
  /\ record = [i \in Insts |-> "none"]
  /\ session = [s \in Sessions |-> IF s \in Serving THEN "serving" ELSE "idle"]
  /\ request = [r \in Requests |-> [at |-> "idle", left |-> {}, inst |-> None]]
  /\ create = [r \in Requests |-> "none"]
  /\ status = [n \in Statuses |-> "idle"]
  /\ wait = [w \in Waits |-> "idle"]
  /\ notices = [i \in Insts |-> 0]
  /\ subscribers = {}
  /\ slipped = {}

-----------------------------------------------------------------------------
(* Slips of the code below, each one refuted by a property *)

\* Send gives dbLock back while it waits.
DbLockFreeToSend(i) ==
  \A r \in Requests : ~(request[r].at = "subscribe" /\ FromOf[r] = i)

\* instLock is kept until the instance that was found is used.
InstLockFreeOfFound == \A r \in Requests : request[r].at \notin {"filter", "found"}

\* A first entry is no change.
UpdateOfEntry(i, is) ==
  /\ record' = [record EXCEPT ![i] = is]
  /\ notices' = IF record[i] \in {"none", is} THEN notices ELSE [notices EXCEPT ![i] = @ + 1]

-----------------------------------------------------------------------------
InstLockFree == \A r \in Requests : ~HasInstLock(r)
DbLockFree(i) == \A r \in Requests : ~HasDbLock(r, i)
InstMutexFree == \A s \in Sessions : session[s] \notin {"describe", "describeDown"}

Move(s, from, to) ==
  /\ session[s] = from
  /\ session' = [session EXCEPT ![s] = to]

\* Database.Update: a goroutine for each change.
Update(i, is) ==
  /\ record' = [record EXCEPT ![i] = is]
  /\ notices' = IF is = record[i] THEN notices ELSE [notices EXCEPT ![i] = @ + 1]

-----------------------------------------------------------------------------
(* Streams and Register *)

\* The agent of an instance opens a stream.  It breaks the one it had, whose
\* handler notices in StreamDone, then, later or never.
Connect(s) ==
  /\ Move(s, "idle", "new")
  /\ UNCHANGED <<known, record, status, online, requestVars, noticeVars>>

NewInstance(s) ==
  /\ InstLockFree
  /\ Move(s, "new", "update")
  /\ known' = known \cup {OfSession[s]}
  /\ UNCHANGED <<record, status, online, requestVars, noticeVars>>

\* UpdateDatabases with the agent's list, which may leave the database out.
UpdateDatabases(s) ==
  /\ DbLockFree(OfSession[s])
  /\ Move(s, "update", "online")
  /\ \/ UNCHANGED <<record, notices>>
     \/ \E is \in Reported : Update(OfSession[s], is)
  /\ UNCHANGED <<known, status, online, requestVars, subscribers, wait, slipped>>

GoOnline(s) ==
  /\ Move(s, "online", "announce")
  /\ online' = online \cup {OfSession[s]}
  /\ UNCHANGED <<known, record, status, requestVars, noticeVars>>

\* InstanceStatusSubscriber.OnStatusChanged takes its mutex ...
Announce(s) ==
  /\ InstMutexFree
  /\ Move(s, "announce", "describe") \/ Move(s, "announceDown", "describeDown")
  /\ UNCHANGED <<known, record, status, online, requestVars, noticeVars>>

\* ... and keeps it while StatusResponse takes dbLock.
Describe(s) ==
  /\ DbLockFree(OfSession[s])
  /\ Move(s, "describe", "serving") \/ Move(s, "describeDown", "ended")
  /\ UNCHANGED <<known, record, status, online, requestVars, noticeVars>>

\* ServeDbJob takes the job of a sender, who returns and releases dbLock.
TakeJob(s, r) ==
  /\ session[s] = "serving"
  /\ \/ /\ SendsOut(r, OfSession[s])
        /\ request' = [request EXCEPT ![r].at = "done"]
        /\ UNCHANGED create
     \/ /\ SendsCreate(r, OfSession[s])
        /\ create' = [create EXCEPT ![r] = "sent"]
        /\ UNCHANGED request
  /\ UNCHANGED <<known, record, status, sessionVars, noticeVars>>

StreamDone(s) ==
  /\ s \in Breaking
  /\ Move(s, "serving", "leaving")
  /\ UNCHANGED <<known, record, status, online, requestVars, noticeVars>>

GoOffline(s) ==
  /\ Move(s, "leaving", "announceDown")
  /\ online' = online \ {OfSession[s]}
  /\ UNCHANGED <<known, record, status, requestVars, noticeVars>>

-----------------------------------------------------------------------------
(* DbInstanceManager.CreateDb *)

\* FilterInstances takes instLock; with an InstanceName it skips the others.
Filter(r) ==
  /\ request[r].at = "idle"
  /\ InstLockFree
  /\ request' = [request EXCEPT ![r] =
       [at |-> "filter", inst |-> None,
        left |-> IF NameOf[r] = None THEN known ELSE known \cap {NameOf[r]}]]
  /\ UNCHANGED <<known, record, status, sessionVars, create, noticeVars>>

\* The database is on the instance, or it is the one that was named.
Matches(r, i) == i = NameOf[r] \/ record[i] \notin {"none", "idle"}

\* GetDb of one instance, in the order of a map; a match ends the search.
LookAt(r, i) ==
  /\ request[r].at = "filter"
  /\ i \in request[r].left
  /\ DbLockFree(i)
  /\ \/ /\ Matches(r, i)
        /\ request' = [request EXCEPT ![r] = [at |-> "found", left |-> {}, inst |-> i]]
     \/ /\ ~Matches(r, i)
        /\ request' = [request EXCEPT ![r].left = @ \ {i}]
  /\ UNCHANGED <<known, record, status, sessionVars, create, noticeVars>>

\* No match: a named instance that is not known, or the newest of all.
NoMatch(r) ==
  /\ request[r].at = "filter"
  /\ request[r].left = {}
  /\ IF NameOf[r] # None \/ known = {}
       THEN request' = [request EXCEPT ![r].at = "done"]
       ELSE \E i \in known : request' = [request EXCEPT ![r] = [at |-> "found", left |-> {}, inst |-> i]]
  /\ UNCHANGED <<known, record, status, sessionVars, create, noticeVars>>

\* Online is read without a lock; ErrInstanceOffline, or on to CreateDb.
Admit(r) ==
  /\ request[r].at = "found"
  /\ FromOf[r] = None \/ request[r].inst \notin online
  /\ request' = [request EXCEPT ![r].at = "done"]
  /\ create' = IF request[r].inst \in online THEN [create EXCEPT ![r] = "due"] ELSE create
  /\ UNCHANGED <<known, record, status, sessionVars, noticeVars>>

\* GetInstance of MigrateFrom.
AdmitMigration(r) ==
  /\ request[r].at = "found"
  /\ FromOf[r] # None /\ request[r].inst \in online
  /\ InstLockFree
  /\ request' = [request EXCEPT ![r].at = IF FromOf[r] \in known \cap online
                                           THEN "migrate" ELSE "done"]
  /\ UNCHANGED <<known, record, status, sessionVars, create, noticeVars>>

\* DbInstance.MigrateOut: it has left already, or dbLock is kept from here on.
MigrateOut(r) ==
  /\ request[r].at = "migrate"
  /\ DbLockFree(FromOf[r])
  /\ IF record[FromOf[r]] \in {"none", "idle"}
       THEN /\ request' = [request EXCEPT ![r].at = "done"]
            /\ create' = [create EXCEPT ![r] = "due"]
       ELSE /\ request' = [request EXCEPT ![r].at = "subscribe"]
            /\ UNCHANGED create
  /\ UNCHANGED <<known, record, status, sessionVars, noticeVars>>

SubscribeMigration(r) ==
  /\ request[r].at = "subscribe"
  /\ subscribers' = subscribers \cup {r}
  /\ request' = [request EXCEPT ![r].at = "sendOut"]
  /\ UNCHANGED <<known, record, status, sessionVars, create, notices, wait, slipped>>

\* DbInstance.CreateDb: refused, not needed, or dbLock is kept for Send.
CreateDb(r) ==
  /\ create[r] = "due"
  /\ DbLockFree(request[r].inst)
  /\ create' = [create EXCEPT ![r] =
                  CASE record[request[r].inst] \in {"leaving", "idle"} -> "refused"
                    [] record[request[r].inst] \in {"none", "failed"} -> "send"
                    [] OTHER -> "unneeded"]
  /\ UNCHANGED <<known, record, status, sessionVars, request, noticeVars>>

-----------------------------------------------------------------------------
(* NotifyDbStatus *)

StatusArrives(n) ==
  /\ status[n] = "idle"
  /\ InstLockFree
  /\ status' = [status EXCEPT ![n] = IF OfStatus[n] \in known THEN "lookup" ELSE "done"]
  /\ UNCHANGED <<known, record, sessionVars, requestVars, noticeVars>>

\* MustGetDb takes dbLock, Update does not.
StatusLooksUp(n) ==
  /\ status[n] = "lookup"
  /\ DbLockFree(OfStatus[n])
  /\ status' = [status EXCEPT ![n] = "write"]
  /\ UNCHANGED <<known, record, sessionVars, requestVars, noticeVars>>

StatusWrites(n) ==
  /\ status[n] = "write"
  /\ status' = [status EXCEPT ![n] = "done"]
  /\ \E is \in Reported : Update(OfStatus[n], is)
  /\ UNCHANGED <<known, sessionVars, requestVars, subscribers, wait, slipped>>

-----------------------------------------------------------------------------
(* WaitReady *)

\* isReady: GetInstance, then GetDb.
Ask(w) ==
  /\ wait[w] = "idle"
  /\ InstLockFree
  /\ wait' = [wait EXCEPT ![w] = IF OfWait[w] \in known THEN "lookup" ELSE "checked"]
  /\ UNCHANGED <<known, record, status, sessionVars, requestVars, notices, subscribers, slipped>>

LookUp(w) ==
  /\ wait[w] = "lookup"
  /\ DbLockFree(OfWait[w])
  /\ wait' = [wait EXCEPT ![w] = IF record[OfWait[w]] = "ready" THEN "returned" ELSE "checked"]
  /\ UNCHANGED <<known, record, status, sessionVars, requestVars, notices, subscribers, slipped>>

SubscribeWait(w) ==
  /\ wait[w] = "checked"
  /\ subscribers' = subscribers \cup {w}
  /\ wait' = [wait EXCEPT ![w] = "subscribed"]
  /\ UNCHANGED <<known, record, status, sessionVars, requestVars, notices, slipped>>

\* The timeout; the subscription stays.
Expire(w) ==
  /\ wait[w] = "subscribed"
  /\ wait' = [wait EXCEPT ![w] = "returned"]
  /\ UNCHANGED <<known, record, status, sessionVars, requestVars, notices, subscribers, slipped>>

-----------------------------------------------------------------------------
(* DbStatusSubscriber.  A round of notifyStatusChanged holds the mutex, and   *)
(* no subscriber waits for anything: a round is one action, and so is the     *)
(* subscription that waits for it.                                            *)

\* Those who looked at the instance and have not subscribed yet.
Between(i) ==
  CASE record[i] = "ready" -> {w \in Waits : OfWait[w] = i /\ wait[w] = "checked"}
    [] record[i] = "idle" -> {r \in Requests : FromOf[r] = i /\ request[r].at = "subscribe"}
    [] OTHER -> {}

\* What a subscriber waits for: IsReady, IsMigrateOutReady.
Awaits(c, i) ==
  IF c \in Waits THEN OfWait[c] = i /\ record[i] = "ready"
                 ELSE FromOf[c] = i /\ record[i] = "idle"

\* StopSubscribe: it has what it waited for, or its time is over.
Stops(c, i) == Awaits(c, i) \/ (c \in Waits /\ wait[c] = "returned")

\* The subscribers that stay when the status of the instance is passed on.
Staying(i) == {c \in subscribers : ~Stops(c, i)}

\* A goroutine of Update.  Of the statuses only failed ones, ready, idle and
\* dropped are passed on: cancel() lets a WaitReady return, and the callback of a
\* migration runs in a goroutine of its own.
NoticeRuns(i) ==
  /\ notices[i] > 0
  /\ notices' = [notices EXCEPT ![i] = @ - 1]
  /\ IF record[i] \in {"failed", "ready", "idle"}
       THEN LET told == {c \in subscribers : Awaits(c, i)} IN
            /\ wait' = [w \in Waits |-> IF w \in told THEN "returned" ELSE wait[w]]
            /\ create' = [r \in Requests |-> IF r \in told THEN "due" ELSE create[r]]
            /\ subscribers' = Staying(i)
            /\ slipped' = slipped \cup Between(i)
       ELSE UNCHANGED <<wait, create, subscribers, slipped>>
  /\ UNCHANGED <<known, record, status, sessionVars, request>>

-----------------------------------------------------------------------------
RegisterNext(s) ==
  \/ NewInstance(s)
  \/ UpdateDatabases(s)
  \/ GoOnline(s)
  \/ Announce(s)
  \/ Describe(s)
  \/ \E r \in Requests : TakeJob(s, r)
  \/ GoOffline(s)

RequestNext(r) ==
  \/ \E i \in Insts : LookAt(r, i)
  \/ NoMatch(r)
  \/ Admit(r)
  \/ AdmitMigration(r)
  \/ MigrateOut(r)
  \/ SubscribeMigration(r)

StatusNext(n) == StatusLooksUp(n) \/ StatusWrites(n)

WaitNext(w) == LookUp(w) \/ SubscribeWait(w) \/ Expire(w)

Next ==
  \/ \E s \in Sessions : Connect(s) \/ StreamDone(s) \/ RegisterNext(s)
  \/ \E r \in Requests : Filter(r) \/ RequestNext(r) \/ CreateDb(r)
  \/ \E n \in Statuses : StatusArrives(n) \/ StatusNext(n)
  \/ \E w \in Waits : Ask(w) \/ WaitNext(w)
  \/ \E i \in Insts : NoticeRuns(i)

Spec == Init /\ [][Next]_vars

\* Goroutines that can run are run; a call takes each lock once, so that whoever
\* waits for one is its only taker in the end.  Nobody owes a break, a
\* request or a status.
Fairness ==
  /\ \A s \in Sessions : WF_vars(RegisterNext(s))
  /\ \A r \in Requests : WF_vars(RequestNext(r)) /\ WF_vars(CreateDb(r))
  /\ \A n \in Statuses : WF_vars(StatusNext(n))
  /\ \A w \in Waits : WF_vars(WaitNext(w))
  /\ \A i \in Insts : WF_vars(NoticeRuns(i))

FairSpec == Spec /\ Fairness

-----------------------------------------------------------------------------
(* Properties *)

\* A sender has the dbLock of an instance whose jobs no handler takes.
LockedOut(i) ==
  /\ \E r \in Requests : Sends(r, i)
  /\ \A s \in Sessions : OfSession[s] = i => session[s] # "serving"

\* db-instance.go:171, 205: for good, since a handler needs dbLock twice before it
\* serves, and Send has no context.
LockedOutForGood == [][\A i \in Insts : LockedOut(i) => LockedOut(i)']_vars

\* Nobody waits for a lock or for another's step.
AllDone ==
  /\ \A s \in Sessions : session[s] \in {"idle", "serving", "ended"}
  /\ \A r \in Requests : request[r].at \in {"idle", "done"} /\ create[r] \notin {"due", "send"}
  /\ \A n \in Statuses : status[n] \in {"idle", "done"}
  /\ \A w \in Waits : wait[w] \in {"idle", "returned"}
  /\ \A i \in Insts : notices[i] = 0

\* db-instance-manager.go:102, instance_status_subscriber.go:21: that is the only
\* way to get stuck.  As long as no instance is locked out, every handler comes to
\* serve or to its end, and so does every request, creation, status and WaitReady,
\* whatever they hold and whomever they wait for.
EverybodyGetsThrough == <>[](AllDone \/ \E i \in Insts : LockedOut(i))

\* db-instance-manager.go:195-201, db-instance.go:181-188: a WaitReady that sits
\* out its timeout on a ready database, and a migration that waits for one that
\* has moved out, passed the notice between check and subscription.  Nothing else
\* is missed, though a notice tells only of the status as it finds it.
WaiterIsTold ==
  \A c \in subscribers, i \in Insts :
    Awaits(c, i) => \/ notices[i] > 0
                    \/ c \in slipped
                    \/ c \in Waits /\ wait[c] = "returned"

=============================================================================
