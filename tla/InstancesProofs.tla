--------------------------- MODULE InstancesProofs ---------------------------
(***************************************************************************)
(* Theorems about the manager's instances, for any number of instances,    *)
(* sessions and calls: the locks exclude, an instance that is locked out   *)
(* stays so, and who waits for a status is told.                           *)
(***************************************************************************)
EXTENDS Instances, TLAPS

\* A request creates after it has found its instance, and a migration that waits
\* for its notice has neither created nor been told.
OnceCreated ==
  /\ \A r \in Requests : create[r] # "none" => request[r].at \in {"sendOut", "done"}
  /\ \A r \in Requests : r \in subscribers =>
       request[r].at \in {"sendOut", "done"} /\ create[r] = "none"

\* Only an instance the manager knows says anything.
KnownSpeak ==
  /\ \A i \in Insts : record[i] # "none" => i \in known
  /\ \A s \in Sessions : session[s] \notin {"idle", "new", "ended"} => OfSession[s] \in known
  /\ \A n \in Statuses : status[n] \in {"lookup", "write"} => OfStatus[n] \in known

\* What a caller looked for and did not find has been noticed since, or is about to
\* be, or was passed on before the caller subscribed.
WaitersHear ==
  /\ WaiterIsTold
  /\ \A i \in Insts : \A c \in Between(i) : notices[i] > 0 \/ c \in slipped

Inv == TypeOK /\ OnceCreated /\ KnownSpeak /\ WaitersHear

\* The records of TypeOK.
RequestRecord == [at : RequestStep, left : SUBSET Insts, inst : Insts \cup {None}]

-----------------------------------------------------------------------------
(* What a step keeps that leaves alone what a conjunct is about *)

LEMMA LocksKept ==
  ASSUME LocksAreExclusive, UNCHANGED requestVars
  PROVE  LocksAreExclusive'
BY DEF LocksAreExclusive, HasDbLock, HasInstLock, Sends, SendsOut, SendsCreate, requestVars

\* A request that takes only locks that are free takes nobody's.
LEMMA LocksStayExclusive ==
  ASSUME LocksAreExclusive, NEW r \in Requests,
         \A q \in Requests : HasInstLock(q)' => HasInstLock(q) \/ (q = r /\ InstLockFree),
         \A q \in Requests, i \in Insts :
           HasDbLock(q, i)' => HasDbLock(q, i) \/ (q = r /\ DbLockFree(i))
  PROVE  LocksAreExclusive'
BY DEF LocksAreExclusive, InstLockFree, DbLockFree

\* A request that goes elsewhere than to the filter.
LEMMA AtSet ==
  ASSUME TypeOK, NEW r \in Requests, NEW x \in RequestStep \ {"filter"},
         request' = [request EXCEPT ![r].at = x], known' = known
  PROVE  /\ request' \in [Requests -> [at : RequestStep, left : SUBSET Insts, inst : Insts \cup {None}]]
         /\ \A q \in Requests : request'[q].at = "filter" => request'[q].left \subseteq known'
<1>1. request \in [Requests -> RequestRecord]
  BY DEF TypeOK, RequestRecord
<1>2. request' \in [Requests -> RequestRecord]
  BY <1>1 DEF RequestRecord
<1>3. \A q \in Requests : request'[q].at = "filter" => request'[q] = request[q]
  BY <1>1 DEF RequestRecord
<1> QED BY <1>2, <1>3 DEF TypeOK, RequestRecord

LEMMA OnceCreatedKept ==
  ASSUME OnceCreated, UNCHANGED <<requestVars, subscribers>>
  PROVE  OnceCreated'
BY DEF OnceCreated, requestVars

LEMMA HearingKept ==
  ASSUME WaitersHear, UNCHANGED <<record, request, noticeVars>>
  PROVE  WaitersHear'
BY DEF WaitersHear, WaiterIsTold, Awaits, Between, noticeVars

\* A request that does not come to its subscription misses nothing.
LEMMA RequestHears ==
  ASSUME WaitersHear, UNCHANGED <<record, noticeVars>>,
         \A q \in Requests : request'[q].at = "subscribe" =>
           request[q].at = "subscribe" \/ record[FromOf[q]] # "idle"
  PROVE  WaitersHear'
<1>1. UNCHANGED <<record, notices, subscribers, wait, slipped>>
  BY DEF noticeVars
<1>2. \A i \in Insts : Between(i)' \subseteq Between(i)
  BY <1>1 DEF Between
<1> QED BY <1>1, <1>2 DEF WaitersHear, WaiterIsTold, Awaits

\* A status that changes is on its way to those who wait for it.
LEMMA UpdateHears ==
  ASSUME TypeOK, WaitersHear, NEW i \in Insts, NEW is \in Says, Update(i, is),
         UNCHANGED <<request, wait, subscribers, slipped>>
  PROVE  WaitersHear'
<1>1. ASSUME NEW k \in Insts
      PROVE  (record'[k] = record[k] /\ notices'[k] >= notices[k]) \/ notices'[k] > 0
  BY DEF Update, TypeOK
<1>2. \A k \in Insts : notices[k] \in Nat /\ notices'[k] \in Nat
  BY DEF Update, TypeOK
<1>3. WaiterIsTold'
  BY <1>1, <1>2 DEF WaitersHear, WaiterIsTold, Awaits
<1>4. \A k \in Insts : \A c \in Between(k)' : notices'[k] > 0 \/ c \in slipped'
  BY <1>1, <1>2 DEF WaitersHear, Between
<1> QED BY <1>3, <1>4 DEF WaitersHear

-----------------------------------------------------------------------------
(* The steps *)

LEMMA ConnectStep ==
  ASSUME Inv, NEW s \in Sessions, Connect(s)
  PROVE  Inv'
<1> USE DEF Inv, sessionVars, requestVars, noticeVars
<1>1. TypeOK'
  BY LocksKept DEF Connect, Move, TypeOK, SessionStep
<1>2. OnceCreated'
  BY OnceCreatedKept DEF Connect
<1>3. KnownSpeak'
  BY ConfigAssumption DEF Connect, Move, KnownSpeak, TypeOK
<1>4. WaitersHear'
  BY HearingKept DEF Connect
<1> QED BY <1>1, <1>2, <1>3, <1>4

LEMMA NewInstanceStep ==
  ASSUME Inv, NEW s \in Sessions, NewInstance(s)
  PROVE  Inv'
<1> USE DEF Inv, sessionVars, requestVars, noticeVars
<1>1. TypeOK'
  <2>1. known \subseteq known' /\ known' \subseteq Insts
    BY ConfigAssumption DEF NewInstance, TypeOK
  <2>2. \A r \in Requests : request'[r].at = "filter" => request'[r].left \subseteq known'
    BY <2>1 DEF NewInstance, TypeOK
  <2>3. session' \in [Sessions -> SessionStep]
    BY DEF NewInstance, Move, TypeOK, SessionStep
  <2> QED BY <2>1, <2>2, <2>3, LocksKept DEF NewInstance, TypeOK
<1>2. OnceCreated'
  BY OnceCreatedKept DEF NewInstance
<1>3. KnownSpeak'
  BY ConfigAssumption DEF NewInstance, Move, KnownSpeak, TypeOK
<1>4. WaitersHear'
  BY HearingKept DEF NewInstance
<1> QED BY <1>1, <1>2, <1>3, <1>4

LEMMA UpdateDatabasesStep ==
  ASSUME Inv, NEW s \in Sessions, UpdateDatabases(s)
  PROVE  Inv'
<1> USE DEF Inv, sessionVars, requestVars, noticeVars
<1>0. \/ UNCHANGED <<record, notices>>
      \/ \E is \in Says : Update(OfSession[s], is)
  BY ConfigAssumption DEF UpdateDatabases
<1>1. TypeOK'
  <2>1. record' \in [Insts -> Says] /\ notices' \in [Insts -> Nat]
    BY <1>0, ConfigAssumption DEF Update, TypeOK
  <2> QED BY <2>1, LocksKept DEF UpdateDatabases, Move, TypeOK, SessionStep
<1>2. OnceCreated'
  BY OnceCreatedKept DEF UpdateDatabases
<1>3. KnownSpeak'
  BY ConfigAssumption DEF UpdateDatabases, Move, Update, KnownSpeak, TypeOK
<1>4. WaitersHear'
  BY <1>0, UpdateHears, HearingKept, ConfigAssumption DEF UpdateDatabases, Move
<1> QED BY <1>1, <1>2, <1>3, <1>4

LEMMA GoOnlineStep ==
  ASSUME Inv, NEW s \in Sessions, GoOnline(s)
  PROVE  Inv'
<1> USE DEF Inv, sessionVars, requestVars, noticeVars
<1>1. TypeOK'
  <2>1. OfSession[s] \in known
    BY DEF GoOnline, Move, KnownSpeak
  <2> QED BY <2>1, LocksKept DEF GoOnline, Move, TypeOK, SessionStep
<1>2. OnceCreated'
  BY OnceCreatedKept DEF GoOnline
<1>3. KnownSpeak'
  BY ConfigAssumption DEF GoOnline, Move, KnownSpeak, TypeOK
<1>4. WaitersHear'
  BY HearingKept DEF GoOnline
<1> QED BY <1>1, <1>2, <1>3, <1>4

LEMMA AnnounceStep ==
  ASSUME Inv, NEW s \in Sessions, Announce(s)
  PROVE  Inv'
<1> USE DEF Inv, sessionVars, requestVars, noticeVars
<1>1. TypeOK'
  BY LocksKept DEF Announce, Move, TypeOK, SessionStep
<1>2. OnceCreated'
  BY OnceCreatedKept DEF Announce
<1>3. KnownSpeak'
  BY ConfigAssumption DEF Announce, Move, KnownSpeak, TypeOK
<1>4. WaitersHear'
  BY HearingKept DEF Announce
<1> QED BY <1>1, <1>2, <1>3, <1>4

LEMMA DescribeStep ==
  ASSUME Inv, NEW s \in Sessions, Describe(s)
  PROVE  Inv'
<1> USE DEF Inv, sessionVars, requestVars, noticeVars
<1>1. TypeOK'
  BY LocksKept DEF Describe, Move, TypeOK, SessionStep
<1>2. OnceCreated'
  BY OnceCreatedKept DEF Describe
<1>3. KnownSpeak'
  BY ConfigAssumption DEF Describe, Move, KnownSpeak, TypeOK
<1>4. WaitersHear'
  BY HearingKept DEF Describe
<1> QED BY <1>1, <1>2, <1>3, <1>4

LEMMA TakeJobStep ==
  ASSUME Inv, NEW s \in Sessions, NEW r \in Requests, TakeJob(s, r)
  PROVE  Inv'
<1> USE DEF Inv, sessionVars, requestVars, noticeVars
<1>1. TypeOK'
  <2>1. LocksAreExclusive'
    <3>1. request' = request \/ request' = [request EXCEPT ![r].at = "done"]
      BY DEF TakeJob
    <3>2. create' = create \/ create' = [create EXCEPT ![r] = "sent"]
      BY DEF TakeJob
    <3>3. ASSUME NEW q \in Requests
          PROVE  /\ request'[q].at = request[q].at \/ request'[q].at = "done"
                 /\ request'[q].inst = request[q].inst
                 /\ create'[q] = "send" => create[q] = "send"
      BY <3>1, <3>2 DEF TypeOK
    <3>4. LocksAreExclusive BY DEF TypeOK
    <3>5. ASSUME NEW q \in Requests PROVE HasInstLock(q)' => HasInstLock(q)
      BY <3>3 DEF HasInstLock
    <3>6. ASSUME NEW q \in Requests, NEW i \in Insts PROVE HasDbLock(q, i)' => HasDbLock(q, i)
      BY <3>3 DEF HasDbLock, Sends, SendsOut, SendsCreate
    <3> QED BY <3>4, <3>5, <3>6, LocksStayExclusive
  <2>2. CASE create' = create
    <3>1. request' = [request EXCEPT ![r].at = "done"] \/ request' = request
      BY DEF TakeJob
    <3>2. "done" \in RequestStep \ {"filter"}
      BY DEF RequestStep
    <3> QED BY <2>1, <2>2, <3>1, <3>2, AtSet DEF TakeJob, TypeOK
  <2>3. CASE request' = request /\ create' = [create EXCEPT ![r] = "sent"]
    BY <2>1, <2>3 DEF TakeJob, TypeOK, CreateStep
  <2> QED BY <2>2, <2>3 DEF TakeJob
<1>2. OnceCreated'
  BY CallsAssumption DEF TakeJob, OnceCreated, TypeOK, Sends, SendsOut, SendsCreate
<1>3. KnownSpeak'
  BY ConfigAssumption DEF TakeJob, KnownSpeak, TypeOK
<1>4. WaitersHear'
  <2>1. \A q \in Requests : request'[q].at = "subscribe" =>
          request[q].at = "subscribe" \/ record[FromOf[q]] # "idle"
    <3>1. request' = request \/ request' = [request EXCEPT ![r].at = "done"]
      BY DEF TakeJob
    <3> QED BY <3>1 DEF TypeOK
  <2> QED BY <2>1, RequestHears DEF TakeJob
<1> QED BY <1>1, <1>2, <1>3, <1>4

LEMMA StreamDoneStep ==
  ASSUME Inv, NEW s \in Sessions, StreamDone(s)
  PROVE  Inv'
<1> USE DEF Inv, sessionVars, requestVars, noticeVars
<1>1. TypeOK'
  BY LocksKept DEF StreamDone, Move, TypeOK, SessionStep
<1>2. OnceCreated'
  BY OnceCreatedKept DEF StreamDone
<1>3. KnownSpeak'
  BY ConfigAssumption DEF StreamDone, Move, KnownSpeak, TypeOK
<1>4. WaitersHear'
  BY HearingKept DEF StreamDone
<1> QED BY <1>1, <1>2, <1>3, <1>4

LEMMA GoOfflineStep ==
  ASSUME Inv, NEW s \in Sessions, GoOffline(s)
  PROVE  Inv'
<1> USE DEF Inv, sessionVars, requestVars, noticeVars
<1>1. TypeOK'
  BY LocksKept DEF GoOffline, Move, TypeOK, SessionStep
<1>2. OnceCreated'
  BY OnceCreatedKept DEF GoOffline
<1>3. KnownSpeak'
  BY ConfigAssumption DEF GoOffline, Move, KnownSpeak, TypeOK
<1>4. WaitersHear'
  BY HearingKept DEF GoOffline
<1> QED BY <1>1, <1>2, <1>3, <1>4

LEMMA FilterStep ==
  ASSUME Inv, NEW r \in Requests, Filter(r)
  PROVE  Inv'
<1> USE DEF Inv, sessionVars, requestVars, noticeVars
<1>1. TypeOK'
  <2>1. LocksAreExclusive'
    BY NoneAssumption DEF Filter, TypeOK, OnceCreated, InstLockFree, DbLockFree, LocksAreExclusive, HasDbLock, HasInstLock, Sends, SendsOut, SendsCreate
  <2> QED BY <2>1, ConfigAssumption, NoneAssumption DEF Filter, TypeOK, RequestStep, CreateStep
<1>2. OnceCreated'
  BY CallsAssumption DEF Filter, OnceCreated, TypeOK
<1>3. KnownSpeak'
  BY ConfigAssumption DEF Filter, KnownSpeak, TypeOK
<1>4. WaitersHear'
  <2>1. \A q \in Requests : request'[q].at = "subscribe" =>
          request[q].at = "subscribe" \/ record[FromOf[q]] # "idle"
    BY DEF Filter, TypeOK
  <2> QED BY <2>1, RequestHears DEF Filter
<1> QED BY <1>1, <1>2, <1>3, <1>4

LEMMA LookAtStep ==
  ASSUME Inv, NEW r \in Requests, NEW i \in Insts, LookAt(r, i)
  PROVE  Inv'
<1> USE DEF Inv, sessionVars, requestVars, noticeVars
<1>1. TypeOK'
  <2>1. LocksAreExclusive'
    BY NoneAssumption DEF LookAt, TypeOK, OnceCreated, InstLockFree, DbLockFree, LocksAreExclusive, HasDbLock, HasInstLock, Sends, SendsOut, SendsCreate
  <2>2. /\ request \in [Requests -> RequestRecord]
        /\ \A q \in Requests : request[q].at = "filter" => request[q].left \subseteq known
    BY DEF TypeOK, RequestRecord
  <2>3. PICK x \in RequestRecord :
          /\ request' = [request EXCEPT ![r] = x]
          /\ x.at = "filter" => x.left \subseteq known
    <3>1. CASE Matches(r, i)
      <4> DEFINE x == [at |-> "found", left |-> {}, inst |-> i]
      <4>1. request' = [request EXCEPT ![r] = x] BY <3>1 DEF LookAt
      <4>2. i \in Insts BY DEF LookAt, TypeOK
      <4>3. x \in RequestRecord /\ x.at # "filter" BY <4>2 DEF RequestRecord, RequestStep
      <4> HIDE DEF x
      <4> QED BY <4>1, <4>3
    <3>2. CASE ~Matches(r, i)
      <4>1. request' = [request EXCEPT ![r].left = @ \ {i}] BY <3>2 DEF LookAt
      <4>2. request[r] \in RequestRecord /\ request[r].left \subseteq known BY <2>2 DEF LookAt
      <4> DEFINE x == [request[r] EXCEPT !.left = @ \ {i}]
      <4>3. x \in RequestRecord /\ x.left \subseteq known BY <4>2 DEF RequestRecord
      <4>4. request' = [request EXCEPT ![r] = x] BY <4>1
      <4> HIDE DEF x
      <4> QED BY <4>3, <4>4
    <3> QED BY <3>1, <3>2
  <2>4. /\ request' \in [Requests -> RequestRecord]
        /\ \A q \in Requests : request'[q].at = "filter" => request'[q].left \subseteq known
    BY <2>2, <2>3
  <2> QED BY <2>1, <2>4 DEF LookAt, TypeOK, RequestRecord
<1>2. OnceCreated'
  BY CallsAssumption DEF LookAt, OnceCreated, TypeOK
<1>3. KnownSpeak'
  BY ConfigAssumption DEF LookAt, KnownSpeak, TypeOK
<1>4. WaitersHear'
  <2>1. \A q \in Requests : request'[q].at = "subscribe" =>
          request[q].at = "subscribe" \/ record[FromOf[q]] # "idle"
    BY DEF LookAt, TypeOK
  <2> QED BY <2>1, RequestHears DEF LookAt
<1> QED BY <1>1, <1>2, <1>3, <1>4

LEMMA NoMatchStep ==
  ASSUME Inv, NEW r \in Requests, NoMatch(r)
  PROVE  Inv'
<1> USE DEF Inv, sessionVars, requestVars, noticeVars
<1>1. TypeOK'
  <2>1. LocksAreExclusive'
    BY NoneAssumption DEF NoMatch, TypeOK, OnceCreated, InstLockFree, DbLockFree, LocksAreExclusive, HasDbLock, HasInstLock, Sends, SendsOut, SendsCreate
  <2>2. CASE NameOf[r] # None \/ known = {}
    <3>1. request' = [request EXCEPT ![r].at = "done"]
      BY <2>2 DEF NoMatch
    <3> QED BY <2>1, <3>1 DEF NoMatch, TypeOK, RequestStep
  <2>3. CASE ~(NameOf[r] # None \/ known = {})
    <3>1. PICK i \in known : request' = [request EXCEPT ![r] = [at |-> "found", left |-> {}, inst |-> i]]
      BY <2>3 DEF NoMatch
    <3>2. i \in Insts
      BY <3>1 DEF TypeOK
    <3>3. request' \in [Requests -> [at : RequestStep, left : SUBSET Insts, inst : Insts \cup {None}]]
      BY <3>1, <3>2 DEF TypeOK, RequestStep
    <3>4. \A q \in Requests : request'[q].at = "filter" => request'[q].left \subseteq known'
      BY <3>1 DEF NoMatch, TypeOK
    <3> QED BY <2>1, <3>3, <3>4 DEF NoMatch, TypeOK
  <2> QED BY <2>2, <2>3
<1>2. OnceCreated'
  BY CallsAssumption DEF NoMatch, OnceCreated, TypeOK
<1>3. KnownSpeak'
  BY ConfigAssumption DEF NoMatch, KnownSpeak, TypeOK
<1>4. WaitersHear'
  <2>1. \A q \in Requests : request'[q].at = "subscribe" =>
          request[q].at = "subscribe" \/ record[FromOf[q]] # "idle"
    BY DEF NoMatch, TypeOK
  <2> QED BY <2>1, RequestHears DEF NoMatch
<1> QED BY <1>1, <1>2, <1>3, <1>4

LEMMA AdmitStep ==
  ASSUME Inv, NEW r \in Requests, Admit(r)
  PROVE  Inv'
<1> USE DEF Inv, sessionVars, requestVars, noticeVars
<1>1. TypeOK'
  <2>1. LocksAreExclusive'
    BY NoneAssumption DEF Admit, TypeOK, OnceCreated, InstLockFree, DbLockFree, LocksAreExclusive, HasDbLock, HasInstLock, Sends, SendsOut, SendsCreate
  <2>2. request' = [request EXCEPT ![r].at = "done"] /\ "done" \in RequestStep \ {"filter"}
    BY DEF Admit, RequestStep
  <2>3. create' \in [Requests -> CreateStep]
    BY DEF Admit, TypeOK, CreateStep
  <2> QED BY <2>1, <2>2, <2>3, AtSet DEF Admit, TypeOK
<1>2. OnceCreated'
  BY CallsAssumption DEF Admit, OnceCreated, TypeOK
<1>3. KnownSpeak'
  BY ConfigAssumption DEF Admit, KnownSpeak, TypeOK
<1>4. WaitersHear'
  <2>1. \A q \in Requests : request'[q].at = "subscribe" =>
          request[q].at = "subscribe" \/ record[FromOf[q]] # "idle"
    BY DEF Admit, TypeOK
  <2> QED BY <2>1, RequestHears DEF Admit
<1> QED BY <1>1, <1>2, <1>3, <1>4

LEMMA AdmitMigrationStep ==
  ASSUME Inv, NEW r \in Requests, AdmitMigration(r)
  PROVE  Inv'
<1> USE DEF Inv, sessionVars, requestVars, noticeVars
<1>1. TypeOK'
  <2>1. LocksAreExclusive'
    BY NoneAssumption DEF AdmitMigration, TypeOK, OnceCreated, InstLockFree, DbLockFree, LocksAreExclusive, HasDbLock, HasInstLock, Sends, SendsOut, SendsCreate
  <2>2. \E x \in RequestStep \ {"filter"} : request' = [request EXCEPT ![r].at = x]
    BY DEF AdmitMigration, RequestStep
  <2> QED BY <2>1, <2>2, AtSet DEF AdmitMigration, TypeOK
<1>2. OnceCreated'
  BY CallsAssumption DEF AdmitMigration, OnceCreated, TypeOK
<1>3. KnownSpeak'
  BY ConfigAssumption DEF AdmitMigration, KnownSpeak, TypeOK
<1>4. WaitersHear'
  <2>1. \A q \in Requests : request'[q].at = "subscribe" =>
          request[q].at = "subscribe" \/ record[FromOf[q]] # "idle"
    BY DEF AdmitMigration, TypeOK
  <2> QED BY <2>1, RequestHears DEF AdmitMigration
<1> QED BY <1>1, <1>2, <1>3, <1>4

LEMMA MigrateOutStep ==
  ASSUME Inv, NEW r \in Requests, MigrateOut(r)
  PROVE  Inv'
<1> USE DEF Inv, sessionVars, requestVars, noticeVars
<1>1. TypeOK'
  <2>1. LocksAreExclusive'
    <3>1. create' = create \/ create' = [create EXCEPT ![r] = "due"]
      BY DEF MigrateOut
    <3>2. request' = [request EXCEPT ![r].at = "done"] \/ request' = [request EXCEPT ![r].at = "subscribe"]
      BY DEF MigrateOut
    <3>3. ASSUME NEW q \in Requests, HasInstLock(q)' PROVE HasInstLock(q)
      BY <3>2, <3>3 DEF HasInstLock, TypeOK
    <3>4. ASSUME NEW q \in Requests, NEW i \in Insts, HasDbLock(q, i)'
          PROVE  HasDbLock(q, i) \/ (q = r /\ DbLockFree(i))
      <4>1. request'[q].inst = request[q].inst /\ (create'[q] = "send" => create[q] = "send")
        BY <3>1, <3>2 DEF TypeOK
      <4>2. CASE q = r
        <5>1. request'[r].at \in {"done", "subscribe"} BY <3>2 DEF TypeOK
        <5> QED
          BY <3>4, <4>1, <4>2, <5>1 DEF MigrateOut, HasDbLock, Sends, SendsOut, SendsCreate
      <4>3. CASE q # r
        <5>1. request'[q] = request[q] BY <3>2, <4>3 DEF TypeOK
        <5> QED BY <3>4, <4>1, <5>1 DEF HasDbLock, Sends, SendsOut, SendsCreate
      <4> QED BY <4>2, <4>3
    <3>5. LocksAreExclusive BY DEF TypeOK
    <3> QED BY <3>3, <3>4, <3>5, LocksStayExclusive
  <2>2. \E x \in RequestStep \ {"filter"} : request' = [request EXCEPT ![r].at = x]
    BY DEF MigrateOut, RequestStep
  <2>3. create' \in [Requests -> CreateStep]
    BY DEF MigrateOut, TypeOK, CreateStep
  <2> QED BY <2>1, <2>2, <2>3, AtSet DEF MigrateOut, TypeOK
<1>2. OnceCreated'
  <2>1. CASE record[FromOf[r]] \in {"none", "idle"}
    BY <2>1 DEF MigrateOut, OnceCreated, TypeOK
  <2>2. CASE record[FromOf[r]] \notin {"none", "idle"}
    BY <2>2 DEF MigrateOut, OnceCreated, TypeOK
  <2> QED BY <2>1, <2>2
<1>3. KnownSpeak'
  BY ConfigAssumption DEF MigrateOut, KnownSpeak, TypeOK
<1>4. WaitersHear'
  <2>1. \A q \in Requests : request'[q].at = "subscribe" =>
          request[q].at = "subscribe" \/ record[FromOf[q]] # "idle"
    BY DEF MigrateOut, TypeOK
  <2> QED BY <2>1, RequestHears DEF MigrateOut
<1> QED BY <1>1, <1>2, <1>3, <1>4

LEMMA SubscribeMigrationStep ==
  ASSUME Inv, NEW r \in Requests, SubscribeMigration(r)
  PROVE  Inv'
<1> USE DEF Inv, sessionVars, requestVars, noticeVars
<1>1. TypeOK'
  <2>1. LocksAreExclusive'
    BY NoneAssumption DEF SubscribeMigration, TypeOK, OnceCreated, InstLockFree, DbLockFree, LocksAreExclusive, HasDbLock, HasInstLock, Sends, SendsOut, SendsCreate
  <2>2. request' = [request EXCEPT ![r].at = "sendOut"] /\ "sendOut" \in RequestStep \ {"filter"}
    BY DEF SubscribeMigration, RequestStep
  <2> QED BY <2>1, <2>2, AtSet DEF SubscribeMigration, TypeOK
<1>2. OnceCreated'
  BY CallsAssumption DEF SubscribeMigration, OnceCreated, TypeOK
<1>3. KnownSpeak'
  BY ConfigAssumption DEF SubscribeMigration, KnownSpeak, TypeOK
<1>4. WaitersHear'
  BY ConfigAssumption, CallsAssumption DEF SubscribeMigration, WaitersHear, WaiterIsTold, Awaits, Between, TypeOK, OnceCreated, KnownSpeak
<1> QED BY <1>1, <1>2, <1>3, <1>4

LEMMA CreateDbStep ==
  ASSUME Inv, NEW r \in Requests, CreateDb(r)
  PROVE  Inv'
<1> USE DEF Inv, sessionVars, requestVars, noticeVars
<1>1. TypeOK'
  <2>1. LocksAreExclusive'
    BY NoneAssumption DEF CreateDb, TypeOK, OnceCreated, InstLockFree, DbLockFree, LocksAreExclusive, HasDbLock, HasInstLock, Sends, SendsOut, SendsCreate
  <2> QED BY <2>1, ConfigAssumption, NoneAssumption DEF CreateDb, TypeOK, RequestStep, CreateStep
<1>2. OnceCreated'
  BY CallsAssumption DEF CreateDb, OnceCreated, TypeOK
<1>3. KnownSpeak'
  BY ConfigAssumption DEF CreateDb, KnownSpeak, TypeOK
<1>4. WaitersHear'
  BY HearingKept DEF CreateDb
<1> QED BY <1>1, <1>2, <1>3, <1>4

LEMMA StatusArrivesStep ==
  ASSUME Inv, NEW n \in Statuses, StatusArrives(n)
  PROVE  Inv'
<1> USE DEF Inv, sessionVars, requestVars, noticeVars
<1>1. TypeOK'
  BY LocksKept DEF StatusArrives, TypeOK
<1>2. OnceCreated'
  BY OnceCreatedKept DEF StatusArrives
<1>3. KnownSpeak'
  BY ConfigAssumption DEF StatusArrives, KnownSpeak, TypeOK
<1>4. WaitersHear'
  BY HearingKept DEF StatusArrives
<1> QED BY <1>1, <1>2, <1>3, <1>4

LEMMA StatusLooksUpStep ==
  ASSUME Inv, NEW n \in Statuses, StatusLooksUp(n)
  PROVE  Inv'
<1> USE DEF Inv, sessionVars, requestVars, noticeVars
<1>1. TypeOK'
  BY LocksKept DEF StatusLooksUp, TypeOK
<1>2. OnceCreated'
  BY OnceCreatedKept DEF StatusLooksUp
<1>3. KnownSpeak'
  BY ConfigAssumption DEF StatusLooksUp, KnownSpeak, TypeOK
<1>4. WaitersHear'
  BY HearingKept DEF StatusLooksUp
<1> QED BY <1>1, <1>2, <1>3, <1>4

LEMMA StatusWritesStep ==
  ASSUME Inv, NEW n \in Statuses, StatusWrites(n)
  PROVE  Inv'
<1> USE DEF Inv, sessionVars, requestVars, noticeVars
<1>0. \E is \in Says : Update(OfStatus[n], is)
  BY ConfigAssumption DEF StatusWrites
<1>1. TypeOK'
  <2>1. record' \in [Insts -> Says] /\ notices' \in [Insts -> Nat]
    BY <1>0, ConfigAssumption DEF Update, TypeOK
  <2> QED BY <2>1, LocksKept DEF StatusWrites, TypeOK, SessionStep
<1>2. OnceCreated'
  BY OnceCreatedKept DEF StatusWrites
<1>3. KnownSpeak'
  BY ConfigAssumption DEF StatusWrites, Update, KnownSpeak, TypeOK
<1>4. WaitersHear'
  BY <1>0, UpdateHears, HearingKept, ConfigAssumption DEF StatusWrites, Move
<1> QED BY <1>1, <1>2, <1>3, <1>4

LEMMA AskStep ==
  ASSUME Inv, NEW w \in Waits, Ask(w)
  PROVE  Inv'
<1> USE DEF Inv, sessionVars, requestVars, noticeVars
<1>1. TypeOK'
  BY LocksKept DEF Ask, TypeOK
<1>2. OnceCreated'
  BY OnceCreatedKept DEF Ask
<1>3. KnownSpeak'
  BY ConfigAssumption DEF Ask, KnownSpeak, TypeOK
<1>4. WaitersHear'
  BY ConfigAssumption, CallsAssumption DEF Ask, WaitersHear, WaiterIsTold, Awaits, Between, TypeOK, OnceCreated, KnownSpeak
<1> QED BY <1>1, <1>2, <1>3, <1>4

LEMMA LookUpStep ==
  ASSUME Inv, NEW w \in Waits, LookUp(w)
  PROVE  Inv'
<1> USE DEF Inv, sessionVars, requestVars, noticeVars
<1>1. TypeOK'
  BY LocksKept DEF LookUp, TypeOK
<1>2. OnceCreated'
  BY OnceCreatedKept DEF LookUp
<1>3. KnownSpeak'
  BY ConfigAssumption DEF LookUp, KnownSpeak, TypeOK
<1>4. WaitersHear'
  BY ConfigAssumption, CallsAssumption DEF LookUp, WaitersHear, WaiterIsTold, Awaits, Between, TypeOK, OnceCreated, KnownSpeak
<1> QED BY <1>1, <1>2, <1>3, <1>4

LEMMA SubscribeWaitStep ==
  ASSUME Inv, NEW w \in Waits, SubscribeWait(w)
  PROVE  Inv'
<1> USE DEF Inv, sessionVars, requestVars, noticeVars
<1>1. TypeOK'
  BY LocksKept DEF SubscribeWait, TypeOK
<1>2. OnceCreated'
  BY CallsAssumption DEF SubscribeWait, OnceCreated
<1>3. KnownSpeak'
  BY ConfigAssumption DEF SubscribeWait, KnownSpeak, TypeOK
<1>4. WaitersHear'
  BY ConfigAssumption, CallsAssumption DEF SubscribeWait, WaitersHear, WaiterIsTold, Awaits, Between, TypeOK, OnceCreated, KnownSpeak
<1> QED BY <1>1, <1>2, <1>3, <1>4

LEMMA ExpireStep ==
  ASSUME Inv, NEW w \in Waits, Expire(w)
  PROVE  Inv'
<1> USE DEF Inv, sessionVars, requestVars, noticeVars
<1>1. TypeOK'
  BY LocksKept DEF Expire, TypeOK
<1>2. OnceCreated'
  BY OnceCreatedKept DEF Expire
<1>3. KnownSpeak'
  BY ConfigAssumption DEF Expire, KnownSpeak, TypeOK
<1>4. WaitersHear'
  BY ConfigAssumption, CallsAssumption DEF Expire, WaitersHear, WaiterIsTold, Awaits, Between, TypeOK, OnceCreated, KnownSpeak
<1> QED BY <1>1, <1>2, <1>3, <1>4

LEMMA NoticeRunsStep ==
  ASSUME Inv, NEW i \in Insts, NoticeRuns(i)
  PROVE  Inv'
<1> USE DEF Inv, sessionVars, requestVars, noticeVars
<1>1. TypeOK'
  <2>1. LocksAreExclusive'
    BY NoneAssumption DEF NoticeRuns, TypeOK, OnceCreated, InstLockFree, DbLockFree, LocksAreExclusive, HasDbLock, HasInstLock, Sends, SendsOut, SendsCreate
  <2>2. notices' \in [Insts -> Nat]
    BY DEF NoticeRuns, TypeOK
  <2>3. CASE record[i] \in {"failed", "ready", "idle"}
    <3>1. wait' \in [Waits -> {"idle", "lookup", "checked", "subscribed", "returned"}]
      BY <2>3 DEF NoticeRuns, TypeOK
    <3>2. create' \in [Requests -> CreateStep]
      BY <2>3 DEF NoticeRuns, TypeOK, CreateStep
    <3>3. subscribers' \subseteq Requests \cup Waits /\ slipped' \subseteq Requests \cup Waits
      BY <2>3 DEF NoticeRuns, TypeOK, Staying, Between
    <3> QED BY <2>1, <2>2, <3>1, <3>2, <3>3 DEF NoticeRuns, TypeOK
  <2>4. CASE record[i] \notin {"failed", "ready", "idle"}
    BY <2>1, <2>2, <2>4 DEF NoticeRuns, TypeOK
  <2> QED BY <2>3, <2>4
<1>2. OnceCreated'
  <2>1. CASE record[i] \in {"failed", "ready", "idle"}
    <3>1. \A r \in Requests : create'[r] # "none" =>
            create[r] # "none" \/ (r \in subscribers /\ Awaits(r, i))
      BY <2>1 DEF NoticeRuns
    <3>2. \A r \in subscribers' : r \in subscribers /\ ~Awaits(r, i)
      BY <2>1 DEF NoticeRuns, Staying, Stops
    <3>3. request' = request
      BY DEF NoticeRuns
    <3> QED BY <3>1, <3>2, <3>3 DEF OnceCreated
  <2>2. CASE record[i] \notin {"failed", "ready", "idle"}
    BY <2>2, OnceCreatedKept DEF NoticeRuns
  <2> QED BY <2>1, <2>2
<1>3. KnownSpeak'
  BY ConfigAssumption DEF NoticeRuns, KnownSpeak, TypeOK
<1>4. WaitersHear'
  BY ConfigAssumption, CallsAssumption DEF NoticeRuns, WaitersHear, WaiterIsTold, Awaits, Between, TypeOK, OnceCreated, KnownSpeak, Stops, Staying
<1> QED BY <1>1, <1>2, <1>3, <1>4

LEMMA InitInv == Init => Inv
BY ConfigAssumption DEF Init, Inv, TypeOK, Says, SessionStep, RequestStep, CreateStep, LocksAreExclusive,
   HasDbLock, HasInstLock, Sends, SendsOut, SendsCreate, OnceCreated, KnownSpeak, WaitersHear,
   WaiterIsTold, Between

LEMMA StutterStep ==
  ASSUME Inv, UNCHANGED vars
  PROVE  Inv'
<1> USE DEF Inv, vars, sessionVars, requestVars, noticeVars
<1>1. TypeOK'
  BY LocksKept DEF TypeOK
<1>2. OnceCreated'
  BY OnceCreatedKept
<1>3. KnownSpeak'
  BY DEF KnownSpeak
<1>4. WaitersHear'
  BY HearingKept
<1> QED BY <1>1, <1>2, <1>3, <1>4

\* The inductive invariant: who has a lock, how far a creation has come, who can
\* have said something, and what is on its way to whom.
THEOREM Invariance == Spec => []Inv
<1>1. Inv /\ [Next]_vars => Inv'
  <2> SUFFICES ASSUME Inv, [Next]_vars PROVE Inv'
    OBVIOUS
  <2>1. ASSUME NEW s \in Sessions, Connect(s) \/ StreamDone(s) \/ RegisterNext(s) PROVE Inv'
    BY <2>1, ConnectStep, StreamDoneStep, NewInstanceStep, UpdateDatabasesStep, GoOnlineStep, AnnounceStep,
       DescribeStep, TakeJobStep, GoOfflineStep DEF RegisterNext
  <2>2. ASSUME NEW r \in Requests, Filter(r) \/ RequestNext(r) \/ CreateDb(r) PROVE Inv'
    BY <2>2, FilterStep, LookAtStep, NoMatchStep, AdmitStep, AdmitMigrationStep, MigrateOutStep,
       SubscribeMigrationStep, CreateDbStep DEF RequestNext
  <2>3. ASSUME NEW n \in Statuses, StatusArrives(n) \/ StatusNext(n) PROVE Inv'
    BY <2>3, StatusArrivesStep, StatusLooksUpStep, StatusWritesStep DEF StatusNext
  <2>4. ASSUME NEW w \in Waits, Ask(w) \/ WaitNext(w) PROVE Inv'
    BY <2>4, AskStep, LookUpStep, SubscribeWaitStep, ExpireStep DEF WaitNext
  <2>5. ASSUME NEW i \in Insts, NoticeRuns(i) PROVE Inv'
    BY <2>5, NoticeRunsStep
  <2> QED BY <2>1, <2>2, <2>3, <2>4, <2>5, StutterStep DEF Next
<1> QED BY <1>1, InitInv, PTL DEF Spec

-----------------------------------------------------------------------------
\* Types, and that no two calls have instLock or the dbLock of one instance.
THEOREM TypeCorrect == Spec => []TypeOK
<1>1. Inv => TypeOK
  BY DEF Inv
<1> QED BY <1>1, Invariance, PTL

\* db-instance-manager.go:195-201, db-instance.go:181-188: for any number of callers
\* and instances, a status is missed only between a check and its subscription.
THEOREM WaitersAreTold == Spec => []WaiterIsTold
<1>1. Inv => WaiterIsTold
  BY DEF Inv, WaitersHear
<1> QED BY <1>1, Invariance, PTL

\* A sender goes on only when a serving handler of its instance takes its job.
LEMMA SenderStays ==
  ASSUME Inv, [Next]_vars, NEW i \in Insts, NEW r \in Requests, Sends(r, i),
         \A s \in Sessions : OfSession[s] = i => session[s] # "serving"
  PROVE  Sends(r, i)'
<1>1. /\ request[r].at \in {"sendOut", "done"}
      /\ request[r].at = "sendOut" \/ create[r] = "send"
      /\ create[r] = "send" => r \notin subscribers
  BY DEF Inv, OnceCreated, Sends, SendsOut, SendsCreate
<1>2. ASSUME NEW s \in Sessions, NEW q \in Requests, TakeJob(s, q)
      PROVE  Sends(r, i)'
  <2>1. CASE SendsOut(q, OfSession[s]) /\ request' = [request EXCEPT ![q].at = "done"] /\ create' = create
    BY <1>2, <2>1, ConfigAssumption DEF TakeJob, Sends, SendsOut, SendsCreate, Inv, TypeOK
  <2>2. CASE SendsCreate(q, OfSession[s]) /\ create' = [create EXCEPT ![q] = "sent"] /\ request' = request
    BY <1>2, <2>2, ConfigAssumption DEF TakeJob, Sends, SendsOut, SendsCreate, Inv, TypeOK
  <2> QED BY <1>2, <2>1, <2>2 DEF TakeJob
<1>3. ASSUME NEW q \in Requests, Filter(q) \/ RequestNext(q) \/ CreateDb(q)
      PROVE  Sends(r, i)'
  <2>1. request[q].at \notin {"sendOut", "done"} \/ create[q] = "due"
    BY <1>3 DEF Filter, RequestNext, LookAt, NoMatch, Admit, AdmitMigration, MigrateOut,
       SubscribeMigration, CreateDb
  <2>2. CASE q = r
    <3>1. CreateDb(r) /\ create[r] = "due"
      BY <1>1, <1>3, <2>2 DEF Filter, RequestNext, LookAt, NoMatch, Admit, AdmitMigration, MigrateOut,
         SubscribeMigration, CreateDb
    <3>2. request' = request /\ request[r].at = "sendOut" /\ FromOf[r] = i
      BY <3>1 DEF CreateDb, Sends, SendsOut, SendsCreate
    <3> QED BY <3>2 DEF Sends, SendsOut
  <2>3. CASE q # r
    <3>1. request'[r] = request[r] /\ create'[r] = create[r]
      BY <1>3, <2>3 DEF Filter, RequestNext, LookAt, NoMatch, Admit, AdmitMigration, MigrateOut,
         SubscribeMigration, CreateDb, Inv, TypeOK
    <3> QED BY <3>1 DEF Sends, SendsOut, SendsCreate
  <2> QED BY <2>2, <2>3
<1>4. ASSUME NEW k \in Insts, NoticeRuns(k)
      PROVE  Sends(r, i)'
  <2>1. request' = request
    BY <1>4 DEF NoticeRuns
  <2>2. create[r] = "send" => create'[r] = "send"
    BY <1>1, <1>4 DEF NoticeRuns, Inv, TypeOK
  <2> QED BY <2>1, <2>2 DEF Sends, SendsOut, SendsCreate
<1>5. CASE UNCHANGED requestVars
  BY <1>5 DEF requestVars, Sends, SendsOut, SendsCreate
<1>6. ASSUME NEW s \in Sessions, Connect(s) \/ StreamDone(s) \/ (RegisterNext(s) /\ \A q \in Requests : ~TakeJob(s, q))
      PROVE  UNCHANGED requestVars
  BY <1>6 DEF Connect, StreamDone, RegisterNext, NewInstance, UpdateDatabases, GoOnline, Announce, Describe,
     GoOffline
<1>7. ASSUME NEW n \in Statuses, StatusArrives(n) \/ StatusNext(n)
      PROVE  UNCHANGED requestVars
  BY <1>7 DEF StatusArrives, StatusNext, StatusLooksUp, StatusWrites
<1>8. ASSUME NEW w \in Waits, Ask(w) \/ WaitNext(w)
      PROVE  UNCHANGED requestVars
  BY <1>8 DEF Ask, WaitNext, LookUp, SubscribeWait, Expire
<1> QED BY <1>2, <1>3, <1>4, <1>5, <1>6, <1>7, <1>8 DEF Next, vars

\* A handler comes to serve only with dbLock free.
LEMMA NobodyServes ==
  ASSUME Inv, [Next]_vars, NEW i \in Insts, LockedOut(i), NEW s \in Sessions, OfSession[s] = i
  PROVE  session'[s] # "serving"
<1>1. session[s] # "serving" /\ ~DbLockFree(i)
  BY DEF LockedOut, DbLockFree, HasDbLock
<1>2. ASSUME NEW k \in Sessions, Connect(k) \/ StreamDone(k) \/ RegisterNext(k)
      PROVE  session'[s] # "serving"
  BY <1>1, <1>2 DEF Connect, StreamDone, RegisterNext, NewInstance, UpdateDatabases, GoOnline, Announce,
     Describe, TakeJob, GoOffline, Move, Inv, TypeOK, sessionVars
<1>3. ASSUME NEW q \in Requests, Filter(q) \/ RequestNext(q) \/ CreateDb(q)
      PROVE  session' = session
  BY <1>3 DEF Filter, RequestNext, LookAt, NoMatch, Admit, AdmitMigration, MigrateOut, SubscribeMigration,
     CreateDb, sessionVars
<1>4. ASSUME NEW n \in Statuses, StatusArrives(n) \/ StatusNext(n)
      PROVE  session' = session
  BY <1>4 DEF StatusArrives, StatusNext, StatusLooksUp, StatusWrites, sessionVars
<1>5. ASSUME NEW w \in Waits, Ask(w) \/ WaitNext(w)
      PROVE  session' = session
  BY <1>5 DEF Ask, WaitNext, LookUp, SubscribeWait, Expire, sessionVars
<1>6. ASSUME NEW k \in Insts, NoticeRuns(k)
      PROVE  session' = session
  BY <1>6 DEF NoticeRuns, sessionVars
<1>7. UNCHANGED vars => session' = session
  BY DEF vars, sessionVars
<1> QED BY <1>1, <1>2, <1>3, <1>4, <1>5, <1>6, <1>7 DEF Next

\* db-instance.go:171, 205: an instance whose stream ended while a call waited for it
\* is locked out for good, however many streams and calls there are.
THEOREM LockOutsLast == Spec => LockedOutForGood
<1>1. Inv /\ [Next]_vars => [\A i \in Insts : LockedOut(i) => LockedOut(i)']_vars
  <2> SUFFICES ASSUME Inv, [Next]_vars, NEW i \in Insts, LockedOut(i) PROVE LockedOut(i)'
    OBVIOUS
  <2>1. PICK r \in Requests : Sends(r, i)
    BY DEF LockedOut
  <2>2. Sends(r, i)'
    BY <2>1, SenderStays DEF LockedOut
  <2>3. \A s \in Sessions : OfSession[s] = i => session'[s] # "serving"
    BY NobodyServes
  <2> QED BY <2>2, <2>3 DEF LockedOut
<1> QED BY <1>1, Invariance, PTL DEF Spec, LockedOutForGood

=============================================================================
