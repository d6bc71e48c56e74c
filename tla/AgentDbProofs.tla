---------------------------- MODULE AgentDbProofs ----------------------------
(***************************************************************************)
(* Theorems about AgentDb, for any jobs, owners and numbers of faults and  *)
(* crashes: the compare-and-set argument.  A handler decides by a row it   *)
(* has read; what it saw is still true whenever its write lands, because a *)
(* write takes the row from everybody else's fresh set.                    *)
(***************************************************************************)
EXTENDS AgentDb, SequenceTheorems, TLAPS

\* The database and its owner are there.
Created == server.database /\ row.owner \in server.users

\* Only the tasks with a command get as far as working.
Placed == \A t \in Tasks : pc[t] \in {"work", "finalDb"} => HasWork(t)

\* Nobody has seen a row that is not there.
Absent == ~row.exists => row.stage = "None" /\ fresh = {}

\* What a handler knows of the row it has seen, before and after MarkProcessing.
Sees(t) ==
  /\ ActionOf(t) = "create_user" => row.stage \in {"None", "CreateUser"}
  /\ ActionOf(t) = "create" => /\ row.owner = OwnerOf[t[1]]
                              /\ row.stage \in {"None", "CreateUser", "CreateDatabase"}
  /\ ActionOf(t) = "backup" => Created /\ row.stage \in {"CreateDatabase", "BackupDatabase"}
  /\ ActionOf(t) = "restore" => Created /\ row.stage \in {"CreateDatabase", "RestoreDatabase"}
  /\ ActionOf(t) \in {"wait_ready", "migrate_out"} => Created /\ row.status = "Done"

Seen == \A t \in fresh \cap Tasks : pc[t] \in {"mark", "work", "finalDb"} => Sees(t)

\* The handler of a migrate-out has seen a database that is ready.
Asked == \A j \in fresh \cap Jobs : handler[j] = "ready" => Created

\* A create task that did not fail has made the database.
Made ==
  \A t \in Tasks :
    pc[t] = "finalDb" /\ ActionOf(t) = "create" /\ t \notin failed
      => server.database /\ OwnerOf[t[1]] \in server.users

\* From CreateDatabase/Done on the row says that the database was created.
Means ==
  \/ row.stage \in {"BackupDatabase", "RestoreDatabase", "ReadyToUse", "Idle"}
  \/ row.stage = "CreateDatabase" /\ row.status = "Done"
  => Created

\* The inductive invariant.
IndInv ==
  TypeOK /\ Placed /\ Absent /\ Seen /\ Asked /\ Made /\ Means /\ ProcessingHasOwner

\* The rows of TypeOK.
Rows == [exists : BOOLEAN, stage : Stages, status : DbStatus,
         owner : Owners, lastJob : Jobs \cup {NoJob}]

-----------------------------------------------------------------------------
(* Lemmas *)

\* A task belongs to a job, and is not one.
LEMMA TaskOfJob == \A t \in Tasks : t[1] \in Jobs /\ t \notin Jobs /\ OwnerOf[t[1]] \in Owners
<1>1. SUFFICES ASSUME NEW t \in Tasks
               PROVE  t[1] \in Jobs /\ t \notin Jobs
  BY DEF Owners
<1>2. PICK j \in Jobs : t \in TasksOf(j)
  BY DEF Tasks
<1>3. t[1] = j
  BY <1>2 DEF TasksOf
<1> QED
  BY <1>3, JobsAssumption

\* A task has one of the six actions.
LEMMA ActionKnown == \A t \in Tasks : ActionOf(t) \in Actions
<1>1. \A m \in BOOLEAN, b \in BOOLEAN : CreatePlan(m, b) \in Seq(Actions)
  <2> SUFFICES ASSUME NEW m \in BOOLEAN, NEW b \in BOOLEAN
               PROVE  CreatePlan(m, b) \in Seq(Actions)
    OBVIOUS
  <2> DEFINE part1 == IF m THEN <<"backup">> ELSE <<>>
             part2 == IF m \/ b THEN <<"restore">> ELSE <<>>
  <2>1. /\ <<"create_user", "create">> \in Seq(Actions)
        /\ <<>> \in Seq(Actions)
        /\ <<"backup">> \in Seq(Actions)
        /\ <<"restore">> \in Seq(Actions)
        /\ <<"wait_ready">> \in Seq(Actions)
    BY DEF Actions
  <2>2. part1 \in Seq(Actions) /\ part2 \in Seq(Actions)
    BY <2>1
  <2> HIDE DEF part1, part2
  <2>3. <<"create_user", "create">> \o part1 \o part2 \o <<"wait_ready">> \in Seq(Actions)
    BY <2>1, <2>2, ConcatProperties
  <2> QED
    BY <2>3 DEF CreatePlan, part1, part2
<1>2. MigrateOutPlan \in Seq(Actions)
  BY DEF MigrateOutPlan, Actions
<1>3. SUFFICES ASSUME NEW j \in Jobs, NEW t \in TasksOf(j)
               PROVE  ActionOf(t) \in Actions
  BY DEF Tasks
<1>4. Plan[j] \in Seq(Actions)
  BY <1>1, <1>2, PlanAssumption
<1>5. t[1] = j /\ t[2] \in 1..Len(Plan[j])
  BY DEF TasksOf
<1> QED
  BY <1>4, <1>5, ElementOfSeq DEF ActionOf

\* What a handler asks of the row is what it needs to know of it.
LEMMA Admitted ==
  ASSUME Means, NEW t \in Tasks, Admits(t)
  PROVE  Sees(t)
<1> USE DEF Admits, ShouldBackup, CanRestore, IsReadyToUse, Means
<1>1. ActionOf(t) \in {"create_user", "create"} => Sees(t)
  BY DEF Sees
<1>2. ActionOf(t) = "backup" => Sees(t)
  BY DEF Sees
<1>3. ActionOf(t) = "restore" => Sees(t)
  BY DEF Sees
<1>4. ActionOf(t) \in {"wait_ready", "migrate_out"} => Sees(t)
  BY DEF Sees
<1> QED
  BY <1>1, <1>2, <1>3, <1>4 DEF Sees

\* A write lands, and takes the row from all others, or changes nothing.
LEMMA LandsOrNot ==
  ASSUME NEW p, NEW new, WriteOrLose(p, new)
  PROVE  \/ row' = row /\ fresh' = fresh
         \/ p \in fresh /\ row' = new /\ fresh' = {p}
BY DEF WriteOrLose, Write, dbVars

-----------------------------------------------------------------------------
(* Every step keeps the invariant *)

\* A create request: the row if there is none.
LEMMA CreateJobKeeps ==
  ASSUME IndInv, NEW j \in Jobs, CreateJob(j)
  PROVE  IndInv'
<1> USE TaskOfJob DEF IndInv, TypeOK, dbVars
<1>1. TypeOK'
  <2>1. OwnerOf[j] \in Owners
    BY DEF Owners
  <2>2. [row EXCEPT !.exists = TRUE, !.owner = OwnerOf[j]] \in Rows
    BY <2>1 DEF Rows
  <2> QED
    BY <2>2 DEF CreateJob, Rows, HandlerStep
<1>2. Placed'
  BY DEF CreateJob, Placed
<1>3. Absent'
  BY DEF CreateJob, Absent
<1>4. Seen'
  BY DEF CreateJob, Seen, Sees, Created, Absent
<1>5. Asked'
  BY DEF CreateJob, Asked, Created, Absent
<1>6. Made'
  BY DEF CreateJob, Made
<1>7. Means'
  BY DEF CreateJob, Means, Created, Absent
<1>8. ProcessingHasOwner'
  BY DEF CreateJob, ProcessingHasOwner, Absent
<1> QED
  BY <1>1, <1>2, <1>3, <1>4, <1>5, <1>6, <1>7, <1>8

\* A create request whose commit fails leaves the row alone.
LEMMA CreateJobUncommittedKeeps ==
  ASSUME IndInv, NEW j \in Jobs, CreateJobUncommitted(j)
  PROVE  IndInv'
<1> USE TaskOfJob DEF IndInv, TypeOK, dbVars
<1>1. TypeOK'
  BY DEF CreateJobUncommitted, Participants, HandlerStep
<1>2. Placed'
  BY DEF CreateJobUncommitted, Placed
<1>3. Absent'
  BY DEF CreateJobUncommitted, Absent
<1>4. Seen'
  BY DEF CreateJobUncommitted, Seen, Sees, Created
<1>5. Asked'
  BY DEF CreateJobUncommitted, Asked, Created
<1>6. Made'
  BY DEF CreateJobUncommitted, Made
<1>7. Means'
  BY DEF CreateJobUncommitted, Means, Created
<1>8. ProcessingHasOwner'
  BY DEF CreateJobUncommitted, ProcessingHasOwner
<1> QED
  BY <1>1, <1>2, <1>3, <1>4, <1>5, <1>6, <1>7, <1>8

\* A request that is dropped.
LEMMA JobDroppedKeeps ==
  ASSUME IndInv, NEW j \in Jobs, JobDropped(j)
  PROVE  IndInv'
<1> USE TaskOfJob DEF IndInv, TypeOK, dbVars
<1>1. TypeOK'
  BY DEF JobDropped, Participants, HandlerStep
<1>2. Placed'
  BY DEF JobDropped, Placed
<1>3. Absent'
  BY DEF JobDropped, Absent
<1>4. Seen'
  BY DEF JobDropped, Seen, Sees, Created
<1>5. Asked'
  BY DEF JobDropped, Asked, Created
<1>6. Made'
  BY DEF JobDropped, Made
<1>7. Means'
  BY DEF JobDropped, Means, Created
<1>8. ProcessingHasOwner'
  BY DEF JobDropped, ProcessingHasOwner
<1> QED
  BY <1>1, <1>2, <1>3, <1>4, <1>5, <1>6, <1>7, <1>8

\* A migrate-out request sees the row; what it sees of it is that it is ready.
LEMMA MigrateOutReadKeeps ==
  ASSUME IndInv, NEW j \in Jobs, MigrateOutRead(j)
  PROVE  IndInv'
<1> USE TaskOfJob DEF IndInv, TypeOK, dbVars
<1>1. TypeOK'
  BY DEF MigrateOutRead, Participants, HandlerStep
<1>2. Placed'
  BY DEF MigrateOutRead, Placed
<1>3. Absent'
  BY DEF MigrateOutRead, Absent
<1>4. Seen'
  BY DEF MigrateOutRead, Seen, Sees, Created
<1>5. Asked'
  BY DEF MigrateOutRead, IsReadyToUse, Asked, Created, Means
<1>6. Made'
  BY DEF MigrateOutRead, Made
<1>7. Means'
  BY DEF MigrateOutRead, Means, Created
<1>8. ProcessingHasOwner'
  BY DEF MigrateOutRead, ProcessingHasOwner
<1> QED
  BY <1>1, <1>2, <1>3, <1>4, <1>5, <1>6, <1>7, <1>8

\* Its write: a database that was ready was created.
LEMMA MigrateOutCommitKeeps ==
  ASSUME IndInv, NEW j \in Jobs, MigrateOutCommit(j)
  PROVE  IndInv'
<1>a. /\ row \in Rows /\ fresh \subseteq Participants /\ faults \subseteq Participants
      /\ handler \in [Jobs -> HandlerStep]
  BY DEF IndInv, TypeOK, Rows
<1>c. /\ handler[j] = "ready" /\ handler' = [handler EXCEPT ![j] = "sent"]
      /\ UNCHANGED <<agent, status, pc, failed, server, crashes>>
      /\ WriteOrLose(j, [row EXCEPT !.stage = "Idle", !.status = "Processing", !.lastJob = j])
  BY DEF MigrateOutCommit
<1>d. faults' \subseteq Participants
  BY <1>a, <1>c DEF WriteOrLose, Participants
\* The write lands: the handler has seen the row, and nobody else has then.
<1>e. \/ row' = row /\ fresh' = fresh
      \/ /\ j \in fresh /\ fresh' = {j} /\ row' \in Rows
         /\ row'.exists = row.exists /\ row'.owner = row.owner /\ row'.stage = "Idle"
  <2>1. CASE row' = row /\ fresh' = fresh
    BY <2>1
  <2>2. CASE /\ j \in fresh /\ fresh' = {j}
             /\ row' = [row EXCEPT !.stage = "Idle", !.status = "Processing", !.lastJob = j]
    <3>1. "Idle" \in Stages /\ "Processing" \in DbStatus
      BY DEF Stages, DbStatus
    <3> QED
      BY <1>a, <2>2, <3>1 DEF Rows
  <2> QED
    BY <1>c, <2>1, <2>2, LandsOrNot
<1>f. row' \in Rows /\ fresh' \subseteq Participants
  BY <1>a, <1>e DEF Participants
<1>1. TypeOK'
  <2>1. handler' \in [Jobs -> HandlerStep]
    BY <1>a, <1>c DEF HandlerStep
  <2> QED
    BY <1>c, <1>d, <1>f, <2>1 DEF IndInv, TypeOK, Rows
<1>2. Placed'
  BY <1>c DEF IndInv, Placed
<1>3. Absent'
  BY <1>e DEF IndInv, Absent
<1>4. Seen'
  <2>1. CASE row' = row /\ fresh' = fresh
    BY <1>c, <2>1 DEF IndInv, Seen, Sees, Created
  <2>2. CASE fresh' = {j}
    BY <2>2, TaskOfJob DEF Seen
  <2> QED
    BY <1>e, <2>1, <2>2
<1>5. Asked'
  <2> SUFFICES ASSUME NEW k \in fresh' \cap Jobs, handler'[k] = "ready"
               PROVE  Created'
    BY DEF Asked
  <2>1. k # j /\ handler[k] = "ready"
    BY <1>a, <1>c
  <2>2. row' = row /\ fresh' = fresh
    BY <1>e, <2>1
  <2> QED
    BY <1>c, <2>1, <2>2 DEF IndInv, Asked, Created
<1>6. Made'
  BY <1>c DEF IndInv, Made
<1>7. Means'
  <2>1. CASE row' = row
    BY <1>c, <2>1 DEF IndInv, Means, Created
  <2>2. CASE j \in fresh /\ row'.owner = row.owner
    BY <1>c, <2>2 DEF IndInv, Asked, Means, Created
  <2> QED
    BY <1>e, <2>1, <2>2
<1>8. ProcessingHasOwner'
  <2>1. CASE row' = row /\ fresh' = fresh
    <3>1. faults' # {} \/ faults' = faults
      BY <1>c DEF WriteOrLose
    <3>2. ProcessingHasOwner
      BY DEF IndInv
    <3> QED
      BY <1>c, <2>1, <3>1, <3>2 DEF ProcessingHasOwner
  <2>2. CASE row'.stage = "Idle"
    BY <2>2 DEF ProcessingHasOwner
  <2> QED
    BY <1>e, <2>1, <2>2
<1> QED
  BY <1>1, <1>2, <1>3, <1>4, <1>5, <1>6, <1>7, <1>8 DEF IndInv

\* Its task is lost, the row not changed.
LEMMA MigrateOutTasklessKeeps ==
  ASSUME IndInv, NEW j \in Jobs, MigrateOutTaskless(j)
  PROVE  IndInv'
<1> USE TaskOfJob DEF IndInv, TypeOK, dbVars
<1>1. TypeOK'
  BY DEF MigrateOutTaskless, Participants, TaskStep, HandlerStep
<1>2. Placed'
  BY DEF MigrateOutTaskless, Placed
<1>3. Absent'
  BY DEF MigrateOutTaskless, Absent
<1>4. Seen'
  BY DEF MigrateOutTaskless, Seen, Sees, Created
<1>5. Asked'
  BY DEF MigrateOutTaskless, Asked, Created
<1>6. Made'
  BY DEF MigrateOutTaskless, Made
<1>7. Means'
  BY DEF MigrateOutTaskless, Means, Created
<1>8. ProcessingHasOwner'
  BY DEF MigrateOutTaskless, ProcessingHasOwner
<1> QED
  BY <1>1, <1>2, <1>3, <1>4, <1>5, <1>6, <1>7, <1>8

\* A task starts, without a look at the row.
LEMMA StartTaskKeeps ==
  ASSUME IndInv, NEW t \in Tasks, StartTask(t)
  PROVE  IndInv'
<1> USE TaskOfJob DEF IndInv, TypeOK, dbVars
<1>1. TypeOK'
  BY DEF StartTask, TaskStatus, TaskStep
<1>2. Placed'
  BY DEF StartTask, Placed
<1>3. Absent'
  BY DEF StartTask, Absent
<1>4. Seen'
  BY DEF StartTask, Seen, Sees, Created
<1>5. Asked'
  BY DEF StartTask, Asked, Created
<1>6. Made'
  BY DEF StartTask, Made
<1>7. Means'
  BY DEF StartTask, Means, Created
<1>8. ProcessingHasOwner'
  BY DEF StartTask, CanStart, ProcessingHasOwner
<1> QED
  BY <1>1, <1>2, <1>3, <1>4, <1>5, <1>6, <1>7, <1>8

\* A task sees the row: it knows what it asked for (Admitted).
LEMMA ReadAdmittedKeeps ==
  ASSUME IndInv, NEW t \in Tasks, ReadAdmitted(t)
  PROVE  IndInv'
<1> USE TaskOfJob DEF IndInv, TypeOK, dbVars
<1>1. TypeOK'
  BY DEF ReadAdmitted, Participants, TaskStep
<1>2. Placed'
  BY DEF ReadAdmitted, Placed
<1>3. Absent'
  BY DEF ReadAdmitted, FindsRow, Absent
<1>4. Seen'
  <2>1. Sees(t)
    BY Admitted DEF ReadAdmitted
  <2> QED
    BY <2>1 DEF ReadAdmitted, Seen, Sees, Created
<1>5. Asked'
  BY DEF ReadAdmitted, Asked, Created
<1>6. Made'
  BY DEF ReadAdmitted, Made
<1>7. Means'
  BY DEF ReadAdmitted, Means, Created
<1>8. ProcessingHasOwner'
  BY DEF ReadAdmitted, ProcessingHasOwner
<1> QED
  BY <1>1, <1>2, <1>3, <1>4, <1>5, <1>6, <1>7, <1>8

\* A task that is refused.
LEMMA ReadRefusedKeeps ==
  ASSUME IndInv, NEW t \in Tasks, ReadRefused(t)
  PROVE  IndInv'
<1> USE TaskOfJob DEF IndInv, TypeOK, dbVars
<1>1. TypeOK'
  BY DEF ReadRefused, Participants, TaskStatus, TaskStep
<1>2. Placed'
  BY DEF ReadRefused, Placed
<1>3. Absent'
  BY DEF ReadRefused, Absent
<1>4. Seen'
  BY DEF ReadRefused, Seen, Sees, Created
<1>5. Asked'
  BY DEF ReadRefused, Asked, Created
<1>6. Made'
  BY DEF ReadRefused, Made
<1>7. Means'
  BY DEF ReadRefused, Means, Created
<1>8. ProcessingHasOwner'
  BY DEF ReadRefused, ProcessingHasOwner
<1> QED
  BY <1>1, <1>2, <1>3, <1>4, <1>5, <1>6, <1>7, <1>8

\* The first write of a task; only who has the row at hand can write, and nobody else
\* has it then.
LEMMA MarkProcessingKeeps ==
  ASSUME IndInv, NEW t \in Tasks, MarkProcessing(t)
  PROVE  IndInv'
<1>a. row \in Rows /\ fresh \subseteq Participants /\ faults \subseteq Participants
  BY DEF IndInv, TypeOK, Rows
<1>b. HasWork(t) /\ StageOf(t) \in Stages
  BY DEF MarkProcessing, HasWork, StageOf, Stages
<1>c. /\ pc[t] = "mark" /\ pc' = [pc EXCEPT ![t] = "work"]
      /\ status' = [status EXCEPT ![t] = "running"]
      /\ UNCHANGED <<agent, handler, failed, server, crashes>>
      /\ WriteOrLose(t, [row EXCEPT !.stage = StageOf(t), !.status = "Processing"])
  BY DEF MarkProcessing
<1>d. faults' \subseteq Participants
  BY <1>a, <1>c DEF WriteOrLose, Participants
\* The write lands: t has seen the row, and nobody else has then.
<1>e. \/ row' = row /\ fresh' = fresh
      \/ /\ t \in fresh /\ fresh' = {t} /\ row' \in Rows
         /\ row'.exists = row.exists /\ row'.owner = row.owner
         /\ row'.stage = StageOf(t) /\ row'.status = "Processing"
  <2>1. CASE row' = row /\ fresh' = fresh
    BY <2>1
  <2>2. CASE /\ t \in fresh /\ fresh' = {t}
             /\ row' = [row EXCEPT !.stage = StageOf(t), !.status = "Processing"]
    <3> DEFINE s == StageOf(t)
    <3>1. s \in Stages /\ "Processing" \in DbStatus
      BY <1>b DEF DbStatus
    <3>2. row' = [row EXCEPT !.stage = s, !.status = "Processing"]
      BY <2>2
    <3> HIDE DEF s
    <3>3. /\ row' \in Rows /\ row'.exists = row.exists /\ row'.owner = row.owner
          /\ row'.stage = s /\ row'.status = "Processing"
      BY <1>a, <3>1, <3>2 DEF Rows
    <3> QED
      BY <2>2, <3>3 DEF s
  <2> QED
    BY <1>c, <2>1, <2>2, LandsOrNot
<1>f. row' \in Rows /\ fresh' \subseteq Participants
  BY <1>a, <1>e DEF Participants
<1>g. t \in fresh => Sees(t)
  BY <1>c DEF IndInv, Seen
<1>p. pc \in [Tasks -> TaskStep] /\ status \in [Tasks -> TaskStatus] /\ failed \subseteq Tasks
  BY DEF IndInv, TypeOK
<1>1. TypeOK'
  <2>1. pc' \in [Tasks -> TaskStep] /\ status' \in [Tasks -> TaskStatus]
    BY <1>c, <1>p DEF TaskStep, TaskStatus
  <2> QED
    BY <1>c, <1>d, <1>f, <2>1 DEF IndInv, TypeOK, Rows
<1>2. Placed'
  BY <1>b, <1>c, <1>p DEF IndInv, HasWork, Placed
<1>3. Absent'
  BY <1>e DEF IndInv, Absent
<1>4. Seen'
  <2> SUFFICES ASSUME NEW u \in fresh' \cap Tasks, pc'[u] \in {"mark", "work", "finalDb"}
               PROVE  Sees(u)'
    BY DEF Seen
  <2>1. CASE row' = row /\ fresh' = fresh
    <3>1. pc[u] \in {"mark", "work", "finalDb"}
      BY <1>c, <1>p
    <3>2. Sees(u)
      BY <2>1, <3>1 DEF IndInv, Seen
    <3> QED
      BY <1>c, <2>1, <3>2 DEF Sees, Created
  <2>2. CASE /\ t \in fresh /\ fresh' = {t}
             /\ row'.owner = row.owner /\ row'.stage = StageOf(t)
    <3>1. u = t /\ Sees(t) /\ server' = server
      BY <1>c, <1>g, <2>2
    <3>2. CASE ActionOf(t) \in {"create_user", "create"}
      BY <2>2, <3>1, <3>2 DEF StageOf, Sees
    <3>3. CASE ActionOf(t) = "backup"
      BY <2>2, <3>1, <3>3 DEF StageOf, Sees, Created
    <3>4. CASE ActionOf(t) = "restore"
      BY <2>2, <3>1, <3>4 DEF StageOf, Sees, Created
    <3> QED
      BY <1>b, <3>2, <3>3, <3>4 DEF HasWork
  <2> QED
    BY <1>e, <2>1, <2>2
<1>5. Asked'
  <2>1. CASE row' = row /\ fresh' = fresh
    BY <1>c, <2>1 DEF IndInv, Asked, Created
  <2>2. CASE fresh' = {t}
    BY <2>2, TaskOfJob DEF Asked
  <2> QED
    BY <1>e, <2>1, <2>2
<1>6. Made'
  BY <1>c, <1>p DEF IndInv, Made
<1>7. Means'
  <2>1. CASE row' = row
    BY <1>c, <2>1 DEF IndInv, Means, Created
  <2>2. CASE /\ t \in fresh /\ row'.owner = row.owner
             /\ row'.stage = StageOf(t) /\ row'.status = "Processing"
    <3>1. CASE ActionOf(t) \in {"create_user", "create"}
      <4>1. row'.stage \in {"CreateUser", "CreateDatabase"}
        BY <2>2, <3>1 DEF StageOf
      <4> QED
        BY <2>2, <4>1 DEF Means
    <3>2. CASE ActionOf(t) \in {"backup", "restore"}
      <4>1. Created
        BY <1>g, <2>2, <3>2 DEF Sees
      <4> QED
        BY <1>c, <2>2, <4>1 DEF Means, Created
    <3> QED
      BY <1>b, <3>1, <3>2 DEF HasWork
  <2> QED
    BY <1>e, <2>1, <2>2
<1>8. ProcessingHasOwner'
  <2>1. CASE row' = row /\ fresh' = fresh
    <3>1. faults' # {} \/ faults' = faults
      BY <1>c DEF WriteOrLose
    <3>2. \A u \in Tasks : pc[u] \in {"work", "finalDb"} => pc'[u] = pc[u]
      BY <1>c, <1>p
    <3>3. ProcessingHasOwner
      BY DEF IndInv
    <3> QED
      BY <1>c, <2>1, <3>1, <3>2, <3>3 DEF ProcessingHasOwner
  <2>2. CASE t \in fresh /\ fresh' = {t}
    <3>1. pc'[t] = "work"
      BY <1>c, <1>p
    <3> QED
      BY <2>2, <3>1 DEF ProcessingHasOwner
  <2> QED
    BY <1>e, <2>1, <2>2
<1> QED
  BY <1>1, <1>2, <1>3, <1>4, <1>5, <1>6, <1>7, <1>8 DEF IndInv

\* The one write of wait_ready and migrate_out, which saw a database that was created.
LEMMA MarkFinalKeeps ==
  ASSUME IndInv, NEW t \in Tasks, MarkFinal(t)
  PROVE  IndInv'
<1>a. /\ row \in Rows /\ fresh \subseteq Participants /\ faults \subseteq Participants
      /\ pc \in [Tasks -> TaskStep]
  BY DEF IndInv, TypeOK, Rows
<1>b. ActionOf(t) \in {"wait_ready", "migrate_out"}
  BY ActionKnown DEF MarkFinal, HasWork, Actions
<1>c. /\ pc[t] = "mark" /\ pc' = [pc EXCEPT ![t] = "finalTask"]
      /\ UNCHANGED <<agent, handler, status, failed, server, crashes>>
      /\ \/ WriteOrLose(t, [row EXCEPT !.stage = "ReadyToUse"])
         \/ WriteOrLose(t, [row EXCEPT !.stage = "Idle", !.status = "Done"])
  BY DEF MarkFinal
<1>d. faults' \subseteq Participants
  BY <1>a, <1>c DEF WriteOrLose, Participants
<1>g. t \in fresh => Created /\ row.status = "Done"
  BY <1>b, <1>c DEF IndInv, Seen, Sees
\* The write lands: t has seen the row, and nobody else has then.
<1>e. \/ row' = row /\ fresh' = fresh
      \/ /\ t \in fresh /\ fresh' = {t} /\ row' \in Rows
         /\ row'.exists = row.exists /\ row'.owner = row.owner /\ row'.status = "Done"
  <2>1. CASE row' = row /\ fresh' = fresh
    BY <2>1
  <2>2. CASE t \in fresh /\ fresh' = {t} /\ row' = [row EXCEPT !.stage = "ReadyToUse"]
    <3>1. "ReadyToUse" \in Stages
      BY DEF Stages
    <3> QED
      BY <1>a, <1>g, <2>2, <3>1 DEF Rows
  <2>3. CASE t \in fresh /\ fresh' = {t} /\ row' = [row EXCEPT !.stage = "Idle", !.status = "Done"]
    <3>1. "Idle" \in Stages /\ "Done" \in DbStatus
      BY DEF Stages, DbStatus
    <3> QED
      BY <1>a, <2>3, <3>1 DEF Rows
  <2>4. CASE WriteOrLose(t, [row EXCEPT !.stage = "ReadyToUse"])
    BY <2>1, <2>2, <2>4, LandsOrNot
  <2>5. CASE WriteOrLose(t, [row EXCEPT !.stage = "Idle", !.status = "Done"])
    BY <2>1, <2>3, <2>5, LandsOrNot
  <2> QED
    BY <1>c, <2>4, <2>5
<1>f. row' \in Rows /\ fresh' \subseteq Participants
  BY <1>a, <1>e DEF Participants
<1>1. TypeOK'
  <2>1. pc' \in [Tasks -> TaskStep]
    BY <1>a, <1>c DEF TaskStep
  <2> QED
    BY <1>c, <1>d, <1>f, <2>1 DEF IndInv, TypeOK, Rows
<1>2. Placed'
  BY <1>a, <1>c DEF IndInv, HasWork, Placed
<1>3. Absent'
  BY <1>e DEF IndInv, Absent
<1>4. Seen'
  <2> SUFFICES ASSUME NEW u \in fresh' \cap Tasks, pc'[u] \in {"mark", "work", "finalDb"}
               PROVE  Sees(u)'
    BY DEF Seen
  <2>1. u # t /\ pc[u] \in {"mark", "work", "finalDb"}
    BY <1>a, <1>c
  <2>2. row' = row /\ fresh' = fresh
    BY <1>e, <2>1
  <2>3. Sees(u)
    BY <2>1, <2>2 DEF IndInv, Seen
  <2> QED
    BY <1>c, <2>2, <2>3 DEF Sees, Created
<1>5. Asked'
  <2>1. CASE row' = row /\ fresh' = fresh
    BY <1>c, <2>1 DEF IndInv, Asked, Created
  <2>2. CASE fresh' = {t}
    BY <2>2, TaskOfJob DEF Asked
  <2> QED
    BY <1>e, <2>1, <2>2
<1>6. Made'
  BY <1>a, <1>c DEF IndInv, Made
<1>7. Means'
  <2>1. CASE row' = row
    BY <1>c, <2>1 DEF IndInv, Means, Created
  <2>2. CASE t \in fresh /\ row'.owner = row.owner
    BY <1>c, <1>g, <2>2 DEF Means, Created
  <2> QED
    BY <1>e, <2>1, <2>2
<1>8. ProcessingHasOwner'
  <2>1. CASE row' = row /\ fresh' = fresh
    <3>1. faults' # {} \/ faults' = faults
      BY <1>c DEF WriteOrLose
    <3>2. \A u \in Tasks : pc[u] \in {"work", "finalDb"} => pc'[u] = pc[u]
      BY <1>a, <1>c
    <3>3. ProcessingHasOwner
      BY DEF IndInv
    <3> QED
      BY <1>c, <2>1, <3>1, <3>2, <3>3 DEF ProcessingHasOwner
  <2>2. CASE row'.status = "Done"
    BY <2>2 DEF ProcessingHasOwner
  <2> QED
    BY <1>e, <2>1, <2>2
<1> QED
  BY <1>1, <1>2, <1>3, <1>4, <1>5, <1>6, <1>7, <1>8 DEF IndInv

\* A command makes things, and unmakes nothing.
LEMMA WorkKeeps ==
  ASSUME IndInv, NEW t \in Tasks, Work(t)
  PROVE  IndInv'
<1> USE TaskOfJob DEF IndInv, TypeOK, dbVars
<1>1. TypeOK'
  <2>1. pc' \in [Tasks -> TaskStep]
    BY DEF Work, TaskStep
  <2>2. server' \in [users : SUBSET Owners, database : BOOLEAN, dumps : SUBSET Jobs]
    <3>1. t[1] \in Jobs /\ OwnerOf[t[1]] \in Owners /\ server' = Commanded(t)
      BY DEF Work
    <3>2. CASE ActionOf(t) = "create_user"
      BY <3>1, <3>2 DEF Commanded
    <3>3. CASE ActionOf(t) = "create"
      BY <3>1, <3>3 DEF Commanded
    <3>4. CASE ActionOf(t) = "backup"
      BY <3>1, <3>4 DEF Commanded
    <3>5. CASE ActionOf(t) \notin {"create_user", "create", "backup"}
      BY <3>1, <3>5 DEF Commanded
    <3> QED
      BY <3>2, <3>3, <3>4, <3>5
  <2> QED
    BY <2>1, <2>2 DEF Work
<1>2. Placed'
  BY DEF Work, HasWork, Placed
<1>3. Absent'
  BY DEF Work, Absent
<1>4. Seen'
  BY DEF Work, Commanded, HasWork, Seen, Sees, Created
<1>5. Asked'
  BY DEF Work, Commanded, Asked, Created
<1>6. Made'
  BY DEF Work, CommandPossible, Commanded, Made
<1>7. Means'
  BY DEF Work, Commanded, HasWork, Means, Created
<1>8. ProcessingHasOwner'
  BY DEF Work, ProcessingHasOwner
<1> QED
  BY <1>1, <1>2, <1>3, <1>4, <1>5, <1>6, <1>7, <1>8

\* A command that fails leaves everything as it was.
LEMMA WorkFailsKeeps ==
  ASSUME IndInv, NEW t \in Tasks, WorkFails(t)
  PROVE  IndInv'
<1> USE TaskOfJob DEF IndInv, TypeOK, dbVars
<1>1. TypeOK'
  BY DEF WorkFails, Participants, TaskStep
<1>2. Placed'
  BY DEF WorkFails, Placed
<1>3. Absent'
  BY DEF WorkFails, Absent
<1>4. Seen'
  BY DEF WorkFails, Seen, Sees, Created
<1>5. Asked'
  BY DEF WorkFails, Asked, Created
<1>6. Made'
  BY DEF WorkFails, Made
<1>7. Means'
  BY DEF WorkFails, Means, Created
<1>8. ProcessingHasOwner'
  BY DEF WorkFails, ProcessingHasOwner
<1> QED
  BY <1>1, <1>2, <1>3, <1>4, <1>5, <1>6, <1>7, <1>8

\* The last write of a task; Made and Seen say that Done means created.
LEMMA FinalDbKeeps ==
  ASSUME IndInv, NEW t \in Tasks, FinalDb(t)
  PROVE  IndInv'
<1> DEFINE final == IF t \in failed THEN "Failed" ELSE "Done"
<1>a. /\ row \in Rows /\ fresh \subseteq Participants /\ faults \subseteq Participants
      /\ pc \in [Tasks -> TaskStep]
  BY DEF IndInv, TypeOK, Rows
<1>b. HasWork(t) /\ StageOf(t) \in Stages
  BY DEF IndInv, FinalDb, Placed, HasWork, StageOf, Stages
<1>c. /\ pc[t] = "finalDb" /\ pc' = [pc EXCEPT ![t] = "finalTask"]
      /\ UNCHANGED <<agent, handler, status, failed, server, crashes>>
      /\ WriteOrLose(t, [row EXCEPT !.stage = StageOf(t), !.status = final])
  BY DEF FinalDb
<1>d. faults' \subseteq Participants
  BY <1>a, <1>c DEF WriteOrLose, Participants
\* The write lands: t has seen the row, and nobody else has then.
<1>e. \/ row' = row /\ fresh' = fresh
      \/ /\ t \in fresh /\ fresh' = {t} /\ row' \in Rows
         /\ row'.exists = row.exists /\ row'.owner = row.owner
         /\ row'.stage = StageOf(t) /\ row'.status = final
  <2>1. CASE row' = row /\ fresh' = fresh
    BY <2>1
  <2>2. CASE /\ t \in fresh /\ fresh' = {t}
             /\ row' = [row EXCEPT !.stage = StageOf(t), !.status = final]
    <3> DEFINE s == StageOf(t)
    <3>1. s \in Stages /\ final \in DbStatus
      BY <1>b DEF DbStatus
    <3>2. row' = [row EXCEPT !.stage = s, !.status = final]
      BY <2>2
    <3> HIDE DEF s, final
    <3>3. /\ row' \in Rows /\ row'.exists = row.exists /\ row'.owner = row.owner
          /\ row'.stage = s /\ row'.status = final
      BY <1>a, <3>1, <3>2 DEF Rows
    <3> QED
      BY <2>2, <3>3 DEF s
  <2> HIDE DEF final
  <2> QED
    BY <1>c, <2>1, <2>2, LandsOrNot
<1>f. row' \in Rows /\ fresh' \subseteq Participants
  BY <1>a, <1>e DEF Participants
<1>g. t \in fresh => Sees(t)
  BY <1>c DEF IndInv, Seen
<1>1. TypeOK'
  <2>1. pc' \in [Tasks -> TaskStep]
    BY <1>a, <1>c DEF TaskStep
  <2> QED
    BY <1>c, <1>d, <1>f, <2>1 DEF IndInv, TypeOK, Rows
<1>2. Placed'
  BY <1>a, <1>c DEF IndInv, HasWork, Placed
<1>3. Absent'
  BY <1>e DEF IndInv, Absent
<1>4. Seen'
  <2> SUFFICES ASSUME NEW u \in fresh' \cap Tasks, pc'[u] \in {"mark", "work", "finalDb"}
               PROVE  Sees(u)'
    BY DEF Seen
  <2>1. u # t /\ pc[u] \in {"mark", "work", "finalDb"}
    BY <1>a, <1>c
  <2>2. row' = row /\ fresh' = fresh
    BY <1>e, <2>1
  <2>3. Sees(u)
    BY <2>1, <2>2 DEF IndInv, Seen
  <2> QED
    BY <1>c, <2>2, <2>3 DEF Sees, Created
<1>5. Asked'
  <2>1. CASE row' = row /\ fresh' = fresh
    BY <1>c, <2>1 DEF IndInv, Asked, Created
  <2>2. CASE fresh' = {t}
    BY <2>2, TaskOfJob DEF Asked
  <2> QED
    BY <1>e, <2>1, <2>2
<1>6. Made'
  BY <1>a, <1>c DEF IndInv, Made
<1>7. Means'
  <2>1. CASE row' = row
    BY <1>c, <2>1 DEF IndInv, Means, Created
  <2>2. CASE /\ t \in fresh /\ row'.owner = row.owner
             /\ row'.stage = StageOf(t) /\ row'.status = final
    <3>1. CASE ActionOf(t) = "create_user"
      <4>1. row'.stage = "CreateUser"
        BY <2>2, <3>1 DEF StageOf
      <4> QED
        BY <4>1 DEF Means
    <3>2. CASE ActionOf(t) = "create"
      <4>1. row'.stage = "CreateDatabase" /\ row.owner = OwnerOf[t[1]]
        BY <1>g, <2>2, <3>2 DEF StageOf, Sees
      <4>2. row'.status = "Done" => t \notin failed
        BY <2>2
      <4>3. t \notin failed => Created
        BY <1>c, <3>2, <4>1 DEF IndInv, Made, Created
      <4> QED
        BY <1>c, <2>2, <4>1, <4>2, <4>3 DEF Means, Created
    <3>3. CASE ActionOf(t) \in {"backup", "restore"}
      <4>1. Created
        BY <1>g, <2>2, <3>3 DEF Sees
      <4> QED
        BY <1>c, <2>2, <4>1 DEF Means, Created
    <3> QED
      BY <1>b, <3>1, <3>2, <3>3 DEF HasWork
  <2> QED
    BY <1>e, <2>1, <2>2
<1>8. ProcessingHasOwner'
  <2>1. CASE t \notin fresh /\ row' = row /\ fresh' = fresh
    <3>1. faults' # {} \/ faults' = faults
      BY <1>c DEF WriteOrLose
    <3>2. \A u \in Tasks : u # t => pc'[u] = pc[u]
      BY <1>a, <1>c
    <3>3. ProcessingHasOwner
      BY DEF IndInv
    <3> QED
      BY <1>c, <2>1, <3>1, <3>2, <3>3 DEF ProcessingHasOwner
  <2>2. CASE row'.status = final
    BY <2>2 DEF ProcessingHasOwner
  <2>3. CASE faults' # {}
    BY <2>3 DEF ProcessingHasOwner
  <2> HIDE DEF final
  \* Who has the row at hand writes it or meets a fault.
  <2>4. \/ t \notin fresh /\ row' = row /\ fresh' = fresh
        \/ row' = [row EXCEPT !.stage = StageOf(t), !.status = final]
        \/ faults' # {}
    BY <1>c DEF WriteOrLose, Write, dbVars
  <2>5. row' = [row EXCEPT !.stage = StageOf(t), !.status = final] => row'.status = final
    BY <1>a DEF Rows
  <2> QED
    BY <2>1, <2>2, <2>3, <2>4, <2>5
<1> QED
  BY <1>1, <1>2, <1>3, <1>4, <1>5, <1>6, <1>7, <1>8 DEF IndInv

\* The end of a task.
LEMMA FinalTaskKeeps ==
  ASSUME IndInv, NEW t \in Tasks, FinalTask(t)
  PROVE  IndInv'
<1> USE TaskOfJob DEF IndInv, TypeOK, dbVars
<1>1. TypeOK'
  BY DEF FinalTask, TaskStatus, TaskStep
<1>2. Placed'
  BY DEF FinalTask, Placed
<1>3. Absent'
  BY DEF FinalTask, Absent
<1>4. Seen'
  BY DEF FinalTask, Seen, Sees, Created
<1>5. Asked'
  BY DEF FinalTask, Asked, Created
<1>6. Made'
  BY DEF FinalTask, Made
<1>7. Means'
  BY DEF FinalTask, Means, Created
<1>8. ProcessingHasOwner'
  BY DEF FinalTask, ProcessingHasOwner
<1> QED
  BY <1>1, <1>2, <1>3, <1>4, <1>5, <1>6, <1>7, <1>8

\* A crash: nobody has seen the row any more.
LEMMA CrashKeeps ==
  ASSUME IndInv, Crash
  PROVE  IndInv'
<1> USE TaskOfJob DEF IndInv, TypeOK, dbVars
<1>1. TypeOK'
  <2>1. pc' \in [Tasks -> TaskStep] /\ handler' \in [Jobs -> HandlerStep]
    BY DEF Crash, TaskStep, HandlerStep
  <2>2. crashes' \in 0..MaxCrashes
    BY BoundsAssumption DEF Crash
  <2> QED
    BY <2>1, <2>2 DEF Crash
<1>2. Placed'
  BY DEF Crash, Placed
<1>3. Absent'
  BY DEF Crash, Absent
<1>4. Seen'
  BY DEF Crash, Seen
<1>5. Asked'
  BY DEF Crash, Asked
<1>6. Made'
  BY DEF Crash, Made
<1>7. Means'
  BY DEF Crash, Means, Created
<1>8. ProcessingHasOwner'
  BY BoundsAssumption DEF Crash, ProcessingHasOwner
<1> QED
  BY <1>1, <1>2, <1>3, <1>4, <1>5, <1>6, <1>7, <1>8

\* A restart, which changes only whether the agent is up, and a stuttering step.
LEMMA RestartKeeps ==
  ASSUME IndInv, Restart \/ UNCHANGED vars
  PROVE  IndInv'
<1>1. /\ UNCHANGED <<dbVars, handler, status, pc, failed, server, faults, crashes>>
      /\ agent' \in {"up", "down", "hung"}
  BY DEF Restart, vars, IndInv, TypeOK
<1>2. TypeOK'
  BY <1>1 DEF IndInv, TypeOK, dbVars
<1>3. Placed' /\ Absent' /\ Made' /\ Means' /\ Asked'
  BY <1>1 DEF IndInv, Placed, Absent, Made, Means, Asked, Created, dbVars
<1>4. Seen'
  BY <1>1 DEF IndInv, Seen, Sees, Created, dbVars
<1>5. ProcessingHasOwner'
  BY <1>1 DEF IndInv, ProcessingHasOwner, dbVars
<1> QED
  BY <1>2, <1>3, <1>4, <1>5 DEF IndInv

-----------------------------------------------------------------------------
(* Theorems *)

\* The inductive invariant holds in every reachable state.
THEOREM Invariance == Spec => []IndInv
<1>1. Init => IndInv
  <2> SUFFICES ASSUME Init PROVE IndInv
    OBVIOUS
  <2>1. TypeOK
    <3>1. (CHOOSE o \in Owners : TRUE) \in Owners
      BY JobsAssumption DEF Owners
    <3> QED
      BY <3>1, BoundsAssumption DEF Init, TypeOK, Stages, DbStatus, HandlerStep, TaskStatus, TaskStep
  <2> QED
    BY <2>1 DEF Init, IndInv, Placed, Absent, Seen, Asked, Made, Means, ProcessingHasOwner
<1>2. IndInv /\ [Next]_vars => IndInv'
  <2> SUFFICES ASSUME IndInv, [Next]_vars PROVE IndInv'
    OBVIOUS
  <2>1. ASSUME NEW j \in Jobs, GrpcHandlerNext(j) PROVE IndInv'
    BY <2>1, CreateJobKeeps, CreateJobUncommittedKeeps, JobDroppedKeeps,
       MigrateOutReadKeeps, MigrateOutCommitKeeps, MigrateOutTasklessKeeps
       DEF GrpcHandlerNext
  <2>2. ASSUME NEW t \in Tasks, TaskNext(t) PROVE IndInv'
    BY <2>2, StartTaskKeeps, ReadAdmittedKeeps, ReadRefusedKeeps, MarkProcessingKeeps,
       MarkFinalKeeps, WorkKeeps, WorkFailsKeeps, FinalDbKeeps, FinalTaskKeeps
       DEF TaskNext
  <2> QED
    BY <2>1, <2>2, CrashKeeps, RestartKeeps DEF Next
<1> QED
  BY <1>1, <1>2, PTL DEF Spec

\* The state of the agent, of its database and of PostgreSQL is well formed.
THEOREM TypeCorrect == Spec => []TypeOK
<1>1. IndInv => TypeOK
  BY DEF IndInv
<1> QED
  BY <1>1, Invariance, PTL

\* db_utils.go, task_wait_ready.go: a row that says ready to use, or on its
\* way out, is the row of a database that was created, and of its owner.
THEOREM ReadyAlwaysCreated == Spec => []ReadyMeansCreated
<1>1. IndInv => ReadyMeansCreated
  BY DEF IndInv, Means, Created, ReadyMeansCreated
<1> QED
  BY <1>1, Invariance, PTL

\* handler.go: a row in Processing has a task that will write its end, unless
\* the agent crashed or a write was lost.
THEOREM ProcessingOwned == Spec => []ProcessingHasOwner
<1>1. IndInv => ProcessingHasOwner
  BY DEF IndInv
<1> QED
  BY <1>1, Invariance, PTL

\* What ReadyStays says of a step.
ReadyStep == IsReadyToUse => IsReadyToUse' \/ row'.stage = "Idle"

\* The steps of a task: whoever has seen the row before it was ready to use
\* finds it taken away.
LEMMA TaskKeepsReady ==
  ASSUME IndInv, NEW t \in Tasks, TaskNext(t)
  PROVE  ReadyStep
<1> USE DEF ReadyStep, IsReadyToUse
<1>1. CASE UNCHANGED row
  BY <1>1
<1>2. CASE MarkProcessing(t) \/ FinalDb(t)
  <2>1. HasWork(t) /\ (t \in fresh => Sees(t))
    BY <1>2 DEF MarkProcessing, FinalDb, IndInv, Placed, Seen
  <2>2. t \in fresh => ~IsReadyToUse
    BY <2>1 DEF HasWork, Sees
  <2>3. t \notin fresh => UNCHANGED row
    BY <1>2 DEF MarkProcessing, FinalDb, WriteOrLose, Write, dbVars
  <2> QED
    BY <2>2, <2>3
<1>3. CASE MarkFinal(t)
  BY <1>3 DEF MarkFinal, WriteOrLose, Write, dbVars, IndInv, TypeOK
<1> QED
  BY <1>1, <1>2, <1>3
     DEF TaskNext, StartTask, ReadAdmitted, ReadRefused, Work, WorkFails, FinalTask, dbVars

\* dbs.sql, SetDbStatus: once a database is ready to use only a migrate-out
\* changes its row; a handler that read the row earlier cannot write it back.
ReadyStays ==
  [][IsReadyToUse => IsReadyToUse' \/ row'.stage = "Idle"]_vars

\* dbs.sql, SetDbStatus: a database that is ready to use stays so until a
\* migrate-out, whoever read its row before.
THEOREM ReadyRemains == Spec => ReadyStays
<1>1. IndInv /\ [Next]_vars => ReadyStep
  <2> SUFFICES ASSUME IndInv, [Next]_vars PROVE ReadyStep
    OBVIOUS
  <2>1. ASSUME NEW j \in Jobs, GrpcHandlerNext(j) PROVE ReadyStep
    <3>1. CASE UNCHANGED row
      BY <3>1 DEF ReadyStep, IsReadyToUse
    <3>2. CASE CreateJob(j)
      BY <3>2 DEF CreateJob, IndInv, Absent, ReadyStep, IsReadyToUse
    <3>3. CASE MigrateOutCommit(j)
      BY <3>3 DEF MigrateOutCommit, WriteOrLose, Write, dbVars, IndInv, TypeOK, ReadyStep, IsReadyToUse
    <3> QED
      BY <2>1, <3>1, <3>2, <3>3
         DEF GrpcHandlerNext, CreateJobUncommitted, JobDropped, MigrateOutRead, MigrateOutTaskless, dbVars
  <2>2. CASE Crash \/ Restart \/ UNCHANGED vars
    BY <2>2 DEF Crash, Restart, vars, dbVars, ReadyStep, IsReadyToUse
  <2> QED
    BY <2>1, <2>2, TaskKeepsReady DEF Next
<1>2. IndInv /\ [Next]_vars => [ReadyStep]_vars
  BY <1>1
<1> QED
  BY <1>2, Invariance, PTL DEF Spec, ReadyStays, ReadyStep
-----------------------------------------------------------------------------
(* The life of the database *)

\* What a handler has decided by the row still holds when it writes the row.
Decided ==
  /\ \A t \in fresh \cap Tasks : pc[t] = "mark" => Admits(t)
  /\ \A j \in fresh \cap Jobs : handler[j] = "ready" => IsReadyToUse

NobodyDecides ==
  /\ \A t \in fresh \cap Tasks : pc[t] # "mark"
  /\ \A j \in fresh \cap Jobs : handler[j] # "ready"

WorkStages == {"CreateUser", "CreateDatabase", "BackupDatabase", "RestoreDatabase"}

\* How a step writes the row, if it does: a job enters it, a task works on the
\* database, or has found it ready, or it leaves.
Written ==
  \/ row.stage = "None" /\ row'.stage = "None" /\ row'.status = row.status
  \/ row.stage \in WorkStages \cup {"None"} /\ row'.stage \in WorkStages
  \/ CanRestore /\ row'.stage = "ReadyToUse" /\ row'.status = "Done"
  \/ IsReadyToUse /\ row'.stage = "Idle"

\* A step that leaves the row alone, and decides by what is there.
LetAlone ==
  /\ row' = row
  /\ \A t \in fresh' \cap Tasks :
       pc'[t] = "mark" => Admits(t) \/ (t \in fresh /\ pc[t] = "mark")
  /\ \A j \in Jobs :
       handler'[j] = "ready" =>
         IF handler[j] = "ready" THEN j \in fresh' <=> j \in fresh
                                 ELSE j \in fresh' /\ IsReadyToUse

\* The steps of the gRPC handlers.
LEMMA HandlerWrites ==
  ASSUME IndInv, Decided, NEW j \in Jobs, GrpcHandlerNext(j)
  PROVE  LetAlone \/ (Written /\ NobodyDecides')
<1> USE TaskOfJob DEF IndInv, TypeOK
<1>1. CASE CreateJob(j)
  <2>1. CASE row.exists
    BY <1>1, <2>1 DEF CreateJob, LetAlone
  <2>2. CASE ~row.exists
    <3>1. fresh' = {} /\ row.stage = "None" /\ row'.stage = "None" /\ row'.status = row.status
      BY <1>1, <2>2 DEF CreateJob, Absent
    <3> QED
      BY <3>1 DEF Written, NobodyDecides
  <2> QED
    BY <2>1, <2>2
<1>2. CASE MigrateOutRead(j)
  BY <1>2 DEF MigrateOutRead, LetAlone
<1>3. CASE MigrateOutCommit(j)
  <2>1. CASE UNCHANGED dbVars
    BY <1>3, <2>1 DEF MigrateOutCommit, LetAlone, dbVars
  <2>2. CASE j \in fresh /\ row'.stage = "Idle" /\ fresh' = {j}
    <3>1. IsReadyToUse
      BY <1>3, <2>2 DEF MigrateOutCommit, Decided
    <3>2. NobodyDecides'
      BY <1>3, <2>2 DEF MigrateOutCommit, NobodyDecides
    <3> QED
      BY <2>2, <3>1, <3>2 DEF Written
  <2> QED
    BY <1>3, <2>1, <2>2 DEF MigrateOutCommit, WriteOrLose, Write
<1>4. CASE CreateJobUncommitted(j) \/ JobDropped(j) \/ MigrateOutTaskless(j)
  BY <1>4 DEF CreateJobUncommitted, JobDropped, MigrateOutTaskless, LetAlone, dbVars
<1> QED
  BY <1>1, <1>2, <1>3, <1>4 DEF GrpcHandlerNext

\* The steps of the tasks.
LEMMA TaskWrites ==
  ASSUME IndInv, Decided, NEW t \in Tasks, TaskNext(t)
  PROVE  LetAlone \/ (Written /\ NobodyDecides')
<1> USE TaskOfJob DEF IndInv, TypeOK
<1>1. CASE StartTask(t) \/ ReadRefused(t) \/ Work(t) \/ WorkFails(t) \/ FinalTask(t)
  BY <1>1 DEF StartTask, ReadRefused, Work, WorkFails, FinalTask, LetAlone, dbVars
<1>2. CASE ReadAdmitted(t)
  BY <1>2 DEF ReadAdmitted, LetAlone
<1>3. CASE MarkProcessing(t) \/ FinalDb(t)
  <2>1. HasWork(t) /\ pc[t] \in {"mark", "work", "finalDb"}
    BY <1>3 DEF MarkProcessing, FinalDb, Placed
  <2>2. CASE UNCHANGED dbVars
    BY <1>3, <2>2 DEF MarkProcessing, FinalDb, LetAlone, dbVars
  <2>3. CASE t \in fresh /\ row'.stage = StageOf(t) /\ fresh' = {t}
    <3>1. Sees(t)
      BY <2>1, <2>3 DEF Seen
    <3>2. row.stage \in WorkStages \cup {"None"} /\ row'.stage \in WorkStages
      BY <2>1, <2>3, <3>1 DEF HasWork, Sees, StageOf, WorkStages
    <3>3. NobodyDecides'
      BY <1>3, <2>3 DEF MarkProcessing, FinalDb, NobodyDecides
    <3> QED
      BY <3>2, <3>3 DEF Written
  <2> QED
    BY <1>3, <2>2, <2>3 DEF MarkProcessing, FinalDb, WriteOrLose, Write
<1>4. CASE MarkFinal(t)
  <2>1. ActionOf(t) \in {"wait_ready", "migrate_out"}
    BY <1>4, ActionKnown DEF MarkFinal, HasWork, Actions
  <2>2. CASE UNCHANGED dbVars
    BY <1>4, <2>2 DEF MarkFinal, LetAlone, dbVars
  <2>3. CASE /\ ActionOf(t) = "wait_ready"
             /\ t \in fresh /\ fresh' = {t} /\ row' = [row EXCEPT !.stage = "ReadyToUse"]
    <3>1. CanRestore
      BY <1>4, <2>3 DEF MarkFinal, Decided, Admits
    <3>2. NobodyDecides'
      BY <1>4, <2>3 DEF MarkFinal, NobodyDecides
    <3> QED
      BY <2>3, <3>1, <3>2 DEF Written, CanRestore
  <2>4. CASE /\ ActionOf(t) = "migrate_out"
             /\ t \in fresh /\ fresh' = {t}
             /\ row' = [row EXCEPT !.stage = "Idle", !.status = "Done"]
    <3>1. IsReadyToUse
      BY <1>4, <2>4 DEF MarkFinal, Decided, Admits
    <3>2. NobodyDecides'
      BY <1>4, <2>4 DEF MarkFinal, NobodyDecides
    <3> QED
      BY <2>4, <3>1, <3>2 DEF Written
  <2> QED
    BY <1>4, <2>1, <2>2, <2>3, <2>4 DEF MarkFinal, WriteOrLose, Write
<1> QED
  BY <1>1, <1>2, <1>3, <1>4 DEF TaskNext

\* Every step.
LEMMA StepWrites ==
  ASSUME IndInv, Decided, [Next]_vars
  PROVE  LetAlone \/ (Written /\ NobodyDecides')
<1>1. CASE Crash
  BY <1>1 DEF Crash, LetAlone
<1>2. CASE Restart \/ UNCHANGED vars
  BY <1>2 DEF Restart, vars, dbVars, LetAlone
<1> QED
  BY <1>1, <1>2, HandlerWrites, TaskWrites DEF Next

\* Whoever decides does so by the row that is there.
LEMMA DecidedNext ==
  ASSUME IndInv, Decided, [Next]_vars
  PROVE  Decided'
<1>1. CASE NobodyDecides'
  BY <1>1 DEF NobodyDecides, Decided
<1>2. CASE LetAlone
  <2>1. /\ IsReadyToUse' = IsReadyToUse
        /\ \A t \in Tasks : Admits(t)' = Admits(t)
    BY <1>2 DEF LetAlone, Admits, ShouldBackup, CanRestore, IsReadyToUse
  <2> QED
    BY <1>2, <2>1 DEF LetAlone, Decided
<1> QED
  BY <1>1, <1>2, StepWrites

\* A step is one of the life of the database, or none.
LEMMA LifeStep ==
  ASSUME TypeOK, TypeOK', LetAlone \/ Written
  PROVE  [Life!Next]_LifeOf
<1> USE DEF IsReadyToUse, TypeOK, Stages, DbStatus
<1>1. CASE UNCHANGED row \/ (row.stage = "None" /\ row'.stage = "None" /\ row'.status = row.status)
  BY <1>1 DEF LifeOf
<1>2. CASE row.stage \in WorkStages \cup {"None"} /\ row'.stage \in WorkStages
  <2>1. LifeOf \in {"none", "working", "failed"} /\ LifeOf' \in {"working", "failed"}
    BY <1>2 DEF LifeOf, WorkStages
  <2> QED
    BY <2>1 DEF Life!Next, Life!Begin, Life!Fail, Life!Move
<1>3. CASE CanRestore /\ row'.stage = "ReadyToUse" /\ row'.status = "Done"
  <2>1. LifeOf = "working" /\ LifeOf' = "ready"
    BY <1>3 DEF CanRestore, LifeOf
  <2> QED
    BY <2>1 DEF Life!Next, Life!Succeed, Life!Move
<1>4. CASE IsReadyToUse /\ row'.stage = "Idle"
  <2>1. LifeOf = "ready" /\ LifeOf' \in {"leaving", "idle"}
    BY <1>4 DEF LifeOf
  <2> QED
    BY <2>1 DEF Life!Next, Life!Leave, Life!Left, Life!Move
<1> QED
  BY <1>1, <1>2, <1>3, <1>4 DEF LetAlone, Written

\* Decided holds in every reachable state.
LEMMA AlwaysDecided == Spec => []Decided
<1>1. Init => Decided
  BY DEF Init, Decided
<1>2. IndInv /\ Decided /\ [Next]_vars => Decided'
  BY DecidedNext
<1> QED
  BY <1>1, <1>2, Invariance, PTL DEF Spec

\* db_utils.go, db_task: the jobs of a database, its faults and crashes take it
\* through the life that DbLife describes.
THEOREM AgentImplementsDbLife == Spec => ImplementsDbLife
<1>1. Init => Life!Init
  BY DEF Init, LifeOf, IsReadyToUse, Life!Init
<1>2. IndInv /\ IndInv' /\ Decided /\ [Next]_vars => [Life!Next]_LifeOf
  BY StepWrites, LifeStep DEF IndInv
<1> QED
  BY <1>1, <1>2, Invariance, AlwaysDecided, PTL DEF Spec, ImplementsDbLife, Life!Spec

-----------------------------------------------------------------------------
(* A migrate-out ends only by a fault *)

\* A task that was begun is one of a job that was sent.
Begun ==
  \A t \in Tasks : pc[t] \in {"read", "mark"} => handler[t[1]] \in {"sent", "unrooted"}

\* A migrate-out job that was sent found its database ready and moved it to Idle.
Migrating ==
  \A j \in Jobs :
    /\ handler[j] = "unrooted" => ~IsMigrateOut(j)
    /\ handler[j] = "ready" => (j \in fresh /\ IsReadyToUse) \/ row.stage = "Idle"
    /\ IsMigrateOut(j) /\ handler[j] = "sent" => row.stage = "Idle" \/ j \in faults

MigrationInv == Begun /\ Migrating /\ IdleByFault

\* The migrate_out task belongs to a migrate-out job.
LEMMA MigrateOutTask == \A t \in Tasks : ActionOf(t) = "migrate_out" => IsMigrateOut(t[1])
<1> DEFINE Other == Actions \ {"migrate_out"}
<1>1. \A m \in BOOLEAN, b \in BOOLEAN : CreatePlan(m, b) \in Seq(Other)
  <2> SUFFICES ASSUME NEW m \in BOOLEAN, NEW b \in BOOLEAN
               PROVE  CreatePlan(m, b) \in Seq(Other)
    OBVIOUS
  <2> DEFINE part1 == IF m THEN <<"backup">> ELSE <<>>
             part2 == IF m \/ b THEN <<"restore">> ELSE <<>>
  <2>1. /\ <<"create_user", "create">> \in Seq(Other)
        /\ <<>> \in Seq(Other)
        /\ <<"backup">> \in Seq(Other)
        /\ <<"restore">> \in Seq(Other)
        /\ <<"wait_ready">> \in Seq(Other)
    BY DEF Actions
  <2>2. part1 \in Seq(Other) /\ part2 \in Seq(Other)
    BY <2>1
  <2> HIDE DEF part1, part2, Other
  <2>3. <<"create_user", "create">> \o part1 \o part2 \o <<"wait_ready">> \in Seq(Other)
    BY <2>1, <2>2, ConcatProperties
  <2> QED
    BY <2>3 DEF CreatePlan, part1, part2
<1>2. SUFFICES ASSUME NEW j \in Jobs, NEW t \in TasksOf(j), ~IsMigrateOut(j)
               PROVE  ActionOf(t) # "migrate_out" /\ t[1] = j
  BY TaskOfJob DEF Tasks, TasksOf
<1>3. Plan[j] \in Seq(Other)
  BY <1>1, <1>2, PlanAssumption DEF IsMigrateOut
<1>4. t[1] = j /\ t[2] \in 1..Len(Plan[j])
  BY DEF TasksOf
<1>5. Plan[j][t[2]] \in Other
  <2> HIDE DEF Other
  <2> QED
    BY <1>3, <1>4, ElementOfSeq
<1> QED
  BY <1>4, <1>5 DEF ActionOf

\* A fault that was met is not forgotten; a database that is idle, or ready, stays
\* so, or becomes idle.
LEMMA IdleRemains ==
  ASSUME IndInv, Decided, [Next]_vars
  PROVE  /\ faults \subseteq faults'
         /\ row.stage = "Idle" => row'.stage = "Idle"
<1>1. faults \subseteq faults'
  <2>1. ASSUME NEW j \in Jobs, GrpcHandlerNext(j) PROVE faults \subseteq faults'
    BY <2>1 DEF GrpcHandlerNext, CreateJob, CreateJobUncommitted, JobDropped, MigrateOutRead,
           MigrateOutCommit, MigrateOutTaskless, WriteOrLose
  <2>2. ASSUME NEW t \in Tasks, MarkProcessing(t) \/ MarkFinal(t) \/ FinalDb(t)
        PROVE  faults \subseteq faults'
    BY <2>2 DEF MarkProcessing, MarkFinal, FinalDb, WriteOrLose
  <2>3. ASSUME NEW t \in Tasks, TaskNext(t) PROVE faults \subseteq faults'
    BY <2>2, <2>3 DEF TaskNext, StartTask, ReadAdmitted, ReadRefused, Work, WorkFails, FinalTask
  <2> QED
    BY <2>1, <2>3 DEF Next, Crash, Restart, vars
<1>2. row.stage = "Idle" => row'.stage = "Idle"
  BY StepWrites DEF LetAlone, Written, WorkStages, CanRestore, IsReadyToUse
<1> QED
  BY <1>1, <1>2

\* Tasks begin when their job was sent.
LEMMA BegunNext ==
  ASSUME IndInv, Begun, [Next]_vars
  PROVE  Begun'
<1> USE TaskOfJob DEF IndInv, TypeOK, Begun
<1>1. ASSUME NEW j \in Jobs, GrpcHandlerNext(j) PROVE Begun'
  BY <1>1 DEF GrpcHandlerNext, CreateJob, CreateJobUncommitted, JobDropped, MigrateOutRead,
         MigrateOutCommit, MigrateOutTaskless
<1>2. ASSUME NEW t \in Tasks, TaskNext(t) PROVE Begun'
  BY <1>2 DEF TaskNext, CanStart, StartTask, ReadAdmitted, ReadRefused, MarkProcessing, MarkFinal,
         Work, WorkFails, FinalDb, FinalTask
<1>3. CASE Crash \/ Restart \/ UNCHANGED vars
  BY <1>3 DEF Crash, Restart, vars
<1> QED
  BY <1>1, <1>2, <1>3 DEF Next

\* The handler of a job moves by its own steps, or dies in a crash.
LEMMA HandlerMoves ==
  ASSUME IndInv, [Next]_vars, NEW j \in Jobs
  PROVE  GrpcHandlerNext(j) \/ handler'[j] \in {handler[j], "declined"}
<1> USE DEF IndInv, TypeOK
<1>1. ASSUME NEW k \in Jobs, GrpcHandlerNext(k), k # j PROVE handler'[j] = handler[j]
  BY <1>1 DEF GrpcHandlerNext, CreateJob, CreateJobUncommitted, JobDropped, MigrateOutRead,
         MigrateOutCommit, MigrateOutTaskless
<1>2. ASSUME NEW t \in Tasks, TaskNext(t) PROVE handler' = handler
  BY <1>2 DEF TaskNext, StartTask, ReadAdmitted, ReadRefused, MarkProcessing, MarkFinal, Work,
         WorkFails, FinalDb, FinalTask
<1>3. CASE Crash \/ Restart \/ UNCHANGED vars
  BY <1>3 DEF Crash, Restart, vars
<1> QED
  BY <1>1, <1>2, <1>3 DEF Next

\* A handler that was answered "ready" has the row at hand until it is idle, and
\* makes it so unless its write is lost.
LEMMA MigratingNext ==
  ASSUME IndInv, Decided, Migrating, [Next]_vars
  PROVE  Migrating'
<1> SUFFICES ASSUME NEW j \in Jobs
             PROVE  /\ handler'[j] = "unrooted" => ~IsMigrateOut(j)
                    /\ handler'[j] = "ready" => (j \in fresh' /\ IsReadyToUse') \/ row'.stage = "Idle"
                    /\ IsMigrateOut(j) /\ handler'[j] = "sent" => row'.stage = "Idle" \/ j \in faults'
  BY DEF Migrating
<1> USE DEF IndInv, TypeOK
<1>1. \/ handler'[j] \in {handler[j], "declined"}
      \/ CreateJob(j) \/ CreateJobUncommitted(j) \/ MigrateOutRead(j) \/ MigrateOutCommit(j)
      \/ MigrateOutTaskless(j)
  BY HandlerMoves DEF GrpcHandlerNext, JobDropped
<1>2. handler'[j] = "unrooted" => ~IsMigrateOut(j)
  BY <1>1
     DEF Migrating, CreateJob, CreateJobUncommitted, MigrateOutRead, MigrateOutCommit, MigrateOutTaskless
<1>3. ASSUME handler'[j] = "ready" PROVE (j \in fresh' /\ IsReadyToUse') \/ row'.stage = "Idle"
  <2>1. CASE row.stage = "Idle"
    BY <2>1, IdleRemains
  <2>2. CASE row.stage # "Idle" /\ LetAlone
    BY <1>3, <2>2 DEF LetAlone, Migrating, IsReadyToUse
  <2>3. CASE row.stage # "Idle" /\ Written /\ handler[j] = "ready"
    <3>1. IsReadyToUse
      BY <2>3 DEF Migrating
    <3> QED
      BY <2>3, <3>1 DEF Written, WorkStages, CanRestore, IsReadyToUse
  <2>4. CASE MigrateOutRead(j)
    BY <1>3, <2>4 DEF MigrateOutRead, IsReadyToUse
  <2>5. handler[j] = "ready" \/ MigrateOutRead(j)
    BY <1>1, <1>3
       DEF CreateJob, CreateJobUncommitted, MigrateOutCommit, MigrateOutTaskless
  <2> QED
    BY <2>1, <2>2, <2>3, <2>4, <2>5, StepWrites
<1>4. ASSUME IsMigrateOut(j), handler'[j] = "sent" PROVE row'.stage = "Idle" \/ j \in faults'
  <2>1. CASE handler[j] = "sent"
    BY <1>4, <2>1, IdleRemains DEF Migrating
  <2>2. CASE MigrateOutTaskless(j)
    BY <2>2 DEF MigrateOutTaskless
  <2>3. CASE MigrateOutCommit(j)
    <3>1. row.stage = "Idle" \/ j \in fresh
      BY <2>3 DEF MigrateOutCommit, Migrating
    <3> QED
      BY <2>3, <3>1, IdleRemains DEF MigrateOutCommit, WriteOrLose, Write
  <2> QED
    BY <1>1, <1>4, <2>1, <2>2, <2>3 DEF CreateJob, CreateJobUncommitted, MigrateOutRead
<1> QED
  BY <1>2, <1>3, <1>4

\* Only the task of a migrate-out writes Idle and Done, and only if it still finds
\* the database ready.
LEMMA IdleByFaultNext ==
  ASSUME IndInv, Decided, MigrationInv, [Next]_vars
  PROVE  IdleByFault'
<1> USE TaskOfJob DEF IndInv, TypeOK
<1> SUFFICES ASSUME row' # row, row'.stage = "Idle", row'.status = "Done"
             PROVE  \E j \in Jobs : IsMigrateOut(j) /\ j \in faults'
  BY IdleRemains DEF IdleByFault, MigrationInv
<1>1. PICK t \in Tasks : MarkFinal(t)
  <2>1. ASSUME NEW j \in Jobs, CreateJob(j) PROVE FALSE
    BY <2>1 DEF CreateJob, Absent
  <2>2. ASSUME NEW j \in Jobs, MigrateOutCommit(j) PROVE FALSE
    BY <2>2 DEF MigrateOutCommit, WriteOrLose, Write, dbVars
  <2>3. ASSUME NEW j \in Jobs, GrpcHandlerNext(j) PROVE FALSE
    BY <2>1, <2>2, <2>3
       DEF GrpcHandlerNext, CreateJobUncommitted, JobDropped, MigrateOutRead, MigrateOutTaskless, dbVars
  <2>4. ASSUME NEW t \in Tasks, MarkProcessing(t) \/ FinalDb(t) PROVE FALSE
    <3>1. HasWork(t) /\ \E d : WriteOrLose(t, [row EXCEPT !.stage = StageOf(t), !.status = d])
      BY <2>4 DEF MarkProcessing, FinalDb, Placed
    <3>2. PICK s, d : s = StageOf(t) /\ WriteOrLose(t, [row EXCEPT !.stage = s, !.status = d])
      BY <3>1
    <3>3. row' = [row EXCEPT !.stage = s, !.status = d]
      BY <3>2, LandsOrNot
    <3>4. row'.stage = StageOf(t)
      BY <3>2, <3>3
    <3> QED
      BY <3>1, <3>4 DEF HasWork, StageOf
  <2>5. ASSUME NEW t \in Tasks, TaskNext(t) PROVE MarkFinal(t)
    BY <2>4, <2>5
       DEF TaskNext, StartTask, ReadAdmitted, ReadRefused, Work, WorkFails, FinalTask, dbVars
  <2> QED
    BY <2>3, <2>5 DEF Next, Crash, Restart, vars, dbVars
<1>2. t \in fresh /\ pc[t] = "mark" /\ ActionOf(t) = "migrate_out"
  BY <1>1, ActionKnown DEF MarkFinal, HasWork, Actions, WriteOrLose, Write, dbVars
<1>3. IsReadyToUse
  BY <1>2 DEF Decided, Admits
<1>4. handler[t[1]] \in {"sent", "unrooted"} /\ IsMigrateOut(t[1])
  BY <1>2, MigrateOutTask DEF MigrationInv, Begun
<1>5. t[1] \in Jobs /\ t[1] \in faults
  BY <1>3, <1>4 DEF MigrationInv, Migrating, IsReadyToUse
<1> QED
  BY <1>4, <1>5, IdleRemains

\* task_migrate_out.go:35 and job_migrate_out.go:95: whatever jobs come together,
\* a database gets to Idle and Done only after the handler of a migrate-out failed.
THEOREM MigrationsNeverEnd == Spec => []IdleByFault
<1>1. Init => MigrationInv
  BY DEF Init, MigrationInv, Begun, Migrating, IdleByFault
<1>2. IndInv /\ Decided /\ MigrationInv /\ [Next]_vars => MigrationInv'
  BY BegunNext, MigratingNext, IdleByFaultNext DEF MigrationInv
<1>3. MigrationInv => IdleByFault
  BY DEF MigrationInv
<1> QED
  BY <1>1, <1>2, <1>3, Invariance, AlwaysDecided, PTL DEF Spec

=============================================================================
