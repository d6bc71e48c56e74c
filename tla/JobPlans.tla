------------------------------ MODULE JobPlans ------------------------------
(***************************************************************************)
(* The jobs of the agent and the tasks they are made of, as the gRPC       *)
(* handlers create them (internal/handler/grpc_agent).                     *)
(***************************************************************************)
EXTENDS Naturals, Sequences

CONSTANTS
  Jobs,  \* jobs the server sends during a run of the agent
  Plan   \* the actions of the tasks of each job, in order

Actions == {"create_user", "create", "backup", "restore", "wait_ready", "migrate_out"}

\* job_create_database.go: the tasks of a create job, by whether it migrates
\* the database from another instance or restores it from a backup.
CreatePlan(migrateFrom, backupPath) ==
  <<"create_user", "create">>
    \o (IF migrateFrom THEN <<"backup">> ELSE <<>>)
    \o (IF migrateFrom \/ backupPath THEN <<"restore">> ELSE <<>>)
    \o <<"wait_ready">>

\* job_migrate_out.go: a migrate-out job has one task.
MigrateOutPlan == <<"migrate_out">>

ASSUME PlanAssumption ==
  Plan \in [Jobs -> {CreatePlan(m, b) : m \in BOOLEAN, b \in BOOLEAN}
                      \cup {MigrateOutPlan}]

\* Task number i of job j is <<j, i>>.
TasksOf(j) == {j} \X (1..Len(Plan[j]))
Tasks == UNION {TasksOf(j) : j \in Jobs}
ActionOf(t) == Plan[t[1]][t[2]]

\* A job is not one of the pairs that stand for tasks.
ASSUME JobsAssumption == Jobs # {} /\ Jobs \cap Tasks = {}

\* Each task of a job depends on the one before it.
DependsOn(t) == IF t[2] = 1 THEN {} ELSE {<<t[1], t[2] - 1>>}

=============================================================================
