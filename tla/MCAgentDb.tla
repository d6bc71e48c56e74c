----------------------------- MODULE MCAgentDb ------------------------------
EXTENDS AgentDb

CONSTANTS j1, j2, j3, alice

Create == CreatePlan(FALSE, FALSE)
Restore == CreatePlan(FALSE, TRUE)
Migrate == CreatePlan(TRUE, FALSE)

\* A create job that migrates, one from a backup, and a migrate-out.
MixedPlan == [j \in {j1, j2, j3} |->
                CASE j = j1 -> Migrate [] j = j2 -> Restore [] j = j3 -> MigrateOutPlan]
OneOwner == [j \in {j1, j2, j3} |-> alice]

CreateAndMigrateOutPlan == [j \in {j1, j3} |-> IF j = j1 THEN Create ELSE MigrateOutPlan]
=============================================================================
