---------------------------- MODULE MCAgentJobs -----------------------------
(* Jobs that differ in length, in the connections their tasks keep and in   *)
(* the task they can be refused at.                                         *)
EXTENDS AgentJobs, TLC

CONSTANTS j1, j2, j3, j4

Create == CreatePlan(FALSE, FALSE)
Restore == CreatePlan(FALSE, TRUE)

\* Two create jobs, one of them from a backup.
TwoCreatesPlan == [j \in {j1, j2} |-> IF j = j1 THEN Create ELSE Restore]

\* The agent's defaults, with as many create jobs as workers.
FourCreatesPlan == [j \in {j1, j2, j3, j4} |-> Create]
EqualJobsAndWorkers == Permutations(Jobs) \cup Permutations(Workers)
=============================================================================
