------------------------------ MODULE TaskOrder ------------------------------
(***************************************************************************)
(* What the agent promises about the tasks of its jobs, whatever queues    *)
(* they travel through: a task is given to a worker at most once, and only *)
(* when every task it depends on has ended; no more than MaxRunning tasks  *)
(* run at a time; a task that has ended stays ended.  A task given to a    *)
(* worker may end without running (it was refused or cancelled).           *)
(*                                                                         *)
(* AgentJobs.tla is shown to implement this specification.                 *)
(***************************************************************************)
EXTENDS Naturals

CONSTANTS
  Tasks,
  DependsOn(_),  \* the tasks that must have ended before a task is given out
  MaxRunning

VARIABLES
  phase,    \* how far each task has come
  running   \* how many tasks run

orderVars == <<phase, running>>

Init ==
  /\ phase = [t \in Tasks |-> "waiting"]
  /\ running = 0

Advance(t, from, to) ==
  /\ phase[t] \in from
  /\ phase' = [phase EXCEPT ![t] = to]

Give(t) ==
  /\ \A d \in DependsOn(t) : phase[d] = "ended"
  /\ Advance(t, {"waiting"}, "given")
  /\ UNCHANGED running

Run(t) ==
  /\ running < MaxRunning
  /\ Advance(t, {"given"}, "running")
  /\ running' = running + 1

End(t) ==
  /\ Advance(t, {"running"}, "ended")
  /\ running' = running - 1

EndUnrun(t) ==
  /\ Advance(t, {"given"}, "ended")
  /\ UNCHANGED running

Next == \E t \in Tasks : Give(t) \/ Run(t) \/ End(t) \/ EndUnrun(t)

Spec == Init /\ [][Next]_orderVars

=============================================================================
