----------------------------- MODULE DbInstance -----------------------------
(***************************************************************************)
(* One PostgreSQL instance as the server sees it: the Register streams its *)
(* agent opens one after the other (svc_register.go), the calls of         *)
(* CreateDb and MigrateOut that want to send it a job, and what they share *)
(* (db-instance.go): the Online flag, dbLock, the unbuffered DbJobChan and *)
(* nonSentDbJob, the job a broken stream could not send.                   *)
(*                                                                         *)
(* The agent opens a stream when it found the one before broken; the       *)
(* server may find that out later, so that the handlers of two streams can *)
(* overlap.  A call keeps dbLock while it waits for a stream to take its   *)
(* job; everything else takes dbLock for a moment only.                    *)
(***************************************************************************)
EXTENDS Naturals

CONSTANTS
  Sessions,  \* streams the agent opens during a run
  Calls,     \* calls of CreateDb or MigrateOut, each with a job of its own
  NoJob      \* nil

ASSUME NoJobAssumption == NoJob \notin Calls

VARIABLES
  stream,     \* the connection of each session, seen from the agent
  session,    \* where the Register handler of each session is
  holds,      \* the job each session is about to send
  online,     \* DbInstance.Online
  nonSent,    \* DbInstance.nonSentDbJob
  call,       \* where each call is
  received,   \* history: how often the agent received each job
  dropped,    \* history: jobs sent into a broken stream without an error
  overlapped  \* history: two Register handlers ran at a time

sessionVars == <<stream, session, holds, online, nonSent>>
history == <<received, dropped, overlapped>>
vars == <<sessionVars, call, history>>

SessionStep == {"idle", "registering", "online", "notifyUp", "resend", "clear",
                "serving", "forward", "leaving", "notifyDown", "ended"}
CallStep == {"idle", "offline", "admitted", "unneeded", "sending", "sent"}

TypeOK ==
  /\ stream \in [Sessions -> {"none", "up", "down"}]
  /\ session \in [Sessions -> SessionStep]
  /\ holds \in [Sessions -> Calls \cup {NoJob}]
  /\ \A s \in Sessions : holds[s] # NoJob <=> session[s] \in {"clear", "forward"}
  /\ online \in BOOLEAN
  /\ nonSent \in Calls \cup {NoJob}
  /\ call \in [Calls -> CallStep]
  /\ received \in [Calls -> Nat]
  /\ dropped \subseteq Calls
  /\ overlapped \in BOOLEAN

Init ==
  /\ stream = [s \in Sessions |-> "none"]
  /\ session = [s \in Sessions |-> "idle"]
  /\ holds = [s \in Sessions |-> NoJob]
  /\ online = FALSE
  /\ nonSent = NoJob
  /\ call = [c \in Calls |-> "idle"]
  /\ received = [c \in Calls |-> 0]
  /\ dropped = {}
  /\ overlapped = FALSE

\* dbLock is free: nobody waits in Send with it.
LockFree == \A c \in Calls : call[c] # "sending"

\* A Register handler that has not returned.
InHandler(s) == session[s] \notin {"idle", "ended"}

Move(s, from, to) ==
  /\ session[s] = from
  /\ session' = [session EXCEPT ![s] = to]

-----------------------------------------------------------------------------
(* Slips of the code below, each one refuted by a property *)

\* A job that was sent is sent again with the next one.
ForwardHoldsOn(s) ==
  /\ Move(s, "forward", "serving")
  /\ received' = [received EXCEPT ![holds[s]] = @ + 1]
  /\ UNCHANGED <<stream, holds, online, nonSent, call, dropped, overlapped>>

\* nonSentDbJob is not set to nil.
ClearNonSentNot(s) ==
  /\ Move(s, "clear", "serving")
  /\ holds' = [holds EXCEPT ![s] = NoJob]
  /\ UNCHANGED <<stream, online, nonSent, call, history>>

\* Online is not reset when the stream ends.
GoOfflineNot(s) ==
  /\ Move(s, "leaving", "notifyDown")
  /\ UNCHANGED <<stream, holds, online, nonSent, call, history>>

\* Online is not set for a stream that finds a job left over.
GoOnlineIfNothingLeft(s) ==
  /\ Move(s, "online", "notifyUp")
  /\ online' = (nonSent = NoJob)
  /\ UNCHANGED <<stream, holds, nonSent, call, history>>

\* The job of a failed send is not kept.
ForwardFailsForgets(s) ==
  /\ stream[s] = "down"
  /\ Move(s, "forward", "leaving")
  /\ holds' = [holds EXCEPT ![s] = NoJob]
  /\ UNCHANGED <<stream, online, nonSent, call, history>>

\* No new job is taken while one is left over.
TakeJobIfNothingLeft(s, c) ==
  /\ call[c] = "sending"
  /\ nonSent = NoJob
  /\ Move(s, "serving", "forward")
  /\ call' = [call EXCEPT ![c] = "sent"]
  /\ holds' = [holds EXCEPT ![s] = c]
  /\ UNCHANGED <<stream, online, nonSent, history>>

-----------------------------------------------------------------------------
(* The agent and the network *)

\* registerService: the agent has one stream at a time.
Connect(s) ==
  /\ session[s] = "idle"
  /\ \A r \in Sessions : stream[r] # "up"
  /\ stream' = [stream EXCEPT ![s] = "up"]
  /\ session' = [session EXCEPT ![s] = "registering"]
  /\ overlapped' = (overlapped \/ \E r \in Sessions : InHandler(r))
  /\ UNCHANGED <<holds, online, nonSent, call, received, dropped>>

Break(s) ==
  /\ stream[s] = "up"
  /\ stream' = [stream EXCEPT ![s] = "down"]
  /\ UNCHANGED <<session, holds, online, nonSent, call, history>>

-----------------------------------------------------------------------------
(* Register *)

\* UpdateDatabases takes dbLock for the databases the agent reported.
UpdateDatabases(s) ==
  /\ LockFree
  /\ Move(s, "registering", "online")
  /\ UNCHANGED <<stream, holds, online, nonSent, call, history>>

GoOnline(s) ==
  /\ Move(s, "online", "notifyUp")
  /\ online' = TRUE
  /\ UNCHANGED <<stream, holds, nonSent, call, history>>

\* InstSubscriber.OnStatusChanged: StatusResponse takes dbLock.
NotifyUp(s) ==
  /\ LockFree
  /\ Move(s, "notifyUp", "resend")
  /\ UNCHANGED <<stream, holds, online, nonSent, call, history>>

\* ServeDbJob: nothing is left over from an earlier stream.
ResendNothing(s) ==
  /\ nonSent = NoJob
  /\ Move(s, "resend", "serving")
  /\ UNCHANGED <<stream, holds, online, nonSent, call, history>>

\* A send on a stream that broke may still return nil: it only fills a buffer.
Sent(s, c) ==
  IF stream[s] = "up"
    THEN received' = [received EXCEPT ![c] = @ + 1] /\ UNCHANGED dropped
    ELSE dropped' = dropped \cup {c} /\ UNCHANGED received

Resend(s) ==
  /\ nonSent # NoJob
  /\ Move(s, "resend", "clear")
  /\ Sent(s, nonSent)
  /\ holds' = [holds EXCEPT ![s] = nonSent]
  /\ UNCHANGED <<stream, online, nonSent, call, overlapped>>

ResendFails(s) ==
  /\ nonSent # NoJob
  /\ stream[s] = "down"
  /\ Move(s, "resend", "leaving")
  /\ UNCHANGED <<stream, holds, online, nonSent, call, history>>

\* a.nonSentDbJob = nil, whatever it is by now.
ClearNonSent(s) ==
  /\ Move(s, "clear", "serving")
  /\ nonSent' = NoJob
  /\ holds' = [holds EXCEPT ![s] = NoJob]
  /\ UNCHANGED <<stream, online, call, history>>

\* job := <-a.DbJobChan meets a sender, who returns and releases dbLock.
TakeJob(s, c) ==
  /\ call[c] = "sending"
  /\ Move(s, "serving", "forward")
  /\ call' = [call EXCEPT ![c] = "sent"]
  /\ holds' = [holds EXCEPT ![s] = c]
  /\ UNCHANGED <<stream, online, nonSent, history>>

Forward(s) ==
  /\ Move(s, "forward", "serving")
  /\ Sent(s, holds[s])
  /\ holds' = [holds EXCEPT ![s] = NoJob]
  /\ UNCHANGED <<stream, online, nonSent, call, overlapped>>

ForwardFails(s) ==
  /\ stream[s] = "down"
  /\ Move(s, "forward", "leaving")
  /\ nonSent' = holds[s]
  /\ holds' = [holds EXCEPT ![s] = NoJob]
  /\ UNCHANGED <<stream, online, call, history>>

\* s.Context().Done()
StreamDone(s) ==
  /\ stream[s] = "down"
  /\ Move(s, "serving", "leaving")
  /\ UNCHANGED <<stream, holds, online, nonSent, call, history>>

GoOffline(s) ==
  /\ Move(s, "leaving", "notifyDown")
  /\ online' = FALSE
  /\ UNCHANGED <<stream, holds, nonSent, call, history>>

NotifyDown(s) ==
  /\ LockFree
  /\ Move(s, "notifyDown", "ended")
  /\ UNCHANGED <<stream, holds, online, nonSent, call, history>>

-----------------------------------------------------------------------------
(* DbInstanceManager.CreateDb, then DbInstance.CreateDb or MigrateOut *)

\* The Online flag is read without a lock; ErrInstanceOffline if it is not set.
Admit(c) ==
  /\ call[c] = "idle"
  /\ call' = [call EXCEPT ![c] = IF online THEN "admitted" ELSE "offline"]
  /\ UNCHANGED <<sessionVars, history>>

\* dbLock is taken; whether the database needs a job is its status to say.
LockAndSend(c) ==
  /\ call[c] = "admitted"
  /\ LockFree
  /\ \E step \in {"sending", "unneeded"} : call' = [call EXCEPT ![c] = step]
  /\ UNCHANGED <<sessionVars, history>>

-----------------------------------------------------------------------------
RegisterNext(s) ==
  \/ UpdateDatabases(s)
  \/ GoOnline(s)
  \/ NotifyUp(s)
  \/ ResendNothing(s)
  \/ Resend(s)
  \/ ResendFails(s)
  \/ ClearNonSent(s)
  \/ \E c \in Calls : TakeJob(s, c)
  \/ Forward(s)
  \/ ForwardFails(s)
  \/ StreamDone(s)
  \/ GoOffline(s)
  \/ NotifyDown(s)

Next ==
  \/ \E s \in Sessions : Connect(s) \/ Break(s) \/ RegisterNext(s)
  \/ \E c \in Calls : Admit(c) \/ LockAndSend(c)

Spec == Init /\ [][Next]_vars

\* The server's goroutines that can run are run, a broken stream is found out
\* in the end (keepalive), and an agent without a stream opens another, as
\* long as the model has sessions left.  Nothing obliges a stream to break or
\* anybody to call.
Fairness ==
  /\ \A s \in Sessions : WF_vars(RegisterNext(s))
  /\ WF_vars(\E s \in Sessions : Connect(s))
  /\ \A c \in Calls : WF_vars(LockAndSend(c))

FairSpec == Spec /\ Fairness

-----------------------------------------------------------------------------
(* Properties *)

\* A Register handler between the two changes of the Online flag.
Serves(s) ==
  session[s] \in {"notifyUp", "resend", "clear", "serving", "forward", "leaving"}

\* svc_register.go:44-52: an instance is online only while a Register handler
\* serves it or is about to: the flag never outlives the last stream, however
\* streams break and overlap.
OnlineIsServed ==
  online => \E s \in Sessions : Serves(s)

\* svc_register.go:46-51: where handlers did not overlap, an instance that can
\* take jobs is known to be online.
ServedIsOnline ==
  ~overlapped /\ (\E s \in Sessions : Serves(s))
    => online

\* db-instance.go:102-133: where handlers did not overlap, the resending of
\* nonSentDbJob gives the agent no job twice.
ReceivedOnce == ~overlapped => \A c \in Calls : received[c] <= 1

\* db-instance.go:102-133: a job whose Send returned reached the agent, went
\* into a broken stream unnoticed, or is kept to be sent again.
NoJobForgotten ==
  ~overlapped =>
    \A c \in Calls :
      call[c] = "sent" => \/ received[c] > 0
                          \/ c \in dropped
                          \/ nonSent = c
                          \/ \E s \in Sessions : holds[s] = c

\* The inductive core of the proofs: as long as Register handlers did not
\* overlap there is at most one of them, online is its doing, a job is on one
\* place of its way only, and nonSentDbJob is set to nil after it was resent.
OneHandler ==
  /\ \A r, s \in Sessions : InHandler(r) /\ InHandler(s) => r = s
  /\ \A s \in Sessions : Serves(s) => online

JobPlaced(c) ==
  /\ received[c] <= 1
  /\ call[c] # "sent" =>
       received[c] = 0 /\ nonSent # c /\ \A s \in Sessions : holds[s] # c
  /\ nonSent = c /\ received[c] # 0 => \E s \in Sessions : session[s] = "clear"
  /\ \A s \in Sessions : session[s] = "forward" /\ holds[s] = c => received[c] = 0

LeftOver ==
  \A s \in Sessions :
    /\ session[s] = "clear" =>
         holds[s] = nonSent /\ (received[nonSent] > 0 \/ nonSent \in dropped)
    /\ session[s] \in {"serving", "forward"} => nonSent = NoJob

\* The inductive invariant of the proofs.
IndInv ==
  /\ TypeOK
  /\ OnlineIsServed
  /\ ~overlapped => /\ OneHandler
                    /\ LeftOver
                    /\ \A c \in Calls : JobPlaced(c)
                    /\ NoJobForgotten

\* A call waits with dbLock for a stream, and every stream that could take its
\* job waits for dbLock.
LockedOut ==
  /\ ~LockFree
  /\ \A s \in Sessions : session[s] \notin {"resend", "clear", "serving", "forward"}

\* db-instance.go:135-137: a call that waits in Send is served and returns,
\* unless the instance is locked up.
SendReturns ==
  \A c \in Calls : call[c] = "sending" ~> call[c] = "sent" \/ LockedOut

=============================================================================
