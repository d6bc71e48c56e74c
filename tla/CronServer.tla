----------------------------- MODULE CronServer -----------------------------
(***************************************************************************)
(* CronServer, src/pkg/server/cron_server.go: a list of elements ordered   *)
(* by their trigger time, a Run loop that sleeps until the first of them   *)
(* and starts a goroutine for each that arrived, and Send, which inserts   *)
(* an element and, when it became the first, wakes the loop over an        *)
(* unbuffered channel with the mutex still held.                           *)
(*                                                                         *)
(* The source handler of the server sends it the retries of its databases  *)
(* (internal/source/handler.go).  Each element is sent once, by a          *)
(* goroutine of its own; a retry of a retry is another element.            *)
(*                                                                         *)
(* No name is one of Consumer.tla, so that QueueProofs can extend both.    *)
(***************************************************************************)
EXTENDS Integers, Sequences, SequencesExt

CONSTANTS
  Elements,   \* the elements sent during a run of the program
  TriggerAt,  \* CronElement.TriggerAt of each
  Hour,       \* how long the loop sleeps when there is no element
  MaxTime     \* bound: the clock of the model stops here

ASSUME TriggerAtAssumption == TriggerAt \in [Elements -> Nat]
ASSUME TimeAssumption == Hour \in Nat \ {0} /\ MaxTime \in Nat

VARIABLES
  now,       \* time.Now()
  list,      \* CronServer.Elements
  sending,   \* where the call of Send for each element is
  loop,      \* where the Run loop is
  deadline,  \* when the sleep of the Run loop ends
  handler,   \* the goroutine of each element
  closing    \* where the Shutdown call is

loopVars == <<loop, deadline>>
cronVars == <<now, list, sending, loopVars, handler, closing>>

SendingStep == {"idle", "signalling", "returned"}
LoopStep == {"next", "waiting", "process", "returned"}
HandlerStep == {"none", "spawned", "running", "done"}
ClosingStep == {"idle", "waitHandlers", "down"}

CronTypeOK ==
  /\ now \in 0..MaxTime
  /\ list \in Seq(Elements)
  /\ sending \in [Elements -> SendingStep]
  /\ loop \in LoopStep
  /\ deadline \in Nat
  /\ handler \in [Elements -> HandlerStep]
  /\ closing \in ClosingStep

CronInit ==
  /\ now = 0
  /\ list = <<>>
  /\ sending = [e \in Elements |-> "idle"]
  /\ loop = "next"
  /\ deadline = 0
  /\ handler = [e \in Elements |-> "none"]
  /\ closing = "idle"

\* Only a sender that wakes the loop keeps the mutex from one step to another.
MutexFree == \A e \in Elements : sending[e] # "signalling"

\* Positions of the elements that are triggered after e.
After(e) == {i \in DOMAIN list : TriggerAt[list[i]] > TriggerAt[e]}

-----------------------------------------------------------------------------
(* Slips of the code below, each one refuted by a property *)

\* Wakes the loop only for the first element of an empty list.
BecomesFirstOfEmpty(e) == list = <<>>

\* The scan stops before the last element.
ArrivedButLast(e) == TriggerAt[e] < now /\ \E i \in 1..(Len(list) - 1) : list[i] = e

\* The sleep of an empty list runs into the past.
SleepUntilBackwards == IF list = <<>> THEN now - Hour ELSE TriggerAt[Head(list)]

-----------------------------------------------------------------------------
(* Send *)

\* Whether e becomes the first element.
BecomesFirst(e) == list = <<>> \/ TriggerAt[e] < TriggerAt[Head(list)]

\* Before the first element that is triggered later.
InsertPosition(e) ==
  IF After(e) = {} THEN Len(list) + 1 ELSE CHOOSE i \in After(e) : \A k \in After(e) : i <= k

Insert(e, i) == InsertAt(list, i, e)

\* The mutex is taken, the element inserted; a new first element keeps the
\* mutex until the loop has been woken.
SendInsert(e) ==
  /\ sending[e] = "idle"
  /\ MutexFree
  /\ list' = Insert(e, InsertPosition(e))
  /\ sending' = [sending EXCEPT ![e] = IF BecomesFirst(e) THEN "signalling" ELSE "returned"]
  /\ UNCHANGED <<now, loopVars, handler, closing>>

\* firstElementChanged <- struct{}{} meets the select of the loop.
SendSignal(e) ==
  /\ sending[e] = "signalling"
  /\ loop = "waiting"
  /\ loop' = "process"
  /\ sending' = [sending EXCEPT ![e] = "returned"]
  /\ UNCHANGED <<now, list, deadline, handler, closing>>

-----------------------------------------------------------------------------
(* The Run loop *)

\* nextTriggerAt: the first element's time, or an hour from now.
SleepUntil == IF list = <<>> THEN now + Hour ELSE TriggerAt[Head(list)]

NextTriggerAt ==
  /\ loop = "next"
  /\ MutexFree
  /\ deadline' = SleepUntil
  /\ loop' = "waiting"
  /\ UNCHANGED <<now, list, sending, handler, closing>>

WakeUp ==
  /\ loop = "waiting"
  /\ now >= deadline
  /\ loop' = "process"
  /\ UNCHANGED <<now, list, sending, deadline, handler, closing>>

\* <-s.exited; the select may as well choose the timer or a sender.
RunReturns ==
  /\ loop = "waiting"
  /\ closing # "idle"
  /\ loop' = "returned"
  /\ UNCHANGED <<now, list, sending, deadline, handler, closing>>

Arrived(e) == TriggerAt[e] < now

\* The list without the elements that arrived, in its order: SelectSeq by the
\* places of the elements, so that theorems reach it.
Kept == {i \in DOMAIN list : ~Arrived(list[i])}
Place(i) == Cardinality({k \in Kept : k <= i})
Remaining == [n \in 1..Cardinality(Kept) |-> list[CHOOSE i \in Kept : Place(i) = n]]

\* A goroutine for each due element, wherever it stands in the list.
ProcessArrived ==
  /\ loop = "process"
  /\ MutexFree
  /\ handler' = [e \in Elements |->
                   IF Arrived(e) /\ Contains(list, e) THEN "spawned" ELSE handler[e]]
  /\ list' = Remaining
  /\ loop' = "next"
  /\ UNCHANGED <<now, sending, deadline, closing>>

-----------------------------------------------------------------------------
(* The goroutines and Shutdown *)

\* wg.Add(1), in the goroutine itself.
HandlerStart(e) ==
  /\ handler[e] = "spawned"
  /\ handler' = [handler EXCEPT ![e] = "running"]
  /\ UNCHANGED <<now, list, sending, loopVars, closing>>

HandlerReturn(e) ==
  /\ handler[e] = "running"
  /\ handler' = [handler EXCEPT ![e] = "done"]
  /\ UNCHANGED <<now, list, sending, loopVars, closing>>

\* close(s.exited)
ShutdownBegin ==
  /\ closing = "idle"
  /\ closing' = "waitHandlers"
  /\ UNCHANGED <<now, list, sending, loopVars, handler>>

\* wg.Wait()
ShutdownEnd ==
  /\ closing = "waitHandlers"
  /\ \A e \in Elements : handler[e] # "running"
  /\ closing' = "down"
  /\ UNCHANGED <<now, list, sending, loopVars, handler>>

Tick ==
  /\ now < MaxTime
  /\ now' = now + 1
  /\ UNCHANGED <<list, sending, loopVars, handler, closing>>

-----------------------------------------------------------------------------
HandlerNext(e) == HandlerStart(e) \/ HandlerReturn(e)
LoopNext == NextTriggerAt \/ WakeUp \/ RunReturns \/ ProcessArrived

CronNext ==
  \/ \E e \in Elements : SendInsert(e) \/ SendSignal(e) \/ HandlerNext(e)
  \/ LoopNext
  \/ ShutdownBegin
  \/ ShutdownEnd
  \/ Tick

CronSpec == CronInit /\ [][CronNext]_cronVars

\* Goroutines that can run are run, and time passes.  Nobody is obliged to
\* send an element or to shut the server down.
CronFairness ==
  /\ \A e \in Elements : WF_cronVars(SendSignal(e)) /\ WF_cronVars(HandlerNext(e))
  /\ WF_cronVars(LoopNext)
  /\ WF_cronVars(ShutdownEnd)
  /\ WF_cronVars(Tick)

FairCronSpec == CronSpec /\ CronFairness

-----------------------------------------------------------------------------
(* Properties *)

\* cron_server.go:67-92, 98-119: the loop never sleeps past an element: its
\* timer ends by the time of the earliest one, or a sender is about to wake it.
NeverOversleeps ==
  loop = "waiting" =>
    \/ \A i \in DOMAIN list : deadline <= TriggerAt[list[i]]
    \/ ~MutexFree

\* A sender holds the mutex until the loop listens, and the loop wants the
\* mutex before it listens again; or the loop is gone.
Locked == ~MutexFree /\ loop # "waiting"

\* cron_server.go:48-56: an element whose time comes is handled, unless the
\* server shuts down or a sender and the loop lock each other out.
ElementFires ==
  \A e \in Elements :
    sending[e] # "idle" ~> handler[e] = "done" \/ closing # "idle" \/ Locked

=============================================================================
