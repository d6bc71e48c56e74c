------------------------------ MODULE Consumer ------------------------------
(***************************************************************************)
(* BaseConsumer, src/pkg/server/consumer.go: an unbuffered channel of      *)
(* elements, one Run loop that takes them and starts a worker goroutine    *)
(* for each, a semaphore that bounds the workers, and a shutdown that      *)
(* closes the producer side, then drains the consumer side.  Every queue   *)
(* of the agent (database status, ready tasks, jobs) and the source queue  *)
(* of the server is one of these.                                          *)
(*                                                                         *)
(* A call of Send is a process, named by a member of Calls, and carries an *)
(* element of its own; the Run loop, the worker of each element and the    *)
(* one Shutdown call are the other processes.  Each action is one          *)
(* synchronising operation of one goroutine (a rendezvous on an unbuffered *)
(* channel is one step of both ends).                                      *)
(***************************************************************************)
EXTENDS Naturals, FiniteSets

CONSTANTS
  Calls,           \* calls of Send during a run of the program
  MaxConcurrency,  \* worker bound given to NewBaseConsumer
  None             \* no element

ASSUME MaxConcurrencyAssumption == MaxConcurrency \in Nat \ {0}
ASSUME CallsAssumption == IsFiniteSet(Calls)
ASSUME NoneAssumption == None \notin Calls

VARIABLES
  send,            \* where each call of Send is
  chanClosed,      \* the atomic flag the senders read
  addingWg,        \* senders that registered before their channel send
  elementsClosed,  \* the channel was closed
  run,             \* where the Run loop is
  hand,            \* the element the Run loop holds, or None
  sem,             \* semaphore slots taken
  worker,          \* where the worker of each element is
  wg,              \* elements received and not yet finished
  shutdown         \* where the Shutdown call is

sendVars == <<send, addingWg>>
runVars  == <<run, hand, sem, worker, wg>>
downVars == <<chanClosed, elementsClosed, shutdown>>
vars     == <<sendVars, runVars, downVars>>

SendStep ==
  {"idle", "checked", "sending", "delivered", "returned", "discarded",
   "panicked"}
RunStep == {"receive", "count", "acquire", "exiting", "exited"}
WorkerStep == {"none", "handling", "handled", "released", "gone"}
ShutdownStep ==
  {"idle", "waitAdders", "close", "waitExited", "waitWorkers",
   "handlerDown", "down"}

At(c, step) == send[c] = step

\* A send on a closed channel panics, and an unrecovered panic ends the
\* process: nothing of this program runs after it.
Panicked == \E c \in Calls : At(c, "panicked")

TypeOK ==
  /\ send \in [Calls -> SendStep]
  /\ chanClosed \in BOOLEAN
  /\ addingWg \in Nat
  /\ elementsClosed \in BOOLEAN
  /\ run \in RunStep
  /\ hand \in Calls \cup {None}
  /\ sem \in Nat
  /\ worker \in [Calls -> WorkerStep]
  /\ wg \in Nat
  /\ shutdown \in ShutdownStep

Init ==
  /\ send = [c \in Calls |-> "idle"]
  /\ chanClosed = FALSE
  /\ addingWg = 0
  /\ elementsClosed = FALSE
  /\ run = "receive"
  /\ hand = None
  /\ sem = 0
  /\ worker = [c \in Calls |-> "none"]
  /\ wg = 0
  /\ shutdown = "idle"

-----------------------------------------------------------------------------
(* Slips of the code below, each one refuted by a property *)

\* A discarded element is counted down as if its sender had registered.
SendCheckCountsDown(c) ==
  /\ At(c, "idle")
  /\ send' = [send EXCEPT ![c] = IF chanClosed THEN "discarded" ELSE "checked"]
  /\ addingWg' = IF chanClosed THEN addingWg - 1 ELSE addingWg
  /\ UNCHANGED <<runVars, downVars>>

\* The slot is not given back.
ReleaseSlotLeaks(c) ==
  /\ worker[c] = "handled"
  /\ worker' = [worker EXCEPT ![c] = "released"]
  /\ UNCHANGED <<run, hand, sem, wg, sendVars, downVars>>

\* No wg.Done().
WorkerDoneUncounted(c) ==
  /\ worker[c] = "released"
  /\ worker' = [worker EXCEPT ![c] = "gone"]
  /\ UNCHANGED <<run, hand, sem, wg, sendVars, downVars>>

\* Close without addingWg.Wait().
AwaitNoAdders ==
  /\ shutdown = "waitAdders"
  /\ shutdown' = "close"
  /\ UNCHANGED <<chanClosed, elementsClosed, sendVars, runVars>>

\* Shutdown without <-c.exited.
AwaitNoExit ==
  /\ shutdown = "waitExited"
  /\ run' = IF run = "exiting" THEN "exited" ELSE run
  /\ shutdown' = "waitWorkers"
  /\ UNCHANGED <<hand, sem, worker, wg, chanClosed, elementsClosed, sendVars>>

-----------------------------------------------------------------------------
(* Send *)

\* chanClosed.Get(): go on to the channel, or log and discard.
SendCheck(c) ==
  /\ At(c, "idle")
  /\ send' = [send EXCEPT ![c] = IF chanClosed THEN "discarded" ELSE "checked"]
  /\ UNCHANGED <<addingWg, runVars, downVars>>

\* addingWg.Add(1).  Nothing orders it after the check: Close may have set
\* the flag, waited and closed the channel in between.
SendRegister(c) ==
  /\ At(c, "checked")
  /\ send' = [send EXCEPT ![c] = "sending"]
  /\ addingWg' = addingWg + 1
  /\ UNCHANGED <<runVars, downVars>>

SendPanics(c) ==
  /\ At(c, "sending")
  /\ elementsClosed
  /\ send' = [send EXCEPT ![c] = "panicked"]
  /\ UNCHANGED <<addingWg, runVars, downVars>>

\* addingWg.Done(), after the Run loop took the element.
SendReturn(c) ==
  /\ At(c, "delivered")
  /\ send' = [send EXCEPT ![c] = "returned"]
  /\ addingWg' = addingWg - 1
  /\ UNCHANGED <<runVars, downVars>>

-----------------------------------------------------------------------------
(* The Run loop and the workers *)

\* element := <-c.Elements meets a sender.
Receive(c) ==
  /\ run = "receive"
  /\ At(c, "sending")
  /\ ~elementsClosed
  /\ send' = [send EXCEPT ![c] = "delivered"]
  /\ hand' = c
  /\ run' = "count"
  /\ UNCHANGED <<addingWg, sem, worker, wg, downVars>>

\* wg.Add(1), before the worker exists.
CountElement ==
  /\ run = "count"
  /\ wg' = wg + 1
  /\ run' = "acquire"
  /\ UNCHANGED <<hand, sem, worker, sendVars, downVars>>

\* sem <- struct{}{} blocks while every slot is taken, with the element in
\* hand; then the worker goroutine starts and the loop goes on.
Acquire ==
  /\ run = "acquire"
  /\ sem < MaxConcurrency
  /\ sem' = sem + 1
  /\ worker' = [worker EXCEPT ![hand] = "handling"]
  /\ hand' = None
  /\ run' = "receive"
  /\ UNCHANGED <<wg, sendVars, downVars>>

\* The channel is closed and empty: leave the loop.
ReceiveClosed ==
  /\ run = "receive"
  /\ elementsClosed
  /\ run' = "exiting"
  /\ UNCHANGED <<hand, sem, worker, wg, sendVars, downVars>>

\* Handler.Handle(element) returned, with or without an error.
HandleReturn(c) ==
  /\ worker[c] = "handling"
  /\ worker' = [worker EXCEPT ![c] = "handled"]
  /\ UNCHANGED <<run, hand, sem, wg, sendVars, downVars>>

ReleaseSlot(c) ==
  /\ worker[c] = "handled"
  /\ worker' = [worker EXCEPT ![c] = "released"]
  /\ sem' = sem - 1
  /\ UNCHANGED <<run, hand, wg, sendVars, downVars>>

WorkerDone(c) ==
  /\ worker[c] = "released"
  /\ worker' = [worker EXCEPT ![c] = "gone"]
  /\ wg' = wg - 1
  /\ UNCHANGED <<run, hand, sem, sendVars, downVars>>

-----------------------------------------------------------------------------
(* Shutdown, called once by BaseServer.Shutdown *)

\* CompareAndSwap(false, true) on the flag.
BeginClose ==
  /\ shutdown = "idle"
  /\ chanClosed' = TRUE
  /\ shutdown' = "waitAdders"
  /\ UNCHANGED <<elementsClosed, sendVars, runVars>>

AwaitAdders ==
  /\ shutdown = "waitAdders"
  /\ addingWg = 0
  /\ shutdown' = "close"
  /\ UNCHANGED <<chanClosed, elementsClosed, sendVars, runVars>>

CloseElements ==
  /\ shutdown = "close"
  /\ elementsClosed' = TRUE
  /\ shutdown' = "waitExited"
  /\ UNCHANGED <<chanClosed, sendVars, runVars>>

\* exited <- struct{}{} in Run meets <-exited in Shutdown.
AwaitExited ==
  /\ run = "exiting"
  /\ shutdown = "waitExited"
  /\ run' = "exited"
  /\ shutdown' = "waitWorkers"
  /\ UNCHANGED <<hand, sem, worker, wg, chanClosed, elementsClosed, sendVars>>

AwaitWorkers ==
  /\ shutdown = "waitWorkers"
  /\ wg = 0
  /\ shutdown' = "handlerDown"
  /\ UNCHANGED <<chanClosed, elementsClosed, sendVars, runVars>>

\* The handler's own Shutdown, if it has one.
ShutdownHandler ==
  /\ shutdown = "handlerDown"
  /\ shutdown' = "down"
  /\ UNCHANGED <<chanClosed, elementsClosed, sendVars, runVars>>

-----------------------------------------------------------------------------
SendNext(c) ==
  SendCheck(c) \/ SendRegister(c) \/ SendPanics(c) \/ SendReturn(c)

WorkerNext(c) == HandleReturn(c) \/ ReleaseSlot(c) \/ WorkerDone(c)

RunNext ==
  \/ \E c \in Calls : Receive(c)
  \/ CountElement
  \/ Acquire
  \/ ReceiveClosed

ShutdownNext ==
  \/ BeginClose
  \/ AwaitAdders
  \/ CloseElements
  \/ AwaitExited
  \/ AwaitWorkers
  \/ ShutdownHandler

Next ==
  /\ ~Panicked
  /\ \/ \E c \in Calls : SendNext(c) \/ WorkerNext(c)
     \/ RunNext
     \/ ShutdownNext

Spec == Init /\ [][Next]_vars

\* Goroutines that can run are run, and a handler returns.  Nothing obliges
\* anyone to call Send or Shutdown.
Fairness ==
  /\ WF_vars(~Panicked /\ RunNext)
  /\ WF_vars(~Panicked /\ ShutdownNext /\ shutdown # "idle")
  /\ \A c \in Calls :
       /\ WF_vars(~Panicked /\ SendNext(c) /\ ~At(c, "idle"))
       /\ WF_vars(~Panicked /\ WorkerNext(c))

FairSpec == Spec /\ Fairness

-----------------------------------------------------------------------------
(* Properties *)

Registered == {c \in Calls : send[c] \in {"sending", "delivered", "panicked"}}
HoldingSlot == {c \in Calls : worker[c] \in {"handling", "handled"}}
Unfinished ==
  {c \in Calls : worker[c] \in {"handling", "handled", "released"}
                  \/ (hand = c /\ run = "acquire")}
Accepted == {c \in Calls : send[c] \in {"delivered", "returned"}}
InHandler == {c \in Calls : worker[c] = "handling"}
Finished == {c \in Calls : worker[c] = "gone"}

\* What the program's counters stand for: the inductive core of the proofs.
Counters ==
  /\ addingWg = Cardinality(Registered)
  /\ sem = Cardinality(HoldingSlot)
  /\ wg = Cardinality(Unfinished)
  /\ sem <= MaxConcurrency

\* Where an element can be, given where the loop and its worker are.
ElementsPlaced ==
  /\ run \in {"count", "acquire"} <=> hand # None
  /\ \A c \in Calls :
       /\ (hand = c) => worker[c] = "none"
       /\ (c \in Accepted) <=> (hand = c \/ worker[c] # "none")

\* How far a shutdown has come.
ShutdownOrder ==
  /\ chanClosed <=> shutdown # "idle"
  /\ elementsClosed <=>
       shutdown \in {"waitExited", "waitWorkers", "handlerDown", "down"}
  /\ (run = "exited") <=> shutdown \in {"waitWorkers", "handlerDown", "down"}
  /\ run \in {"exiting", "exited"} => elementsClosed
  /\ shutdown \in {"handlerDown", "down"} => Unfinished = {}

\* The inductive invariant of the proofs.
IndInv == TypeOK /\ Counters /\ ElementsPlaced /\ ShutdownOrder

\* consumer.go:50-66: the semaphore keeps at most MaxConcurrency elements in
\* their handler, counted where it matters (in the handler), not on the
\* semaphore.
BoundedConcurrency == Cardinality(InHandler) <= MaxConcurrency

\* consumer.go:72-84: the handler is shut down only when every element the
\* queue accepted was handled to its end, however the workers finish: it must
\* hold against an element taken from the channel whose worker does not exist
\* yet, and against a sender that the closing of the producer overtook.
HandlerDownAfterAccepted ==
  shutdown \in {"handlerDown", "down"} => Accepted = Finished

\* consumer.go:40-70: an element whose Send returned is handled to its end,
\* also when a shutdown overtakes it, unless the process dies of a panic.
AcceptedIsHandled ==
  \A c \in Calls : At(c, "returned") ~> (worker[c] = "gone" \/ Panicked)

\* consumer.go:72-84: a shutdown once begun ends, unless the process dies.
ShutdownTerminates == (shutdown = "waitAdders") ~> (shutdown = "down" \/ Panicked)

\* consumer.go:102-125: a sender that registered before Close stopped waiting
\* for senders is not cut off; its element is taken and its call returns.
\* Only a sender that checked the flag in time and registered too late may
\* meet a closed channel.
RegisteredSenderServed ==
  \A c \in Calls :
    (At(c, "sending") /\ shutdown = "waitAdders")
      ~> (At(c, "returned") \/ \E d \in Calls \ {c} : At(d, "panicked"))

-----------------------------------------------------------------------------
(* What the queue promises, WorkPool.tla, in terms of this state *)

ElementStateOf(c) ==
  CASE worker[c] = "handling" -> "handling"
    [] worker[c] \in {"handled", "released", "gone"} -> "handled"
    [] worker[c] = "none" /\ c \in Accepted -> "accepted"
    [] worker[c] = "none" /\ At(c, "discarded") -> "discarded"
    [] OTHER -> "unsent"

Pool == INSTANCE WorkPool WITH
  element <- [c \in Calls |-> ElementStateOf(c)],
  busy    <- Cardinality(InHandler),
  open    <- ~chanClosed,
  stopped <- shutdown \in {"handlerDown", "down"}

\* consumer.go as a whole: each element is discarded, or handled exactly once
\* and never after the queue stopped.
ImplementsWorkPool == Pool!Spec

=============================================================================
