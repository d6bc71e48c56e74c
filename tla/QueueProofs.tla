---------------------------- MODULE QueueProofs ----------------------------
(***************************************************************************)
(* Proofs about the two queues of src/pkg/server: about Consumer.tla for   *)
(* every number of calls of Send and every worker bound, and about         *)
(* CronServer.tla for every set of elements and their trigger times.       *)
(***************************************************************************)
EXTENDS Consumer, CronServer, FiniteSetTheorems, FunctionTheorems, SequenceTheorems, TLAPS

USE MaxConcurrencyAssumption, CallsAssumption, NoneAssumption

\* A set of calls is finite, and gains or loses one call at a time.
LEMMA CallSets ==
  ASSUME NEW S \in SUBSET Calls, NEW c \in Calls
  PROVE  /\ IsFiniteSet(S)
         /\ Cardinality(S) \in Nat
         /\ Cardinality(S) = 0 <=> S = {}
         /\ c \notin S => Cardinality(S \cup {c}) = Cardinality(S) + 1
         /\ c \in S => Cardinality(S \ {c}) = Cardinality(S) - 1
<1>1. IsFiniteSet(S)
  BY FS_Subset
<1> QED
  BY <1>1, FS_CardinalityType, FS_EmptySet, FS_AddElement, FS_RemoveElement

\* The three sets that the counters of the code stand for.
LEMMA CountedSets ==
  /\ Registered \in SUBSET Calls
  /\ HoldingSlot \in SUBSET Calls
  /\ Unfinished \in SUBSET Calls
BY DEF Registered, HoldingSlot, Unfinished

\* Before anything is sent every counter is zero.
LEMMA InitIndInv == Init => IndInv
<1> SUFFICES ASSUME Init
             PROVE  IndInv
  OBVIOUS
<1>1. TypeOK
  BY DEF Init, TypeOK, SendStep, RunStep, WorkerStep, ShutdownStep
<1>2. Registered = {} /\ HoldingSlot = {} /\ Unfinished = {}
  BY DEF Init, Registered, HoldingSlot, Unfinished
<1>3. Counters
  BY <1>2, FS_EmptySet DEF Init, Counters
<1>4. ElementsPlaced
  BY DEF Init, ElementsPlaced, Accepted
<1>5. ShutdownOrder
  BY DEF Init, ShutdownOrder
<1> QED
  BY <1>1, <1>3, <1>4, <1>5 DEF IndInv

\* The type invariant does not depend on the rest.
LEMMA TypeInductive == TypeOK /\ Counters /\ ElementsPlaced /\ [Next]_vars => TypeOK'
<1> SUFFICES ASSUME TypeOK, Counters, ElementsPlaced, [Next]_vars
             PROVE  TypeOK'
  OBVIOUS
<1> USE DEF TypeOK, SendStep, RunStep, WorkerStep, ShutdownStep, At
<1>1. ASSUME NEW c \in Calls, SendNext(c)
      PROVE  TypeOK'
  <2>1. CASE SendReturn(c)
    <3>1. c \in Registered
      BY <2>1 DEF SendReturn, Registered
    <3>2. addingWg # 0
      BY <3>1, CallSets, CountedSets DEF Counters
    <3> QED
      BY <2>1, <3>2 DEF SendReturn, runVars, downVars
  <2> QED
    BY <1>1, <2>1 DEF SendNext, SendCheck, SendRegister, SendPanics, runVars, downVars
<1>2. ASSUME NEW c \in Calls, WorkerNext(c)
      PROVE  TypeOK'
  <2>1. CASE HandleReturn(c)
    BY <2>1 DEF HandleReturn, sendVars, downVars
  <2>2. CASE ReleaseSlot(c)
    <3>1. c \in HoldingSlot
      BY <2>2 DEF ReleaseSlot, HoldingSlot
    <3>2. sem # 0
      BY <3>1, CallSets, CountedSets DEF Counters
    <3> QED
      BY <2>2, <3>2 DEF ReleaseSlot, sendVars, downVars
  <2>3. CASE WorkerDone(c)
    <3>1. c \in Unfinished
      BY <2>3 DEF WorkerDone, Unfinished
    <3>2. wg # 0
      BY <3>1, CallSets, CountedSets DEF Counters
    <3> QED
      BY <2>3, <3>2 DEF WorkerDone, sendVars, downVars
  <2> QED
    BY <1>2, <2>1, <2>2, <2>3 DEF WorkerNext
<1>3. CASE RunNext
  BY <1>3 DEF RunNext, Receive, CountElement, Acquire, ReceiveClosed,
              ElementsPlaced, sendVars, downVars
<1>4. CASE ShutdownNext
  BY <1>4 DEF ShutdownNext, BeginClose, AwaitAdders, CloseElements, AwaitExited,
              AwaitWorkers, ShutdownHandler, sendVars, runVars
<1>5. CASE UNCHANGED vars
  BY <1>5 DEF vars, sendVars, runVars, downVars
<1> QED
  BY <1>1, <1>2, <1>3, <1>4, <1>5 DEF Next

\* addingWg, sem and wg count what the code means them to count.
LEMMA CountersInductive == IndInv /\ [Next]_vars => Counters'
<1> SUFFICES ASSUME IndInv, [Next]_vars
             PROVE  Counters'
  OBVIOUS
<1>0. /\ addingWg = Cardinality(Registered)
      /\ sem = Cardinality(HoldingSlot)
      /\ wg = Cardinality(Unfinished)
      /\ sem <= MaxConcurrency
      /\ addingWg \in Nat /\ sem \in Nat /\ wg \in Nat
      /\ send \in [Calls -> SendStep]
      /\ worker \in [Calls -> WorkerStep]
  BY DEF IndInv, TypeOK, Counters
<1>a. ASSUME UNCHANGED <<send, addingWg>>
      PROVE  addingWg' = Cardinality(Registered')
  BY <1>0, <1>a DEF Registered
<1>b. ASSUME UNCHANGED <<worker, sem>>
      PROVE  /\ sem' = Cardinality(HoldingSlot')
             /\ sem' <= MaxConcurrency
  BY <1>0, <1>b DEF HoldingSlot
<1>c. ASSUME UNCHANGED <<worker, wg>>, {hand'} \cap {h \in Calls : run' = "acquire"} = {hand} \cap {h \in Calls : run = "acquire"}
      PROVE  wg' = Cardinality(Unfinished')
  <2>1. Unfinished' = Unfinished
    BY <1>c DEF Unfinished
  <2> QED
    BY <1>0, <1>c, <2>1
<1>1. ASSUME NEW c \in Calls, SendNext(c)
      PROVE  Counters'
  <2>1. sem' = Cardinality(HoldingSlot') /\ sem' <= MaxConcurrency
    BY <1>1, <1>b DEF SendNext, SendCheck, SendRegister, SendPanics, SendReturn, runVars
  <2>2. wg' = Cardinality(Unfinished')
    BY <1>1, <1>c DEF SendNext, SendCheck, SendRegister, SendPanics, SendReturn, runVars
  <2>3. addingWg' = Cardinality(Registered')
    <3>1. CASE SendCheck(c)
      <4>1. Registered' = Registered
        BY <1>0, <3>1 DEF SendCheck, Registered, At, SendStep
      <4> QED
        BY <1>0, <3>1, <4>1 DEF SendCheck
    <3>2. CASE SendRegister(c)
      <4>1. c \notin Registered /\ Registered' = Registered \cup {c}
        BY <1>0, <3>2 DEF SendRegister, Registered, At, SendStep
      <4> QED
        BY <1>0, <3>2, <4>1, CallSets, CountedSets DEF SendRegister
    <3>3. CASE SendPanics(c)
      <4>1. Registered' = Registered
        BY <1>0, <3>3 DEF SendPanics, Registered, At, SendStep
      <4> QED
        BY <1>0, <3>3, <4>1 DEF SendPanics
    <3>4. CASE SendReturn(c)
      <4>1. c \in Registered /\ Registered' = Registered \ {c}
        BY <1>0, <3>4 DEF SendReturn, Registered, At, SendStep
      <4> QED
        BY <1>0, <3>4, <4>1, CallSets, CountedSets DEF SendReturn
    <3> QED
      BY <1>1, <3>1, <3>2, <3>3, <3>4 DEF SendNext
  <2> QED
    BY <2>1, <2>2, <2>3 DEF Counters
<1>2. ASSUME NEW c \in Calls, WorkerNext(c)
      PROVE  Counters'
  <2>1. addingWg' = Cardinality(Registered')
    BY <1>2, <1>a DEF WorkerNext, HandleReturn, ReleaseSlot, WorkerDone, sendVars
  <2>2. CASE HandleReturn(c)
    <3>1. HoldingSlot' = HoldingSlot /\ Unfinished' = Unfinished
      BY <1>0, <2>2 DEF HandleReturn, HoldingSlot, Unfinished, WorkerStep
    <3> QED
      BY <1>0, <2>1, <2>2, <3>1 DEF HandleReturn, Counters
  <2>3. CASE ReleaseSlot(c)
    <3>1. /\ c \in HoldingSlot /\ HoldingSlot' = HoldingSlot \ {c}
          /\ Unfinished' = Unfinished
      BY <1>0, <2>3 DEF ReleaseSlot, HoldingSlot, Unfinished, WorkerStep
    <3>2. Cardinality(HoldingSlot') = sem - 1
      BY <1>0, <3>1, CallSets, CountedSets
    <3> QED
      BY <1>0, <2>1, <2>3, <3>1, <3>2 DEF ReleaseSlot, Counters
  <2>4. CASE WorkerDone(c)
    <3>0. ~(hand = c /\ run = "acquire")
      BY <2>4 DEF WorkerDone, IndInv, ElementsPlaced
    <3>1. /\ c \in Unfinished /\ Unfinished' = Unfinished \ {c}
          /\ HoldingSlot' = HoldingSlot
      BY <1>0, <2>4, <3>0 DEF WorkerDone, HoldingSlot, Unfinished, WorkerStep
    <3>2. Cardinality(Unfinished') = wg - 1
      BY <1>0, <3>1, CallSets, CountedSets
    <3> QED
      BY <1>0, <2>1, <2>4, <3>1, <3>2 DEF WorkerDone, Counters
  <2> QED
    BY <1>2, <2>2, <2>3, <2>4 DEF WorkerNext
<1>3. ASSUME NEW c \in Calls, Receive(c)
      PROVE  Counters'
  <2>1. Registered' = Registered
    BY <1>0, <1>3 DEF Receive, Registered, At, SendStep
  <2> QED
    BY <1>0, <1>3, <1>b, <1>c, <2>1 DEF Receive, Counters
<1>4. CASE CountElement
  <2>0. hand \in Calls /\ worker[hand] = "none"
    BY <1>4 DEF CountElement, IndInv, TypeOK, ElementsPlaced
  <2>1. hand \notin Unfinished /\ Unfinished' = Unfinished \cup {hand}
    BY <1>0, <1>4, <2>0 DEF CountElement, Unfinished
  <2>2. Cardinality(Unfinished') = wg + 1
    BY <1>0, <2>0, <2>1, CallSets, CountedSets
  <2> QED
    BY <1>4, <1>a, <1>b, <2>2 DEF CountElement, sendVars, Counters
<1>5. CASE Acquire
  <2>0. hand \in Calls /\ worker[hand] = "none"
    BY <1>5 DEF Acquire, IndInv, TypeOK, ElementsPlaced
  <2>1. /\ hand \notin HoldingSlot /\ HoldingSlot' = HoldingSlot \cup {hand}
        /\ Unfinished' = Unfinished
    BY <1>0, <1>5, <2>0 DEF Acquire, Unfinished, HoldingSlot
  <2>2. Cardinality(HoldingSlot') = sem + 1
    BY <1>0, <2>0, <2>1, CallSets, CountedSets
  <2> QED
    BY <1>0, <1>5, <1>a, <2>1, <2>2 DEF Acquire, sendVars, Counters
<1>6. CASE ReceiveClosed
  BY <1>6, <1>a, <1>b, <1>c DEF ReceiveClosed, sendVars, Counters
<1>7. CASE ShutdownNext
  BY <1>7, <1>a, <1>b, <1>c
     DEF ShutdownNext, BeginClose, AwaitAdders, CloseElements, AwaitExited,
         AwaitWorkers, ShutdownHandler, sendVars, runVars, Counters
<1>8. CASE UNCHANGED vars
  BY <1>8, <1>a, <1>b, <1>c DEF vars, sendVars, runVars, Counters
<1> QED
  BY <1>1, <1>2, <1>3, <1>4, <1>5, <1>6, <1>7, <1>8 DEF Next, RunNext

\* Every accepted element is in the loop's hand or has its worker, and a
\* shutdown goes through its stages in order.
LEMMA PlacesInductive ==
  IndInv /\ [Next]_vars => ElementsPlaced' /\ ShutdownOrder'
<1> SUFFICES ASSUME IndInv, [Next]_vars
             PROVE  ElementsPlaced' /\ ShutdownOrder'
  OBVIOUS
<1> USE DEF ElementsPlaced, ShutdownOrder, Accepted, Unfinished
<1>0. TypeOK /\ ElementsPlaced /\ ShutdownOrder
  BY DEF IndInv
<1>1. ASSUME NEW c \in Calls, SendNext(c)
      PROVE  ElementsPlaced' /\ ShutdownOrder'
  BY <1>0, <1>1 DEF SendNext, SendCheck, SendRegister, SendPanics, SendReturn, At,
                    TypeOK, SendStep, runVars, downVars
<1>2. ASSUME NEW c \in Calls, WorkerNext(c)
      PROVE  ElementsPlaced' /\ ShutdownOrder'
  BY <1>0, <1>2 DEF WorkerNext, HandleReturn, ReleaseSlot, WorkerDone, TypeOK,
                    WorkerStep, sendVars, downVars
<1>3. ASSUME NEW c \in Calls, Receive(c)
      PROVE  ElementsPlaced' /\ ShutdownOrder'
  BY <1>0, <1>3 DEF Receive, At, TypeOK, SendStep, downVars
<1>4. CASE CountElement
  BY <1>0, <1>4 DEF CountElement, TypeOK, sendVars, downVars
<1>5. CASE Acquire
  BY <1>0, <1>5 DEF Acquire, TypeOK, WorkerStep, sendVars, downVars
<1>6. CASE ReceiveClosed
  BY <1>0, <1>6 DEF ReceiveClosed, TypeOK, sendVars, downVars
<1>7. CASE ShutdownNext
  <2>1. CASE AwaitWorkers
    <3>1. Cardinality(Unfinished) = 0
      BY <2>1 DEF AwaitWorkers, IndInv, Counters
    <3>2. Unfinished = {}
      <4>1. IsFiniteSet(Unfinished)
        BY CountedSets, FS_Subset
      <4> QED
        BY <3>1, <4>1, FS_EmptySet
    <3> QED
      BY <1>0, <2>1, <3>2 DEF AwaitWorkers, sendVars, runVars
  <2>2. CASE BeginClose \/ AwaitAdders \/ CloseElements
    BY <1>0, <2>2 DEF BeginClose, AwaitAdders, CloseElements, sendVars, runVars
  <2>3. CASE AwaitExited
    BY <1>0, <2>3 DEF AwaitExited, sendVars
  <2>4. CASE ShutdownHandler
    BY <1>0, <2>4 DEF ShutdownHandler, sendVars, runVars
  <2> QED
    BY <1>7, <2>1, <2>2, <2>3, <2>4 DEF ShutdownNext
<1>8. CASE UNCHANGED vars
  BY <1>0, <1>8 DEF vars, sendVars, runVars, downVars
<1> QED
  BY <1>1, <1>2, <1>3, <1>4, <1>5, <1>6, <1>7, <1>8 DEF Next, RunNext

\* consumer.go: the invariant of the queue holds in every reachable state.
THEOREM Invariance == Spec => []IndInv
<1>1. IndInv /\ [Next]_vars => IndInv'
  BY TypeInductive, CountersInductive, PlacesInductive DEF IndInv
<1> QED
  BY InitIndInv, <1>1, PTL DEF Spec

\* consumer.go: every variable keeps its type.
THEOREM TypeCorrect == Spec => []TypeOK
<1>1. IndInv => TypeOK
  BY DEF IndInv
<1> QED
  BY Invariance, <1>1, PTL

\* consumer.go:50-66: never more elements in their handler than MaxConcurrency.
THEOREM ConcurrencyBounded == Spec => []BoundedConcurrency
<1>1. IndInv => BoundedConcurrency
  <2> SUFFICES ASSUME IndInv
               PROVE  BoundedConcurrency
    OBVIOUS
  <2>1. InHandler \in SUBSET HoldingSlot /\ HoldingSlot \in SUBSET Calls
    BY DEF HoldingSlot, InHandler
  <2>2. IsFiniteSet(HoldingSlot) /\ IsFiniteSet(InHandler)
    BY <2>1, FS_Subset
  <2>3. Cardinality(InHandler) <= Cardinality(HoldingSlot)
    BY <2>1, <2>2, FS_Subset
  <2>4. Cardinality(InHandler) \in Nat /\ Cardinality(HoldingSlot) \in Nat
    BY <2>2, FS_CardinalityType
  <2> QED
    BY <2>3, <2>4 DEF BoundedConcurrency, IndInv, Counters
<1> QED
  BY Invariance, <1>1, PTL

\* consumer.go:72-84: the handler is shut down only after every accepted
\* element was handled to its end.
THEOREM AcceptedBeforeHandlerDown == Spec => []HandlerDownAfterAccepted
<1>1. IndInv => HandlerDownAfterAccepted
  <2> SUFFICES ASSUME IndInv, shutdown \in {"handlerDown", "down"}
               PROVE  Accepted = Finished
    BY DEF HandlerDownAfterAccepted
  <2>1. run = "exited" /\ Unfinished = {} /\ hand = None
    BY DEF IndInv, ShutdownOrder, ElementsPlaced
  <2>2. \A c \in Calls : worker[c] \in {"none", "gone"}
    BY <2>1 DEF Unfinished, IndInv, TypeOK, WorkerStep
  <2>3. \A c \in Calls : c \in Accepted <=> worker[c] = "gone"
    BY <2>1, <2>2 DEF IndInv, ElementsPlaced
  <2> QED
    BY <2>3 DEF Accepted, Finished
<1> QED
  BY Invariance, <1>1, PTL

-----------------------------------------------------------------------------
(* The queue implements WorkPool.tla *)

\* What each way of the queue's state means to the pool.
LEMMA ElementStates ==
  ASSUME IndInv, NEW c \in Calls
  PROVE  /\ worker[c] = "handling" => ElementStateOf(c) = "handling"
         /\ worker[c] \in {"handled", "released", "gone"}
              => ElementStateOf(c) = "handled"
         /\ worker[c] = "none" /\ c \in Accepted
              => ElementStateOf(c) = "accepted"
         /\ worker[c] = "none" /\ c \notin Accepted
              => ElementStateOf(c) = IF At(c, "discarded") THEN "discarded"
                                                          ELSE "unsent"
BY DEF ElementStateOf, Accepted, At, IndInv, TypeOK, WorkerStep

\* The queue's state as the pool's variables, spelled out.
PoolElement == [c \in Calls |-> ElementStateOf(c)]
PoolBusy == Cardinality(InHandler)
PoolStopped == shutdown \in {"handlerDown", "down"}

\* A step of one call moves the state of its element only.
LEMMA OneElementMoves ==
  ASSUME NEW c \in Calls,
         \A d \in Calls \ {c} : ElementStateOf(d)' = ElementStateOf(d)
  PROVE  PoolElement' = [PoolElement EXCEPT ![c] = ElementStateOf(c)']
BY DEF PoolElement

\* Steps that no element notices.
LEMMA NoElementMoves ==
  ASSUME \A d \in Calls : ElementStateOf(d)' = ElementStateOf(d)
  PROVE  PoolElement' = PoolElement
BY DEF PoolElement

\* Steps after which the same elements are in their handler.
LEMMA SameBusy ==
  ASSUME \A d \in Calls : worker'[d] = "handling" <=> worker[d] = "handling"
  PROVE  PoolBusy' = PoolBusy
BY DEF PoolBusy, InHandler

\* A step that changes no call's send and worker positions is not noticed.
LEMMA SameElements ==
  ASSUME UNCHANGED <<send, worker>>
  PROVE  PoolElement' = PoolElement /\ PoolBusy' = PoolBusy
BY DEF PoolElement, PoolBusy, InHandler, ElementStateOf, Accepted, At

\* consumer.go as a whole keeps the promise of WorkPool.tla: every step of
\* the queue is a step of the pool or is not visible to it.
THEOREM Refinement == Spec => ImplementsWorkPool
<1>1. Init => Pool!Init
  <2> SUFFICES ASSUME Init
               PROVE  Pool!Init
    OBVIOUS
  <2>1. InHandler = {}
    BY DEF Init, InHandler
  <2>2. Cardinality(InHandler) = 0
    BY <2>1, FS_EmptySet
  <2> QED
    BY <2>2 DEF Init, Pool!Init, ElementStateOf, Accepted, At
<1>2. IndInv /\ IndInv' /\ [Next]_vars => [Pool!Next]_(Pool!poolVars)
  <2> SUFFICES ASSUME IndInv, IndInv', [Next]_vars
               PROVE  Pool!Next \/ UNCHANGED Pool!poolVars
    OBVIOUS
  <2>a. ASSUME UNCHANGED <<PoolElement, PoolBusy, chanClosed, PoolStopped>>
        PROVE  UNCHANGED Pool!poolVars
    BY <2>a DEF Pool!poolVars, PoolElement, PoolBusy, PoolStopped
  <2>b. /\ TypeOK /\ TypeOK'
        /\ ElementsPlaced /\ ElementsPlaced'
        /\ ShutdownOrder /\ ShutdownOrder'
    BY DEF IndInv
  <2>1. ASSUME NEW c \in Calls, SendCheck(c), chanClosed
        PROVE  Pool!Next
    <3>1. /\ At(c, "idle") /\ At(c, "discarded")'
          /\ worker[c] = "none" /\ worker'[c] = "none"
          /\ c \notin Accepted /\ c \notin Accepted'
      BY <2>1, <2>b DEF SendCheck, runVars, At, TypeOK, Accepted, ElementsPlaced
    <3>2. ElementStateOf(c) = "unsent" /\ ElementStateOf(c)' = "discarded"
      BY <3>1 DEF ElementStateOf, Accepted, At
    <3>3. \A d \in Calls \ {c} : ElementStateOf(d)' = ElementStateOf(d)
      BY <2>1, <2>b DEF SendCheck, runVars, ElementStateOf, Accepted, At, TypeOK
    <3>4. PoolElement' = [PoolElement EXCEPT ![c] = "discarded"]
      BY <3>2, <3>3, OneElementMoves
    <3>5. UNCHANGED <<PoolBusy, chanClosed, shutdown>>
      BY <2>1, SameBusy DEF SendCheck, runVars, downVars
    <3>6. Pool!Discard(c)
      BY <2>1, <3>2, <3>4, <3>5 DEF Pool!Discard, Pool!Advance, PoolElement, PoolBusy
    <3> QED
      BY <3>6 DEF Pool!Next
  <2>2. ASSUME NEW c \in Calls, SendCheck(c), ~chanClosed
        PROVE  UNCHANGED Pool!poolVars
    <3>1. \A d \in Calls : ElementStateOf(d)' = ElementStateOf(d)
      BY <2>2, <2>b DEF SendCheck, runVars, ElementStateOf, Accepted, At, TypeOK
    <3> QED
      BY <2>2, <2>a, <3>1, NoElementMoves, SameBusy
         DEF SendCheck, runVars, downVars, PoolStopped
  <2>3. ASSUME NEW c \in Calls, SendRegister(c) \/ SendPanics(c) \/ SendReturn(c)
        PROVE  UNCHANGED Pool!poolVars
    <3>1. \A d \in Calls : ElementStateOf(d)' = ElementStateOf(d)
      BY <2>3, <2>b DEF SendRegister, SendPanics, SendReturn, runVars,
                        ElementStateOf, Accepted, At, TypeOK
    <3> QED
      BY <2>3, <2>a, <3>1, NoElementMoves, SameBusy
         DEF SendRegister, SendPanics, SendReturn, runVars, downVars, PoolStopped
  <2>4. ASSUME NEW c \in Calls, Receive(c)
        PROVE  Pool!Next
    <3>1. /\ At(c, "sending") /\ At(c, "delivered")'
          /\ worker[c] = "none" /\ worker'[c] = "none"
          /\ c \notin Accepted /\ c \in Accepted'
          /\ ~PoolStopped
      BY <2>4, <2>b DEF Receive, At, TypeOK, Accepted, ElementsPlaced,
                        ShutdownOrder, PoolStopped
    <3>2. ElementStateOf(c) = "unsent" /\ ElementStateOf(c)' = "accepted"
      BY <3>1 DEF ElementStateOf, Accepted, At
    <3>3. \A d \in Calls \ {c} : ElementStateOf(d)' = ElementStateOf(d)
      BY <2>4, <2>b DEF Receive, ElementStateOf, Accepted, At, TypeOK
    <3>4. PoolElement' = [PoolElement EXCEPT ![c] = "accepted"]
      BY <3>2, <3>3, OneElementMoves
    <3>5. UNCHANGED <<PoolBusy, chanClosed, shutdown>>
      BY <2>4, SameBusy DEF Receive, downVars
    <3>6. Pool!Accept(c)
      BY <3>1, <3>2, <3>4, <3>5 
         DEF Pool!Accept, Pool!Advance, PoolElement, PoolBusy, PoolStopped
    <3> QED
      BY <3>6 DEF Pool!Next
  <2>5. CASE CountElement \/ ReceiveClosed
    BY <2>5, <2>a, SameElements
       DEF CountElement, ReceiveClosed, sendVars, downVars, PoolStopped
  <2>6. CASE Acquire
    <3>1. /\ hand \in Calls /\ worker[hand] = "none" /\ hand \in Accepted
          /\ worker'[hand] = "handling"
      BY <2>6, <2>b DEF Acquire, TypeOK, ElementsPlaced
    <3>2. ElementStateOf(hand) = "accepted"
      BY <3>1, ElementStates
    <3>3. \A d \in Calls \ {hand} : ElementStateOf(d)' = ElementStateOf(d)
      BY <2>6, <2>b DEF Acquire, sendVars, ElementStateOf, Accepted, At, TypeOK
    <3>4. PoolElement' = [PoolElement EXCEPT ![hand] = "handling"]
      <4>1. \A d \in Calls : ElementStateOf(d)' =
                IF d = hand THEN "handling" ELSE ElementStateOf(d)
        BY <3>1, <3>3 DEF ElementStateOf
      <4> QED
        BY <4>1 DEF PoolElement
    <3>5. UNCHANGED <<chanClosed, shutdown>>
      BY <2>6 DEF Acquire, downVars
    <3>6. PoolBusy < MaxConcurrency
      <4>1. InHandler \in SUBSET HoldingSlot /\ HoldingSlot \in SUBSET Calls
        BY DEF InHandler, HoldingSlot
      <4>2. IsFiniteSet(HoldingSlot) /\ IsFiniteSet(InHandler)
        BY <4>1, FS_Subset
      <4>3. /\ Cardinality(InHandler) <= Cardinality(HoldingSlot)
            /\ Cardinality(InHandler) \in Nat
            /\ Cardinality(HoldingSlot) \in Nat
        BY <4>1, <4>2, FS_Subset, FS_CardinalityType
      <4> QED
        BY <2>6, <4>3 DEF Acquire, IndInv, Counters, PoolBusy
    <3>7. PoolBusy' = PoolBusy + 1
      <4>1. hand \notin InHandler /\ InHandler \in SUBSET Calls
        BY <3>1 DEF InHandler
      <4>2. InHandler' = InHandler \cup {hand}
        BY <2>6, <2>b, <3>1 DEF InHandler, Acquire, TypeOK
      <4> QED
        BY <3>1, <4>1, <4>2, CallSets DEF PoolBusy
    <3>8. Pool!Start(hand)
      BY <3>1, <3>2, <3>4, <3>5, <3>6, <3>7
         DEF Pool!Start, Pool!Advance, PoolElement, PoolBusy
    <3> QED
      BY <3>1, <3>8 DEF Pool!Next
  <2>7. ASSUME NEW c \in Calls, HandleReturn(c)
        PROVE  Pool!Next
    <3>1. worker[c] = "handling" /\ worker'[c] = "handled"
      BY <2>7, <2>b DEF HandleReturn, TypeOK
    <3>2. ElementStateOf(c) = "handling" /\ ElementStateOf(c)' = "handled"
      BY <3>1 DEF ElementStateOf
    <3>3. \A d \in Calls \ {c} : ElementStateOf(d)' = ElementStateOf(d)
      BY <2>7, <2>b DEF HandleReturn, sendVars, ElementStateOf, Accepted, At, TypeOK
    <3>4. PoolElement' = [PoolElement EXCEPT ![c] = "handled"]
      BY <3>2, <3>3, OneElementMoves
    <3>5. UNCHANGED <<chanClosed, shutdown>>
      BY <2>7 DEF HandleReturn, downVars
    <3>6. PoolBusy' = PoolBusy - 1
      <4>1. c \in InHandler /\ InHandler \in SUBSET Calls
        BY <3>1 DEF InHandler
      <4>2. InHandler' = InHandler \ {c}
        BY <2>7, <2>b DEF InHandler, HandleReturn, TypeOK
      <4> QED
        BY <4>1, <4>2, CallSets DEF PoolBusy
    <3>7. Pool!Finish(c)
      BY <3>2, <3>4, <3>5, <3>6 DEF Pool!Finish, Pool!Advance, PoolElement, PoolBusy
    <3> QED
      BY <3>7 DEF Pool!Next
  <2>8. ASSUME NEW c \in Calls, ReleaseSlot(c) \/ WorkerDone(c)
        PROVE  UNCHANGED Pool!poolVars
    <3>1. \A d \in Calls : ElementStateOf(d)' = ElementStateOf(d)
      BY <2>8, <2>b DEF ReleaseSlot, WorkerDone, sendVars, ElementStateOf,
                        Accepted, At, TypeOK
    <3> QED
      BY <2>8, <2>b, <2>a, <3>1, NoElementMoves, SameBusy
         DEF ReleaseSlot, WorkerDone, downVars, PoolStopped, TypeOK
  <2>9. CASE BeginClose
    <3>1. PoolElement' = PoolElement /\ PoolBusy' = PoolBusy
      BY <2>9, SameElements DEF BeginClose, sendVars, runVars
    <3>2. ~chanClosed /\ chanClosed' /\ ~PoolStopped /\ ~PoolStopped'
      BY <2>9, <2>b DEF BeginClose, ShutdownOrder, PoolStopped
    <3>3. Pool!Close
      BY <3>1, <3>2 DEF Pool!Close, PoolElement, PoolBusy, PoolStopped
    <3> QED
      BY <3>3 DEF Pool!Next
  <2>10. CASE AwaitAdders \/ CloseElements \/ AwaitExited \/ ShutdownHandler
    <3>1. PoolElement' = PoolElement /\ PoolBusy' = PoolBusy
      BY <2>10, SameElements
         DEF AwaitAdders, CloseElements, AwaitExited, ShutdownHandler,
             sendVars, runVars
    <3> QED
      BY <2>10, <2>a, <3>1
         DEF AwaitAdders, CloseElements, AwaitExited, ShutdownHandler,
             downVars, PoolStopped
  <2>11. CASE AwaitWorkers
    <3>1. PoolElement' = PoolElement /\ PoolBusy' = PoolBusy
      BY <2>11, SameElements DEF AwaitWorkers, sendVars, runVars
    <3>2. chanClosed /\ chanClosed' /\ ~PoolStopped /\ PoolStopped'
      BY <2>11, <2>b DEF AwaitWorkers, ShutdownOrder, PoolStopped
    <3>3. Unfinished = {} /\ hand = None
      BY <2>11, <2>b DEF AwaitWorkers, ShutdownOrder, ElementsPlaced, Unfinished, sendVars, runVars
    <3>4. \A c \in Calls : ElementStateOf(c) \notin {"accepted", "handling"}
      BY <2>b, <3>3 DEF ElementStateOf, Unfinished, ElementsPlaced, TypeOK, WorkerStep
    <3>5. Pool!In("accepted") \cup Pool!In("handling") = {}
      BY <3>4 DEF Pool!In
    <3>6. Pool!Stop
      BY <3>1, <3>2, <3>5 DEF Pool!Stop, PoolElement, PoolBusy, PoolStopped
    <3> QED
      BY <3>6 DEF Pool!Next
  <2>12. CASE UNCHANGED vars
    BY <2>12, <2>a, SameElements DEF vars, sendVars, runVars, downVars, PoolStopped
  <2> QED
    BY <2>1, <2>2, <2>3, <2>4, <2>5, <2>6, <2>7, <2>8, <2>9, <2>10, <2>11, <2>12
       DEF Next, SendNext, WorkerNext, RunNext, ShutdownNext
<1> QED
  BY Invariance, <1>1, <1>2, PTL DEF Spec, ImplementsWorkPool, Pool!Spec

-----------------------------------------------------------------------------
(* The other queue of pkg/server: theorems about CronServer.tla, for every *)
(* set of elements, their times and every horizon of the clock.            *)

\* How many members of a set of numbers are not greater than one.
UpTo(S, i) == {k \in S : k <= i}

\* The members of a finite set of numbers are counted in their order.
LEMMA Counted ==
  ASSUME NEW S \in SUBSET Nat, IsFiniteSet(S)
  PROVE  /\ Cardinality(S) \in Nat
         /\ \A i \in S : Cardinality(UpTo(S, i)) \in 1..Cardinality(S)
         /\ \A i, k \in S : i < k => Cardinality(UpTo(S, i)) < Cardinality(UpTo(S, k))
         /\ \A n \in 1..Cardinality(S) : \E i \in S : Cardinality(UpTo(S, i)) = n
<1> DEFINE c == Cardinality(S)
           f == [i \in S |-> Cardinality(UpTo(S, i))]
<1>1. c \in Nat
  BY FS_CardinalityType
<1>2. ASSUME NEW i \in S
      PROVE  IsFiniteSet(UpTo(S, i)) /\ Cardinality(UpTo(S, i)) \in 1..c
  <2>1. UpTo(S, i) \in SUBSET S /\ i \in UpTo(S, i)
    BY DEF UpTo
  <2>2. IsFiniteSet(UpTo(S, i)) /\ Cardinality(UpTo(S, i)) <= c
    BY <2>1, FS_Subset
  <2>3. Cardinality(UpTo(S, i)) \in Nat
    BY <2>2, FS_CardinalityType
  <2>4. Cardinality(UpTo(S, i)) # 0
    BY <2>1, <2>2, FS_EmptySet
  <2> QED
    BY <1>1, <2>2, <2>3, <2>4
<1>3. ASSUME NEW i \in S, NEW k \in S, i < k
      PROVE  Cardinality(UpTo(S, i)) < Cardinality(UpTo(S, k))
  <2>1. UpTo(S, i) \in SUBSET UpTo(S, k) /\ k \notin UpTo(S, i) /\ k \in UpTo(S, k)
    <3>1. \A x \in S : x \in Nat
      OBVIOUS
    <3>2. i \in Nat /\ k \in Nat /\ i < k
      BY <1>3, <3>1
    <3>3. \A x \in S : x <= i => x <= k
      BY <3>1, <3>2
    <3>4. ~(k <= i) /\ k <= k
      BY <3>2
    <3> QED
      BY <3>3, <3>4 DEF UpTo
  <2>2. Cardinality(UpTo(S, i)) <= Cardinality(UpTo(S, k))
    BY <1>2, <2>1, FS_Subset
  <2>3. Cardinality(UpTo(S, i)) # Cardinality(UpTo(S, k))
    BY <1>2, <2>1, FS_Subset
  <2> QED
    BY <1>2, <2>2, <2>3
<1>4. \A n \in 1..c : \E i \in S : f[i] = n
  <2>1. f \in [S -> 1..c]
    BY <1>2
  <2>2. \A i, k \in S : f[i] = f[k] => i = k
    <3> SUFFICES ASSUME NEW i \in S, NEW k \in S, f[i] = f[k] PROVE i = k
      OBVIOUS
    <3>1. ~(i < k) /\ ~(k < i)
      BY <1>2, <1>3
    <3> QED
      BY <3>1
  <2>3. IsFiniteSet(1..c) /\ Cardinality(1..c) = c
    BY <1>1, FS_Interval
  <2> HIDE DEF f, c
  <2>4. f \in Injection(S, 1..c)
    BY <2>1, <2>2, Fun_IsInj
  <2>5. f \in Surjection(S, 1..c)
    BY <2>3, <2>4, FS_Injection DEF c
  <2> QED
    BY <2>5 DEF Surjection
<1> QED
  BY <1>1, <1>2, <1>3, <1>4

\* A set of numbers has a least one.
LEMMA LeastOf ==
  ASSUME NEW S \in SUBSET Nat, IsFiniteSet(S), S # {}
  PROVE  \E m \in S : \A k \in S : m <= k
<1>1. Cardinality(S) \in Nat /\ Cardinality(S) # 0
  BY FS_CardinalityType, FS_EmptySet
<1>2. PICK m \in S : Cardinality(UpTo(S, m)) = 1
  BY <1>1, Counted
<1>3. \A k \in S : ~(k < m)
  <2> SUFFICES ASSUME NEW k \in S, k < m PROVE FALSE
    OBVIOUS
  <2>1. Cardinality(UpTo(S, k)) \in Nat \ {0}
    BY <1>1, Counted
  <2>2. Cardinality(UpTo(S, k)) < 1
    BY <1>2, Counted
  <2> QED
    BY <2>1, <2>2
<1> QED
  BY <1>3

\* The list is ordered by the times of its elements.
ListOrdered == \A i, k \in DOMAIN list : i <= k => TriggerAt[list[i]] <= TriggerAt[list[k]]

\* The inductive invariant of CronServer.
CronInv == CronTypeOK /\ ListOrdered /\ NeverOversleeps

\* ProcessArrived keeps the elements that have not arrived in their order.
LEMMA RemainingIs ==
  ASSUME CronTypeOK, ListOrdered, list' = Remaining
  PROVE  list' \in Seq(Elements) /\ ListOrdered'
<1>1. list \in Seq(Elements) /\ DOMAIN list = 1..Len(list) /\ Len(list) \in Nat
  BY DEF CronTypeOK
<1>2. Kept \in SUBSET Nat /\ Kept \subseteq DOMAIN list /\ IsFiniteSet(Kept)
  <2>1. IsFiniteSet(1..Len(list))
    BY <1>1, FS_Interval
  <2>2. Kept \subseteq 1..Len(list)
    BY <1>1 DEF Kept
  <2>3. IsFiniteSet(Kept)
    BY <2>1, <2>2, FS_Subset
  <2> QED
    BY <1>1, <2>2, <2>3
<1> DEFINE c == Cardinality(Kept)
           at == [n \in 1..c |-> CHOOSE i \in Kept : Place(i) = n]
<1>3. \A i : Place(i) = Cardinality(UpTo(Kept, i))
  BY DEF Place, UpTo
<1>4. c \in Nat
  BY <1>2, Counted
<1>5. \A n \in 1..c : at[n] \in Kept /\ Place(at[n]) = n
  <2>1. \A n \in 1..c : \E i \in Kept : Place(i) = n
    BY <1>2, <1>3, Counted
  <2> QED
    BY <2>1
<1>6. list' = [n \in 1..c |-> list[at[n]]]
  BY DEF Remaining
<1> HIDE DEF c, at
<1>7. \A n, m \in 1..c : n <= m => at[n] <= at[m]
  <2> SUFFICES ASSUME NEW n \in 1..c, NEW m \in 1..c, n <= m, ~(at[n] <= at[m]) PROVE FALSE
    OBVIOUS
  <2>1. at[n] \in Kept /\ at[m] \in Kept /\ Place(at[n]) = n /\ Place(at[m]) = m
    BY <1>5
  <2>2. at[n] \in Nat /\ at[m] \in Nat
    BY <1>2, <2>1
  <2>3. at[m] < at[n]
    BY <2>2
  <2>4. Place(at[m]) < Place(at[n])
    BY <1>2, <1>3, <2>1, <2>3, Counted
  <2> QED
    BY <1>4, <2>1, <2>4
<1>8. \A n \in 1..c : at[n] \in DOMAIN list /\ list[at[n]] \in Elements
  <2>1. \A i \in Kept : i \in DOMAIN list /\ list[i] \in Elements
    BY <1>1, <1>2
  <2> QED
    BY <1>5, <2>1
<1>9. list' \in Seq(Elements)
  BY <1>4, <1>6, <1>8
<1>10. DOMAIN list' = 1..c /\ \A n \in 1..c : list'[n] = list[at[n]]
  BY <1>6
<1>11. ListOrdered'
  BY <1>7, <1>8, <1>10 DEF ListOrdered
<1> QED
  BY <1>9, <1>11

\* Insert puts the element where the list stays ordered, and adds no other.
LEMMA InsertIs ==
  ASSUME CronTypeOK, ListOrdered,
         NEW e \in Elements, list' = Insert(e, InsertPosition(e))
  PROVE  /\ list' \in Seq(Elements)
         /\ ListOrdered'
         /\ \A i \in DOMAIN list' : list'[i] = e \/ \E k \in DOMAIN list : list'[i] = list[k]
<1> DEFINE n == Len(list)
           p == InsertPosition(e)
<1>1. list \in Seq(Elements) /\ DOMAIN list = 1..n /\ n \in Nat
  BY DEF CronTypeOK
<1>2. \A i \in 1..n : list[i] \in Elements /\ TriggerAt[list[i]] \in Nat
  BY <1>1, TriggerAtAssumption
<1>3. TriggerAt[e] \in Nat
  BY TriggerAtAssumption
<1>4. After(e) \in SUBSET (1..n) /\ IsFiniteSet(After(e))
  <2>1. IsFiniteSet(1..n)
    BY <1>1, FS_Interval
  <2>2. After(e) \in SUBSET (1..n)
    BY <1>1 DEF After
  <2> QED
    BY <2>1, <2>2, FS_Subset
<1>5. /\ p \in 1..(n + 1)
      /\ \A i \in 1..(p - 1) : TriggerAt[list[i]] <= TriggerAt[e]
      /\ \A i \in p..n : TriggerAt[e] <= TriggerAt[list[i]]
  <2>1. CASE After(e) = {}
    <3>1. p = n + 1
      BY <2>1 DEF InsertPosition
    <3>2. \A i \in 1..n : TriggerAt[list[i]] <= TriggerAt[e]
      BY <1>1, <1>2, <1>3, <2>1 DEF After
    <3> HIDE DEF p
    <3> QED
      BY <1>1, <3>1, <3>2
  <2>2. CASE After(e) # {}
    <3>1. \E m \in After(e) : \A k \in After(e) : m <= k
      BY <1>4, <2>2, LeastOf
    <3>2. p \in After(e) /\ \A k \in After(e) : p <= k
      BY <2>2, <3>1 DEF InsertPosition
    <3> HIDE DEF p
    <3>3. p \in 1..n /\ TriggerAt[list[p]] > TriggerAt[e]
      BY <1>1, <1>4, <3>2 DEF After
    <3>4. \A i \in 1..(p - 1) : TriggerAt[list[i]] <= TriggerAt[e]
      BY <1>1, <1>2, <1>3, <3>2, <3>3 DEF After
    <3>5. \A i \in p..n : TriggerAt[e] <= TriggerAt[list[i]]
      BY <1>1, <1>2, <1>3, <3>3 DEF ListOrdered
    <3> QED
      BY <1>1, <3>3, <3>4, <3>5
  <2> QED
    BY <2>1, <2>2
<1>6. list' = SubSeq(list, 1, p - 1) \o <<e>> \o SubSeq(list, p, n)
  BY DEF Insert, InsertAt
<1> HIDE DEF p, n
<1>7. /\ list' \in Seq(Elements)
      /\ DOMAIN list' = 1..(n + 1)
      /\ \A i \in 1..(n + 1) : list'[i] = IF i < p THEN list[i] ELSE IF i = p THEN e ELSE list[i - 1]
  <2> DEFINE a == SubSeq(list, 1, p - 1)
             b == SubSeq(list, p, n)
  <2>1. p \in Nat \ {0} /\ p <= n + 1
    BY <1>1, <1>5
  <2>2. /\ a \in Seq(Elements) /\ Len(a) = p - 1
        /\ \A i \in 1..(p - 1) : a[i] = list[i]
    BY <1>1, <2>1 DEF n
  <2>3. /\ b \in Seq(Elements) /\ Len(b) = n - p + 1
        /\ \A i \in 1..(n - p + 1) : b[i] = list[i + p - 1]
    BY <1>1, <2>1 DEF n
  <2> HIDE DEF a, b
  <2>4. /\ a \o <<e>> \in Seq(Elements) /\ Len(a \o <<e>>) = p
        /\ \A i \in 1..p : (a \o <<e>>)[i] = IF i < p THEN a[i] ELSE e
    BY <2>1, <2>2
  <2> DEFINE d == a \o <<e>>
  <2> HIDE DEF d
  <2>5. /\ d \in Seq(Elements) /\ Len(d) = p
        /\ \A i \in 1..p : d[i] = IF i < p THEN a[i] ELSE e
    BY <2>4 DEF d
  <2>6. list' = d \o b
    BY <1>6 DEF a, b, d
  <2> DEFINE t == d \o b
  <2>7. /\ t \in Seq(Elements)
        /\ Len(t) = Len(d) + Len(b)
        /\ \A i \in 1..(Len(d) + Len(b)) : t[i] = IF i <= Len(d) THEN d[i] ELSE b[i - Len(d)]
    BY <2>3, <2>5, ConcatProperties
  <2> HIDE DEF t
  <2>8. Len(d) = p /\ Len(d) + Len(b) = n + 1
    BY <1>1, <2>1, <2>3, <2>5
  <2>9. Len(t) = n + 1 /\ \A i \in 1..(n + 1) : t[i] = IF i <= p THEN d[i] ELSE b[i - p]
    BY <2>7, <2>8
  <2>10. \A i \in (p + 1)..(n + 1) : b[i - p] = list[i - 1]
    <3> SUFFICES ASSUME NEW i \in (p + 1)..(n + 1) PROVE b[i - p] = list[i - 1]
      OBVIOUS
    <3>1. i - p \in 1..(n - p + 1) /\ (i - p) + p - 1 = i - 1
      BY <1>1, <2>1
    <3>2. b[i - p] = list[(i - p) + p - 1]
      BY <2>3, <3>1
    <3> QED
      BY <3>1, <3>2
  <2>11. ASSUME NEW i \in 1..(n + 1)
         PROVE  t[i] = IF i < p THEN list[i] ELSE IF i = p THEN e ELSE list[i - 1]
    <3>1. CASE i <= p
      <4>1. i \in 1..p /\ t[i] = d[i]
        BY <2>1, <2>9, <3>1
      <4>2. t[i] = IF i < p THEN a[i] ELSE e
        BY <2>5, <4>1
      <4>3. i < p => a[i] = list[i]
        BY <2>1, <2>2
      <4>4. i < p \/ i = p
        BY <2>1, <3>1
      <4> QED
        BY <4>2, <4>3, <4>4
    <3>2. CASE i > p
      <4>1. ~(i <= p) /\ ~(i < p) /\ i # p /\ i \in (p + 1)..(n + 1)
        BY <1>1, <2>1, <3>2
      <4>2. t[i] = b[i - p]
        BY <2>9, <4>1
      <4> QED
        BY <2>10, <4>1, <4>2
    <3> QED
      BY <2>1, <3>1, <3>2
  <2>12. DOMAIN t = 1..(n + 1)
    BY <1>1, <2>7, <2>9
  <2>13. list' = t
    BY <2>6 DEF t
  <2> QED
    BY <2>7, <2>11, <2>12, <2>13
<1>8. ListOrdered'
  <2> SUFFICES ASSUME NEW i \in 1..(n + 1), NEW k \in 1..(n + 1), i <= k
               PROVE  TriggerAt[list'[i]] <= TriggerAt[list'[k]]
    BY <1>7 DEF ListOrdered
  <2>1. \A x, y \in 1..n : x <= y => TriggerAt[list[x]] <= TriggerAt[list[y]]
    BY <1>1 DEF ListOrdered
  <2>2. p \in Nat \ {0} /\ p <= n + 1
    BY <1>1, <1>5
  <2>3. \A x \in 1..(p - 1) : x \in 1..n /\ TriggerAt[list[x]] <= TriggerAt[e]
    BY <1>1, <1>5, <2>2
  <2>4. \A x \in p..n : x \in 1..n /\ TriggerAt[e] <= TriggerAt[list[x]]
    BY <1>1, <1>5, <2>2
  <2>5. CASE k < p
    <3>1. i \in 1..n /\ k \in 1..n
      BY <1>1, <2>2, <2>5
    <3>2. list'[i] = list[i] /\ list'[k] = list[k]
      BY <1>7, <2>2, <2>5
    <3> QED
      BY <2>1, <3>1, <3>2
  <2>6. CASE k = p /\ i < p
    <3>1. i \in 1..(p - 1)
      BY <1>1, <2>2, <2>6
    <3>2. list'[i] = list[i] /\ list'[k] = e
      BY <1>7, <2>2, <2>6
    <3> QED
      BY <2>3, <3>1, <3>2
  <2>7. CASE i = p /\ k = p
    <3>1. list'[i] = e /\ list'[k] = e
      BY <1>7, <2>2, <2>7
    <3> QED
      BY <1>3, <3>1
  <2>8. CASE k > p
    <3>1. k - 1 \in p..n /\ k - 1 \in 1..n /\ list'[k] = list[k - 1]
      BY <1>1, <1>7, <2>2, <2>8
    <3>2. CASE i < p
      <4>1. i \in 1..(p - 1) /\ i \in 1..n /\ i <= k - 1 /\ list'[i] = list[i]
        BY <1>1, <1>7, <2>2, <2>8, <3>2
      <4> QED
        BY <2>1, <3>1, <4>1
    <3>3. CASE i = p
      <4>1. list'[i] = e
        BY <1>7, <2>2, <3>3
      <4> QED
        BY <2>4, <3>1, <4>1
    <3>4. CASE i > p
      <4>1. i - 1 \in 1..n /\ i - 1 <= k - 1 /\ list'[i] = list[i - 1]
        BY <1>1, <1>7, <2>2, <3>4
      <4> QED
        BY <2>1, <3>1, <4>1
    <3> QED
      BY <2>2, <3>2, <3>3, <3>4
  <2> QED
    BY <2>2, <2>5, <2>6, <2>7, <2>8
<1>9. \A i \in DOMAIN list' : list'[i] = e \/ \E k \in DOMAIN list : list'[i] = list[k]
  <2>a. DOMAIN list' = 1..(n + 1) /\ list'[p] = e
    BY <1>1, <1>5, <1>7
  <2>b. DOMAIN list = 1..n
    BY <1>1
  <2> SUFFICES ASSUME NEW i \in 1..(n + 1), i # p
               PROVE  \E k \in 1..n : list'[i] = list[k]
    BY <2>a, <2>b
  <2>1. CASE i < p
    <3>1. i \in 1..n /\ list'[i] = list[i]
      BY <1>1, <1>5, <1>7, <2>1
    <3> QED
      BY <3>1
  <2>2. CASE i > p
    <3>1. i - 1 \in 1..n /\ list'[i] = list[i - 1]
      BY <1>1, <1>5, <1>7, <2>2
    <3> QED
      BY <3>1
  <2>3. i \in Nat /\ p \in Nat
    BY <1>1, <1>5
  <2> QED
    BY <2>1, <2>2, <2>3
<1> QED
  BY <1>7, <1>8, <1>9
-----------------------------------------------------------------------------
(* The steps of CronServer *)

\* An element that wakes nobody is triggered no earlier than the first one, and
\* so no earlier than the loop wakes; one that is triggered earlier holds the mutex.
LEMMA SendInsertStep ==
  ASSUME CronInv, NEW e \in Elements, SendInsert(e)
  PROVE  CronInv'
<1>1. /\ list' \in Seq(Elements)
      /\ ListOrdered'
      /\ \A i \in DOMAIN list' : list'[i] = e \/ \E k \in DOMAIN list : list'[i] = list[k]
  BY InsertIs DEF CronInv, SendInsert
<1>2. CronTypeOK'
  BY <1>1 DEF CronInv, CronTypeOK, SendInsert, loopVars, SendingStep
<1>3. NeverOversleeps'
  <2> SUFFICES ASSUME loop = "waiting", MutexFree'
               PROVE  \A i \in DOMAIN list' : deadline <= TriggerAt[list'[i]]
    BY DEF NeverOversleeps, SendInsert, loopVars
  <2>1. MutexFree /\ ~BecomesFirst(e)
    BY DEF SendInsert, MutexFree, CronInv, CronTypeOK
  <2>2. \A i \in DOMAIN list : deadline <= TriggerAt[list[i]]
    BY <2>1 DEF CronInv, NeverOversleeps
  <2>3. list # <<>> /\ ~(TriggerAt[e] < TriggerAt[Head(list)])
    BY <2>1 DEF BecomesFirst
  <2>4. list \in Seq(Elements) /\ 1 \in DOMAIN list /\ Head(list) = list[1] /\ list[1] \in Elements
    BY <2>3 DEF CronInv, CronTypeOK
  <2>5. deadline \in Nat /\ TriggerAt[e] \in Nat /\ TriggerAt[list[1]] \in Nat
    BY <2>4, TriggerAtAssumption DEF CronInv, CronTypeOK
  <2>6. deadline <= TriggerAt[e]
    BY <2>2, <2>3, <2>4, <2>5
  <2> QED
    BY <1>1, <2>2, <2>6
<1> QED
  BY <1>1, <1>2, <1>3 DEF CronInv

\* The loop sleeps until the first element, and the list is ordered.
LEMMA NextTriggerAtStep ==
  ASSUME CronInv, NextTriggerAt
  PROVE  CronInv'
<1>1. /\ list \in Seq(Elements) /\ now \in Nat
      /\ \A i \in DOMAIN list : list[i] \in Elements /\ TriggerAt[list[i]] \in Nat
  BY TriggerAtAssumption, TimeAssumption DEF CronInv, CronTypeOK
<1>2. CASE list = <<>>
  <2>1. deadline' = now + Hour /\ deadline' \in Nat
    BY <1>1, <1>2, TimeAssumption DEF NextTriggerAt, SleepUntil
  <2>2. DOMAIN list = {}
    BY <1>2
  <2>3. CronTypeOK'
    BY <2>1 DEF CronInv, CronTypeOK, NextTriggerAt, LoopStep
  <2>4. ListOrdered'
    BY DEF CronInv, ListOrdered, NextTriggerAt
  <2>5. NeverOversleeps'
    BY <2>2 DEF NeverOversleeps, NextTriggerAt
  <2> QED
    BY <2>3, <2>4, <2>5 DEF CronInv
<1>3. CASE list # <<>>
  <2>1. 1 \in DOMAIN list /\ Head(list) = list[1]
    BY <1>1, <1>3
  <2>2. deadline' = TriggerAt[list[1]]
    BY <1>3, <2>1 DEF NextTriggerAt, SleepUntil
  <2>3. CronTypeOK'
    BY <1>1, <2>1, <2>2 DEF CronInv, CronTypeOK, NextTriggerAt, LoopStep
  <2>4. ListOrdered'
    BY DEF CronInv, ListOrdered, NextTriggerAt
  <2>5. \A i \in DOMAIN list : 1 <= i
    BY <1>1
  <2>6. \A i \in DOMAIN list : TriggerAt[list[1]] <= TriggerAt[list[i]]
    BY <2>1, <2>5 DEF CronInv, ListOrdered
  <2>7. NeverOversleeps'
    BY <2>2, <2>6 DEF NeverOversleeps, NextTriggerAt
  <2> QED
    BY <2>3, <2>4, <2>7 DEF CronInv
<1> QED
  BY <1>2, <1>3

\* The loop is awake.
LEMMA ProcessArrivedStep ==
  ASSUME CronInv, ProcessArrived
  PROVE  CronInv'
<1>1. list' \in Seq(Elements) /\ ListOrdered'
  BY RemainingIs DEF CronInv, ProcessArrived
<1>2. handler' \in [Elements -> HandlerStep]
  BY DEF CronInv, CronTypeOK, ProcessArrived, HandlerStep
<1>3. CronTypeOK'
  BY <1>1, <1>2 DEF CronInv, CronTypeOK, ProcessArrived, LoopStep
<1>4. NeverOversleeps'
  BY DEF ProcessArrived, NeverOversleeps
<1> QED
  BY <1>1, <1>3, <1>4 DEF CronInv

\* The other steps leave the list alone, and a signal ends the sleep.
LEMMA OtherStep ==
  ASSUME CronInv,
         \/ \E e \in Elements : SendSignal(e) \/ HandlerNext(e)
         \/ WakeUp \/ RunReturns \/ ShutdownBegin \/ ShutdownEnd \/ Tick
         \/ UNCHANGED cronVars
  PROVE  CronInv'
<1> USE DEF CronInv
<1>1. ListOrdered' /\ list' = list
  BY DEF ListOrdered, SendSignal, HandlerNext, HandlerStart,
         HandlerReturn, WakeUp, RunReturns,
         ShutdownBegin, ShutdownEnd, Tick, cronVars
<1>2. CronTypeOK'
  <2>1. CASE \E e \in Elements : SendSignal(e) \/ HandlerNext(e)
    BY <2>1
       DEF CronTypeOK, SendSignal, HandlerNext, HandlerStart,
           HandlerReturn, SendingStep, LoopStep,
           HandlerStep, loopVars
  <2>2. CASE WakeUp \/ RunReturns \/ ShutdownBegin \/ ShutdownEnd \/ UNCHANGED cronVars
    BY <2>2
       DEF CronTypeOK, WakeUp, RunReturns, ShutdownBegin,
           ShutdownEnd, LoopStep, ClosingStep, loopVars, cronVars
  <2>3. CASE Tick
    <3>1. now' \in 0..MaxTime
      BY <2>3, TimeAssumption DEF CronTypeOK, Tick
    <3> QED
      BY <2>3, <3>1 DEF CronTypeOK, Tick, loopVars
  <2> QED
    BY <2>1, <2>2, <2>3
<1>3. NeverOversleeps'
  BY DEF NeverOversleeps, MutexFree, SendSignal, HandlerNext,
         HandlerStart, HandlerReturn, WakeUp,
         RunReturns, ShutdownBegin, ShutdownEnd, Tick, loopVars, cronVars
<1> QED
  BY <1>1, <1>2, <1>3

\* The list of CronServer has its type and is ordered by trigger time, and the
\* Run loop never sleeps past an element of it.
THEOREM CronInvariance == CronSpec => []CronInv
<1>1. CronInit => CronInv
  <2> SUFFICES ASSUME CronInit PROVE CronInv
    OBVIOUS
  <2>1. list = <<>> /\ now = 0 /\ deadline = 0 /\ loop = "next"
    BY DEF CronInit
  <2>2. list \in Seq(Elements) /\ DOMAIN list = {}
    BY <2>1
  <2>3. now \in 0..MaxTime /\ deadline \in Nat
    BY <2>1, TimeAssumption
  <2>4. CronTypeOK
    BY <2>2, <2>3
       DEF CronInit, CronTypeOK, SendingStep, LoopStep, HandlerStep,
           ClosingStep
  <2>5. ListOrdered
    BY <2>2 DEF ListOrdered
  <2>6. NeverOversleeps
    BY <2>1 DEF NeverOversleeps
  <2> QED
    BY <2>4, <2>5, <2>6 DEF CronInv
<1>2. CronInv /\ [CronNext]_cronVars => CronInv'
  BY SendInsertStep, NextTriggerAtStep, ProcessArrivedStep, OtherStep DEF CronNext, LoopNext
<1> QED
  BY <1>1, <1>2, PTL DEF CronSpec

\* CronServer has its type (cron_server.go:18-31): the clock, the list, where every
\* call of Send, the Run loop, every goroutine and Shutdown are.
THEOREM CronTypeCorrect == CronSpec => []CronTypeOK
<1>1. CronInv => CronTypeOK
  BY DEF CronInv
<1> QED
  BY <1>1, CronInvariance, PTL

\* cron_server.go:67-92, 98-119: while the Run loop sleeps, its timer ends by the
\* time of every element, or a sender that holds the mutex is about to wake it.
THEOREM NeverOversleepsAlways == CronSpec => []NeverOversleeps
<1>1. CronInv => NeverOversleeps
  BY DEF CronInv
<1> QED
  BY <1>1, CronInvariance, PTL

=============================================================================
