------------------------------ MODULE WorkPool ------------------------------
(***************************************************************************)
(* What a BaseConsumer (src/pkg/server/consumer.go) promises to the        *)
(* servers that share it, whatever channels, semaphores and wait groups    *)
(* it is made of:                                                          *)
(*                                                                         *)
(*   - an element is either accepted or discarded, never both, and it is   *)
(*     only discarded once the producer was closed;                        *)
(*   - an accepted element is handled exactly once, and at most            *)
(*     MaxConcurrency elements are in their handler at a time;             *)
(*   - the pool stops only when nothing accepted is left to handle, and    *)
(*     nothing is accepted or handled after that.                          *)
(*                                                                         *)
(* Consumer.tla is shown to implement this specification.                  *)
(***************************************************************************)
EXTENDS Naturals

CONSTANTS
  Calls,          \* the calls of Send, each with an element of its own
  MaxConcurrency  \* how many elements may be in their handler at a time

VARIABLES
  element,  \* what became of the element of each call
  busy,     \* how many elements are in their handler
  open,     \* FALSE once the producer was closed
  stopped   \* TRUE once the handler itself may be shut down

poolVars == <<element, busy, open, stopped>>

ElementState == {"unsent", "accepted", "discarded", "handling", "handled"}

\* The calls whose element is in state s.
In(s) == {c \in Calls : element[c] = s}

Init ==
  /\ element = [c \in Calls |-> "unsent"]
  /\ busy = 0
  /\ open = TRUE
  /\ stopped = FALSE

Advance(c, from, to) ==
  /\ element[c] = from
  /\ element' = [element EXCEPT ![c] = to]

\* A sender that saw the producer open may still hand over its element while
\* the producer is being closed, so accepting asks only that the pool runs.
Accept(c) ==
  /\ ~stopped
  /\ Advance(c, "unsent", "accepted")
  /\ UNCHANGED <<busy, open, stopped>>

Discard(c) ==
  /\ ~open
  /\ Advance(c, "unsent", "discarded")
  /\ UNCHANGED <<busy, open, stopped>>

Start(c) ==
  /\ busy < MaxConcurrency
  /\ busy' = busy + 1
  /\ Advance(c, "accepted", "handling")
  /\ UNCHANGED <<open, stopped>>

Finish(c) ==
  /\ busy' = busy - 1
  /\ Advance(c, "handling", "handled")
  /\ UNCHANGED <<open, stopped>>

Close ==
  /\ open
  /\ open' = FALSE
  /\ UNCHANGED <<element, busy, stopped>>

Stop ==
  /\ ~open
  /\ ~stopped
  /\ In("accepted") \cup In("handling") = {}
  /\ stopped' = TRUE
  /\ UNCHANGED <<element, busy, open>>

Next ==
  \/ \E c \in Calls : Accept(c) \/ Discard(c) \/ Start(c) \/ Finish(c)
  \/ Close
  \/ Stop

Spec == Init /\ [][Next]_poolVars

=============================================================================
