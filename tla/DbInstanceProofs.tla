-------------------------- MODULE DbInstanceProofs --------------------------
(***************************************************************************)
(* Proofs about DbInstance.tla, for every number of streams and calls: the *)
(* Online flag never outlives the last stream, and where the handlers of   *)
(* two streams do not overlap, no job is given to the agent twice, none is *)
(* forgotten, and an instance that serves is known to be online.           *)
(*                                                                         *)
(* IndInv is proved one part at a time; each part needs TypeOK and the     *)
(* parts before it.                                                        *)
(***************************************************************************)
EXTENDS DbInstance, TLAPS

\* svc_register.go, db-instance.go: every step of every goroutine keeps the
\* state in its types.
LEMMA TypeStep ==
  ASSUME TypeOK,
         [Next]_vars
  PROVE  TypeOK'
<1>0. NoJob \notin Calls
  BY NoJobAssumption
<1>1. TypeOK
  OBVIOUS
<1>2. ASSUME NEW s \in Sessions, Connect(s) PROVE  TypeOK'
  BY <1>0, <1>1, <1>2 DEF TypeOK, SessionStep, CallStep, sessionVars,
    history, Connect
<1>3. ASSUME NEW s \in Sessions, Break(s) PROVE  TypeOK'
  BY <1>0, <1>1, <1>3 DEF TypeOK, SessionStep, CallStep, sessionVars,
    history, Break
<1>4. ASSUME NEW s \in Sessions, UpdateDatabases(s) PROVE  TypeOK'
  BY <1>0, <1>1, <1>4 DEF TypeOK, SessionStep, CallStep, sessionVars,
    history, UpdateDatabases, Move
<1>5. ASSUME NEW s \in Sessions, GoOnline(s) PROVE  TypeOK'
  BY <1>0, <1>1, <1>5 DEF TypeOK, SessionStep, CallStep, sessionVars,
    history, GoOnline, Move
<1>6. ASSUME NEW s \in Sessions, NotifyUp(s) PROVE  TypeOK'
  BY <1>0, <1>1, <1>6 DEF TypeOK, SessionStep, CallStep, sessionVars,
    history, NotifyUp, Move
<1>7. ASSUME NEW s \in Sessions, ResendNothing(s) PROVE  TypeOK'
  BY <1>0, <1>1, <1>7 DEF TypeOK, SessionStep, CallStep, sessionVars,
    history, ResendNothing, Move
<1>8. ASSUME NEW s \in Sessions, Resend(s) PROVE  TypeOK'
  BY <1>0, <1>1, <1>8 DEF TypeOK, SessionStep, CallStep, sessionVars,
    history, Resend, Move, Sent
<1>9. ASSUME NEW s \in Sessions, ResendFails(s) PROVE  TypeOK'
  BY <1>0, <1>1, <1>9 DEF TypeOK, SessionStep, CallStep, sessionVars,
    history, ResendFails, Move
<1>10. ASSUME NEW s \in Sessions, ClearNonSent(s) PROVE  TypeOK'
  BY <1>0, <1>1, <1>10 DEF TypeOK, SessionStep, CallStep, sessionVars,
    history, ClearNonSent, Move
<1>11. ASSUME NEW s \in Sessions, NEW c \in Calls, TakeJob(s,
    c) PROVE  TypeOK'
  BY <1>0, <1>1, <1>11 DEF TypeOK, SessionStep, CallStep, sessionVars,
    history, TakeJob, Move
<1>12. ASSUME NEW s \in Sessions, Forward(s) PROVE  TypeOK'
  BY <1>0, <1>1, <1>12 DEF TypeOK, SessionStep, CallStep, sessionVars,
    history, Forward, Move, Sent
<1>13. ASSUME NEW s \in Sessions, ForwardFails(s) PROVE  TypeOK'
  BY <1>0, <1>1, <1>13 DEF TypeOK, SessionStep, CallStep, sessionVars,
    history, ForwardFails, Move
<1>14. ASSUME NEW s \in Sessions, StreamDone(s) PROVE  TypeOK'
  BY <1>0, <1>1, <1>14 DEF TypeOK, SessionStep, CallStep, sessionVars,
    history, StreamDone, Move
<1>15. ASSUME NEW s \in Sessions, GoOffline(s) PROVE  TypeOK'
  BY <1>0, <1>1, <1>15 DEF TypeOK, SessionStep, CallStep, sessionVars,
    history, GoOffline, Move
<1>16. ASSUME NEW s \in Sessions, NotifyDown(s) PROVE  TypeOK'
  BY <1>0, <1>1, <1>16 DEF TypeOK, SessionStep, CallStep, sessionVars,
    history, NotifyDown, Move
<1>17. ASSUME NEW c \in Calls, Admit(c) PROVE  TypeOK'
  BY <1>0, <1>1, <1>17 DEF TypeOK, SessionStep, CallStep, sessionVars,
    history, Admit
<1>18. ASSUME NEW c \in Calls, LockAndSend(c) PROVE  TypeOK'
  BY <1>0, <1>1, <1>18 DEF TypeOK, SessionStep, CallStep, sessionVars,
    history, LockAndSend
<1>19. CASE UNCHANGED vars
  BY <1>0, <1>1, <1>19 DEF TypeOK, SessionStep, CallStep, sessionVars,
    history, vars
<1>20. QED
  BY <1>1, <1>2, <1>3, <1>4, <1>5, <1>6, <1>7, <1>8, <1>9, <1>10, <1>11,
    <1>12, <1>13, <1>14, <1>15, <1>16, <1>17, <1>18, <1>19 DEF Next,
    RegisterNext

\* svc_register.go:44-52: whoever raised the Online flag lowers it on return.
LEMMA ServedStep ==
  ASSUME TypeOK, OnlineIsServed,
         [Next]_vars
  PROVE  OnlineIsServed'
<1>1. TypeOK /\ OnlineIsServed
  OBVIOUS
<1>2. ASSUME NEW s \in Sessions, Connect(s) PROVE  OnlineIsServed'
  BY <1>1, <1>2 DEF TypeOK, OnlineIsServed, Serves, sessionVars, history,
    Connect
<1>3. ASSUME NEW s \in Sessions, Break(s) PROVE  OnlineIsServed'
  BY <1>1, <1>3 DEF TypeOK, OnlineIsServed, Serves, sessionVars, history,
    Break
<1>4. ASSUME NEW s \in Sessions, UpdateDatabases(s) PROVE  OnlineIsServed'
  BY <1>1, <1>4 DEF TypeOK, OnlineIsServed, Serves, sessionVars, history,
    UpdateDatabases, Move
<1>5. ASSUME NEW s \in Sessions, GoOnline(s) PROVE  OnlineIsServed'
  BY <1>1, <1>5 DEF TypeOK, OnlineIsServed, Serves, sessionVars, history,
    GoOnline, Move
<1>6. ASSUME NEW s \in Sessions, NotifyUp(s) PROVE  OnlineIsServed'
  BY <1>1, <1>6 DEF TypeOK, OnlineIsServed, Serves, sessionVars, history,
    NotifyUp, Move
<1>7. ASSUME NEW s \in Sessions, ResendNothing(s) PROVE  OnlineIsServed'
  BY <1>1, <1>7 DEF TypeOK, OnlineIsServed, Serves, sessionVars, history,
    ResendNothing, Move
<1>8. ASSUME NEW s \in Sessions, Resend(s) PROVE  OnlineIsServed'
  BY <1>1, <1>8 DEF TypeOK, OnlineIsServed, Serves, sessionVars, history,
    Resend, Move, Sent
<1>9. ASSUME NEW s \in Sessions, ResendFails(s) PROVE  OnlineIsServed'
  BY <1>1, <1>9 DEF TypeOK, OnlineIsServed, Serves, sessionVars, history,
    ResendFails, Move
<1>10. ASSUME NEW s \in Sessions, ClearNonSent(s) PROVE  OnlineIsServed'
  BY <1>1, <1>10 DEF TypeOK, OnlineIsServed, Serves, sessionVars, history,
    ClearNonSent, Move
<1>11. ASSUME NEW s \in Sessions, NEW c \in Calls, TakeJob(s,
    c) PROVE  OnlineIsServed'
  BY <1>1, <1>11 DEF TypeOK, OnlineIsServed, Serves, sessionVars, history,
    TakeJob, Move
<1>12. ASSUME NEW s \in Sessions, Forward(s) PROVE  OnlineIsServed'
  BY <1>1, <1>12 DEF TypeOK, OnlineIsServed, Serves, sessionVars, history,
    Forward, Move, Sent
<1>13. ASSUME NEW s \in Sessions, ForwardFails(s) PROVE  OnlineIsServed'
  BY <1>1, <1>13 DEF TypeOK, OnlineIsServed, Serves, sessionVars, history,
    ForwardFails, Move
<1>14. ASSUME NEW s \in Sessions, StreamDone(s) PROVE  OnlineIsServed'
  BY <1>1, <1>14 DEF TypeOK, OnlineIsServed, Serves, sessionVars, history,
    StreamDone, Move
<1>15. ASSUME NEW s \in Sessions, GoOffline(s) PROVE  OnlineIsServed'
  BY <1>1, <1>15 DEF TypeOK, OnlineIsServed, Serves, sessionVars, history,
    GoOffline, Move
<1>16. ASSUME NEW s \in Sessions, NotifyDown(s) PROVE  OnlineIsServed'
  BY <1>1, <1>16 DEF TypeOK, OnlineIsServed, Serves, sessionVars, history,
    NotifyDown, Move
<1>17. ASSUME NEW c \in Calls, Admit(c) PROVE  OnlineIsServed'
  BY <1>1, <1>17 DEF TypeOK, OnlineIsServed, Serves, sessionVars, history,
    Admit
<1>18. ASSUME NEW c \in Calls, LockAndSend(c) PROVE  OnlineIsServed'
  BY <1>1, <1>18 DEF TypeOK, OnlineIsServed, Serves, sessionVars, history,
    LockAndSend
<1>19. CASE UNCHANGED vars
  BY <1>1, <1>19 DEF TypeOK, OnlineIsServed, Serves, sessionVars, history,
    vars
<1>20. QED
  BY <1>1, <1>2, <1>3, <1>4, <1>5, <1>6, <1>7, <1>8, <1>9, <1>10, <1>11,
    <1>12, <1>13, <1>14, <1>15, <1>16, <1>17, <1>18, <1>19 DEF Next,
    RegisterNext

\* svc_register.go:44-52: a handler that starts after the last one returned is
\* alone, and its instance online.
LEMMA OneHandlerStep ==
  ASSUME TypeOK, ~overlapped', OneHandler,
         [Next]_vars
  PROVE  OneHandler'
<1>1. TypeOK /\ ~overlapped' /\ OneHandler
  OBVIOUS
<1>2. ASSUME NEW s \in Sessions, Connect(s) PROVE  OneHandler'
  BY <1>1, <1>2 DEF TypeOK, OneHandler, InHandler, Serves, sessionVars,
    history, Connect
<1>3. ASSUME NEW s \in Sessions, Break(s) PROVE  OneHandler'
  BY <1>1, <1>3 DEF TypeOK, OneHandler, InHandler, Serves, sessionVars,
    history, Break
<1>4. ASSUME NEW s \in Sessions, UpdateDatabases(s) PROVE  OneHandler'
  BY <1>1, <1>4 DEF TypeOK, OneHandler, InHandler, Serves, sessionVars,
    history, UpdateDatabases, Move
<1>5. ASSUME NEW s \in Sessions, GoOnline(s) PROVE  OneHandler'
  BY <1>1, <1>5 DEF TypeOK, OneHandler, InHandler, Serves, sessionVars,
    history, GoOnline, Move
<1>6. ASSUME NEW s \in Sessions, NotifyUp(s) PROVE  OneHandler'
  BY <1>1, <1>6 DEF TypeOK, OneHandler, InHandler, Serves, sessionVars,
    history, NotifyUp, Move
<1>7. ASSUME NEW s \in Sessions, ResendNothing(s) PROVE  OneHandler'
  BY <1>1, <1>7 DEF TypeOK, OneHandler, InHandler, Serves, sessionVars,
    history, ResendNothing, Move
<1>8. ASSUME NEW s \in Sessions, Resend(s) PROVE  OneHandler'
  BY <1>1, <1>8 DEF TypeOK, OneHandler, InHandler, Serves, sessionVars,
    history, Resend, Move, Sent
<1>9. ASSUME NEW s \in Sessions, ResendFails(s) PROVE  OneHandler'
  BY <1>1, <1>9 DEF TypeOK, OneHandler, InHandler, Serves, sessionVars,
    history, ResendFails, Move
<1>10. ASSUME NEW s \in Sessions, ClearNonSent(s) PROVE  OneHandler'
  BY <1>1, <1>10 DEF TypeOK, OneHandler, InHandler, Serves, sessionVars,
    history, ClearNonSent, Move
<1>11. ASSUME NEW s \in Sessions, NEW c \in Calls, TakeJob(s,
    c) PROVE  OneHandler'
  BY <1>1, <1>11 DEF TypeOK, OneHandler, InHandler, Serves, sessionVars,
    history, TakeJob, Move
<1>12. ASSUME NEW s \in Sessions, Forward(s) PROVE  OneHandler'
  BY <1>1, <1>12 DEF TypeOK, OneHandler, InHandler, Serves, sessionVars,
    history, Forward, Move, Sent
<1>13. ASSUME NEW s \in Sessions, ForwardFails(s) PROVE  OneHandler'
  BY <1>1, <1>13 DEF TypeOK, OneHandler, InHandler, Serves, sessionVars,
    history, ForwardFails, Move
<1>14. ASSUME NEW s \in Sessions, StreamDone(s) PROVE  OneHandler'
  BY <1>1, <1>14 DEF TypeOK, OneHandler, InHandler, Serves, sessionVars,
    history, StreamDone, Move
<1>15. ASSUME NEW s \in Sessions, GoOffline(s) PROVE  OneHandler'
  BY <1>1, <1>15 DEF TypeOK, OneHandler, InHandler, Serves, sessionVars,
    history, GoOffline, Move
<1>16. ASSUME NEW s \in Sessions, NotifyDown(s) PROVE  OneHandler'
  BY <1>1, <1>16 DEF TypeOK, OneHandler, InHandler, Serves, sessionVars,
    history, NotifyDown, Move
<1>17. ASSUME NEW c \in Calls, Admit(c) PROVE  OneHandler'
  BY <1>1, <1>17 DEF TypeOK, OneHandler, InHandler, Serves, sessionVars,
    history, Admit
<1>18. ASSUME NEW c \in Calls, LockAndSend(c) PROVE  OneHandler'
  BY <1>1, <1>18 DEF TypeOK, OneHandler, InHandler, Serves, sessionVars,
    history, LockAndSend
<1>19. CASE UNCHANGED vars
  BY <1>1, <1>19 DEF TypeOK, OneHandler, InHandler, Serves, sessionVars,
    history, vars
<1>20. QED
  BY <1>1, <1>2, <1>3, <1>4, <1>5, <1>6, <1>7, <1>8, <1>9, <1>10, <1>11,
    <1>12, <1>13, <1>14, <1>15, <1>16, <1>17, <1>18, <1>19 DEF Next,
    RegisterNext

\* db-instance.go:102-114: a handler that serves has nothing left over.
LEMMA LeftOverStep ==
  ASSUME TypeOK, ~overlapped', OneHandler, LeftOver,
         [Next]_vars
  PROVE  LeftOver'
<1>1. TypeOK /\ ~overlapped' /\ OneHandler /\ LeftOver
  OBVIOUS
<1>2. ASSUME NEW s \in Sessions, Connect(s) PROVE  LeftOver'
  BY <1>1, <1>2 DEF TypeOK, OneHandler, InHandler, LeftOver, sessionVars,
    history, Connect
<1>3. ASSUME NEW s \in Sessions, Break(s) PROVE  LeftOver'
  BY <1>1, <1>3 DEF TypeOK, OneHandler, InHandler, LeftOver, sessionVars,
    history, Break
<1>4. ASSUME NEW s \in Sessions, UpdateDatabases(s) PROVE  LeftOver'
  BY <1>1, <1>4 DEF TypeOK, OneHandler, InHandler, LeftOver, sessionVars,
    history, UpdateDatabases, Move
<1>5. ASSUME NEW s \in Sessions, GoOnline(s) PROVE  LeftOver'
  BY <1>1, <1>5 DEF TypeOK, OneHandler, InHandler, LeftOver, sessionVars,
    history, GoOnline, Move
<1>6. ASSUME NEW s \in Sessions, NotifyUp(s) PROVE  LeftOver'
  BY <1>1, <1>6 DEF TypeOK, OneHandler, InHandler, LeftOver, sessionVars,
    history, NotifyUp, Move
<1>7. ASSUME NEW s \in Sessions, ResendNothing(s) PROVE  LeftOver'
  BY <1>1, <1>7 DEF TypeOK, OneHandler, InHandler, LeftOver, sessionVars,
    history, ResendNothing, Move
<1>8. ASSUME NEW s \in Sessions, Resend(s) PROVE  LeftOver'
  BY <1>1, <1>8 DEF TypeOK, OneHandler, InHandler, LeftOver, sessionVars,
    history, Resend, Move, Sent
<1>9. ASSUME NEW s \in Sessions, ResendFails(s) PROVE  LeftOver'
  BY <1>1, <1>9 DEF TypeOK, OneHandler, InHandler, LeftOver, sessionVars,
    history, ResendFails, Move
<1>10. ASSUME NEW s \in Sessions, ClearNonSent(s) PROVE  LeftOver'
  BY <1>1, <1>10 DEF TypeOK, OneHandler, InHandler, LeftOver, sessionVars,
    history, ClearNonSent, Move
<1>11. ASSUME NEW s \in Sessions, NEW c \in Calls, TakeJob(s,
    c) PROVE  LeftOver'
  BY <1>1, <1>11 DEF TypeOK, OneHandler, InHandler, LeftOver, sessionVars,
    history, TakeJob, Move
<1>12. ASSUME NEW s \in Sessions, Forward(s) PROVE  LeftOver'
  BY <1>1, <1>12 DEF TypeOK, OneHandler, InHandler, LeftOver, sessionVars,
    history, Forward, Move, Sent
<1>13. ASSUME NEW s \in Sessions, ForwardFails(s) PROVE  LeftOver'
  BY <1>1, <1>13 DEF TypeOK, OneHandler, InHandler, LeftOver, sessionVars,
    history, ForwardFails, Move
<1>14. ASSUME NEW s \in Sessions, StreamDone(s) PROVE  LeftOver'
  BY <1>1, <1>14 DEF TypeOK, OneHandler, InHandler, LeftOver, sessionVars,
    history, StreamDone, Move
<1>15. ASSUME NEW s \in Sessions, GoOffline(s) PROVE  LeftOver'
  BY <1>1, <1>15 DEF TypeOK, OneHandler, InHandler, LeftOver, sessionVars,
    history, GoOffline, Move
<1>16. ASSUME NEW s \in Sessions, NotifyDown(s) PROVE  LeftOver'
  BY <1>1, <1>16 DEF TypeOK, OneHandler, InHandler, LeftOver, sessionVars,
    history, NotifyDown, Move
<1>17. ASSUME NEW c \in Calls, Admit(c) PROVE  LeftOver'
  BY <1>1, <1>17 DEF TypeOK, OneHandler, InHandler, LeftOver, sessionVars,
    history, Admit
<1>18. ASSUME NEW c \in Calls, LockAndSend(c) PROVE  LeftOver'
  BY <1>1, <1>18 DEF TypeOK, OneHandler, InHandler, LeftOver, sessionVars,
    history, LockAndSend
<1>19. CASE UNCHANGED vars
  BY <1>1, <1>19 DEF TypeOK, OneHandler, InHandler, LeftOver, sessionVars,
    history, vars
<1>20. QED
  BY <1>1, <1>2, <1>3, <1>4, <1>5, <1>6, <1>7, <1>8, <1>9, <1>10, <1>11,
    <1>12, <1>13, <1>14, <1>15, <1>16, <1>17, <1>18, <1>19 DEF Next,
    RegisterNext

\* db-instance.go:102-137: a job is on one place of its way only.
LEMMA JobPlacedStep ==
  ASSUME NEW x \in Calls, TypeOK, ~overlapped', OneHandler, LeftOver, JobPlaced(x),
         [Next]_vars
  PROVE  JobPlaced(x)'
<1>0. NoJob \notin Calls
  BY NoJobAssumption
<1>1. TypeOK /\ ~overlapped' /\ OneHandler /\ LeftOver /\ JobPlaced(x)
  OBVIOUS
<1>2. ASSUME NEW s \in Sessions, Connect(s) PROVE  JobPlaced(x)'
  BY <1>0, <1>1, <1>2 DEF TypeOK, SessionStep, OneHandler, InHandler,
    LeftOver, JobPlaced, sessionVars, history, Connect
<1>3. ASSUME NEW s \in Sessions, Break(s) PROVE  JobPlaced(x)'
  BY <1>0, <1>1, <1>3 DEF TypeOK, SessionStep, OneHandler, InHandler,
    LeftOver, JobPlaced, sessionVars, history, Break
<1>4. ASSUME NEW s \in Sessions, UpdateDatabases(s) PROVE  JobPlaced(x)'
  BY <1>0, <1>1, <1>4 DEF TypeOK, SessionStep, OneHandler, InHandler,
    LeftOver, JobPlaced, sessionVars, history, UpdateDatabases, Move
<1>5. ASSUME NEW s \in Sessions, GoOnline(s) PROVE  JobPlaced(x)'
  BY <1>0, <1>1, <1>5 DEF TypeOK, SessionStep, OneHandler, InHandler,
    LeftOver, JobPlaced, sessionVars, history, GoOnline, Move
<1>6. ASSUME NEW s \in Sessions, NotifyUp(s) PROVE  JobPlaced(x)'
  BY <1>0, <1>1, <1>6 DEF TypeOK, SessionStep, OneHandler, InHandler,
    LeftOver, JobPlaced, sessionVars, history, NotifyUp, Move
<1>7. ASSUME NEW s \in Sessions, ResendNothing(s) PROVE  JobPlaced(x)'
  BY <1>0, <1>1, <1>7 DEF TypeOK, SessionStep, OneHandler, InHandler,
    LeftOver, JobPlaced, sessionVars, history, ResendNothing, Move
<1>8. ASSUME NEW s \in Sessions, Resend(s) PROVE  JobPlaced(x)'
  BY <1>0, <1>1, <1>8 DEF TypeOK, SessionStep, OneHandler, InHandler,
    LeftOver, JobPlaced, sessionVars, history, Resend, Move, Sent
<1>9. ASSUME NEW s \in Sessions, ResendFails(s) PROVE  JobPlaced(x)'
  BY <1>0, <1>1, <1>9 DEF TypeOK, SessionStep, OneHandler, InHandler,
    LeftOver, JobPlaced, sessionVars, history, ResendFails, Move
<1>10. ASSUME NEW s \in Sessions, ClearNonSent(s) PROVE  JobPlaced(x)'
  BY <1>0, <1>1, <1>10 DEF TypeOK, SessionStep, OneHandler, InHandler,
    LeftOver, JobPlaced, sessionVars, history, ClearNonSent, Move
<1>11. ASSUME NEW s \in Sessions, NEW c \in Calls, TakeJob(s,
    c) PROVE  JobPlaced(x)'
  BY <1>0, <1>1, <1>11 DEF TypeOK, SessionStep, OneHandler, InHandler,
    LeftOver, JobPlaced, sessionVars, history, TakeJob, Move
<1>12. ASSUME NEW s \in Sessions, Forward(s) PROVE  JobPlaced(x)'
  BY <1>0, <1>1, <1>12 DEF TypeOK, SessionStep, OneHandler, InHandler,
    LeftOver, JobPlaced, sessionVars, history, Forward, Move, Sent
<1>13. ASSUME NEW s \in Sessions, ForwardFails(s) PROVE  JobPlaced(x)'
  BY <1>0, <1>1, <1>13 DEF TypeOK, SessionStep, OneHandler, InHandler,
    LeftOver, JobPlaced, sessionVars, history, ForwardFails, Move
<1>14. ASSUME NEW s \in Sessions, StreamDone(s) PROVE  JobPlaced(x)'
  BY <1>0, <1>1, <1>14 DEF TypeOK, SessionStep, OneHandler, InHandler,
    LeftOver, JobPlaced, sessionVars, history, StreamDone, Move
<1>15. ASSUME NEW s \in Sessions, GoOffline(s) PROVE  JobPlaced(x)'
  BY <1>0, <1>1, <1>15 DEF TypeOK, SessionStep, OneHandler, InHandler,
    LeftOver, JobPlaced, sessionVars, history, GoOffline, Move
<1>16. ASSUME NEW s \in Sessions, NotifyDown(s) PROVE  JobPlaced(x)'
  BY <1>0, <1>1, <1>16 DEF TypeOK, SessionStep, OneHandler, InHandler,
    LeftOver, JobPlaced, sessionVars, history, NotifyDown, Move
<1>17. ASSUME NEW c \in Calls, Admit(c) PROVE  JobPlaced(x)'
  BY <1>0, <1>1, <1>17 DEF TypeOK, SessionStep, OneHandler, InHandler,
    LeftOver, JobPlaced, sessionVars, history, Admit
<1>18. ASSUME NEW c \in Calls, LockAndSend(c) PROVE  JobPlaced(x)'
  BY <1>0, <1>1, <1>18 DEF TypeOK, SessionStep, OneHandler, InHandler,
    LeftOver, JobPlaced, sessionVars, history, LockAndSend
<1>19. CASE UNCHANGED vars
  BY <1>0, <1>1, <1>19 DEF TypeOK, SessionStep, OneHandler, InHandler,
    LeftOver, JobPlaced, sessionVars, history, vars
<1>20. QED
  BY <1>1, <1>2, <1>3, <1>4, <1>5, <1>6, <1>7, <1>8, <1>9, <1>10, <1>11,
    <1>12, <1>13, <1>14, <1>15, <1>16, <1>17, <1>18, <1>19 DEF Next,
    RegisterNext

\* db-instance.go:102-137: no step loses a job without leaving a trace of it.
LEMMA ForgottenStep ==
  ASSUME TypeOK, ~overlapped', OneHandler, LeftOver, ~overlapped, NoJobForgotten,
         [Next]_vars
  PROVE  NoJobForgotten'
<1>0. NoJob \notin Calls
  BY NoJobAssumption
<1>1. TypeOK /\ ~overlapped' /\ ~overlapped /\ OneHandler /\ LeftOver /\ NoJobForgotten
  OBVIOUS
<1>2. ASSUME NEW s \in Sessions, Connect(s) PROVE  NoJobForgotten'
  BY <1>0, <1>1, <1>2 DEF TypeOK, SessionStep, OneHandler, InHandler,
    LeftOver, NoJobForgotten, sessionVars, history, Connect
<1>3. ASSUME NEW s \in Sessions, Break(s) PROVE  NoJobForgotten'
  BY <1>0, <1>1, <1>3 DEF TypeOK, SessionStep, OneHandler, InHandler,
    LeftOver, NoJobForgotten, sessionVars, history, Break
<1>4. ASSUME NEW s \in Sessions, UpdateDatabases(s) PROVE  NoJobForgotten'
  BY <1>0, <1>1, <1>4 DEF TypeOK, SessionStep, OneHandler, InHandler,
    LeftOver, NoJobForgotten, sessionVars, history, UpdateDatabases, Move
<1>5. ASSUME NEW s \in Sessions, GoOnline(s) PROVE  NoJobForgotten'
  BY <1>0, <1>1, <1>5 DEF TypeOK, SessionStep, OneHandler, InHandler,
    LeftOver, NoJobForgotten, sessionVars, history, GoOnline, Move
<1>6. ASSUME NEW s \in Sessions, NotifyUp(s) PROVE  NoJobForgotten'
  BY <1>0, <1>1, <1>6 DEF TypeOK, SessionStep, OneHandler, InHandler,
    LeftOver, NoJobForgotten, sessionVars, history, NotifyUp, Move
<1>7. ASSUME NEW s \in Sessions, ResendNothing(s) PROVE  NoJobForgotten'
  BY <1>0, <1>1, <1>7 DEF TypeOK, SessionStep, OneHandler, InHandler,
    LeftOver, NoJobForgotten, sessionVars, history, ResendNothing, Move
<1>8. ASSUME NEW s \in Sessions, Resend(s) PROVE  NoJobForgotten'
  BY <1>0, <1>1, <1>8 DEF TypeOK, SessionStep, OneHandler, InHandler,
    LeftOver, NoJobForgotten, sessionVars, history, Resend, Move, Sent
<1>9. ASSUME NEW s \in Sessions, ResendFails(s) PROVE  NoJobForgotten'
  BY <1>0, <1>1, <1>9 DEF TypeOK, SessionStep, OneHandler, InHandler,
    LeftOver, NoJobForgotten, sessionVars, history, ResendFails, Move
<1>10. ASSUME NEW s \in Sessions, ClearNonSent(s) PROVE  NoJobForgotten'
  BY <1>0, <1>1, <1>10 DEF TypeOK, SessionStep, OneHandler, InHandler,
    LeftOver, NoJobForgotten, sessionVars, history, ClearNonSent, Move
<1>11. ASSUME NEW s \in Sessions, NEW c \in Calls, TakeJob(s,
    c) PROVE  NoJobForgotten'
  BY <1>0, <1>1, <1>11 DEF TypeOK, SessionStep, OneHandler, InHandler,
    LeftOver, NoJobForgotten, sessionVars, history, TakeJob, Move
<1>12. ASSUME NEW s \in Sessions, Forward(s) PROVE  NoJobForgotten'
  BY <1>0, <1>1, <1>12 DEF TypeOK, SessionStep, OneHandler, InHandler,
    LeftOver, NoJobForgotten, sessionVars, history, Forward, Move, Sent
<1>13. ASSUME NEW s \in Sessions, ForwardFails(s) PROVE  NoJobForgotten'
  BY <1>0, <1>1, <1>13 DEF TypeOK, SessionStep, OneHandler, InHandler,
    LeftOver, NoJobForgotten, sessionVars, history, ForwardFails, Move
<1>14. ASSUME NEW s \in Sessions, StreamDone(s) PROVE  NoJobForgotten'
  BY <1>0, <1>1, <1>14 DEF TypeOK, SessionStep, OneHandler, InHandler,
    LeftOver, NoJobForgotten, sessionVars, history, StreamDone, Move
<1>15. ASSUME NEW s \in Sessions, GoOffline(s) PROVE  NoJobForgotten'
  BY <1>0, <1>1, <1>15 DEF TypeOK, SessionStep, OneHandler, InHandler,
    LeftOver, NoJobForgotten, sessionVars, history, GoOffline, Move
<1>16. ASSUME NEW s \in Sessions, NotifyDown(s) PROVE  NoJobForgotten'
  BY <1>0, <1>1, <1>16 DEF TypeOK, SessionStep, OneHandler, InHandler,
    LeftOver, NoJobForgotten, sessionVars, history, NotifyDown, Move
<1>17. ASSUME NEW c \in Calls, Admit(c) PROVE  NoJobForgotten'
  BY <1>0, <1>1, <1>17 DEF TypeOK, SessionStep, OneHandler, InHandler,
    LeftOver, NoJobForgotten, sessionVars, history, Admit
<1>18. ASSUME NEW c \in Calls, LockAndSend(c) PROVE  NoJobForgotten'
  BY <1>0, <1>1, <1>18 DEF TypeOK, SessionStep, OneHandler, InHandler,
    LeftOver, NoJobForgotten, sessionVars, history, LockAndSend
<1>19. CASE UNCHANGED vars
  BY <1>0, <1>1, <1>19 DEF TypeOK, SessionStep, OneHandler, InHandler,
    LeftOver, NoJobForgotten, sessionVars, history, vars
<1>20. QED
  BY <1>1, <1>2, <1>3, <1>4, <1>5, <1>6, <1>7, <1>8, <1>9, <1>10, <1>11,
    <1>12, <1>13, <1>14, <1>15, <1>16, <1>17, <1>18, <1>19 DEF Next,
    RegisterNext

\* svc_register.go:37-54: once overlapped, always overlapped.
LEMMA OverlappedStays ==
  ASSUME [Next]_vars, ~overlapped'
  PROVE  ~overlapped
BY DEF Next, RegisterNext, vars, sessionVars, history, Connect, Break, UpdateDatabases,
  GoOnline, NotifyUp, ResendNothing, Resend, ResendFails, ClearNonSent, TakeJob, Forward,
  ForwardFails, StreamDone, GoOffline, NotifyDown, Admit, LockAndSend

\* The server starts with no stream and no job.
LEMMA InitIndInv == Init => IndInv
<1> SUFFICES ASSUME Init
             PROVE  IndInv
  OBVIOUS
<1>1. NoJob \notin Calls
  BY NoJobAssumption
<1>2. TypeOK
  BY <1>1 DEF Init, TypeOK, SessionStep, CallStep
<1>3. OnlineIsServed
  BY DEF Init, OnlineIsServed
<1>4. OneHandler
  BY DEF Init, OneHandler, InHandler, Serves
<1>5. LeftOver
  BY DEF Init, LeftOver
<1>6. \A c \in Calls : JobPlaced(c)
  BY <1>1 DEF Init, JobPlaced
<1>7. NoJobForgotten
  BY DEF Init, NoJobForgotten
<1>8. QED
  BY <1>2, <1>3, <1>4, <1>5, <1>6, <1>7 DEF IndInv

LEMMA IndInvStep == IndInv /\ [Next]_vars => IndInv'
<1> SUFFICES ASSUME IndInv, [Next]_vars
             PROVE  IndInv'
  OBVIOUS
<1>1. TypeOK /\ OnlineIsServed
  BY DEF IndInv
<1>2. TypeOK' /\ OnlineIsServed'
  BY <1>1, TypeStep, ServedStep
<1>3. ASSUME ~overlapped'
      PROVE  OneHandler' /\ LeftOver' /\ (\A c \in Calls : JobPlaced(c)') /\ NoJobForgotten'
  <2>1. ~overlapped
    BY <1>3, OverlappedStays
  <2>2. OneHandler /\ LeftOver /\ (\A c \in Calls : JobPlaced(c)) /\ NoJobForgotten
    BY <2>1 DEF IndInv
  <2>3. OneHandler'
    BY <1>1, <1>3, <2>2, OneHandlerStep
  <2>4. LeftOver'
    BY <1>1, <1>3, <2>2, LeftOverStep
  <2>5. \A c \in Calls : JobPlaced(c)'
    BY <1>1, <1>3, <2>2, JobPlacedStep
  <2>6. NoJobForgotten'
    BY <1>1, <1>3, <2>1, <2>2, ForgottenStep
  <2>7. QED
    BY <2>3, <2>4, <2>5, <2>6
<1>4. QED
  BY <1>2, <1>3 DEF IndInv

\* svc_register.go, db-instance.go: IndInv holds in every state of the server.
THEOREM Invariance == Spec => []IndInv
BY InitIndInv, IndInvStep, PTL DEF Spec

\* svc_register.go, db-instance.go: the variables keep their types.
THEOREM TypeCorrect == Spec => []TypeOK
<1>1. IndInv => TypeOK
  BY DEF IndInv
<1>2. QED
  BY <1>1, Invariance, PTL

\* svc_register.go:44-52: the Online flag never outlives the last stream,
\* however many streams break and overlap.
THEOREM OnlineIsAlwaysServed == Spec => []OnlineIsServed
<1>1. IndInv => OnlineIsServed
  BY DEF IndInv
<1>2. QED
  BY <1>1, Invariance, PTL

\* svc_register.go:46-51: without overlap, a serving handler means online.
THEOREM ServingIsAlwaysOnline == Spec => []ServedIsOnline
<1>1. IndInv => ServedIsOnline
  BY DEF IndInv, OneHandler, ServedIsOnline
<1>2. QED
  BY <1>1, Invariance, PTL

\* db-instance.go:102-133: without overlap, the agent gets no job twice.
THEOREM JobsReceivedOnce == Spec => []ReceivedOnce
<1>1. IndInv => ReceivedOnce
  BY DEF IndInv, JobPlaced, ReceivedOnce
<1>2. QED
  BY <1>1, Invariance, PTL

\* db-instance.go:102-133: without overlap, a job whose Send returned is
\* received, kept to be sent again, or was lost in a broken stream.
THEOREM JobsNeverForgotten == Spec => []NoJobForgotten
<1>1. IndInv => NoJobForgotten
  BY DEF IndInv, NoJobForgotten
<1>2. QED
  BY <1>1, Invariance, PTL

=============================================================================
