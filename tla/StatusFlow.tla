----------------------------- MODULE StatusFlow -----------------------------
(***************************************************************************)
(* The way of one database's status from its row on the agent to the       *)
(* record on the server:                                                   *)
(*                                                                         *)
(*   - writers change the row and send the copy they wrote to the queue    *)
(*     "Db Status Notifier" (db_api.go), whose single worker makes one     *)
(*     NotifyDbStatus call for each; a call that fails is not repeated;    *)
(*   - the agent lists its rows and registers with that list, for as long  *)
(*     as it takes and after every broken stream (agent_server.go);        *)
(*   - the server replaces its record by whatever arrives (database.go).   *)
(*                                                                         *)
(* A version stands for updated_at: versions are given in the order of     *)
(* writing, also to writes that are rolled back.  What a writer writes is  *)
(* a free choice (AgentDb says what it may be).  A call that the agent     *)
(* gave up may still reach the record, and a handler of Register that of   *)
(* a broken stream, when the locks they wait for are free (Instances).     *)
(***************************************************************************)
EXTENDS Naturals

CONSTANTS
  Writers,     \* goroutines of the agent that change the row
  Sessions,    \* Register calls of a run
  Statuses,    \* what a row may say; "ready" is one of them
  None,        \* no message
  MaxWrites,   \* bound: writes of the row
  MaxCrashes   \* bound: restarts of the agent and of the server

ASSUME StatusAssumption == {"ready", "leaving"} \subseteq Statuses /\ "absent" \notin Statuses
ASSUME BoundAssumption == MaxWrites \in Nat /\ MaxCrashes \in Nat

\* A copy of the row.
Message == [ver : 0..MaxWrites, is : Statuses \cup {"absent"}]
NoRow == [ver |-> 0, is |-> "absent"]

ASSUME NoneAssumption == None \notin Message

VARIABLES
  row,      \* the committed row: its version and what it says
  clock,    \* the last version given
  writer,   \* where each writer is, with the copy it announces
  hand,     \* the element in the hand of the notifier's Run loop
  sending,  \* the NotifyDbStatus call of its worker
  reg,      \* GrpcAgentServer: where registerService is, and its list
  session,  \* the Register call of each session, with its list
  late,     \* calls the agent gave up and the server still carries out
  known,    \* DbInstanceManager.Instances has the instance
  record,   \* the server's Database
  crashes,  \* restarts so far, for the bound
  undone,   \* history: versions rolled back
  vain,     \* history: versions not older than the row whose announcement was lost,
            \* or which something else replaced in the record or a restart took
  crowded,  \* history: two writers were at work at a time
  origin    \* history: how the record got there

agentVars  == <<row, clock, writer, hand, sending, reg>>
netVars    == <<session, late>>
serverVars == <<known, record>>
history    == <<undone, vain, crowded, origin>>
vars == <<agentVars, netVars, serverVars, crashes, history>>

TypeOK ==
  /\ row \in Message
  /\ clock \in row.ver..MaxWrites
  /\ writer \in [Writers -> [at : {"idle", "notify", "commit"}, tx : BOOLEAN, msg : Message]]
  /\ hand \in Message \cup {None}
  /\ sending \in Message \cup {None}
  /\ reg \in [at : {"load", "dial", "up"}, list : Message]
  /\ session \in [Sessions -> [at : {"unused", "arriving", "done"}, list : Message]]
  /\ late \subseteq Message
  /\ known \in BOOLEAN
  /\ record \in Message
  /\ crashes \in 0..MaxCrashes
  /\ undone \subseteq 1..clock
  /\ vain \subseteq row.ver..clock
  /\ crowded \in BOOLEAN
  /\ origin \in {"nothing", "status", "list", "late"}

IdleWriter == [at |-> "idle", tx |-> FALSE, msg |-> NoRow]
Unregistered == [at |-> "load", list |-> NoRow]

Init ==
  /\ row = NoRow
  /\ clock = 0
  /\ writer = [w \in Writers |-> IdleWriter]
  /\ hand = None
  /\ sending = None
  /\ reg = Unregistered
  /\ session = [s \in Sessions |-> [at |-> "unused", list |-> NoRow]]
  /\ late = {}
  /\ known = FALSE
  /\ record = NoRow
  /\ crashes = 0
  /\ undone = {}
  /\ vain = {}
  /\ crowded = FALSE
  /\ origin = "nothing"

\* The versions of a set of messages, those that still matter.
Versions(messages) == {m.ver : m \in messages \ {None}} \cap (row.ver..clock)

\* Another job is at work on the database.
NowCrowded(w) == crowded \/ \E v \in Writers \ {w} : writer[v].at # "idle"

\* The row is locked by a transaction that wrote it.
RowFree == \A w \in Writers : ~writer[w].tx

\* Bound: the last session of a run stays up.
CanBreak == reg.at = "up" /\ \E s \in Sessions : session[s].at = "unused"

-----------------------------------------------------------------------------
(* Slips of the code below, each one refuted by a property *)

\* A failed call is put back, behind the one that came next.
GiveUpRetries ==
  /\ sending # None
  /\ sending' = hand
  /\ hand' = sending
  /\ UNCHANGED <<row, clock, writer, reg, netVars, serverVars, crashes, history>>

\* What says the same as the record is no news.
ReplacesIfDifferent(m) == IF m.is # record.is THEN m ELSE record

\* updated_at is given anew when the transaction commits.
CommitStampsAgain(w) ==
  /\ writer[w].at = "commit"
  /\ row' = [writer[w].msg EXCEPT !.ver = @ + 1]
  /\ writer' = [writer EXCEPT ![w] = IdleWriter]
  /\ vain' = vain \cap {row'.ver}
  /\ UNCHANGED <<clock, hand, sending, reg, netVars, serverVars, crashes,
                 undone, crowded, origin>>

-----------------------------------------------------------------------------
(* The agent: writers *)

\* UpdateDbStatus on a connection of its own.  A write that misses (AgentDb)
\* returns before it notifies anybody.
WriteRow(w) ==
  /\ writer[w].at = "idle"
  /\ RowFree
  /\ clock < MaxWrites
  /\ clock' = clock + 1
  /\ \E is \in Statuses : row' = [ver |-> clock + 1, is |-> is]
  /\ writer' = [writer EXCEPT ![w] = [at |-> "notify", tx |-> FALSE, msg |-> row']]
  /\ vain' = {}
  /\ crowded' = NowCrowded(w)
  /\ UNCHANGED <<hand, sending, reg, netVars, serverVars, crashes, undone, origin>>

\* The migrate-out request writes Idle/Processing in its transaction.
WriteInTransaction(w) ==
  /\ writer[w].at = "idle"
  /\ RowFree
  /\ clock < MaxWrites
  /\ row.is = "ready"
  /\ clock' = clock + 1
  /\ writer' = [writer EXCEPT ![w] =
                  [at |-> "notify", tx |-> TRUE, msg |-> [ver |-> clock + 1, is |-> "leaving"]]]
  /\ crowded' = NowCrowded(w)
  /\ UNCHANGED <<row, hand, sending, reg, netVars, serverVars, crashes, undone, vain, origin>>

\* A migrate-out request that has nothing to do sends the row as it found it.
NotifyAgain(w) ==
  /\ writer[w].at = "idle"
  /\ row # NoRow
  /\ row.is # "ready"
  /\ writer' = [writer EXCEPT ![w] = [at |-> "notify", tx |-> FALSE, msg |-> row]]
  /\ crowded' = NowCrowded(w)
  /\ UNCHANGED <<row, clock, hand, sending, reg, netVars, serverVars, crashes,
                 undone, vain, origin>>

\* DbStatusNotifier.Send: the Run loop takes the element and the writer goes on.
Take(w) ==
  /\ writer[w].at = "notify"
  /\ hand = None
  /\ hand' = writer[w].msg
  /\ writer' = [writer EXCEPT ![w] =
                  IF @.tx THEN [at |-> "commit", tx |-> TRUE, msg |-> @.msg] ELSE IdleWriter]
  /\ UNCHANGED <<row, clock, sending, reg, netVars, serverVars, crashes, history>>

Commit(w) ==
  /\ writer[w].at = "commit"
  /\ row' = writer[w].msg
  /\ writer' = [writer EXCEPT ![w] = IdleWriter]
  /\ vain' = vain \cap {row'.ver}
  /\ UNCHANGED <<clock, hand, sending, reg, netVars, serverVars, crashes,
                 undone, crowded, origin>>

\* A statement after it failed, or the connection: nobody looks at the error.
CommitFails(w) ==
  /\ writer[w].at = "commit"
  /\ undone' = undone \cup {writer[w].msg.ver}
  /\ writer' = [writer EXCEPT ![w] = IdleWriter]
  /\ UNCHANGED <<row, clock, hand, sending, reg, netVars, serverVars, crashes,
                 vain, crowded, origin>>

-----------------------------------------------------------------------------
(* The notifier: one worker, one call per element *)

StartCall ==
  /\ hand # None
  /\ sending = None
  /\ sending' = hand
  /\ hand' = None
  /\ UNCHANGED <<row, clock, writer, reg, netVars, serverVars, crashes, history>>

\* The call fails, its error is logged and the element forgotten.  Either it did
\* not reach the record and never will, or its handler is still on its way.
GiveUp ==
  /\ sending # None
  /\ sending' = None
  /\ \/ vain' = vain \cup Versions({sending}) /\ UNCHANGED late
     \/ known /\ late = {} /\ late' = {sending} /\ UNCHANGED vain
  /\ UNCHANGED <<row, clock, writer, hand, reg, session, serverVars, crashes,
                 undone, crowded, origin>>

-----------------------------------------------------------------------------
(* The agent: registerService *)

\* loadRegisterAgent; without a connection ListDbs returns no rows and no error.
LoadList ==
  /\ reg.at = "load"
  /\ \E list \in {row, NoRow} :
       /\ reg' = [at |-> "dial", list |-> list]
       /\ vain' = IF list = row THEN vain ELSE vain \cup {row.ver}
  /\ UNCHANGED <<row, clock, writer, hand, sending, netVars, serverVars, crashes,
                 undone, crowded, origin>>

\* grpcServiceLoader tries with the same list until a stream opens.
Dial(s) ==
  /\ reg.at = "dial"
  /\ session[s].at = "unused"
  /\ session' = [session EXCEPT ![s] = [at |-> "arriving", list |-> reg.list]]
  /\ reg' = [at |-> "up", list |-> NoRow]
  /\ UNCHANGED <<row, clock, writer, hand, sending, late, serverVars, crashes, history>>

\* Recv returns an error.
Break ==
  /\ CanBreak
  /\ reg' = Unregistered
  /\ UNCHANGED <<row, clock, writer, hand, sending, netVars, serverVars, crashes, history>>

\* The agent is killed and started again.
RestartAgent ==
  /\ crashes < MaxCrashes
  /\ reg.at = "up" => CanBreak
  /\ crashes' = crashes + 1
  /\ writer' = [w \in Writers |-> IdleWriter]
  /\ hand' = None
  /\ sending' = None
  /\ reg' = Unregistered
  /\ undone' = undone \cup {writer[w].msg.ver : w \in {v \in Writers : writer[v].tx}}
  /\ \E arrives \in SUBSET ({sending} \ {None}) :
       /\ arrives # {} => known /\ late = {}
       /\ late' = late \cup arrives
       /\ vain' = vain \cup Versions({hand, sending} \ arrives)
                       \cup Versions({writer[w].msg : w \in Writers})
  /\ UNCHANGED <<row, clock, session, serverVars, crowded, origin>>

-----------------------------------------------------------------------------
(* The server *)

\* Database.Update compares the addresses of two timestamps, which differ: what
\* arrives always replaces the record.
Replaces(m) == m

Update(m, how) ==
  /\ record' = Replaces(m)
  /\ origin' = how
  /\ vain' = (vain \cup Versions({record})) \ {m.ver}

\* UpdateDatabase, for an instance that is known.
NotifyDbStatus ==
  /\ sending # None
  /\ known
  /\ Update(sending, "status")
  /\ sending' = None
  /\ UNCHANGED <<row, clock, writer, hand, reg, netVars, known, crashes, undone, crowded>>

NotifyLate ==
  \E m \in late :
    /\ Update(m, "late")
    /\ late' = late \ {m}
    /\ UNCHANGED <<agentVars, session, known, crashes, undone, crowded>>

\* NewInstance and UpdateDatabases; a database that is not listed is left alone.
Register(s) ==
  /\ session[s].at = "arriving"
  /\ session' = [session EXCEPT ![s] = [at |-> "done", list |-> NoRow]]
  /\ known' = TRUE
  /\ IF session[s].list # NoRow
       THEN Update(session[s].list, "list")
       ELSE UNCHANGED <<record, origin, vain>>
  /\ UNCHANGED <<agentVars, late, crashes, undone, crowded>>

\* The server is killed and started again: it knows nothing, and its handlers
\* and the agent's stream are gone.
RestartServer ==
  /\ crashes < MaxCrashes
  /\ reg.at = "up" => CanBreak
  /\ crashes' = crashes + 1
  /\ reg' = IF reg.at = "up" THEN Unregistered ELSE reg
  /\ session' = [s \in Sessions |-> IF session[s].at = "arriving"
                                      THEN [at |-> "done", list |-> NoRow] ELSE session[s]]
  /\ late' = {}
  /\ known' = FALSE
  /\ record' = NoRow
  /\ origin' = "nothing"
  /\ vain' = vain \cup Versions(late \cup {record})
  /\ UNCHANGED <<row, clock, writer, hand, sending, undone, crowded>>

-----------------------------------------------------------------------------
WriterNext(w) == Take(w) \/ Commit(w) \/ CommitFails(w)
CallEnds == NotifyDbStatus \/ GiveUp
RegisterNext == LoadList \/ \E s \in Sessions : Dial(s)

Next ==
  \/ \E w \in Writers : WriteRow(w) \/ WriteInTransaction(w) \/ NotifyAgain(w) \/ WriterNext(w)
  \/ StartCall \/ CallEnds \/ NotifyLate
  \/ RegisterNext \/ Break \/ RestartAgent \/ RestartServer
  \/ \E s \in Sessions : Register(s)

Spec == Init /\ [][Next]_vars

\* Goroutines that can run are run, a call ends one way or the other, and the
\* agent goes on trying to register.  Nobody owes a write, a break or a crash.
Fairness ==
  /\ \A w \in Writers : WF_vars(WriterNext(w))
  /\ WF_vars(StartCall)
  /\ WF_vars(CallEnds)
  /\ WF_vars(NotifyLate)
  /\ WF_vars(RegisterNext)
  /\ \A s \in Sessions : WF_vars(Register(s))

FairSpec == Spec /\ Fairness

-----------------------------------------------------------------------------
(* Properties *)

\* Nothing is on its way from the row to the record.
Quiet ==
  /\ \A w \in Writers : writer[w].at = "idle"
  /\ hand = None /\ sending = None /\ late = {}
  /\ reg.at = "up"
  /\ \A s \in Sessions : session[s].at # "arriving"

\* database.go:33, db_api.go:163: once nothing is on its way, the record is the
\* row, unless its last announcement was in vain: lost, left out of a list, or
\* replaced in the record by an older list, a late call or a write that was rolled
\* back.  Every other delay, break or restart is made good by the next
\* registration.
StaleIsExplained ==
  Quiet => record = row \/ row.ver \in vain

\* db_status_sender.go:16-19: with one job at a time on the database, its
\* statuses reach the record in order.  It goes back only by a registration or a
\* late call, or where the newer version was rolled back.
OrderKept ==
  [][record'.ver < record.ver /\ known' =>
       \/ crowded
       \/ "list" \in {origin, origin'}
       \/ origin' = "late"
       \/ record.ver \in undone]_vars

\* db_api.go:162-163, agent_server.go:162-175: what a row says reaches the record
\* in the end, unless it is written again or its announcement was in vain: no
\* break, no restart and no other message keeps it waiting for ever.
CatchesUp ==
  \A v \in 1..MaxWrites :
    row.ver = v ~> \/ row.ver # v
                   \/ record = row
                   \/ v \in vain

=============================================================================
