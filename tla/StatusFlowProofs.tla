--------------------------- MODULE StatusFlowProofs ---------------------------
(***************************************************************************)
(* Theorems about the way of a status from its row to the record, for any  *)
(* number of writers, sessions, writes and restarts.  The argument: what   *)
(* the row says now is on its way, or has arrived, or was in vain, and as  *)
(* long as the agent is not registered its list will say it again; this    *)
(* also holds for a write that is not committed yet, because it can be     *)
(* announced before.                                                       *)
(***************************************************************************)
EXTENDS StatusFlow, TLAPS

\* Every copy of a row there is, and what stands for none.
Copies ==
  {NoRow, row, record, reg.list} \cup ({hand, sending} \ {None}) \cup late
    \cup {writer[w].msg : w \in Writers} \cup {session[s].list : s \in Sessions}

\* A copy of the row that is of its version is the row, and so for a write in an
\* open transaction, which has the last version given.
CopiesAgree ==
  /\ \A m \in Copies : m.ver <= clock
  /\ row = NoRow => clock = 0
  /\ \A m \in Copies : m.ver = row.ver => m = row
  /\ \A w \in Writers : writer[w].tx =>
       \A m \in Copies : m.ver = clock => m = writer[w].msg

\* One transaction at a time, and nothing is written next to it.
Transactions ==
  /\ \A w \in Writers : writer[w].tx =>
       writer[w].msg.ver = clock /\ row.ver < clock /\ writer[w].at # "idle"
  /\ \A w \in Writers : writer[w].at = "commit" => writer[w].tx
  /\ \A w, v \in Writers : writer[w].tx /\ writer[v].tx => w = v

\* An announcement is under way, has arrived, or was in vain.
Announced(m) ==
  \/ \E w \in Writers : writer[w].at = "notify" /\ writer[w].msg = m
  \/ m \in {hand, sending}
  \/ m \in late
  \/ record = m
  \/ m.ver \in vain

\* The row was announced, or the next registration will say it.
RowAnnounced ==
  \/ Announced(row)
  \/ reg.at = "load"
  \/ reg.at = "dial" /\ reg.list = row
  \/ reg.at = "up" /\ \E s \in Sessions : session[s].at = "arriving" /\ session[s].list = row

TransactionAnnounced ==
  \A w \in Writers : writer[w].at = "commit" => Announced(writer[w].msg)

Inv == TypeOK /\ CopiesAgree /\ Transactions /\ RowAnnounced /\ TransactionAnnounced

-----------------------------------------------------------------------------
(* What steps have in common *)

LEMMA VersionsTyped ==
  ASSUME NEW S
  PROVE  Versions(S) \subseteq row.ver..clock
BY DEF Versions

\* Copies that are moved or dropped go on agreeing.
LEMMA CopiesKept ==
  ASSUME CopiesAgree, Copies' \subseteq Copies, UNCHANGED <<row, clock>>,
         \A w \in Writers : writer'[w].tx => writer[w].tx /\ writer'[w].msg = writer[w].msg
  PROVE  CopiesAgree'
BY DEF CopiesAgree

-----------------------------------------------------------------------------
(* The steps *)

LEMMA WriteRowStep ==
  ASSUME Inv, NEW w \in Writers, WriteRow(w)
  PROVE  Inv'
<1> USE StatusAssumption, BoundAssumption, NoneAssumption DEF Inv, agentVars, netVars, serverVars, history
<1>1. TypeOK'
  BY DEF WriteRow, TypeOK, Message, NoRow, IdleWriter, Unregistered, Transactions, NowCrowded
<1>2. Copies' \subseteq Copies \cup {row'}
  BY DEF WriteRow, Copies, TypeOK, IdleWriter, Unregistered
<1>3. CopiesAgree'
  <2>1. \A m \in Copies : m.ver \in Nat /\ m.ver <= clock
    BY DEF CopiesAgree, Copies, TypeOK, Message, NoRow
  <2>2. /\ clock' = clock + 1 /\ row'.ver = clock + 1 /\ clock \in Nat
        /\ \A v \in Writers : ~writer'[v].tx
        /\ row'.is # "absent"
    BY StatusAssumption DEF WriteRow, TypeOK, Message, RowFree
  <2>3. row' # NoRow
    BY <2>2 DEF NoRow
  <2> QED BY <1>2, <2>1, <2>2, <2>3 DEF CopiesAgree
<1>4. Transactions'
  BY DEF WriteRow, Transactions, TypeOK, Message, IdleWriter, RowFree
<1>5. RowAnnounced'
  BY DEF WriteRow, RowAnnounced, TransactionAnnounced, Announced, TypeOK, Message, Copies, CopiesAgree, Transactions, IdleWriter, Unregistered
<1>6. TransactionAnnounced'
  BY DEF WriteRow, TransactionAnnounced, Announced, TypeOK, Message, Copies, CopiesAgree, Transactions, IdleWriter, RowFree
<1> QED BY <1>1, <1>3, <1>4, <1>5, <1>6

LEMMA WriteInTransactionStep ==
  ASSUME Inv, NEW w \in Writers, WriteInTransaction(w)
  PROVE  Inv'
<1> USE StatusAssumption, BoundAssumption, NoneAssumption DEF Inv, agentVars, netVars, serverVars, history
<1>1. TypeOK'
  BY DEF WriteInTransaction, TypeOK, Message, NoRow, IdleWriter, Unregistered, Transactions, NowCrowded
<1>2. Copies' \subseteq Copies \cup {[ver |-> clock + 1, is |-> "leaving"]}
  BY DEF WriteInTransaction, Copies, TypeOK, IdleWriter, Unregistered
<1>3. CopiesAgree'
  <2>1. \A m \in Copies : m.ver \in Nat /\ m.ver <= clock
    BY DEF CopiesAgree, Copies, TypeOK, Message, NoRow
  <2>2. /\ clock' = clock + 1 /\ clock \in Nat /\ row' = row /\ row.ver <= clock
        /\ row # NoRow
    BY DEF WriteInTransaction, TypeOK, Message, NoRow
  <2>3. \A v \in Writers : writer'[v].tx =>
          v = w /\ writer'[v].msg = [ver |-> clock + 1, is |-> "leaving"]
    BY DEF WriteInTransaction, TypeOK, RowFree
  <2> QED BY <1>2, <2>1, <2>2, <2>3 DEF CopiesAgree
<1>4. Transactions'
  BY DEF WriteInTransaction, Transactions, TypeOK, Message, IdleWriter, RowFree
<1>5. RowAnnounced'
  BY DEF WriteInTransaction, RowAnnounced, TransactionAnnounced, Announced, TypeOK, Message, Copies, CopiesAgree, Transactions, IdleWriter, Unregistered
<1>6. TransactionAnnounced'
  BY DEF WriteInTransaction, TransactionAnnounced, Announced, TypeOK, Message, Copies, CopiesAgree, Transactions, IdleWriter, RowFree
<1> QED BY <1>1, <1>3, <1>4, <1>5, <1>6

LEMMA NotifyAgainStep ==
  ASSUME Inv, NEW w \in Writers, NotifyAgain(w)
  PROVE  Inv'
<1> USE StatusAssumption, BoundAssumption, NoneAssumption DEF Inv, agentVars, netVars, serverVars, history
<1>1. TypeOK'
  BY DEF NotifyAgain, TypeOK, Message, NoRow, IdleWriter, Unregistered, Transactions, NowCrowded
<1>2. Copies' \subseteq Copies
  BY DEF NotifyAgain, Copies, TypeOK, IdleWriter, Unregistered
<1>3. CopiesAgree'
  BY <1>2, CopiesKept DEF NotifyAgain, TypeOK, IdleWriter
<1>4. Transactions'
  BY DEF NotifyAgain, Transactions, TypeOK, Message, IdleWriter, RowFree
<1>5. RowAnnounced'
  BY DEF NotifyAgain, RowAnnounced, TransactionAnnounced, Announced, TypeOK, Message, Copies, CopiesAgree, Transactions, IdleWriter, Unregistered
<1>6. TransactionAnnounced'
  BY DEF NotifyAgain, TransactionAnnounced, Announced, TypeOK, Message, Copies, CopiesAgree, Transactions, IdleWriter, RowFree
<1> QED BY <1>1, <1>3, <1>4, <1>5, <1>6

LEMMA TakeStep ==
  ASSUME Inv, NEW w \in Writers, Take(w)
  PROVE  Inv'
<1> USE StatusAssumption, BoundAssumption, NoneAssumption DEF Inv, agentVars, netVars, serverVars, history
<1>1. TypeOK'
  BY DEF Take, TypeOK, Message, NoRow, IdleWriter, Unregistered, Transactions, NowCrowded
<1>2. Copies' \subseteq Copies
  BY DEF Take, Copies, TypeOK, IdleWriter, Unregistered
<1>3. CopiesAgree'
  BY <1>2, CopiesKept DEF Take, TypeOK, IdleWriter
<1>4. Transactions'
  BY DEF Take, Transactions, TypeOK, Message, IdleWriter, RowFree
<1>5. RowAnnounced'
  BY DEF Take, RowAnnounced, TransactionAnnounced, Announced, TypeOK, Message, Copies, CopiesAgree, Transactions, IdleWriter, Unregistered
<1>6. TransactionAnnounced'
  <2> SUFFICES ASSUME NEW v \in Writers, NEW m, writer'[v].at = "commit", m = writer'[v].msg
               PROVE  Announced(m)'
    BY DEF TransactionAnnounced
  <2>1. CASE v = w
    <3>1. writer'[w].msg = writer[w].msg
      BY <2>1 DEF Take, TypeOK, IdleWriter
    <3>2. hand' = m
      BY <2>1, <3>1 DEF Take
    <3> QED BY <3>2 DEF Announced
  <2>2. CASE v # w
    <3>1. writer'[v] = writer[v]
      BY <2>2 DEF Take, TypeOK
    <3>2. Announced(m) /\ m # None
      BY <3>1 DEF TransactionAnnounced, TypeOK, Message
    <3>3. hand = None /\ hand' = writer[w].msg /\ UNCHANGED <<sending, late, record, vain>>
      BY DEF Take
    <3>4. \A u \in Writers \ {w} : writer'[u] = writer[u]
      BY DEF Take, TypeOK
    <3> HIDE DEF Inv
    <3> QED BY <3>2, <3>3, <3>4 DEF Announced
  <2> QED BY <2>1, <2>2
<1> QED BY <1>1, <1>3, <1>4, <1>5, <1>6

LEMMA CommitStep ==
  ASSUME Inv, NEW w \in Writers, Commit(w)
  PROVE  Inv'
<1> USE StatusAssumption, BoundAssumption, NoneAssumption DEF Inv, agentVars, netVars, serverVars, history
<1>1. TypeOK'
  BY DEF Commit, TypeOK, Message, NoRow, IdleWriter, Unregistered, Transactions, NowCrowded
<1>2. Copies' \subseteq Copies
  BY DEF Commit, Copies, TypeOK, IdleWriter, Unregistered
<1>3. CopiesAgree'
  <2>1. /\ row' = writer[w].msg /\ clock' = clock /\ writer[w].msg.ver = clock /\ clock > 0
        /\ writer[w].tx
    BY DEF Commit, Transactions, TypeOK, Message
  <2>2. \A v \in Writers : ~writer'[v].tx
    BY DEF Commit, Transactions, TypeOK, IdleWriter
  <2>3. row' # NoRow
    BY <2>1 DEF NoRow
  <2> QED BY <1>2, <2>1, <2>2, <2>3 DEF CopiesAgree
<1>4. Transactions'
  BY DEF Commit, Transactions, TypeOK, Message, IdleWriter, RowFree
<1>5. RowAnnounced'
  BY DEF Commit, RowAnnounced, TransactionAnnounced, Announced, TypeOK, Message, Copies, CopiesAgree, Transactions, IdleWriter, Unregistered
<1>6. TransactionAnnounced'
  BY DEF Commit, TransactionAnnounced, Announced, TypeOK, Message, Copies, CopiesAgree, Transactions, IdleWriter, RowFree
<1> QED BY <1>1, <1>3, <1>4, <1>5, <1>6

LEMMA CommitFailsStep ==
  ASSUME Inv, NEW w \in Writers, CommitFails(w)
  PROVE  Inv'
<1> USE StatusAssumption, BoundAssumption, NoneAssumption DEF Inv, agentVars, netVars, serverVars, history
<1>1. TypeOK'
  <2>1. writer[w].tx /\ row.ver \in Nat /\ clock \in Nat
    BY DEF CommitFails, TypeOK, Message, Transactions
  <2>2. writer[w].msg.ver \in 1..clock
    BY <2>1 DEF Transactions
  <2>3. undone' \subseteq 1..clock
    BY <2>2 DEF CommitFails, TypeOK
  <2> QED BY <2>3 DEF CommitFails, TypeOK, Message, NoRow, IdleWriter
<1>2. Copies' \subseteq Copies
  BY DEF CommitFails, Copies, TypeOK, IdleWriter, Unregistered
<1>3. CopiesAgree'
  BY <1>2, CopiesKept DEF CommitFails, TypeOK, IdleWriter
<1>4. Transactions'
  BY DEF CommitFails, Transactions, TypeOK, Message, IdleWriter, RowFree
<1>5. RowAnnounced'
  BY DEF CommitFails, RowAnnounced, TransactionAnnounced, Announced, TypeOK, Message, Copies, CopiesAgree, Transactions, IdleWriter, Unregistered
<1>6. TransactionAnnounced'
  BY DEF CommitFails, TransactionAnnounced, Announced, TypeOK, Message, Copies, CopiesAgree, Transactions, IdleWriter, RowFree
<1> QED BY <1>1, <1>3, <1>4, <1>5, <1>6

LEMMA StartCallStep ==
  ASSUME Inv, StartCall
  PROVE  Inv'
<1> USE StatusAssumption, BoundAssumption, NoneAssumption DEF Inv, agentVars, netVars, serverVars, history
<1>1. TypeOK'
  BY DEF StartCall, TypeOK, Message, NoRow, IdleWriter, Unregistered, Transactions, NowCrowded
<1>2. Copies' \subseteq Copies
  BY DEF StartCall, Copies, TypeOK, IdleWriter, Unregistered
<1>3. CopiesAgree'
  BY <1>2, CopiesKept DEF StartCall, TypeOK, IdleWriter
<1>4. Transactions'
  BY DEF StartCall, Transactions, TypeOK, Message, IdleWriter, RowFree
<1>5. RowAnnounced'
  BY DEF StartCall, RowAnnounced, TransactionAnnounced, Announced, TypeOK, Message, Copies, CopiesAgree, Transactions, IdleWriter, Unregistered
<1>6. TransactionAnnounced'
  BY DEF StartCall, TransactionAnnounced, Announced, TypeOK, Message, Copies, CopiesAgree, Transactions, IdleWriter, RowFree
<1> QED BY <1>1, <1>3, <1>4, <1>5, <1>6

LEMMA GiveUpStep ==
  ASSUME Inv, GiveUp
  PROVE  Inv'
<1> USE StatusAssumption, BoundAssumption, NoneAssumption DEF Inv, agentVars, netVars, serverVars, history
<1>1. TypeOK'
  <2>1. vain' \subseteq row.ver..clock
    BY VersionsTyped DEF GiveUp, TypeOK
  <2>2. late' \subseteq Message
    BY DEF GiveUp, TypeOK
  <2> QED BY <2>1, <2>2 DEF GiveUp, TypeOK
<1>2. Copies' \subseteq Copies
  BY DEF GiveUp, Copies, TypeOK, IdleWriter, Unregistered
<1>3. CopiesAgree'
  BY <1>2, CopiesKept DEF GiveUp, TypeOK, IdleWriter
<1>4. Transactions'
  BY DEF GiveUp, Transactions, TypeOK, Message, IdleWriter, RowFree
<1>5. RowAnnounced'
  BY DEF GiveUp, Versions, RowAnnounced, TransactionAnnounced, Announced, TypeOK, Message, Copies, CopiesAgree, Transactions, IdleWriter, Unregistered
<1>6. TransactionAnnounced'
  BY DEF GiveUp, Versions, TransactionAnnounced, Announced, TypeOK, Message, Copies, CopiesAgree, Transactions, IdleWriter, RowFree
<1> QED BY <1>1, <1>3, <1>4, <1>5, <1>6

LEMMA LoadListStep ==
  ASSUME Inv, LoadList
  PROVE  Inv'
<1> USE StatusAssumption, BoundAssumption, NoneAssumption DEF Inv, agentVars, netVars, serverVars, history
<1>1. TypeOK'
  <2>1. NoRow \in Message
    BY StatusAssumption, BoundAssumption DEF NoRow, Message
  <2>2. row.ver \in row.ver..clock
    BY DEF TypeOK, Message
  <2>3. vain' \subseteq row.ver..clock
    BY <2>2 DEF LoadList, TypeOK
  <2> QED BY <2>1, <2>3 DEF LoadList, TypeOK
<1>2. Copies' \subseteq Copies
  BY DEF LoadList, Copies, TypeOK, IdleWriter, Unregistered
<1>3. CopiesAgree'
  BY <1>2, CopiesKept DEF LoadList, TypeOK, IdleWriter
<1>4. Transactions'
  BY DEF LoadList, Transactions, TypeOK, Message, IdleWriter, RowFree
<1>5. RowAnnounced'
  BY DEF LoadList, RowAnnounced, TransactionAnnounced, Announced, TypeOK, Message, Copies, CopiesAgree, Transactions, IdleWriter, Unregistered
<1>6. TransactionAnnounced'
  BY DEF LoadList, TransactionAnnounced, Announced, TypeOK, Message, Copies, CopiesAgree, Transactions, IdleWriter, RowFree
<1> QED BY <1>1, <1>3, <1>4, <1>5, <1>6

LEMMA DialStep ==
  ASSUME Inv, NEW s \in Sessions, Dial(s)
  PROVE  Inv'
<1> USE StatusAssumption, BoundAssumption, NoneAssumption DEF Inv, agentVars, netVars, serverVars, history
<1>1. TypeOK'
  BY DEF Dial, TypeOK, Message, NoRow, IdleWriter, Unregistered, Transactions, NowCrowded
<1>2. Copies' \subseteq Copies
  BY DEF Dial, Copies, TypeOK, IdleWriter, Unregistered
<1>3. CopiesAgree'
  BY <1>2, CopiesKept DEF Dial, TypeOK, IdleWriter
<1>4. Transactions'
  BY DEF Dial, Transactions, TypeOK, Message, IdleWriter, RowFree
<1>5. RowAnnounced'
  BY DEF Dial, RowAnnounced, TransactionAnnounced, Announced, TypeOK, Message, Copies, CopiesAgree, Transactions, IdleWriter, Unregistered
<1>6. TransactionAnnounced'
  BY DEF Dial, TransactionAnnounced, Announced, TypeOK, Message, Copies, CopiesAgree, Transactions, IdleWriter, RowFree
<1> QED BY <1>1, <1>3, <1>4, <1>5, <1>6

LEMMA BreakStep ==
  ASSUME Inv, Break
  PROVE  Inv'
<1> USE StatusAssumption, BoundAssumption, NoneAssumption DEF Inv, agentVars, netVars, serverVars, history
<1>1. TypeOK'
  BY DEF Break, TypeOK, Message, NoRow, IdleWriter, Unregistered, Transactions, NowCrowded
<1>2. Copies' \subseteq Copies
  BY DEF Break, Copies, TypeOK, IdleWriter, Unregistered
<1>3. CopiesAgree'
  BY <1>2, CopiesKept DEF Break, TypeOK, IdleWriter
<1>4. Transactions'
  BY DEF Break, Transactions, TypeOK, Message, IdleWriter, RowFree
<1>5. RowAnnounced'
  BY DEF Break, RowAnnounced, TransactionAnnounced, Announced, TypeOK, Message, Copies, CopiesAgree, Transactions, IdleWriter, Unregistered
<1>6. TransactionAnnounced'
  BY DEF Break, TransactionAnnounced, Announced, TypeOK, Message, Copies, CopiesAgree, Transactions, IdleWriter, RowFree
<1> QED BY <1>1, <1>3, <1>4, <1>5, <1>6

LEMMA RestartAgentStep ==
  ASSUME Inv, RestartAgent
  PROVE  Inv'
<1> USE StatusAssumption, BoundAssumption, NoneAssumption DEF Inv, agentVars, netVars, serverVars, history
<1>1. TypeOK'
  <2>1. vain' \subseteq row.ver..clock
    BY VersionsTyped DEF RestartAgent, TypeOK
  <2>2. undone' \subseteq 1..clock
    <3>1. row.ver \in Nat /\ clock \in Nat
      BY DEF TypeOK, Message
    <3>2. \A w \in Writers : writer[w].tx => writer[w].msg.ver \in 1..clock
      BY <3>1 DEF Transactions
    <3> QED BY <3>2 DEF RestartAgent, TypeOK
  <2>3. late' \subseteq Message
    BY DEF RestartAgent, TypeOK
  <2>4. NoRow \in Message
    BY StatusAssumption, BoundAssumption DEF NoRow, Message
  <2>5. crashes' \in 0..MaxCrashes
    BY BoundAssumption DEF RestartAgent, TypeOK
  <2> QED BY <2>1, <2>2, <2>3, <2>4, <2>5 DEF RestartAgent, TypeOK, IdleWriter, Unregistered
<1>2. Copies' \subseteq Copies
  BY DEF RestartAgent, Copies, TypeOK, IdleWriter, Unregistered
<1>3. CopiesAgree'
  BY <1>2, CopiesKept DEF RestartAgent, TypeOK, IdleWriter
<1>4. Transactions'
  BY DEF RestartAgent, Transactions, TypeOK, Message, IdleWriter, RowFree
<1>5. RowAnnounced'
  BY DEF RestartAgent, Versions, RowAnnounced, TransactionAnnounced, Announced, TypeOK, Message, Copies, CopiesAgree, Transactions, IdleWriter, Unregistered
<1>6. TransactionAnnounced'
  BY DEF RestartAgent, Versions, TransactionAnnounced, Announced, TypeOK, Message, Copies, CopiesAgree, Transactions, IdleWriter, RowFree
<1> QED BY <1>1, <1>3, <1>4, <1>5, <1>6

LEMMA NotifyDbStatusStep ==
  ASSUME Inv, NotifyDbStatus
  PROVE  Inv'
<1> USE StatusAssumption, BoundAssumption, NoneAssumption DEF Inv, agentVars, netVars, serverVars, history
<1>1. TypeOK'
  BY VersionsTyped DEF NotifyDbStatus, Update, Replaces, TypeOK, Message, NoRow, IdleWriter, Unregistered, Transactions, NowCrowded
<1>2. Copies' \subseteq Copies
  BY DEF NotifyDbStatus, Update, Replaces, Copies, TypeOK, IdleWriter, Unregistered
<1>3. CopiesAgree'
  BY <1>2, CopiesKept DEF NotifyDbStatus, Update, Replaces, TypeOK, IdleWriter
<1>4. Transactions'
  BY DEF NotifyDbStatus, Update, Replaces, Transactions, TypeOK, Message, IdleWriter, RowFree
<1>5. RowAnnounced'
  BY DEF NotifyDbStatus, Update, Replaces, Versions, RowAnnounced, TransactionAnnounced, Announced, TypeOK, Message, Copies, CopiesAgree, Transactions, IdleWriter, Unregistered
<1>6. TransactionAnnounced'
  BY DEF NotifyDbStatus, Update, Replaces, Versions, TransactionAnnounced, Announced, TypeOK, Message, Copies, CopiesAgree, Transactions, IdleWriter, RowFree
<1> QED BY <1>1, <1>3, <1>4, <1>5, <1>6

LEMMA NotifyLateStep ==
  ASSUME Inv, NotifyLate
  PROVE  Inv'
<1> USE StatusAssumption, BoundAssumption, NoneAssumption DEF Inv, agentVars, netVars, serverVars, history
<1>1. TypeOK'
  <2>1. vain' \subseteq row.ver..clock
    BY VersionsTyped DEF NotifyLate, Update, TypeOK
  <2>2. record' \in Message /\ late' \subseteq Message
    BY DEF NotifyLate, Update, Replaces, TypeOK
  <2> QED BY <2>1, <2>2 DEF NotifyLate, Update, TypeOK
<1>2. Copies' \subseteq Copies
  BY DEF NotifyLate, Update, Replaces, Copies, TypeOK, IdleWriter, Unregistered
<1>3. CopiesAgree'
  BY <1>2, CopiesKept DEF NotifyLate, Update, Replaces, TypeOK, IdleWriter
<1>4. Transactions'
  BY DEF NotifyLate, Update, Replaces, Transactions, TypeOK, Message, IdleWriter, RowFree
<1>5. RowAnnounced'
  BY DEF NotifyLate, Update, Replaces, Versions, RowAnnounced, TransactionAnnounced, Announced, TypeOK, Message, Copies, CopiesAgree, Transactions, IdleWriter, Unregistered
<1>6. TransactionAnnounced'
  BY DEF NotifyLate, Update, Replaces, Versions, TransactionAnnounced, Announced, TypeOK, Message, Copies, CopiesAgree, Transactions, IdleWriter, RowFree
<1> QED BY <1>1, <1>3, <1>4, <1>5, <1>6

LEMMA RegisterStep ==
  ASSUME Inv, NEW s \in Sessions, Register(s)
  PROVE  Inv'
<1> USE StatusAssumption, BoundAssumption, NoneAssumption DEF Inv, agentVars, netVars, serverVars, history
<1>1. TypeOK'
  <2>1. vain' \subseteq row.ver..clock
    BY VersionsTyped DEF Register, Update, TypeOK
  <2>2. NoRow \in Message /\ session[s].list \in Message
    BY StatusAssumption, BoundAssumption DEF NoRow, Message, TypeOK
  <2>3. record' \in Message /\ origin' \in {"nothing", "status", "list", "late"}
    BY <2>2 DEF Register, Update, Replaces, TypeOK
  <2>4. session' \in [Sessions -> [at : {"unused", "arriving", "done"}, list : Message]]
    BY <2>2 DEF Register, TypeOK
  <2> QED BY <2>1, <2>3, <2>4 DEF Register, TypeOK
<1>2. Copies' \subseteq Copies
  BY DEF Register, Update, Replaces, Copies, TypeOK, IdleWriter, Unregistered
<1>3. CopiesAgree'
  BY <1>2, CopiesKept DEF Register, Update, Replaces, TypeOK, IdleWriter
<1>4. Transactions'
  BY DEF Register, Update, Replaces, Transactions, TypeOK, Message, IdleWriter, RowFree
<1>5. RowAnnounced'
  <2>1. CASE session[s].list = NoRow
    <3>1. UNCHANGED <<row, writer, hand, sending, late, record, vain, reg>>
      BY <2>1 DEF Register
    <3>2. \A k \in Sessions : session[k].at = "arriving" /\ session[k].list = row =>
            session'[k] = session[k] \/ row = NoRow
      BY <2>1 DEF Register, TypeOK
    <3>3. row = NoRow => record = row
      BY DEF CopiesAgree, Copies, TypeOK, Message, NoRow
    <3> QED BY <3>1, <3>2, <3>3 DEF RowAnnounced, Announced
  <2>2. CASE session[s].list # NoRow
    BY <2>2 DEF Register, Update, Replaces, Versions, RowAnnounced, Announced, TypeOK, Message, Copies, CopiesAgree
  <2> QED BY <2>1, <2>2
<1>6. TransactionAnnounced'
  <2>1. CASE session[s].list = NoRow
    BY <2>1 DEF Register, TransactionAnnounced, Announced
  <2>2. CASE session[s].list # NoRow
    <3>1. session[s].list \in Copies /\ record \in Message /\ record \in Copies
      BY DEF Copies, TypeOK
    <3>2. ASSUME NEW w \in Writers, writer[w].at = "commit" PROVE Announced(writer[w].msg)'
      <4>1. /\ writer[w].tx /\ writer[w].msg.ver = clock /\ row.ver < clock
            /\ \A m \in Copies : m.ver = clock => m = writer[w].msg
        BY <3>2 DEF Transactions, CopiesAgree
      <4>2. Announced(writer[w].msg)
        BY <3>2 DEF TransactionAnnounced
      <4>3. UNCHANGED <<row, clock, writer, hand, sending, late>>
        BY DEF Register
      <4>4. /\ record' = session[s].list
            /\ vain' = (vain \cup Versions({record})) \ {session[s].list.ver}
        BY <2>2 DEF Register, Update, Replaces
      <4>5. CASE session[s].list.ver = clock
        BY <3>1, <4>1, <4>3, <4>4, <4>5 DEF Announced
      <4>6. CASE session[s].list.ver # clock
        <5>1. record = writer[w].msg => clock \in Versions({record})
          BY <4>1 DEF Versions, TypeOK, Message
        <5> QED BY <4>1, <4>2, <4>3, <4>4, <4>6, <5>1 DEF Announced
      <4> QED BY <4>5, <4>6
    <3>3. writer' = writer
      BY DEF Register
    <3> QED BY <3>2, <3>3 DEF TransactionAnnounced
  <2> QED BY <2>1, <2>2
<1> QED BY <1>1, <1>3, <1>4, <1>5, <1>6

LEMMA RestartServerStep ==
  ASSUME Inv, RestartServer
  PROVE  Inv'
<1> USE StatusAssumption, BoundAssumption, NoneAssumption DEF Inv, agentVars, netVars, serverVars, history
<1>1. TypeOK'
  <2>1. vain' \subseteq row.ver..clock
    BY VersionsTyped DEF RestartServer, TypeOK
  <2>2. NoRow \in Message
    BY StatusAssumption, BoundAssumption DEF NoRow, Message
  <2>3. session' \in [Sessions -> [at : {"unused", "arriving", "done"}, list : Message]]
    BY <2>2 DEF RestartServer, TypeOK
  <2>4. crashes' \in 0..MaxCrashes /\ reg' \in [at : {"load", "dial", "up"}, list : Message]
    BY <2>2, BoundAssumption DEF RestartServer, TypeOK, Unregistered
  <2> QED BY <2>1, <2>2, <2>3, <2>4 DEF RestartServer, TypeOK
<1>2. Copies' \subseteq Copies
  BY DEF RestartServer, Copies, TypeOK, IdleWriter, Unregistered
<1>3. CopiesAgree'
  BY <1>2, CopiesKept DEF RestartServer, TypeOK, IdleWriter
<1>4. Transactions'
  BY DEF RestartServer, Transactions, TypeOK, Message, IdleWriter, RowFree
<1>5. RowAnnounced'
  BY DEF RestartServer, Versions, RowAnnounced, TransactionAnnounced, Announced, TypeOK, Message, Copies, CopiesAgree, Transactions, IdleWriter, Unregistered
<1>6. TransactionAnnounced'
  BY DEF RestartServer, Versions, TransactionAnnounced, Announced, TypeOK, Message, Copies, CopiesAgree, Transactions, IdleWriter, RowFree
<1> QED BY <1>1, <1>3, <1>4, <1>5, <1>6

LEMMA InitInv == Init => Inv
<1> SUFFICES ASSUME Init PROVE Inv
  OBVIOUS
<1> USE StatusAssumption, BoundAssumption, NoneAssumption DEF Init, IdleWriter, Unregistered
<1>1. NoRow \in Message
  BY DEF NoRow, Message
<1>2. TypeOK
  <2>1. row.ver = 0
    BY DEF NoRow
  <2>2. /\ writer \in [Writers -> [at : {"idle", "notify", "commit"}, tx : BOOLEAN, msg : Message]]
        /\ session \in [Sessions -> [at : {"unused", "arriving", "done"}, list : Message]]
        /\ reg \in [at : {"load", "dial", "up"}, list : Message]
    BY <1>1
  <2>3. known \in BOOLEAN /\ crowded \in BOOLEAN
    OBVIOUS
  <2>4. clock \in row.ver..MaxWrites /\ crashes \in 0..MaxCrashes
    BY <2>1
  <2>5. undone \subseteq 1..clock /\ vain \subseteq row.ver..clock /\ late \subseteq Message
    OBVIOUS
  <2>6. /\ hand \in Message \cup {None} /\ sending \in Message \cup {None}
        /\ row \in Message /\ record \in Message /\ origin \in {"nothing", "status", "list", "late"}
    BY <1>1
  <2> QED BY <2>2, <2>3, <2>4, <2>5, <2>6 DEF TypeOK
<1>3. Copies \subseteq {NoRow}
  BY DEF Copies
<1>4. CopiesAgree
  BY <1>3 DEF CopiesAgree, NoRow
<1>5. Transactions /\ RowAnnounced /\ TransactionAnnounced
  BY DEF Transactions, RowAnnounced, TransactionAnnounced
<1> QED BY <1>2, <1>4, <1>5 DEF Inv

LEMMA StutterStep ==
  ASSUME Inv, UNCHANGED vars
  PROVE  Inv'
<1> USE DEF Inv, vars, agentVars, netVars, serverVars, history
<1>1. TypeOK'
  BY DEF TypeOK
<1>2. CopiesAgree' /\ Transactions'
  BY DEF CopiesAgree, Copies, Transactions
<1>3. RowAnnounced' /\ TransactionAnnounced'
  BY DEF RowAnnounced, TransactionAnnounced, Announced
<1> QED BY <1>1, <1>2, <1>3

\* The inductive invariant.
THEOREM Invariance == Spec => []Inv
<1>1. Inv /\ [Next]_vars => Inv'
  <2> SUFFICES ASSUME Inv, [Next]_vars PROVE Inv'
    OBVIOUS
  <2>1. ASSUME NEW w \in Writers,
               WriteRow(w) \/ WriteInTransaction(w) \/ NotifyAgain(w) \/ WriterNext(w)
        PROVE  Inv'
    BY <2>1, WriteRowStep, WriteInTransactionStep, NotifyAgainStep, TakeStep, CommitStep, CommitFailsStep
    DEF WriterNext
  <2>2. ASSUME NEW s \in Sessions, Dial(s) \/ Register(s) PROVE Inv'
    BY <2>2, DialStep, RegisterStep
  <2>3. ASSUME \/ StartCall \/ CallEnds \/ NotifyLate
               \/ LoadList \/ Break \/ RestartAgent \/ RestartServer
        PROVE  Inv'
    BY <2>3, StartCallStep, GiveUpStep, NotifyDbStatusStep, NotifyLateStep, LoadListStep, BreakStep,
       RestartAgentStep, RestartServerStep DEF CallEnds
  <2> QED BY <2>1, <2>2, <2>3, StutterStep DEF Next, RegisterNext
<1> QED BY <1>1, InitInv, PTL DEF Spec

-----------------------------------------------------------------------------
\* Types; in particular what counts as lost is a version that was given and that
\* the row is not past.
THEOREM TypeCorrect == Spec => []TypeOK
<1>1. Inv => TypeOK
  BY DEF Inv
<1> QED BY <1>1, Invariance, PTL

\* database.go:33, db_api.go:163: whatever is delayed, broken off, restarted or
\* rolled back, and however often, a record that differs from its row when nothing
\* is on its way does so for a reason the agent had no second try for.
THEOREM StaleAlwaysExplained == Spec => []StaleIsExplained
<1>1. Inv => StaleIsExplained
  <2> SUFFICES ASSUME Inv, Quiet PROVE record = row \/ row.ver \in vain
    BY DEF StaleIsExplained
  <2>1. Announced(row)
    BY DEF Inv, RowAnnounced, Quiet
  <2>2. row # None
    BY NoneAssumption DEF Inv, TypeOK
  <2> QED BY <2>1, <2>2 DEF Announced, Quiet
<1> QED BY <1>1, Invariance, PTL

-----------------------------------------------------------------------------
(* The order of the statuses *)

\* A copy is not newer than the row, or its write was rolled back, or still can be.
Settled ==
  \A m \in Copies :
    \/ m.ver <= row.ver
    \/ m.ver \in undone
    \/ \E w \in Writers : writer[w].tx /\ writer[w].msg.ver = m.ver

\* Whether a copy may arrive before another one.
NotAfter(m, k) == m.ver <= k.ver \/ m.ver \in undone

\* What was sent no later than the last elements of the queue, or has arrived
\* without a registration.
Sent(last) == late \cup (last \ {None}) \cup {m \in {record} : origin # "list"}

\* One writer at a time, and what it sends comes after what was sent.
Queued ==
  /\ \A v, w \in Writers : writer[v].at # "idle" /\ writer[w].at # "idle" => v = w
  /\ \A w \in Writers : writer[w].at = "notify" =>
       \A m \in Sent({hand, sending}) : NotAfter(m, writer[w].msg)
  /\ hand # None => \A m \in Sent({sending}) : NotAfter(m, hand)
  /\ sending # None => \A m \in Sent({}) : NotAfter(m, sending)

InOrder == Settled /\ (~crowded => Queued)

\* The version of a copy is a number.
LEMMA CopiesTyped ==
  ASSUME TypeOK
  PROVE  /\ \A m \in Copies : m \in Message /\ m.ver \in Nat
         /\ row.ver \in Nat /\ clock \in Nat
<1>1. NoRow \in Message BY StatusAssumption, BoundAssumption DEF NoRow, Message
<1>2. \A m \in Copies : m \in Message BY <1>1 DEF Copies, TypeOK
<1>3. \A m \in Message : m.ver \in Nat BY DEF Message
<1> QED BY <1>2, <1>3, BoundAssumption DEF TypeOK

\* What was sent is a copy.
LEMMA SentAreCopies ==
  /\ Sent({hand, sending}) \subseteq Copies
  /\ Sent({sending}) \subseteq Copies
  /\ Sent({}) \subseteq Copies
BY DEF Sent, Copies

\* Copies that are moved or dropped stay settled.
LEMMA SettledKept ==
  ASSUME TypeOK, TypeOK', Settled, Copies' \subseteq Copies, row.ver <= row'.ver, undone \subseteq undone',
         \A w \in Writers : writer[w].tx =>
           \/ writer'[w].tx /\ writer'[w].msg = writer[w].msg
           \/ writer[w].msg.ver <= row'.ver
           \/ writer[w].msg.ver \in undone'
  PROVE  Settled'
<1> SUFFICES ASSUME NEW m \in Copies'
             PROVE  \/ m.ver <= row'.ver
                    \/ m.ver \in undone'
                    \/ \E w \in Writers : writer'[w].tx /\ writer'[w].msg.ver = m.ver
  BY DEF Settled
<1>1. m \in Copies /\ m.ver \in Nat /\ row.ver \in Nat /\ row'.ver \in Nat
  BY CopiesTyped, BoundAssumption DEF TypeOK, Message
<1>2. CASE m.ver <= row.ver BY <1>1, <1>2
<1>3. CASE m.ver \in undone BY <1>3
<1>4. ASSUME NEW w \in Writers, writer[w].tx, writer[w].msg.ver = m.ver
      PROVE  \/ m.ver <= row'.ver
             \/ m.ver \in undone'
             \/ \E v \in Writers : writer'[v].tx /\ writer'[v].msg.ver = m.ver
  BY <1>4
<1> QED BY <1>1, <1>2, <1>3, <1>4 DEF Settled

\* Before a writer begins, nothing that was sent is newer than what it may send.
LEMMA BeginsLast ==
  ASSUME Inv, Settled, \A v \in Writers : writer[v].at = "idle",
         NEW k \in Message, row.ver <= k.ver
  PROVE  \A m \in Copies : NotAfter(m, k)
<1>1. \A v \in Writers : ~writer[v].tx BY DEF Inv, Transactions
<1>2. \A m \in Copies : m.ver \in Nat BY CopiesTyped DEF Inv
<1>3. row.ver \in Nat /\ k.ver \in Nat BY CopiesTyped DEF Inv, Message
<1> QED BY <1>1, <1>2, <1>3 DEF Settled, NotAfter

\* What a writer that begins, or an open transaction, may send comes last.
LEMMA QueuedBehind ==
  ASSUME TypeOK, \A v \in Writers : writer[v].at = "idle", NEW w \in Writers, NEW k,
         writer' = [writer EXCEPT ![w] = k], k.at = "notify",
         \A m \in Copies : NotAfter(m, k.msg), Queued,
         UNCHANGED <<hand, sending, late, record, origin, undone>>
  PROVE  Queued'
<1>1. \A v \in Writers : writer'[v].at # "idle" => v = w BY DEF TypeOK
<1>2. writer'[w] = k BY DEF TypeOK
<1>3. \A last : Sent(last)' = Sent(last) BY DEF Sent
<1> QED BY <1>1, <1>2, SentAreCopies DEF Queued, NotAfter, Sent

\* A write is newer than all there is.
LEMMA WriteRowOrders ==
  ASSUME Inv, Inv', InOrder, NEW w \in Writers, WriteRow(w)
  PROVE  InOrder'
<1>0. TypeOK BY DEF Inv
<1>1. Settled'
  <2>1. \A m \in Copies' : m \in Copies \/ m = row'
    BY DEF WriteRow, Copies, TypeOK, agentVars, netVars, serverVars, history, Inv
  <2>2. \A m \in Copies : m.ver <= row'.ver
    BY CopiesTyped DEF WriteRow, Inv, CopiesAgree
  <2>3. row'.ver <= row'.ver BY CopiesTyped DEF Inv, TypeOK, Message, WriteRow
  <2> QED BY <2>1, <2>2, <2>3 DEF Settled
<1>2. ASSUME ~crowded' PROVE Queued'
  <2>1. ~crowded /\ \A v \in Writers : writer[v].at = "idle"
    BY <1>2 DEF WriteRow, NowCrowded
  <2> DEFINE k == [at |-> "notify", tx |-> FALSE, msg |-> row']
  <2>2. /\ writer' = [writer EXCEPT ![w] = k]
        /\ k.at = "notify" /\ k.msg \in Message /\ row.ver <= k.msg.ver
    <3>1. row' \in Message BY DEF Inv, TypeOK
    <3>2. row.ver <= row'.ver BY CopiesTyped DEF WriteRow, Inv, TypeOK
    <3> QED BY <3>1, <3>2 DEF WriteRow
  <2> HIDE DEF k
  <2>3. \A m \in Copies : NotAfter(m, k.msg) BY <2>1, <2>2, BeginsLast DEF InOrder
  <2>4. UNCHANGED <<hand, sending, late, record, origin, undone>> BY DEF WriteRow, agentVars, netVars, serverVars, history
  <2> QED BY <1>0, <2>1, <2>2, <2>3, <2>4, QueuedBehind DEF InOrder
<1> QED BY <1>1, <1>2 DEF InOrder

\* So is a write in a transaction.
LEMMA WriteInTransactionOrders ==
  ASSUME Inv, Inv', InOrder, NEW w \in Writers, WriteInTransaction(w)
  PROVE  InOrder'
<1>0. TypeOK BY DEF Inv
<1>1. Settled'
  <2>1. \A m \in Copies' : m \in Copies \/ m = writer'[w].msg
    BY DEF WriteInTransaction, Copies, TypeOK, agentVars, netVars, serverVars, history, Inv
  <2>2. writer'[w].tx /\ \A v \in Writers : ~writer[v].tx
    BY DEF WriteInTransaction, Inv, TypeOK, RowFree
  <2>3. row' = row /\ undone' = undone BY DEF WriteInTransaction
  <2> QED BY <2>1, <2>2, <2>3 DEF Settled, InOrder
<1>2. ASSUME ~crowded' PROVE Queued'
  <2>1. ~crowded /\ \A v \in Writers : writer[v].at = "idle"
    BY <1>2 DEF WriteInTransaction, NowCrowded
  <2> DEFINE k == [at |-> "notify", tx |-> TRUE, msg |-> [ver |-> clock + 1, is |-> "leaving"]]
  <2>2. /\ writer' = [writer EXCEPT ![w] = k]
        /\ k.at = "notify" /\ k.msg \in Message /\ row.ver <= k.msg.ver
    <3>1. writer'[w] = k /\ writer' = [writer EXCEPT ![w] = k] BY DEF WriteInTransaction, Inv, TypeOK
    <3>2. k.msg \in Message BY <3>1 DEF Inv, TypeOK
    <3>3. row.ver <= clock + 1 BY CopiesTyped DEF Inv, TypeOK
    <3> QED BY <3>1, <3>2, <3>3
  <2> HIDE DEF k
  <2>3. \A m \in Copies : NotAfter(m, k.msg) BY <2>1, <2>2, BeginsLast DEF InOrder
  <2>4. UNCHANGED <<hand, sending, late, record, origin, undone>> BY DEF WriteInTransaction, agentVars, netVars, serverVars, history
  <2> QED BY <1>0, <2>1, <2>2, <2>3, <2>4, QueuedBehind DEF InOrder
<1> QED BY <1>1, <1>2 DEF InOrder

\* The row as a request found it is not older than what was sent.
LEMMA NotifyAgainOrders ==
  ASSUME Inv, Inv', InOrder, NEW w \in Writers, NotifyAgain(w)
  PROVE  InOrder'
<1>0. TypeOK BY DEF Inv
<1>1. Settled'
  <2>1. Copies' \subseteq Copies BY DEF NotifyAgain, Copies, TypeOK, agentVars, netVars, serverVars, history, Inv
  <2>2. row.ver <= row'.ver /\ undone \subseteq undone' BY CopiesTyped DEF NotifyAgain, Inv
  <2>3. \A v \in Writers : writer[v].tx => writer'[v].tx /\ writer'[v].msg = writer[v].msg
    BY DEF NotifyAgain, Inv, TypeOK, Transactions
  <2> QED BY <2>1, <2>2, <2>3, SettledKept DEF Inv, InOrder
<1>2. ASSUME ~crowded' PROVE Queued'
  <2>1. ~crowded /\ \A v \in Writers : writer[v].at = "idle"
    BY <1>2 DEF NotifyAgain, NowCrowded
  <2> DEFINE k == [at |-> "notify", tx |-> FALSE, msg |-> row]
  <2>2. /\ writer' = [writer EXCEPT ![w] = k]
        /\ k.at = "notify" /\ k.msg \in Message /\ row.ver <= k.msg.ver
    <3>1. row \in Message /\ row.ver <= row.ver BY CopiesTyped DEF Inv, TypeOK
    <3> QED BY <3>1 DEF NotifyAgain
  <2> HIDE DEF k
  <2>3. \A m \in Copies : NotAfter(m, k.msg) BY <2>1, <2>2, BeginsLast DEF InOrder
  <2>4. UNCHANGED <<hand, sending, late, record, origin, undone>> BY DEF NotifyAgain, agentVars, netVars, serverVars, history
  <2> QED BY <1>0, <2>1, <2>2, <2>3, <2>4, QueuedBehind DEF InOrder
<1> QED BY <1>1, <1>2 DEF InOrder

\* The element is the last one the queue has taken.
LEMMA TakeOrders ==
  ASSUME Inv, Inv', InOrder, NEW w \in Writers, Take(w)
  PROVE  InOrder'
<1>1. Settled'
  <2>1. Copies' \subseteq Copies BY DEF Take, Copies, agentVars, netVars, serverVars, history, IdleWriter, Unregistered, Inv, TypeOK
  <2>2. row.ver <= row'.ver /\ undone \subseteq undone' BY CopiesTyped DEF Take, Inv, agentVars, netVars, serverVars, history, Transactions, TypeOK
  <2>3. \A v \in Writers : writer[v].tx => writer'[v].tx /\ writer'[v].msg = writer[v].msg
    BY DEF Take, Inv, TypeOK, Transactions, agentVars, netVars, serverVars, history
  <2> QED BY <2>1, <2>2, <2>3, SettledKept DEF Inv, InOrder
<1>2. ASSUME ~crowded' PROVE Queued'
  BY <1>2 DEF Take, InOrder, Queued, Sent, NotAfter, Inv, TypeOK, agentVars, netVars, serverVars, history, IdleWriter
<1> QED BY <1>1, <1>2 DEF InOrder

\* The row is as new as the copy the transaction sent.
LEMMA CommitOrders ==
  ASSUME Inv, Inv', InOrder, NEW w \in Writers, Commit(w)
  PROVE  InOrder'
<1>1. Settled'
  <2>1. Copies' \subseteq Copies BY DEF Commit, Copies, agentVars, netVars, serverVars, history, IdleWriter, Unregistered, Inv, TypeOK
  <2>2. row.ver <= row'.ver /\ undone \subseteq undone' BY CopiesTyped DEF Commit, Inv, agentVars, netVars, serverVars, history, Transactions, TypeOK
  <2>3. \A v \in Writers : writer[v].tx => writer[v].msg.ver <= row'.ver
    BY DEF Commit, Inv, TypeOK, Transactions, agentVars, netVars, serverVars, history
  <2> QED BY <2>1, <2>2, <2>3, SettledKept DEF Inv, InOrder
<1>2. ASSUME ~crowded' PROVE Queued'
  BY <1>2 DEF Commit, InOrder, Queued, Sent, NotAfter, Inv, TypeOK, agentVars, netVars, serverVars, history, IdleWriter
<1> QED BY <1>1, <1>2 DEF InOrder

\* What was rolled back does not count.
LEMMA CommitFailsOrders ==
  ASSUME Inv, Inv', InOrder, NEW w \in Writers, CommitFails(w)
  PROVE  InOrder'
<1>1. Settled'
  <2>1. Copies' \subseteq Copies BY DEF CommitFails, Copies, agentVars, netVars, serverVars, history, IdleWriter, Unregistered, Inv, TypeOK
  <2>2. row.ver <= row'.ver /\ undone \subseteq undone' BY CopiesTyped DEF CommitFails, Inv, agentVars, netVars, serverVars, history, Transactions, TypeOK
  <2>3. \A v \in Writers : writer[v].tx => writer[v].msg.ver \in undone'
    BY DEF CommitFails, Inv, TypeOK, Transactions, agentVars, netVars, serverVars, history
  <2> QED BY <2>1, <2>2, <2>3, SettledKept DEF Inv, InOrder
<1>2. ASSUME ~crowded' PROVE Queued'
  BY <1>2 DEF CommitFails, InOrder, Queued, Sent, NotAfter, Inv, TypeOK, agentVars, netVars, serverVars, history, IdleWriter
<1> QED BY <1>1, <1>2 DEF InOrder

\* Elements go to the worker in their order.
LEMMA StartCallOrders ==
  ASSUME Inv, Inv', InOrder, StartCall
  PROVE  InOrder'
<1>1. Settled'
  <2>1. Copies' \subseteq Copies BY DEF StartCall, Copies, agentVars, netVars, serverVars, history, IdleWriter, Unregistered, Inv, TypeOK
  <2>2. row.ver <= row'.ver /\ undone \subseteq undone' BY CopiesTyped DEF StartCall, Inv, agentVars, netVars, serverVars, history, Transactions, TypeOK
  <2>3. \A w \in Writers : writer[w].tx => writer'[w].tx /\ writer'[w].msg = writer[w].msg
    BY DEF StartCall, agentVars, netVars, serverVars, history
  <2> QED BY <2>1, <2>2, <2>3, SettledKept DEF Inv, InOrder
<1>2. ASSUME ~crowded' PROVE Queued'
  BY <1>2 DEF StartCall, InOrder, Queued, Sent, NotAfter, Inv, TypeOK, agentVars, netVars, serverVars, history, IdleWriter
<1> QED BY <1>1, <1>2 DEF InOrder

\* A call given up stays before those that follow.
LEMMA GiveUpOrders ==
  ASSUME Inv, Inv', InOrder, GiveUp
  PROVE  InOrder'
<1>1. Settled'
  <2>1. Copies' \subseteq Copies BY DEF GiveUp, Copies, agentVars, netVars, serverVars, history, IdleWriter, Unregistered, Inv, TypeOK
  <2>2. row.ver <= row'.ver /\ undone \subseteq undone' BY CopiesTyped DEF GiveUp, Inv, agentVars, netVars, serverVars, history, Transactions, TypeOK
  <2>3. \A w \in Writers : writer[w].tx => writer'[w].tx /\ writer'[w].msg = writer[w].msg
    BY DEF GiveUp, agentVars, netVars, serverVars, history
  <2> QED BY <2>1, <2>2, <2>3, SettledKept DEF Inv, InOrder
<1>2. ASSUME ~crowded' PROVE Queued'
  BY <1>2 DEF GiveUp, InOrder, Queued, Sent, NotAfter, Inv, TypeOK, agentVars, netVars, serverVars, history, IdleWriter
<1> QED BY <1>1, <1>2 DEF InOrder

\* A list is no status.
LEMMA LoadListOrders ==
  ASSUME Inv, Inv', InOrder, LoadList
  PROVE  InOrder'
<1>1. Settled'
  <2>1. Copies' \subseteq Copies BY DEF LoadList, Copies, agentVars, netVars, serverVars, history, IdleWriter, Unregistered, Inv, TypeOK
  <2>2. row.ver <= row'.ver /\ undone \subseteq undone' BY CopiesTyped DEF LoadList, Inv, agentVars, netVars, serverVars, history, Transactions, TypeOK
  <2>3. \A w \in Writers : writer[w].tx => writer'[w].tx /\ writer'[w].msg = writer[w].msg
    BY DEF LoadList, agentVars, netVars, serverVars, history
  <2> QED BY <2>1, <2>2, <2>3, SettledKept DEF Inv, InOrder
<1>2. ASSUME ~crowded' PROVE Queued'
  BY <1>2 DEF LoadList, InOrder, Queued, Sent, NotAfter, Inv, TypeOK, agentVars, netVars, serverVars, history, IdleWriter
<1> QED BY <1>1, <1>2 DEF InOrder

\* Nor is a registration.
LEMMA DialOrders ==
  ASSUME Inv, Inv', InOrder, NEW s \in Sessions, Dial(s)
  PROVE  InOrder'
<1>1. Settled'
  <2>1. Copies' \subseteq Copies BY DEF Dial, Copies, agentVars, netVars, serverVars, history, IdleWriter, Unregistered, Inv, TypeOK
  <2>2. row.ver <= row'.ver /\ undone \subseteq undone' BY CopiesTyped DEF Dial, Inv, agentVars, netVars, serverVars, history, Transactions, TypeOK
  <2>3. \A w \in Writers : writer[w].tx => writer'[w].tx /\ writer'[w].msg = writer[w].msg
    BY DEF Dial, agentVars, netVars, serverVars, history
  <2> QED BY <2>1, <2>2, <2>3, SettledKept DEF Inv, InOrder
<1>2. ASSUME ~crowded' PROVE Queued'
  BY <1>2 DEF Dial, InOrder, Queued, Sent, NotAfter, Inv, TypeOK, agentVars, netVars, serverVars, history, IdleWriter
<1> QED BY <1>1, <1>2 DEF InOrder

\* A broken stream sends nothing.
LEMMA BreakOrders ==
  ASSUME Inv, Inv', InOrder, Break
  PROVE  InOrder'
<1>1. Settled'
  <2>1. Copies' \subseteq Copies BY DEF Break, Copies, agentVars, netVars, serverVars, history, IdleWriter, Unregistered, Inv, TypeOK
  <2>2. row.ver <= row'.ver /\ undone \subseteq undone' BY CopiesTyped DEF Break, Inv, agentVars, netVars, serverVars, history, Transactions, TypeOK
  <2>3. \A w \in Writers : writer[w].tx => writer'[w].tx /\ writer'[w].msg = writer[w].msg
    BY DEF Break, agentVars, netVars, serverVars, history
  <2> QED BY <2>1, <2>2, <2>3, SettledKept DEF Inv, InOrder
<1>2. ASSUME ~crowded' PROVE Queued'
  BY <1>2 DEF Break, InOrder, Queued, Sent, NotAfter, Inv, TypeOK, agentVars, netVars, serverVars, history, IdleWriter
<1> QED BY <1>1, <1>2 DEF InOrder

\* What is left of an agent is a late call.
LEMMA RestartAgentOrders ==
  ASSUME Inv, Inv', InOrder, RestartAgent
  PROVE  InOrder'
<1>1. Settled'
  <2>1. Copies' \subseteq Copies BY DEF RestartAgent, Copies, agentVars, netVars, serverVars, history, IdleWriter, Unregistered, Inv, TypeOK
  <2>2. row.ver <= row'.ver /\ undone \subseteq undone' BY CopiesTyped DEF RestartAgent, Inv, agentVars, netVars, serverVars, history, Transactions, TypeOK
  <2>3. \A v \in Writers : writer[v].tx => writer[v].msg.ver \in undone'
    BY DEF RestartAgent
  <2> QED BY <2>1, <2>2, <2>3, SettledKept DEF Inv, InOrder
<1>2. ASSUME ~crowded' PROVE Queued'
  BY <1>2 DEF RestartAgent, InOrder, Queued, Sent, NotAfter, Inv, TypeOK, agentVars, netVars, serverVars, history, IdleWriter
<1> QED BY <1>1, <1>2 DEF InOrder

\* The status that arrives was sent before those that follow.
LEMMA NotifyDbStatusOrders ==
  ASSUME Inv, Inv', InOrder, NotifyDbStatus
  PROVE  InOrder'
<1>1. Settled'
  <2>1. Copies' \subseteq Copies BY DEF NotifyDbStatus, Update, Replaces, Copies, agentVars, netVars, serverVars, history, IdleWriter, Unregistered, Inv, TypeOK
  <2>2. row.ver <= row'.ver /\ undone \subseteq undone' BY CopiesTyped DEF NotifyDbStatus, Update, Replaces, Inv, agentVars, netVars, serverVars, history, Transactions, TypeOK
  <2>3. \A w \in Writers : writer[w].tx => writer'[w].tx /\ writer'[w].msg = writer[w].msg
    BY DEF NotifyDbStatus, Update, Replaces, agentVars, netVars, serverVars, history
  <2> QED BY <2>1, <2>2, <2>3, SettledKept DEF Inv, InOrder
<1>2. ASSUME ~crowded' PROVE Queued'
  BY <1>2 DEF NotifyDbStatus, Update, Replaces, InOrder, Queued, Sent, NotAfter, Inv, TypeOK, agentVars, netVars, serverVars, history, IdleWriter
<1> QED BY <1>1, <1>2 DEF InOrder

\* So was one that is late.
LEMMA NotifyLateOrders ==
  ASSUME Inv, Inv', InOrder, NotifyLate
  PROVE  InOrder'
<1>1. Settled'
  <2>1. Copies' \subseteq Copies BY DEF NotifyLate, Update, Replaces, Copies, agentVars, netVars, serverVars, history, IdleWriter, Unregistered, Inv, TypeOK
  <2>2. row.ver <= row'.ver /\ undone \subseteq undone' BY CopiesTyped DEF NotifyLate, Update, Replaces, Inv, agentVars, netVars, serverVars, history, Transactions, TypeOK
  <2>3. \A w \in Writers : writer[w].tx => writer'[w].tx /\ writer'[w].msg = writer[w].msg
    BY DEF NotifyLate, Update, Replaces, agentVars, netVars, serverVars, history
  <2> QED BY <2>1, <2>2, <2>3, SettledKept DEF Inv, InOrder
<1>2. ASSUME ~crowded' PROVE Queued'
  BY <1>2 DEF NotifyLate, Update, Replaces, InOrder, Queued, Sent, NotAfter, Inv, TypeOK, agentVars, netVars, serverVars, history, IdleWriter
<1> QED BY <1>1, <1>2 DEF InOrder

\* A list replaces the record, which then says nothing about the order.
LEMMA RegisterOrders ==
  ASSUME Inv, Inv', InOrder, NEW s \in Sessions, Register(s)
  PROVE  InOrder'
<1>1. Settled'
  <2>1. Copies' \subseteq Copies BY DEF Register, Update, Replaces, Copies, agentVars, netVars, serverVars, history, IdleWriter, Unregistered, Inv, TypeOK
  <2>2. row.ver <= row'.ver /\ undone \subseteq undone' BY CopiesTyped DEF Register, Update, Replaces, Inv, agentVars, netVars, serverVars, history, Transactions, TypeOK
  <2>3. \A w \in Writers : writer[w].tx => writer'[w].tx /\ writer'[w].msg = writer[w].msg
    BY DEF Register, Update, Replaces, agentVars, netVars, serverVars, history
  <2> QED BY <2>1, <2>2, <2>3, SettledKept DEF Inv, InOrder
<1>2. ASSUME ~crowded' PROVE Queued'
  BY <1>2 DEF Register, Update, Replaces, InOrder, Queued, Sent, NotAfter, Inv, TypeOK, agentVars, netVars, serverVars, history, IdleWriter
<1> QED BY <1>1, <1>2 DEF InOrder

\* A server that was restarted has no record.
LEMMA RestartServerOrders ==
  ASSUME Inv, Inv', InOrder, RestartServer
  PROVE  InOrder'
<1>1. Settled'
  <2>1. Copies' \subseteq Copies BY DEF RestartServer, Copies, agentVars, netVars, serverVars, history, IdleWriter, Unregistered, Inv, TypeOK
  <2>2. row.ver <= row'.ver /\ undone \subseteq undone' BY CopiesTyped DEF RestartServer, Inv, agentVars, netVars, serverVars, history, Transactions, TypeOK
  <2>3. \A w \in Writers : writer[w].tx => writer'[w].tx /\ writer'[w].msg = writer[w].msg
    BY DEF RestartServer, agentVars, netVars, serverVars, history
  <2> QED BY <2>1, <2>2, <2>3, SettledKept DEF Inv, InOrder
<1>2. ASSUME ~crowded' PROVE Queued'
  <2>1. Queued BY <1>2 DEF InOrder, RestartServer
  <2>2. late' = {} /\ record' = NoRow /\ UNCHANGED <<writer, hand, sending, undone>>
    BY DEF RestartServer
  <2>3. \A k \in Message : NotAfter(NoRow, k) BY DEF NotAfter, NoRow, Message
  <2>4. /\ \A w \in Writers : writer[w].msg \in Message
        /\ hand # None => hand \in Message
        /\ sending # None => sending \in Message
    BY DEF Inv, TypeOK
  <2>5. \A w \in Writers : writer[w].at = "notify" =>
          \A m \in Sent({hand, sending})' : NotAfter(m, writer[w].msg)
    <3>1. Sent({hand, sending})' \subseteq Sent({hand, sending}) \cup {NoRow} BY <2>2 DEF Sent
    <3> QED BY <3>1, <2>1, <2>3, <2>4 DEF Queued
  <2>6. hand # None => \A m \in Sent({sending})' : NotAfter(m, hand)
    <3>1. Sent({sending})' \subseteq Sent({sending}) \cup {NoRow} BY <2>2 DEF Sent
    <3> QED BY <3>1, <2>1, <2>3, <2>4 DEF Queued
  <2>7. sending # None => \A m \in Sent({})' : NotAfter(m, sending)
    <3>1. Sent({})' \subseteq Sent({}) \cup {NoRow} BY <2>2 DEF Sent
    <3> QED BY <3>1, <2>1, <2>3, <2>4 DEF Queued
  <2> QED BY <2>1, <2>2, <2>5, <2>6, <2>7 DEF Queued, NotAfter
<1> QED BY <1>1, <1>2 DEF InOrder

\* What an instant without a step does.
LEMMA StutterOrders ==
  ASSUME Inv, Inv', InOrder, UNCHANGED vars
  PROVE  InOrder'
BY DEF InOrder, Settled, Queued, Sent, NotAfter, Copies, vars, agentVars, netVars, serverVars, history

\* The inductive invariant of the order.
THEOREM OrderInvariance == Spec => [](Inv /\ InOrder)
<1>1. Init => InOrder
  <2> SUFFICES ASSUME Init PROVE InOrder OBVIOUS
  <2>1. Copies \subseteq {NoRow} BY DEF Init, Copies, IdleWriter, Unregistered
  <2>2. row = NoRow /\ NoRow.ver <= NoRow.ver BY DEF Init, NoRow
  <2>3. Settled BY <2>1, <2>2 DEF Settled
  <2>4. Queued BY DEF Init, IdleWriter, Queued
  <2> QED BY <2>3, <2>4 DEF InOrder
<1>2. Inv /\ Inv' /\ InOrder /\ [Next]_vars => InOrder'
  <2> SUFFICES ASSUME Inv, Inv', InOrder, [Next]_vars PROVE InOrder' OBVIOUS
  <2>1. ASSUME NEW w \in Writers,
               WriteRow(w) \/ WriteInTransaction(w) \/ NotifyAgain(w) \/ WriterNext(w)
        PROVE  InOrder'
    BY <2>1, WriteRowOrders, WriteInTransactionOrders, NotifyAgainOrders, TakeOrders, CommitOrders,
       CommitFailsOrders DEF WriterNext
  <2>2. ASSUME NEW s \in Sessions, Dial(s) \/ Register(s) PROVE InOrder'
    BY <2>2, DialOrders, RegisterOrders
  <2>3. ASSUME \/ StartCall \/ CallEnds \/ NotifyLate
               \/ LoadList \/ Break \/ RestartAgent \/ RestartServer
        PROVE  InOrder'
    BY <2>3, StartCallOrders, GiveUpOrders, NotifyDbStatusOrders, NotifyLateOrders, LoadListOrders,
       BreakOrders, RestartAgentOrders, RestartServerOrders DEF CallEnds
  <2> QED BY <2>1, <2>2, <2>3, StutterOrders DEF Next, RegisterNext
<1> QED BY <1>1, <1>2, Invariance, PTL DEF Spec

\* db_status_sender.go:16-19: one worker makes the calls, one after the other, and
\* no call is repeated: whatever fails, is late, is rolled back or restarted, a
\* record goes back to an older version only where a list, a late call or a second
\* writer was at it, or where the newer version was rolled back.
THEOREM OrderAlwaysKept == Spec => OrderKept
<1>1. Inv /\ InOrder /\ [Next]_vars =>
        (record'.ver < record.ver /\ known' =>
           \/ crowded
           \/ "list" \in {origin, origin'}
           \/ origin' = "late"
           \/ record.ver \in undone)
  <2> SUFFICES ASSUME Inv, InOrder, [Next]_vars, record'.ver < record.ver, known',
                      ~crowded, origin # "list", origin' # "list", origin' # "late"
               PROVE  record.ver \in undone
    OBVIOUS
  <2>1. record.ver \in Nat BY CopiesTyped DEF Inv, Copies
  <2>2. record' # record BY <2>1
  <2>3. NotifyDbStatus
    <3>1. ~UNCHANGED vars BY <2>2 DEF vars, serverVars
    <3>2. ~NotifyLate BY DEF NotifyLate, Update
    <3>3. ~RestartServer BY DEF RestartServer
    <3>4. \A s \in Sessions : ~Register(s) BY <2>2 DEF Register, Update
    <3>5. \A w \in Writers : ~(WriteRow(w) \/ WriteInTransaction(w) \/ NotifyAgain(w) \/ WriterNext(w))
      BY <2>2 DEF WriteRow, WriteInTransaction, NotifyAgain, WriterNext, Take, Commit, CommitFails, serverVars
    <3>6. ~(StartCall \/ GiveUp \/ RegisterNext \/ Break \/ RestartAgent)
      BY <2>2 DEF StartCall, GiveUp, RegisterNext, LoadList, Dial, Break, RestartAgent, serverVars
    <3> QED BY <3>1, <3>2, <3>3, <3>4, <3>5, <3>6 DEF Next, CallEnds
  <2>4. record' = sending /\ sending # None BY <2>3 DEF NotifyDbStatus, Update, Replaces
  <2>5. sending \in Message /\ sending.ver \in Nat BY <2>4 DEF Inv, TypeOK, Message
  <2>6. NotAfter(record, sending) BY <2>4 DEF InOrder, Queued, Sent
  <2> QED BY <2>1, <2>4, <2>5, <2>6 DEF NotAfter
<1>2. Inv /\ InOrder /\ [Next]_vars =>
        [record'.ver < record.ver /\ known' =>
           \/ crowded
           \/ "list" \in {origin, origin'}
           \/ origin' = "late"
           \/ record.ver \in undone]_vars
  BY <1>1
<1> QED BY <1>2, OrderInvariance, PTL DEF Spec, OrderKept

=============================================================================
