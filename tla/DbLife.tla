------------------------------- MODULE DbLife -------------------------------
(***************************************************************************)
(* What the server may rely on about the life of one database, whatever    *)
(* jobs, crashes and lost writes come together on its agent                *)
(* (src/internal/handler/db_task, src/internal/db/db_utils.go):            *)
(*                                                                         *)
(*   - nothing is ready that was not worked on, or ready from the start;   *)
(*   - what is ready is not worked on again, it can only leave;            *)
(*   - what leaves never comes back.                                       *)
(*                                                                         *)
(* AgentDb.tla is shown and proved to implement this specification;        *)
(* SourceProofs.tla proves that the records of Source.tla follow it.       *)
(***************************************************************************)

VARIABLE life

\* absent: the server has not heard of the database.
Lives == {"absent", "none", "working", "failed", "ready", "leaving", "idle"}

TypeOK == life \in Lives

Move(from, to) == life \in from /\ life' \in to

Init == life \in {"absent", "none"}

\* A new entry of the server, or a database that was there before it.
Appear == Move({"absent"}, {"none", "ready"})

Begin   == Move({"none", "failed"}, {"working"})
Fail    == Move({"none", "working"}, {"failed"})
Succeed == Move({"working"}, {"ready"})
Leave   == Move({"ready"}, {"leaving"})
Left    == Move({"ready", "leaving"}, {"idle"})

Next == Appear \/ Begin \/ Fail \/ Succeed \/ Leave \/ Left

Spec == Init /\ [][Next]_life

=============================================================================
