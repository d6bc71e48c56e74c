---------------------------- MODULE MCInstances ----------------------------
(* Two instances: a database that moves from i1 to i2 and one that is asked    *)
(* for without a name, two agents, the first of which reconnects.              *)
EXTENDS Instances, TLC

CONSTANTS i1, i2, s1, s2, s3, r1, r2, n1, w1

MCOfSession == [s \in Sessions |-> IF s = s3 THEN i2 ELSE i1]
MCOfStatus == n1 :> i1
MCOfWait == w1 :> i1
MCNameOf == r1 :> i2 @@ r2 :> None
MCFromOf == r1 :> i1 @@ r2 :> None

=============================================================================
