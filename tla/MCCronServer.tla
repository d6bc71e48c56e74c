---------------------------- MODULE MCCronServer ----------------------------
(* Four elements: two due at the same time, one earlier, so that Send meets *)
(* an empty list, a new first element, one in the middle and one at the end. *)
EXTENDS CronServer

CONSTANTS e1, e2, e3, e4

Triggers == [e \in Elements |-> CASE e = e1 -> 2 [] e = e2 -> 1 [] e = e3 -> 2 [] e = e4 -> 3]
=============================================================================
