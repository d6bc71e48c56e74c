------------------------------ MODULE MCSource ------------------------------
(* Sources of one database: on one instance, or moved to another.          *)
EXTENDS Source, TLC

CONSTANTS s1, s2, i1, i2, n1

SameWorkers == Permutations(Workers)

TheName == [s \in Sources |-> n1]
TheInstance == [s \in Sources |-> i1]
NotMoved == [s \in Sources |-> None]
Moved == [s \in Sources |-> IF s = s1 THEN i1 ELSE i2]
MovedFrom == [s \in Sources |-> IF s = s1 THEN None ELSE i1]
NoBackup == [s \in Sources |-> None]

=============================================================================
