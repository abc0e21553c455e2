------------------------------ MODULE MCShmSem ------------------------------
(* ShmSem with three processes; the operators say which sh_id each uses.    *)
EXTENDS ShmSem

CONSTANTS p1, p2, p3

OneInstance == [p \in Procs |-> IF p = p3 THEN 256 ELSE 0]
Neighbours == [p \in Procs |-> IF p = p3 THEN 1 ELSE 0]
=============================================================================
