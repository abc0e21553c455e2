----------------------------- MODULE MCAvQueue -----------------------------
(* AvQueue on three threads and two nodes.                                 *)
EXTENDS AvQueue

CONSTANTS t1, t2, t3, n1, n2

MCThreads == {t1, t2, t3}
MCNodes == {n1, n2}
=============================================================================
