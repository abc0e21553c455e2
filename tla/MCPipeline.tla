----------------------------- MODULE MCPipeline -----------------------------
(* Pipeline on a few clients; each operator says how many packets every     *)
(* client sends.                                                            *)
EXTENDS Pipeline

TwoClients == [c \in Clients |-> IF c = 0 THEN 3 ELSE 1]
ThreeClients == [c \in Clients |-> IF c = 0 THEN 2 ELSE IF c = 1 THEN 1 ELSE 0]
=============================================================================
