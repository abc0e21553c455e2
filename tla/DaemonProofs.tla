----------------------------- MODULE DaemonProofs -----------------------------
(***************************************************************************)
(* Proofs about Daemon, for any connections and any number of failures:    *)
(* obama leaves no zombie, and no descriptor leaks into a process that     *)
(* does not need it, whatever forks fail and whenever obama is killed and  *)
(* started again.                                                          *)
(***************************************************************************)
EXTENDS Daemon, TLAPS

\* Obama has a connection in hand from accept to waitpid.
ConnInHand == (conn \in Clients) <=> (obama \in {"fork", "close", "wait"})

\* A connection in hand has been accepted; one that has not has no processes.
AcceptedFirst ==
  /\ conn \in Clients => link[conn] = "accepted"
  /\ \A c \in Clients : link[c] # "accepted" =>
       alice[c] = "none" /\ jose[c] = "none"

\* A connection in hand has no alice yet, and an alice that has not forked no
\* jose; who waits to be accepted waits for a process that listens; a jose that
\* answers has heard something.
HandedOver ==
  /\ obama = "fork" => alice[conn] = "none"
  /\ \A c \in Clients :
       alice[c] \in {"none", "closing", "forking"} => jose[c] = "none"
  /\ \A c \in Clients : link[c] = "backlog" => listening # {}
  /\ \A c \in Clients :
       jose[c] \in {"send", "close", "conference"} => said[c] # "nothing"

\* The inductive invariant.
IInv ==
  /\ TypeOK /\ OneChild /\ ListenerKept /\ ConnectionsKept
  /\ ConnInHand /\ AcceptedFirst

\* No two processes have one name.
LEMMA Names ==
  ASSUME NEW c \in Clients, NEW d \in Clients
  PROVE  /\ Obama # Alice(c) /\ Obama # Jose(c) /\ Alice(c) # Jose(d)
         /\ Alice(c) = Alice(d) => c = d
         /\ Jose(c) = Jose(d) => c = d
         /\ Obama \in Processes /\ Alice(c) \in Processes /\ Jose(c) \in Processes
  BY DEF Obama, Alice, Jose, Processes

LEMMA InitIInv == Init => IInv
  BY NullAssumption DEF Init, IInv, TypeOK, OneChild, ListenerKept,
     ConnectionsKept, ConnInHand, AcceptedFirst, Holders, ObamaStates,
     AliceStates, JoseStates

\* A step by its effect: what fails either ends obama or changes nothing, and
\* both ways to end an alice or a jose are one.
Steps ==
  \/ OpenSocket \/ Bind \/ ForkAlice \/ ObamaCloses \/ Waitpid
  \/ Restart \/ ObamaEnds \/ UNCHANGED <<daemon, alice, jose, network>>
  \/ \E c \in Clients :
       \/ Accept(c) \/ AliceCloses(c) \/ ForkJose(c)
       \/ alice[c] \in {"forking", "exiting"} /\ AliceEnds(c)
       \/ Receive(c) \/ Echo(c) \/ JoseCloses(c)
       \/ jose[c] \in {"send", "conference"} /\ JoseEnds(c)
       \/ Connect(c) \/ \E w \in {"x", "go", "end"} : Say(c, w)

LEMMA StepsOfNext ==
  ASSUME IInv, Next
  PROVE  Steps /\ failures' \in Nat
<1> USE DEF IInv, TypeOK, Steps, ObamaEnds, AliceEnds, JoseEnds, Fails
<1>1. ASSUME ObamaStep \/ Restart PROVE Steps /\ failures' \in Nat
  BY <1>1 DEF ObamaStep, OpenSocket, Bind, Accept, ForkAlice, ObamaCloses,
     Waitpid, Restart
<1>2. ASSUME ObamaFails PROVE Steps /\ failures' \in Nat
  BY <1>2 DEF ObamaFails, ObamaKilled, OpenSocketFails, BindFails, AcceptFails,
     ForkAliceFails, LogError
<1>3. ASSUME NEW c \in Clients, AliceStep(c) \/ ForkJoseFails(c)
      PROVE  Steps /\ failures' \in Nat
  BY <1>3 DEF AliceStep, AliceCloses, ForkJose, AliceExits, ForkJoseFails
<1>4. ASSUME NEW c \in Clients, JoseStep(c) \/ ConferenceEnds(c)
      PROVE  Steps /\ failures' \in Nat
  BY <1>4 DEF JoseStep, Receive, Echo, JoseCloses, ConferenceEnds
<1>5. ASSUME NEW c \in Clients, ClientStep(c) PROVE Steps /\ failures' \in Nat
  BY <1>5 DEF ClientStep, Connect, Say
<1> QED
  BY <1>1, <1>2, <1>3, <1>4, <1>5 DEF Next

-----------------------------------------------------------------------------
\* Every step preserves the types, the child in hand and the connection in
\* hand.
LEMMA StepControl ==
  ASSUME IInv, Steps, failures' \in Nat
  PROVE  TypeOK' /\ OneChild' /\ ConnInHand' /\ AcceptedFirst'
<1> USE Names, NullAssumption DEF IInv, daemon, network, CloseListening,
  CloseConnection, CloseConnections
<1>1. ASSUME OpenSocket
      PROVE  TypeOK' /\ OneChild' /\ ConnInHand' /\ AcceptedFirst'
  <2>1. TypeOK'
    BY <1>1 DEF OpenSocket, TypeOK, ObamaStates, AliceStates, JoseStates
  <2>2. OneChild' /\ ConnInHand' /\ AcceptedFirst'
    BY <1>1 DEF OpenSocket, TypeOK, OneChild, ConnInHand,
     AcceptedFirst, ObamaStates, AliceStates, JoseStates
  <2> QED
    BY <2>1, <2>2
<1>2. ASSUME Bind
      PROVE  TypeOK' /\ OneChild' /\ ConnInHand' /\ AcceptedFirst'
  <2>1. TypeOK'
    BY <1>2 DEF Bind, TypeOK, ObamaStates, AliceStates, JoseStates, ConnInHand,
       Processes
  <2>2. OneChild' /\ ConnInHand' /\ AcceptedFirst'
    BY <1>2 DEF Bind, TypeOK, OneChild, ConnInHand,
     AcceptedFirst, ObamaStates, AliceStates, JoseStates
  <2> QED
    BY <2>1, <2>2
<1>3. ASSUME ForkAlice
      PROVE  TypeOK' /\ OneChild' /\ ConnInHand' /\ AcceptedFirst'
  <2>1. TypeOK'
    BY <1>3 DEF ForkAlice, TypeOK, ObamaStates, AliceStates, JoseStates, ConnInHand,
       Processes
  <2>2. OneChild' /\ ConnInHand' /\ AcceptedFirst'
    BY <1>3 DEF ForkAlice, TypeOK, OneChild, ConnInHand,
     AcceptedFirst, ObamaStates, AliceStates, JoseStates
  <2> QED
    BY <2>1, <2>2
<1>4. ASSUME ObamaCloses
      PROVE  TypeOK' /\ OneChild' /\ ConnInHand' /\ AcceptedFirst'
  <2>1. TypeOK'
    BY <1>4 DEF ObamaCloses, TypeOK, ObamaStates, AliceStates, JoseStates
  <2>2. OneChild' /\ ConnInHand' /\ AcceptedFirst'
    BY <1>4 DEF ObamaCloses, TypeOK, OneChild, ConnInHand,
     AcceptedFirst, ObamaStates, AliceStates, JoseStates
  <2> QED
    BY <2>1, <2>2
<1>5. ASSUME Waitpid
      PROVE  TypeOK' /\ OneChild' /\ ConnInHand' /\ AcceptedFirst'
  <2>1. TypeOK'
    BY <1>5 DEF Waitpid, TypeOK, ObamaStates, AliceStates, JoseStates
  <2>2. OneChild' /\ ConnInHand' /\ AcceptedFirst'
    BY <1>5 DEF Waitpid, TypeOK, OneChild, ConnInHand,
     AcceptedFirst, ObamaStates, AliceStates, JoseStates
  <2> QED
    BY <2>1, <2>2
<1>6. ASSUME Restart
      PROVE  TypeOK' /\ OneChild' /\ ConnInHand' /\ AcceptedFirst'
  <2>1. TypeOK'
    BY <1>6 DEF Restart, TypeOK, ObamaStates, AliceStates, JoseStates
  <2>2. OneChild' /\ ConnInHand' /\ AcceptedFirst'
    BY <1>6 DEF Restart, TypeOK, OneChild, ConnInHand,
     AcceptedFirst, ObamaStates, AliceStates, JoseStates
  <2> QED
    BY <2>1, <2>2
<1>7. ASSUME ObamaEnds
      PROVE  TypeOK' /\ OneChild' /\ ConnInHand' /\ AcceptedFirst'
  <2>1. TypeOK'
    BY <1>7 DEF ObamaEnds, TypeOK, ObamaStates, AliceStates, JoseStates
  <2>2. OneChild' /\ ConnInHand' /\ AcceptedFirst'
    BY <1>7 DEF ObamaEnds, TypeOK, OneChild, ConnInHand,
     AcceptedFirst, ObamaStates, AliceStates, JoseStates
  <2> QED
    BY <2>1, <2>2
<1>8. ASSUME UNCHANGED <<daemon, alice, jose, network>>
      PROVE  TypeOK' /\ OneChild' /\ ConnInHand' /\ AcceptedFirst'
  <2>1. TypeOK'
    BY <1>8 DEF TypeOK, ObamaStates, AliceStates, JoseStates
  <2>2. OneChild' /\ ConnInHand' /\ AcceptedFirst'
    BY <1>8 DEF TypeOK, OneChild, ConnInHand,
     AcceptedFirst, ObamaStates, AliceStates, JoseStates
  <2> QED
    BY <2>1, <2>2
<1>9. ASSUME NEW c \in Clients, Accept(c)
      PROVE  TypeOK' /\ OneChild' /\ ConnInHand' /\ AcceptedFirst'
  <2>1. TypeOK'
    BY <1>9 DEF Accept, TypeOK, ObamaStates, AliceStates, JoseStates
  <2>2. OneChild' /\ ConnInHand' /\ AcceptedFirst'
    BY <1>9 DEF Accept, TypeOK, OneChild, ConnInHand,
     AcceptedFirst, ObamaStates, AliceStates, JoseStates
  <2> QED
    BY <2>1, <2>2
<1>10. ASSUME NEW c \in Clients, AliceCloses(c)
      PROVE  TypeOK' /\ OneChild' /\ ConnInHand' /\ AcceptedFirst'
  <2>1. TypeOK'
    BY <1>10 DEF AliceCloses, TypeOK, ObamaStates, AliceStates, JoseStates
  <2>2. OneChild' /\ ConnInHand' /\ AcceptedFirst'
    BY <1>10 DEF AliceCloses, TypeOK, OneChild, ConnInHand,
     AcceptedFirst, ObamaStates, AliceStates, JoseStates
  <2> QED
    BY <2>1, <2>2
<1>11. ASSUME NEW c \in Clients, ForkJose(c)
      PROVE  TypeOK' /\ OneChild' /\ ConnInHand' /\ AcceptedFirst'
  <2>1. TypeOK'
    BY <1>11 DEF ForkJose, TypeOK, ObamaStates, AliceStates, JoseStates
  <2>2. OneChild' /\ ConnInHand' /\ AcceptedFirst'
    BY <1>11 DEF ForkJose, TypeOK, OneChild, ConnInHand,
     AcceptedFirst, ObamaStates, AliceStates, JoseStates
  <2> QED
    BY <2>1, <2>2
<1>12. ASSUME NEW c \in Clients, AliceEnds(c),
             alice[c] \in {"forking", "exiting"}
      PROVE  TypeOK' /\ OneChild' /\ ConnInHand' /\ AcceptedFirst'
  <2>1. TypeOK'
    BY <1>12 DEF AliceEnds, TypeOK, ObamaStates, AliceStates, JoseStates
  <2>2. OneChild' /\ ConnInHand' /\ AcceptedFirst'
    BY <1>12 DEF AliceEnds, TypeOK, OneChild, ConnInHand,
     AcceptedFirst, ObamaStates, AliceStates, JoseStates
  <2> QED
    BY <2>1, <2>2
<1>13. ASSUME NEW c \in Clients, Receive(c)
      PROVE  TypeOK' /\ OneChild' /\ ConnInHand' /\ AcceptedFirst'
  <2>1. TypeOK'
    BY <1>13 DEF Receive, TypeOK, ObamaStates, AliceStates, JoseStates
  <2>2. OneChild' /\ ConnInHand' /\ AcceptedFirst'
    BY <1>13 DEF Receive, TypeOK, OneChild, ConnInHand,
     AcceptedFirst, ObamaStates, AliceStates, JoseStates
  <2> QED
    BY <2>1, <2>2
<1>14. ASSUME NEW c \in Clients, Echo(c)
      PROVE  TypeOK' /\ OneChild' /\ ConnInHand' /\ AcceptedFirst'
  <2>1. TypeOK'
    BY <1>14 DEF Echo, JoseEnds, TypeOK, ObamaStates, AliceStates, JoseStates
  <2>2. OneChild' /\ ConnInHand' /\ AcceptedFirst'
    BY <1>14 DEF Echo, JoseEnds, TypeOK, OneChild, ConnInHand,
     AcceptedFirst, ObamaStates, AliceStates, JoseStates
  <2> QED
    BY <2>1, <2>2
<1>15. ASSUME NEW c \in Clients, JoseCloses(c)
      PROVE  TypeOK' /\ OneChild' /\ ConnInHand' /\ AcceptedFirst'
  <2>1. TypeOK'
    BY <1>15 DEF JoseCloses, TypeOK, ObamaStates, AliceStates, JoseStates
  <2>2. OneChild' /\ ConnInHand' /\ AcceptedFirst'
    BY <1>15 DEF JoseCloses, TypeOK, OneChild, ConnInHand,
     AcceptedFirst, ObamaStates, AliceStates, JoseStates
  <2> QED
    BY <2>1, <2>2
<1>16. ASSUME NEW c \in Clients, JoseEnds(c),
             jose[c] \in {"send", "conference"}
      PROVE  TypeOK' /\ OneChild' /\ ConnInHand' /\ AcceptedFirst'
  <2>1. TypeOK'
    BY <1>16 DEF JoseEnds, TypeOK, ObamaStates, AliceStates, JoseStates
  <2>2. OneChild' /\ ConnInHand' /\ AcceptedFirst'
    BY <1>16 DEF JoseEnds, TypeOK, OneChild, ConnInHand,
     AcceptedFirst, ObamaStates, AliceStates, JoseStates
  <2> QED
    BY <2>1, <2>2
<1>17. ASSUME NEW c \in Clients, Connect(c)
      PROVE  TypeOK' /\ OneChild' /\ ConnInHand' /\ AcceptedFirst'
  <2>1. TypeOK'
    BY <1>17 DEF Connect, TypeOK, ObamaStates, AliceStates, JoseStates
  <2>2. OneChild' /\ ConnInHand' /\ AcceptedFirst'
    BY <1>17 DEF Connect, TypeOK, OneChild, ConnInHand,
     AcceptedFirst, ObamaStates, AliceStates, JoseStates
  <2> QED
    BY <2>1, <2>2
<1>18. ASSUME NEW c \in Clients, NEW w \in {"x", "go", "end"}, Say(c, w)
      PROVE  TypeOK' /\ OneChild' /\ ConnInHand' /\ AcceptedFirst'
  <2>1. TypeOK'
    BY <1>18 DEF Say, TypeOK, ObamaStates, AliceStates, JoseStates
  <2>2. OneChild' /\ ConnInHand' /\ AcceptedFirst'
    BY <1>18 DEF Say, TypeOK, OneChild, ConnInHand,
     AcceptedFirst, ObamaStates, AliceStates, JoseStates
  <2> QED
    BY <2>1, <2>2
<1> QED
  BY <1>1, <1>2, <1>3, <1>4, <1>5, <1>6, <1>7, <1>8, <1>9,
     <1>10, <1>11, <1>12, <1>13, <1>14, <1>15, <1>16, <1>17, <1>18
  DEF Steps

\* Every step keeps the listening socket where it belongs.
LEMMA StepListener ==
  ASSUME IInv, Steps, failures' \in Nat
  PROVE  ListenerKept'
<1> USE Names, NullAssumption DEF IInv, daemon, network, CloseListening,
  CloseConnection, CloseConnections
<1>1. ASSUME OpenSocket PROVE ListenerKept'
  BY <1>1 DEF OpenSocket, TypeOK, ListenerKept, ConnInHand,
     AcceptedFirst
<1>2. ASSUME Bind PROVE ListenerKept'
  BY <1>2 DEF Bind, TypeOK, ListenerKept, ConnInHand,
     AcceptedFirst
<1>3. ASSUME ForkAlice PROVE ListenerKept'
  BY <1>3 DEF ForkAlice, TypeOK, ListenerKept, ConnInHand,
     AcceptedFirst
<1>4. ASSUME ObamaCloses PROVE ListenerKept'
  BY <1>4 DEF ObamaCloses, TypeOK, ListenerKept, ConnInHand,
     AcceptedFirst
<1>5. ASSUME Waitpid PROVE ListenerKept'
  BY <1>5 DEF Waitpid, TypeOK, ListenerKept, ConnInHand,
     AcceptedFirst
<1>6. ASSUME Restart PROVE ListenerKept'
  BY <1>6 DEF Restart, TypeOK, ListenerKept, ConnInHand,
     AcceptedFirst
<1>7. ASSUME ObamaEnds PROVE ListenerKept'
  BY <1>7 DEF ObamaEnds, TypeOK, ListenerKept, ConnInHand,
     AcceptedFirst
<1>8. ASSUME UNCHANGED <<daemon, alice, jose, network>>
      PROVE  ListenerKept'
  BY <1>8 DEF TypeOK, ListenerKept, ConnInHand,
     AcceptedFirst
<1>9. ASSUME NEW c \in Clients, Accept(c) PROVE ListenerKept'
  BY <1>9 DEF Accept, TypeOK, ListenerKept, ConnInHand,
     AcceptedFirst
<1>10. ASSUME NEW c \in Clients, AliceCloses(c) PROVE ListenerKept'
  BY <1>10 DEF AliceCloses, TypeOK, ListenerKept, ConnInHand,
     AcceptedFirst
<1>11. ASSUME NEW c \in Clients, ForkJose(c) PROVE ListenerKept'
  BY <1>11 DEF ForkJose, TypeOK, ListenerKept, ConnInHand,
     AcceptedFirst
<1>12. ASSUME NEW c \in Clients, AliceEnds(c),
             alice[c] \in {"forking", "exiting"}
      PROVE  ListenerKept'
  BY <1>12 DEF AliceEnds, TypeOK, ListenerKept, ConnInHand,
     AcceptedFirst
<1>13. ASSUME NEW c \in Clients, Receive(c) PROVE ListenerKept'
  BY <1>13 DEF Receive, TypeOK, ListenerKept, ConnInHand,
     AcceptedFirst
<1>14. ASSUME NEW c \in Clients, Echo(c) PROVE ListenerKept'
  BY <1>14 DEF Echo, JoseEnds, TypeOK, ListenerKept, ConnInHand,
     AcceptedFirst
<1>15. ASSUME NEW c \in Clients, JoseCloses(c) PROVE ListenerKept'
  BY <1>15 DEF JoseCloses, TypeOK, ListenerKept, ConnInHand,
     AcceptedFirst
<1>16. ASSUME NEW c \in Clients, JoseEnds(c),
             jose[c] \in {"send", "conference"}
      PROVE  ListenerKept'
  BY <1>16 DEF JoseEnds, TypeOK, ListenerKept, ConnInHand,
     AcceptedFirst
<1>17. ASSUME NEW c \in Clients, Connect(c) PROVE ListenerKept'
  BY <1>17 DEF Connect, TypeOK, ListenerKept, ConnInHand,
     AcceptedFirst
<1>18. ASSUME NEW c \in Clients, NEW w \in {"x", "go", "end"}, Say(c, w)
      PROVE  ListenerKept'
  BY <1>18 DEF Say, TypeOK, ListenerKept, ConnInHand,
     AcceptedFirst
<1> QED
  BY <1>1, <1>2, <1>3, <1>4, <1>5, <1>6, <1>7, <1>8, <1>9,
     <1>10, <1>11, <1>12, <1>13, <1>14, <1>15, <1>16, <1>17, <1>18
  DEF Steps

\* Every step keeps the connections where they are needed: one that is accepted
\* has no processes yet, and obama closes the one in hand.
LEMMA StepConnections ==
  ASSUME IInv, Steps, failures' \in Nat
  PROVE  ConnectionsKept'
<1> USE Names, NullAssumption DEF IInv, daemon, network, CloseListening,
  CloseConnection, CloseConnections
<1>1. ASSUME OpenSocket PROVE ConnectionsKept'
  BY <1>1 DEF OpenSocket, TypeOK, ConnectionsKept, Holders,
     ConnInHand, AcceptedFirst
<1>2. ASSUME Bind PROVE ConnectionsKept'
  BY <1>2 DEF Bind, TypeOK, ConnectionsKept, Holders,
     ConnInHand, AcceptedFirst
<1>3. ASSUME ForkAlice PROVE ConnectionsKept'
  BY <1>3 DEF ForkAlice, TypeOK, ConnectionsKept, Holders,
     ConnInHand, AcceptedFirst
<1>4. ASSUME ObamaCloses PROVE ConnectionsKept'
  BY <1>4 DEF ObamaCloses, TypeOK, ConnectionsKept, Holders,
     ConnInHand, AcceptedFirst
<1>5. ASSUME Waitpid PROVE ConnectionsKept'
  BY <1>5 DEF Waitpid, TypeOK, ConnectionsKept, Holders,
     ConnInHand, AcceptedFirst
<1>6. ASSUME Restart PROVE ConnectionsKept'
  BY <1>6 DEF Restart, TypeOK, ConnectionsKept, Holders,
     ConnInHand, AcceptedFirst
<1>7. ASSUME ObamaEnds PROVE ConnectionsKept'
  BY <1>7 DEF ObamaEnds, TypeOK, ConnectionsKept, Holders,
     ConnInHand, AcceptedFirst
<1>8. ASSUME UNCHANGED <<daemon, alice, jose, network>>
      PROVE  ConnectionsKept'
  BY <1>8 DEF TypeOK, ConnectionsKept, Holders,
     ConnInHand, AcceptedFirst
<1>9. ASSUME NEW c \in Clients, Accept(c) PROVE ConnectionsKept'
  BY <1>9 DEF Accept, TypeOK, ConnectionsKept, Holders,
     ConnInHand, AcceptedFirst
<1>10. ASSUME NEW c \in Clients, AliceCloses(c) PROVE ConnectionsKept'
  BY <1>10 DEF AliceCloses, TypeOK, ConnectionsKept, Holders,
     ConnInHand, AcceptedFirst
<1>11. ASSUME NEW c \in Clients, ForkJose(c) PROVE ConnectionsKept'
  BY <1>11 DEF ForkJose, TypeOK, ConnectionsKept, Holders,
     ConnInHand, AcceptedFirst
<1>12. ASSUME NEW c \in Clients, AliceEnds(c),
             alice[c] \in {"forking", "exiting"}
      PROVE  ConnectionsKept'
  BY <1>12 DEF AliceEnds, TypeOK, ConnectionsKept, Holders,
     ConnInHand, AcceptedFirst
<1>13. ASSUME NEW c \in Clients, Receive(c) PROVE ConnectionsKept'
  BY <1>13 DEF Receive, TypeOK, ConnectionsKept, Holders,
     ConnInHand, AcceptedFirst
<1>14. ASSUME NEW c \in Clients, Echo(c) PROVE ConnectionsKept'
  BY <1>14 DEF Echo, JoseEnds, TypeOK, ConnectionsKept, Holders,
     ConnInHand, AcceptedFirst
<1>15. ASSUME NEW c \in Clients, JoseCloses(c) PROVE ConnectionsKept'
  BY <1>15 DEF JoseCloses, TypeOK, ConnectionsKept, Holders,
     ConnInHand, AcceptedFirst
<1>16. ASSUME NEW c \in Clients, JoseEnds(c),
             jose[c] \in {"send", "conference"}
      PROVE  ConnectionsKept'
  BY <1>16 DEF JoseEnds, TypeOK, ConnectionsKept, Holders,
     ConnInHand, AcceptedFirst
<1>17. ASSUME NEW c \in Clients, Connect(c) PROVE ConnectionsKept'
  BY <1>17 DEF Connect, TypeOK, ConnectionsKept, Holders,
     ConnInHand, AcceptedFirst
<1>18. ASSUME NEW c \in Clients, NEW w \in {"x", "go", "end"}, Say(c, w)
      PROVE  ConnectionsKept'
  BY <1>18 DEF Say, TypeOK, ConnectionsKept, Holders,
     ConnInHand, AcceptedFirst
<1> QED
  BY <1>1, <1>2, <1>3, <1>4, <1>5, <1>6, <1>7, <1>8, <1>9,
     <1>10, <1>11, <1>12, <1>13, <1>14, <1>15, <1>16, <1>17, <1>18
  DEF Steps

-----------------------------------------------------------------------------
\* The invariant holds in every reachable state of the daemon.
THEOREM Invariance == Spec => []IInv
<1>1. IInv /\ Next => IInv'
  BY StepsOfNext, StepControl, StepListener, StepConnections DEF IInv
<1>2. IInv /\ UNCHANGED vars => IInv'
  BY DEF IInv, vars, daemon, network, TypeOK, OneChild, ListenerKept,
     ConnectionsKept, Holders, ConnInHand, AcceptedFirst
<1>3. IInv /\ [Next]_vars => IInv'
  BY <1>1, <1>2
<1> QED
  BY <1>3, InitIInv, PTL DEF Spec

\* Every variable keeps its type.
THEOREM TypeCorrect == Spec => []TypeOK
<1>1. IInv => TypeOK
  BY DEF IInv
<1> QED
  BY <1>1, Invariance, PTL

\* Obama leaves no zombie behind, whatever fails.
THEOREM NoZombie == Spec => []OneChild
<1>1. IInv => OneChild
  BY DEF IInv
<1> QED
  BY <1>1, Invariance, PTL

\* The listening socket never reaches a jose, so that the port is free for a
\* server started again.
THEOREM ListenerPrivate == Spec => []ListenerKept
<1>1. IInv => ListenerKept
  BY DEF IInv
<1> QED
  BY <1>1, Invariance, PTL

\* Every connection is open exactly in the processes that still use it.
THEOREM NoConnectionLeaks == Spec => []ConnectionsKept
<1>1. IInv => ConnectionsKept
  BY DEF IInv
<1> QED
  BY <1>1, Invariance, PTL

-----------------------------------------------------------------------------
(* Daemon implements Reception.                                            *)

LEMMA InitHandedOver == Init => HandedOver
  BY NullAssumption DEF Init, HandedOver

\* Every step keeps the handover in order.
LEMMA StepHandedOver ==
  ASSUME IInv, HandedOver, Steps
  PROVE  HandedOver'
<1> USE Names, NullAssumption DEF IInv, TypeOK, HandedOver, AcceptedFirst,
  ConnInHand, daemon, network, CloseListening, CloseConnection, CloseConnections
<1>1. CASE \/ OpenSocket \/ Bind \/ ObamaCloses \/ Waitpid \/ Restart
           \/ UNCHANGED <<daemon, alice, jose, network>>
  BY <1>1 DEF OpenSocket, Bind, ObamaCloses, Waitpid, Restart
<1>2. CASE ForkAlice
  BY <1>2 DEF ForkAlice
<1>3. CASE ObamaEnds
  BY <1>3 DEF ObamaEnds
<1>4. ASSUME NEW c \in Clients, Accept(c) PROVE HandedOver'
  BY <1>4 DEF Accept
<1>5. ASSUME NEW c \in Clients, AliceCloses(c) PROVE HandedOver'
  BY <1>5 DEF AliceCloses
<1>6. ASSUME NEW c \in Clients, ForkJose(c) PROVE HandedOver'
  BY <1>6 DEF ForkJose
<1>7. ASSUME NEW c \in Clients, alice[c] \in {"forking", "exiting"}, AliceEnds(c)
      PROVE  HandedOver'
  BY <1>7 DEF AliceEnds
<1>8. ASSUME NEW c \in Clients, Receive(c) PROVE HandedOver'
  BY <1>8 DEF Receive
<1>9. ASSUME NEW c \in Clients, jose[c] \in {"send", "conference"}, JoseEnds(c)
      PROVE  HandedOver'
  BY <1>9 DEF JoseEnds
<1>10. ASSUME NEW c \in Clients, Echo(c) PROVE HandedOver'
  BY <1>9, <1>10 DEF Echo
<1>11. ASSUME NEW c \in Clients, JoseCloses(c) PROVE HandedOver'
  BY <1>11 DEF JoseCloses
<1>12. ASSUME NEW c \in Clients, Connect(c) PROVE HandedOver'
  BY <1>12 DEF Connect
<1>13. ASSUME NEW c \in Clients, NEW w \in {"x", "go", "end"}, Say(c, w)
       PROVE  HandedOver'
  BY <1>13 DEF Say
<1> QED
  BY <1>1, <1>2, <1>3, <1>4, <1>5, <1>6, <1>7, <1>8, <1>9, <1>10, <1>11, <1>12,
     <1>13 DEF Steps

\* What a connection's stage is, and what it depends on.
LEMMA StageIs ==
  ASSUME NEW c \in Clients
  PROVE  /\ link[c] = "none" => Stage(c) = "new"
         /\ link[c] = "backlog" => Stage(c) = "waiting"
         /\ link[c] = "reset" => Stage(c) = "refused"
         /\ link[c] = "accepted" /\ jose[c] \in {"recv", "send", "close"} =>
              Stage(c) = "served"
         /\ link[c] = "accepted" /\ jose[c] = "conference" =>
              Stage(c) = "conference"
         /\ link[c] = "accepted" /\ jose[c] = "ended" => Stage(c) = "over"
         /\ link[c] = "accepted" /\ jose[c] = "none" =>
              Stage(c) = IF open[c] = {} THEN "lost" ELSE "accepted"
  BY DEF Stage

LEMMA StageKept ==
  ASSUME NEW c \in Clients, link'[c] = link[c], jose'[c] = jose[c],
         open'[c] = {} <=> open[c] = {}
  PROVE  Stage(c)' = Stage(c)
  BY DEF Stage

\* Nothing that Reception sees has happened.
LEMMA NothingSeen ==
  ASSUME UNCHANGED <<link, jose, said>>,
         \A c \in Clients : open'[c] = {} <=> open[c] = {}
  PROVE  UNCHANGED Promised!receptionVars
<1>1. \A c \in Clients : Stage(c)' = Stage(c)
  BY StageKept
<1> QED
  BY <1>1 DEF Promised!receptionVars

\* One connection has come a step further.
LEMMA OneGoes ==
  ASSUME NEW c \in Clients, NEW from, NEW to,
         Stage(c) \in from, Stage(c)' = to, UNCHANGED said,
         \A d \in Clients \ {c} : /\ link'[d] = link[d] /\ jose'[d] = jose[d]
                                  /\ open'[d] = {} <=> open[d] = {}
  PROVE  Promised!Goes(c, from, to)
<1>1. \A d \in Clients \ {c} : Stage(d)' = Stage(d)
  BY StageKept
<1> QED
  BY <1>1 DEF Promised!Goes

\* A process has closed what it had open of one connection at most, and perhaps
\* the listening socket as the last one.
LEMMA Broken ==
  ASSUME TypeOK, AcceptedFirst, NEW c, NEW reset \in BOOLEAN,
         UNCHANGED <<jose, said>>,
         \A d \in Clients :
           link'[d] = IF reset /\ link[d] = "backlog" THEN "reset" ELSE link[d],
         \A d \in Clients \ {c} : open'[d] = {} <=> open[d] = {},
         c \in Clients /\ open[c] = {} => open'[c] = {}
  PROVE  Promised!Break
<1> DEFINE lost == {d \in {c} \cap Clients : Stage(d) = "accepted" /\ open'[d] = {}}
           refused == IF reset THEN Promised!At("waiting") ELSE {}
<1>1. lost \in {{}} \cup {{d} : d \in Promised!At("accepted")}
  BY DEF Promised!At
<1>2. refused \in {{}, Promised!At("waiting")}
  OBVIOUS
<1>3. ASSUME NEW d \in Clients
      PROVE  Stage(d)' = IF d \in lost THEN "lost"
                         ELSE IF d \in refused THEN "refused" ELSE Stage(d)
  <2>1. CASE link[d] = "accepted"
    <3>1. link'[d] = "accepted" /\ d \notin refused
      <4>1. link'[d] = "accepted" /\ jose[d] \in JoseStates
        BY <1>3, <2>1 DEF TypeOK
      <4>2. Stage(d) # "waiting"
        BY <2>1, <4>1, StageIs DEF JoseStates
      <4> QED
        BY <4>1, <4>2 DEF Promised!At
    <3>2. CASE jose[d] = "none"
      BY <1>3, <2>1, <3>1, <3>2 DEF Stage
    <3>3. CASE jose[d] # "none"
      <4>1. Stage(d)' = Stage(d) /\ Stage(d) # "accepted"
        BY <1>3, <2>1, <3>1, <3>3 DEF Stage, TypeOK, JoseStates
      <4> QED
        BY <3>1, <4>1
    <3> QED
      BY <3>2, <3>3
  <2>2. CASE link[d] = "backlog"
    BY <1>3, <2>2 DEF Stage, Promised!At
  <2>3. CASE link[d] \in {"none", "reset"}
    BY <1>3, <2>3 DEF Stage, Promised!At
  <2> QED
    BY <2>1, <2>2, <2>3 DEF TypeOK
<1>4. PICK L, R : L = lost /\ R = refused
  OBVIOUS
<1>5. [d \in Clients |-> Stage(d)]' =
        [d \in Clients |-> IF d \in L THEN "lost" ELSE IF d \in R THEN "refused"
                          ELSE [e \in Clients |-> Stage(e)][d]]
  BY <1>3, <1>4
<1>6. /\ L \in {{}} \cup {{d} : d \in Promised!At("accepted")}
      /\ R \in {{}, Promised!At("waiting")}
  BY <1>1, <1>2, <1>4
<1> QED
  BY ONLY <1>5, <1>6, UNCHANGED said DEF Promised!Break

\* Every step is a step of Reception or a stuttering one.
LEMMA StepReception ==
  ASSUME IInv, HandedOver, Steps
  PROVE  Promised!Next \/ UNCHANGED Promised!receptionVars
<1> USE Names, NullAssumption DEF daemon, network
<1>0. TypeOK /\ AcceptedFirst /\ ConnInHand /\ ListenerKept /\ ConnectionsKept
  BY DEF IInv
<1>1. CASE \/ OpenSocket \/ Bind \/ Waitpid \/ Restart
           \/ UNCHANGED <<daemon, alice, jose, network>>
  <2>1. UNCHANGED <<link, jose, said, open>>
    BY <1>1 DEF OpenSocket, Bind, Waitpid, Restart
  <2> QED
    BY <2>1, NothingSeen
<1>2. CASE ForkAlice
  <2>1. conn \in Clients /\ Obama \in open[conn]
    BY <1>0, <1>2 DEF ForkAlice, ConnInHand, ConnectionsKept, Holders
  <2>2. UNCHANGED <<link, jose, said>>
        /\ \A c \in Clients : open'[c] = {} <=> open[c] = {}
    BY <1>0, <1>2, <2>1 DEF ForkAlice, TypeOK
  <2> QED
    BY <2>2, NothingSeen
\* Obama's copy may be the last, when alice has ended without a jose.
<1>3. CASE ObamaCloses
  <2>1. /\ UNCHANGED <<jose, link, said>> /\ conn \in Clients
        /\ open' = [open EXCEPT ![conn] = @ \ {Obama}]
    BY <1>0, <1>3 DEF ObamaCloses, CloseConnection, ConnInHand
  <2>2. Promised!Break
    BY <1>0, <2>1, Broken DEF TypeOK
  <2> QED
    BY <2>2 DEF Promised!Next
<1>4. CASE ObamaEnds
  <2>1. PICK reset \in BOOLEAN : reset = (listening \subseteq {Obama})
    OBVIOUS
  <2>2. \A d \in Clients :
          link'[d] = IF reset /\ link[d] = "backlog" THEN "reset" ELSE link[d]
    BY <1>4, <2>1 DEF ObamaEnds, CloseListening
  <2>3. ASSUME NEW d \in Clients \ {conn} PROVE open'[d] = open[d]
    <3>1. Obama \notin open[d]
      BY <1>0 DEF ConnectionsKept, Holders
    <3> QED
      BY <1>0, <1>4, <3>1 DEF ObamaEnds, CloseConnections, TypeOK
  <2>4. /\ UNCHANGED <<jose, said>>
        /\ conn \in Clients /\ open[conn] = {} => open'[conn] = {}
    BY <1>4 DEF ObamaEnds, CloseConnections
  <2>5. Promised!Break
    BY <1>0, <2>2, <2>3, <2>4, Broken
  <2> QED
    BY <2>5 DEF Promised!Next
<1>5. ASSUME NEW c \in Clients, Accept(c) PROVE Promised!Next
  <2>1. /\ link[c] = "backlog" /\ jose[c] = "none" /\ open' = [open EXCEPT ![c] = {Obama}]
        /\ link' = [link EXCEPT ![c] = "accepted"] /\ UNCHANGED <<jose, said>>
    BY <1>0, <1>5 DEF Accept, AcceptedFirst
  <2>2. Stage(c) = "waiting" /\ Stage(c)' = "accepted"
    BY <1>0, <2>1 DEF Stage, TypeOK
  <2>3. \A d \in Clients \ {c} : /\ link'[d] = link[d] /\ jose'[d] = jose[d]
                                 /\ open'[d] = {} <=> open[d] = {}
    BY <1>0, <2>1 DEF TypeOK
  <2>4. Promised!Take(c)
    BY <2>1, <2>2, <2>3, OneGoes DEF Promised!Take
  <2> QED
    BY <2>4 DEF Promised!Next
\* Alice's copy of the listening socket may be the last.
<1>6. ASSUME NEW c \in Clients, AliceCloses(c) PROVE Promised!Next
  <2>1. PICK reset \in BOOLEAN : reset = (listening \subseteq {Alice(c)})
    OBVIOUS
  <2>2. /\ \A d \in Clients :
             link'[d] = IF reset /\ link[d] = "backlog" THEN "reset" ELSE link[d]
        /\ UNCHANGED <<jose, said, open>>
    BY <1>6, <2>1 DEF AliceCloses, CloseListening
  <2>3. Promised!Break
    BY <1>0, <2>2, Broken
  <2> QED
    BY <2>3 DEF Promised!Next
<1>7. ASSUME NEW c \in Clients, ForkJose(c) PROVE Promised!Next
  <2>1. /\ jose[c] = "none" /\ link[c] = "accepted" /\ Alice(c) \in open[c]
        /\ jose' = [jose EXCEPT ![c] = "recv"] /\ UNCHANGED <<link, said>>
        /\ open' = [open EXCEPT ![c] = @ \cup {Jose(c)}]
    BY <1>0, <1>7 DEF ForkJose, AcceptedFirst, HandedOver, ConnectionsKept, Holders
  <2>2. Stage(c) = "accepted" /\ Stage(c)' = "served"
    BY <1>0, <2>1 DEF Stage, TypeOK
  <2>3. \A d \in Clients \ {c} : /\ link'[d] = link[d] /\ jose'[d] = jose[d]
                                 /\ open'[d] = {} <=> open[d] = {}
    BY <1>0, <2>1 DEF TypeOK
  <2>4. UNCHANGED said
    BY <2>1
  <2>5. Promised!Serve(c)
    BY ONLY c \in Clients, <2>2, <2>3, <2>4, OneGoes DEF Promised!Serve
  <2> QED
    BY <2>5 DEF Promised!Next
<1>8. ASSUME NEW c \in Clients, alice[c] \in {"forking", "exiting"}, AliceEnds(c)
      PROVE  Promised!Next
  <2>1. PICK reset \in BOOLEAN : reset = (listening \subseteq {Alice(c)})
    OBVIOUS
  <2>2. \A d \in Clients :
          link'[d] = IF reset /\ link[d] = "backlog" THEN "reset" ELSE link[d]
    BY <1>8, <2>1 DEF AliceEnds, CloseListening
  <2>3. ASSUME NEW d \in Clients \ {c} PROVE open'[d] = open[d]
    <3>1. Alice(c) \notin open[d]
      BY <1>0 DEF ConnectionsKept, Holders
    <3> QED
      BY <1>0, <1>8, <3>1 DEF AliceEnds, CloseConnections, TypeOK
  <2>4. UNCHANGED <<jose, said>> /\ (open[c] = {} => open'[c] = {})
    BY <1>8 DEF AliceEnds, CloseConnections
  <2>5. Promised!Break
    BY <1>0, <2>2, <2>3, <2>4, Broken
  <2> QED
    BY <2>5 DEF Promised!Next
<1>9. ASSUME NEW c \in Clients, Receive(c)
      PROVE  UNCHANGED Promised!receptionVars
  <2>1. /\ jose[c] = "recv" /\ jose' = [jose EXCEPT ![c] = "send"]
        /\ UNCHANGED <<link, said, open>>
    BY <1>9 DEF Receive
  <2>2. ASSUME NEW d \in Clients PROVE Stage(d)' = Stage(d)
    BY <1>0, <2>1 DEF Stage, TypeOK
  <2> QED
    BY <2>1, <2>2 DEF Promised!receptionVars
\* The listening socket is not jose's, so nobody is refused at his end.
<1>10. ASSUME NEW c \in Clients, jose[c] \in {"send", "conference"}, JoseEnds(c)
       PROVE  Promised!Next
  <2>1. UNCHANGED link
    <3>1. Jose(c) \notin listening
      BY <1>0 DEF ListenerKept
    <3>2. \A d \in Clients : link[d] = "backlog" => ~(listening \subseteq {Jose(c)})
      BY <3>1 DEF HandedOver
    <3>3. \A d \in Clients : link'[d] = link[d]
      BY <1>10, <3>2 DEF JoseEnds, CloseListening
    <3> QED
      BY <1>0, <1>10, <3>3 DEF JoseEnds, CloseListening, TypeOK
  <2>2. ASSUME NEW d \in Clients \ {c} PROVE open'[d] = open[d]
    <3>1. Jose(c) \notin open[d]
      BY <1>0 DEF ConnectionsKept, Holders
    <3> QED
      BY <1>0, <1>10, <3>1 DEF JoseEnds, CloseConnections, TypeOK
  <2>3. /\ link[c] = "accepted" /\ said[c] # "nothing" /\ UNCHANGED said
        /\ jose' = [jose EXCEPT ![c] = "ended"]
    BY <1>0, <1>10 DEF AcceptedFirst, HandedOver, JoseEnds
  <2>4. Stage(c) \in {"served", "conference"} /\ Stage(c)' = "over"
    BY <1>0, <1>10, <2>1, <2>3 DEF Stage, TypeOK
  <2>5. \A d \in Clients \ {c} : /\ link'[d] = link[d] /\ jose'[d] = jose[d]
                                 /\ open'[d] = {} <=> open[d] = {}
    BY <1>0, <2>1, <2>2, <2>3 DEF TypeOK
  <2>6. Promised!Goes(c, {Stage(c)}, "over")
    BY ONLY c \in Clients, <2>3, <2>4, <2>5, OneGoes
  <2>7. Promised!Leave(c) \/ Promised!Finish(c)
    BY ONLY <2>3, <2>4, <2>6 DEF Promised!Leave, Promised!Finish
  <2> QED
    BY <2>7 DEF Promised!Next
<1>11. ASSUME NEW c \in Clients, Echo(c)
       PROVE  Promised!Next \/ UNCHANGED Promised!receptionVars
  <2>1. CASE JoseEnds(c)
    BY <1>10, <1>11, <2>1 DEF Echo
  <2>2. CASE ~JoseEnds(c)
    <3>1. /\ jose[c] = "send" /\ jose' = [jose EXCEPT ![c] = "close"]
          /\ UNCHANGED <<link, said, open>>
      BY <1>11, <2>2 DEF Echo
    <3>2. ASSUME NEW d \in Clients PROVE Stage(d)' = Stage(d)
      BY <1>0, <3>1 DEF Stage, TypeOK
    <3> QED
      BY <3>1, <3>2 DEF Promised!receptionVars
  <2> QED
    BY <2>1, <2>2
<1>12. ASSUME NEW c \in Clients, JoseCloses(c) PROVE Promised!Next
  <2>1. /\ link[c] = "accepted" /\ said[c] # "nothing" /\ jose[c] = "close"
        /\ UNCHANGED <<link, said>>
        /\ jose' = [jose EXCEPT ![c] = IF said[c] = "x" THEN "ended"
                                       ELSE "conference"]
        /\ \A d \in Clients \ {c} : open'[d] = open[d]
    BY <1>0, <1>12 DEF JoseCloses, CloseConnection, AcceptedFirst, HandedOver,
       TypeOK
  <2>2. \A d \in Clients \ {c} : /\ link'[d] = link[d] /\ jose'[d] = jose[d]
                                 /\ open'[d] = {} <=> open[d] = {}
    BY <1>0, <2>1 DEF TypeOK
  <2>3. CASE said[c] = "x"
    <3>1. Stage(c) = "served" /\ Stage(c)' = "over"
      BY <1>0, <2>1, <2>3 DEF Stage, TypeOK
    <3>2. Promised!Leave(c)
      BY <2>1, <2>2, <3>1, OneGoes DEF Promised!Leave
    <3> QED
      BY <3>2 DEF Promised!Next
  <2>4. CASE said[c] # "x"
    <3>1. Stage(c) = "served" /\ Stage(c)' = "conference"
      BY <1>0, <2>1, <2>4 DEF Stage, TypeOK
    <3>2. Promised!Confer(c)
      BY <2>1, <2>2, <2>4, <3>1, OneGoes DEF Promised!Confer
    <3> QED
      BY <3>2 DEF Promised!Next
  <2> QED
    BY <2>3, <2>4
<1>13. ASSUME NEW c \in Clients, Connect(c) PROVE Promised!Next
  <2>1. /\ link[c] = "none" /\ link' = [link EXCEPT ![c] = "backlog"]
        /\ UNCHANGED <<jose, said, open>>
    BY <1>13 DEF Connect
  <2>2. Stage(c) = "new" /\ Stage(c)' = "waiting"
    BY <1>0, <2>1 DEF Stage, TypeOK
  <2>3. Promised!Arrive(c)
    BY <1>0, <2>1, <2>2, OneGoes DEF Promised!Arrive, TypeOK
  <2> QED
    BY <2>3 DEF Promised!Next
<1>14. ASSUME NEW c \in Clients, NEW w \in {"x", "go", "end"}, Say(c, w)
       PROVE  Promised!Next
  <2>1. /\ link[c] \in {"backlog", "accepted"} /\ said[c] = "nothing"
        /\ said' = [said EXCEPT ![c] = w] /\ UNCHANGED <<jose, link, open>>
    BY <1>14 DEF Say
  <2>2. Stage(c) \notin {"new", "refused"}
    BY <1>0, <2>1 DEF Stage, TypeOK, JoseStates
  <2>3. \A d \in Clients : Stage(d)' = Stage(d)
    BY <2>1, StageKept
  <2>4. Promised!Speak(c, w)
    BY <2>1, <2>2, <2>3 DEF Promised!Speak
  <2> QED
    BY <2>4 DEF Promised!Next
<1> QED
  BY <1>1, <1>2, <1>3, <1>4, <1>5, <1>6, <1>7, <1>8, <1>9, <1>10, <1>11, <1>12,
     <1>13, <1>14 DEF Steps

\* The daemon keeps what Reception promises its clients, however many connect,
\* whatever fails and however often it is killed and started again.
THEOREM ReceptionKept == Spec => ImplementsReception
<1>1. Init => Promised!Init
  <2>1. ASSUME Init, NEW c \in Clients PROVE Stage(c) = "new"
    BY <2>1 DEF Init, Stage
  <2> QED
    BY <2>1 DEF Promised!Init, Init
<1>2. ASSUME IInv, HandedOver, [Next]_vars
      PROVE  HandedOver' /\ [Promised!Next]_(Promised!receptionVars)
  <2>1. CASE Next
    BY <1>2, <2>1, StepsOfNext, StepHandedOver, StepReception
  <2>2. CASE UNCHANGED vars
    <3>1. UNCHANGED <<link, jose, said, open>>
      BY <2>2 DEF vars, network
    <3>2. HandedOver'
      BY <1>2, <2>2 DEF HandedOver, vars, daemon, network
    <3> QED
      BY <3>1, <3>2, NothingSeen
  <2> QED
    BY <1>2, <2>1, <2>2
<1> QED
  BY <1>1, <1>2, InitHandedOver, Invariance, PTL
     DEF Spec, ImplementsReception, Promised!Spec
=============================================================================
