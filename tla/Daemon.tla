------------------------------- MODULE Daemon -------------------------------
(***************************************************************************)
(* The server as a daemon: main opens the TCP port and calls               *)
(* Create_hybrid_video_process_x, which accepts connections and serves     *)
(* each in a process of its own.  (In this commit main calls the variant   *)
(* that holds one conference and accepts nothing, with the same            *)
(* arguments; that one is module Conference.)  The code names the          *)
(* processes: obama accepts and forks alice; alice forks jose and exits;   *)
(* jose reads the instruction, echoes it and runs a conference.  Obama     *)
(* waits for alice only, so that jose, an orphan, is reaped by the system. *)
(*                                                                         *)
(* A fork copies every open descriptor; an end closes those of the         *)
(* process.                                                                *)
(***************************************************************************)
EXTENDS Naturals, FiniteSets

CONSTANTS
  Clients,     \* the connections that are ever opened, a bound
  MaxFailures, \* a bound on failing system calls and kills of obama
  NULL         \* no connection

ASSUME NullAssumption == NULL \notin Clients

Obama == <<"obama", NULL>>
Alice(c) == <<"alice", c>>
Jose(c) == <<"jose", c>>
Processes == {Obama} \cup {Alice(c) : c \in Clients} \cup {Jose(c) : c \in Clients}

VARIABLES
  obama,     \* "socket", "bind", "accept", "fork", "close", "wait", "ended"
  conn,      \* obama's connection_sd, or NULL
  children,  \* the connections whose alice obama has forked and not reaped
  alice,     \* per connection: "none", "closing", "forking", "exiting",
             \* "zombie", "gone"
  jose,      \* per connection: "none", "recv", "send", "close",
             \* "conference", "ended"
  link,      \* per connection: "none", "backlog", "accepted", "reset"
  said,      \* per connection: what its client has sent, "nothing", an
             \* instruction "x", any other one "go", or the "end"
  listening, \* the processes that have the listening socket open
  open,      \* per connection: the processes that have it open
  failures   \* how many system calls have failed

daemon == <<obama, conn, children>>
network == <<link, said, listening, open>>
vars == <<daemon, alice, jose, network, failures>>

Init ==
  /\ obama = "socket"
  /\ conn = NULL
  /\ children = {}
  /\ alice = [c \in Clients |-> "none"]
  /\ jose = [c \in Clients |-> "none"]
  /\ link = [c \in Clients |-> "none"]
  /\ said = [c \in Clients |-> "nothing"]
  /\ listening = {}
  /\ open = [c \in Clients |-> {}]
  /\ failures = 0

-----------------------------------------------------------------------------
(* Descriptors.                                                            *)

\* The last close of the listening socket resets what waits in its backlog.
CloseListening(p) ==
  /\ listening' = listening \ {p}
  /\ link' = [c \in Clients |->
                IF listening \subseteq {p} /\ link[c] = "backlog"
                THEN "reset" ELSE link[c]]

CloseConnection(c, p) == open' = [open EXCEPT ![c] = @ \ {p}]
CloseConnections(p) == open' = [c \in Clients |-> open[c] \ {p}]

\* A call fails that may fail.
Fails == failures < MaxFailures /\ failures' = failures + 1

-----------------------------------------------------------------------------
(* Obama: main, Start_tcp_network_service and the loop of                  *)
(* Create_hybrid_video_process_x.                                          *)

\* The end of obama closes its descriptors; its children become orphans, and
\* the system reaps those that have ended.
ObamaEnds ==
  /\ obama' = "ended"
  /\ conn' = NULL
  /\ children' = {}
  /\ alice' = [c \in Clients |-> IF alice[c] = "zombie" THEN "gone" ELSE alice[c]]
  /\ CloseListening(Obama)
  /\ CloseConnections(Obama)
  /\ UNCHANGED <<jose, said>>

\* A fatal signal, at any moment.
ObamaKilled ==
  /\ obama # "ended"
  /\ Fails
  /\ ObamaEnds

\* The server is started again: Log_begin, then the socket is opened.
Restart ==
  /\ obama = "ended"
  /\ obama' = "socket"
  /\ UNCHANGED <<conn, children, alice, jose, network, failures>>

OpenSocket ==
  /\ obama = "socket"
  /\ obama' = "bind"
  /\ UNCHANGED <<conn, children, alice, jose, network, failures>>

\* No socket: Start_tcp_network_service returns -1, and so does main.
OpenSocketFails ==
  /\ obama = "socket"
  /\ Fails
  /\ ObamaEnds

\* bind and listen; bind succeeds when nobody listens on the port.
Bind ==
  /\ obama = "bind"
  /\ listening = {}
  /\ listening' = {Obama}
  /\ obama' = "accept"
  /\ UNCHANGED <<conn, children, alice, jose, link, said, open, failures>>

\* OUTPUT_ERROR, which calls Log_error: when the log cannot be opened,
\* fclose(NULL) ends the process.
LogError ==
  \/ UNCHANGED <<daemon, alice, jose, network>>
  \/ ObamaEnds

\* bind fails: five seconds later it is tried again.
BindFails ==
  /\ obama = "bind"
  /\ listening # {}
  /\ Fails
  /\ LogError

Accept(c) ==
  /\ obama = "accept"
  /\ link[c] = "backlog"
  /\ link' = [link EXCEPT ![c] = "accepted"]
  /\ conn' = c
  /\ open' = [open EXCEPT ![c] = {Obama}]
  /\ obama' = "fork"
  /\ UNCHANGED <<children, alice, jose, said, listening, failures>>

\* A failing accept that is not followed by continue.
AcceptFails_GoesOn ==
  /\ obama = "accept"
  /\ Fails
  /\ obama' = "fork"
  /\ UNCHANGED <<conn, children, alice, jose, network>>

\* accept fails: close(-1) does nothing, a second later it is tried again.
AcceptFails ==
  /\ obama = "accept"
  /\ Fails
  /\ LogError

ForkAlice ==
  /\ obama = "fork"
  /\ obama' = "close"
  /\ children' = children \cup {conn}
  /\ alice' = [alice EXCEPT ![conn] = "closing"]
  /\ listening' = listening \cup {Alice(conn)}
  /\ open' = [open EXCEPT ![conn] = @ \cup {Alice(conn)}]
  /\ UNCHANGED <<conn, jose, link, said, failures>>

\* The first fork fails: the connection is closed, the function returns -1,
\* and so does main.
ForkAliceFails ==
  /\ obama = "fork"
  /\ Fails
  /\ ObamaEnds

\* A parent that keeps the connection open.
ObamaCloses_Keeps ==
  /\ obama = "close"
  /\ obama' = "wait"
  /\ UNCHANGED <<conn, children, alice, jose, network, failures>>

ObamaCloses ==
  /\ obama = "close"
  /\ obama' = "wait"
  /\ CloseConnection(conn, Obama)
  /\ UNCHANGED <<conn, children, alice, jose, link, said, listening, failures>>

\* No waitpid.
Waitpid_Skipped ==
  /\ obama = "wait"
  /\ obama' = "accept"
  /\ conn' = NULL
  /\ UNCHANGED <<children, alice, jose, network, failures>>

\* waitpid of the whole family: of jose too.
Waitpid_Jose ==
  /\ obama = "wait"
  /\ alice[conn] = "zombie"
  /\ jose[conn] \in {"none", "ended"}
  /\ alice' = [alice EXCEPT ![conn] = "gone"]
  /\ children' = children \ {conn}
  /\ obama' = "accept"
  /\ conn' = NULL
  /\ UNCHANGED <<jose, network, failures>>

Waitpid ==
  /\ obama = "wait"
  /\ alice[conn] = "zombie"
  /\ alice' = [alice EXCEPT ![conn] = "gone"]
  /\ children' = children \ {conn}
  /\ obama' = "accept"
  /\ conn' = NULL
  /\ UNCHANGED <<jose, network, failures>>

ObamaStep ==
  \/ OpenSocket \/ Bind \/ \E c \in Clients : Accept(c)
  \/ ForkAlice \/ ObamaCloses \/ Waitpid

-----------------------------------------------------------------------------
(* Alice, the child.                                                       *)

\* A child that keeps the listening socket open.
AliceCloses_Keeps(c) ==
  /\ alice[c] = "closing"
  /\ alice' = [alice EXCEPT ![c] = "forking"]
  /\ UNCHANGED <<daemon, jose, network, failures>>

AliceCloses(c) ==
  /\ alice[c] = "closing"
  /\ alice' = [alice EXCEPT ![c] = "forking"]
  /\ CloseListening(Alice(c))
  /\ UNCHANGED <<daemon, jose, said, open, failures>>

ForkJose(c) ==
  /\ alice[c] = "forking"
  /\ alice' = [alice EXCEPT ![c] = "exiting"]
  /\ jose' = [jose EXCEPT ![c] = "recv"]
  /\ listening' = listening \cup {p \in {Jose(c)} : Alice(c) \in listening}
  /\ open' = [open EXCEPT ![c] = @ \cup {Jose(c)}]
  /\ UNCHANGED <<daemon, link, said, failures>>

\* Alice's end closes what she has open.
AliceEnds(c) ==
  /\ alice' = [alice EXCEPT ![c] = IF c \in children THEN "zombie" ELSE "gone"]
  /\ CloseListening(Alice(c))
  /\ CloseConnections(Alice(c))
  /\ UNCHANGED <<daemon, jose, said>>

AliceExits(c) ==
  /\ alice[c] = "exiting"
  /\ AliceEnds(c)
  /\ UNCHANGED failures

\* The second fork fails: alice returns -1 where obama's caller is, and ends
\* as that ends, through the return of main.
ForkJoseFails(c) ==
  /\ alice[c] = "forking"
  /\ Fails
  /\ AliceEnds(c)

AliceStep(c) == AliceCloses(c) \/ ForkJose(c) \/ AliceExits(c)

-----------------------------------------------------------------------------
(* Jose, the grandchild.                                                   *)

\* recv is back with an instruction, or with nothing when the client is gone.
Receive(c) ==
  /\ jose[c] = "recv"
  /\ said[c] # "nothing"
  /\ jose' = [jose EXCEPT ![c] = "send"]
  /\ UNCHANGED <<daemon, alice, network, failures>>

JoseEnds(c) ==
  /\ jose' = [jose EXCEPT ![c] = "ended"]
  /\ CloseListening(Jose(c))
  /\ CloseConnections(Jose(c))
  /\ UNCHANGED <<daemon, alice, said, failures>>

\* The echo; to a client that is gone it may end jose with SIGPIPE.
Echo(c) ==
  /\ jose[c] = "send"
  /\ \/ /\ jose' = [jose EXCEPT ![c] = "close"]
        /\ UNCHANGED <<daemon, alice, network, failures>>
     \/ JoseEnds(c)

\* An instruction that is not looked at.
JoseCloses_Conferring(c) ==
  /\ jose[c] = "close"
  /\ CloseConnection(c, Jose(c))
  /\ jose' = [jose EXCEPT ![c] = "conference"]
  /\ UNCHANGED <<daemon, alice, link, said, listening, failures>>

\* An instruction that begins with x ends jose; anything else, no instruction
\* at all included, starts a conference.
JoseCloses(c) ==
  /\ jose[c] = "close"
  /\ CloseConnection(c, Jose(c))
  /\ jose' = [jose EXCEPT ![c] = IF said[c] = "x" THEN "ended" ELSE "conference"]
  /\ UNCHANGED <<daemon, alice, link, said, listening, failures>>

\* sleep(conference_duration), exit(0).
ConferenceEnds(c) ==
  /\ jose[c] = "conference"
  /\ JoseEnds(c)

JoseStep(c) == Receive(c) \/ Echo(c) \/ JoseCloses(c)

-----------------------------------------------------------------------------
(* The clients, and the kernel between them and the server.                *)

Connect(c) ==
  /\ link[c] = "none"
  /\ listening # {}
  /\ link' = [link EXCEPT ![c] = "backlog"]
  /\ UNCHANGED <<daemon, alice, jose, said, listening, open, failures>>

Say(c, w) ==
  /\ link[c] \in {"backlog", "accepted"}
  /\ said[c] = "nothing"
  /\ said' = [said EXCEPT ![c] = w]
  /\ UNCHANGED <<daemon, alice, jose, link, listening, open, failures>>

-----------------------------------------------------------------------------
ObamaFails ==
  ObamaKilled \/ OpenSocketFails \/ BindFails \/ AcceptFails \/ ForkAliceFails

ClientStep(c) == Connect(c) \/ \E w \in {"x", "go", "end"} : Say(c, w)

Next ==
  \/ ObamaStep \/ ObamaFails \/ Restart
  \/ \E c \in Clients : \/ AliceStep(c) \/ ForkJoseFails(c)
                        \/ JoseStep(c) \/ ConferenceEnds(c)
                        \/ ClientStep(c)

Spec == Init /\ [][Next]_vars

\* The processes of the server run when they can.  Nothing obliges a client
\* to connect or to speak, a conference to end, or anybody to restart obama.
FairSpec ==
  /\ Spec
  /\ WF_vars(ObamaStep)
  /\ \A c \in Clients : WF_vars(AliceStep(c)) /\ WF_vars(JoseStep(c))

-----------------------------------------------------------------------------
(* Properties.                                                             *)

ObamaStates == {"socket", "bind", "accept", "fork", "close", "wait", "ended"}
AliceStates == {"none", "closing", "forking", "exiting", "zombie", "gone"}
JoseStates == {"none", "recv", "send", "close", "conference", "ended"}

\* Every variable keeps its type.
TypeOK ==
  /\ obama \in ObamaStates
  /\ conn \in Clients \cup {NULL}
  /\ children \in SUBSET Clients
  /\ alice \in [Clients -> AliceStates]
  /\ jose \in [Clients -> JoseStates]
  /\ link \in [Clients -> {"none", "backlog", "accepted", "reset"}]
  /\ said \in [Clients -> {"nothing", "x", "go", "end"}]
  /\ listening \in SUBSET Processes
  /\ open \in [Clients -> SUBSET Processes]
  /\ failures \in Nat

\* Obama leaves no zombie: it has a child only between the fork and the
\* waitpid that follows, and that child is the alice of the connection in hand.
OneChild == children = IF obama \in {"close", "wait"} THEN {conn} ELSE {}

\* No descriptor leaks into a process that outlives its use.  The listening
\* socket belongs to obama, and to an alice that has not closed it yet; it
\* never reaches jose.
ListenerKept ==
  listening = (IF obama \in {"accept", "fork", "close", "wait"} THEN {Obama} ELSE {})
                \cup {Alice(c) : c \in {d \in Clients : alice[d] = "closing"}}

\* Who has the connection c open, by what obama, alice and jose are doing.
Holders(c) ==
  {p \in {Obama} : conn = c /\ obama \in {"fork", "close"}}
  \cup {p \in {Alice(c)} : alice[c] \in {"closing", "forking", "exiting"}}
  \cup {p \in {Jose(c)} : jose[c] \in {"recv", "send", "close"}}

\* A connection is open in the processes that still need it and in no other:
\* a conference has none open, nor has obama when it accepts the next.
ConnectionsKept == \A c \in Clients : open[c] = Holders(c)

\* How far the connection c has come, as Reception sees it: it is lost when no
\* process has it any more and none has served it.
Stage(c) ==
  CASE link[c] = "none" -> "new"
    [] link[c] = "backlog" -> "waiting"
    [] link[c] = "reset" -> "refused"
    [] link[c] = "accepted" ->
         CASE jose[c] = "none" -> IF open[c] = {} THEN "lost" ELSE "accepted"
           [] jose[c] \in {"recv", "send", "close"} -> "served"
           [] jose[c] = "conference" -> "conference"
           [] jose[c] = "ended" -> "over"

Promised == INSTANCE Reception WITH stage <- [c \in Clients |-> Stage(c)]

\* Every connection is accepted and served at most once, by a jose of its own
\* that no failure elsewhere disturbs; whatever fails costs at most one
\* accepted connection and the backlog; and a conference starts only for a
\* client that has spoken and not declined.
ImplementsReception == Promised!Spec

\* A connection is attended to, or refused because obama has ended, however
\* many other clients keep silent or hold conferences.
Attended ==
  \A c \in Clients : link[c] = "backlog" ~> link[c] \in {"accepted", "reset"}

\* A client that has spoken gets to the end of its connection, with the echo
\* or, when a fork or a process has failed, without it.
Released ==
  \A c \in Clients :
    link[c] = "accepted" /\ said[c] # "nothing" ~> open[c] = {}

\* A server started again gets its port, although conferences of the one
\* before may still run: bind is not retried for ever.
Rebound == obama = "bind" ~> obama \in {"accept", "ended"}
=============================================================================
