----------------------------- MODULE Conference -----------------------------
(***************************************************************************)
(* A conference process from its start to its exit: the main thread makes  *)
(* the system state, starts the monitor and the workers group by group,    *)
(* sleeps, frees the system state and returns; each thread copies its      *)
(* parameter block and frees it, looks up its entries in the system state, *)
(* and then runs a dead loop that begins by copying the lengths of the     *)
(* queues it works on into the system state, without a lock.               *)
(*                                                                         *)
(* What a loop does with its queues is in module Pipeline; here a loop     *)
(* makes any calls of the right kind.  A queue is its length.              *)
(***************************************************************************)
EXTENDS Integers, Sequences, FiniteSets

CONSTANTS
  ClientNum,  \* client_num
  MaxLength,  \* a bound on the length of a queue
  MaxFailures,\* a bound on the number of failing pthread_create
  Busy        \* the threads that are scheduled, a bound; the others are
              \* created and never run

ASSUME ClientAssumption == ClientNum \in Nat \ {0}
ASSUME LengthAssumption == MaxLength \in Nat

-----------------------------------------------------------------------------
(* The layout that Initialize_system_state_memory fixes, and the ids that  *)
(* main and the creators of threads derive from it.                        *)

Clients == 0..(ClientNum - 1)

QueueNum == [recv |-> ClientNum, dec |-> ClientNum, mix |-> 1, enc |-> 1]
AllQueues == QueueNum.recv + QueueNum.dec + QueueNum.mix + QueueNum.enc

ThreadNum == [mon |-> 1, recv |-> ClientNum, dec |-> ClientNum,
              mix |-> ClientNum - 1, enc |-> 1, snd |-> 1]
AllWorkers == ThreadNum.recv + ThreadNum.dec + ThreadNum.mix
                + ThreadNum.enc + ThreadNum.snd

Queues == {<<"recv", c>> : c \in Clients} \cup {<<"dec", c>> : c \in Clients}
            \cup {<<"mix", 0>>, <<"enc", 0>>}
Monitor == <<"mon", 0>>
Workers == {<<"recv", c>> : c \in Clients} \cup {<<"dec", c>> : c \in Clients}
             \cup {<<"mix", i>> : i \in 0..(ClientNum - 2)}
             \cup {<<"enc", 0>>, <<"snd", 0>>}
Threads == Workers \cup {Monitor}

\* q_info.id: the base_id main passes plus the loop's i.
QueueBase == [recv |-> 0,
              dec |-> QueueNum.recv,
              mix |-> QueueNum.recv + QueueNum.dec,
              enc |-> QueueNum.recv + QueueNum.dec + QueueNum.mix]

\* q_info.id with the decoded queues counted from zero.
QueueId_DecodersFromZero(q) == [QueueBase EXCEPT !.dec = 0][q[1]] + q[2]

QueueId(q) == QueueBase[q[1]] + q[2]

\* worker_id with the decoders counted from zero.
WorkerId_DecodersFromZero(t) ==
  [recv |-> 0,
   dec |-> 0,
   mix |-> ThreadNum.recv + ThreadNum.dec,
   enc |-> ThreadNum.recv + ThreadNum.dec + ThreadNum.mix,
   snd |-> ThreadNum.recv + ThreadNum.dec + ThreadNum.mix + ThreadNum.enc][t[1]]
    + t[2]

\* worker_id: the numbers of the groups before it plus the loop's i.
WorkerBase == [recv |-> 0,
               dec |-> ThreadNum.recv,
               mix |-> ThreadNum.recv + ThreadNum.dec,
               enc |-> ThreadNum.recv + ThreadNum.dec + ThreadNum.mix,
               snd |-> ThreadNum.recv + ThreadNum.dec + ThreadNum.mix
                         + ThreadNum.enc]
WorkerId(t) == WorkerBase[t[1]] + t[2]

\* The UDP ports of the receiving queues and of the monitor.
RECV_AV_QUEUE_PORT == 18000
MONITOR_SERVER_PORT == 19000
Port(t) == IF t = Monitor THEN MONITOR_SERVER_PORT
                          ELSE RECV_AV_QUEUE_PORT + (t[2] + 1) * 10

\* The bytes of a monitor packet: twelve numbers and two pointers, then the
\* entries of three numbers each, on a machine with 4-byte numbers and 8-byte
\* pointers.
BUFFER_SIZE == 2048
PacketSize == 12 * 4 + 2 * 8 + AllQueues * 12 + AllWorkers * 12

-----------------------------------------------------------------------------
VARIABLES
  stage,     \* what main does: the group it starts, "sleep", "freed", "exited"
  turn,      \* i of the loop that starts a group
  st,        \* per thread: "none", "failed", "created", "bind", "loop", "ended"
  block,     \* per thread: its parameter block "none", "allocated", "freed"
  entry,     \* per worker: the index of its entry in ws_info, or NoEntry
  pc,        \* per thread: "probe" or "work", the part of the loop it is in
  at,        \* per thread: the next queue of its probe
  reg,       \* per thread: the length it has read and not yet written
  len,       \* per queue: q_info.length
  shown,     \* per queue id: length in qs_info
  badAccess  \* a thread used memory that was not allocated

creation == <<stage, turn>>
loops == <<pc, at, reg>>
vars == <<stage, turn, st, block, entry, pc, at, reg, len, shown, badAccess>>

NoEntry == -1
NoValue == -1
Lengths == 0..MaxLength

Init ==
  /\ stage = "mon"
  /\ turn = 0
  /\ st = [t \in Threads |-> "none"]
  /\ block = [t \in Threads |-> "none"]
  /\ entry = [t \in Workers |-> NoEntry]
  /\ pc = [t \in Threads |-> "probe"]
  /\ at = [t \in Threads |-> 1]
  /\ reg = [t \in Threads |-> NoValue]
  /\ len = [q \in Queues |-> 0]
  /\ shown = [i \in 0..(AllQueues - 1) |-> 0]
  /\ badAccess = FALSE

Freed == stage = "freed"

-----------------------------------------------------------------------------
(* The main thread.                                                        *)

Starting == stage \in DOMAIN ThreadNum

NextStage == [mon |-> "recv", recv |-> "dec", dec |-> "mix", mix |-> "enc",
              enc |-> "snd", snd |-> "sleep"]

\* A creator that frees the parameter block when pthread_create is back.
CreateThread_FreesBlock ==
  /\ Starting
  /\ turn < ThreadNum[stage]
  /\ st' = [st EXCEPT ![<<stage, turn>>] = "created"]
  /\ block' = [block EXCEPT ![<<stage, turn>>] = "freed"]
  /\ turn' = turn + 1
  /\ UNCHANGED <<stage, entry, loops, len, shown, badAccess>>

CreateThread ==
  /\ Starting
  /\ turn < ThreadNum[stage]
  /\ st' = [st EXCEPT ![<<stage, turn>>] = "created"]
  /\ block' = [block EXCEPT ![<<stage, turn>>] = "allocated"]
  /\ turn' = turn + 1
  /\ UNCHANGED <<stage, entry, loops, len, shown, badAccess>>

\* pthread_create fails: the group is given up, its block is lost, and main
\* goes on with the next group.
CreateFails ==
  /\ Starting
  /\ Cardinality({t \in Threads : st[t] = "failed"}) < MaxFailures
  /\ turn < ThreadNum[stage]
  /\ st' = [st EXCEPT ![<<stage, turn>>] = "failed"]
  /\ block' = [block EXCEPT ![<<stage, turn>>] = "allocated"]
  /\ stage' = NextStage[stage]
  /\ turn' = 0
  /\ UNCHANGED <<entry, loops, len, shown, badAccess>>

GroupStarted ==
  /\ Starting
  /\ turn = ThreadNum[stage]
  /\ stage' = NextStage[stage]
  /\ turn' = 0
  /\ UNCHANGED <<st, block, entry, loops, len, shown, badAccess>>

\* sleep(conference_duration) is over: Destory_system_state_memory.
Destory ==
  /\ stage = "sleep"
  /\ stage' = "freed"
  /\ UNCHANGED <<turn, st, block, entry, loops, len, shown, badAccess>>

\* main returns, which ends every thread; or one of them has crashed on the
\* freed memory before.
Exit ==
  /\ Freed
  /\ stage' = "exited"
  /\ UNCHANGED <<turn, st, block, entry, loops, len, shown, badAccess>>

-----------------------------------------------------------------------------
(* The start of a thread.                                                  *)

UsesSocket(t) == t[1] \in {"recv", "mon"}

\* A start that does not free the block.
Start_KeepsBlock(t) ==
  /\ t \in Busy
  /\ st[t] = "created"
  /\ st' = [st EXCEPT ![t] = IF UsesSocket(t) THEN "bind" ELSE "loop"]
  /\ entry' = IF t \in Workers THEN [entry EXCEPT ![t] = WorkerId(t)] ELSE entry
  /\ badAccess' = (badAccess \/ block[t] # "allocated" \/ Freed)
  /\ UNCHANGED <<creation, block, loops, len, shown>>

\* The block is copied and freed, the entries of the worker and of its
\* queues are looked up: Get_worker_info_pointer, Get_queue_info_pointer.
Start(t) ==
  /\ t \in Busy
  /\ st[t] = "created"
  /\ st' = [st EXCEPT ![t] = IF UsesSocket(t) THEN "bind" ELSE "loop"]
  /\ block' = [block EXCEPT ![t] = "freed"]
  /\ entry' = IF t \in Workers THEN [entry EXCEPT ![t] = WorkerId(t)] ELSE entry
  /\ badAccess' = (badAccess \/ block[t] # "allocated" \/ Freed)
  /\ UNCHANGED <<creation, loops, len, shown>>

\* bind succeeds; until then it is tried again every five seconds.
Bind(t) ==
  /\ st[t] = "bind"
  /\ st' = [st EXCEPT ![t] = "loop"]
  /\ UNCHANGED <<creation, block, entry, loops, len, shown, badAccess>>

\* The socket cannot be opened: the thread returns.
SocketFails(t) ==
  /\ st[t] = "bind"
  /\ st' = [st EXCEPT ![t] = "ended"]
  /\ UNCHANGED <<creation, block, entry, loops, len, shown, badAccess>>

-----------------------------------------------------------------------------
(* The loops.                                                              *)

Running(t) == t \in Workers /\ st[t] = "loop"

QueuesOf(kind, n) == [i \in 1..n |-> <<kind, i - 1>>]

\* The decoder's probe with its output only.
Watched_DecoderOutput(t) ==
  [recv |-> <<t>>,
   dec |-> <<t>>,
   mix |-> Append(QueuesOf("dec", ClientNum), <<"mix", 0>>),
   enc |-> <<<<"mix", 0>>, <<"enc", 0>>>>,
   snd |-> <<<<"enc", 0>>>>][t[1]]

\* The queues a worker copies the lengths of, in the order of its probe.
Watched(t) ==
  [recv |-> <<t>>,
   dec |-> <<<<"recv", t[2]>>, t>>,
   mix |-> Append(QueuesOf("dec", ClientNum), <<"mix", 0>>),
   enc |-> <<<<"mix", 0>>, <<"enc", 0>>>>,
   snd |-> <<<<"enc", 0>>>>][t[1]]

\* The queues it removes nodes from, and those it inserts into.  A receiver
\* removes what does not fit.
Inputs(t) ==
  [recv |-> {t},
   dec |-> {<<"recv", t[2]>>},
   mix |-> {<<"dec", c>> : c \in Clients},
   enc |-> {<<"mix", 0>>},
   snd |-> {<<"enc", 0>>}][t[1]]
Outputs(t) ==
  [recv |-> {t}, dec |-> {t}, mix |-> {<<"mix", 0>>}, enc |-> {<<"enc", 0>>},
   snd |-> {}][t[1]]

\* Half of p->length = q->q_info.length: the length is read.
ReadLength(t) ==
  /\ Running(t)
  /\ pc[t] = "probe"
  /\ at[t] \in DOMAIN Watched(t)
  /\ reg[t] = NoValue
  /\ reg' = [reg EXCEPT ![t] = len[Watched(t)[at[t]]]]
  /\ UNCHANGED <<creation, st, block, entry, pc, at, len, shown, badAccess>>

\* The other half: what was read is written to the system state.
ShowLength(t) ==
  /\ Running(t)
  /\ pc[t] = "probe"
  /\ reg[t] # NoValue
  /\ shown' = IF Freed THEN shown
              ELSE [shown EXCEPT ![QueueId(Watched(t)[at[t]])] = reg[t]]
  /\ badAccess' = (badAccess \/ Freed)
  /\ reg' = [reg EXCEPT ![t] = NoValue]
  /\ at' = [at EXCEPT ![t] = @ + 1]
  /\ UNCHANGED <<creation, st, block, entry, pc, len>>

\* The probe is done: Set_worker_state and the work of the round.
Work(t) ==
  /\ Running(t)
  /\ pc[t] = "probe"
  /\ at[t] \notin DOMAIN Watched(t)
  /\ pc' = [pc EXCEPT ![t] = "work"]
  /\ badAccess' = (badAccess \/ Freed)
  /\ UNCHANGED <<creation, st, block, entry, at, reg, len, shown>>

\* A removal that does not look whether there is a node.
Remove_Unchecked(t, q) ==
  /\ Running(t)
  /\ pc[t] = "work"
  /\ q \in Inputs(t)
  /\ len' = [len EXCEPT ![q] = @ - 1]
  /\ UNCHANGED <<creation, st, block, entry, loops, shown, badAccess>>

Remove(t, q) ==
  /\ Running(t)
  /\ pc[t] = "work"
  /\ q \in Inputs(t)
  /\ len[q] > 0
  /\ len' = [len EXCEPT ![q] = @ - 1]
  /\ UNCHANGED <<creation, st, block, entry, loops, shown, badAccess>>

Insert(t, q) ==
  /\ Running(t)
  /\ pc[t] = "work"
  /\ q \in Outputs(t)
  /\ len[q] < MaxLength
  /\ len' = [len EXCEPT ![q] = @ + 1]
  /\ UNCHANGED <<creation, st, block, entry, loops, shown, badAccess>>

\* The loop starts again.
NextRound(t) ==
  /\ Running(t)
  /\ pc[t] = "work"
  /\ pc' = [pc EXCEPT ![t] = "probe"]
  /\ at' = [at EXCEPT ![t] = 1]
  /\ UNCHANGED <<creation, st, block, entry, reg, len, shown, badAccess>>
\* The monitor's recvfrom is back: it copies the system state and both arrays
\* into its packet and sends it.  Nothing of it is kept.
Answer ==
  /\ st[Monitor] = "loop"
  /\ badAccess' = (badAccess \/ Freed)
  /\ UNCHANGED <<creation, st, block, entry, loops, len, shown>>

-----------------------------------------------------------------------------
MainStep == CreateThread \/ CreateFails \/ GroupStarted \/ Destory \/ Exit

ProbeStep(t) == ReadLength(t) \/ ShowLength(t) \/ Work(t)

QueueCall(t) == \E q \in Queues : Remove(t, q) \/ Insert(t, q)

Next ==
  /\ stage # "exited"
  /\ \/ MainStep
     \/ \E t \in Threads : Start(t) \/ Bind(t) \/ SocketFails(t)
     \/ \E t \in Workers : ProbeStep(t) \/ QueueCall(t) \/ NextRound(t)
     \/ Answer

Spec == Init /\ [][Next]_vars

\* A worker that runs goes on running.  A receiver's round ends when a client
\* sends something, of which nothing is assumed; the other workers poll.
FairSpec ==
  /\ Spec
  /\ \A t \in Busy \cap Workers :
       /\ WF_vars(stage # "exited" /\ ProbeStep(t))
       /\ t[1] # "recv" => WF_vars(stage # "exited" /\ NextRound(t))

-----------------------------------------------------------------------------
(* Properties.                                                             *)

Stages == {"mon", "recv", "dec", "mix", "enc", "snd", "sleep", "freed", "exited"}

ThreadStates == {"none", "failed", "created", "bind", "loop", "ended"}

\* Every variable keeps its type; in particular no length copied to the system
\* state is one the queue could not have.
TypeOK ==
  /\ stage \in Stages
  /\ turn \in Nat
  /\ st \in [Threads -> ThreadStates]
  /\ block \in [Threads -> {"none", "allocated", "freed"}]
  /\ entry \in [Workers -> Nat \cup {NoEntry}]
  /\ pc \in [Threads -> {"probe", "work"}]
  /\ at \in [Threads -> Nat]
  /\ reg \in [Threads -> Lengths \cup {NoValue}]
  /\ len \in [Queues -> Lengths]
  /\ shown \in [0..(AllQueues - 1) -> Lengths]
  /\ badAccess \in BOOLEAN

\* The state of a parameter block, by the state of its thread.
BlockOf == [none |-> "none", failed |-> "allocated", created |-> "allocated",
            bind |-> "freed", loop |-> "freed", ended |-> "freed"]

\* A thread's parameter block is there until the thread has copied it, however
\* late it runs and whatever main does by then, and is freed once it has; the
\* block of a thread that could not be created is never freed.
BlocksOwned == \A t \in Threads : block[t] = BlockOf[st[t]]

\* No thread uses a parameter block or the system state when it is not
\* allocated, up to the end of the conference: from there on main frees the
\* system state under running workers.
AccessesValid == badAccess => stage \in {"freed", "exited"}

\* Whichever threads could be created, no two workers report in the same entry
\* of the system state, none outside the array.
OneWriter ==
  \A t \in Workers : entry[t] # NoEntry =>
    /\ entry[t] \in 0..(AllWorkers - 1)
    /\ \A s \in Workers \ {t} : entry[s] # entry[t]

\* An entry is the one of the worker's id.
EntryOwn == \A t \in Workers : entry[t] \in {NoEntry, WorkerId(t)}

\* The inductive invariant.
IInv == TypeOK /\ BlocksOwned /\ AccessesValid /\ EntryOwn

\* A worker that never waits works on q.
Polled(q) ==
  \E t \in Busy \cap Workers :
    st[t] = "loop" /\ t[1] # "recv" /\ q \in Inputs(t) \cup Outputs(t)

Quiet(q, n) == stage = "sleep" /\ Polled(q) /\ len[q] = n
Shows(q, n) == shown[QueueId(q)] = n

\* Two threads copy the length of a queue, in two steps each, so an old value
\* can overwrite a newer one; but once the length stays what it is, the
\* system state shows it for good.
ShownSettles ==
  \A q \in Queues : \A n \in Lengths : <>[]Quiet(q, n) => <>[]Shows(q, n)

\* A thread holds a value exactly in the middle of a probe it is making.
ProbeHolds ==
  \A t \in Workers : reg[t] # NoValue => pc[t] = "probe" /\ at[t] \in DOMAIN Watched(t)

\* The system state shows the length of q, and nobody is about to write another.
Fresh(q) ==
  /\ Shows(q, len[q])
  /\ \A t \in Workers :
       reg[t] # NoValue /\ Watched(t)[at[t]] = q => reg[t] = len[q]

\* Whatever the unlocked probes of all workers do, on this queue and on others,
\* what the system state shows right it goes on showing right until the length
\* itself changes.
RightStays ==
  [][\A q \in Queues : Fresh(q) /\ len'[q] = len[q] => Fresh(q)']_vars
=============================================================================
