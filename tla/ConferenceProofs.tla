-------------------------- MODULE ConferenceProofs --------------------------
(***************************************************************************)
(* Proofs about Conference, for any number of clients: the layout of the   *)
(* system state, and that its users keep to it from start to end.          *)
(***************************************************************************)
EXTENDS Conference, TLAPS

-----------------------------------------------------------------------------
(* The layout.                                                             *)

\* Worker ids number the workers: main, the creators of threads and
\* Initialize_system_state_memory count alike, whatever the number of clients.
THEOREM WorkerIds ==
  /\ \A t \in Workers : WorkerId(t) \in 0..(AllWorkers - 1)
  /\ \A s, t \in Workers : s # t => WorkerId(s) # WorkerId(t)
<1> USE ClientAssumption DEF Clients, ThreadNum
<1>1. \A t \in Workers : WorkerId(t) \in 0..(AllWorkers - 1)
  BY SMTT(60) DEF Workers, WorkerId, WorkerBase, AllWorkers
<1>2. \A s, t \in Workers : s # t => WorkerId(s) # WorkerId(t)
  BY SMTT(60) DEF Workers, WorkerId, WorkerBase
<1> QED  BY <1>1, <1>2

\* Queue ids number the queues.
THEOREM QueueIds ==
  /\ \A q \in Queues : QueueId(q) \in 0..(AllQueues - 1)
  /\ \A p, q \in Queues : p # q => QueueId(p) # QueueId(q)
<1> USE ClientAssumption DEF Clients, QueueNum
<1>1. \A q \in Queues : QueueId(q) \in 0..(AllQueues - 1)
  BY SMTT(60) DEF Queues, QueueBase, QueueId, AllQueues
<1>2. \A p, q \in Queues : p # q => QueueId(p) # QueueId(q)
  BY SMTT(60) DEF Queues, QueueBase, QueueId
<1> QED  BY <1>1, <1>2

\* The monitor's packet fits its buffer up to 32 clients and not beyond.
THEOREM PacketFits == PacketSize <= BUFFER_SIZE <=> ClientNum <= 32
BY ClientAssumption, SMT DEF PacketSize, BUFFER_SIZE, AllQueues, AllWorkers,
     QueueNum, ThreadNum

\* Up to 99 clients no two threads of a conference bind one UDP port.
THEOREM PortsApart ==
  ASSUME ClientNum < 100,
         NEW s \in Threads, NEW t \in Threads,
         UsesSocket(s), UsesSocket(t), s # t
  PROVE  Port(s) # Port(t)
BY ClientAssumption, SMTT(60) DEF Threads, Workers, Monitor, Clients, UsesSocket,
     Port, RECV_AV_QUEUE_PORT, MONITOR_SERVER_PORT

\* What a worker copies the length of is a queue.
LEMMA WatchedQueues ==
  ASSUME NEW t \in Workers, NEW i \in DOMAIN Watched(t)
  PROVE  Watched(t)[i] \in Queues
<1> USE ClientAssumption DEF Clients
<1>1. CASE \E c \in Clients : t = <<"recv", c>>
  <2>1. PICK c \in Clients : t = <<"recv", c>>  BY <1>1
  <2>2. Watched(t) = <<t>>  BY <2>1 DEF Watched
  <2> QED  BY <2>1, <2>2 DEF Queues
<1>2. CASE \E c \in Clients : t = <<"dec", c>>
  <2>1. PICK c \in Clients : t = <<"dec", c>>  BY <1>2
  <2>2. Watched(t) = <<<<"recv", c>>, <<"dec", c>>>>  BY <2>1 DEF Watched
  <2> QED  BY <2>1, <2>2 DEF Queues
<1>3. CASE \E k \in 0..(ClientNum - 2) : t = <<"mix", k>>
  <2> DEFINE S == QueuesOf("dec", ClientNum)
  <2>1. Watched(t) = Append(S, <<"mix", 0>>)  BY <1>3 DEF Watched
  <2>2. /\ S = [j \in 1..ClientNum |-> <<"dec", j - 1>>]
        /\ \A j \in 1..ClientNum : S[j] \in Queues
    BY DEF QueuesOf, Queues
  <2>3. <<"mix", 0>> \in Queues  BY DEF Queues
  <2>4. S \in Seq(Queues) /\ Len(S) = ClientNum
    <3> HIDE DEF Queues, S
    <3> QED  BY <2>2
  <2> HIDE DEF S, Queues
  <2>5. Append(S, <<"mix", 0>>) \in Seq(Queues)  BY <2>3, <2>4
  <2> QED  BY <2>1, <2>5
<1>4. CASE t = <<"enc", 0>>
  <2>1. Watched(t) = <<<<"mix", 0>>, <<"enc", 0>>>>  BY <1>4 DEF Watched
  <2> QED  BY <2>1 DEF Queues
<1>5. CASE t = <<"snd", 0>>
  <2>1. Watched(t) = <<<<"enc", 0>>>>  BY <1>5 DEF Watched
  <2> QED  BY <2>1 DEF Queues
<1> QED  BY <1>1, <1>2, <1>3, <1>4, <1>5 DEF Workers

-----------------------------------------------------------------------------
(* The inductive invariant.                                                *)

LEMMA Initially == Init => IInv
<1> SUFFICES ASSUME Init PROVE IInv  OBVIOUS
<1>1. 0 \in Lengths  BY LengthAssumption DEF Lengths
<1>2. TypeOK
  <2>1. /\ entry \in [Workers -> Nat \cup {NoEntry}]
        /\ reg \in [Threads -> Lengths \cup {NoValue}]
    BY DEF Init
  <2>2. /\ len \in [Queues -> Lengths]
        /\ shown \in [0..(AllQueues - 1) -> Lengths]
    BY <1>1 DEF Init
  <2>3. badAccess \in BOOLEAN  BY DEF Init
  <2> QED  BY <2>1, <2>2, <2>3 DEF Init, TypeOK, ThreadStates, Stages
<1>3. BlocksOwned  BY DEF Init, BlocksOwned, BlockOf
<1>4. AccessesValid /\ EntryOwn  BY DEF Init, AccessesValid, EntryOwn
<1> QED  BY <1>2, <1>3, <1>4 DEF IInv

\* Main touches no entry and, but for the blocks it hands out, no thread.
LEMMA MainKeeps == IInv /\ MainStep => IInv'
<1> SUFFICES ASSUME IInv, MainStep PROVE IInv'  OBVIOUS
<1> USE ClientAssumption DEF IInv
<1>1. EntryOwn'
  BY DEF MainStep, CreateThread, CreateFails, GroupStarted, Destory, Exit, EntryOwn,
     WorkerId
<1>2. ASSUME Starting PROVE NextStage[stage] \in Stages
  BY <1>2 DEF Starting, ThreadNum, NextStage, Stages
<1>3. CASE CreateThread
  <2>1. TypeOK'
    <3>1. /\ st' \in [Threads -> ThreadStates]
          /\ block' \in [Threads -> {"none", "allocated", "freed"}]
      BY <1>3 DEF CreateThread, TypeOK, ThreadStates
    <3>2. turn' \in Nat  BY <1>3 DEF CreateThread, TypeOK
    <3> QED  BY <1>3, <3>1, <3>2 DEF CreateThread, TypeOK, loops
  <2>2. BlocksOwned'
    BY <1>3 DEF CreateThread, TypeOK, ThreadStates, BlocksOwned, BlockOf
  <2>3. AccessesValid'  BY <1>3 DEF CreateThread, AccessesValid
  <2> QED  BY <1>1, <2>1, <2>2, <2>3
<1>4. CASE CreateFails
  <2>1. TypeOK'  BY <1>2, <1>4 DEF CreateFails, TypeOK, ThreadStates, loops
  <2>2. BlocksOwned'
    BY <1>4 DEF CreateFails, TypeOK, ThreadStates, BlocksOwned, BlockOf
  <2>3. AccessesValid'
    BY <1>4 DEF CreateFails, AccessesValid, Starting, ThreadNum, NextStage
  <2> QED  BY <1>1, <2>1, <2>2, <2>3
<1>5. CASE GroupStarted
  <2>1. TypeOK'  BY <1>2, <1>5 DEF GroupStarted, TypeOK, loops
  <2>2. BlocksOwned'  BY <1>5 DEF GroupStarted, BlocksOwned
  <2>3. AccessesValid'
    BY <1>5 DEF GroupStarted, AccessesValid, Starting, ThreadNum, NextStage
  <2> QED  BY <1>1, <2>1, <2>2, <2>3
<1>6. CASE Destory \/ Exit
  <2>1. TypeOK'  BY <1>6 DEF Destory, Exit, TypeOK, loops, Stages
  <2>2. BlocksOwned'  BY <1>6 DEF Destory, Exit, BlocksOwned
  <2>3. AccessesValid'  BY <1>6 DEF Destory, Exit, AccessesValid
  <2> QED  BY <1>1, <2>1, <2>2, <2>3
<1> QED  BY <1>3, <1>4, <1>5, <1>6 DEF MainStep

\* A thread that starts finds its block allocated, because it was created and
\* has not started before.
LEMMA StartKeeps ==
  ASSUME NEW t \in Threads, IInv,
         Start(t) \/ Bind(t) \/ SocketFails(t)
  PROVE  IInv'
<1> USE DEF IInv
<1>1. CASE Start(t)
  <2>1. WorkerIds!1  BY WorkerIds
  <2>2. TypeOK'
    <3>1. entry' \in [Workers -> Nat \cup {NoEntry}]
      BY <1>1, <2>1 DEF Start, TypeOK
    <3> QED  BY <1>1, <3>1 DEF Start, TypeOK, ThreadStates, creation, loops
  <2>3. BlocksOwned'  BY <1>1 DEF Start, TypeOK, ThreadStates, BlocksOwned, BlockOf
  <2>4. AccessesValid'
    <3>1. block[t] = "allocated"  BY <1>1 DEF Start, BlocksOwned, BlockOf
    <3>2. badAccess' = (badAccess \/ block[t] # "allocated" \/ Freed)
          /\ stage' = stage
      BY <1>1, Zenon DEF Start, creation
    <3> QED  BY <3>1, <3>2 DEF AccessesValid, Freed
  <2>5. EntryOwn'  BY <1>1 DEF Start, TypeOK, EntryOwn, WorkerId
  <2> QED  BY <2>2, <2>3, <2>4, <2>5
<1>2. CASE Bind(t) \/ SocketFails(t)
  <2> USE DEF Bind, SocketFails
  <2>0. PICK v \in {"loop", "ended"} :
          st[t] = "bind" /\ st' = [st EXCEPT ![t] = v] /\ block' = block
    BY <1>2
  <2>1. TypeOK'
    <3>1. st' \in [Threads -> ThreadStates]  BY <2>0 DEF TypeOK, ThreadStates
    <3> QED  BY <1>2, <3>1 DEF TypeOK, creation, loops
  <2>2. BlocksOwned'  BY <2>0 DEF TypeOK, ThreadStates, BlocksOwned, BlockOf
  <2>3. AccessesValid' /\ EntryOwn'
    BY <1>2 DEF AccessesValid, EntryOwn, creation, WorkerId
  <2> QED  BY <2>1, <2>2, <2>3
<1> QED  BY <1>1, <1>2

\* A loop writes lengths it has read from queues, and touches freed memory only
\* when main has freed it.
LEMMA LoopKeeps ==
  ASSUME NEW t \in Workers, IInv,
         ProbeStep(t) \/ QueueCall(t) \/ NextRound(t)
  PROVE  IInv'
<1> USE DEF IInv
<1>1. t \in Threads  BY DEF Threads
<1>2. UNCHANGED <<creation, st, block, entry>>
  BY DEF ProbeStep, QueueCall, ReadLength, ShowLength, Work, Remove, Insert,
     NextRound
<1>3. BlocksOwned' /\ EntryOwn'  BY <1>2 DEF BlocksOwned, EntryOwn, WorkerId
<1>4. AccessesValid'
  BY <1>2 DEF ProbeStep, QueueCall, ReadLength, ShowLength, Work, Remove, Insert,
     NextRound, AccessesValid, Freed, creation
<1>5. TypeOK'
  <2>1. CASE ReadLength(t)
    <3>1. Watched(t)[at[t]] \in Queues  BY <2>1, WatchedQueues DEF ReadLength
    <3> QED  BY <2>1, <3>1 DEF ReadLength, TypeOK, creation
  <2>2. CASE ShowLength(t)
    <3>1. reg[t] \in Lengths  BY <2>2, <1>1 DEF ShowLength, TypeOK
    <3>2. shown' \in [0..(AllQueues - 1) -> Lengths]
      BY <2>2, <3>1 DEF ShowLength, TypeOK
    <3>3. /\ reg' \in [Threads -> Lengths \cup {NoValue}]
          /\ at' \in [Threads -> Nat]
      <4>1. /\ reg' = [reg EXCEPT ![t] = NoValue]
            /\ at' = [at EXCEPT ![t] = @ + 1]
        BY <2>2 DEF ShowLength
      <4>2. at[t] + 1 \in Nat  BY <1>1 DEF TypeOK
      <4> QED  BY <4>1, <4>2 DEF TypeOK
    <3>4. badAccess' \in BOOLEAN  BY <2>2, Zenon DEF ShowLength
    <3> QED  BY <2>2, <3>2, <3>3, <3>4 DEF ShowLength, TypeOK, creation
  <2>3. CASE Work(t)  BY <2>3 DEF Work, TypeOK, creation
  <2>4. ASSUME NEW q \in Queues, Remove(t, q) \/ Insert(t, q) PROVE TypeOK'
    <3>1. len' \in [Queues -> Lengths]
      <4>1. len \in [Queues -> 0..MaxLength]  BY DEF TypeOK, Lengths
      <4>2. CASE Remove(t, q)
        <5>1. len[q] - 1 \in 0..MaxLength
          BY <2>4, <4>1, <4>2, LengthAssumption DEF Remove
        <5> QED  BY <4>1, <4>2, <5>1 DEF Remove, Lengths
      <4>3. CASE Insert(t, q)
        <5>1. len[q] + 1 \in 0..MaxLength
          BY <2>4, <4>1, <4>3, LengthAssumption DEF Insert
        <5> QED  BY <4>1, <4>3, <5>1 DEF Insert, Lengths
      <4> QED  BY <2>4, <4>2, <4>3
    <3> QED  BY <2>4, <3>1 DEF Remove, Insert, TypeOK, creation, loops
  <2>5. CASE NextRound(t)  BY <2>5 DEF NextRound, TypeOK, creation
  <2> QED  BY <2>1, <2>2, <2>3, <2>4, <2>5 DEF ProbeStep, QueueCall
<1> QED  BY <1>3, <1>4, <1>5

LEMMA AnswerKeeps == IInv /\ Answer => IInv'
BY DEF IInv, Answer, TypeOK, BlocksOwned, AccessesValid, EntryOwn, WorkerId, Freed,
     creation, loops

\* The strengthened invariant holds at every time.
THEOREM Invariance == Spec => []IInv
<1>1. IInv /\ [Next]_vars => IInv'
  <2> SUFFICES ASSUME IInv, [Next]_vars PROVE IInv'  OBVIOUS
  <2>1. CASE UNCHANGED vars
    BY <2>1 DEF vars, IInv, TypeOK, BlocksOwned, AccessesValid, EntryOwn, WorkerId
  <2>2. CASE Next
    BY <2>2, MainKeeps, StartKeeps, LoopKeeps, AnswerKeeps DEF Next
  <2> QED  BY <2>1, <2>2
<1> QED  BY Initially, <1>1, PTL DEF Spec

\* Every variable keeps its type.
THEOREM TypeCorrect == Spec => []TypeOK
BY Invariance, PTL DEF IInv

\* Parameter blocks are handed from main to threads without loss of one that is
\* needed, however the creation of threads fails.
THEOREM BlocksHandedOver == Spec => []BlocksOwned
BY Invariance, PTL DEF IInv

\* Until main frees the system state, every access is to allocated memory.
THEOREM MemoryKept == Spec => []AccessesValid
BY Invariance, PTL DEF IInv

\* No two workers ever report in one entry.
THEOREM EntriesApart == Spec => []OneWriter
<1>1. IInv => OneWriter
  BY WorkerIds DEF IInv, EntryOwn, OneWriter
<1> QED  BY Invariance, <1>1, PTL

-----------------------------------------------------------------------------
(* What the system state shows.                                            *)

\* The probe reads a queue that is there, and writes the value before it goes on.
LEMMA ProbeStarts == Init => ProbeHolds
BY DEF Init, ProbeHolds, Threads

LEMMA ProbeKept == IInv /\ ProbeHolds /\ [Next]_vars => ProbeHolds'
<1> SUFFICES ASSUME IInv, ProbeHolds, [Next]_vars PROVE ProbeHolds'  OBVIOUS
<1>0. /\ pc \in [Threads -> {"probe", "work"}] /\ at \in [Threads -> Nat]
      /\ reg \in [Threads -> Lengths \cup {NoValue}]
      /\ Workers \subseteq Threads
  BY DEF IInv, TypeOK, Threads
<1> HIDE DEF IInv
<1>1. ASSUME UNCHANGED loops PROVE ProbeHolds'
  BY <1>1 DEF ProbeHolds, loops, Watched
<1>2. ASSUME NEW t \in Workers, ProbeStep(t) \/ NextRound(t) PROVE ProbeHolds'
  <2>1. CASE ReadLength(t)
    BY <2>1, <1>0 DEF ReadLength, ProbeHolds, Watched
  <2>2. CASE ShowLength(t)
    BY <2>2, <1>0 DEF ShowLength, ProbeHolds, Watched
  <2>3. CASE Work(t)
    BY <2>3, <1>0 DEF Work, ProbeHolds, Watched
  <2>4. CASE NextRound(t)
    BY <2>4, <1>0 DEF NextRound, ProbeHolds, Watched
  <2> QED  BY <1>2, <2>1, <2>2, <2>3, <2>4 DEF ProbeStep
<1>3. CASE UNCHANGED vars  BY <1>1, <1>3 DEF vars, loops
<1>4. CASE MainStep
  BY <1>1, <1>4 DEF MainStep, CreateThread, CreateFails, GroupStarted, Destory, Exit,
     loops
<1>5. ASSUME NEW t \in Threads, Start(t) \/ Bind(t) \/ SocketFails(t)
      PROVE  ProbeHolds'
  BY <1>1, <1>5 DEF Start, Bind, SocketFails, loops
<1>6. ASSUME NEW t \in Workers, QueueCall(t) PROVE ProbeHolds'
  BY <1>1, <1>6 DEF QueueCall, Remove, Insert, loops
<1>7. CASE Answer  BY <1>1, <1>7 DEF Answer, loops
<1> QED  BY <1>2, <1>3, <1>4, <1>5, <1>6, <1>7 DEF Next

\* One step keeps what is right: a value read is the length, a value written is
\* either the length of this queue or goes to the entry of another.
LEMMA StepFresh ==
  ASSUME IInv, ProbeHolds, [Next]_vars, NEW q \in Queues, Fresh(q), len'[q] = len[q]
  PROVE  Fresh(q)'
<1>0. /\ pc \in [Threads -> {"probe", "work"}] /\ at \in [Threads -> Nat]
      /\ reg \in [Threads -> Lengths \cup {NoValue}]
      /\ shown \in [0..(AllQueues - 1) -> Lengths]
      /\ Workers \subseteq Threads
  BY DEF IInv, TypeOK, Threads
<1>1. ASSUME UNCHANGED <<reg, at, shown>> PROVE Fresh(q)'
  BY <1>1 DEF Fresh, Shows, Watched, QueueId
<1>2. ASSUME NEW t \in Workers, ProbeStep(t) \/ NextRound(t) PROVE Fresh(q)'
  <2>1. CASE ReadLength(t)
    <3>1. /\ reg' = [reg EXCEPT ![t] = len[Watched(t)[at[t]]]]
          /\ UNCHANGED <<at, len, shown>>
      BY <2>1 DEF ReadLength
    <3> QED  BY <3>1, <1>0 DEF Fresh, Shows, Watched, QueueId
  <2>2. CASE ShowLength(t)
    <3> DEFINE p == Watched(t)[at[t]]
    <3>1. /\ reg[t] # NoValue
          /\ shown' = shown \/ shown' = [shown EXCEPT ![QueueId(p)] = reg[t]]
          /\ reg' = [reg EXCEPT ![t] = NoValue]
          /\ at' = [at EXCEPT ![t] = @ + 1]
          /\ len' = len
      BY <2>2 DEF ShowLength
    <3>2. p \in Queues  BY <3>1, WatchedQueues DEF ProbeHolds
    <3>3. p = q => reg[t] = len[q]  BY <3>1 DEF Fresh
    <3>4. /\ QueueId(p) \in 0..(AllQueues - 1) /\ QueueId(q) \in 0..(AllQueues - 1)
          /\ p # q => QueueId(p) # QueueId(q)
      BY <3>2, QueueIds
    <3>5. shown'[QueueId(q)] = len[q]
      <4> HIDE DEF p
      <4>1. shown[QueueId(q)] = len[q]  BY DEF Fresh, Shows
      <4> QED  BY <3>1, <3>3, <3>4, <4>1, <1>0
    <3>6. \A s \in Workers : reg'[s] # NoValue /\ Watched(s)[at'[s]] = q
                             => reg'[s] = len[q]
      BY <3>1, <1>0 DEF Fresh
    <3> QED  BY <3>1, <3>5, <3>6 DEF Fresh, Shows, Watched, QueueId
  <2>3. CASE Work(t)  BY <2>3, <1>1 DEF Work
  <2>4. CASE NextRound(t)
    <3>1. /\ reg[t] = NoValue /\ UNCHANGED <<reg, len, shown>>
          /\ at' = [at EXCEPT ![t] = 1]
      BY <2>4, <1>0 DEF NextRound, ProbeHolds
    <3> QED  BY <3>1, <1>0 DEF Fresh, Shows, Watched, QueueId
  <2> QED  BY <1>2, <2>1, <2>2, <2>3, <2>4 DEF ProbeStep
<1>3. CASE UNCHANGED vars  BY <1>1, <1>3 DEF vars
<1>4. CASE MainStep
  BY <1>1, <1>4 DEF MainStep, CreateThread, CreateFails, GroupStarted, Destory, Exit,
     loops
<1>5. ASSUME NEW t \in Threads, Start(t) \/ Bind(t) \/ SocketFails(t)
      PROVE  Fresh(q)'
  BY <1>1, <1>5 DEF Start, Bind, SocketFails, loops
<1>6. ASSUME NEW t \in Workers, QueueCall(t) PROVE Fresh(q)'
  BY <1>1, <1>6 DEF QueueCall, Remove, Insert, loops
<1>7. CASE Answer  BY <1>1, <1>7 DEF Answer, loops
<1> QED  BY <1>2, <1>3, <1>4, <1>5, <1>6, <1>7 DEF Next

\* No interleaving of probes makes a length that is shown right wrong again,
\* however many clients and mixers there are.
THEOREM ShownRight == Spec => RightStays
<1>1. IInv /\ ProbeHolds /\ [Next]_vars =>
        [\A q \in Queues : Fresh(q) /\ len'[q] = len[q] => Fresh(q)']_vars
  BY StepFresh
<1> QED
  BY <1>1, ProbeStarts, ProbeKept, Invariance, PTL DEF Spec, RightStays
=============================================================================
