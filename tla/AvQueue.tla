------------------------------ MODULE AvQueue ------------------------------
(***************************************************************************)
(* One node queue of libavscheme/manage_queue.c: the linked list with its  *)
(* header and tail pointers, the length in q_info and the mutex.  The four *)
(* queue families (received packets, decoded frames, mixed frames, encoded *)
(* packets) are the same code over different node types; the receiving     *)
(* family is the one translated here.                                      *)
(*                                                                         *)
(* A call is a run of small steps: take the mutex, one step per            *)
(* assignment another thread could see half done, give the mutex back.     *)
(* `contents' is a history variable, the list the pointers are meant to    *)
(* represent; no step of a thread reads it.                                *)
(***************************************************************************)
EXTENDS Naturals, Sequences

CONSTANTS
  Threads,  \* the threads that share the queue
  Nodes,    \* the addresses malloc can return for a node
  NULL,     \* the null pointer
  Limit     \* MAX_AV_PACKET_NUM

ASSUME NullAssumption == NULL \notin Nodes /\ NULL \notin Threads
ASSUME LimitAssumption == Limit \in Nat

VARIABLES
  mutex,     \* the thread that holds q->mutex, or NULL
  header,    \* q->header
  tail,      \* q->tail
  length,    \* q->q_info.length
  next,      \* the next field of every node in memory
  allocated, \* the nodes malloc has handed out and nobody has freed
  pc,        \* per thread: where it is in a call, "idle" outside
  node,      \* per thread: the node it is about to insert
  got,       \* per thread: the node its last removal returned
  full,      \* per thread: the answer of its last limit check
  contents   \* history: the nodes in the queue, oldest first

vars == <<mutex, header, tail, length, next, allocated,
          pc, node, got, full, contents>>

InsertLabels == {"ins_lock", "ins_link", "ins_tail", "ins_length", "ins_unlock"}
RemoveLabels == {"rem_lock", "rem_take", "rem_length", "rem_unlink", "rem_unlock"}
CheckLabels == {"chk_lock", "chk_read", "chk_unlock"}
Labels == {"idle"} \cup InsertLabels \cup RemoveLabels \cup CheckLabels

Goto(t, from, to) == pc[t] = from /\ pc' = [pc EXCEPT ![t] = to]

Init ==
  /\ mutex = NULL
  /\ header = NULL
  /\ tail = NULL
  /\ length = 0
  /\ next \in [Nodes -> {NULL}]
  /\ allocated = {}
  /\ pc = [t \in Threads |-> "idle"]
  /\ node = [t \in Threads |-> NULL]
  /\ got = [t \in Threads |-> NULL]
  /\ full = [t \in Threads |-> FALSE]
  /\ contents = <<>>

-----------------------------------------------------------------------------
(* What the callers do between calls.                                      *)

\* A worker allocates a node and clears it before it inserts it.
MallocNode(t) ==
  /\ pc[t] = "idle"
  /\ node[t] = NULL
  /\ \E n \in Nodes \ allocated :
       /\ node' = [node EXCEPT ![t] = n]
       /\ next' = [next EXCEPT ![n] = NULL]
       /\ allocated' = allocated \cup {n}
  /\ UNCHANGED <<mutex, header, tail, length, pc, got, full, contents>>

\* A worker frees a node it has taken out.
FreeNode(t) ==
  /\ pc[t] = "idle"
  /\ got[t] # NULL
  /\ allocated' = allocated \ {got[t]}
  /\ got' = [got EXCEPT ![t] = NULL]
  /\ UNCHANGED <<mutex, header, tail, length, next, pc, node, full, contents>>

\* Workers call Insert with a fresh node, Remove with a cleared pointer.
Call(t) ==
  /\ \/ node[t] # NULL /\ Goto(t, "idle", "ins_lock")
     \/ got[t] = NULL /\ Goto(t, "idle", "rem_lock")
     \/ Goto(t, "idle", "chk_lock")
  /\ UNCHANGED <<mutex, header, tail, length, next, allocated,
                 node, got, full, contents>>

-----------------------------------------------------------------------------
(* pthread_mutex_lock and pthread_mutex_unlock.                            *)

LockMutex(t) == mutex = NULL /\ mutex' = t

UnlockMutex == mutex' = NULL

-----------------------------------------------------------------------------
(* Insert_recv_av_packet_queue(q, n)                                       *)

InsertLock(t) ==
  /\ Goto(t, "ins_lock", "ins_link")
  /\ LockMutex(t)
  /\ UNCHANGED <<header, tail, length, next, allocated,
                 node, got, full, contents>>

\* The new node becomes the header, or is chained to the tail node.
InsertLink(t) ==
  /\ Goto(t, "ins_link", "ins_tail")
  /\ \/ /\ header = NULL
        /\ header' = node[t]
        /\ UNCHANGED next
     \/ /\ header # NULL
        /\ next' = [next EXCEPT ![node[t]] = NULL, ![tail] = node[t]]
        /\ UNCHANGED header
  /\ contents' = Append(contents, node[t])
  /\ UNCHANGED <<mutex, tail, length, allocated, node, got, full>>

InsertTail_Forgotten(t) ==
  /\ Goto(t, "ins_tail", "ins_length")
  /\ tail' = IF tail = NULL THEN node[t] ELSE tail
  /\ UNCHANGED <<mutex, header, length, next, allocated,
                 node, got, full, contents>>

InsertTail(t) ==
  /\ Goto(t, "ins_tail", "ins_length")
  /\ tail' = node[t]
  /\ UNCHANGED <<mutex, header, length, next, allocated,
                 node, got, full, contents>>

InsertLength(t) ==
  /\ Goto(t, "ins_length", "ins_unlock")
  /\ length' = length + 1
  /\ UNCHANGED <<mutex, header, tail, next, allocated,
                 node, got, full, contents>>

\* The caller keeps its pointer.
InsertUnlock_KeepsPointer(t) ==
  /\ Goto(t, "ins_unlock", "idle")
  /\ UnlockMutex
  /\ UNCHANGED <<header, tail, length, next, allocated, node, got, full, contents>>

\* The caller forgets its pointer: the node now belongs to the queue.
InsertUnlock(t) ==
  /\ Goto(t, "ins_unlock", "idle")
  /\ UnlockMutex
  /\ node' = [node EXCEPT ![t] = NULL]
  /\ UNCHANGED <<header, tail, length, next, allocated, got, full, contents>>

-----------------------------------------------------------------------------
(* Remove_recv_av_packet_queue(q, &n)                                      *)

RemoveLock(t) ==
  /\ Goto(t, "rem_lock", "rem_take")
  /\ LockMutex(t)
  /\ UNCHANGED <<header, tail, length, next, allocated,
                 node, got, full, contents>>

\* The early return of an empty queue, without the unlock.
RemoveTake_KeepsLock(t) ==
  /\ \/ /\ header = NULL
        /\ Goto(t, "rem_take", "idle")
        /\ UNCHANGED got
     \/ /\ header # NULL
        /\ Goto(t, "rem_take", "rem_length")
        /\ got' = [got EXCEPT ![t] = header]
  /\ UNCHANGED <<mutex, header, tail, length, next, allocated,
                 node, full, contents>>

\* The test for an empty queue left out.
RemoveTake_Always(t) ==
  /\ Goto(t, "rem_take", "rem_length")
  /\ got' = [got EXCEPT ![t] = header]
  /\ UNCHANGED <<mutex, header, tail, length, next, allocated,
                 node, full, contents>>

RemoveTake(t) ==
  /\ \/ /\ header = NULL
        /\ Goto(t, "rem_take", "rem_unlock")
        /\ UNCHANGED got
     \/ /\ header # NULL
        /\ Goto(t, "rem_take", "rem_length")
        /\ got' = [got EXCEPT ![t] = header]
  /\ UNCHANGED <<mutex, header, tail, length, next, allocated,
                 node, full, contents>>

RemoveLength(t) ==
  /\ Goto(t, "rem_length", "rem_unlink")
  /\ length' = length - 1
  /\ UNCHANGED <<mutex, header, tail, next, allocated,
                 node, got, full, contents>>

\* A last node that leaves only the header reset.
RemoveUnlink_TailStays(t) ==
  /\ Goto(t, "rem_unlink", "rem_unlock")
  /\ header' = IF tail = header THEN NULL ELSE next[header]
  /\ contents' = Tail(contents)
  /\ UNCHANGED <<mutex, tail, length, next, allocated, node, got, full>>

RemoveUnlink(t) ==
  /\ Goto(t, "rem_unlink", "rem_unlock")
  /\ \/ /\ tail = header
        /\ header' = NULL
        /\ tail' = NULL
     \/ /\ tail # header
        /\ header' = next[header]
        /\ UNCHANGED tail
  /\ contents' = Tail(contents)
  /\ UNCHANGED <<mutex, length, next, allocated, node, got, full>>

RemoveUnlock(t) ==
  /\ Goto(t, "rem_unlock", "idle")
  /\ UnlockMutex
  /\ UNCHANGED <<header, tail, length, next, allocated,
                 node, got, full, contents>>

-----------------------------------------------------------------------------
(* Check_recv_av_packet_queue_limit(q)                                     *)

CheckLock(t) ==
  /\ Goto(t, "chk_lock", "chk_read")
  /\ LockMutex(t)
  /\ UNCHANGED <<header, tail, length, next, allocated,
                 node, got, full, contents>>

CheckRead(t) ==
  /\ Goto(t, "chk_read", "chk_unlock")
  /\ full' = [full EXCEPT ![t] = Limit <= length]
  /\ UNCHANGED <<mutex, header, tail, length, next, allocated,
                 node, got, contents>>

CheckUnlock(t) ==
  /\ Goto(t, "chk_unlock", "idle")
  /\ UnlockMutex
  /\ UNCHANGED <<header, tail, length, next, allocated,
                 node, got, full, contents>>

-----------------------------------------------------------------------------
\* The steps a thread takes on its own once it has entered a call.
InsertStep(t) ==
  \/ InsertLock(t) \/ InsertLink(t) \/ InsertTail(t)
  \/ InsertLength(t) \/ InsertUnlock(t)

RemoveStep(t) ==
  \/ RemoveLock(t) \/ RemoveTake(t) \/ RemoveLength(t)
  \/ RemoveUnlink(t) \/ RemoveUnlock(t)

CheckStep(t) == CheckLock(t) \/ CheckRead(t) \/ CheckUnlock(t)

Step(t) == InsertStep(t) \/ RemoveStep(t) \/ CheckStep(t)

Next == \E t \in Threads : MallocNode(t) \/ FreeNode(t) \/ Call(t) \/ Step(t)

Spec == Init /\ [][Next]_vars

\* A thread that has entered a call keeps running whenever it can; nothing
\* makes it start a new call.
FairSpec == Spec /\ \A t \in Threads : WF_vars(Step(t))

-----------------------------------------------------------------------------
(* Properties.                                                             *)

\* Every variable keeps its type; in particular the length field, a count
\* that Remove decrements, never goes below zero.
TypeOK ==
  /\ mutex \in Threads \cup {NULL}
  /\ header \in Nodes \cup {NULL}
  /\ tail \in Nodes \cup {NULL}
  /\ length \in Nat
  /\ next \in [Nodes -> Nodes \cup {NULL}]
  /\ allocated \in SUBSET Nodes
  /\ pc \in [Threads -> Labels]
  /\ node \in [Threads -> Nodes \cup {NULL}]
  /\ got \in [Threads -> Nodes \cup {NULL}]
  /\ full \in [Threads -> BOOLEAN]
  /\ contents \in Seq(Nodes)

Unlocked == {"idle", "ins_lock", "rem_lock", "chk_lock"}

\* The mutex is held exactly by the thread that is between its lock and its
\* unlock, on every path through the three functions, the early return of an
\* empty queue included; so at most one thread is there.
MutexHeld == \A t \in Threads : pc[t] \notin Unlocked <=> mutex = t

\* The nodes a thread owns alone.  The node it inserts is the queue's once
\* linked, and the node it removes is the queue's until unlinked.
Offered(t) ==
  IF pc[t] \in {"ins_tail", "ins_length", "ins_unlock"} THEN NULL ELSE node[t]
Taken(t) ==
  IF pc[t] \in {"rem_length", "rem_unlink"} THEN NULL ELSE got[t]
Owned(t) == {Offered(t), Taken(t)} \ {NULL}

InQueue(n) == \E i \in 1..Len(contents) : contents[i] = n

\* Every allocated node has exactly one owner: it is at one place of the
\* queue, or in one pointer of one thread.  So no thread frees a node that
\* the list still reaches, two removers never get the same node, and none is
\* lost.
NodeOwnership ==
  /\ \A n \in Nodes :
       n \in allocated <=> InQueue(n) \/ \E t \in Threads : n \in Owned(t)
  /\ \A i, j \in 1..Len(contents) : contents[i] = contents[j] => i = j
  /\ \A t \in Threads : \A n \in Owned(t) : ~InQueue(n)
  /\ \A t, u \in Threads : t # u => Owned(t) \cap Owned(u) = {}
  /\ \A t \in Threads : Offered(t) # NULL => Offered(t) # Taken(t)

\* The length field lags the list by one between the link of an insertion
\* and its count, and between the count of a removal and its unlink.
Lag(t) == pc[t] \in {"ins_tail", "ins_length", "rem_unlink"}

\* The pointers represent the list: header and tail are its ends, the next
\* fields chain it, the length counts it, and what a half-done call has in
\* hand is the end of the list it works on.  An unlocked reader of q_info
\* (every monitor probe) therefore sees a length at most one too small.
ListShape ==
  /\ header = IF contents = <<>> THEN NULL ELSE contents[1]
  /\ \/ tail = IF contents = <<>> THEN NULL ELSE contents[Len(contents)]
     \/ \E t \in Threads : pc[t] = "ins_tail"
  /\ \A i \in 1..Len(contents) : i < Len(contents) => next[contents[i]] = contents[i+1]
  /\ Len(contents) = length + (IF \E t \in Threads : Lag(t) THEN 1 ELSE 0)
  /\ \A t \in Threads :
       pc[t] \in {"ins_tail", "ins_length"} =>
         contents # <<>> /\ node[t] = contents[Len(contents)]
  /\ \A t \in Threads :
       pc[t] \in {"rem_length", "rem_unlink"} =>
         contents # <<>> /\ got[t] = contents[1]

\* What the callers guarantee while a call is running.
CallerContract ==
  \A t \in Threads :
    /\ pc[t] \in InsertLabels => node[t] # NULL
    /\ pc[t] \in {"rem_lock", "rem_take"} => got[t] = NULL

\* The inductive invariant.
IInv == TypeOK /\ MutexHeld /\ NodeOwnership /\ ListShape /\ CallerContract

\* How far a thread's call is, as Fifo sees it.
AbstractCall(t) ==
  CASE pc[t] = "idle" -> "idle"
    [] pc[t] \in {"ins_lock", "ins_link"} -> "insert"
    [] pc[t] \in {"rem_lock", "rem_take", "rem_length", "rem_unlink"} -> "remove"
    [] pc[t] \in {"chk_lock", "chk_read"} -> "check"
    [] OTHER -> "done"

F == INSTANCE Fifo WITH
       items <- contents,
       call <- [t \in Threads |-> AbstractCall(t)],
       node <- [t \in Threads |-> Offered(t)],
       got <- [t \in Threads |-> Taken(t)]

\* The queue is linearizable: seen through the pointers it returns and the
\* limit answers it gives, every run is a run of the abstract first-in
\* first-out queue.
ImplementsFifo == F!Spec

\* Whoever takes the mutex gives it back: no path through the three
\* functions keeps it.
LockReleased == \A t \in Threads : mutex = t ~> mutex # t
=============================================================================
