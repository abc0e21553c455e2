-------------------------------- MODULE Fifo --------------------------------
(***************************************************************************)
(* What one node queue of libavscheme/manage_queue.c promises to the       *)
(* threads that share it: each of its three operations takes effect at     *)
(* one instant between its call and its return, on a first-in first-out    *)
(* list of nodes.  AvQueue is shown to implement this specification.       *)
(***************************************************************************)
EXTENDS Naturals, Sequences

CONSTANTS
  Threads,  \* the threads that share the queue
  Nodes,    \* the addresses malloc can return for a node
  NULL,     \* the null pointer
  Limit     \* the length at which a check reports the queue full

VARIABLES
  items,    \* the nodes in the queue, oldest first
  call,     \* per thread: the operation it has called, or "done", or "idle"
  node,     \* per thread: the node it has allocated and still owns
  got,      \* per thread: the node it has taken out and not yet freed
  full      \* per thread: the answer of its last limit check

fifoVars == <<items, call, node, got, full>>

\* The nodes somebody can still reach: no new node may be one of them.
InUse ==
  {items[i] : i \in DOMAIN items} \cup {node[t] : t \in Threads}
                                  \cup {got[t] : t \in Threads}

Init ==
  /\ items = <<>>
  /\ call = [t \in Threads |-> "idle"]
  /\ node = [t \in Threads |-> NULL]
  /\ got = [t \in Threads |-> NULL]
  /\ full = [t \in Threads |-> FALSE]

Malloc(t) ==
  /\ call[t] = "idle"
  /\ node[t] = NULL
  /\ \E n \in Nodes \ InUse : node' = [node EXCEPT ![t] = n]
  /\ UNCHANGED <<items, call, got, full>>

Free(t) ==
  /\ call[t] = "idle"
  /\ got[t] # NULL
  /\ got' = [got EXCEPT ![t] = NULL]
  /\ UNCHANGED <<items, call, node, full>>

\* A thread inserts only a node it owns, and takes a node out only into an
\* empty result pointer.
Invoke(t, op) ==
  /\ call[t] = "idle"
  /\ op = "insert" => node[t] # NULL
  /\ op = "remove" => got[t] = NULL
  /\ call' = [call EXCEPT ![t] = op]
  /\ UNCHANGED <<items, node, got, full>>

Insert(t) ==
  /\ call[t] = "insert"
  /\ items' = Append(items, node[t])
  /\ node' = [node EXCEPT ![t] = NULL]
  /\ call' = [call EXCEPT ![t] = "done"]
  /\ UNCHANGED <<got, full>>

Remove(t) ==
  /\ call[t] = "remove"
  /\ items # <<>>
  /\ got' = [got EXCEPT ![t] = Head(items)]
  /\ items' = Tail(items)
  /\ call' = [call EXCEPT ![t] = "done"]
  /\ UNCHANGED <<node, full>>

RemoveNothing(t) ==
  /\ call[t] = "remove"
  /\ items = <<>>
  /\ call' = [call EXCEPT ![t] = "done"]
  /\ UNCHANGED <<items, node, got, full>>

CheckLimit(t) ==
  /\ call[t] = "check"
  /\ full' = [full EXCEPT ![t] = Limit <= Len(items)]
  /\ call' = [call EXCEPT ![t] = "done"]
  /\ UNCHANGED <<items, node, got>>

Return(t) ==
  /\ call[t] = "done"
  /\ call' = [call EXCEPT ![t] = "idle"]
  /\ UNCHANGED <<items, node, got, full>>

Next ==
  \E t \in Threads :
    \/ Malloc(t)
    \/ Free(t)
    \/ \E op \in {"insert", "remove", "check"} : Invoke(t, op)
    \/ Insert(t)
    \/ Remove(t)
    \/ RemoveNothing(t)
    \/ CheckLimit(t)
    \/ Return(t)

Spec == Init /\ [][Next]_fifoVars
=============================================================================
