--------------------------- MODULE AvQueueProofs ---------------------------
(***************************************************************************)
(* Proofs about AvQueue, for any number of threads, nodes and any limit:   *)
(* the inductive invariant IInv, the safety properties it contains, and    *)
(* the refinement of Fifo.                                                 *)
(***************************************************************************)
EXTENDS AvQueue, SequenceTheorems, TLAPS

\* A thread owns nodes only: the pointers it holds, NULL left out.
LEMMA OwnedAreNodes ==
  ASSUME TypeOK
  PROVE  \A u \in Threads : Owned(u) \in SUBSET Nodes
  BY DEF TypeOK, Owned, Offered, Taken

\* A step that moves no node between owners preserves NodeOwnership.
LEMMA OwnershipFrame ==
  ASSUME NodeOwnership,
         UNCHANGED <<allocated, contents>>,
         \A u \in Threads : Offered(u)' = Offered(u) /\ Taken(u)' = Taken(u)
  PROVE  NodeOwnership'
<1>1. \A u \in Threads : Owned(u)' = Owned(u)
  BY DEF Owned
<1>2. \A n \in Nodes : InQueue(n)' <=> InQueue(n)
  BY DEF InQueue
<1>3. \A u \in Threads : \A n : n \in Owned(u) /\ ~InQueue(n) => ~InQueue(n)'
  BY DEF InQueue
<1> QED
  BY <1>1, <1>2, <1>3 DEF NodeOwnership

\* What the call that is half done has in hand: the last conjuncts of
\* ListShape.
HalfDone ==
  \A u \in Threads :
    /\ pc[u] \in {"ins_tail", "ins_length"} =>
         contents # <<>> /\ node[u] = contents[Len(contents)]
    /\ pc[u] \in {"rem_length", "rem_unlink"} =>
         contents # <<>> /\ got[u] = contents[1]

\* A step that leaves the list alone preserves ListShape when it neither
\* starts nor ends a lag of the length and what half-done calls have in hand
\* stays right.
LEMMA ShapeFrame ==
  ASSUME ListShape, HalfDone',
         UNCHANGED <<header, tail, length, next, contents>>,
         \A u \in Threads : /\ Lag(u)' <=> Lag(u)
                            /\ pc'[u] = "ins_tail" <=> pc[u] = "ins_tail"
  PROVE  ListShape'
<1>1. (\E u \in Threads : Lag(u))' <=> \E u \in Threads : Lag(u)
  OBVIOUS
<1>2. (\E u \in Threads : pc[u] = "ins_tail")'
        <=> \E u \in Threads : pc[u] = "ins_tail"
  OBVIOUS
<1> QED
  BY <1>1, <1>2 DEF ListShape, HalfDone

\* A fresh queue: no list, no thread in a call, nothing allocated.
LEMMA InitIInv == Init => IInv
<1> SUFFICES ASSUME Init PROVE IInv
  OBVIOUS
<1> USE NullAssumption DEF Init
<1>1. TypeOK
  BY EmptySeq DEF TypeOK, Labels
<1>2. MutexHeld
  BY DEF MutexHeld, Unlocked
<1>3. NodeOwnership
  BY DEF NodeOwnership, Owned, Offered, Taken, InQueue
<1>4. ListShape
  BY DEF ListShape, Lag
<1>5. CallerContract
  BY DEF CallerContract, InsertLabels
<1> QED
  BY <1>1, <1>2, <1>3, <1>4, <1>5 DEF IInv

\* Every step of every thread preserves the inductive invariant.
LEMMA StepIInv ==
  ASSUME IInv, NEW t \in Threads,
         MallocNode(t) \/ FreeNode(t) \/ Call(t) \/ Step(t)
  PROVE  IInv'
<1> USE DEF IInv
<1>1. ASSUME MallocNode(t) PROVE IInv'
  <2> USE <1>1, NullAssumption DEF MallocNode, Goto
  <2>1. TypeOK'
    BY DEF TypeOK, ListShape, MutexHeld, Labels, InsertLabels,
       RemoveLabels, CheckLabels, Unlocked, Lag
  <2>2. MutexHeld'
    BY DEF TypeOK, MutexHeld, Unlocked, Labels, InsertLabels, RemoveLabels,
       CheckLabels
  <2>3. NodeOwnership'
    <3>1. PICK n \in Nodes \ allocated : /\ node' = [node EXCEPT ![t] = n]
                                        /\ allocated' = allocated \cup {n}
      OBVIOUS
    <3>2. ~InQueue(n) /\ \A u \in Threads : n \notin Owned(u)
      BY <3>1 DEF NodeOwnership
    <3>3. \A u \in Threads :
            Owned(u)' = IF u = t THEN Owned(u) \cup {n} ELSE Owned(u)
      BY <3>1 DEF TypeOK, Owned, Offered, Taken
    <3>4. \A m \in Nodes : InQueue(m)' <=> InQueue(m)
      BY DEF InQueue
    <3>5. (Offered(t) # NULL => Offered(t) # Taken(t))'
      BY <3>1, <3>2 DEF TypeOK, Owned, Offered, Taken
    <3>6. \A u \in Threads :
            u # t => Offered(u)' = Offered(u) /\ Taken(u)' = Taken(u)
      BY <3>1 DEF TypeOK, Offered, Taken
    <3> QED
      BY <3>1, <3>2, <3>3, <3>4, <3>5, <3>6, OwnedAreNodes DEF NodeOwnership
  <2>4. ListShape'
    BY DEF TypeOK, MutexHeld, Unlocked, NodeOwnership, ListShape,
       CallerContract, InsertLabels, Offered, Taken, Owned, InQueue, Lag
  <2>5. CallerContract'
    BY DEF TypeOK, CallerContract, Labels, InsertLabels, RemoveLabels,
       CheckLabels
  <2> QED
    BY <2>1, <2>2, <2>3, <2>4, <2>5 DEF IInv
<1>2. ASSUME FreeNode(t) PROVE IInv'
  <2> USE <1>2, NullAssumption DEF FreeNode, Goto
  <2>1. TypeOK'
    BY DEF TypeOK, ListShape, MutexHeld, Labels, InsertLabels,
       RemoveLabels, CheckLabels, Unlocked, Lag
  <2>2. MutexHeld'
    BY DEF TypeOK, MutexHeld, Unlocked, Labels, InsertLabels, RemoveLabels,
       CheckLabels
  <2>3. NodeOwnership'
    <3>1. got[t] \in Owned(t) /\ Taken(t) = got[t]
      BY DEF Owned, Taken
    <3>2. \A u \in Threads :
            Owned(u)' = IF u = t THEN Owned(u) \ {got[t]} ELSE Owned(u)
      BY <3>1 DEF TypeOK, NodeOwnership, Owned, Offered, Taken
    <3>3. \A u \in Threads : /\ Offered(u)' = Offered(u)
                             /\ Taken(u)' = NULL \/ Taken(u)' = Taken(u)
      BY DEF TypeOK, Offered, Taken
    <3>4. \A m \in Nodes : InQueue(m)' <=> InQueue(m)
      BY DEF InQueue
    <3> QED
      BY <3>1, <3>2, <3>3, <3>4, OwnedAreNodes DEF NodeOwnership
  <2>4. ListShape'
    <3>1. \A u \in Threads : /\ Lag(u)' <=> Lag(u)
                             /\ pc'[u] = "ins_tail" <=> pc[u] = "ins_tail"
      BY DEF TypeOK, Lag
    <3>2. HalfDone'
      BY DEF TypeOK, ListShape, HalfDone
    <3> QED
      BY <3>1, <3>2, ShapeFrame
  <2>5. CallerContract'
    BY DEF TypeOK, CallerContract, Labels, InsertLabels, RemoveLabels,
       CheckLabels
  <2> QED
    BY <2>1, <2>2, <2>3, <2>4, <2>5 DEF IInv
<1>3. ASSUME Call(t) PROVE IInv'
  <2> USE <1>3, NullAssumption DEF Call, Goto
  <2>1. TypeOK'
    BY DEF TypeOK, ListShape, MutexHeld, Labels, InsertLabels,
       RemoveLabels, CheckLabels, Unlocked, Lag
  <2>2. MutexHeld'
    BY DEF TypeOK, MutexHeld, Unlocked, Labels, InsertLabels, RemoveLabels,
       CheckLabels
  <2>3. NodeOwnership'
    <3>1. \A u \in Threads : Offered(u)' = Offered(u) /\ Taken(u)' = Taken(u)
      BY DEF TypeOK, ListShape, CallerContract, Offered, Taken
    <3> QED
      BY <3>1, OwnershipFrame
  <2>4. ListShape'
    <3>1. \A u \in Threads : /\ Lag(u)' <=> Lag(u)
                             /\ pc'[u] = "ins_tail" <=> pc[u] = "ins_tail"
      BY DEF TypeOK, Lag
    <3>2. HalfDone'
      BY DEF TypeOK, ListShape, HalfDone
    <3> QED
      BY <3>1, <3>2, ShapeFrame
  <2>5. CallerContract'
    BY DEF TypeOK, CallerContract, Labels, InsertLabels, RemoveLabels,
       CheckLabels
  <2> QED
    BY <2>1, <2>2, <2>3, <2>4, <2>5 DEF IInv
<1>4. ASSUME InsertLock(t) PROVE IInv'
  <2> USE <1>4, NullAssumption DEF InsertLock, Goto, LockMutex
  <2>1. TypeOK'
    BY DEF TypeOK, ListShape, MutexHeld, Labels, InsertLabels,
       RemoveLabels, CheckLabels, Unlocked, Lag
  <2>2. MutexHeld'
    BY DEF TypeOK, MutexHeld, Unlocked, Labels, InsertLabels, RemoveLabels,
       CheckLabels
  <2>3. NodeOwnership'
    <3>1. \A u \in Threads : Offered(u)' = Offered(u) /\ Taken(u)' = Taken(u)
      BY DEF TypeOK, ListShape, CallerContract, Offered, Taken
    <3> QED
      BY <3>1, OwnershipFrame
  <2>4. ListShape'
    <3>1. \A u \in Threads : /\ Lag(u)' <=> Lag(u)
                             /\ pc'[u] = "ins_tail" <=> pc[u] = "ins_tail"
      BY DEF TypeOK, Lag
    <3>2. HalfDone'
      BY DEF TypeOK, ListShape, HalfDone
    <3> QED
      BY <3>1, <3>2, ShapeFrame
  <2>5. CallerContract'
    BY DEF TypeOK, CallerContract, Labels, InsertLabels, RemoveLabels,
       CheckLabels
  <2> QED
    BY <2>1, <2>2, <2>3, <2>4, <2>5 DEF IInv
<1>5. ASSUME InsertLink(t) PROVE IInv'
  <2> USE <1>5, NullAssumption DEF InsertLink, Goto
  <2>1. TypeOK'
    <3>1. node[t] \in Nodes
      BY DEF TypeOK, CallerContract, InsertLabels
    <3>2. contents' \in Seq(Nodes)
      BY <3>1, AppendProperties DEF TypeOK
    <3> QED
      BY <3>1, <3>2 DEF TypeOK, ListShape, Labels, InsertLabels
  <2>2. MutexHeld'
    BY DEF TypeOK, MutexHeld, Unlocked, Labels, InsertLabels, RemoveLabels,
       CheckLabels
  <2>3. NodeOwnership'
    <3>1. node[t] \in Owned(t) /\ Offered(t) = node[t]
      BY DEF CallerContract, InsertLabels, Owned, Offered
    <3>2. \A u \in Threads :
            Owned(u)' = IF u = t THEN Owned(u) \ {node[t]} ELSE Owned(u)
      BY <3>1 DEF TypeOK, NodeOwnership, Owned, Offered, Taken
    <3>3. \A u \in Threads : /\ Offered(u)' = NULL \/ Offered(u)' = Offered(u)
                             /\ Taken(u)' = Taken(u)
      BY DEF TypeOK, Offered, Taken
    <3>4. /\ Len(contents') = Len(contents) + 1
          /\ \A i \in 1..Len(contents) : contents'[i] = contents[i]
          /\ contents'[Len(contents) + 1] = node[t]
      BY <3>1, OwnedAreNodes, AppendProperties DEF TypeOK
    <3>5. Len(contents) \in Nat
      BY DEF TypeOK
    <3>6. \A m \in Nodes : InQueue(m)' <=> InQueue(m) \/ m = node[t]
      BY <3>4, <3>5 DEF InQueue
    <3>7. (\A i, j \in 1..Len(contents) : contents[i] = contents[j] => i = j)'
      BY <3>1, <3>4, <3>5 DEF NodeOwnership, InQueue
    <3> QED
      BY <3>1, <3>2, <3>3, <3>6, <3>7, OwnedAreNodes DEF NodeOwnership
  <2>4. ListShape'
    <3>1. /\ node[t] # NULL
          /\ ~InQueue(node[t])
      BY DEF NodeOwnership, CallerContract, InsertLabels, Owned, Offered
    <3>2. /\ contents' \in Seq(Nodes) /\ contents' # <<>>
          /\ Len(contents) \in Nat
          /\ Len(contents') = Len(contents) + 1
          /\ \A i \in 1..Len(contents) : contents'[i] = contents[i]
          /\ contents'[Len(contents) + 1] = node[t]
      BY <3>1, AppendProperties DEF TypeOK
    <3>3. \A u \in Threads : u # t => pc[u] \in Unlocked /\ pc'[u] = pc[u]
      BY SMTT(60) DEF TypeOK, MutexHeld, Unlocked
    <3>4. tail = IF contents = <<>> THEN NULL ELSE contents[Len(contents)]
      BY <3>3 DEF ListShape, Unlocked
    <3>5. contents = <<>> <=> Len(contents) = 0
      BY EmptySeq DEF TypeOK
    <3>6. (header = IF contents = <<>> THEN NULL ELSE contents[1])'
      <4>1. CASE header = NULL
        <5>1. contents = <<>>
          BY <3>5, <4>1, ElementOfSeq DEF TypeOK, ListShape
        <5> QED BY <3>2, <3>5, <4>1, <5>1
      <4>2. CASE header # NULL
        BY <3>2, <3>5, <4>2 DEF ListShape
      <4> QED BY <4>1, <4>2
    <3>7. (\A i \in 1..Len(contents) :
             i < Len(contents) => next[contents[i]] = contents[i + 1])'
      <4> SUFFICES ASSUME NEW i \in 1..Len(contents)
                   PROVE  next'[contents'[i]] = contents'[i + 1]
        BY <3>2
      <4>1. /\ header # NULL
            /\ tail = contents[Len(contents)]
            /\ contents[i] \in Nodes
        BY <3>2, <3>4, <3>5, ElementOfSeq DEF TypeOK, ListShape
      <4>2. contents[i] # node[t]
        BY <3>1 DEF InQueue
      <4>3. CASE i = Len(contents)
        BY <3>1, <3>2, <4>1, <4>2, <4>3 DEF TypeOK
      <4>4. CASE i # Len(contents)
        <5>1. contents[i] # tail
          BY <3>2, <4>1, <4>4 DEF NodeOwnership
        <5> QED
          BY <3>2, <4>1, <4>2, <4>4, <5>1 DEF TypeOK, ListShape
      <4> QED BY <4>3, <4>4
    <3>8. (Len(contents) =
             length + (IF \E u \in Threads : Lag(u) THEN 1 ELSE 0))'
      BY <3>2, <3>3 DEF TypeOK, ListShape, Lag, Unlocked
    <3> QED
      BY <3>2, <3>3, <3>6, <3>7, <3>8 DEF TypeOK, ListShape, Unlocked
  <2>5. CallerContract'
    BY DEF TypeOK, CallerContract, Labels, InsertLabels, RemoveLabels,
       CheckLabels
  <2> QED
    BY <2>1, <2>2, <2>3, <2>4, <2>5 DEF IInv
<1>6. ASSUME InsertTail(t) PROVE IInv'
  <2> USE <1>6, NullAssumption DEF InsertTail, Goto
  <2>1. TypeOK'
    BY DEF TypeOK, ListShape, MutexHeld, Labels, InsertLabels,
       RemoveLabels, CheckLabels, Unlocked, Lag
  <2>2. MutexHeld'
    BY DEF TypeOK, MutexHeld, Unlocked, Labels, InsertLabels, RemoveLabels,
       CheckLabels
  <2>3. NodeOwnership'
    <3>1. \A u \in Threads : Offered(u)' = Offered(u) /\ Taken(u)' = Taken(u)
      BY DEF TypeOK, ListShape, CallerContract, Offered, Taken
    <3> QED
      BY <3>1, OwnershipFrame
  <2>4. ListShape'
    BY DEF TypeOK, MutexHeld, Unlocked, ListShape, CallerContract,
       InsertLabels, Lag
  <2>5. CallerContract'
    BY DEF TypeOK, CallerContract, Labels, InsertLabels, RemoveLabels,
       CheckLabels
  <2> QED
    BY <2>1, <2>2, <2>3, <2>4, <2>5 DEF IInv
<1>7. ASSUME InsertLength(t) PROVE IInv'
  <2> USE <1>7, NullAssumption DEF InsertLength, Goto
  <2>1. TypeOK'
    BY DEF TypeOK, ListShape, MutexHeld, Labels, InsertLabels,
       RemoveLabels, CheckLabels, Unlocked, Lag
  <2>2. MutexHeld'
    BY DEF TypeOK, MutexHeld, Unlocked, Labels, InsertLabels, RemoveLabels,
       CheckLabels
  <2>3. NodeOwnership'
    <3>1. \A u \in Threads : Offered(u)' = Offered(u) /\ Taken(u)' = Taken(u)
      BY DEF TypeOK, ListShape, CallerContract, Offered, Taken
    <3> QED
      BY <3>1, OwnershipFrame
  <2>4. ListShape'
    <3>1. \A u \in Threads : u # t => pc[u] \in Unlocked
      BY DEF MutexHeld, TypeOK, Unlocked
    <3>2. Len(contents) = length + 1 /\ length \in Nat
      BY DEF ListShape, Lag, TypeOK
    <3>3. ~\E u \in Threads : Lag(u)'
      BY <3>1 DEF Lag, TypeOK, Unlocked
    <3>4. Len(contents') = length'
      BY <3>2
    <3> QED
      BY <3>1, <3>3, <3>4 DEF TypeOK, ListShape, Unlocked
  <2>5. CallerContract'
    BY DEF TypeOK, CallerContract, Labels, InsertLabels, RemoveLabels,
       CheckLabels
  <2> QED
    BY <2>1, <2>2, <2>3, <2>4, <2>5 DEF IInv
<1>8. ASSUME InsertUnlock(t) PROVE IInv'
  <2> USE <1>8, NullAssumption DEF InsertUnlock, Goto, UnlockMutex
  <2>1. TypeOK'
    BY DEF TypeOK, ListShape, MutexHeld, Labels, InsertLabels,
       RemoveLabels, CheckLabels, Unlocked, Lag
  <2>2. MutexHeld'
    BY DEF TypeOK, MutexHeld, Unlocked, Labels, InsertLabels, RemoveLabels,
       CheckLabels
  <2>3. NodeOwnership'
    <3>1. \A u \in Threads : Offered(u)' = Offered(u) /\ Taken(u)' = Taken(u)
      BY DEF TypeOK, ListShape, CallerContract, Offered, Taken
    <3> QED
      BY <3>1, OwnershipFrame
  <2>4. ListShape'
    <3>1. \A u \in Threads : /\ Lag(u)' <=> Lag(u)
                             /\ pc'[u] = "ins_tail" <=> pc[u] = "ins_tail"
      BY DEF TypeOK, Lag
    <3>2. HalfDone'
      BY DEF TypeOK, ListShape, HalfDone
    <3> QED
      BY <3>1, <3>2, ShapeFrame
  <2>5. CallerContract'
    BY DEF TypeOK, CallerContract, Labels, InsertLabels, RemoveLabels,
       CheckLabels
  <2> QED
    BY <2>1, <2>2, <2>3, <2>4, <2>5 DEF IInv
<1>9. ASSUME RemoveLock(t) PROVE IInv'
  <2> USE <1>9, NullAssumption DEF RemoveLock, Goto, LockMutex
  <2>1. TypeOK'
    BY DEF TypeOK, ListShape, MutexHeld, Labels, InsertLabels,
       RemoveLabels, CheckLabels, Unlocked, Lag
  <2>2. MutexHeld'
    BY DEF TypeOK, MutexHeld, Unlocked, Labels, InsertLabels, RemoveLabels,
       CheckLabels
  <2>3. NodeOwnership'
    <3>1. \A u \in Threads : Offered(u)' = Offered(u) /\ Taken(u)' = Taken(u)
      BY DEF TypeOK, ListShape, CallerContract, Offered, Taken
    <3> QED
      BY <3>1, OwnershipFrame
  <2>4. ListShape'
    <3>1. \A u \in Threads : /\ Lag(u)' <=> Lag(u)
                             /\ pc'[u] = "ins_tail" <=> pc[u] = "ins_tail"
      BY DEF TypeOK, Lag
    <3>2. HalfDone'
      BY DEF TypeOK, ListShape, HalfDone
    <3> QED
      BY <3>1, <3>2, ShapeFrame
  <2>5. CallerContract'
    BY DEF TypeOK, CallerContract, Labels, InsertLabels, RemoveLabels,
       CheckLabels
  <2> QED
    BY <2>1, <2>2, <2>3, <2>4, <2>5 DEF IInv
<1>10. ASSUME RemoveTake(t) PROVE IInv'
  <2> USE <1>10, NullAssumption DEF RemoveTake, Goto
  <2>1. TypeOK'
    BY DEF TypeOK, ListShape, MutexHeld, Labels, InsertLabels,
       RemoveLabels, CheckLabels, Unlocked, Lag
  <2>2. MutexHeld'
    BY DEF TypeOK, MutexHeld, Unlocked, Labels, InsertLabels, RemoveLabels,
       CheckLabels
  <2>3. NodeOwnership'
    <3>1. \A u \in Threads : Offered(u)' = Offered(u) /\ Taken(u)' = Taken(u)
      BY DEF TypeOK, ListShape, CallerContract, Offered, Taken
    <3> QED
      BY <3>1, OwnershipFrame
  <2>4. ListShape'
    <3>1. \A u \in Threads : /\ Lag(u)' <=> Lag(u)
                             /\ pc'[u] = "ins_tail" <=> pc[u] = "ins_tail"
      BY DEF TypeOK, Lag
    <3>2. HalfDone'
      BY DEF TypeOK, ListShape, HalfDone
    <3> QED
      BY <3>1, <3>2, ShapeFrame
  <2>5. CallerContract'
    BY DEF TypeOK, CallerContract, Labels, InsertLabels, RemoveLabels,
       CheckLabels
  <2> QED
    BY <2>1, <2>2, <2>3, <2>4, <2>5 DEF IInv
<1>11. ASSUME RemoveLength(t) PROVE IInv'
  <2> USE <1>11, NullAssumption DEF RemoveLength, Goto
  <2>1. TypeOK'
    BY DEF TypeOK, ListShape, MutexHeld, Labels, InsertLabels,
       RemoveLabels, CheckLabels, Unlocked, Lag
  <2>2. MutexHeld'
    BY DEF TypeOK, MutexHeld, Unlocked, Labels, InsertLabels, RemoveLabels,
       CheckLabels
  <2>3. NodeOwnership'
    <3>1. \A u \in Threads : Offered(u)' = Offered(u) /\ Taken(u)' = Taken(u)
      BY DEF TypeOK, ListShape, CallerContract, Offered, Taken
    <3> QED
      BY <3>1, OwnershipFrame
  <2>4. ListShape'
    <3>1. \A u \in Threads : u # t => pc[u] \in Unlocked
      BY DEF MutexHeld, TypeOK, Unlocked
    <3>2. Len(contents) = length /\ length \in Nat
      BY <3>1 DEF ListShape, Lag, Unlocked, TypeOK
    <3>3. Lag(t)'
      BY DEF Lag, TypeOK
    <3>4. Len(contents') = length' + 1
      BY <3>2
    <3> QED
      BY <3>1, <3>3, <3>4 DEF TypeOK, ListShape, Unlocked
  <2>5. CallerContract'
    BY DEF TypeOK, CallerContract, Labels, InsertLabels, RemoveLabels,
       CheckLabels
  <2> QED
    BY <2>1, <2>2, <2>3, <2>4, <2>5 DEF IInv
<1>12. ASSUME RemoveUnlink(t) PROVE IInv'
  <2> USE <1>12, NullAssumption DEF RemoveUnlink, Goto
  <2>1. TypeOK'
    BY DEF TypeOK, ListShape, MutexHeld, Labels, InsertLabels,
       RemoveLabels, CheckLabels, Unlocked, Lag
  <2>2. MutexHeld'
    BY DEF TypeOK, MutexHeld, Unlocked, Labels, InsertLabels, RemoveLabels,
       CheckLabels
  <2>3. NodeOwnership'
    <3>1. contents # <<>> /\ got[t] = contents[1] /\ InQueue(got[t])
      BY DEF TypeOK, ListShape, InQueue
    <3>2. \A u \in Threads :
            Owned(u)' = IF u = t THEN Owned(u) \cup {got[t]} ELSE Owned(u)
      BY <3>1 DEF TypeOK, Owned, Offered, Taken
    <3>3. /\ Len(contents') = Len(contents) - 1
          /\ \A i \in 1..Len(contents') : contents'[i] = contents[i + 1]
      BY <3>1, HeadTailProperties DEF TypeOK
    <3>4. Len(contents) \in Nat /\ Len(contents) > 0
      BY <3>1, EmptySeq DEF TypeOK
    <3>5. (\A i, j \in 1..Len(contents) : contents[i] = contents[j] => i = j)'
      BY <3>3, <3>4 DEF NodeOwnership
    <3>6. \A m : InQueue(m)' <=> InQueue(m) /\ m # got[t]
      <4> SUFFICES ASSUME NEW m PROVE InQueue(m)' <=> InQueue(m) /\ m # got[t]
        OBVIOUS
      <4>1. ASSUME InQueue(m)' PROVE InQueue(m) /\ m # got[t]
        BY <3>1, <3>3, <3>4, <4>1 DEF InQueue, NodeOwnership
      <4>2. ASSUME NEW i \in 1..Len(contents), contents[i] = m, m # got[t]
            PROVE  InQueue(m)'
        <5>1. i - 1 \in 1..Len(contents') /\ contents'[i - 1] = m
          BY <3>1, <3>3, <3>4, <4>2
        <5> QED BY <5>1 DEF InQueue
      <4> QED BY <4>1, <4>2 DEF InQueue
    <3>7. \A u \in Threads : /\ Offered(u)' = Offered(u)
                             /\ Taken(u)' = IF u = t THEN got[t] ELSE Taken(u)
      BY DEF TypeOK, Offered, Taken
    <3>8. \A u \in Threads : got[t] \notin Owned(u)
      BY <3>1 DEF NodeOwnership
    <3>9. Offered(t) # got[t]
      BY <3>8, <3>1 DEF Owned, TypeOK
    <3> QED
      BY <3>1, <3>2, <3>5, <3>6, <3>7, <3>8, <3>9, OwnedAreNodes DEF
         NodeOwnership
  <2>4. ListShape'
    <3>1. contents # <<>> /\ got[t] = contents[1]
      BY DEF ListShape
    <3>2. /\ Len(contents) \in Nat /\ Len(contents) > 0
          /\ contents' \in Seq(Nodes)
          /\ Len(contents') = Len(contents) - 1
          /\ \A i \in 1..Len(contents') : contents'[i] = contents[i + 1]
      BY <3>1, EmptySeq, HeadTailProperties DEF TypeOK
    <3>3. \A u \in Threads : u # t => pc[u] \in Unlocked /\ pc'[u] = pc[u]
      BY DEF TypeOK, MutexHeld, Unlocked
    <3>4. header = contents[1] /\ tail = contents[Len(contents)]
      BY <3>1, <3>3 DEF ListShape, Unlocked
    <3>5. contents' = <<>> <=> Len(contents) = 1
      <4>1. contents' = <<>> <=> Len(contents') = 0
        BY ONLY <3>2, EmptySeq
      <4> QED BY <3>2, <4>1
    <3>6. tail = header <=> Len(contents) = 1
      BY <3>2, <3>4 DEF NodeOwnership
    <3>7. (header = IF contents = <<>> THEN NULL ELSE contents[1])'
      BY <3>2, <3>4, <3>5, <3>6 DEF ListShape
    <3>8. (tail = IF contents = <<>> THEN NULL ELSE contents[Len(contents)])'
      BY <3>2, <3>4, <3>5, <3>6
    <3>9. (\A i \in 1..Len(contents) :
             i < Len(contents) => next[contents[i]] = contents[i + 1])'
      BY <3>2 DEF ListShape
    <3>10. (Len(contents) =
             length + (IF \E u \in Threads : Lag(u) THEN 1 ELSE 0))'
      <4>1. Len(contents) = length + 1 /\ length \in Nat
        BY DEF TypeOK, ListShape, Lag
      <4>2. ~\E u \in Threads : Lag(u)'
        BY <3>3 DEF TypeOK, Lag, Unlocked
      <4> QED BY <3>2, <4>1, <4>2
    <3> QED
      BY <3>3, <3>7, <3>8, <3>9, <3>10 DEF TypeOK, ListShape, Unlocked
  <2>5. CallerContract'
    BY DEF TypeOK, CallerContract, Labels, InsertLabels, RemoveLabels,
       CheckLabels
  <2> QED
    BY <2>1, <2>2, <2>3, <2>4, <2>5 DEF IInv
<1>13. ASSUME RemoveUnlock(t) PROVE IInv'
  <2> USE <1>13, NullAssumption DEF RemoveUnlock, Goto, UnlockMutex
  <2>1. TypeOK'
    BY DEF TypeOK, ListShape, MutexHeld, Labels, InsertLabels,
       RemoveLabels, CheckLabels, Unlocked, Lag
  <2>2. MutexHeld'
    BY DEF TypeOK, MutexHeld, Unlocked, Labels, InsertLabels, RemoveLabels,
       CheckLabels
  <2>3. NodeOwnership'
    <3>1. \A u \in Threads : Offered(u)' = Offered(u) /\ Taken(u)' = Taken(u)
      BY DEF TypeOK, ListShape, CallerContract, Offered, Taken
    <3> QED
      BY <3>1, OwnershipFrame
  <2>4. ListShape'
    <3>1. \A u \in Threads : /\ Lag(u)' <=> Lag(u)
                             /\ pc'[u] = "ins_tail" <=> pc[u] = "ins_tail"
      BY DEF TypeOK, Lag
    <3>2. HalfDone'
      BY DEF TypeOK, ListShape, HalfDone
    <3> QED
      BY <3>1, <3>2, ShapeFrame
  <2>5. CallerContract'
    BY DEF TypeOK, CallerContract, Labels, InsertLabels, RemoveLabels,
       CheckLabels
  <2> QED
    BY <2>1, <2>2, <2>3, <2>4, <2>5 DEF IInv
<1>14. ASSUME CheckLock(t) PROVE IInv'
  <2> USE <1>14, NullAssumption DEF CheckLock, Goto, LockMutex
  <2>1. TypeOK'
    BY DEF TypeOK, ListShape, MutexHeld, Labels, InsertLabels,
       RemoveLabels, CheckLabels, Unlocked, Lag
  <2>2. MutexHeld'
    BY DEF TypeOK, MutexHeld, Unlocked, Labels, InsertLabels, RemoveLabels,
       CheckLabels
  <2>3. NodeOwnership'
    <3>1. \A u \in Threads : Offered(u)' = Offered(u) /\ Taken(u)' = Taken(u)
      BY DEF TypeOK, ListShape, CallerContract, Offered, Taken
    <3> QED
      BY <3>1, OwnershipFrame
  <2>4. ListShape'
    <3>1. \A u \in Threads : /\ Lag(u)' <=> Lag(u)
                             /\ pc'[u] = "ins_tail" <=> pc[u] = "ins_tail"
      BY DEF TypeOK, Lag
    <3>2. HalfDone'
      BY DEF TypeOK, ListShape, HalfDone
    <3> QED
      BY <3>1, <3>2, ShapeFrame
  <2>5. CallerContract'
    BY DEF TypeOK, CallerContract, Labels, InsertLabels, RemoveLabels,
       CheckLabels
  <2> QED
    BY <2>1, <2>2, <2>3, <2>4, <2>5 DEF IInv
<1>15. ASSUME CheckRead(t) PROVE IInv'
  <2> USE <1>15, NullAssumption DEF CheckRead, Goto
  <2>1. TypeOK'
    BY DEF TypeOK, ListShape, MutexHeld, Labels, InsertLabels,
       RemoveLabels, CheckLabels, Unlocked, Lag
  <2>2. MutexHeld'
    BY DEF TypeOK, MutexHeld, Unlocked, Labels, InsertLabels, RemoveLabels,
       CheckLabels
  <2>3. NodeOwnership'
    <3>1. \A u \in Threads : Offered(u)' = Offered(u) /\ Taken(u)' = Taken(u)
      BY DEF TypeOK, ListShape, CallerContract, Offered, Taken
    <3> QED
      BY <3>1, OwnershipFrame
  <2>4. ListShape'
    <3>1. \A u \in Threads : /\ Lag(u)' <=> Lag(u)
                             /\ pc'[u] = "ins_tail" <=> pc[u] = "ins_tail"
      BY DEF TypeOK, Lag
    <3>2. HalfDone'
      BY DEF TypeOK, ListShape, HalfDone
    <3> QED
      BY <3>1, <3>2, ShapeFrame
  <2>5. CallerContract'
    BY DEF TypeOK, CallerContract, Labels, InsertLabels, RemoveLabels,
       CheckLabels
  <2> QED
    BY <2>1, <2>2, <2>3, <2>4, <2>5 DEF IInv
<1>16. ASSUME CheckUnlock(t) PROVE IInv'
  <2> USE <1>16, NullAssumption DEF CheckUnlock, Goto, UnlockMutex
  <2>1. TypeOK'
    BY DEF TypeOK, ListShape, MutexHeld, Labels, InsertLabels,
       RemoveLabels, CheckLabels, Unlocked, Lag
  <2>2. MutexHeld'
    BY DEF TypeOK, MutexHeld, Unlocked, Labels, InsertLabels, RemoveLabels,
       CheckLabels
  <2>3. NodeOwnership'
    <3>1. \A u \in Threads : Offered(u)' = Offered(u) /\ Taken(u)' = Taken(u)
      BY DEF TypeOK, ListShape, CallerContract, Offered, Taken
    <3> QED
      BY <3>1, OwnershipFrame
  <2>4. ListShape'
    <3>1. \A u \in Threads : /\ Lag(u)' <=> Lag(u)
                             /\ pc'[u] = "ins_tail" <=> pc[u] = "ins_tail"
      BY DEF TypeOK, Lag
    <3>2. HalfDone'
      BY DEF TypeOK, ListShape, HalfDone
    <3> QED
      BY <3>1, <3>2, ShapeFrame
  <2>5. CallerContract'
    BY DEF TypeOK, CallerContract, Labels, InsertLabels, RemoveLabels,
       CheckLabels
  <2> QED
    BY <2>1, <2>2, <2>3, <2>4, <2>5 DEF IInv
<1> QED
  BY <1>1, <1>2, <1>3, <1>4, <1>5, <1>6, <1>7, <1>8, <1>9, <1>10, <1>11,
     <1>12, <1>13, <1>14, <1>15, <1>16
  DEF Step, InsertStep, RemoveStep, CheckStep

\* A step that changes no variable preserves it too.
LEMMA StutterIInv == IInv /\ UNCHANGED vars => IInv'
<1> SUFFICES ASSUME IInv, UNCHANGED vars PROVE IInv'
  OBVIOUS
<1> USE DEF IInv, vars
<1>1. NodeOwnership'
  BY OwnershipFrame DEF Offered, Taken
<1>2. TypeOK' /\ MutexHeld' /\ CallerContract'
  BY DEF TypeOK, MutexHeld, CallerContract
<1>3. ListShape'
  BY DEF ListShape, Lag
<1> QED
  BY <1>1, <1>2, <1>3

\* The pointer structure, the ownership of nodes and the mutex discipline of
\* the three queue functions hold in every reachable state.
THEOREM Invariance == Spec => []IInv
<1>1. Init => IInv
  BY InitIInv
<1>2. IInv /\ [Next]_vars => IInv'
  BY StepIInv, StutterIInv DEF Next
<1> QED
  BY <1>1, <1>2, PTL DEF Spec

\* The length field never goes below zero and every pointer is a node or NULL.
THEOREM TypeCorrect == Spec => []TypeOK
<1>1. IInv => TypeOK
  BY DEF IInv
<1> QED
  BY <1>1, Invariance, PTL

\* At most one thread is between lock and unlock, and it holds the mutex.
THEOREM MutualExclusion == Spec => []MutexHeld
<1>1. IInv => MutexHeld
  BY DEF IInv
<1> QED
  BY <1>1, Invariance, PTL

\* No node is lost, handed to two threads, or freed while it is in the list.
THEOREM OneOwnerPerNode == Spec => []NodeOwnership
<1>1. IInv => NodeOwnership
  BY DEF IInv
<1> QED
  BY <1>1, Invariance, PTL

\* The pointers always represent the list.
THEOREM WellFormedList == Spec => []ListShape
<1>1. IInv => ListShape
  BY DEF IInv
<1> QED
  BY <1>1, Invariance, PTL

-----------------------------------------------------------------------------
(* Refinement: each step of the detailed queue is one of Fifo or changes   *)
(* nothing Fifo sees.                                                      *)

LEMMA InitRefines == Init => F!Init
  BY DEF Init, F!Init, AbstractCall, Offered, Taken

\* Every step of a thread is a Fifo step of that thread, or a stutter.
LEMMA StepRefines ==
  ASSUME IInv, NEW t \in Threads,
         MallocNode(t) \/ FreeNode(t) \/ Call(t) \/ Step(t)
  PROVE  F!Next \/ UNCHANGED F!fifoVars
<1> USE NullAssumption DEF IInv, Goto, AbstractCall, Offered, Taken
<1>1. ASSUME MallocNode(t)
     PROVE  F!Malloc(t)
  <2> USE <1>1 DEF MallocNode
  <2>1. PICK n \in Nodes \ allocated : node' = [node EXCEPT ![t] = n]
    OBVIOUS
  <2>2. ~InQueue(n) /\ \A u \in Threads : n \notin Owned(u)
    BY DEF NodeOwnership
  <2>3. n \notin F!InUse
    BY <2>2, SMTT(60) DEF F!InUse, InQueue, Owned, TypeOK
  <2>4. F!Malloc(t)!1 /\ F!Malloc(t)!2
    BY DEF TypeOK
  <2>5. [u \in Threads |-> Offered(u)]' =
          [[u \in Threads |-> Offered(u)] EXCEPT ![t] = n]
    BY <2>1 DEF TypeOK
  <2>6. UNCHANGED <<contents, [u \in Threads |-> AbstractCall(u)],
                    [u \in Threads |-> Taken(u)], full>>
    OBVIOUS
  <2> QED
    BY <2>3, <2>4, <2>5, <2>6 DEF F!Malloc
<1>2. ASSUME FreeNode(t)
     PROVE  F!Free(t)
  BY <1>2 DEF TypeOK, FreeNode, F!Free
<1>3. ASSUME Call(t)
     PROVE  \E op \in {"insert", "remove", "check"} : F!Invoke(t, op)
  BY <1>3, ZenonT(60) DEF TypeOK, Call, F!Invoke
<1>4. ASSUME InsertLink(t)
     PROVE  F!Insert(t)
  BY <1>4 DEF TypeOK, InsertLink, F!Insert
<1>5. ASSUME RemoveTake(t)
     PROVE  F!RemoveNothing(t) \/ UNCHANGED F!fifoVars
  <2> USE <1>5 DEF RemoveTake
  <2>1. CASE header = NULL
    <3>1. contents = <<>>
      BY <2>1, ElementOfSeq, EmptySeq DEF TypeOK, ListShape
    <3> QED
      BY <2>1, <3>1 DEF TypeOK, F!RemoveNothing
  <2>2. CASE header # NULL
    BY <2>2 DEF TypeOK, F!fifoVars, CallerContract
  <2> QED
    BY <2>1, <2>2
<1>6. ASSUME RemoveUnlink(t)
     PROVE  F!Remove(t)
  <2> USE <1>6 DEF RemoveUnlink
  <2>1. contents # <<>> /\ got[t] = contents[1]
    BY DEF ListShape
  <2>2. got[t] = Head(contents)
    BY <2>1, HeadTailProperties DEF TypeOK
  <2>3. [u \in Threads |-> Taken(u)]' =
          [[u \in Threads |-> Taken(u)] EXCEPT ![t] = Head(contents)]
    BY <2>2 DEF TypeOK
  <2>4. [u \in Threads |-> AbstractCall(u)]' =
          [[u \in Threads |-> AbstractCall(u)] EXCEPT ![t] = "done"]
    BY DEF TypeOK
  <2>5. /\ AbstractCall(t) = "remove"
        /\ UNCHANGED [u \in Threads |-> Offered(u)]
    BY DEF TypeOK
  <2> QED
    BY <2>1, <2>3, <2>4, <2>5 DEF F!Remove
<1>7. ASSUME CheckRead(t)
     PROVE  F!CheckLimit(t)
  <2> USE <1>7 DEF CheckRead
  <2>1. \A u \in Threads : ~Lag(u)
    BY DEF TypeOK, MutexHeld, Unlocked, Lag
  <2>2. Len(contents) = length
    BY <2>1 DEF ListShape, TypeOK
  <2> QED
    BY <2>2 DEF TypeOK, F!CheckLimit
<1>8. ASSUME InsertUnlock(t) \/ RemoveUnlock(t) \/ CheckUnlock(t)
     PROVE  F!Return(t)
  BY <1>8 DEF TypeOK, F!Return, UnlockMutex, InsertUnlock, RemoveUnlock,
              CheckUnlock
<1>9. ASSUME \/ InsertLock(t) \/ InsertTail(t) \/ InsertLength(t)
              \/ RemoveLock(t) \/ RemoveLength(t) \/ CheckLock(t)
     PROVE  UNCHANGED F!fifoVars
  BY <1>9 DEF TypeOK, F!fifoVars, InsertLock, InsertTail, InsertLength,
              RemoveLock, RemoveLength, CheckLock, CallerContract, InsertLabels
<1> QED
  BY <1>1, <1>2, <1>3, <1>4, <1>5, <1>6, <1>7, <1>8, <1>9
  DEF Step, InsertStep, RemoveStep, CheckStep, F!Next

\* The queue is linearizable for any number of threads: with its mutex, its
\* pointers and its counter it implements the abstract first-in first-out
\* queue.
THEOREM Linearizable == Spec => ImplementsFifo
<1>1. Init => F!Init
  BY InitRefines
<1>2. IInv /\ [Next]_vars => [F!Next]_F!fifoVars
  <2>1. IInv /\ Next => F!Next \/ UNCHANGED F!fifoVars
    BY StepRefines DEF Next
  <2>2. UNCHANGED vars => UNCHANGED F!fifoVars
    BY DEF vars, F!fifoVars, AbstractCall, Offered, Taken
  <2> QED
    BY <2>1, <2>2
<1> QED
  BY <1>1, <1>2, Invariance, PTL DEF Spec, ImplementsFifo, F!Spec
=============================================================================
