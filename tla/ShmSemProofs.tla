---------------------------- MODULE ShmSemProofs ----------------------------
(***************************************************************************)
(* Proofs about ShmSem, for any processes, offsets and objects: the types  *)
(* under any use; under Careful use the inductive invariant IInv, and that *)
(* the semaphore functions implement AccessRight; and, again under any     *)
(* use, that the kernel's undo values balance what is taken.               *)
(***************************************************************************)
EXTENDS ShmSem, FiniteSetTheorems, TLAPS

LEMMA KeysOf ==
  ASSUME NEW p \in Procs
  PROVE  ShmKey(p) \in Keys /\ SemKey(p) \in Keys /\ DestroyKey(p) \in Keys
  BY DEF Keys

\* Processes that share a segment share its semaphore.
LEMMA SameInstance ==
  ASSUME NEW p \in Procs, NEW q \in Procs, ShmKey(p) = ShmKey(q)
  PROVE  SemKey(p) = SemKey(q)
<1>1. Id[p] \in Nat /\ Id[q] \in Nat
  BY IdAssumption
<1> QED
  BY <1>1 DEF ShmKey, SemKey

-----------------------------------------------------------------------------
(* The types, under any use.                                               *)

LEMMA InitTypes == Init => TypeOK
  BY DEF Init, TypeOK, Labels

LEMMA SemopTypes ==
  ASSUME TypeOK, NEW p \in Procs, NEW op \in Int, handle[p] # NULL,
         semval[handle[p]] + op >= 0, Semop(p, op)
  PROVE  /\ semval' \in [SemIds -> Nat]
         /\ semadj' \in [Procs -> [SemIds -> Int]]
<1>1. handle[p] \in SemIds
  BY DEF TypeOK
<1>2. semval' \in [SemIds -> Nat]
  BY <1>1 DEF TypeOK, Semop
<1>3. semadj' \in [Procs -> [SemIds -> Int]]
  BY <1>1 DEF TypeOK, Semop
<1> QED
  BY <1>2, <1>3

LEMMA StepTypes ==
  ASSUME TypeOK, NEW p \in Procs,
         \/ CreateStep(p) \/ LookUpStep(p) \/ AccessStep(p)
         \/ DestroyStep(p) \/ Ends(p)
  PROVE  TypeOK'
<1> USE KeysOf DEF TypeOK, Labels, Goto, semaphores, segments
<1>1. CASE GetSegment(p)
  <2>1. pc' \in [Procs -> Labels]
    BY <1>1 DEF GetSegment
  <2>2. CASE segOf[ShmKey(p)] # NULL
    BY <1>1, <2>1, <2>2 DEF GetSegment
  <2>3. CASE segOf[ShmKey(p)] = NULL
    <3>1. PICK g \in SegIds : /\ segOf' = [segOf EXCEPT ![ShmKey(p)] = g]
                              /\ segs' = segs \cup {g}
                              /\ mapped' = [mapped EXCEPT ![p] = g]
      BY <1>1, <2>3 DEF GetSegment
    <3> QED
      BY <1>1, <2>1, <3>1 DEF GetSegment
  <2> QED
    BY <2>2, <2>3
<1>2. CASE ClearSegment(p)
  BY <1>2 DEF ClearSegment
<1>3. CASE GetSemaphore(p)
  <2>1. CASE semOf[SemKey(p)] # NULL
    BY <1>3, <2>1 DEF GetSemaphore
  <2>2. CASE semOf[SemKey(p)] = NULL
    <3>1. PICK s \in SemIds : /\ semOf' = [semOf EXCEPT ![SemKey(p)] = s]
                              /\ sems' = sems \cup {s}
                              /\ handle' = [handle EXCEPT ![p] = s]
      BY <1>3, <2>2 DEF GetSemaphore
    <3> QED
      BY <1>3, <3>1 DEF GetSemaphore
  <2> QED
    BY <2>1, <2>2
<1>4. CASE CreateFails(p)
  BY <1>4 DEF CreateFails
<1>5. CASE SetInitialValue(p)
  BY <1>5 DEF SetInitialValue, SetValue, Exists
<1>6. CASE MapSegment(p)
  BY <1>6 DEF MapSegment
<1>7. CASE LookUpSemaphore(p)
  BY <1>7 DEF LookUpSemaphore
<1>8. CASE UnmapSegment(p)
  BY <1>8 DEF UnmapSegment
<1>9. CASE Acquire(p)
  BY <1>9 DEF Acquire
<1>10. CASE Acquired(p)
  <2>1. handle[p] # NULL /\ handle[p] \in SemIds /\ semval[handle[p]] + -1 >= 0
    BY <1>10 DEF Acquired, Exists
  <2>2. /\ semval' \in [SemIds -> Nat]
        /\ semadj' \in [Procs -> [SemIds -> Int]]
    BY <1>10, <2>1, SemopTypes DEF Acquired
  <2> QED
    BY <1>10, <2>2 DEF Acquired
<1>11. CASE AcquireFails(p)
  BY <1>11 DEF AcquireFails
<1>12. CASE Write(p)
  BY <1>12 DEF Write
<1>13. CASE Release(p)
  <2>1. CASE Exists(handle[p])
    <3>1. handle[p] # NULL /\ handle[p] \in SemIds /\ semval[handle[p]] + 1 >= 0
      BY <2>1 DEF Exists
    <3>2. Semop(p, 1)
      BY <1>13, <2>1 DEF Release
    <3>3. /\ semval' \in [SemIds -> Nat]
          /\ semadj' \in [Procs -> [SemIds -> Int]]
      BY <3>1, <3>2, SemopTypes
    <3> QED
      BY <1>13, <3>3 DEF Release
  <2>2. CASE ~Exists(handle[p])
    BY <1>13, <2>2 DEF Release
  <2> QED
    BY <2>1, <2>2
<1>14. CASE DestroySemaphore(p)
  BY <1>14 DEF DestroySemaphore
<1>15. CASE DestroySegment(p)
  BY <1>15 DEF DestroySegment
<1>16. CASE Ends(p)
  BY <1>16 DEF Ends
<1> QED
  BY <1>1, <1>2, <1>3, <1>4, <1>5, <1>6, <1>7, <1>8, <1>9, <1>10, <1>11,
     <1>12, <1>13, <1>14, <1>15, <1>16
     DEF CreateStep, LookUpStep, AccessStep, DestroyStep

\* Whatever the callers do, every variable keeps its type; no semaphore goes
\* below zero.
THEOREM TypeCorrect == Spec => []TypeOK
<1>1. TypeOK /\ [Next]_vars => TypeOK'
  <2> SUFFICES ASSUME TypeOK, [Next]_vars PROVE TypeOK'
    OBVIOUS
  <2>1. CASE Next
    BY <2>1, StepTypes DEF Next
  <2>2. CASE UNCHANGED vars
    BY <2>2 DEF TypeOK, vars, semaphores, segments, processes
  <2> QED
    BY <2>1, <2>2
<1> QED
  BY InitTypes, <1>1, PTL DEF Spec

-----------------------------------------------------------------------------
(* The inductive invariant, under Careful use.                             *)

LEMMA InitIInv == Init => IInv
<1> SUFFICES ASSUME Init PROVE IInv
  OBVIOUS
<1>1. TypeOK
  BY InitTypes
<1>2. HandleFound /\ MappedFound /\ KeysApart
  BY NullAssumption, KeysOf DEF Init, HandleFound, MappedFound, KeysApart
<1>3. CreatedOnce
  BY KeysOf DEF Init, CreatedOnce
<1>4. RightSound /\ SemaphoreExact /\ Undisturbed
  BY DEF Init, RightSound, SemaphoreExact, Undisturbed, InAccess, Holds
<1> QED
  BY <1>1, <1>2, <1>3, <1>4 DEF IInv

\* A process that has found its semaphore still finds it: nobody removes it.
LEMMA SemaphoreThere ==
  ASSUME HandleFound, NEW p \in Procs,
         pc[p] \in {"setval", "ready", "wait", "access", "written"}
  PROVE  Exists(handle[p])
  BY KeysOf DEF HandleFound, Exists

\* A release makes the semaphore free and leaves nothing to give back.
LEMMA ReleaseExact ==
  ASSUME TypeOK, RightSound, SemaphoreExact, NEW p \in Procs,
         InAccess(p), handle[p] \in SemIds, Semop(p, 1),
         pc' = [pc EXCEPT ![p] = "ready"],
         UNCHANGED <<handle, inited>>
  PROVE  SemaphoreExact'
<1>1. \A q \in Procs : \A s : Holds(q, s)' <=> Holds(q, s) /\ q # p
  BY DEF TypeOK, Holds, InAccess
<1>2. /\ \A q \in Procs : Holds(q, handle[p]) <=> q = p
      /\ handle[p] \in inited
  BY DEF RightSound, Holds
<1>3. semval[handle[p]] = 0 /\ semadj[p][handle[p]] = 1
  BY <1>2 DEF SemaphoreExact
<1> SUFFICES ASSUME NEW s \in SemIds, NEW q \in Procs
             PROVE  /\ semval'[s] =
                         IF s \in inited /\ ~\E r \in Procs : Holds(r, s)'
                         THEN 1 ELSE 0
                    /\ semadj'[q][s] = IF Holds(q, s)' THEN 1 ELSE 0
  BY DEF SemaphoreExact
<1>4. CASE s = handle[p]
  <2>1. \A r \in Procs : ~Holds(r, s)'
    BY <1>1, <1>2, <1>4
  <2>2. semval'[s] = 1
    BY <1>3, <1>4 DEF TypeOK, Semop
  <2>3. semadj'[q][s] = 0
    BY <1>2, <1>3, <1>4 DEF TypeOK, Semop, SemaphoreExact
  <2> QED
    BY <1>2, <1>4, <2>1, <2>2, <2>3
<1>5. CASE s # handle[p]
  <2>1. semval'[s] = semval[s] /\ semadj'[q][s] = semadj[q][s]
    BY <1>5 DEF TypeOK, Semop
  <2>2. \A r \in Procs : Holds(r, s)' <=> Holds(r, s)
    BY <1>1, <1>5 DEF Holds
  <2> QED
    BY <2>1, <2>2 DEF SemaphoreExact
<1> QED
  BY <1>4, <1>5

LEMMA StepIInv ==
  ASSUME Careful, IInv, TypeOK', NEW p \in Procs,
         \/ CreateStep(p) \/ LookUpStep(p) \/ AccessStep(p)
         \/ DestroyStep(p) \/ Ends(p)
  PROVE  IInv'
<1> USE NullAssumption, KeysOf
    DEF IInv, TypeOK, Labels, Goto, semaphores, segments
<1>1. CASE GetSegment(p)
  <2> USE <1>1 DEF GetSegment
  <2>1. HandleFound'
    BY DEF HandleFound
  <2>2. MappedFound'
    BY DEF MappedFound
  <2>3. KeysApart'
    <3>1. CASE segOf[ShmKey(p)] # NULL
      BY <3>1 DEF KeysApart
    <3>2. CASE segOf[ShmKey(p)] = NULL
      <4>1. PICK g \in SegIds \ segs :
              /\ segOf' = [segOf EXCEPT ![ShmKey(p)] = g]
              /\ segs' = segs \cup {g}
        BY <3>2
      <4> QED
        BY <4>1 DEF KeysApart
    <3> QED
      BY <3>1, <3>2
  <2>4. CreatedOnce'
    BY DEF CreatedOnce, HandleFound, Careful
  <2>5. RightSound'
    BY DEF RightSound, InAccess, SemaphoreExact, HandleFound
  <2>6. SemaphoreExact'
    BY DEF SemaphoreExact, RightSound, Holds, InAccess, CreatedOnce
  <2>7. Undisturbed'
    BY DEF Undisturbed, MappedFound
  <2> QED
    BY <2>1, <2>2, <2>3, <2>4, <2>5, <2>6, <2>7 DEF IInv
<1>2. CASE ClearSegment(p)
  <2> USE <1>2 DEF ClearSegment
  <2>1. HandleFound'
    BY DEF HandleFound
  <2>2. MappedFound'
    BY DEF MappedFound
  <2>3. KeysApart'
    BY DEF KeysApart
  <2>4. CreatedOnce'
    BY DEF CreatedOnce, HandleFound, Careful
  <2>5. RightSound'
    BY DEF RightSound, InAccess, SemaphoreExact, HandleFound
  <2>6. SemaphoreExact'
    BY DEF SemaphoreExact, RightSound, Holds, InAccess, CreatedOnce
  <2>7. Undisturbed'
    <3> SUFFICES ASSUME NEW q \in Procs, pc[q] = "written"
                 PROVE  mapped[q] # mapped[p]
      BY DEF Undisturbed
    <3>1. SemKey(q) # SemKey(p)
      BY DEF HandleFound, CreatedOnce
    <3>2. ShmKey(q) # ShmKey(p)
      BY <3>1, SameInstance
    <3> QED
      BY <3>2 DEF MappedFound, KeysApart
  <2> QED
    BY <2>1, <2>2, <2>3, <2>4, <2>5, <2>6, <2>7 DEF IInv
<1>3. CASE GetSemaphore(p)
  <2> USE <1>3 DEF GetSemaphore
  <2>1. HandleFound'
    BY DEF HandleFound
  <2>2. MappedFound'
    BY DEF MappedFound
  <2>3. KeysApart'
    <3>1. PICK s \in SemIds \ sems :
            /\ semOf' = [semOf EXCEPT ![SemKey(p)] = s]
            /\ sems' = sems \cup {s}
      BY DEF CreatedOnce
    <3> QED
      BY <3>1 DEF KeysApart
  <2>4. CreatedOnce'
    <3>1. PICK s \in SemIds \ sems :
            /\ semOf' = [semOf EXCEPT ![SemKey(p)] = s]
            /\ handle' = [handle EXCEPT ![p] = s]
      BY DEF CreatedOnce
    <3>2. p \in Creators /\ s \notin inited
      BY <3>1 DEF CreatedOnce, KeysApart
    <3>3. \A q \in Creators : q # p => SemKey(q) # SemKey(p)
      BY <3>2 DEF Careful
    <3> QED
      BY <3>1, <3>2, <3>3 DEF CreatedOnce
  <2>5. RightSound'
    BY DEF RightSound, InAccess, SemaphoreExact, HandleFound
  <2>6. SemaphoreExact'
    <3>1. \A q \in Procs, s \in SemIds : Holds(q, s)' <=> Holds(q, s)
      BY DEF Holds, InAccess
    <3> QED
      BY <3>1 DEF SemaphoreExact
  <2>7. Undisturbed'
    BY DEF Undisturbed
  <2> QED
    BY <2>1, <2>2, <2>3, <2>4, <2>5, <2>6, <2>7 DEF IInv
<1>4. CASE CreateFails(p)
  <2> USE <1>4 DEF CreateFails
  <2>1. HandleFound'
    BY DEF HandleFound
  <2>2. MappedFound'
    BY DEF MappedFound
  <2>3. KeysApart'
    BY DEF KeysApart
  <2>4. CreatedOnce'
    BY DEF CreatedOnce, HandleFound, Careful
  <2>5. RightSound'
    BY DEF RightSound, InAccess, SemaphoreExact, HandleFound
  <2>6. SemaphoreExact'
    BY DEF SemaphoreExact, RightSound, Holds, InAccess, CreatedOnce
  <2>7. Undisturbed'
    BY DEF Undisturbed, MappedFound
  <2> QED
    BY <2>1, <2>2, <2>3, <2>4, <2>5, <2>6, <2>7 DEF IInv
<1>5. CASE SetInitialValue(p)
  <2> USE <1>5 DEF SetValue, SetInitialValue
  <2>1. HandleFound'
    BY DEF HandleFound
  <2>2. MappedFound'
    BY DEF MappedFound
  <2>3. KeysApart'
    <3>1. handle[p] \in sems
      BY DEF HandleFound, KeysApart
    <3> QED
      BY <3>1 DEF KeysApart
  <2>4. CreatedOnce'
    <3>1. inited' = inited \cup {handle[p]} /\ p \in Creators
      BY SemaphoreThere DEF CreatedOnce
    <3>2. \A q \in Procs : q # p /\ pc[q] = "setval" => handle[q] # handle[p]
      <4> SUFFICES ASSUME NEW q \in Procs, q # p, pc[q] = "setval"
                   PROVE  handle[q] # handle[p]
        OBVIOUS
      <4>1. SemKey(q) # SemKey(p)
        BY <3>1 DEF CreatedOnce, Careful
      <4> QED
        BY <4>1 DEF HandleFound, KeysApart
    <3> QED
      BY <3>1, <3>2 DEF CreatedOnce
  <2>5. RightSound'
    BY DEF RightSound, InAccess, SemaphoreExact, HandleFound
  <2>6. SemaphoreExact'
    BY DEF SemaphoreExact, RightSound, Holds, InAccess, CreatedOnce
  <2>7. Undisturbed'
    BY DEF Undisturbed, MappedFound
  <2> QED
    BY <2>1, <2>2, <2>3, <2>4, <2>5, <2>6, <2>7 DEF IInv
<1>6. CASE MapSegment(p)
  <2> USE <1>6 DEF MapSegment
  <2>1. HandleFound'
    BY DEF HandleFound
  <2>2. MappedFound'
    BY DEF MappedFound
  <2>3. KeysApart'
    BY DEF KeysApart
  <2>4. CreatedOnce'
    BY DEF CreatedOnce, HandleFound, Careful
  <2>5. RightSound'
    BY DEF RightSound, InAccess, SemaphoreExact, HandleFound
  <2>6. SemaphoreExact'
    BY DEF SemaphoreExact, RightSound, Holds, InAccess, CreatedOnce
  <2>7. Undisturbed'
    BY DEF Undisturbed, MappedFound
  <2> QED
    BY <2>1, <2>2, <2>3, <2>4, <2>5, <2>6, <2>7 DEF IInv
<1>7. CASE LookUpSemaphore(p)
  <2> USE <1>7 DEF LookUpSemaphore
  <2>1. HandleFound'
    BY DEF HandleFound
  <2>2. MappedFound'
    BY DEF MappedFound
  <2>3. KeysApart'
    BY DEF KeysApart
  <2>4. CreatedOnce'
    BY DEF CreatedOnce, HandleFound, Careful
  <2>5. RightSound'
    BY DEF RightSound, InAccess, SemaphoreExact, HandleFound
  <2>6. SemaphoreExact'
    BY DEF SemaphoreExact, RightSound, Holds, InAccess, CreatedOnce
  <2>7. Undisturbed'
    BY DEF Undisturbed, MappedFound
  <2> QED
    BY <2>1, <2>2, <2>3, <2>4, <2>5, <2>6, <2>7 DEF IInv
<1>8. CASE UnmapSegment(p)
  <2> USE <1>8 DEF UnmapSegment
  <2>1. HandleFound'
    BY DEF HandleFound
  <2>2. MappedFound'
    BY DEF MappedFound
  <2>3. KeysApart'
    BY DEF KeysApart
  <2>4. CreatedOnce'
    BY DEF CreatedOnce, HandleFound, Careful
  <2>5. RightSound'
    BY DEF RightSound, InAccess, SemaphoreExact, HandleFound
  <2>6. SemaphoreExact'
    BY DEF SemaphoreExact, RightSound, Holds, InAccess, CreatedOnce
  <2>7. Undisturbed'
    BY DEF Undisturbed, MappedFound
  <2> QED
    BY <2>1, <2>2, <2>3, <2>4, <2>5, <2>6, <2>7 DEF IInv
<1>9. CASE Acquire(p)
  <2> USE <1>9 DEF Acquire
  <2>1. HandleFound'
    BY DEF HandleFound
  <2>2. MappedFound'
    BY DEF MappedFound
  <2>3. KeysApart'
    BY DEF KeysApart
  <2>4. CreatedOnce'
    BY DEF CreatedOnce, HandleFound, Careful
  <2>5. RightSound'
    BY DEF RightSound, InAccess, SemaphoreExact, HandleFound
  <2>6. SemaphoreExact'
    BY DEF SemaphoreExact, RightSound, Holds, InAccess, CreatedOnce
  <2>7. Undisturbed'
    BY DEF Undisturbed, MappedFound
  <2> QED
    BY <2>1, <2>2, <2>3, <2>4, <2>5, <2>6, <2>7 DEF IInv
<1>10. CASE Acquired(p)
  <2> USE <1>10 DEF Semop, Acquired
  <2>1. HandleFound'
    BY DEF HandleFound
  <2>2. MappedFound'
    BY DEF MappedFound
  <2>3. KeysApart'
    BY DEF KeysApart
  <2>4. CreatedOnce'
    BY DEF CreatedOnce, HandleFound, Careful
  <2>5. RightSound'
    <3>1. handle[p] \in inited /\ ~\E q \in Procs : Holds(q, handle[p])
      BY SemaphoreThere DEF SemaphoreExact, HandleFound
    <3> QED
      BY <3>1 DEF RightSound, InAccess, Holds
  <2>6. SemaphoreExact'
    BY DEF SemaphoreExact, RightSound, Holds, InAccess, CreatedOnce
  <2>7. Undisturbed'
    BY DEF Undisturbed, MappedFound
  <2> QED
    BY <2>1, <2>2, <2>3, <2>4, <2>5, <2>6, <2>7 DEF IInv
<1>11. CASE Write(p)
  <2> USE <1>11 DEF Write
  <2>1. HandleFound'
    BY DEF HandleFound
  <2>2. MappedFound'
    BY DEF MappedFound
  <2>3. KeysApart'
    BY DEF KeysApart
  <2>4. CreatedOnce'
    BY DEF CreatedOnce, HandleFound, Careful
  <2>5. RightSound'
    BY DEF RightSound, InAccess, SemaphoreExact, HandleFound
  <2>6. SemaphoreExact'
    BY DEF SemaphoreExact, RightSound, Holds, InAccess, CreatedOnce
  <2>7. Undisturbed'
    <3> SUFFICES ASSUME NEW q \in Procs, pc[q] = "written"
                 PROVE  mapped[q] # mapped[p]
      BY DEF Undisturbed
    <3>1. q # p /\ InAccess(p) /\ InAccess(q)
      BY DEF InAccess
    <3>2. SemKey(q) # SemKey(p)
      BY <3>1 DEF HandleFound, RightSound, InAccess
    <3>3. ShmKey(q) # ShmKey(p)
      BY <3>2, SameInstance
    <3> QED
      BY <3>3 DEF MappedFound, KeysApart
  <2> QED
    BY <2>1, <2>2, <2>3, <2>4, <2>5, <2>6, <2>7 DEF IInv
<1>12. CASE Release(p)
  <2> USE <1>12 DEF Semop, Release
  <2>1. HandleFound'
    BY DEF HandleFound, InAccess
  <2>2. MappedFound'
    BY DEF MappedFound
  <2>3. KeysApart'
    BY DEF KeysApart
  <2>4. CreatedOnce'
    BY DEF CreatedOnce, HandleFound, Careful
  <2>5. RightSound'
    BY DEF RightSound, InAccess, SemaphoreExact, HandleFound
  <2>6. SemaphoreExact'
    <3>1. Exists(handle[p]) /\ handle[p] \in SemIds
      BY SemaphoreThere DEF InAccess, Exists
    <3> QED
      BY <3>1, ReleaseExact
  <2>7. Undisturbed'
    BY DEF Undisturbed, MappedFound
  <2> QED
    BY <2>1, <2>2, <2>3, <2>4, <2>5, <2>6, <2>7 DEF IInv
<1>13. CASE Ends(p)
  <2> USE <1>13 DEF Ends
  <2>1. HandleFound'
    BY DEF HandleFound
  <2>2. MappedFound'
    BY DEF MappedFound
  <2>3. KeysApart'
    BY DEF KeysApart
  <2>4. CreatedOnce'
    BY DEF CreatedOnce, HandleFound, Careful
  <2>5. RightSound'
    BY DEF RightSound, InAccess, SemaphoreExact, HandleFound
  <2>6. SemaphoreExact'
    BY DEF SemaphoreExact, RightSound, Holds, InAccess, CreatedOnce
  <2>7. Undisturbed'
    BY DEF Undisturbed, MappedFound
  <2> QED
    BY <2>1, <2>2, <2>3, <2>4, <2>5, <2>6, <2>7 DEF IInv
<1>14. ~AcquireFails(p)
  BY SemaphoreThere DEF AcquireFails, Careful
<1>15. ~DestroyStep(p)
  BY DEF Careful, CreatedOnce, DestroyStep, DestroySemaphore, DestroySegment
<1> QED
  BY <1>1, <1>2, <1>3, <1>4, <1>5, <1>6, <1>7, <1>8, <1>9, <1>10, <1>11,
     <1>12, <1>13, <1>14, <1>15 DEF CreateStep, LookUpStep, AccessStep

\* Under careful use, everything the invariant says holds for ever.
THEOREM Invariance == Careful => (Spec => []IInv)
<1> SUFFICES ASSUME Careful PROVE Spec => []IInv
  OBVIOUS
<1>1. IInv /\ [Next]_vars => IInv'
  <2> SUFFICES ASSUME IInv, [Next]_vars PROVE IInv'
    OBVIOUS
  <2>1. CASE Next
    BY <2>1, StepTypes, StepIInv DEF Next, IInv
  <2>2. CASE UNCHANGED vars
    <3> USE <2>2 DEF vars, semaphores, segments, processes
    <3>1. TypeOK' /\ HandleFound' /\ MappedFound' /\ KeysApart' /\ CreatedOnce'
      BY DEF IInv, TypeOK, HandleFound, MappedFound, KeysApart, CreatedOnce
    <3>2. RightSound' /\ SemaphoreExact' /\ Undisturbed'
      BY DEF IInv, RightSound, SemaphoreExact, Undisturbed, InAccess, Holds
    <3> QED
      BY <3>1, <3>2 DEF IInv
  <2> QED
    BY <2>1, <2>2
<1> QED
  BY InitIInv, <1>1, PTL DEF Spec

LEMMA IInvExclusive == IInv => AccessExclusive
  BY DEF IInv, AccessExclusive, HandleFound, RightSound, InAccess

\* One process at a time is between AcquireAccessRight and
\* ReleaseAccessRight of an instance, whichever processes end and when.
THEOREM MutualExclusion == Careful => (Spec => []AccessExclusive)
<1> SUFFICES ASSUME Careful PROVE Spec => []AccessExclusive
  OBVIOUS
<1> QED
  BY Invariance, IInvExclusive, PTL

\* A semaphore is never left taken by a process that has ended, and never
\* free while a process holds it.
THEOREM SemaphoreKept == Careful => (Spec => []SemaphoreExact)
<1> SUFFICES ASSUME Careful PROVE Spec => []SemaphoreExact
  OBVIOUS
<1>1. IInv => SemaphoreExact
  BY DEF IInv
<1> QED
  BY Invariance, <1>1, PTL

\* What a process writes under its right is not overwritten by another, nor
\* cleared by a creator.
THEOREM WritesKept == Careful => (Spec => []Undisturbed)
<1> SUFFICES ASSUME Careful PROVE Spec => []Undisturbed
  OBVIOUS
<1>1. IInv => Undisturbed
  BY DEF IInv
<1> QED
  BY Invariance, <1>1, PTL

-----------------------------------------------------------------------------
(* Refinement of AccessRight.                                              *)

\* A step of one process is one of AccessRight, or is not seen there.
LEMMA StepRefines ==
  ASSUME Careful, IInv, IInv', NEW p \in Procs,
         \/ CreateStep(p) \/ LookUpStep(p) \/ AccessStep(p)
         \/ DestroyStep(p) \/ Ends(p)
  PROVE  A!Next \/ UNCHANGED rights
<1>1. pc \in [Procs -> Labels]
  BY DEF IInv, TypeOK
<1>2. ASSUME NEW to, pc' = [pc EXCEPT ![p] = to], Right(p)' = Right(p)
      PROVE  UNCHANGED rights
  BY <1>1, <1>2 DEF rights, Right, InAccess
<1>3. ASSUME NEW to, pc' = [pc EXCEPT ![p] = to]
      PROVE  rights' = [rights EXCEPT ![p] = Right(p)']
  BY <1>1, <1>3 DEF rights, Right, InAccess
<1>4. CASE CreateStep(p) \/ LookUpStep(p) \/ Write(p)
  BY <1>1, <1>4
     DEF CreateStep, LookUpStep, Write, GetSegment, ClearSegment, GetSemaphore,
         CreateFails, SetInitialValue, SetValue, MapSegment, LookUpSemaphore,
         UnmapSegment, Goto, rights, Right, InAccess
<1>5. CASE Acquire(p)
  <2>1. Right(p) = "none" /\ Right(p)' = "wanted"
    BY <1>1, <1>5 DEF Acquire, Goto, Right, InAccess
  <2> QED
    BY <1>3, <1>5, <2>1 DEF Acquire, Goto, A!Next, A!Ask, rights
<1>6. CASE Acquired(p)
  <2>1. Right(p) = "wanted" /\ Right(p)' = "held"
    BY <1>1, <1>6 DEF Acquired, Goto, Right, InAccess
  <2>2. \A q \in Procs : SemKey(q) = SemKey(p) => Right(q) # "held"
    <3>1. InAccess(p)'
      BY <1>1, <1>6 DEF Acquired, Goto, InAccess
    <3>2. AccessExclusive'
      BY DEF IInv, AccessExclusive, HandleFound, RightSound, InAccess
    <3> QED
      BY <1>1, <1>6, <2>1, <3>1, <3>2
         DEF Acquired, Goto, Right, InAccess, AccessExclusive, SemKey
  <2> QED
    BY <1>3, <1>6, <2>1, <2>2 DEF Acquired, Goto, A!Next, A!Obtain, rights
<1>7. CASE Release(p) \/ Ends(p)
  <2>1. Right(p)' = "none" /\ \E to : pc' = [pc EXCEPT ![p] = to]
    BY <1>1, <1>7 DEF Release, Ends, Right, InAccess
  <2>2. CASE Right(p) = "none"
    BY <1>2, <2>1, <2>2
  <2>3. CASE Right(p) # "none"
    BY <1>3, <2>1, <2>3 DEF A!Next, A!GiveUp, rights
  <2> QED
    BY <2>2, <2>3
<1>8. ~AcquireFails(p)
  BY SemaphoreThere DEF AcquireFails, Careful, IInv, Goto
<1>9. ~DestroyStep(p)
  BY DEF Careful, CreatedOnce, DestroyStep, DestroySemaphore, DestroySegment,
     IInv, Goto
<1> QED
  BY <1>4, <1>5, <1>6, <1>7, <1>8, <1>9 DEF AccessStep

\* AcquireAccessRight and ReleaseAccessRight, with undo at the end of a
\* process, implement the exclusive right of access.
THEOREM Refinement == Careful => (Spec => ImplementsAccessRight)
<1> SUFFICES ASSUME Careful PROVE Spec => ImplementsAccessRight
  OBVIOUS
<1>1. Init => A!Init
  BY DEF Init, A!Init, rights, Right, InAccess
<1>2. IInv /\ IInv' /\ [Next]_vars => [A!Next]_rights
  <2> SUFFICES ASSUME IInv, IInv', [Next]_vars
               PROVE  A!Next \/ UNCHANGED rights
    OBVIOUS
  <2>1. CASE Next
    BY <2>1, StepRefines DEF Next
  <2>2. CASE UNCHANGED vars
    BY <2>2 DEF vars, processes, rights, Right, InAccess
  <2> QED
    BY <2>1, <2>2
<1> QED
  BY Invariance, <1>1, <1>2, PTL DEF Spec, ImplementsAccessRight, A!Spec

-----------------------------------------------------------------------------
(* Sums over finite sets.  An induction over a data structure is a least   *)
(* counterexample here: the least element of the set of numbers for which  *)
(* the claim fails.                                                        *)

LEMMA LeastNumber ==
  ASSUME NEW T, T \subseteq Nat, T # {}
  PROVE  \E n \in T : \A m \in T : n <= m
<1> DEFINE R == OpToRel(<, Nat)
<1>1. IsWellFoundedOn(R, Nat)
  BY NatLessThanWellFounded
<1>2. \A x, y \in Nat : <<y, x>> \in R <=> y < x
  BY DEF OpToRel
<1> HIDE DEF R
<1>3. PICK n \in T : \A m \in T : ~ (<<m, n>> \in R)
  BY <1>1, WFMin
<1>4. ASSUME NEW m \in T PROVE n <= m
  <2>1. m \in Nat /\ n \in Nat /\ ~ (<<m, n>> \in R)
    BY <1>3
  <2>2. ~ (m < n)
    BY ONLY <1>2, <2>1
  <2> QED
    BY ONLY <2>1, <2>2
<1> QED
  BY <1>4

\* What holds of 0 and of every next number holds of all.
LEMMA Induction ==
  ASSUME NEW H, 0 \in H, \A n \in Nat : n \in H => n + 1 \in H
  PROVE  Nat \subseteq H
<1> SUFFICES ASSUME ~(Nat \subseteq H) PROVE FALSE
  OBVIOUS
<1> DEFINE T == Nat \ H
<1>1. T \subseteq Nat /\ T # {}
  OBVIOUS
<1>2. PICK n \in T : \A m \in T : n <= m
  BY <1>1, LeastNumber
<1>3. n \in Nat /\ n # 0
  BY <1>2
<1>4. n - 1 \in Nat /\ ~(n <= n - 1) /\ (n - 1) + 1 = n
  BY <1>3
<1>5. n - 1 \in H
  BY <1>2, <1>4
<1>6. n \in H
  BY <1>4, <1>5
<1> QED
  BY <1>2, <1>6

First(s) == CHOOSE x \in s : TRUE

\* The equation by which SumFunction is defined, for it[s].
SumRule(f, it, s) ==
  IF s = {} THEN 0 ELSE f[First(s)] + it[s \ {First(s)}]

\* A table of the sums over all subsets.
SumTable(f, S, it) == it = [s \in SUBSET S |-> SumRule(f, it, s)]

\* What is left of a set without its first element.
LEMMA FirstOut ==
  ASSUME NEW S, IsFiniteSet(S), NEW s \in SUBSET S
  PROVE  /\ IsFiniteSet(s) /\ Cardinality(s) \in Nat
         /\ Cardinality(s) <= Cardinality(S)
         /\ s # {} => /\ First(s) \in s /\ s \ {First(s)} \in SUBSET S
                      /\ Cardinality(s \ {First(s)}) = Cardinality(s) - 1
                      /\ Cardinality(s) # 0
<1>1. IsFiniteSet(s) /\ Cardinality(s) \in Nat /\ Cardinality(s) <= Cardinality(S)
  BY FS_Subset, FS_CardinalityType
<1>2. ASSUME s # {}
      PROVE  /\ First(s) \in s /\ s \ {First(s)} \in SUBSET S
             /\ Cardinality(s \ {First(s)}) = Cardinality(s) - 1
             /\ Cardinality(s) # 0
  <2>1. First(s) \in s
    BY <1>2 DEF First
  <2>2. s \ {First(s)} \in SUBSET S
    OBVIOUS
  <2>3. Cardinality(s \ {First(s)}) = Cardinality(s) - 1
    BY <1>1, <2>1, FS_RemoveElement
  <2>4. Cardinality(s) # 0
    BY <1>1, <1>2, FS_EmptySet
  <2> QED
    BY <2>1, <2>2, <2>3, <2>4
<1> QED
  BY <1>1, <1>2

\* There is one.
LEMMA SumExists ==
  ASSUME NEW S, IsFiniteSet(S), NEW f \in [S -> Int]
  PROVE  \E it \in [SUBSET S -> Int] : SumTable(f, S, it)
<1> DEFINE Upto(n, it) ==
             \A s \in SUBSET S : Cardinality(s) <= n => it[s] = SumRule(f, it, s)
           H == {n \in Nat : \E it \in [SUBSET S -> Int] : Upto(n, it)}
<1>1. \A s \in SUBSET S : /\ IsFiniteSet(s) /\ Cardinality(s) \in Nat
                          /\ Cardinality(s) <= Cardinality(S)
  BY FirstOut
<1>2. \A s \in SUBSET S : s # {} =>
        /\ f[First(s)] \in Int /\ s \ {First(s)} \in SUBSET S
        /\ Cardinality(s \ {First(s)}) = Cardinality(s) - 1
        /\ Cardinality(s) # 0
  BY FirstOut
<1>3. 0 \in H
  <2> DEFINE it == [s \in SUBSET S |-> 0]
  <2>1. \A s \in SUBSET S : Cardinality(s) <= 0 => s = {}
    <3> SUFFICES ASSUME NEW s \in SUBSET S, Cardinality(s) <= 0 PROVE s = {}
      OBVIOUS
    <3>1. Cardinality(s) = 0
      BY <1>1
    <3> QED
      BY <1>1, <3>1, FS_EmptySet
  <2>2. Upto(0, it)
    BY <2>1 DEF SumRule
  <2>3. it \in [SUBSET S -> Int]
    OBVIOUS
  <2> QED
    BY <2>2, <2>3
<1>4. ASSUME NEW n \in Nat, n \in H PROVE n + 1 \in H
  <2>1. PICK it \in [SUBSET S -> Int] : Upto(n, it)
    BY <1>4
  <2> DEFINE next == [s \in SUBSET S |->
                        IF Cardinality(s) = n + 1 THEN SumRule(f, it, s) ELSE it[s]]
  <2>2. \A s \in SUBSET S : SumRule(f, it, s) \in Int
    <3> SUFFICES ASSUME NEW s \in SUBSET S PROVE SumRule(f, it, s) \in Int
      OBVIOUS
    <3>1. s # {} => f[First(s)] \in Int /\ it[s \ {First(s)}] \in Int
      BY <1>2
    <3> QED
      BY <3>1 DEF SumRule
  <2>3. next \in [SUBSET S -> Int]
    BY <2>2
  <2>4. ASSUME NEW s \in SUBSET S, Cardinality(s) <= n + 1
        PROVE  next[s] = SumRule(f, next, s)
    <3>1. SumRule(f, next, s) = SumRule(f, it, s)
      <4>1. CASE s = {}
        BY <4>1 DEF SumRule
      <4>2. CASE s # {}
        <5>1. /\ s \ {First(s)} \in SUBSET S
              /\ Cardinality(s \ {First(s)}) # n + 1
          BY <1>1, <1>2, <2>4, <4>2
        <5>2. next[s \ {First(s)}] = it[s \ {First(s)}]
          BY <5>1
        <5> QED
          BY <5>2 DEF SumRule
      <4> QED
        BY <4>1, <4>2
    <3>2. CASE Cardinality(s) = n + 1
      BY <3>1, <3>2
    <3>3. CASE Cardinality(s) # n + 1
      <4>1. Cardinality(s) <= n
        BY <1>1, <2>4, <3>3
      <4> QED
        BY <2>1, <3>1, <3>3, <4>1
    <3> QED
      BY <3>2, <3>3
  <2> HIDE DEF next
  <2>5. Upto(n + 1, next)
    BY <2>4
  <2> QED
    BY <2>3, <2>5
<1>5. Cardinality(S) \in H
  <2> HIDE DEF H
  <2>1. Nat \subseteq H
    BY <1>3, <1>4, Induction
  <2> QED
    BY <2>1, FS_CardinalityType
<1>6. PICK it \in [SUBSET S -> Int] : Upto(Cardinality(S), it)
  BY <1>5
<1>7. \A s \in SUBSET S : it[s] = SumRule(f, it, s)
  BY <1>1, <1>6
<1>8. it = [s \in SUBSET S |-> SumRule(f, it, s)]
  BY <1>7
<1> QED
  BY <1>8 DEF SumTable

\* Hence SumFunction looks up one.
LEMMA SumIs ==
  ASSUME NEW S, IsFiniteSet(S), NEW f \in [S -> Int]
  PROVE  \E it : SumTable(f, S, it) /\ SumFunction(f) = it[S]
<1> DEFINE chosen == CHOOSE it : SumTable(f, S, it)
<1>1. \E it : SumTable(f, S, it)
  BY SumExists
<1>2. SumTable(f, S, chosen)
  BY <1>1, Zenon
<1>3. DOMAIN f = S
  OBVIOUS
<1>4. SumFunction(f) = chosen[S]
  BY <1>3 DEF SumFunction, SumFunctionOnSet, FoldFunctionOnSet, MapThenFoldSet,
              SumTable, SumRule, First
<1> QED
  BY <1>2, <1>4

\* Raising one element raises the sums that count it by as much.
LEMMA SumRaised ==
  ASSUME NEW S, IsFiniteSet(S), NEW f \in [S -> Int], NEW g \in [S -> Int],
         NEW p \in S, \A x \in S : x # p => g[x] = f[x]
  PROVE  /\ SumFunction(f) \in Int
         /\ SumFunction(g) = SumFunction(f) + (g[p] - f[p])
<1>1. PICK it : SumTable(f, S, it) /\ SumFunction(f) = it[S]
  BY SumIs
<1>2. PICK jt : SumTable(g, S, jt) /\ SumFunction(g) = jt[S]
  BY SumIs
<1> DEFINE Raise(s) == IF p \in s THEN g[p] - f[p] ELSE 0
           Good(s) == it[s] \in Int /\ jt[s] = it[s] + Raise(s)
           H == {n \in Nat : \A s \in SUBSET S : Cardinality(s) = n => Good(s)}
<1>3. \A s \in SUBSET S : it[s] = SumRule(f, it, s) /\ jt[s] = SumRule(g, jt, s)
  BY <1>1, <1>2 DEF SumTable
<1>4. 0 \in H
  <2> SUFFICES ASSUME NEW s \in SUBSET S, Cardinality(s) = 0 PROVE Good(s)
    OBVIOUS
  <2>1. s = {}
    BY FirstOut
  <2>2. it[s] = 0 /\ jt[s] = 0
    BY <1>3, <2>1 DEF SumRule
  <2> QED
    BY <2>1, <2>2
<1>5. ASSUME NEW n \in Nat, n \in H PROVE n + 1 \in H
  <2> SUFFICES ASSUME NEW s \in SUBSET S, Cardinality(s) = n + 1 PROVE Good(s)
    OBVIOUS
  <2> DEFINE x == First(s)
             r == s \ {x}
  <2>1. s # {}
    BY FS_EmptySet
  <2>2. /\ x \in s /\ x \in S /\ r \in SUBSET S
        /\ Cardinality(r) = n
    BY <2>1, FirstOut
  <2>3. Good(r)
    BY <1>5, <2>2
  <2>4. it[s] = f[x] + it[r] /\ jt[s] = g[x] + jt[r]
    BY <1>3, <2>1 DEF SumRule
  <2>5. f[x] \in Int /\ g[x] \in Int /\ f[p] \in Int /\ g[p] \in Int
    BY <2>2
  <2>6. CASE x = p
    <3>1. p \in s /\ p \notin r
      BY <2>2, <2>6
    <3>2. jt[r] = it[r]
      BY <2>3, <3>1
    <3> QED
      BY <2>3, <2>4, <2>5, <2>6, <3>1, <3>2
  <2>7. CASE x # p
    <3>1. (p \in s <=> p \in r) /\ g[x] = f[x]
      BY <2>2, <2>7
    <3>2. Raise(s) = Raise(r) /\ Raise(r) \in Int
      BY <2>5, <3>1
    <3> HIDE DEF Raise, x, r
    <3> QED
      BY <2>3, <2>4, <2>5, <3>1, <3>2
  <2> QED
    BY <2>6, <2>7
<1>6. Good(S)
  <2> HIDE DEF H
  <2>1. Cardinality(S) \in H
    BY <1>4, <1>5, Induction, FS_CardinalityType
  <2> QED
    BY <2>1 DEF H
<1> QED
  BY <1>1, <1>2, <1>6

\* A sum of zeros is zero.
LEMMA SumZero ==
  ASSUME NEW S, IsFiniteSet(S), NEW f \in [S -> Int], \A x \in S : f[x] = 0
  PROVE  SumFunction(f) = 0
<1>1. PICK it : SumTable(f, S, it) /\ SumFunction(f) = it[S]
  BY SumIs
<1> DEFINE H == {n \in Nat : \A s \in SUBSET S : Cardinality(s) = n => it[s] = 0}
<1>2. \A s \in SUBSET S : it[s] = SumRule(f, it, s)
  BY <1>1 DEF SumTable
<1>3. 0 \in H
  BY <1>2, FirstOut DEF SumRule
<1>4. ASSUME NEW n \in Nat, n \in H PROVE n + 1 \in H
  <2> SUFFICES ASSUME NEW s \in SUBSET S, Cardinality(s) = n + 1 PROVE it[s] = 0
    OBVIOUS
  <2>1. s # {}
    BY FS_EmptySet
  <2>2. /\ First(s) \in S /\ s \ {First(s)} \in SUBSET S
        /\ Cardinality(s \ {First(s)}) = n
    BY <2>1, FirstOut
  <2>3. it[s \ {First(s)}] = 0 /\ f[First(s)] = 0
    BY <1>4, <2>2
  <2> QED
    BY <1>2, <2>1, <2>3 DEF SumRule
<1>5. it[S] = 0
  <2> HIDE DEF H
  <2>1. Cardinality(S) \in H
    BY <1>3, <1>4, Induction, FS_CardinalityType
  <2> QED
    BY <2>1 DEF H
<1> QED
  BY <1>1, <1>5

-----------------------------------------------------------------------------
(* The undo values, under any use.                                         *)

\* The sum over the undo values of s, when those of p change alone.
LEMMA UndoChanged ==
  ASSUME TypeOK, NEW s \in SemIds, NEW p \in Procs,
         semadj' \in [Procs -> [SemIds -> Int]],
         \A q \in Procs : q # p => semadj'[q][s] = semadj[q][s]
  PROVE  /\ SumFunction(Undo(s)) \in Int
         /\ SumFunction(Undo(s))' =
              SumFunction(Undo(s)) + (semadj'[p][s] - semadj[p][s])
<1> DEFINE f == [q \in Procs |-> semadj[q][s]]
           g == [q \in Procs |-> semadj'[q][s]]
<1>1. f \in [Procs -> Int] /\ g \in [Procs -> Int]
  BY DEF TypeOK
<1>2. \A q \in Procs : q # p => g[q] = f[q]
  OBVIOUS
<1>3. f[p] = semadj[p][s] /\ g[p] = semadj'[p][s]
  OBVIOUS
<1>4. f = Undo(s) /\ g = Undo(s)'
  BY DEF Undo
<1>5. IsFiniteSet(Procs)
  BY ProcsAssumption
<1> HIDE DEF f, g
<1>6. SumFunction(f) \in Int /\ SumFunction(g) = SumFunction(f) + (g[p] - f[p])
  BY <1>1, <1>2, <1>5, SumRaised
<1>7. SumFunction(Undo(s)) = SumFunction(f) /\ SumFunction(Undo(s))' = SumFunction(g)
  BY <1>4
<1> QED
  BY <1>3, <1>6, <1>7

\* Nothing to give back.
LEMMA UndoNothing ==
  ASSUME NEW s \in SemIds, \A p \in Procs : semadj[p][s] = 0
  PROVE  SumFunction(Undo(s)) = 0
<1>1. Undo(s) \in [Procs -> Int] /\ \A p \in Procs : Undo(s)[p] = 0
  BY DEF Undo
<1> QED
  BY <1>1, ProcsAssumption, SumZero

\* semop moves a unit between the semaphore and the undo value; an end gives
\* back at least what it takes from the undo values; SETVAL begins anew.
LEMMA StepUndo ==
  ASSUME TypeOK, TypeOK', UndoBalance, NEW p \in Procs,
         \/ CreateStep(p) \/ LookUpStep(p) \/ AccessStep(p)
         \/ DestroyStep(p) \/ Ends(p)
  PROVE  UndoBalance'
<1> USE DEF semaphores
<1>1. ASSUME UNCHANGED <<semval, semadj, inited>> PROVE UndoBalance'
  BY <1>1 DEF UndoBalance, Undo
<1>2. ASSUME NEW op \in Int, Semop(p, op), UNCHANGED inited, handle[p] \in SemIds
      PROVE  UndoBalance'
  <2> SUFFICES ASSUME NEW s \in inited
               PROVE  semval'[s] + SumFunction(Undo(s))' >= 1
    BY <1>2 DEF UndoBalance
  <2>1. s \in SemIds /\ semval[s] \in Int /\ semadj[p][s] \in Int
    BY DEF TypeOK
  <2>2. \A q \in Procs : q # p => semadj'[q][s] = semadj[q][s]
    BY <1>2 DEF Semop, TypeOK
  <2>3. semval'[s] = semval[s] - (semadj'[p][s] - semadj[p][s])
    BY <1>2, <2>1 DEF Semop, TypeOK
  <2>4. /\ SumFunction(Undo(s)) \in Int
        /\ SumFunction(Undo(s))' =
             SumFunction(Undo(s)) + (semadj'[p][s] - semadj[p][s])
    BY <2>1, <2>2, UndoChanged DEF TypeOK
  <2>5. semval[s] + SumFunction(Undo(s)) >= 1
    BY DEF UndoBalance
  <2>6. semadj'[p][s] \in Int
    BY <2>1 DEF TypeOK
  <2> QED
    BY <2>1, <2>3, <2>4, <2>5, <2>6
<1>3. CASE SetInitialValue(p)
  <2> USE <1>3 DEF SetInitialValue, SetValue
  <2>1. CASE ~Exists(handle[p])
    BY <1>1, <2>1
  <2>2. CASE Exists(handle[p])
    <3> SUFFICES ASSUME NEW s \in inited'
                 PROVE  semval'[s] + SumFunction(Undo(s))' >= 1
      BY DEF UndoBalance
    <3>1. s \in SemIds /\ handle[p] \in SemIds
      BY <2>2 DEF TypeOK, Exists
    <3>2. CASE s = handle[p]
      <4>1. semval'[s] = 1 /\ \A q \in Procs : semadj'[q][s] = 0
        BY <2>2, <3>1, <3>2 DEF TypeOK
      <4>2. Undo(s)' \in [Procs -> Int] /\ \A q \in Procs : Undo(s)'[q] = 0
        BY <4>1 DEF Undo
      <4>3. SumFunction(Undo(s))' = 0
        BY <4>2, ProcsAssumption, SumZero
      <4> QED
        BY <4>1, <4>3
    <3>3. CASE s # handle[p]
      <4>1. /\ s \in inited /\ semval'[s] = semval[s]
            /\ \A q \in Procs : semadj'[q][s] = semadj[q][s]
        BY <2>2, <3>1, <3>3 DEF TypeOK
      <4>2. Undo(s)' = Undo(s)
        BY <4>1 DEF Undo
      <4> QED
        BY <4>1, <4>2 DEF UndoBalance
    <3> QED
      BY <3>2, <3>3
  <2> QED
    BY <2>1, <2>2
<1>4. CASE Acquired(p)
  BY <1>2, <1>4 DEF Acquired, Exists, TypeOK
<1>5. CASE Release(p)
  <2>1. CASE Exists(handle[p])
    BY <1>2, <1>5, <2>1 DEF Release, Exists, TypeOK
  <2>2. CASE ~Exists(handle[p])
    BY <1>1, <1>5, <2>2 DEF Release
  <2> QED
    BY <2>1, <2>2
<1>6. CASE Ends(p)
  <2> SUFFICES ASSUME NEW s \in inited
               PROVE  semval'[s] + SumFunction(Undo(s))' >= 1
    BY <1>6 DEF UndoBalance, Ends
  <2>1. s \in SemIds /\ semval[s] \in Int /\ semadj[p][s] \in Int
    BY DEF TypeOK
  <2>2. /\ \A q \in Procs : q # p => semadj'[q][s] = semadj[q][s]
        /\ semadj'[p][s] = 0
    BY <1>6, <2>1 DEF Ends, TypeOK
  <2>3. semval'[s] >= semval[s] + semadj[p][s] /\ semval'[s] \in Int
    BY <1>6, <2>1 DEF Ends, TypeOK
  <2>4. /\ SumFunction(Undo(s)) \in Int
        /\ SumFunction(Undo(s))' =
             SumFunction(Undo(s)) + (semadj'[p][s] - semadj[p][s])
    BY <2>1, <2>2, UndoChanged DEF TypeOK
  <2>5. semval[s] + SumFunction(Undo(s)) >= 1
    BY DEF UndoBalance
  <2> QED
    BY <2>1, <2>2, <2>3, <2>4, <2>5
<1> QED
  BY <1>1, <1>3, <1>4, <1>5, <1>6
     DEF CreateStep, LookUpStep, AccessStep, DestroyStep, GetSegment,
         ClearSegment, GetSemaphore, CreateFails, MapSegment, LookUpSemaphore,
         UnmapSegment, Acquire, AcquireFails, Write, DestroySemaphore,
         DestroySegment

\* The undo values keep track of what is taken, under any use of the
\* library: interrupted calls, repeated initialisations, removals and ends.
THEOREM UndoKept == Spec => []UndoBalance
<1>1. Init => UndoBalance
  BY DEF Init, UndoBalance
<1>2. TypeOK /\ TypeOK' /\ UndoBalance /\ [Next]_vars => UndoBalance'
  <2> SUFFICES ASSUME TypeOK, TypeOK', UndoBalance, [Next]_vars
               PROVE  UndoBalance'
    OBVIOUS
  <2>1. CASE Next
    BY <2>1, StepUndo DEF Next
  <2>2. CASE UNCHANGED vars
    BY <2>2 DEF vars, semaphores, UndoBalance, Undo
  <2> QED
    BY <2>1, <2>2
<1> QED
  BY TypeCorrect, <1>1, <1>2, PTL DEF Spec

\* No semaphore is left taken for ever: once nobody has anything to give
\* back, one that has been given its value is free.
THEOREM NotLeftTaken ==
  Spec => [](\A s \in inited :
               (\A p \in Procs : semadj[p][s] = 0) => semval[s] >= 1)
<1>1. TypeOK /\ UndoBalance =>
        \A s \in inited : (\A p \in Procs : semadj[p][s] = 0) => semval[s] >= 1
  <2> SUFFICES ASSUME TypeOK, UndoBalance, NEW s \in inited,
                      \A p \in Procs : semadj[p][s] = 0
               PROVE  semval[s] >= 1
    OBVIOUS
  <2>1. s \in SemIds /\ semval[s] \in Int
    BY DEF TypeOK
  <2>2. SumFunction(Undo(s)) = 0
    BY <2>1, UndoNothing
  <2> QED
    BY <2>1, <2>2 DEF UndoBalance
<1> QED
  BY TypeCorrect, UndoKept, <1>1, PTL

-----------------------------------------------------------------------------
(* Who may enter without waiting.                                          *)

\* Where nobody may remove, a process that has found its semaphore keeps finding
\* it, however many processes create it.
LEMMA StepHandleFound ==
  ASSUME Destroyers = {}, TypeOK, HandleFound, NEW p \in Procs,
         CreateStep(p) \/ LookUpStep(p) \/ AccessStep(p) \/ DestroyStep(p) \/ Ends(p)
  PROVE  HandleFound'
<1>1. /\ pc \in [Procs -> Labels] /\ handle \in [Procs -> SemIds \cup {NULL}]
      /\ semOf \in [Keys -> SemIds \cup {NULL}]
  BY DEF TypeOK
<1>2. /\ ~DestroySemaphore(p)
      /\ SemKey(p)' = SemKey(p)
  BY DEF DestroySemaphore, SemKey
<1>3. CASE GetSemaphore(p)
  <2>1. /\ pc' = [pc EXCEPT ![p] = "setval"]
        /\ pc[p] = "semget"
        /\ \E s \in SemIds :
             /\ handle' = [handle EXCEPT ![p] = s]
             /\ \/ s = semOf[SemKey(p)] /\ semOf' = semOf
                \/ /\ semOf[SemKey(p)] = NULL
                   /\ semOf' = [semOf EXCEPT ![SemKey(p)] = s]
    BY <1>3, <1>1, KeysOf DEF GetSemaphore, Goto
  <2> QED
    BY <2>1, <1>1, KeysOf, NullAssumption DEF HandleFound, SemKey
<1>4. CASE LookUpSemaphore(p)
  <2>1. /\ pc' = [pc EXCEPT ![p] = "ready"]
        /\ semOf[SemKey(p)] # NULL
        /\ handle' = [handle EXCEPT ![p] = semOf[SemKey(p)]]
        /\ semOf' = semOf
    BY <1>4 DEF LookUpSemaphore, Goto, semaphores
  <2> QED
    BY <2>1, <1>1 DEF HandleFound, SemKey
<1>5. ASSUME UNCHANGED <<semOf, handle>>,
             \/ pc' = pc
             \/ \E v : pc' = [pc EXCEPT ![p] = v]
                     /\ \/ v \notin {"setval", "ready", "wait", "access", "written"}
                        \/ pc[p] \in {"setval", "ready", "wait", "access", "written"}
      PROVE  HandleFound'
  BY <1>5, <1>1 DEF HandleFound, SemKey
<1>6. CASE GetSegment(p) \/ ClearSegment(p) \/ CreateFails(p) \/ SetInitialValue(p)
  BY <1>5, <1>6 DEF GetSegment, ClearSegment, CreateFails, SetInitialValue, SetValue,
     Goto, semaphores
<1>7. CASE MapSegment(p) \/ UnmapSegment(p)
  BY <1>5, <1>7 DEF MapSegment, UnmapSegment, Goto, semaphores
<1>8. CASE AccessStep(p)
  BY <1>5, <1>8 DEF AccessStep, Acquire, Acquired, AcquireFails, Write, Release,
     InAccess, Goto, semaphores
<1>9. CASE DestroySegment(p) \/ Ends(p)
  BY <1>5, <1>9 DEF DestroySegment, Ends, Goto, semaphores
<1> QED
  BY <1>2, <1>3, <1>4, <1>6, <1>7, <1>8, <1>9
     DEF CreateStep, LookUpStep, DestroyStep

\* What the failing run needs, a signal, is all that can go wrong with the wait:
\* without signals and removals AcquireAccessRight returns only when the semaphore
\* was free, whoever creates it again and whoever ends meanwhile.
THEOREM WaitsWithoutSignals ==
  ASSUME ~Interrupts, Destroyers = {}
  PROVE  Spec => AcquireWaits
<1>1. Init => HandleFound
  BY DEF Init, HandleFound
<1>2. TypeOK /\ HandleFound /\ [Next]_vars => HandleFound'
  <2> SUFFICES ASSUME TypeOK, HandleFound, [Next]_vars PROVE HandleFound'
    OBVIOUS
  <2>1. CASE Next
    BY <2>1, StepHandleFound DEF Next
  <2>2. CASE UNCHANGED vars
    BY <2>2 DEF vars, semaphores, processes, HandleFound, SemKey
  <2> QED
    BY <2>1, <2>2
<1>3. TypeOK /\ HandleFound /\ [Next]_vars =>
        [\A p \in Procs : pc[p] = "wait" /\ pc'[p] = "access" =>
           semval[handle[p]] > 0]_vars
  <2> SUFFICES ASSUME TypeOK, HandleFound, Next, NEW p \in Procs,
                      pc[p] = "wait", pc'[p] = "access"
               PROVE  semval[handle[p]] > 0
    OBVIOUS
  <2>1. PICK q \in Procs :
          CreateStep(q) \/ LookUpStep(q) \/ AccessStep(q) \/ DestroyStep(q) \/ Ends(q)
    BY DEF Next
  <2>2. pc \in [Procs -> Labels]
    BY DEF TypeOK
  <2>3. Exists(handle[p])
    BY SemaphoreThere
  <2>4. ~AcquireFails(p)
    BY <2>3 DEF AcquireFails
  <2>5. ~CreateStep(q) /\ ~LookUpStep(q) /\ ~DestroyStep(q) /\ ~Ends(q)
    BY <2>2 DEF CreateStep, GetSegment, ClearSegment, GetSemaphore, CreateFails,
       SetInitialValue, SetValue, LookUpStep, MapSegment, LookUpSemaphore,
       UnmapSegment, DestroyStep, DestroySemaphore, DestroySegment, Ends, Goto,
       processes
  <2>6. Acquired(q) \/ AcquireFails(q)
    BY <2>1, <2>2, <2>5 DEF AccessStep, Acquire, Write, Release, Goto
  <2>7. q = p
    BY <2>2, <2>6 DEF Acquired, AcquireFails, Goto
  <2>8. Acquired(p)
    BY <2>4, <2>6, <2>7
  <2> QED
    BY <2>8 DEF Acquired
<1> QED
  BY TypeCorrect, <1>1, <1>2, <1>3, PTL DEF Spec, AcquireWaits
=============================================================================
