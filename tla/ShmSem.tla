------------------------------- MODULE ShmSem -------------------------------
(***************************************************************************)
(* libshmsem: one shared segment and one semaphore per instance, System V  *)
(* objects found by the key that ftok makes of an offset.  Processes that  *)
(* create an instance, processes that look it up, the right of access      *)
(* under SEM_UNDO, removal, interrupted operations, and the end of a       *)
(* process at any moment.  One system call is one step.                    *)
(*                                                                         *)
(* The library has two families of functions: the older computes two keys  *)
(* from sh_id, the newer ("Ext") uses one key for both objects and clears  *)
(* the segment.                                                            *)
(***************************************************************************)
EXTENDS Integers, FiniteSets, Functions

CONSTANTS
  Procs,      \* the processes
  Id,         \* per process: the sh_id (id) it passes to the library
  Creators,   \* the processes that create an instance; others look it up
  Destroyers, \* the processes that may call DestroyShmSem
  Ext,        \* the newer family of functions
  Interrupts, \* signals may interrupt a process that waits in semop
  SemIds,     \* the semaphore ids the kernel hands out, each once
  SegIds,     \* the segment ids the kernel hands out, each once
  MaxDebt,    \* a bound: how many releases without a right a process makes
  NULL        \* no object

ASSUME ProcsAssumption ==
  IsFiniteSet(Procs) /\ Creators \subseteq Procs /\ Destroyers \subseteq Procs
ASSUME IdAssumption == Id \in [Procs -> Nat]
ASSUME ModeAssumption == Ext \in BOOLEAN /\ Interrupts \in BOOLEAN
ASSUME DebtAssumption == MaxDebt \in Nat \ {0}
ASSUME NullAssumption == NULL \notin SemIds \cup SegIds \cup Procs

VARIABLES
  semOf,  \* the kernel's table of semaphores: from key to id, or NULL
  semval, \* the value of each semaphore
  semadj, \* per process and semaphore: what the end of the process adds
  inited, \* history: the semaphores SETVAL has been applied to
  sems,   \* the semaphore ids handed out so far
  segOf,  \* the kernel's table of segments
  segs,   \* the segment ids handed out so far
  data,   \* per segment: who wrote it last, NULL when it is zero
  pc,     \* per process: where it is in its use of the library
  handle, \* per process: semid, or NULL
  mapped  \* per process: the segment mem_ptr points to, or NULL

semaphores == <<semOf, semval, semadj, inited, sems>>
segments == <<segOf, segs, data>>
processes == <<pc, handle, mapped>>
vars == <<semaphores, segments, processes>>

\* Only the low eight bits of ftok's second argument count.
ShmKey(p) == (IF Ext THEN Id[p] ELSE Id[p] + 1) % 256
SemKey(p) == (IF Ext THEN Id[p] ELSE Id[p] + 2) % 256

\* DestroyShmSem looks for both objects under one key.
DestroyKey(p) == (Id[p] + 1) % 256

Keys == UNION {{ShmKey(p), SemKey(p), DestroyKey(p)} : p \in Procs}

Labels == {"new", "clear", "semget", "setval", "map", "lookup", "ready",
           "wait", "access", "written", "remove", "gone"}

Init ==
  /\ semOf = [k \in Keys |-> NULL]
  /\ semval = [s \in SemIds |-> 0]
  /\ semadj = [p \in Procs |-> [s \in SemIds |-> 0]]
  /\ inited = {}
  /\ sems = {}
  /\ segOf = [k \in Keys |-> NULL]
  /\ segs = {}
  /\ data = [g \in SegIds |-> NULL]
  /\ pc = [p \in Procs |-> IF p \in Creators THEN "new" ELSE "map"]
  /\ handle = [p \in Procs |-> NULL]
  /\ mapped = [p \in Procs |-> NULL]

Goto(p, from, to) == pc[p] = from /\ pc' = [pc EXCEPT ![p] = to]

\* A semaphore that IPC_RMID has not removed.
Exists(s) == \E k \in Keys : semOf[k] = s /\ s # NULL

-----------------------------------------------------------------------------
(* InitialShmSem(mem_size, sh_id), or InitialShm(mem_size, id) followed by *)
(* InitialSem(id).                                                         *)

\* shmget with IPC_CREAT, which finds the segment of the key or makes one,
\* and shmat.
GetSegment(p) ==
  /\ Goto(p, "new", IF Ext THEN "clear" ELSE "semget")
  /\ \/ /\ segOf[ShmKey(p)] # NULL
        /\ mapped' = [mapped EXCEPT ![p] = segOf[ShmKey(p)]]
        /\ UNCHANGED <<segOf, segs>>
     \/ /\ segOf[ShmKey(p)] = NULL
        /\ \E g \in SegIds \ segs :
             /\ segOf' = [segOf EXCEPT ![ShmKey(p)] = g]
             /\ segs' = segs \cup {g}
             /\ mapped' = [mapped EXCEPT ![p] = g]
  /\ UNCHANGED <<semaphores, data, handle>>

\* bzero, in the newer family.
ClearSegment(p) ==
  /\ Goto(p, "clear", "semget")
  /\ data' = [data EXCEPT ![mapped[p]] = NULL]
  /\ UNCHANGED <<semaphores, segOf, segs, handle, mapped>>

\* semget with IPC_CREAT; a new semaphore has the value zero.
GetSemaphore(p) ==
  /\ Goto(p, "semget", "setval")
  /\ \/ /\ semOf[SemKey(p)] # NULL
        /\ handle' = [handle EXCEPT ![p] = semOf[SemKey(p)]]
        /\ UNCHANGED <<semOf, sems>>
     \/ /\ semOf[SemKey(p)] = NULL
        /\ \E s \in SemIds \ sems :
             /\ semOf' = [semOf EXCEPT ![SemKey(p)] = s]
             /\ sems' = sems \cup {s}
             /\ handle' = [handle EXCEPT ![p] = s]
  /\ UNCHANGED <<semval, semadj, inited, segments, mapped>>

\* shmget, shmat or semget fails: the function returns, what it has made so
\* far stays, and the caller goes on with what it finds.
CreateFails(p) ==
  /\ pc[p] \in {"new", "clear", "semget"}
  /\ pc' = [pc EXCEPT ![p] = "map"]
  /\ UNCHANGED <<semaphores, segments, handle, mapped>>

\* SETVAL gives the semaphore a value and forgets every process's undo.
SetValue(p, v) ==
  /\ Goto(p, "setval", "map")
  /\ \/ /\ Exists(handle[p])
        /\ semval' = [semval EXCEPT ![handle[p]] = v]
        /\ semadj' = [q \in Procs |-> [semadj[q] EXCEPT ![handle[p]] = 0]]
        /\ inited' = inited \cup {handle[p]}
     \/ /\ ~Exists(handle[p])
        /\ UNCHANGED <<semval, semadj, inited>>
  /\ UNCHANGED <<semOf, sems, segments, handle, mapped>>

\* Two processes let in.
SetInitialValue_Two(p) == SetValue(p, 2)

SetInitialValue(p) == SetValue(p, 1)

-----------------------------------------------------------------------------
(* MappingShareMemOwnSpace, GetExistedSemphore, UnmappingShareMem.  Where  *)
(* the lookup fails the functions call exit; that is among the Ends below. *)

MapSegment(p) ==
  /\ Goto(p, "map", "lookup")
  /\ segOf[ShmKey(p)] # NULL
  /\ mapped' = [mapped EXCEPT ![p] = segOf[ShmKey(p)]]
  /\ UNCHANGED <<semaphores, segments, handle>>

LookUpSemaphore(p) ==
  /\ Goto(p, "lookup", "ready")
  /\ semOf[SemKey(p)] # NULL
  /\ handle' = [handle EXCEPT ![p] = semOf[SemKey(p)]]
  /\ UNCHANGED <<semaphores, segments, mapped>>

UnmapSegment(p) ==
  /\ pc[p] = "ready"
  /\ mapped[p] # NULL
  /\ mapped' = [mapped EXCEPT ![p] = NULL]
  /\ UNCHANGED <<semaphores, segments, pc, handle>>

-----------------------------------------------------------------------------
(* AcquireAccessRight, ReleaseAccessRight, and the access between them.    *)

\* semop without SEM_UNDO.
Semop_NoUndo(p, op) ==
  /\ semval' = [semval EXCEPT ![handle[p]] = @ + op]
  /\ UNCHANGED semadj

\* semop by p with SEM_UNDO.
Semop(p, op) ==
  /\ semval' = [semval EXCEPT ![handle[p]] = @ + op]
  /\ semadj' = [semadj EXCEPT ![p][handle[p]] = @ - op]

Acquire(p) ==
  /\ Goto(p, "ready", "wait")
  /\ semadj[p][handle[p]] > -MaxDebt
  /\ UNCHANGED <<semaphores, segments, handle, mapped>>

\* The subtraction that does not wait for a positive value.
Acquired_Unguarded(p) ==
  /\ Goto(p, "wait", "access")
  /\ Exists(handle[p])
  /\ Semop(p, -1)
  /\ UNCHANGED <<semOf, inited, sems, segments, handle, mapped>>

Acquired(p) ==
  /\ Goto(p, "wait", "access")
  /\ Exists(handle[p])
  /\ semval[handle[p]] > 0
  /\ Semop(p, -1)
  /\ UNCHANGED <<semOf, inited, sems, segments, handle, mapped>>

\* semop fails, a signal has come or the semaphore is gone; its result is
\* not looked at.
AcquireFails(p) ==
  /\ Goto(p, "wait", "access")
  /\ Interrupts \/ ~Exists(handle[p])
  /\ UNCHANGED <<semaphores, segments, handle, mapped>>

\* What the right is for.
Write(p) ==
  /\ Goto(p, "access", "written")
  /\ mapped[p] # NULL
  /\ data' = [data EXCEPT ![mapped[p]] = p]
  /\ UNCHANGED <<semaphores, segOf, segs, handle, mapped>>

InAccess(p) == pc[p] \in {"access", "written"}

\* An addition never waits; it fails when the semaphore is gone.
Release(p) ==
  /\ InAccess(p)
  /\ pc' = [pc EXCEPT ![p] = "ready"]
  /\ \/ Exists(handle[p]) /\ Semop(p, 1)
     \/ ~Exists(handle[p]) /\ UNCHANGED <<semval, semadj>>
  /\ UNCHANGED <<semOf, inited, sems, segments, handle, mapped>>

-----------------------------------------------------------------------------
(* DestroyShmSem(sh_id), of the older family.                              *)

DestroySemaphore(p) ==
  /\ p \in Destroyers
  /\ Goto(p, "ready", "remove")
  /\ semOf' = [semOf EXCEPT ![DestroyKey(p)] = NULL]
  /\ UNCHANGED <<semval, semadj, inited, sems, segments, handle, mapped>>

\* Processes that have mapped the segment keep it.
DestroySegment(p) ==
  /\ Goto(p, "remove", "gone")
  /\ segOf' = [segOf EXCEPT ![DestroyKey(p)] = NULL]
  /\ UNCHANGED <<semaphores, segs, data, handle, mapped>>

-----------------------------------------------------------------------------
\* A process ends: exit in the library, exit by the caller, or a kill.  The
\* kernel adds its undo values, no semaphore going below zero.
Ends(p) ==
  /\ pc[p] # "gone"
  /\ pc' = [pc EXCEPT ![p] = "gone"]
  /\ semval' = [s \in SemIds |->
                  IF semval[s] + semadj[p][s] < 0 THEN 0
                  ELSE semval[s] + semadj[p][s]]
  /\ semadj' = [semadj EXCEPT ![p] = [s \in SemIds |-> 0]]
  /\ mapped' = [mapped EXCEPT ![p] = NULL]
  /\ UNCHANGED <<semOf, inited, sems, segments, handle>>

CreateStep(p) ==
  \/ GetSegment(p) \/ ClearSegment(p) \/ GetSemaphore(p)
  \/ CreateFails(p) \/ SetInitialValue(p)

LookUpStep(p) == MapSegment(p) \/ LookUpSemaphore(p) \/ UnmapSegment(p)

AccessStep(p) ==
  Acquire(p) \/ Acquired(p) \/ AcquireFails(p) \/ Write(p) \/ Release(p)

DestroyStep(p) == DestroySemaphore(p) \/ DestroySegment(p)

Next ==
  \E p \in Procs :
    CreateStep(p) \/ LookUpStep(p) \/ AccessStep(p) \/ DestroyStep(p) \/ Ends(p)

Spec == Init /\ [][Next]_vars

\* A creator goes on, a holder releases in the end, and the kernel wakes the
\* sleepers of a semaphore in the order they came.
FairSpec ==
  Spec /\ \A p \in Procs : /\ WF_vars(CreateStep(p))
                           /\ WF_vars(Release(p))
                           /\ SF_vars(Acquired(p))

-----------------------------------------------------------------------------
(* Properties.                                                             *)

\* Every variable keeps its type; in particular no semaphore goes below
\* zero, whatever SETVAL, interrupted calls and ends of processes do to it.
TypeOK ==
  /\ semOf \in [Keys -> SemIds \cup {NULL}]
  /\ semval \in [SemIds -> Nat]
  /\ semadj \in [Procs -> [SemIds -> Int]]
  /\ inited \in SUBSET SemIds
  /\ sems \in SUBSET SemIds
  /\ segOf \in [Keys -> SegIds \cup {NULL}]
  /\ segs \in SUBSET SegIds
  /\ data \in [SegIds -> Procs \cup {NULL}]
  /\ pc \in [Procs -> Labels]
  /\ handle \in [Procs -> SemIds \cup {NULL}]
  /\ mapped \in [Procs -> SegIds \cup {NULL}]

\* The use under which the library keeps its promise: one process creates
\* each semaphore, none is removed, and no signal interrupts a waiter.
Careful ==
  /\ ~Interrupts
  /\ Destroyers = {}
  /\ \A p, q \in Creators : SemKey(p) = SemKey(q) => p = q

\* At most one process per semaphore is between the return of
\* AcquireAccessRight and ReleaseAccessRight.
AccessExclusive ==
  \A p, q \in Procs :
    InAccess(p) /\ InAccess(q) /\ SemKey(p) = SemKey(q) => p = q

Holds(p, s) == InAccess(p) /\ handle[p] = s

\* A semaphore is free exactly when it has been given its value and nobody
\* holds it, although holders may end at any moment; and a process would
\* give back by ending exactly what it holds.
SemaphoreExact ==
  \A s \in SemIds :
    /\ semval[s] =
         IF s \in inited /\ ~\E p \in Procs : Holds(p, s) THEN 1 ELSE 0
    /\ \A p \in Procs : semadj[p][s] = IF Holds(p, s) THEN 1 ELSE 0

\* What a process writes under its right stays until it gives it up: the
\* semaphore of an instance guards the segment of that instance.
Undisturbed == \A p \in Procs : pc[p] = "written" => data[mapped[p]] = p

\* The right of each process, as AccessRight sees it.
Right(p) ==
  IF pc[p] = "wait" THEN "wanted" ELSE IF InAccess(p) THEN "held" ELSE "none"
rights == [p \in Procs |-> Right(p)]

A == INSTANCE AccessRight WITH
       Instance <- SemKey,
       right <- rights

\* AcquireAccessRight and ReleaseAccessRight implement the exclusive right.
ImplementsAccessRight == A!Spec

\* What the ends of all processes would give back of a semaphore.
Undo(s) == [p \in Procs |-> semadj[p][s]]

\* Whatever the callers do, the undo values keep track: once nobody is left
\* who has something to give back, an initialised semaphore is free, so no
\* sequence of interrupted calls, repeated initialisations and sudden ends
\* leaves it taken for ever.
UndoBalance == \A s \in inited : semval[s] + SumFunction(Undo(s)) >= 1

\* AcquireAccessRight returns only when the semaphore was free.
AcquireWaits ==
  [][\A p \in Procs : pc[p] = "wait" /\ pc'[p] = "access" =>
       semval[handle[p]] > 0]_vars

\* A waiting process gets the right, unless its creator ended before it gave
\* the semaphore its value.
WaiterServed ==
  \A p \in Procs :
    pc[p] = "wait" ~>
      \/ pc[p] # "wait"
      \/ /\ handle[p] \notin inited
         /\ \A q \in Procs : pc[q] = "setval" => handle[q] # handle[p]
-----------------------------------------------------------------------------
(* The inductive invariant, under Careful.                                 *)

\* A process works with the semaphore that its key leads to.
HandleFound ==
  \A p \in Procs :
    pc[p] \in {"setval", "ready", "wait", "access", "written"} =>
      handle[p] # NULL /\ semOf[SemKey(p)] = handle[p]

\* Likewise for the segment.
MappedFound ==
  \A p \in Procs :
    /\ mapped[p] # NULL => segOf[ShmKey(p)] = mapped[p]
    /\ pc[p] \in {"clear", "written"} => mapped[p] # NULL

\* No two keys lead to one object; what a key leads to has been handed out.
KeysApart ==
  /\ \A k, l \in Keys : semOf[k] = semOf[l] /\ semOf[k] # NULL => k = l
  /\ \A k, l \in Keys : segOf[k] = segOf[l] /\ segOf[k] # NULL => k = l
  /\ \A k \in Keys : semOf[k] # NULL => semOf[k] \in sems
  /\ \A k \in Keys : segOf[k] # NULL => segOf[k] \in segs
  /\ inited \subseteq sems

\* Before its creator makes it there is no semaphore, and before its creator
\* gives it a value it has none; and nobody removes it.
CreatedOnce ==
  \A p \in Procs :
    /\ pc[p] # "remove"
    /\ pc[p] \in {"new", "clear", "semget", "setval"} => p \in Creators
    /\ pc[p] \in {"new", "clear", "semget"} => semOf[SemKey(p)] = NULL
    /\ pc[p] = "setval" => handle[p] \notin inited

\* A semaphore with a holder has been given its value, and has one holder.
RightSound ==
  \A p \in Procs : InAccess(p) =>
    /\ handle[p] \in inited
    /\ \A q \in Procs : InAccess(q) /\ handle[q] = handle[p] => q = p

IInv ==
  /\ TypeOK
  /\ HandleFound
  /\ MappedFound
  /\ KeysApart
  /\ CreatedOnce
  /\ RightSound
  /\ SemaphoreExact
  /\ Undisturbed
=============================================================================
