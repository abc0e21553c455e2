---------------------------- MODULE AccessRight ----------------------------
(***************************************************************************)
(* What the semaphore functions of libshmsem promise their callers: the    *)
(* right to access a shared segment is held by one process at a time, and  *)
(* goes back when its holder releases it or ends.                          *)
(***************************************************************************)
CONSTANTS
  Procs,      \* the processes
  Instance(_) \* the instance, segment and semaphore, a process works on

VARIABLE right \* per process: "none", "wanted" or "held"

Init == right = [p \in Procs |-> "none"]

Ask(p) ==
  /\ right[p] = "none"
  /\ right' = [right EXCEPT ![p] = "wanted"]

Obtain(p) ==
  /\ right[p] = "wanted"
  /\ \A q \in Procs : Instance(q) = Instance(p) => right[q] # "held"
  /\ right' = [right EXCEPT ![p] = "held"]

\* A release; or the end of a process, whatever it was doing.
GiveUp(p) ==
  /\ right[p] # "none"
  /\ right' = [right EXCEPT ![p] = "none"]

Next == \E p \in Procs : Ask(p) \/ Obtain(p) \/ GiveUp(p)

Spec == Init /\ [][Next]_right
=============================================================================
