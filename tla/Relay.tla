-------------------------------- MODULE Relay --------------------------------
(***************************************************************************)
(* What the worker threads promise together: every frame that a decoder    *)
(* puts out goes to the network once, in a picture with at most one frame  *)
(* of every client and at least one of somebody; and a client's frames in  *)
(* their order, where one mixer serves them.  Pipeline implements it.      *)
(***************************************************************************)
EXTENDS Naturals, Sequences

CONSTANTS
  Clients,
  Frames,   \* per client: the numbers of the frames there can be
  NoFrame,  \* what a picture shows of a client without a frame
  InOrder   \* whether the frames of a client keep their order

VARIABLES
  waiting,  \* per client: the frames decoded and not yet sent
  pictures  \* the pictures sent; a function from clients to frames each

relayVars == <<waiting, pictures>>

Init ==
  /\ waiting = [c \in Clients |-> {}]
  /\ pictures = <<>>

\* A frame newer than all before it, sent or waiting.
Decode(c, k) ==
  /\ UNCHANGED pictures
  /\ \A i \in DOMAIN pictures : pictures[i][c] < k
  /\ \A j \in waiting[c] : j < k
  /\ waiting' = [waiting EXCEPT ![c] = @ \cup {k}]

Pictures == [Clients -> (UNION {Frames[c] : c \in Clients}) \cup {NoFrame}]

\* A picture of frames that wait, in order of the oldest, and of somebody.
Send(f) ==
  /\ pictures' = Append(pictures, f)
  /\ \E c \in Clients : f[c] # NoFrame
  /\ \A c \in Clients : f[c] # NoFrame => f[c] \in waiting[c]
  /\ InOrder => \A c \in Clients : \A k \in waiting[c] :
                  f[c] # NoFrame => f[c] <= k
  /\ waiting' = [c \in Clients |-> waiting[c] \ {f[c]}]

\* Every step changes what waits.
Next ==
  /\ waiting' # waiting
  /\ \/ \E c \in Clients : \E k \in Frames[c] : Decode(c, k)
     \/ \E f \in Pictures : Send(f)

Spec == Init /\ [][Next]_relayVars
=============================================================================
