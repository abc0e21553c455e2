------------------------------ MODULE Reception ------------------------------
(***************************************************************************)
(* What the daemon promises the clients that connect to it.  Every         *)
(* connection goes its own way; what goes wrong with the server, at one    *)
(* moment, costs at most one connection that has been accepted and those   *)
(* that nobody has accepted yet.  A client that is served is heard to the  *)
(* end, and gets its one conference unless it has declined.  Daemon        *)
(* implements it.                                                          *)
(***************************************************************************)
CONSTANT Clients \* the connections that are ever opened

VARIABLES
  stage, \* per connection: "new", "waiting", "refused", "accepted", "lost",
         \* "served", "conference", "over"
  said   \* per connection: "nothing", or what the client has said

receptionVars == <<stage, said>>

Init ==
  /\ stage = [c \in Clients |-> "new"]
  /\ said = [c \in Clients |-> "nothing"]

Goes(c, from, to) ==
  /\ stage[c] \in from
  /\ stage' = [stage EXCEPT ![c] = to]
  /\ UNCHANGED said

Arrive(c) == Goes(c, {"new"}, "waiting")
Take(c) == Goes(c, {"waiting"}, "accepted")
Serve(c) == Goes(c, {"accepted"}, "served")

\* Before it is served, a client may speak and nobody hears it.
Speak(c, w) ==
  /\ stage[c] \notin {"new", "refused"}
  /\ said[c] = "nothing"
  /\ said' = [said EXCEPT ![c] = w]
  /\ UNCHANGED stage

\* Only a client that has spoken, and not declined, gets a conference.
Confer(c) ==
  /\ said[c] \notin {"nothing", "x"}
  /\ Goes(c, {"served"}, "conference")

\* A client that is served is done without a conference when it has declined, or
\* when it is gone by the time of the answer.
Leave(c) ==
  /\ said[c] # "nothing"
  /\ Goes(c, {"served"}, "over")

Finish(c) == Goes(c, {"conference"}, "over")

At(s) == {c \in Clients : stage[c] = s}

\* Something fails: an accepted connection is lost, or all that wait are
\* refused, or both.
Break ==
  /\ \E lost \in {{}} \cup {{c} : c \in At("accepted")} :
     \E refused \in {{}, At("waiting")} :
       stage' = [c \in Clients |-> IF c \in lost THEN "lost"
                                   ELSE IF c \in refused THEN "refused"
                                   ELSE stage[c]]
  /\ UNCHANGED said

Next ==
  \/ Break
  \/ \E c \in Clients : \/ Arrive(c) \/ Take(c) \/ Serve(c)
                        \/ Confer(c) \/ Leave(c) \/ Finish(c)
                        \/ \E w \in {"x", "go", "end"} : Speak(c, w)

Spec == Init /\ [][Next]_receptionVars
=============================================================================
