---------------------------- MODULE MCConference ----------------------------
(* Conference with a receiver, the decoder behind it and the monitor busy.  *)
EXTENDS Conference

FirstClient == {<<"recv", 0>>, <<"dec", 0>>, <<"mon", 0>>}
=============================================================================
