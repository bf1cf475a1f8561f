------------------------------ MODULE MCTimer ------------------------------
(***************************************************************************)
(* Timer on small instances, with a tick of half a millisecond: a DoEvery  *)
(* of 1.5 ms, and DoIns of 0.5 ms and of 2 ms, on a clock of a few ticks.  *)
(***************************************************************************)
EXTENDS Timer, TLC

CONSTANTS every1, in1, in2, Client

MCRequests == {every1, in1, in2}
MCRepeating == {every1}
MCDuration == every1 :> 3 @@ in1 :> 1 @@ in2 :> 4
OneClient == {Client}
NoClients == {}
=============================================================================
