---------------------------- MODULE MCEventLoop ----------------------------
(***************************************************************************)
(* EventLoop on small instances: four tasks for the safety run, three for  *)
(* the liveness run; the tasks in RemoteWaiters also wait for another      *)
(* thread.  Tasks that play the same role are interchangeable.             *)
(***************************************************************************)
EXTENDS EventLoop, TLC

CONSTANTS t1, t2, t3, t4

MCTasks == {t1, t2, t3, t4}
MCRemoteWaiters == {t1, t2}
Symmetry == Permutations(MCRemoteWaiters) \cup Permutations(MCTasks \ MCRemoteWaiters)

LiveTasks == {t1, t2, t3}
LiveRemoteWaiters == {t1}
=============================================================================
