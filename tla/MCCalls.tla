------------------------------ MODULE MCCalls ------------------------------
(***************************************************************************)
(* Calls on a small instance: two signatures, one or two handlers, two     *)
(* async calls and one client thread.                                      *)
(***************************************************************************)
EXTENDS Calls

CONSTANTS sigA, sigB, h1, task1, task2, client

MCSigs == {sigA, sigB}
MCHandlers == {h1}
MCTasks == {task1, task2}
MCClients == {client}
MCThrown == {"bad_call", "other"}
NoThrown == {}
NoClients == {}
OneTask == {task1}
=============================================================================
