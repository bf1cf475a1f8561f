---------------------------- MODULE TaskExecutor ----------------------------
(***************************************************************************)
(* What EventLoop<Network> promises the rest of the library, without       *)
(* threads, fibers or stacks: tasks begin in the order they were posted,   *)
(* each at most once; once the loop is closed none begins; and Stop()      *)
(* returns only when no task is left half-way.  EventLoop.tla implements   *)
(* this specification; the modules about calls and events build on it.     *)
(***************************************************************************)
EXTENDS Sequences

CONSTANT Tasks     \* the tasks that may be posted, each once

VARIABLES pending,    \* posted and not begun, in posting order
          begun,      \* begun and not completed
          completed,  \* run to the end
          closed,     \* no task begins any more
          quiescent   \* Stop() has returned

taskVars == <<pending, begun, completed, closed, quiescent>>

Posted == {pending[i] : i \in DOMAIN pending} \cup begun \cup completed

ExecInit ==
  /\ pending = <<>>
  /\ begun = {}
  /\ completed = {}
  /\ closed = FALSE
  /\ quiescent = FALSE

PostFront(t) ==   \* mutant: the newest task goes first
  /\ t \notin Posted
  /\ pending' = <<t>> \o pending
  /\ UNCHANGED <<begun, completed, closed, quiescent>>

Post(t) ==
  /\ t \notin Posted
  /\ pending' = Append(pending, t)
  /\ UNCHANGED <<begun, completed, closed, quiescent>>

Begin ==
  /\ ~closed
  /\ pending # <<>>
  /\ begun' = begun \cup {Head(pending)}
  /\ pending' = Tail(pending)
  /\ UNCHANGED <<completed, closed, quiescent>>

Complete(t) ==
  /\ t \in begun
  /\ begun' = begun \ {t}
  /\ completed' = completed \cup {t}
  /\ UNCHANGED <<pending, closed, quiescent>>

Close ==
  /\ ~closed
  /\ closed' = TRUE
  /\ UNCHANGED <<pending, begun, completed, quiescent>>

Quiesce ==
  /\ closed
  /\ begun = {}
  /\ quiescent' = TRUE
  /\ UNCHANGED <<pending, begun, completed, closed>>

ExecNext ==
  \/ \E t \in Tasks : Post(t) \/ Complete(t)
  \/ Begin \/ Close \/ Quiesce

ExecSpec == ExecInit /\ [][ExecNext]_taskVars
=============================================================================
