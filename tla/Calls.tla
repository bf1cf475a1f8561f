-------------------------------- MODULE Calls --------------------------------
(***************************************************************************)
(* The function registry of dispatcher.hpp: attach, detach, call and       *)
(* async_call.  Each signature has one std::function, empty or holding a   *)
(* handler.  A handler may call other signatures, throw, and catch what    *)
(* its own calls threw, so an actor - a task on the event loop, or another *)
(* thread of the program - has a stack of calls.                           *)
(*                                                                         *)
(* call turns std::bad_function_call into NoHandler; async_call, which     *)
(* posts the invocation as a task, turns nothing into anything: what       *)
(* leaves a task leaves its fiber.  The loop is TaskExecutor.              *)
(***************************************************************************)
EXTENDS Naturals, Sequences, SequencesExt

CONSTANTS Sigs,       \* the signatures
          Handlers,   \* the callables that are attached
          Tasks,      \* the calls of async_call
          Clients,    \* the program's own threads that use call
          Thrown,     \* what handlers throw: "bad_call", "other", or neither
          None,       \* no handler, no exception, no signature
          MaxCalls    \* calls and throws of one actor (bound)

ASSUME CallsAssumption ==
  /\ None \notin Handlers /\ None \notin Sigs
  /\ Tasks \cap Clients = {}
  /\ Thrown \subseteq {"bad_call", "other"}
  /\ MaxCalls \in Nat

Actors == Tasks \cup Clients

VARIABLES
  function,   \* function[s]: the handler attached to s, or None
  stack,      \* stack[a]: the calls actor a is in, outermost first
  flying,     \* flying[a]: the exception on its way up a's stack, or None
  target,     \* target[t]: the signature of task t's async_call
  fulfilled,  \* the tasks whose promise has its value
  aborted     \* std::terminate

VARIABLES pending, begun, completed, closed, quiescent

Loop == INSTANCE TaskExecutor

\* History: what the properties talk about.
VARIABLES
  made,       \* made[a]: calls and throws of a so far
  origin,     \* origin[a]: the innermost call when a's exception was thrown
  cause       \* cause[a]: what it was: "unattached", or what the handler threw

loop == <<pending, begun, completed, closed, quiescent>>
history == <<made, origin, cause>>
vars == <<function, stack, flying, target, fulfilled, aborted, loop, history>>

Init ==
  /\ function = [s \in Sigs |-> None]
  /\ stack = [a \in Actors |-> <<>>]
  /\ flying = [a \in Actors |-> None]
  /\ target = [t \in Tasks |-> None]
  /\ fulfilled = {} /\ aborted = FALSE
  /\ Loop!ExecInit
  /\ made = [a \in Actors |-> 0]
  /\ origin = [a \in Actors |-> None]
  /\ cause = [a \in Actors |-> None]

Exception(what, s) == [what |-> what, sig |-> s]

-----------------------------------------------------------------------------
Attach(s, h) ==
  /\ ~aborted
  /\ function' = [function EXCEPT ![s] = h]
  /\ UNCHANGED <<stack, flying, target, fulfilled, aborted, loop, history>>

Detach(s) ==
  /\ ~aborted
  /\ function' = [function EXCEPT ![s] = None]
  /\ UNCHANGED <<stack, flying, target, fulfilled, aborted, loop, history>>

\* Actor a executes code of its own: a client, or a handler on a's stack.
Runs(a) == ~aborted /\ flying[a] = None /\ (a \in Clients \/ stack[a] # <<>>)

\* a makes another call or throws (bound).
Spend(a) ==
  /\ made[a] < MaxCalls
  /\ made' = [made EXCEPT ![a] = @ + 1]

\* call<s>(...): invoking an empty std::function throws bad_function_call,
\* which call itself turns into NoHandler<s>.
Call(a, s) ==
  /\ Runs(a) /\ Spend(a)
  /\ IF function[s] = None
     THEN /\ flying' = [flying EXCEPT ![a] = Exception("no_handler", s)]
          /\ origin' = [origin EXCEPT ![a] = s]
          /\ cause' = [cause EXCEPT ![a] = "unattached"]
          /\ UNCHANGED stack
     ELSE /\ stack' = [stack EXCEPT ![a] = Append(@, s)]
          /\ UNCHANGED <<flying, origin, cause>>
  /\ UNCHANGED <<function, target, fulfilled, aborted, loop>>

\* async_call<s>(...): only posts; it does not look at the function.
AsyncCall(t, s) ==
  /\ ~aborted
  /\ Loop!Post(t)
  /\ target' = [target EXCEPT ![t] = s]
  /\ UNCHANGED <<function, stack, flying, fulfilled, aborted, history>>

\* The task invokes the function as it is now.
BeginTask ==
  /\ ~aborted
  /\ Loop!Begin
  /\ LET t == Head(pending) IN
       IF function[target[t]] = None
       THEN aborted' = TRUE /\ UNCHANGED stack
       ELSE stack' = [stack EXCEPT ![t] = <<target[t]>>] /\ UNCHANGED aborted
  /\ UNCHANGED <<function, flying, target, fulfilled, history>>

\* The innermost call is over.
StackKept(s) == s   \* mutant: the call stays on the stack

Unwound(s) == Front(s)

Outermost(a) == a \in Tasks /\ Len(stack[a]) = 1

\* A handler returns.  The last one of a task fulfils the promise.
Return(a) ==
  /\ ~aborted
  /\ flying[a] = None /\ stack[a] # <<>>
  /\ stack' = [stack EXCEPT ![a] = Unwound(@)]
  /\ IF Outermost(a)
     THEN fulfilled' = fulfilled \cup {a} /\ Loop!Complete(a)
     ELSE UNCHANGED <<fulfilled, loop>>
  /\ UNCHANGED <<function, flying, target, aborted, history>>

\* A handler throws; "bad_call" is an empty std::function of its own that it
\* invokes.
Throw(a, what) ==
  /\ ~aborted
  /\ flying[a] = None /\ stack[a] # <<>>
  /\ Spend(a)
  /\ flying' = [flying EXCEPT ![a] = Exception(what, None)]
  /\ origin' = [origin EXCEPT ![a] = Last(stack[a])]
  /\ cause' = [cause EXCEPT ![a] = what]
  /\ UNCHANGED <<function, stack, target, fulfilled, aborted, loop>>

\* catch (const std::bad_function_call &) in call.
CatchAll(e, s) == Exception("no_handler", s)   \* mutant: catch (...)

Converted(e, s) == IF e.what = "bad_call" THEN Exception("no_handler", s) ELSE e

\* Nothing stands between the task's function and the end of the fiber.
Swallowed(t) == Loop!Complete(t) /\ UNCHANGED aborted   \* mutant: catch in Post

Escapes(t) == aborted' = TRUE /\ UNCHANGED loop

\* The exception leaves the innermost call.
Unwind(a) ==
  /\ ~aborted
  /\ flying[a] # None /\ stack[a] # <<>>
  /\ stack' = [stack EXCEPT ![a] = Unwound(@)]
  /\ IF Outermost(a)
     THEN Escapes(a) /\ UNCHANGED flying
     ELSE /\ flying' = [flying EXCEPT ![a] = Converted(@, Last(stack[a]))]
          /\ UNCHANGED <<aborted, loop>>
  /\ UNCHANGED <<function, target, fulfilled, history>>

\* The code that made the call catches what it threw: a client, or the handler
\* that is now innermost.
Catch(a) ==
  /\ ~aborted
  /\ flying[a] # None
  /\ flying' = [flying EXCEPT ![a] = None]
  /\ UNCHANGED <<function, stack, target, fulfilled, aborted, loop, history>>

\* EventLoop::Stop.
Stop ==
  /\ ~aborted
  /\ Loop!Close \/ Loop!Quiesce
  /\ UNCHANGED <<function, stack, flying, target, fulfilled, aborted, history>>

-----------------------------------------------------------------------------
LoopStep == BeginTask \/ \E t \in Tasks : Return(t) \/ Unwind(t)

Next ==
  \/ \E s \in Sigs : Detach(s) \/ \E h \in Handlers : Attach(s, h)
  \/ \E a \in Actors :
       \/ \E s \in Sigs : Call(a, s)
       \/ \E what \in Thrown : Throw(a, what)
       \/ Catch(a)
  \/ \E t \in Tasks, s \in Sigs : AsyncCall(t, s)
  \/ LoopStep
  \/ \E c \in Clients : Return(c) \/ Unwind(c)
  \/ Stop

Spec == Init /\ [][Next]_vars

-----------------------------------------------------------------------------
Exceptions == [what : {"bad_call", "other", "no_handler"}, sig : Sigs \cup {None}]

Causes == {None, "unattached", "bad_call", "other"}

\* Every variable keeps its shape, and a task has calls on its stack exactly
\* while it runs.
TypeOK ==
  /\ function \in [Sigs -> Handlers \cup {None}]
  /\ stack \in [Actors -> Seq(Sigs)]
  /\ \A a \in Actors : Len(stack[a]) <= MaxCalls + 1
  /\ flying \in [Actors -> Exceptions \cup {None}]
  /\ target \in [Tasks -> Sigs \cup {None}]
  /\ fulfilled \subseteq Tasks /\ aborted \in BOOLEAN
  /\ pending \in Seq(Tasks) /\ completed \subseteq Tasks
  /\ ~aborted => begun = {t \in Tasks : stack[t] # <<>>}
  /\ made \in [Actors -> 0..MaxCalls]
  /\ origin \in [Actors -> Sigs \cup {None}] /\ cause \in [Actors -> Causes]

\* NoHandler<s> names the innermost call, where the exception came from, and
\* comes only from a function without handler or a handler that let its own
\* bad_function_call escape: the calls around it rename nothing, however deep
\* handlers call each other.  And no bad_function_call gets past the call it
\* came from, unless it leaves a task and ends the program.
BlameIsInnermost ==
  \A a \in Actors : flying[a] # None =>
    /\ flying[a].what = "no_handler" =>
         flying[a].sig = origin[a] /\ cause[a] \in {"unattached", "bad_call"}
    /\ flying[a].what = "bad_call" /\ ~aborted =>
         stack[a] # <<>> /\ Last(stack[a]) = origin[a]

\* An async_call of a signature without handler is reported by an exception
\* to its caller: it does not end the program.
UnattachedNeverAborts == ~aborted

-----------------------------------------------------------------------------
\* The loop begins what is posted, and handlers return: they make a bounded
\* number of calls.
FairSpec == Spec /\ WF_vars(LoopStep)

\* Every async_call is answered, unless the loop is stopped or the program
\* dies.
AsyncCallAnswered ==
  \A t \in Tasks : target[t] # None ~> (t \in fulfilled \/ closed \/ aborted)
=============================================================================
