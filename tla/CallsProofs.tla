---------------------------- MODULE CallsProofs ----------------------------
(***************************************************************************)
(* The safety of call and async_call for any number of signatures, tasks   *)
(* and threads, and handlers that call each other to any depth.            *)
(*                                                                         *)
(* IInv is the inductive invariant: what is known of a task before and     *)
(* while it runs, of the depth of a stack, and of a bad_function_call on   *)
(* its way through the stack.                                              *)
(***************************************************************************)
EXTENDS Calls, SequenceLemmas

\* A queued task has a signature to call, and its fiber has not begun.
QueueInv ==
  /\ IsInjective(pending)
  /\ Range(pending) \cap (begun \cup completed) = {}
  /\ \A t \in Range(pending) : target[t] \in Sigs

\* An actor is not deeper in calls than it has made, besides its task's own.
DepthInv == \A a \in Actors : Len(stack[a]) <= made[a] + 1

\* A bad_function_call in flight is one that a handler threw.
CauseInv ==
  \A a \in Actors :
    flying[a] # None /\ flying[a].what = "bad_call" => cause[a] = "bad_call"

SafetyInv == QueueInv /\ DepthInv /\ CauseInv

IInv == TypeOK /\ SafetyInv /\ BlameIsInnermost

-----------------------------------------------------------------------------
\* Leaving the innermost of a stack's calls.
LEMMA UnwoundStack ==
  ASSUME NEW q \in Seq(Sigs), q # <<>>
  PROVE  /\ Unwound(q) \in Seq(Sigs) /\ Last(q) \in Sigs
         /\ Len(q) \in Nat \ {0} /\ Len(Unwound(q)) = Len(q) - 1
         /\ Unwound(q) = <<>> <=> Len(q) = 1
<1>1. Len(q) \in Nat \ {0}
  BY EmptySeq
<1>2. \A i \in 1..Len(q) : q[i] \in Sigs
  BY ElementOfSeq
<1>3. /\ SubSeq(q, 1, Len(q) - 1) \in Seq(Sigs)
      /\ Len(SubSeq(q, 1, Len(q) - 1)) = Len(q) - 1
  <2> DEFINE n == Len(q) - 1
  <2>1. 1 \in Int /\ n \in Nat /\ \A i \in 1..n : q[i] \in Sigs
    BY <1>1, <1>2
  <2> HIDE DEF n
  <2>2. /\ SubSeq(q, 1, n) \in Seq(Sigs)
        /\ Len(SubSeq(q, 1, n)) = IF 1 <= n THEN n - 1 + 1 ELSE 0
    BY <2>1, SubSeqProperties
  <2>3. SubSeq(q, 1, n) \in Seq(Sigs) /\ Len(SubSeq(q, 1, n)) = n
    BY <2>1, <2>2
  <2> QED
    BY <2>3 DEF n
<1>4. Unwound(q) = SubSeq(q, 1, Len(q) - 1) /\ Last(q) = q[Len(q)]
  BY DEF Unwound, Front, Last
<1>5. Unwound(q) = <<>> <=> Len(Unwound(q)) = 0
  BY <1>3, <1>4, EmptySeq
<1> QED
  BY <1>1, <1>2, <1>3, <1>4, <1>5

LEMMA ExceptionsTyped ==
  ASSUME NEW what \in {"bad_call", "other", "no_handler"}, NEW s \in Sigs \cup {None}
  PROVE  Exception(what, s) \in Exceptions
BY DEF Exception, Exceptions

LEMMA BeginEffect ==
  ASSUME TypeOK, QueueInv, ~aborted, Loop!Begin, NEW t, t = Head(pending)
  PROVE  /\ t \in Tasks /\ t \in Actors /\ target[t] \in Sigs
         /\ stack[t] = <<>> /\ t \notin begun
         /\ pending' \in Seq(Tasks) /\ IsInjective(pending')
         /\ Range(pending') \subseteq Range(pending) /\ t \notin Range(pending')
         /\ begun' = begun \cup {t} /\ completed' = completed
<1>1. /\ pending # <<>> /\ pending' = Tail(pending) /\ completed' = completed
      /\ begun' = begun \cup {t}
  BY DEF Loop!Begin
<1>2. pending \in Seq(Tasks) /\ IsInjective(pending)
  BY DEF TypeOK, QueueInv
<1>3. /\ t \in Tasks /\ Tail(pending) \in Seq(Tasks)
      /\ Range(pending) = {t} \cup Range(Tail(pending))
  BY <1>1, <1>2, HeadTailRange
<1>4. IsInjective(Tail(pending)) /\ t \notin Range(Tail(pending))
  BY <1>1, <1>2, TailInjectiveQueue
<1>5. t \notin begun /\ target[t] \in Sigs
  BY <1>3 DEF QueueInv
<1>6. stack[t] = <<>>
  BY <1>3, <1>5 DEF TypeOK
<1> QED
  BY <1>1, <1>3, <1>4, <1>5, <1>6 DEF Actors

-----------------------------------------------------------------------------
\* An action that leaves the calls in progress as they are.
LEMMA KeepsStacks ==
  ASSUME SafetyInv, BlameIsInnermost,
         UNCHANGED <<stack, flying, target, aborted, pending, begun, completed, history>>
  PROVE  SafetyInv' /\ BlameIsInnermost'
BY DEF SafetyInv, QueueInv, DepthInv, CauseInv, BlameIsInnermost, history, IsInjective

\* Attach, Detach and Stop touch no call in progress.
LEMMA RegistryStep ==
  ASSUME IInv, \/ \E s \in Sigs : Detach(s) \/ \E h \in Handlers : Attach(s, h)
               \/ Stop \/ UNCHANGED vars
  PROVE  IInv'
<1>0. TypeOK /\ SafetyInv /\ BlameIsInnermost
  BY DEF IInv
<1>1. ASSUME NEW s \in Sigs, NEW h \in Handlers \cup {None},
             function' = [function EXCEPT ![s] = h],
             UNCHANGED <<stack, flying, target, fulfilled, aborted, loop, history>>
      PROVE  IInv'
  <2>1. TypeOK'
    BY <1>0, <1>1 DEF TypeOK, loop, history
  <2> QED
    BY <1>0, <1>1, <2>1, KeepsStacks DEF IInv, loop
<1>2. ASSUME Stop PROVE IInv'
  <2>1. UNCHANGED <<function, stack, flying, target, fulfilled, aborted, history,
                    pending, begun, completed>>
    BY <1>2 DEF Stop, Loop!Close, Loop!Quiesce
  <2>2. TypeOK'
    BY <1>0, <2>1 DEF TypeOK, history
  <2> QED
    BY <1>0, <2>1, <2>2, KeepsStacks DEF IInv
<1>3. ASSUME UNCHANGED vars PROVE IInv'
  <2>1. TypeOK'
    BY <1>0, <1>3 DEF TypeOK, vars, loop, history
  <2> QED
    BY <1>0, <1>3, <2>1, KeepsStacks DEF IInv, vars, loop
<1> QED
  BY <1>1, <1>2, <1>3 DEF Detach, Attach

\* A call, or a throw, of one actor.
LEMMA CallStep ==
  ASSUME IInv, NEW a \in Actors, NEW s \in Sigs, Call(a, s)
  PROVE  IInv'
<1> USE CallsAssumption
<1>0. TypeOK /\ SafetyInv /\ BlameIsInnermost
  BY DEF IInv
<1>1. /\ ~aborted /\ flying[a] = None /\ (a \in Clients \/ stack[a] # <<>>)
      /\ made[a] < MaxCalls /\ made' = [made EXCEPT ![a] = @ + 1]
      /\ UNCHANGED <<function, target, fulfilled, aborted, loop>>
  BY DEF Call, Runs, Spend
<1>2. made' \in [Actors -> 0..MaxCalls] /\ \A b \in Actors : made'[b] >= made[b]
  BY <1>0, <1>1 DEF TypeOK
<1>3. CASE function[s] = None
  <2>1. /\ flying' = [flying EXCEPT ![a] = Exception("no_handler", s)]
        /\ origin' = [origin EXCEPT ![a] = s]
        /\ cause' = [cause EXCEPT ![a] = "unattached"]
        /\ UNCHANGED stack
    BY <1>3 DEF Call
  <2>2. Exception("no_handler", s) \in Exceptions
    BY ExceptionsTyped
  <2>3. /\ flying' \in [Actors -> Exceptions \cup {None}]
        /\ origin' \in [Actors -> Sigs \cup {None}] /\ cause' \in [Actors -> Causes]
    BY <1>0, <2>1, <2>2 DEF TypeOK, Causes
  <2>4. TypeOK'
    BY <1>0, <1>1, <1>2, <2>1, <2>3 DEF TypeOK, loop
  <2>5. SafetyInv'
    <3>1. QueueInv'
      BY <1>0, <1>1 DEF SafetyInv, QueueInv, loop, IsInjective
    <3>2. DepthInv'
      <4>1. ASSUME NEW b \in Actors PROVE Len(stack[b]) <= made'[b] + 1
        <5>1. Len(stack[b]) \in Nat /\ made[b] \in Nat /\ made'[b] \in Nat
          BY <1>0, <1>2, LenProperties DEF TypeOK
        <5> QED
          BY <1>0, <1>2, <5>1 DEF SafetyInv, DepthInv
      <4> QED
        BY <2>1, <4>1 DEF DepthInv
    <3>3. CauseInv'
      BY <1>0, <2>1 DEF SafetyInv, CauseInv, TypeOK, Exception
    <3> QED
      BY <3>1, <3>2, <3>3 DEF SafetyInv
  <2>6. BlameIsInnermost'
    BY <1>0, <1>1, <2>1 DEF BlameIsInnermost, TypeOK, Exception
  <2> QED
    BY <2>4, <2>5, <2>6 DEF IInv
<1>4. CASE function[s] # None
  <2>1. /\ stack' = [stack EXCEPT ![a] = Append(@, s)]
        /\ UNCHANGED <<flying, origin, cause>>
    BY <1>4 DEF Call
  <2>2. stack[a] \in Seq(Sigs)
    BY <1>0 DEF TypeOK
  <2>3. /\ Append(stack[a], s) \in Seq(Sigs) /\ Append(stack[a], s) # <<>>
        /\ Len(Append(stack[a], s)) = Len(stack[a]) + 1 /\ Len(stack[a]) \in Nat
    BY <2>2, AppendProperties, LenProperties
  <2>4. stack' \in [Actors -> Seq(Sigs)]
    BY <1>0, <2>1, <2>3 DEF TypeOK
  <2>5. \A b \in Actors : Len(stack'[b]) <= made'[b] + 1 /\ Len(stack'[b]) <= MaxCalls + 1
    <3> TAKE b \in Actors
    <3>1. Len(stack[b]) \in Nat /\ made[b] \in Nat /\ Len(stack[b]) <= made[b] + 1
      BY <1>0, LenProperties DEF TypeOK, SafetyInv, DepthInv
    <3>2. CASE b = a
      BY <1>0, <1>1, <2>1, <2>3, <3>1, <3>2 DEF TypeOK
    <3>3. CASE b # a
      BY <1>0, <1>1, <2>1, <3>1, <3>3 DEF TypeOK
    <3> QED
      BY <3>2, <3>3
  <2>6. {t \in Tasks : stack'[t] # <<>>} = {t \in Tasks : stack[t] # <<>>}
    BY <1>0, <1>1, <2>1, <2>3 DEF TypeOK, Actors
  <2>7. TypeOK'
    BY <1>0, <1>1, <1>2, <2>1, <2>4, <2>5, <2>6 DEF TypeOK, loop
  <2>8. SafetyInv'
    <3>1. QueueInv'
      BY <1>0, <1>1 DEF SafetyInv, QueueInv, loop, IsInjective
    <3>2. DepthInv' /\ CauseInv'
      BY <1>0, <2>1, <2>5 DEF SafetyInv, DepthInv, CauseInv
    <3> QED
      BY <3>1, <3>2 DEF SafetyInv
  <2>9. BlameIsInnermost'
    BY <1>0, <1>1, <2>1 DEF BlameIsInnermost, TypeOK
  <2> QED
    BY <2>7, <2>8, <2>9 DEF IInv
<1> QED
  BY <1>3, <1>4

LEMMA ThrowStep ==
  ASSUME IInv, NEW a \in Actors, NEW what \in Thrown, Throw(a, what)
  PROVE  IInv'
<1> USE CallsAssumption
<1>0. TypeOK /\ SafetyInv /\ BlameIsInnermost
  BY DEF IInv
<1>1. /\ ~aborted /\ stack[a] # <<>> /\ made' = [made EXCEPT ![a] = @ + 1]
      /\ made[a] < MaxCalls
      /\ flying' = [flying EXCEPT ![a] = Exception(what, None)]
      /\ origin' = [origin EXCEPT ![a] = Last(stack[a])]
      /\ cause' = [cause EXCEPT ![a] = what]
      /\ UNCHANGED <<function, stack, target, fulfilled, aborted, loop>>
  BY DEF Throw, Spend
<1>2. /\ made' \in [Actors -> 0..MaxCalls]
      /\ \A b \in Actors : made'[b] >= made[b] /\ made[b] \in Nat /\ made'[b] \in Nat
  BY <1>0, <1>1 DEF TypeOK
<1>3. Last(stack[a]) \in Sigs
  BY <1>0, <1>1, UnwoundStack DEF TypeOK
<1>4. what \in {"bad_call", "other"}
  OBVIOUS
<1>5. /\ flying' \in [Actors -> Exceptions \cup {None}]
      /\ origin' \in [Actors -> Sigs \cup {None}] /\ cause' \in [Actors -> Causes]
  <2>1. Exception(what, None) \in Exceptions
    BY <1>4, ExceptionsTyped
  <2> QED
    BY <1>0, <1>1, <1>3, <1>4, <2>1 DEF TypeOK, Causes
<1>6. TypeOK'
  BY <1>0, <1>1, <1>2, <1>5 DEF TypeOK, loop
<1>7. QueueInv'
  BY <1>0, <1>1 DEF SafetyInv, QueueInv, loop, IsInjective
<1>8. DepthInv'
  <2>1. ASSUME NEW b \in Actors PROVE Len(stack[b]) <= made'[b] + 1
    <3>1. Len(stack[b]) \in Nat
      BY <1>0, LenProperties DEF TypeOK
    <3> QED
      BY <1>0, <1>2, <3>1 DEF SafetyInv, DepthInv
  <2> QED
    BY <1>1, <2>1 DEF DepthInv
<1>9. CauseInv' /\ BlameIsInnermost'
  <2> SUFFICES ASSUME NEW b \in Actors, flying'[b] # None
               PROVE  /\ flying'[b].what = "bad_call" => cause'[b] = "bad_call"
                      /\ flying'[b].what = "no_handler" =>
                           /\ flying'[b].sig = origin'[b]
                           /\ cause'[b] \in {"unattached", "bad_call"}
                      /\ flying'[b].what = "bad_call" /\ ~aborted' =>
                           stack'[b] # <<>> /\ Last(stack'[b]) = origin'[b]
    BY DEF CauseInv, BlameIsInnermost
  <2>1. CASE b = a
    <3>1. /\ flying'[b] = Exception(what, None) /\ cause'[b] = what
          /\ origin'[b] = Last(stack[a]) /\ stack'[b] = stack[a]
      BY <1>0, <1>1, <2>1 DEF TypeOK
    <3>2. flying'[b].what = what
      BY <3>1 DEF Exception
    <3> QED
      BY <1>1, <1>4, <3>1, <3>2
  <2>2. CASE b # a
    <3>1. /\ flying'[b] = flying[b] /\ cause'[b] = cause[b]
          /\ origin'[b] = origin[b] /\ stack'[b] = stack[b]
      BY <1>0, <1>1, <2>2 DEF TypeOK
    <3> QED
      BY <1>0, <1>1, <3>1 DEF SafetyInv, CauseInv, BlameIsInnermost
  <2> QED
    BY <2>1, <2>2
<1> QED
  BY <1>6, <1>7, <1>8, <1>9 DEF IInv, SafetyInv

LEMMA CatchStep ==
  ASSUME IInv, NEW a \in Actors, Catch(a)
  PROVE  IInv'
<1>0. TypeOK /\ SafetyInv /\ BlameIsInnermost
  BY DEF IInv
<1>1. /\ flying' = [flying EXCEPT ![a] = None]
      /\ UNCHANGED <<function, stack, target, fulfilled, aborted, loop, history>>
  BY DEF Catch
<1>2. \A b \in Actors : flying'[b] = IF b = a THEN None ELSE flying[b]
  BY <1>0, <1>1 DEF TypeOK
<1>3. TypeOK'
  BY <1>0, <1>1 DEF TypeOK, loop, history
<1>4. SafetyInv'
  BY <1>0, <1>1, <1>2 DEF SafetyInv, QueueInv, DepthInv, CauseInv, loop, history, IsInjective
<1>5. BlameIsInnermost'
  BY <1>0, <1>1, <1>2 DEF BlameIsInnermost, history
<1> QED
  BY <1>3, <1>4, <1>5 DEF IInv

\* async_call posts a task that has not begun.
LEMMA AsyncCallStep ==
  ASSUME IInv, NEW t \in Tasks, NEW s \in Sigs, AsyncCall(t, s)
  PROVE  IInv'
<1>0. TypeOK /\ SafetyInv /\ BlameIsInnermost
  BY DEF IInv
<1>1. /\ t \notin Range(pending) \cup begun \cup completed
      /\ pending' = Append(pending, t) /\ target' = [target EXCEPT ![t] = s]
      /\ UNCHANGED <<function, stack, flying, fulfilled, aborted, history,
                     begun, completed, closed, quiescent>>
  BY DEF AsyncCall, Loop!Post, Loop!Posted, Range
<1>2. pending \in Seq(Tasks) /\ IsInjective(pending)
  BY <1>0 DEF TypeOK, SafetyInv, QueueInv
<1>3. /\ pending' \in Seq(Tasks) /\ IsInjective(pending')
      /\ Range(pending') = Range(pending) \cup {t}
  BY <1>1, <1>2, AppendInjectiveQueue, RangeAppend, AppendProperties
<1>4. \A u \in Tasks : target'[u] = IF u = t THEN s ELSE target[u]
  BY <1>0, <1>1 DEF TypeOK
<1>5. TypeOK'
  BY <1>0, <1>1, <1>3 DEF TypeOK, history
<1>6. QueueInv'
  <2>1. Range(pending') \subseteq Tasks
    BY <1>3, RangeOfSeq
  <2> QED
    BY <1>0, <1>1, <1>3, <1>4, <2>1 DEF SafetyInv, QueueInv
<1>7. DepthInv' /\ CauseInv' /\ BlameIsInnermost'
  BY <1>0, <1>1 DEF SafetyInv, DepthInv, CauseInv, BlameIsInnermost, history
<1> QED
  BY <1>5, <1>6, <1>7 DEF IInv, SafetyInv

-----------------------------------------------------------------------------
\* The loop begins a task: its fiber invokes the function.
LEMMA BeginStep ==
  ASSUME IInv, BeginTask
  PROVE  IInv'
<1> DEFINE t == Head(pending)
<1>0. TypeOK /\ SafetyInv /\ BlameIsInnermost
  BY DEF IInv
<1>1. /\ ~aborted /\ Loop!Begin /\ UNCHANGED <<function, flying, target, fulfilled, history>>
  BY DEF BeginTask
<1>2. /\ t \in Tasks /\ t \in Actors /\ target[t] \in Sigs /\ stack[t] = <<>>
      /\ pending' \in Seq(Tasks) /\ IsInjective(pending')
      /\ Range(pending') \subseteq Range(pending) /\ t \notin Range(pending')
      /\ begun' = begun \cup {t} /\ completed' = completed
  BY <1>0, <1>1, BeginEffect DEF SafetyInv
<1> HIDE DEF t
<1>3. QueueInv'
  BY <1>0, <1>1, <1>2 DEF SafetyInv, QueueInv
<1>5. CASE aborted' = TRUE /\ UNCHANGED stack
  <2>1. TypeOK'
    BY <1>0, <1>1, <1>2, <1>5 DEF TypeOK, history
  <2>2. DepthInv' /\ CauseInv' /\ BlameIsInnermost'
    BY <1>0, <1>1, <1>5 DEF SafetyInv, DepthInv, CauseInv, BlameIsInnermost, history
  <2> QED
    BY <1>3, <2>1, <2>2 DEF IInv, SafetyInv
<1>6. CASE stack' = [stack EXCEPT ![t] = <<target[t]>>] /\ UNCHANGED aborted
  <2>1. <<target[t]>> \in Seq(Sigs) /\ Len(<<target[t]>>) = 1 /\ <<target[t]>> # <<>>
    BY <1>2
  <2>2. \A a \in Actors : stack'[a] = IF a = t THEN <<target[t]>> ELSE stack[a]
    BY <1>0, <1>6 DEF TypeOK
  <2>3. \A a \in Actors : made[a] \in 0..MaxCalls /\ MaxCalls \in Nat
    BY <1>0, CallsAssumption DEF TypeOK
  <2>4. stack' \in [Actors -> Seq(Sigs)]
    BY <1>0, <1>6, <2>1 DEF TypeOK
  <2>5. \A a \in Actors : Len(stack'[a]) <= made[a] + 1 /\ Len(stack'[a]) <= MaxCalls + 1
    <3> TAKE a \in Actors
    <3>1. CASE a = t
      <4>1. Len(stack'[a]) = 1
        BY <2>1, <2>2, <3>1
      <4>2. made[a] \in Nat /\ MaxCalls \in Nat
        BY <2>3
      <4> QED
        BY <4>1, <4>2
    <3>2. CASE a # t
      BY <1>0, <2>2, <3>2 DEF TypeOK, SafetyInv, DepthInv
    <3> QED
      BY <3>1, <3>2
  <2>6. {u \in Tasks : stack'[u] # <<>>} = {u \in Tasks : stack[u] # <<>>} \cup {t}
    BY <1>2, <2>1, <2>2 DEF Actors
  <2>7. TypeOK'
    BY <1>0, <1>1, <1>2, <1>6, <2>4, <2>5, <2>6 DEF TypeOK, history
  <2>8. DepthInv' /\ CauseInv'
    BY <1>0, <1>1, <2>5 DEF SafetyInv, DepthInv, CauseInv, history
  <2>9. BlameIsInnermost'
    <3> SUFFICES ASSUME NEW a \in Actors, flying[a] # None
                 PROVE  /\ flying[a].what = "no_handler" =>
                             /\ flying[a].sig = origin[a]
                             /\ cause[a] \in {"unattached", "bad_call"}
                        /\ flying[a].what = "bad_call" =>
                             stack'[a] # <<>> /\ Last(stack'[a]) = origin[a]
      BY <1>1 DEF BlameIsInnermost, history
    <3>1. CASE a = t
      BY <1>0, <1>1, <1>2, <3>1 DEF BlameIsInnermost
    <3>2. CASE a # t
      BY <1>0, <1>1, <2>2, <3>2 DEF BlameIsInnermost
    <3> QED
      BY <3>1, <3>2
  <2> QED
    BY <1>3, <2>7, <2>8, <2>9 DEF IInv, SafetyInv
<1> QED
  BY <1>5, <1>6 DEF BeginTask, t

\* Leaving the innermost call, by return or by exception, keeps the types and
\* bounds the depth; a task that leaves its last call ends, or takes the
\* program with it.
LEMMA LeaveStep ==
  ASSUME IInv, NEW a \in Actors, ~aborted, stack[a] # <<>>,
         stack' = [stack EXCEPT ![a] = Unwound(@)],
         UNCHANGED <<function, target, pending, history>>,
         flying' \in [Actors -> Exceptions \cup {None}],
         fulfilled' \subseteq Tasks, aborted' \in BOOLEAN,
         begun' \subseteq begun, completed' \subseteq completed \cup begun,
         completed' \subseteq Tasks,
         ~aborted' => begun' = IF Outermost(a) THEN begun \ {a} ELSE begun
  PROVE  TypeOK' /\ QueueInv' /\ DepthInv'
<1> USE CallsAssumption
<1>0. TypeOK /\ QueueInv /\ DepthInv
  BY DEF IInv, SafetyInv
<1>1. /\ Unwound(stack[a]) \in Seq(Sigs) /\ Len(Unwound(stack[a])) = Len(stack[a]) - 1
      /\ Len(stack[a]) \in Nat \ {0} /\ (Unwound(stack[a]) = <<>> <=> Len(stack[a]) = 1)
  BY <1>0, UnwoundStack DEF TypeOK
<1>2. \A b \in Actors : stack'[b] = IF b = a THEN Unwound(stack[a]) ELSE stack[b]
  BY <1>0 DEF TypeOK
<1>3. stack' \in [Actors -> Seq(Sigs)]
  BY <1>0, <1>1 DEF TypeOK
<1>4. \A b \in Actors : Len(stack'[b]) <= made[b] + 1 /\ Len(stack'[b]) <= MaxCalls + 1
  <2> TAKE b \in Actors
  <2>1. Len(stack[b]) <= made[b] + 1 /\ Len(stack[b]) <= MaxCalls + 1 /\ made[b] \in Nat
    BY <1>0 DEF TypeOK, DepthInv
  <2> QED
    BY <1>1, <1>2, <2>1
<1>5. ~aborted' => begun' = {t \in Tasks : stack'[t] # <<>>}
  <2>1. \A t \in Tasks : t \in Actors
    BY DEF Actors
  <2>2. begun = {t \in Tasks : stack[t] # <<>>}
    BY <1>0 DEF TypeOK
  <2>3. Outermost(a) <=> a \in Tasks /\ Unwound(stack[a]) = <<>>
    BY <1>1 DEF Outermost
  <2> QED
    BY <1>2, <2>1, <2>2, <2>3
<1>6. TypeOK'
  BY <1>0, <1>3, <1>4, <1>5 DEF TypeOK, history
<1>7. QueueInv'
  BY <1>0 DEF QueueInv, IsInjective
<1>8. DepthInv'
  BY <1>4 DEF DepthInv, history
<1> QED
  BY <1>6, <1>7, <1>8

LEMMA ReturnStep ==
  ASSUME IInv, NEW a \in Actors, Return(a)
  PROVE  IInv'
<1>0. TypeOK /\ SafetyInv /\ BlameIsInnermost
  BY DEF IInv
<1>1. /\ ~aborted /\ flying[a] = None /\ stack[a] # <<>>
      /\ stack' = [stack EXCEPT ![a] = Unwound(@)]
      /\ UNCHANGED <<function, flying, target, aborted, history>>
  BY DEF Return
<1>2. /\ fulfilled' \subseteq Tasks /\ begun' \subseteq begun
      /\ completed' \subseteq completed \cup begun /\ completed' \subseteq Tasks
      /\ begun' = (IF Outermost(a) THEN begun \ {a} ELSE begun)
      /\ UNCHANGED pending
  <2>1. CASE Outermost(a)
    BY <1>0, <2>1 DEF Return, Loop!Complete, Outermost, TypeOK
  <2>2. CASE ~Outermost(a)
    BY <1>0, <2>2 DEF Return, loop, TypeOK
  <2> QED
    BY <2>1, <2>2
<1>3. flying' \in [Actors -> Exceptions \cup {None}] /\ aborted' \in BOOLEAN
  BY <1>0, <1>1 DEF TypeOK
<1>4. TypeOK' /\ QueueInv' /\ DepthInv'
  BY <1>1, <1>2, <1>3, LeaveStep
<1>5. CauseInv'
  BY <1>0, <1>1 DEF SafetyInv, CauseInv, history
<1>6. BlameIsInnermost'
  <2>1. \A b \in Actors : b # a => stack'[b] = stack[b]
    BY <1>0, <1>1 DEF TypeOK
  <2> QED
    BY <1>0, <1>1, <2>1 DEF BlameIsInnermost, history
<1> QED
  BY <1>4, <1>5, <1>6 DEF IInv, SafetyInv

LEMMA UnwindStep ==
  ASSUME IInv, NEW a \in Actors, Unwind(a)
  PROVE  IInv'
<1>0. TypeOK /\ SafetyInv /\ BlameIsInnermost
  BY DEF IInv
<1>1. /\ ~aborted /\ flying[a] # None /\ stack[a] # <<>>
      /\ stack' = [stack EXCEPT ![a] = Unwound(@)]
      /\ UNCHANGED <<function, target, fulfilled, history>>
  BY DEF Unwind
<1>2. \A b \in Actors : b # a => stack'[b] = stack[b]
  BY <1>0, <1>1 DEF TypeOK
<1>3. CASE Outermost(a)
  <2>1. aborted' = TRUE /\ UNCHANGED <<loop, flying>>
    BY <1>3 DEF Unwind, Escapes
  <2>2. TypeOK' /\ QueueInv' /\ DepthInv'
    BY <1>0, <1>1, <2>1, LeaveStep DEF TypeOK, loop
  <2>3. CauseInv'
    BY <1>0, <1>1, <2>1 DEF SafetyInv, CauseInv, history
  <2>4. BlameIsInnermost'
    BY <1>0, <1>1, <2>1 DEF BlameIsInnermost, history
  <2> QED
    BY <2>2, <2>3, <2>4 DEF IInv, SafetyInv
<1>4. CASE ~Outermost(a)
  <2> DEFINE e == flying[a]
             s == Last(stack[a])
  <2>1. /\ flying' = [flying EXCEPT ![a] = Converted(e, s)]
        /\ UNCHANGED <<aborted, loop>>
    BY <1>4 DEF Unwind
  <2>2. s \in Sigs /\ e \in Exceptions
    BY <1>0, <1>1, UnwoundStack DEF TypeOK
  <2>3. Converted(e, s) \in Exceptions
    BY <2>2, ExceptionsTyped DEF Converted
  <2>4. flying' \in [Actors -> Exceptions \cup {None}]
    BY <1>0, <2>1, <2>3 DEF TypeOK
  <2>5. TypeOK' /\ QueueInv' /\ DepthInv'
    BY <1>0, <1>1, <1>4, <2>1, <2>4, LeaveStep DEF TypeOK, loop
  <2>6. CauseInv' /\ BlameIsInnermost'
    <3> SUFFICES ASSUME NEW b \in Actors, flying'[b] # None
                 PROVE  /\ flying'[b].what = "bad_call" => cause[b] = "bad_call"
                        /\ flying'[b].what = "no_handler" =>
                             /\ flying'[b].sig = origin[b]
                             /\ cause[b] \in {"unattached", "bad_call"}
                        /\ flying'[b].what = "bad_call" =>
                             stack'[b] # <<>> /\ Last(stack'[b]) = origin[b]
      BY <1>1 DEF CauseInv, BlameIsInnermost, history
    <3>1. CASE b # a
      <4>1. flying'[b] = flying[b] /\ stack'[b] = stack[b]
        BY <1>0, <1>2, <2>1, <3>1 DEF TypeOK
      <4> QED
        BY <1>0, <1>1, <4>1 DEF SafetyInv, CauseInv, BlameIsInnermost
    <3>2. CASE b = a /\ e.what = "bad_call"
      <4>1. flying'[a] = Exception("no_handler", s)
        BY <1>0, <2>1, <3>2 DEF TypeOK, Converted
      <4>2. flying'[a].what = "no_handler" /\ flying'[a].sig = s
        BY <4>1 DEF Exception
      <4>3. s = origin[a] /\ cause[a] = "bad_call"
        BY <1>0, <1>1, <3>2 DEF SafetyInv, CauseInv, BlameIsInnermost
      <4> QED
        BY <3>2, <4>2, <4>3
    <3>3. CASE b = a /\ e.what # "bad_call"
      <4>1. flying'[a] = e
        BY <1>0, <2>1, <3>3 DEF TypeOK, Converted
      <4> QED
        BY <1>0, <1>1, <3>3, <4>1 DEF BlameIsInnermost
    <3> QED
      BY <3>1, <3>2, <3>3
  <2> QED
    BY <2>5, <2>6 DEF IInv, SafetyInv
<1> QED
  BY <1>3, <1>4

-----------------------------------------------------------------------------
LEMMA InitIInv == Init => IInv
<1> SUFFICES ASSUME Init PROVE IInv
  OBVIOUS
<1> USE CallsAssumption
<1>1. /\ function = [s \in Sigs |-> None] /\ stack = [a \in Actors |-> <<>>]
      /\ flying = [a \in Actors |-> None] /\ target = [t \in Tasks |-> None]
      /\ fulfilled = {} /\ aborted = FALSE
      /\ pending = <<>> /\ begun = {} /\ completed = {}
      /\ made = [a \in Actors |-> 0] /\ origin = [a \in Actors |-> None]
      /\ cause = [a \in Actors |-> None]
  BY DEF Init, Loop!ExecInit
<1>2. stack \in [Actors -> Seq(Sigs)] /\ \A a \in Actors : Len(stack[a]) = 0 /\ stack[a] = <<>>
  BY <1>1
<1>3. begun = {t \in Tasks : stack[t] # <<>>}
  BY <1>1, <1>2 DEF Actors
<1>4. /\ flying \in [Actors -> Exceptions \cup {None}]
      /\ cause \in [Actors -> Causes] /\ origin \in [Actors -> Sigs \cup {None}]
      /\ made \in [Actors -> 0..MaxCalls]
  BY <1>1 DEF Causes
<1>5. TypeOK
  <2>1. /\ function \in [Sigs -> Handlers \cup {None}]
        /\ target \in [Tasks -> Sigs \cup {None}]
    BY <1>1
  <2>3. pending \in Seq(Tasks)
    BY <1>1, EmptySeq
  <2>4. aborted \in BOOLEAN
    BY <1>1
  <2>2. \A a \in Actors : Len(stack[a]) <= MaxCalls + 1
    BY <1>2
  <2> QED
    BY <1>1, <1>2, <1>3, <1>4, <2>1, <2>2, <2>3, <2>4 DEF TypeOK
<1>6. QueueInv
  BY <1>1 DEF QueueInv, Range, IsInjective
<1>7. DepthInv /\ CauseInv /\ BlameIsInnermost
  BY <1>1, <1>2 DEF DepthInv, CauseInv, BlameIsInnermost
<1> QED
  BY <1>5, <1>6, <1>7 DEF IInv, SafetyInv

LEMMA NextIInv == IInv /\ [Next]_vars => IInv'
<1>1. \A t \in Tasks : t \in Actors
  BY DEF Actors
<1>2. \A c \in Clients : c \in Actors
  BY DEF Actors
<1> QED
  BY <1>1, <1>2, RegistryStep, CallStep, ThrowStep, CatchStep, AsyncCallStep,
     BeginStep, ReturnStep, UnwindStep
  DEF Next, LoopStep

\* The inductive invariant of the calls.
THEOREM Invariance == Spec => []IInv
  BY InitIInv, NextIInv, PTL DEF Spec

\* The stacks and exceptions keep their shape; a task has calls on its stack
\* exactly while it runs.
THEOREM TypeCorrect == Spec => []TypeOK
<1>1. IInv => TypeOK
  BY DEF IInv
<1> QED
  BY <1>1, Invariance, PTL

\* However deep handlers call each other, NoHandler names the call that the
\* bad_function_call came from, and no bad_function_call gets past it.
THEOREM BlameIsRight == Spec => []BlameIsInnermost
<1>1. IInv => BlameIsInnermost
  BY DEF IInv
<1> QED
  BY <1>1, Invariance, PTL
=============================================================================
