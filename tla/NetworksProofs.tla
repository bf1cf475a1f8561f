--------------------------- MODULE NetworksProofs ---------------------------
(***************************************************************************)
(* The safety of exit() for any number of networks, signals, functions and *)
(* tasks, and any set of programs.                                         *)
(*                                                                         *)
(* IInv is the inductive invariant.  Its core is the order of destruction: *)
(* what was constructed after a destroyed static is destroyed too, or was  *)
(* constructed late.  The other parts say what holds of a loop before it   *)
(* is constructed, while it is stopping and once it is destroyed.          *)
(*                                                                         *)
(* Settled is what a prepared program keeps until it has exited: CleanExit.*)
(* HoldInv orders the tasks by who holds whose future, so that fibers of   *)
(* different loops never wait in a circle: NoOtherWayToHang.               *)
(***************************************************************************)
EXTENDS Networks, SequenceLemmas

\* The statics are destroyed from the youngest to the oldest; only those
\* constructed during exit() are missed.
BornInv ==
  /\ IsInjective(born)
  /\ \A i, j \in DOMAIN born :
       i < j /\ born[i] \in dead /\ born[j] \notin dead => born[j] \in late

\* The loop that waits in its destructor is the next to be destroyed.
EndingInv ==
  ending # None =>
    /\ ending \notin dead
    /\ \E i \in DOMAIN born :
         /\ born[i] = ending
         /\ \A j \in DOMAIN born : j > i => born[j] \in dead \cup late

\* Nothing is destroyed before exit() is called.
PhaseInv ==
  /\ phase = "running" => dead = {} /\ ending = None
  /\ phase = "running" <=> exiter = None

\* A loop holds no task before its construction, begins none once it stops,
\* and leaves none unanswered when it is destroyed.
LoopInv ==
  \A n \in Networks :
    /\ n \in dead => begun[n] = {} /\ closed[n] /\ Range(pending[n]) \subseteq broken
    /\ n \notin Range(born) => begun[n] = {} /\ pending[n] = <<>>
    /\ n = ending \/ n = joining => closed[n]

\* Only the destruction of a loop breaks the promises of its tasks.
BrokenInv == \A t \in broken : Home[t] \in dead

\* A task is at one place of its loop at a time.
QueueInv ==
  \A n \in Networks :
    /\ IsInjective(pending[n])
    /\ Range(pending[n]) \cap (begun[n] \cup completed[n]) = {}

SafetyInv ==
  BornInv /\ EndingInv /\ PhaseInv /\ LoopInv /\ BrokenInv /\ QueueInv

IInv == TypeOK /\ SafetyInv /\ OnlyYoungerAreMissed

-----------------------------------------------------------------------------
LEMMA ToSetIsRange == \A s : ToSet(s) = Range(s)
  BY DEF ToSet, Range

\* What an operation's argument is, and which static it looks up.
LEMMA Arguments ==
  ASSUME TypeOK, NEW a \in Actors, todo[a] # <<>>
  PROVE  /\ Tail(todo[a]) \in Seq(Operation)
         /\ Head(todo[a]).op \in {"use", "emit", "expect", "stop"} =>
              LookedUp(a) = Arg(a) /\ Arg(a) \in Statics
         /\ Head(todo[a]).op \in {"emit", "expect", "hear"} => Arg(a) \in Registries
         /\ Head(todo[a]).op = "stop" => Arg(a) \in Networks
         /\ Head(todo[a]).op \in {"post", "get"} => Arg(a) \in Tasks
         /\ Head(todo[a]).op = "post" =>
              LookedUp(a) = Home[Arg(a)] /\ LookedUp(a) \in Networks
<1>1. todo[a] \in Seq(Operation)
  BY DEF TypeOK
<1>2. Head(todo[a]) \in Operation /\ Tail(todo[a]) \in Seq(Operation)
  BY <1>1, HeadTailProperties
<1>3. Home \in [Tasks -> Networks]
  BY NetworksAssumption
<1> QED
  BY <1>2, <1>3 DEF Operation, LookedUp, Arg, Statics

\* Looking a static up adds at most that static, as the youngest, and leaves
\* the order of destruction as it is.
LEMMA LookUpEffect ==
  ASSUME TypeOK, SafetyInv, NEW a \in Actors, LookedUp(a) \in Statics,
         LookUp(a), phase # "exited"
  PROVE  /\ born' \in Seq(Statics) /\ dead' = dead
         /\ Range(born') = Range(born) \cup {LookedUp(a)}
         /\ LookedUp(a) \notin dead
         /\ late \subseteq late' /\ late' \subseteq Range(born')
         /\ DOMAIN born \subseteq DOMAIN born'
         /\ \A i \in DOMAIN born : born'[i] = born[i]
         /\ \A j \in DOMAIN born' \ DOMAIN born : born'[j] \in dead \cup late' \/ phase = "running"
         /\ BornInv'
<1> DEFINE o == LookedUp(a)
<1>1. /\ born \in Seq(Statics) /\ dead \subseteq Range(born) /\ late \subseteq Range(born)
      /\ phase \in {"running", "exiting", "exited"}
  BY ToSetIsRange DEF TypeOK
<1>2. BornInv /\ PhaseInv
  BY DEF SafetyInv
<1>3. dead' = dead /\ o \notin dead
  BY DEF LookUp
<1>4. CASE o \in Range(born)
  <2>1. born' = born /\ late' = late
    BY <1>4, ToSetIsRange DEF LookUp
  <2> QED
    BY <2>1, <1>1, <1>2, <1>3, <1>4 DEF BornInv
<1>5. CASE o \notin Range(born)
  <2>1. /\ born' = Append(born, o)
        /\ late' = IF phase = "exiting" THEN late \cup {o} ELSE late
    BY <1>5, ToSetIsRange DEF LookUp
  <2>2. /\ born' \in Seq(Statics)
        /\ Range(born') = Range(born) \cup {o}
        /\ IsInjective(born')
    BY <2>1, <1>1, <1>2, <1>5, AppendInjectiveQueue, RangeAppend, AppendProperties DEF BornInv
  <2>3. /\ DOMAIN born = 1..Len(born) /\ DOMAIN born' = 1..(Len(born) + 1)
        /\ Len(born) \in Nat
        /\ \A i \in 1..Len(born) : born'[i] = born[i]
        /\ born'[Len(born) + 1] = o
    BY <2>1, <1>1, AppendProperties, LenProperties
  <2>4. phase = "running" \/ phase = "exiting"
    BY <1>1
  <2>5. phase = "running" => dead = {}
    BY <1>2 DEF PhaseInv
  <2>6. \A i, j \in DOMAIN born' :
          i < j /\ born'[i] \in dead' /\ born'[j] \notin dead' => born'[j] \in late'
    <3> SUFFICES ASSUME NEW i \in DOMAIN born', NEW j \in DOMAIN born',
                        i < j, born'[i] \in dead', born'[j] \notin dead'
                 PROVE  born'[j] \in late'
      OBVIOUS
    <3>1. phase = "exiting"
      BY <1>3, <2>4, <2>5
    <3>2. CASE j = Len(born) + 1
      BY <3>1, <3>2, <2>1, <2>3
    <3>3. CASE j # Len(born) + 1
      <4>1. i \in 1..Len(born) /\ j \in 1..Len(born)
        BY <3>3, <2>3
      <4>2. born[j] \in late
        BY <4>1, <2>3, <1>2, <1>3 DEF BornInv
      <4> QED
        BY <4>1, <4>2, <2>1, <2>3
    <3> QED
      BY <3>2, <3>3
  <2>7. \A j \in DOMAIN born' \ DOMAIN born : born'[j] \in dead \cup late' \/ phase = "running"
    <3>1. \A j \in DOMAIN born' \ DOMAIN born : j = Len(born) + 1
      BY <2>3
    <3> QED
      BY <3>1, <2>1, <2>3, <2>4
  <2>8. BornInv'
    BY <2>2, <2>6 DEF BornInv
  <2> QED
    BY <2>1, <2>2, <2>3, <2>7, <2>8, <1>1, <1>3
<1> QED
  BY <1>4, <1>5

-----------------------------------------------------------------------------
\* Every action keeps the shape of the variables.
LEMMA TypeStep ==
  ASSUME TypeOK, SafetyInv, [Next]_vars
  PROVE  TypeOK'
<1> USE NetworksAssumption DEF Statics
<1>q. \A q : ToSet(q) = Range(q)
  BY ToSetIsRange
<1>t. ASSUME NEW a \in Actors, todo[a] # <<>>, Advance(a)
      PROVE  todo' \in [Actors -> Seq(Operation)]
  BY <1>t, Arguments DEF Advance, TypeOK
<1>l. ASSUME NEW a \in Actors, LookedUp(a) \in Statics, LookUp(a), phase # "exited"
      PROVE  /\ born' \in Seq(Statics)
             /\ dead' \subseteq ToSet(born)' /\ late' \subseteq ToSet(born)'
  BY <1>l, <1>q, LookUpEffect DEF TypeOK
<1>f. ASSUME NEW k \in {"dangling", "broken", "self_join", "second_exit"},
             NEW a \in Actors, NEW o \in Statics \cup {None}
      PROVE  [kind |-> k, by |-> a, of |-> o] \in Faults
  BY DEF Faults
<1>k. ASSUME NEW a \in Actors, LookedUp(a) \in Statics, LookUp(a), phase # "exited",
             todo[a] # <<>>, Advance(a),
             hopes' \subseteq Actors \X Registries,
             UNCHANGED <<broken, stops, fault, loops>>
      PROVE  TypeOK'
  <2>1. todo' \in [Actors -> Seq(Operation)]
    BY <1>k, <1>t
  <2>2. /\ born' \in Seq(Statics)
        /\ dead' \subseteq ToSet(born)' /\ late' \subseteq ToSet(born)'
    BY <1>k, <1>l
  <2>3. UNCHANGED <<broken, joining, ending, phase, exiter, fault,
                    pending, begun, completed, closed, quiescent>>
    BY <1>k DEF stops, exit, loops
  <2>4. \A n \in Networks :
          /\ \A t \in ToSet(pending'[n]) \cup begun'[n] \cup completed'[n] : Home[t] = n
          /\ begun'[n] \cap completed'[n] = {}
    BY <2>3 DEF TypeOK
  <2> QED
    BY <1>k, <2>1, <2>2, <2>3, <2>4, <1>q DEF TypeOK
<1>1. ASSUME NEW a \in Actors, Use(a) PROVE TypeOK'
  <2>1. LookedUp(a) \in Statics /\ todo[a] # <<>> /\ phase # "exited"
    BY <1>1, Arguments DEF Use, Does, Runs
  <2> QED
    BY <1>1, <1>k, <2>1 DEF Use, TypeOK
<1>2. ASSUME NEW a \in Actors, Post(a) PROVE TypeOK'
  <2>1. /\ LookedUp(a) \in Statics /\ todo[a] # <<>> /\ phase # "exited"
        /\ Arg(a) \in Tasks
    BY <1>2, Arguments DEF Post, Does, Runs
  <2>2. /\ pending' \in [Networks -> Seq(Tasks)]
        /\ begun' = begun /\ completed' = completed
        /\ \A n \in Networks : ToSet(pending'[n]) =
             IF n = Home[Arg(a)] THEN ToSet(pending[n]) \cup {Arg(a)} ELSE ToSet(pending[n])
    <3>1. /\ pending \in [Networks -> Seq(Tasks)] /\ Home[Arg(a)] \in Networks
          /\ pending' = [pending EXCEPT ![Home[Arg(a)]] = Append(@, Arg(a))]
          /\ begun' = begun /\ completed' = completed
      BY <1>2, <2>1 DEF Post, TypeOK
    <3>2. \A n \in Networks : Append(pending[n], Arg(a)) \in Seq(Tasks)
      BY <3>1, <2>1, AppendProperties
    <3>3. \A n \in Networks : ToSet(Append(pending[n], Arg(a))) = ToSet(pending[n]) \cup {Arg(a)}
      BY <3>1, <2>1, <1>q, RangeAppend
    <3> QED
      BY <3>1, <3>2, <3>3
  <2>3. ASSUME NEW n \in Networks
        PROVE  /\ \A t \in ToSet(pending'[n]) \cup begun'[n] \cup completed'[n] : Home[t] = n
               /\ begun'[n] \cap completed'[n] = {}
    <3>1. /\ \A t \in ToSet(pending[n]) \cup begun[n] \cup completed[n] : Home[t] = n
          /\ begun[n] \cap completed[n] = {}
      BY DEF TypeOK
    <3>2. \A t \in ToSet(pending'[n]) : Home[t] = n
      BY <3>1, <2>2
    <3> QED
      BY <3>1, <3>2, <2>2
  <2>4. /\ todo' \in [Actors -> Seq(Operation)]
        /\ born' \in Seq(Statics)
        /\ dead' \subseteq ToSet(born)' /\ late' \subseteq ToSet(born)'
    BY <1>2, <1>t, <1>l, <2>1 DEF Post
  <2>5. UNCHANGED <<hopes, broken, joining, ending, phase, exiter, fault,
                    begun, completed, closed, quiescent>>
    BY <1>2 DEF Post, stops, exit
  <2> QED
    BY <2>2, <2>3, <2>4, <2>5, <1>q DEF TypeOK
<1>3. ASSUME NEW a \in Actors, Get(a) PROVE TypeOK'
  <2>1. /\ todo' \in [Actors -> Seq(Operation)]
        /\ UNCHANGED <<hopes, broken, born, dead, late, joining, ending, phase, exiter,
                       fault, pending, begun, completed, closed, quiescent>>
    BY <1>3, <1>t DEF Get, Does, statics, stops, exit, loops
  <2> QED
    BY <2>1, <1>q DEF TypeOK
<1>4. ASSUME NEW a \in Actors, GetThrows(a) PROVE TypeOK'
  <2>1. Home[Arg(a)] \in Statics
    BY <1>4, Arguments DEF GetThrows, Does
  <2> QED
    BY <1>4, <1>f, <2>1 DEF GetThrows, TypeOK, statics, stops, exit, loops, ToSet
<1>5. ASSUME NEW a \in Actors, Expect(a) PROVE TypeOK'
  <2>1. /\ LookedUp(a) \in Statics /\ todo[a] # <<>> /\ phase # "exited"
        /\ Arg(a) \in Registries
    BY <1>5, Arguments DEF Expect, Does, Runs
  <2>2. hopes' \subseteq Actors \X Registries
    BY <1>5, <2>1 DEF Expect, TypeOK
  <2> QED
    BY <1>5, <1>k, <2>1, <2>2 DEF Expect
<1>6. ASSUME NEW a \in Actors, Emit(a) PROVE TypeOK'
  <2>1. LookedUp(a) \in Statics /\ todo[a] # <<>> /\ phase # "exited"
    BY <1>6, Arguments DEF Emit, Does, Runs
  <2>2. hopes' \subseteq Actors \X Registries
    BY <1>6 DEF Emit, TypeOK
  <2> QED
    BY <1>6, <1>k, <2>1, <2>2 DEF Emit
<1>7. ASSUME NEW a \in Actors, Hear(a) PROVE TypeOK'
  <2>1. /\ todo' \in [Actors -> Seq(Operation)]
        /\ UNCHANGED <<hopes, broken, born, dead, late, joining, ending, phase, exiter,
                       fault, pending, begun, completed, closed, quiescent>>
    BY <1>7, <1>t DEF Hear, Does, statics, stops, exit, loops
  <2> QED
    BY <2>1, <1>q DEF TypeOK
<1>8. ASSUME NEW a \in Actors, UseDestroyed(a) PROVE TypeOK'
  <2>1. LookedUp(a) \in Statics
    BY <1>8, <1>q DEF UseDestroyed, TypeOK, Range
  <2> QED
    BY <1>8, <1>f, <2>1 DEF UseDestroyed, TypeOK, statics, stops, exit, loops, ToSet
<1>9. ASSUME NEW a \in Actors, Exit(a) PROVE TypeOK'
  BY <1>9 DEF Exit, TypeOK, statics, loops, Faults, ToSet
<1>10. ASSUME NEW a \in Actors, ExitTwice(a) PROVE TypeOK'
  BY <1>10, <1>f DEF ExitTwice, TypeOK, statics, stops, exit, loops, ToSet
<1>11. ASSUME NEW t \in Tasks, Finish(t) PROVE TypeOK'
  <2>1. /\ Home[t] \in Networks /\ t \in begun[Home[t]]
        /\ begun' = [begun EXCEPT ![Home[t]] = @ \ {t}]
        /\ completed' = [completed EXCEPT ![Home[t]] = @ \cup {t}]
        /\ pending' = pending
    BY <1>11 DEF Finish, Runs, Ended, Actors
  <2>2. begun' \in [Networks -> SUBSET Tasks] /\ completed' \in [Networks -> SUBSET Tasks]
    BY <2>1 DEF TypeOK
  <2>3. \A n \in Networks :
          /\ \A u \in ToSet(pending'[n]) \cup begun'[n] \cup completed'[n] : Home[u] = n
          /\ begun'[n] \cap completed'[n] = {}
    BY <2>1 DEF TypeOK
  <2> QED
    BY <1>11, <2>2, <2>3 DEF Finish, TypeOK, statics, stops, exit, Faults, ToSet
<1>12. CASE Stop
  <2>1. /\ LookedUp(Main) \in Statics /\ todo[Main] # <<>> /\ phase # "exited"
        /\ Arg(Main) \in Networks /\ Main \in Actors
    BY <1>12, Arguments DEF Stop, Does, Runs, Actors
  <2>2. /\ todo' \in [Actors -> Seq(Operation)]
        /\ born' \in Seq(Statics)
        /\ dead' \subseteq ToSet(born)' /\ late' \subseteq ToSet(born)'
    BY <1>12, <1>t, <1>l, <2>1 DEF Stop
  <2>3. /\ closed' \in [Networks -> BOOLEAN] /\ joining' \in Networks
    BY <1>12, <2>1 DEF Stop, TypeOK
  <2>4. UNCHANGED <<hopes, broken, exit, fault, pending, begun, completed, quiescent>>
    BY <1>12 DEF Stop
  <2> QED
    BY <2>2, <2>3, <2>4 DEF TypeOK, exit, Faults, ToSet
<1>13. CASE StopReturns
  BY <1>13 DEF StopReturns, TypeOK, statics, exit, Faults, ToSet
<1>14. ASSUME NEW n \in Networks, Begin(n) PROVE TypeOK'
  <2>1. /\ pending[n] \in Seq(Tasks) /\ pending[n] # <<>>
        /\ begun' = [begun EXCEPT ![n] = @ \cup {Head(pending[n])}]
        /\ pending' = [pending EXCEPT ![n] = Tail(@)]
        /\ completed' = completed
    BY <1>14 DEF Begin, CanBegin, TypeOK
  <2>2. /\ Head(pending[n]) \in Tasks /\ Tail(pending[n]) \in Seq(Tasks)
        /\ ToSet(pending[n]) = {Head(pending[n])} \cup ToSet(Tail(pending[n]))
        /\ Head(pending[n]) \notin completed[n]
    <3>1. Range(pending[n]) \cap completed[n] = {}
      BY DEF SafetyInv, QueueInv
    <3> QED
      BY <2>1, <3>1, <1>q, HeadTailRange
  <2>3. pending' \in [Networks -> Seq(Tasks)] /\ begun' \in [Networks -> SUBSET Tasks]
    BY <2>1, <2>2 DEF TypeOK
  <2>4. ASSUME NEW m \in Networks
        PROVE  /\ \A u \in ToSet(pending'[m]) \cup begun'[m] \cup completed'[m] : Home[u] = m
               /\ begun'[m] \cap completed'[m] = {}
    <3>1. CASE m = n
      BY <3>1, <2>1, <2>2 DEF TypeOK
    <3>2. CASE m # n
      BY <3>2, <2>1 DEF TypeOK
    <3> QED
      BY <3>1, <3>2
  <2> QED
    BY <1>14, <2>1, <2>3, <2>4 DEF Begin, TypeOK, statics, stops, exit, Faults, ToSet
<1>15. ASSUME NEW i \in DOMAIN born, DestroyRegistry(i) PROVE TypeOK'
  BY <1>15 DEF DestroyRegistry, DropHopes, TypeOK, stops, exit, loops, Faults, ToSet
<1>16. ASSUME NEW i \in DOMAIN born, DestroyLoop(i) PROVE TypeOK'
  BY <1>16 DEF DestroyLoop, TypeOK, statics, Faults, ToSet
<1>17. CASE LoopDestroyed
  <2>1. ending \in Networks /\ ToSet(pending[ending]) \subseteq Tasks
    BY <1>17 DEF LoopDestroyed, TypeOK, ToSet
  <2>2. ending \in ToSet(born)
    BY <1>17 DEF LoopDestroyed, SafetyInv, EndingInv, ToSet
  <2> QED
    BY <1>17, <2>1, <2>2 DEF LoopDestroyed, BreakPromises, TypeOK, Faults, ToSet
<1>18. CASE JoinsItself
  <2>1. exiter \in Actors
    BY <1>18 DEF JoinsItself, Exiting, TypeOK, SafetyInv, PhaseInv
  <2> QED
    BY <1>18, <2>1, <1>f DEF JoinsItself, TypeOK, statics, stops, exit, loops, ToSet
<1>19. CASE Exited
  BY <1>19 DEF Exited, TypeOK, statics, loops, Faults, ToSet
<1>20. CASE UNCHANGED vars
  BY <1>20 DEF vars, TypeOK, statics, stops, exit, loops, Faults, ToSet
<1> QED
  BY <1>1, <1>2, <1>3, <1>4, <1>5, <1>6, <1>7, <1>8, <1>9, <1>10, <1>11, <1>12,
     <1>13, <1>14, <1>15, <1>16, <1>17, <1>18, <1>19, <1>20
  DEF Next, MainStep, TaskStep, Step, Destroy, Actors

-----------------------------------------------------------------------------
\* Every action is, for each loop, a step of the executor or none.
LEMMA LoopStep ==
  ASSUME TypeOK, SafetyInv, [Next]_vars, NEW n \in Networks
  PROVE  [Loop(n)!ExecNext]_(Loop(n)!taskVars)
<1> USE NetworksAssumption
<1>u. ASSUME UNCHANGED loops PROVE UNCHANGED Loop(n)!taskVars
  BY <1>u DEF loops, Loop!taskVars
<1>1. ASSUME NEW a \in Actors, Use(a) \/ Expect(a) \/ Emit(a) \/ UseDestroyed(a)
      PROVE  UNCHANGED loops
  BY <1>1 DEF Use, Expect, Emit, UseDestroyed
<1>2. ASSUME NEW a \in Actors, Get(a) \/ GetThrows(a) \/ Hear(a) \/ Exit(a) \/ ExitTwice(a)
      PROVE  UNCHANGED loops
  BY <1>2 DEF Get, GetThrows, Hear, Exit, ExitTwice
<1>3. ASSUME NEW i \in DOMAIN born, DestroyRegistry(i)
      PROVE  UNCHANGED loops
  BY <1>3 DEF DestroyRegistry
<1>4. ASSUME JoinsItself \/ Exited \/ UNCHANGED vars
      PROVE  UNCHANGED loops
  BY <1>4 DEF JoinsItself, Exited, vars
<1>5. ASSUME NEW a \in Actors, Post(a)
      PROVE  [Loop(n)!ExecNext]_(Loop(n)!taskVars)
  <2>1. /\ Arg(a) \in Tasks /\ Arg(a) \notin Posted
        /\ pending' = [pending EXCEPT ![Home[Arg(a)]] = Append(@, Arg(a))]
        /\ UNCHANGED <<begun, completed, closed, quiescent>>
    BY <1>5, Arguments DEF Post, Does
  <2>2. CASE n = Home[Arg(a)]
    <3>1. Arg(a) \notin Loop(n)!Posted
      BY <2>1 DEF Loop!Posted, Posted, ToSet
    <3>2. Loop(n)!Post(Arg(a))
      BY <2>1, <2>2, <3>1 DEF Loop!Post, TypeOK
    <3> QED
      BY <2>1, <2>2, <3>2 DEF Loop!ExecNext
  <2>3. CASE n # Home[Arg(a)]
    BY <2>1, <2>3 DEF Loop!taskVars, TypeOK
  <2> QED
    BY <2>2, <2>3
<1>6. ASSUME NEW t \in Tasks, Finish(t)
      PROVE  [Loop(n)!ExecNext]_(Loop(n)!taskVars)
  <2>1. /\ t \in begun[Home[t]]
        /\ begun' = [begun EXCEPT ![Home[t]] = @ \ {t}]
        /\ completed' = [completed EXCEPT ![Home[t]] = @ \cup {t}]
        /\ UNCHANGED <<pending, closed, quiescent>>
    BY <1>6 DEF Finish, Runs, Ended, Actors
  <2>2. CASE n = Home[t]
    <3>1. Loop(n)!Complete(t)
      BY <2>1, <2>2 DEF Loop!Complete, TypeOK
    <3> QED
      BY <2>2, <3>1 DEF Loop!ExecNext
  <2>3. CASE n # Home[t]
    BY <2>1, <2>3 DEF Loop!taskVars, TypeOK
  <2> QED
    BY <2>2, <2>3
<1>7. ASSUME NEW m \in Networks, closed' = [closed EXCEPT ![m] = TRUE],
             UNCHANGED <<pending, begun, completed, quiescent>>
      PROVE  [Loop(n)!ExecNext]_(Loop(n)!taskVars)
  <2>1. CASE m = n /\ ~closed[n]
    BY <1>7, <2>1 DEF Loop!Close, Loop!ExecNext, TypeOK
  <2>2. CASE m # n \/ closed[n]
    BY <1>7, <2>2 DEF Loop!taskVars, TypeOK
  <2> QED
    BY <2>1, <2>2
<1>8. CASE Stop
  <2>1. Arg(Main) \in Networks
    BY <1>8, Arguments DEF Stop, Does, Actors
  <2> QED
    BY <1>7, <1>8, <2>1 DEF Stop
<1>9. ASSUME NEW i \in DOMAIN born, DestroyLoop(i)
      PROVE  [Loop(n)!ExecNext]_(Loop(n)!taskVars)
  BY <1>7, <1>9 DEF DestroyLoop
<1>10. ASSUME NEW m \in Networks, m = ending \/ m = joining, Joined(m),
              quiescent' = [quiescent EXCEPT ![m] = TRUE],
              UNCHANGED <<pending, begun, completed, closed>>
       PROVE  [Loop(n)!ExecNext]_(Loop(n)!taskVars)
  <2>1. closed[m] /\ begun[m] = {}
    BY <1>10 DEF Joined, SafetyInv, LoopInv
  <2>2. CASE m = n
    BY <1>10, <2>1, <2>2 DEF Loop!Quiesce, Loop!ExecNext, TypeOK
  <2>3. CASE m # n
    BY <1>10, <2>3 DEF Loop!taskVars, TypeOK
  <2> QED
    BY <2>2, <2>3
<1>11. CASE StopReturns
  <2>1. joining \in Networks
    BY <1>11 DEF StopReturns, TypeOK
  <2> QED
    BY <1>10, <1>11, <2>1 DEF StopReturns
<1>12. CASE LoopDestroyed
  <2>1. ending \in Networks
    BY <1>12 DEF LoopDestroyed, TypeOK
  <2> QED
    BY <1>10, <1>12, <2>1 DEF LoopDestroyed
<1>13. ASSUME NEW m \in Networks, Begin(m)
       PROVE  [Loop(n)!ExecNext]_(Loop(n)!taskVars)
  <2>1. /\ ~closed[m] /\ pending[m] # <<>>
        /\ begun' = [begun EXCEPT ![m] = @ \cup {Head(pending[m])}]
        /\ pending' = [pending EXCEPT ![m] = Tail(@)]
        /\ UNCHANGED <<completed, closed, quiescent>>
    BY <1>13 DEF Begin, CanBegin
  <2>2. CASE m = n
    BY <2>1, <2>2 DEF Loop!Begin, Loop!ExecNext, TypeOK
  <2>3. CASE m # n
    BY <2>1, <2>3 DEF Loop!taskVars, TypeOK
  <2> QED
    BY <2>2, <2>3
<1> QED
  BY <1>u, <1>1, <1>2, <1>3, <1>4, <1>5, <1>6, <1>8, <1>9, <1>11, <1>12, <1>13
  DEF Next, MainStep, TaskStep, Step, Destroy, Actors

\* An executor's step keeps each task at one place of its loop.
LEMMA QueueStep ==
  ASSUME TypeOK, TypeOK', QueueInv, NEW n \in Networks,
         [Loop(n)!ExecNext]_(Loop(n)!taskVars)
  PROVE  /\ IsInjective(pending'[n])
         /\ Range(pending'[n]) \cap (begun'[n] \cup completed'[n]) = {}
<1>q. /\ pending[n] \in Seq(Tasks) /\ IsInjective(pending[n])
      /\ Range(pending[n]) \cap (begun[n] \cup completed[n]) = {}
      /\ begun[n] \cap completed[n] = {}
  BY DEF TypeOK, QueueInv
<1>1. ASSUME NEW t \in Tasks, Loop(n)!Post(t)
      PROVE  /\ IsInjective(pending'[n])
             /\ Range(pending'[n]) \cap (begun'[n] \cup completed'[n]) = {}
  <2>1. /\ t \notin Range(pending[n]) \cup begun[n] \cup completed[n]
        /\ pending'[n] = Append(pending[n], t)
        /\ begun'[n] = begun[n] /\ completed'[n] = completed[n]
    BY <1>1 DEF Loop!Post, Loop!Posted, Range
  <2> QED
    BY <1>q, <2>1, AppendInjectiveQueue, RangeAppend
<1>2. ASSUME NEW t \in Tasks, Loop(n)!Complete(t)
      PROVE  /\ IsInjective(pending'[n])
             /\ Range(pending'[n]) \cap (begun'[n] \cup completed'[n]) = {}
  BY <1>q, <1>2 DEF Loop!Complete
<1>3. ASSUME Loop(n)!Begin
      PROVE  /\ IsInjective(pending'[n])
             /\ Range(pending'[n]) \cap (begun'[n] \cup completed'[n]) = {}
  <2>1. /\ pending[n] # <<>> /\ pending'[n] = Tail(pending[n])
        /\ begun'[n] = begun[n] \cup {Head(pending[n])}
        /\ completed'[n] = completed[n]
    BY <1>3 DEF Loop!Begin
  <2>2. IsInjective(Tail(pending[n])) /\ Head(pending[n]) \notin Range(Tail(pending[n]))
    BY <1>q, <2>1, TailInjectiveQueue
  <2>3. Range(Tail(pending[n])) \subseteq Range(pending[n])
    BY <1>q, <2>1, HeadTailRange
  <2> QED
    BY <1>q, <2>1, <2>2, <2>3
<1>4. CASE \/ Loop(n)!Close \/ Loop(n)!Quiesce \/ UNCHANGED Loop(n)!taskVars
  BY <1>q, <1>4 DEF Loop!Close, Loop!Quiesce, Loop!taskVars
<1> QED
  BY <1>1, <1>2, <1>3, <1>4 DEF Loop!ExecNext

-----------------------------------------------------------------------------
\* An action that looks nothing up and destroys nothing.
LEMMA KeepsStatics ==
  ASSUME SafetyInv, UNCHANGED <<statics, ending, phase, exiter>>
  PROVE  BornInv' /\ EndingInv' /\ PhaseInv'
BY DEF SafetyInv, BornInv, EndingInv, PhaseInv, statics, IsInjective

\* An action that looks a static up, and destroys nothing.
LEMMA KeepsOrder ==
  ASSUME TypeOK, SafetyInv, NEW a \in Actors, LookedUp(a) \in Statics,
         LookUp(a), phase # "exited", UNCHANGED <<ending, phase, exiter>>
  PROVE  BornInv' /\ EndingInv' /\ PhaseInv'
<1>1. BornInv' /\ dead' = dead
  BY LookUpEffect
<1>2. PhaseInv'
  BY <1>1 DEF SafetyInv, PhaseInv
<1>3. ASSUME ending # None PROVE EndingInv'
  <2>1. phase # "running"
    BY <1>3 DEF SafetyInv, PhaseInv
  <2>2. PICK i \in DOMAIN born :
          born[i] = ending /\ \A j \in DOMAIN born : j > i => born[j] \in dead \cup late
    BY <1>3 DEF SafetyInv, EndingInv
  <2>3. i \in DOMAIN born' /\ born'[i] = ending'
    BY <2>2, LookUpEffect
  <2>4. ASSUME NEW j \in DOMAIN born', j > i PROVE born'[j] \in dead' \cup late'
    <3>1. CASE j \in DOMAIN born
      BY <2>2, <2>4, <3>1, LookUpEffect
    <3>2. CASE j \notin DOMAIN born
      BY <2>1, <3>2, <1>1, LookUpEffect
    <3> QED
      BY <3>1, <3>2
  <2> QED
    BY <1>1, <1>3, <2>3, <2>4 DEF SafetyInv, EndingInv
<1>4. ASSUME ending = None PROVE EndingInv'
  BY <1>4 DEF EndingInv
<1> QED
  BY <1>1, <1>2, <1>3, <1>4

\* The youngest static alive may be destroyed.
LEMMA KeepsYoungest ==
  ASSUME TypeOK, BornInv, NEW o, o \notin dead, dead' = dead \cup {o}, UNCHANGED <<born, late>>,
         NEW i \in DOMAIN born, born[i] = o,
         \A j \in DOMAIN born : j > i => born[j] \in dead \cup late
  PROVE  BornInv'
<1>1. ASSUME NEW j \in DOMAIN born, NEW k \in DOMAIN born,
             j < k, born[j] \in dead', born[k] \notin dead'
      PROVE  born[k] \in late
  <2>1. CASE born[j] \in dead
    BY <1>1, <2>1 DEF BornInv
  <2>2. CASE born[j] \notin dead
    <3>1. j = i
      BY <1>1, <2>2 DEF BornInv, IsInjective
    <3> QED
      BY <1>1, <3>1
  <2> QED
    BY <2>1, <2>2
<1> QED
  BY <1>1 DEF BornInv, IsInjective

LEMMA OrderStep ==
  ASSUME TypeOK, SafetyInv, [Next]_vars
  PROVE  BornInv' /\ EndingInv' /\ PhaseInv'
<1>1. ASSUME NEW a \in Actors, Use(a) \/ Post(a) \/ Expect(a) \/ Emit(a)
      PROVE  BornInv' /\ EndingInv' /\ PhaseInv'
  <2>1. /\ LookedUp(a) \in Statics /\ LookUp(a) /\ phase # "exited"
    BY <1>1, Arguments DEF Use, Post, Expect, Emit, Does, Runs, Statics
  <2>2. UNCHANGED <<ending, phase, exiter>>
    BY <1>1 DEF Use, Post, Expect, Emit, stops, exit
  <2> QED
    BY <2>1, <2>2, KeepsOrder
<1>2. CASE Stop
  <2>1. Main \in Actors /\ LookedUp(Main) \in Statics /\ LookUp(Main) /\ phase # "exited"
    BY <1>2, Arguments DEF Stop, Does, Runs, Statics, Actors
  <2>2. UNCHANGED <<ending, phase, exiter>>
    BY <1>2 DEF Stop, exit
  <2> QED
    BY <2>1, <2>2, KeepsOrder
<1>3. ASSUME NEW a \in Actors,
             Get(a) \/ GetThrows(a) \/ Hear(a) \/ UseDestroyed(a) \/ ExitTwice(a)
      PROVE  BornInv' /\ EndingInv' /\ PhaseInv'
  BY <1>3, KeepsStatics DEF Get, GetThrows, Hear, UseDestroyed, ExitTwice, stops, exit
<1>4. ASSUME \/ \E t \in Tasks : Finish(t)
             \/ \E n \in Networks : Begin(n)
             \/ StopReturns \/ JoinsItself \/ UNCHANGED vars
      PROVE  BornInv' /\ EndingInv' /\ PhaseInv'
  BY <1>4, KeepsStatics DEF Finish, Begin, StopReturns, JoinsItself, vars, stops, exit
<1>5. ASSUME NEW a \in Actors, Exit(a)
      PROVE  BornInv' /\ EndingInv' /\ PhaseInv'
  <2>1. a # None
    BY <1>5, NetworksAssumption
  <2> QED
    BY <1>5, <2>1 DEF Exit, SafetyInv, BornInv, EndingInv, PhaseInv, statics, IsInjective
<1>6. CASE Exited
  BY <1>6 DEF Exited, Exiting, SafetyInv, BornInv, EndingInv, PhaseInv, statics, IsInjective
<1>7. ASSUME NEW i \in DOMAIN born, DestroyRegistry(i)
      PROVE  BornInv' /\ EndingInv' /\ PhaseInv'
  <2>1. /\ born[i] \notin dead /\ \A j \in DOMAIN born : j > i => born[j] \in dead
        /\ dead' = dead \cup {born[i]} /\ UNCHANGED <<born, late, ending, phase, exiter>>
        /\ ending = None /\ phase = "exiting"
    BY <1>7 DEF DestroyRegistry, IsYoungest, Exiting, stops, exit
  <2>2. BornInv'
    BY <2>1, KeepsYoungest DEF SafetyInv
  <2> QED
    BY <2>1, <2>2 DEF SafetyInv, EndingInv, PhaseInv
<1>8. ASSUME NEW i \in DOMAIN born, DestroyLoop(i)
      PROVE  BornInv' /\ EndingInv' /\ PhaseInv'
  <2>1. /\ born[i] \notin dead /\ \A j \in DOMAIN born : j > i => born[j] \in dead
        /\ ending' = born[i] /\ UNCHANGED <<born, dead, late, phase, exiter>>
        /\ phase = "exiting"
    BY <1>8 DEF DestroyLoop, IsYoungest, Exiting, statics
  <2> QED
    BY <2>1 DEF SafetyInv, BornInv, EndingInv, PhaseInv, IsInjective
<1>9. CASE LoopDestroyed
  <2>1. /\ ending # None /\ dead' = dead \cup {ending} /\ ending' = None
        /\ UNCHANGED <<born, late, phase, exiter>> /\ phase = "exiting"
    BY <1>9 DEF LoopDestroyed, Exiting
  <2>2. BornInv'
    BY <2>1, KeepsYoungest DEF SafetyInv, EndingInv
  <2> QED
    BY <2>1, <2>2 DEF SafetyInv, EndingInv, PhaseInv
<1> QED
  BY <1>1, <1>2, <1>3, <1>4, <1>5, <1>6, <1>7, <1>8, <1>9
  DEF Next, MainStep, TaskStep, Step, Destroy, Actors

-----------------------------------------------------------------------------
\* What holds of the loops needs only that construction adds statics, and
\* that the loops, the promises and the stops stay as they are.
LEMMA KeepsLoops ==
  ASSUME SafetyInv, Range(born) \subseteq Range(born'),
         UNCHANGED <<dead, broken, stops, loops>>
  PROVE  LoopInv' /\ BrokenInv'
BY DEF SafetyInv, LoopInv, BrokenInv, stops, exit, loops

\* The parts of the state that LoopInv and BrokenInv speak of, per action.
LEMMA LoopInvStep ==
  ASSUME TypeOK, SafetyInv, [Next]_vars
  PROVE  LoopInv' /\ BrokenInv'
<1> USE NetworksAssumption
<1>0. LoopInv /\ BrokenInv
  BY DEF SafetyInv
<1>1. ASSUME NEW a \in Actors, Use(a) \/ Expect(a) \/ Emit(a)
      PROVE  LoopInv' /\ BrokenInv'
  <2>1. LookedUp(a) \in Statics /\ LookUp(a) /\ phase # "exited"
    BY <1>1, Arguments DEF Use, Expect, Emit, Does, Runs
  <2>2. dead' = dead /\ Range(born) \subseteq Range(born')
    BY <2>1, LookUpEffect
  <2> QED
    BY <1>1, <2>2, KeepsLoops DEF Use, Expect, Emit
<1>2. ASSUME NEW a \in Actors,
             Get(a) \/ GetThrows(a) \/ Hear(a) \/ UseDestroyed(a) \/ ExitTwice(a)
      PROVE  LoopInv' /\ BrokenInv'
  BY <1>2, KeepsLoops DEF Get, GetThrows, Hear, UseDestroyed, ExitTwice, statics
<1>3. CASE JoinsItself \/ UNCHANGED vars
  BY <1>3, KeepsLoops DEF JoinsItself, vars, statics
<1>4. ASSUME NEW a \in Actors, Exit(a) \/ Exited
      PROVE  LoopInv' /\ BrokenInv'
  BY <1>0, <1>4 DEF Exit, Exited, LoopInv, BrokenInv, statics, loops
<1>5. ASSUME NEW a \in Actors, Post(a)
      PROVE  LoopInv' /\ BrokenInv'
  <2>1. /\ Arg(a) \in Tasks /\ LookedUp(a) = Home[Arg(a)] /\ LookedUp(a) \in Statics
        /\ LookUp(a) /\ phase # "exited"
    BY <1>5, Arguments DEF Post, Does, Runs, Statics
  <2>2. /\ dead' = dead /\ Range(born') = Range(born) \cup {Home[Arg(a)]}
        /\ Home[Arg(a)] \notin dead
    BY <2>1, LookUpEffect
  <2>3. /\ pending' = [pending EXCEPT ![Home[Arg(a)]] = Append(@, Arg(a))]
        /\ UNCHANGED <<broken, ending, joining, begun, closed>>
    BY <1>5 DEF Post, stops, exit
  <2>4. \A n \in Networks : n # Home[Arg(a)] => pending'[n] = pending[n]
    BY <2>3 DEF TypeOK
  <2> QED
    BY <1>0, <2>2, <2>3, <2>4 DEF LoopInv, BrokenInv
<1>6. ASSUME NEW t \in Tasks, Finish(t)
      PROVE  LoopInv' /\ BrokenInv'
  <2>1. /\ begun' = [begun EXCEPT ![Home[t]] = @ \ {t}]
        /\ UNCHANGED <<broken, born, dead, ending, joining, pending, closed>>
    BY <1>6 DEF Finish, Ended, statics, stops, exit
  <2>2. \A n \in Networks : begun'[n] \subseteq begun[n]
    BY <2>1 DEF TypeOK
  <2> QED
    BY <1>0, <2>1, <2>2 DEF LoopInv, BrokenInv
<1>7. CASE Stop
  <2>1. /\ Main \in Actors /\ Arg(Main) \in Networks
        /\ LookedUp(Main) \in Statics /\ LookUp(Main) /\ phase # "exited"
    BY <1>7, Arguments DEF Stop, Does, Runs, Actors, Statics
  <2>2. dead' = dead /\ Range(born) \subseteq Range(born')
    BY <2>1, LookUpEffect
  <2>3. /\ closed' = [closed EXCEPT ![Arg(Main)] = TRUE] /\ joining' = Arg(Main)
        /\ UNCHANGED <<broken, ending, pending, begun>>
    BY <1>7 DEF Stop, exit
  <2>4. closed'[Arg(Main)] /\ \A n \in Networks : closed[n] => closed'[n]
    BY <2>1, <2>3 DEF TypeOK
  <2>5. LoopInv'
    BY <1>0, <2>2, <2>3, <2>4 DEF LoopInv
  <2>6. BrokenInv'
    BY <1>0, <2>2, <2>3 DEF BrokenInv
  <2> QED
    BY <2>5, <2>6
<1>8. CASE StopReturns
  BY <1>0, <1>8 DEF StopReturns, LoopInv, BrokenInv, statics, exit, Statics
<1>9. ASSUME NEW n \in Networks, Begin(n)
      PROVE  LoopInv' /\ BrokenInv'
  <2>1. /\ begun' = [begun EXCEPT ![n] = @ \cup {Head(pending[n])}]
        /\ pending' = [pending EXCEPT ![n] = Tail(@)]
        /\ ~closed[n] /\ pending[n] # <<>>
        /\ UNCHANGED <<broken, born, dead, ending, joining, closed>>
    BY <1>9 DEF Begin, CanBegin, statics, stops, exit
  <2>2. n \notin dead /\ n \in Range(born)
    BY <1>0, <2>1 DEF LoopInv
  <2>3. \A m \in Networks : m # n => begun'[m] = begun[m] /\ pending'[m] = pending[m]
    BY <2>1 DEF TypeOK
  <2> QED
    BY <1>0, <2>1, <2>2, <2>3 DEF LoopInv, BrokenInv
<1>10. ASSUME NEW i \in DOMAIN born, DestroyRegistry(i)
       PROVE  LoopInv' /\ BrokenInv'
  <2>1. /\ born[i] \notin Networks /\ dead' = dead \cup {born[i]}
        /\ UNCHANGED <<broken, born, ending, joining, loops>>
    BY <1>10 DEF DestroyRegistry, stops, exit
  <2> QED
    BY <1>0, <2>1 DEF LoopInv, BrokenInv, loops
<1>11. ASSUME NEW i \in DOMAIN born, DestroyLoop(i)
       PROVE  LoopInv' /\ BrokenInv'
  <2>1. /\ born[i] \in Networks /\ ending' = born[i]
        /\ closed' = [closed EXCEPT ![born[i]] = TRUE]
        /\ UNCHANGED <<broken, born, dead, joining, pending, begun>>
    BY <1>11 DEF DestroyLoop, statics
  <2> QED
    BY <1>0, <2>1 DEF LoopInv, BrokenInv, TypeOK
<1>12. CASE LoopDestroyed
  <2>1. /\ ending \in Networks /\ begun[ending] = {} /\ closed[ending]
        /\ dead' = dead \cup {ending} /\ ending' = None
        /\ broken' = broken \cup Range(pending[ending])
        /\ UNCHANGED <<born, joining, pending, begun, closed>>
    BY <1>0, <1>12, ToSetIsRange DEF LoopDestroyed, BreakPromises, Joined, TypeOK, LoopInv
  <2>2. \A t \in Range(pending[ending]) : Home[t] = ending
    BY <2>1, ToSetIsRange DEF TypeOK
  <2>3. LoopInv'
    BY <1>0, <2>1 DEF LoopInv, Statics
  <2>4. BrokenInv'
    BY <1>0, <2>1, <2>2 DEF BrokenInv
  <2> QED
    BY <2>3, <2>4
<1> QED
  BY <1>1, <1>2, <1>3, <1>4, <1>5, <1>6, <1>7, <1>8, <1>9, <1>10, <1>11, <1>12
  DEF Next, MainStep, TaskStep, Step, Destroy, Actors

\* A task that executes is on a loop that lives: what it finds destroyed was
\* constructed after its loop, unless the loop was constructed late.
LEMMA MissedByTask ==
  ASSUME TypeOK, SafetyInv, NEW t \in Tasks, Runs(t), NEW o \in dead
  PROVE  Younger(o, Home[t]) \/ Home[t] \in late
<1> DEFINE n == Home[t]
<1>1. t # Main /\ n \in Networks
  BY NetworksAssumption
<1>2. t \in begun[n]
  BY <1>1 DEF Runs
<1>3. n \notin dead /\ n \in Range(born)
  BY <1>1, <1>2 DEF SafetyInv, LoopInv
<1>4. PICK i \in DOMAIN born : born[i] = n
  BY <1>3 DEF Range
<1>5. PICK j \in DOMAIN born : born[j] = o
  BY DEF TypeOK, ToSet
<1>6. i \in Nat /\ j \in Nat /\ i # j
  BY <1>3, <1>4, <1>5, LenProperties DEF TypeOK
<1>7. CASE i < j
  BY <1>4, <1>5, <1>7 DEF Younger
<1>8. CASE j < i
  BY <1>3, <1>4, <1>5, <1>8 DEF SafetyInv, BornInv
<1> QED
  BY <1>6, <1>7, <1>8

LEMMA MissedStep ==
  ASSUME TypeOK, SafetyInv, OnlyYoungerAreMissed, [Next]_vars
  PROVE  OnlyYoungerAreMissed'
<1>1. CASE fault.kind = "none" /\ UNCHANGED fault
  BY <1>1 DEF OnlyYoungerAreMissed
<1>2. ASSUME NEW a \in Actors, UseDestroyed(a) \/ GetThrows(a)
      PROVE  OnlyYoungerAreMissed'
  <2>1. /\ Runs(a) /\ UNCHANGED <<born, late, exiter>>
        /\ fault'.by = a /\ fault'.of \in dead
    <3>1. CASE UseDestroyed(a)
      BY <3>1 DEF UseDestroyed, statics, stops, exit
    <3>2. CASE GetThrows(a)
      BY <3>2 DEF GetThrows, Does, statics, stops, exit, SafetyInv, BrokenInv
    <3> QED
      BY <1>2, <3>1, <3>2
  <2>2. CASE a = Main
    <3>1. exiter # Main
      BY <2>1, <2>2, NetworksAssumption DEF Runs, Thread, Actors
    <3> QED
      BY <2>1, <2>2, <3>1 DEF OnlyYoungerAreMissed
  <2>3. CASE a # Main
    BY <2>1, <2>3, MissedByTask DEF OnlyYoungerAreMissed, Younger, Actors
  <2> QED
    BY <2>2, <2>3
<1>3. ASSUME NEW a \in Actors, ExitTwice(a) \/ JoinsItself
      PROVE  OnlyYoungerAreMissed'
  BY <1>3 DEF ExitTwice, JoinsItself, OnlyYoungerAreMissed
<1>4. CASE UNCHANGED vars
  BY <1>4 DEF vars, statics, stops, exit, OnlyYoungerAreMissed, Younger
<1>5. ASSUME NEW a \in Actors,
             Use(a) \/ Post(a) \/ Get(a) \/ Expect(a) \/ Emit(a) \/ Hear(a) \/ Exit(a)
      PROVE  fault.kind = "none" /\ UNCHANGED fault
  BY <1>5 DEF Use, Post, Get, Expect, Emit, Hear, Exit, CallsExit, Does, Runs
<1>6. ASSUME NEW t \in Tasks, Finish(t)
      PROVE  fault.kind = "none" /\ UNCHANGED fault
  BY <1>6 DEF Finish, Runs
<1>7. ASSUME NEW n \in Networks, Begin(n)
      PROVE  fault.kind = "none" /\ UNCHANGED fault
  BY <1>7 DEF Begin
<1>8. ASSUME Stop \/ StopReturns
      PROVE  fault.kind = "none" /\ UNCHANGED fault
  BY <1>8 DEF Stop, StopReturns, Does, Runs
<1>9. ASSUME NEW i \in DOMAIN born, DestroyRegistry(i) \/ DestroyLoop(i)
      PROVE  fault.kind = "none" /\ UNCHANGED fault
  BY <1>9 DEF DestroyRegistry, DestroyLoop, Exiting
<1>10. ASSUME LoopDestroyed \/ Exited
       PROVE  fault.kind = "none" /\ UNCHANGED fault
  BY <1>10 DEF LoopDestroyed, Exited, Exiting
<1> QED
  BY <1>1, <1>2, <1>3, <1>4, <1>5, <1>6, <1>7, <1>8, <1>9, <1>10
  DEF Next, MainStep, TaskStep, Step, Destroy, Actors

-----------------------------------------------------------------------------
LEMMA InitIInv == Init => IInv
<1> SUFFICES ASSUME Init PROVE IInv
  OBVIOUS
<1> USE NetworksAssumption
<1>1. /\ born = <<>> /\ dead = {} /\ ending = None /\ joining = None
      /\ phase = "running" /\ exiter = None /\ broken = {} /\ fault = NoFault
      /\ todo \in Programs /\ hopes = {} /\ late = {}
  BY DEF Init
<1>2. /\ pending = [n \in Networks |-> <<>>]
      /\ begun = [n \in Networks |-> {}] /\ completed = [n \in Networks |-> {}]
      /\ closed = [n \in Networks |-> FALSE] /\ quiescent = [n \in Networks |-> FALSE]
  BY DEF Init
<1>3. DOMAIN <<>> = {} /\ Range(<<>>) = {} /\ ToSet(<<>>) = {}
  BY DEF Range, ToSet
<1>4. TypeOK
  BY <1>1, <1>2, <1>3 DEF TypeOK, Faults, NoFault
<1>5. BornInv /\ EndingInv /\ PhaseInv /\ BrokenInv
  BY <1>1, <1>3 DEF BornInv, EndingInv, PhaseInv, BrokenInv, IsInjective
<1>6. LoopInv
  BY <1>1, <1>2 DEF LoopInv, Statics
<1>7. QueueInv
  BY <1>2, <1>3 DEF QueueInv, IsInjective
<1>8. OnlyYoungerAreMissed
  BY <1>1 DEF OnlyYoungerAreMissed, NoFault
<1> QED
  BY <1>4, <1>5, <1>6, <1>7, <1>8 DEF IInv, SafetyInv

LEMMA NextIInv == IInv /\ [Next]_vars => IInv'
<1> SUFFICES ASSUME IInv, [Next]_vars PROVE IInv'
  OBVIOUS
<1>1. TypeOK /\ SafetyInv /\ OnlyYoungerAreMissed
  BY DEF IInv
<1>2. TypeOK'
  BY <1>1, TypeStep
<1>3. BornInv' /\ EndingInv' /\ PhaseInv' /\ LoopInv' /\ BrokenInv'
  BY <1>1, OrderStep, LoopInvStep
<1>4. QueueInv'
  BY <1>1, <1>2, LoopStep, QueueStep DEF SafetyInv, QueueInv
<1>5. OnlyYoungerAreMissed'
  BY <1>1, MissedStep
<1> QED
  BY <1>2, <1>3, <1>4, <1>5 DEF IInv, SafetyInv

\* The inductive invariant of exit().
THEOREM Invariance == Spec => []IInv
  BY InitIInv, NextIInv, PTL DEF Spec

\* The state of a program of any size keeps its shape, and each loop has only
\* tasks of its own network.
THEOREM TypeCorrect == Spec => []TypeOK
<1>1. IInv => TypeOK
  BY DEF IInv
<1> QED
  BY <1>1, Invariance, PTL

\* Whatever the program, a task meets a destroyed static or a broken promise
\* only if that static was constructed after the task's own loop, or that loop
\* during exit(): GetFunction, GetSignal and getEventLoop destroy in order.
THEOREM OrderOfConstruction == Spec => []OnlyYoungerAreMissed
<1>1. IInv => OnlyYoungerAreMissed
  BY DEF IInv
<1> QED
  BY <1>1, Invariance, PTL

\* ~EventLoop leaves no future of its tasks without a value or an exception.
THEOREM NoFutureOutlivesItsLoop == Spec => []DeadLoopsAnswer
<1>1. IInv => DeadLoopsAnswer
  BY ToSetIsRange DEF IInv, SafetyInv, LoopInv, DeadLoopsAnswer
<1> QED
  BY <1>1, Invariance, PTL

\* Construction, Stop() and destruction in order use each loop as TaskExecutor
\* allows, however many loops there are.
THEOREM ImplementsExecutors == Spec => LoopsImplementExecutor
<1>1. Init => \A n \in Networks : Loop(n)!ExecInit
  BY DEF Init, Loop!ExecInit
<1>2. IInv /\ [Next]_vars => \A n \in Networks : [Loop(n)!ExecNext]_(Loop(n)!taskVars)
  BY LoopStep DEF IInv
<1> QED
  BY <1>1, <1>2, Invariance, PTL DEF Spec, LoopsImplementExecutor

-----------------------------------------------------------------------------
\* Until exit() begins nothing is constructed late and nothing goes wrong.
RunningInv == phase = "running" => late = {} /\ fault.kind = "none"

LEMMA RunningStep == IInv /\ RunningInv /\ [Next]_vars => RunningInv'
<1> SUFFICES ASSUME IInv, RunningInv, [Next]_vars, phase' = "running"
             PROVE  late' = {} /\ fault'.kind = "none"
  BY DEF RunningInv
<1>1. phase = "running" /\ dead = {} /\ broken = {}
  <2>1. phase = "running"
    BY DEF Next, MainStep, TaskStep, Step, Destroy, Use, Post, Get, GetThrows, Expect,
       Emit, Hear, UseDestroyed, Exit, ExitTwice, Finish, Stop, StopReturns, Begin,
       DestroyRegistry, DestroyLoop, LoopDestroyed, JoinsItself, Exited, vars, stops, exit
  <2> QED
    BY <2>1 DEF IInv, SafetyInv, PhaseInv, BrokenInv
<1>2. late = {} /\ fault.kind = "none"
  BY <1>1 DEF RunningInv
<1>3. late' = late
  <2>1. ASSUME NEW a \in Actors, LookUp(a) PROVE late' = late
    BY <1>1, <2>1 DEF LookUp
  <2> QED
    BY <2>1 DEF Next, MainStep, TaskStep, Step, Destroy, Use, Post, Get, GetThrows,
       Expect, Emit, Hear, UseDestroyed, Exit, ExitTwice, Finish, Stop, StopReturns,
       Begin, DestroyRegistry, DestroyLoop, LoopDestroyed, JoinsItself, Exited, vars,
       statics, Actors
<1>4. fault' = fault
  BY <1>1 DEF Next, MainStep, TaskStep, Step, Destroy, Use, Post, Get, GetThrows,
     Expect, Emit, Hear, UseDestroyed, Exit, ExitTwice, Finish, Stop, StopReturns,
     Begin, DestroyRegistry, DestroyLoop, LoopDestroyed, JoinsItself, Exited, Exiting,
     vars
<1> QED
  BY <1>2, <1>3, <1>4

\* A prepared program in which main() called exit(), or nobody did so far.
Settled ==
  Prepared /\ exiter \in {None, Main} /\ late = {} /\ fault.kind = "none"

\* What a task that executes has still to look up is not destroyed, and is
\* its own loop or constructed before it.
LEMMA NeededLives ==
  ASSUME IInv, Settled, NEW t \in Tasks, Runs(t), todo[t] # <<>>,
         Needed(Head(todo[t])) # None
  PROVE  /\ Needed(Head(todo[t])) \notin dead
         /\ Needed(Head(todo[t])) \in Range(born)
<1> DEFINE n == Home[t]
           o == Needed(Head(todo[t]))
<1>1. t # Main /\ n \in Networks
  BY NetworksAssumption
<1>2. n \notin dead /\ n \in Range(born)
  BY <1>1 DEF Runs, IInv, SafetyInv, LoopInv
<1>3. 1 \in DOMAIN todo[t] /\ todo[t][1] = Head(todo[t])
  <2>1. todo[t] \in Seq(Operation)
    BY DEF IInv, TypeOK, Actors
  <2> QED
    BY <2>1, LenProperties, HeadTailProperties
<1>4. o = n \/ Outlives(o, n)
  BY <1>3 DEF Settled, Prepared
<1>5. ASSUME Outlives(o, n)
      PROVE  o \notin dead /\ o \in Range(born)
  <2>1. o \in Range(born) /\ Younger(n, o)
    BY <1>2, <1>5, ToSetIsRange DEF Outlives
  <2>2. PICK i, j \in DOMAIN born : i < j /\ born[i] = o /\ born[j] = n
    BY <2>1 DEF Younger
  <2>3. o \notin dead
    BY <1>2, <2>2 DEF Settled, IInv, SafetyInv, BornInv
  <2> QED
    BY <2>1, <2>3
<1> QED
  BY <1>2, <1>4, <1>5

LEMMA LookedUpIsNeeded ==
  ASSUME NEW a, LookedUp(a) # None
  PROVE  Needed(Head(todo[a])) = LookedUp(a)
BY DEF LookedUp, Needed, Arg

\* Constructing one more static leaves what outlives a loop as it was.
LEMMA OutlivesKept ==
  ASSUME IInv, NEW o, NEW n, Outlives(o, n),
         \/ born' = born
         \/ \E b \in Statics : born' = Append(born, b)
  PROVE  Outlives(o, n)'
<1>1. born \in Seq(Statics) /\ o \in Range(born)
  BY ToSetIsRange DEF IInv, TypeOK, Outlives
<1>2. CASE born' = born
  BY <1>2 DEF Outlives, Younger, ToSet
<1>3. ASSUME NEW b \in Statics, born' = Append(born, b)
      PROVE  Outlives(o, n)'
  <2>1. /\ Len(born) \in Nat /\ DOMAIN born = 1..Len(born)
        /\ DOMAIN born' = 1..(Len(born) + 1)
        /\ \A i \in 1..Len(born) : born'[i] = born[i]
        /\ born'[Len(born) + 1] = b
    BY <1>1, <1>3, AppendProperties, LenProperties
  <2>2. Range(born') = Range(born) \cup {b}
    BY <1>1, <1>3, RangeAppend
  <2>3. PICK i \in DOMAIN born : born[i] = o
    BY <1>1 DEF Range
  <2>4. CASE n \in Range(born)
    <3>1. Younger(n, o)
      BY <2>4, ToSetIsRange DEF Outlives
    <3>2. Younger(n, o)'
      BY <2>1, <3>1 DEF Younger
    <3> QED
      BY <1>1, <2>2, <3>2, ToSetIsRange DEF Outlives
  <2>5. CASE n \notin Range(born)
    <3>1. n \in Range(born') => Younger(n, o)'
      BY <2>1, <2>2, <2>3, <2>5 DEF Younger
    <3> QED
      BY <1>1, <2>2, <3>1, ToSetIsRange DEF Outlives
  <2> QED
    BY <2>4, <2>5
<1> QED
  BY <1>2, <1>3

\* Scripts get shorter and statics more: what is prepared stays prepared.
LEMMA PreparedKept ==
  ASSUME IInv, Prepared,
         \/ todo' = todo
         \/ \E a \in Actors : todo[a] # <<>> /\ Advance(a),
         \/ born' = born
         \/ \E b \in Statics : born' = Append(born, b)
  PROVE  Prepared'
<1>1. ASSUME NEW t \in Tasks, NEW i \in DOMAIN todo'[t]
      PROVE  \E k \in DOMAIN todo[t] : todo'[t][i] = todo[t][k]
  <2>1. t \in Actors /\ todo \in [Actors -> Seq(Operation)]
    BY DEF Actors, IInv, TypeOK
  <2>2. CASE todo'[t] = todo[t]
    BY <1>1, <2>2
  <2>3. CASE todo[t] # <<>> /\ todo'[t] = Tail(todo[t])
    <3>1. todo[t] \in Seq(Operation)
      BY <2>1
    <3>2. /\ DOMAIN Tail(todo[t]) = 1..(Len(todo[t]) - 1)
          /\ DOMAIN todo[t] = 1..Len(todo[t]) /\ Len(todo[t]) \in Nat
          /\ \A k \in 1..(Len(todo[t]) - 1) : Tail(todo[t])[k] = todo[t][k + 1]
      BY <2>3, <3>1, HeadTailProperties, LenProperties
    <3>3. i \in 1..(Len(todo[t]) - 1)
      BY <1>1, <2>3, <3>2
    <3>4. i + 1 \in DOMAIN todo[t] /\ todo'[t][i] = todo[t][i + 1]
      BY <2>3, <3>2, <3>3
    <3> QED
      BY <3>4
  <2> QED
    BY <2>1, <2>2, <2>3 DEF Advance
<1>2. ASSUME NEW t \in Tasks, NEW i \in DOMAIN todo'[t]
      PROVE  todo'[t][i].op # "exit"
  BY <1>1 DEF Prepared
<1>3. ASSUME NEW t \in Tasks, NEW i \in DOMAIN todo'[t],
             NEW o, o = Needed(todo'[t][i]), o # None
      PROVE  o = Home[t] \/ Outlives(o, Home[t])'
  <2>1. o = Home[t] \/ Outlives(o, Home[t])
    BY <1>1, <1>3 DEF Prepared
  <2>2. ASSUME NEW n, Outlives(o, n) PROVE Outlives(o, n)'
    BY <2>2, OutlivesKept
  <2> QED
    BY <2>1, <2>2
<1> QED
  BY <1>2, <1>3 DEF Prepared, Needed

\* Every step of a prepared program is without fault and leaves it prepared.
LEMMA SettledStep == IInv /\ Settled /\ [Next]_vars => Settled'
<1> SUFFICES ASSUME IInv, Settled, [Next]_vars PROVE Settled'
  OBVIOUS
<1> USE NetworksAssumption
<1>1. TypeOK /\ SafetyInv /\ Prepared /\ late = {} /\ fault.kind = "none"
  BY DEF IInv, Settled
<1>2. phase = "running" <=> exiter = None
  BY DEF IInv, SafetyInv, PhaseInv
<1>3. ASSUME NEW a \in Actors, Runs(a), exiter # None
      PROVE  a \in Tasks
  BY <1>3 DEF Settled, Runs, Thread, Actors
<1>4. ASSUME NEW a \in Actors, Runs(a), todo[a] # <<>>, LookedUp(a) \in Statics, LookUp(a)
      PROVE  /\ late' = {}
             /\ \/ born' = born
                \/ \E b \in Statics : born' = Append(born, b)
  <2>1. CASE exiter = None
    BY <1>1, <1>2, <1>4, <2>1 DEF LookUp
  <2>2. CASE exiter # None
    <3>1. a \in Tasks /\ LookedUp(a) # None
      BY <1>3, <1>4, <2>2
    <3>2. LookedUp(a) \in Range(born)
      BY <1>4, <3>1, NeededLives, LookedUpIsNeeded
    <3> QED
      BY <1>1, <1>4, <3>2, ToSetIsRange DEF LookUp
  <2> QED
    BY <2>1, <2>2
<1>5. ASSUME NEW a \in Actors, Runs(a), todo[a] # <<>>, LookedUp(a) \in Statics,
             LookUp(a), Advance(a), UNCHANGED <<exiter, fault>>
      PROVE  Settled'
  <2>1. Prepared'
    BY <1>1, <1>4, <1>5, PreparedKept
  <2> QED
    BY <1>1, <1>4, <1>5, <2>1 DEF Settled
<1>6. ASSUME NEW a \in Actors, Use(a) \/ Post(a) \/ Expect(a) \/ Emit(a)
      PROVE  Settled'
  <2>1. /\ Runs(a) /\ todo[a] # <<>> /\ LookedUp(a) \in Statics
    BY <1>1, <1>6, Arguments DEF Use, Post, Expect, Emit, Does, Statics
  <2>2. LookUp(a) /\ Advance(a) /\ UNCHANGED <<exiter, fault>>
    BY <1>6 DEF Use, Post, Expect, Emit, stops, exit
  <2> QED
    BY <1>5, <2>1, <2>2
<1>7. CASE Stop
  <2>1. /\ Main \in Actors /\ Runs(Main) /\ todo[Main] # <<>>
        /\ LookedUp(Main) \in Statics
    BY <1>1, <1>7, Arguments DEF Stop, Does, Statics, Actors
  <2>2. LookUp(Main) /\ Advance(Main) /\ UNCHANGED <<exiter, fault>>
    BY <1>7 DEF Stop, exit
  <2> QED
    BY <1>5, <2>1, <2>2
<1>8. ASSUME NEW a \in Actors, Get(a) \/ Hear(a)
      PROVE  Settled'
  <2>1. /\ todo[a] # <<>> /\ Advance(a) /\ born' = born /\ UNCHANGED <<late, exiter, fault>>
    BY <1>8 DEF Get, Hear, Does, statics, stops, exit
  <2>2. Prepared'
    BY <1>1, <2>1, PreparedKept
  <2> QED
    BY <1>1, <2>1, <2>2 DEF Settled
<1>9. ASSUME UNCHANGED <<todo, born, late, fault>>, exiter' \in {None, Main}
      PROVE  Settled'
  <2>1. Prepared'
    BY <1>1, <1>9, PreparedKept
  <2> QED
    BY <1>1, <1>9, <2>1 DEF Settled
<1>10. ASSUME NEW a \in Actors, UseDestroyed(a) PROVE FALSE
  <2>1. Runs(a) /\ todo[a] # <<>> /\ LookedUp(a) \in dead
    BY <1>10 DEF UseDestroyed
  <2>2. exiter # None
    BY <1>2, <2>1 DEF IInv, SafetyInv, PhaseInv
  <2>3. LookedUp(a) # None
    BY <1>1, <2>1, ToSetIsRange DEF TypeOK, Range
  <2> QED
    BY <1>3, <2>1, <2>2, <2>3, NeededLives, LookedUpIsNeeded
<1>11. ASSUME NEW a \in Actors, GetThrows(a) PROVE FALSE
  <2>1. /\ Runs(a) /\ todo[a] # <<>> /\ Head(todo[a]).op = "get"
        /\ Arg(a) \in broken
    BY <1>11 DEF GetThrows, Does
  <2>2. Home[Arg(a)] \in dead /\ Arg(a) \in Tasks
    BY <1>1, <2>1 DEF SafetyInv, BrokenInv, TypeOK
  <2>3. exiter # None
    BY <1>2, <2>2 DEF IInv, SafetyInv, PhaseInv
  <2>4. Needed(Head(todo[a])) = Home[Arg(a)]
    BY <2>1 DEF Needed, Arg
  <2>5. Home[Arg(a)] # None
    BY <2>2 DEF Statics
  <2> QED
    BY <1>3, <2>1, <2>2, <2>3, <2>4, <2>5, NeededLives
<1>12. ASSUME NEW t \in Tasks PROVE ~Does(t, "exit")
  <2>1. SUFFICES ASSUME Does(t, "exit") PROVE FALSE
    OBVIOUS
  <2>2. todo[t] \in Seq(Operation) /\ todo[t] # <<>>
    BY <1>1, <2>1 DEF Does, TypeOK, Actors
  <2>3. 1 \in DOMAIN todo[t] /\ todo[t][1] = Head(todo[t])
    BY <2>2, LenProperties, HeadTailProperties
  <2> QED
    BY <1>1, <2>1, <2>3 DEF Prepared, Does
<1>13. ASSUME NEW a \in Actors, Exit(a) PROVE Settled'
  <2>1. a = Main
    BY <1>12, <1>13 DEF Exit, CallsExit, Actors
  <2> QED
    BY <1>9, <1>13, <2>1 DEF Exit, statics
<1>14. ASSUME NEW a \in Actors, ExitTwice(a) PROVE FALSE
  <2>1. a = Main
    BY <1>12, <1>14 DEF ExitTwice, CallsExit, Actors
  <2>2. Runs(Main) /\ exiter # None
    BY <1>2, <1>14, <2>1 DEF ExitTwice, CallsExit
  <2> QED
    BY <1>3, <2>2 DEF Actors
<1>15. ASSUME JoinsItself PROVE FALSE
  <2>1. ending \in Networks /\ Thread(exiter) = ending /\ exiter # None
    BY <1>1, <1>2, <1>15 DEF JoinsItself, Exiting, TypeOK
  <2> QED
    BY <2>1 DEF Settled, Thread, Statics
<1>16. CASE \/ \E t \in Tasks : Finish(t)
            \/ \E n \in Networks : Begin(n)
            \/ StopReturns \/ LoopDestroyed \/ Exited
            \/ \E i \in DOMAIN born : DestroyRegistry(i) \/ DestroyLoop(i)
            \/ UNCHANGED vars
  <2>1. UNCHANGED <<todo, born, late, fault, exiter>>
    BY <1>16 DEF Finish, Begin, StopReturns, LoopDestroyed, Exited, DestroyRegistry,
       DestroyLoop, statics, stops, exit, vars
  <2> QED
    BY <1>9, <2>1 DEF Settled
<1> QED
  BY <1>6, <1>7, <1>8, <1>10, <1>11, <1>13, <1>14, <1>15, <1>16
  DEF Next, MainStep, TaskStep, Step, Destroy, Actors

\* A program whose functions, signals and called loops are constructed before
\* the loops of the tasks that use them exits without a fault, whatever its
\* networks and scripts, and however the steps of its threads interleave.
THEOREM CleanExit == Spec => PreparedExitsCleanly
<1>1. Init => RunningInv
  BY DEF Init, RunningInv, NoFault
<1>2. IInv /\ RunningInv /\ phase = "running" /\ Prepared => Settled
  BY DEF IInv, SafetyInv, PhaseInv, RunningInv, Settled
<1>3. Settled => fault.kind = "none"
  BY DEF Settled
<1> QED
  BY <1>1, <1>2, <1>3, RunningStep, SettledStep, Invariance, PTL
     DEF Spec, PreparedExitsCleanly

-----------------------------------------------------------------------------
\* t has got the future of v, and will still wait for it.
Holds(t, v) ==
  \E i \in DOMAIN todo[t] :
    /\ todo[t][i].op = "get" /\ todo[t][i].arg = v
    /\ \A j \in 1..i - 1 : todo[t][j] # [op |-> "post", arg |-> v]

\* A task is younger than the one that holds its future: of any posted tasks
\* one, the youngest, holds the future of none of the others.  And nobody hopes
\* for an event on a signal that is gone.
HoldInv ==
  /\ \A t, v \in Tasks : Holds(t, v) => t \in Posted /\ v \in Posted
  /\ \A S \in SUBSET Posted : S # {} => \E t \in S : \A u \in S : ~Holds(t, u)

HopeInv == \A h \in hopes : h[2] \notin dead

\* Only a post that t executes gives t a future.
LEMMA HoldsAdvance ==
  ASSUME TypeOK, NEW a \in Actors, todo[a] # <<>>, Advance(a),
         NEW t \in Tasks, NEW v \in Tasks, Holds(t, v)'
  PROVE  \/ Holds(t, v)
         \/ t = a /\ Head(todo[a]).op = "post" /\ Arg(a) = v
<1>1. PICK i \in DOMAIN todo'[t] :
        /\ todo'[t][i].op = "get" /\ todo'[t][i].arg = v
        /\ \A j \in 1..i - 1 : todo'[t][j] # [op |-> "post", arg |-> v]
  BY DEF Holds
<1>2. todo \in [Actors -> Seq(Operation)] /\ t \in Actors
  BY DEF TypeOK, Actors
<1>3. CASE t # a
  <2>1. todo'[t] = todo[t]
    BY <1>2, <1>3 DEF Advance
  <2> QED
    BY <1>1, <2>1 DEF Holds
<1>4. CASE t = a /\ ~(Head(todo[a]).op = "post" /\ Arg(a) = v)
  <2>1. /\ todo'[t] = Tail(todo[t]) /\ todo[t] \in Seq(Operation) /\ todo[t] # <<>>
    BY <1>2, <1>4 DEF Advance
  <2>2. /\ DOMAIN Tail(todo[t]) = 1..(Len(todo[t]) - 1)
        /\ DOMAIN todo[t] = 1..Len(todo[t]) /\ Len(todo[t]) \in Nat
        /\ \A k \in 1..(Len(todo[t]) - 1) : Tail(todo[t])[k] = todo[t][k + 1]
        /\ Head(todo[t]) = todo[t][1]
    BY <2>1, HeadTailProperties, LenProperties
  <2>3. i \in 1..(Len(todo[t]) - 1)
    BY <1>1, <2>1, <2>2
  <2>4. i + 1 \in DOMAIN todo[t] /\ todo[t][i + 1] = todo'[t][i]
    BY <2>1, <2>2, <2>3
  <2>5. ASSUME NEW j \in 1..(i + 1) - 1
        PROVE  todo[t][j] # [op |-> "post", arg |-> v]
    <3>1. CASE j = 1
      <4>1. todo[t][j] = Head(todo[a])
        BY <1>4, <2>2, <3>1
      <4>2. ~(todo[t][j].op = "post" /\ todo[t][j].arg = v)
        BY <1>4, <4>1 DEF Arg
      <4> QED
        BY <4>2
    <3>2. CASE j # 1
      <4>1. j - 1 \in 1..i - 1 /\ j - 1 \in 1..(Len(todo[t]) - 1) /\ (j - 1) + 1 = j
        BY <2>2, <2>3, <3>2
      <4>2. todo'[t][j - 1] = todo[t][j]
        BY <2>1, <2>2, <4>1
      <4> QED
        BY <1>1, <4>1, <4>2
    <3> QED
      BY <3>1, <3>2
  <2> QED
    BY <1>1, <2>4, <2>5 DEF Holds
<1> QED
  BY <1>3, <1>4

\* Steps that post nothing leave the futures where they are, or consume them.
LEMMA HoldKept ==
  ASSUME TypeOK, HoldInv, Posted' = Posted,
         \/ todo' = todo
         \/ \E a \in Actors : todo[a] # <<>> /\ Advance(a) /\ Head(todo[a]).op # "post"
  PROVE  HoldInv'
<1>1. ASSUME NEW t \in Tasks, NEW v \in Tasks, Holds(t, v)'
      PROVE  Holds(t, v)
  <2>1. CASE todo' = todo
    BY <1>1, <2>1 DEF Holds
  <2>2. ASSUME NEW a \in Actors, todo[a] # <<>>, Advance(a), Head(todo[a]).op # "post"
        PROVE  Holds(t, v)
    BY <1>1, <2>2, HoldsAdvance
  <2> QED
    BY <2>1, <2>2
<1>2. Posted \subseteq Tasks
  BY DEF Posted, TypeOK, ToSet
<1>3. \A t, v \in Tasks : Holds(t, v)' => t \in Posted' /\ v \in Posted'
  BY <1>1 DEF HoldInv
<1>4. ASSUME NEW S \in SUBSET Posted', S # {}
      PROVE  \E t \in S : \A u \in S : ~Holds(t, u)'
  <2>1. PICK t \in S : \A u \in S : ~Holds(t, u)
    BY <1>4 DEF HoldInv
  <2> QED
    BY <1>1, <1>2, <2>1
<1> QED
  BY <1>3, <1>4 DEF HoldInv

\* A post gives its actor the future of a task that holds nothing yet.
LEMMA HoldPost ==
  ASSUME IInv, HoldInv, NEW a \in Actors, Post(a), NEW u, u = Arg(a)
  PROVE  HoldInv'
<1> USE NetworksAssumption
<1>1. /\ TypeOK /\ todo[a] # <<>> /\ Advance(a) /\ Runs(a) /\ u \in Tasks
      /\ Head(todo[a]).op = "post" /\ u \notin Posted
  BY Arguments DEF IInv, Post, Does
<1>2. Posted' = Posted \cup {u}
  <2>1. /\ pending \in [Networks -> Seq(Tasks)] /\ Home[u] \in Networks
        /\ pending' = [pending EXCEPT ![Home[u]] = Append(@, u)]
        /\ begun' = begun /\ completed' = completed
    BY <1>1 DEF Post, TypeOK
  <2>2. \A n \in Networks : ToSet(Append(pending[n], u)) = ToSet(pending[n]) \cup {u}
    BY <1>1, <2>1, ToSetIsRange, RangeAppend
  <2>3. \A n \in Networks : ToSet(pending'[n]) =
          IF n = Home[u] THEN ToSet(pending[n]) \cup {u} ELSE ToSet(pending[n])
    BY <2>1, <2>2
  <2>4. \A v : v \in Posted' <=> v \in Posted \/ v = u
    <3>1. u \in ToSet(pending'[Home[u]])
      BY <2>1, <2>3
    <3>2. ASSUME NEW v, NEW n \in Networks,
                 v \in ToSet(pending'[n]) \cup begun'[n] \cup completed'[n]
          PROVE  v = u \/ v \in ToSet(pending[n]) \cup begun[n] \cup completed[n]
      <4>1. v \in ToSet(pending[n]) \cup {u} \cup begun[n] \cup completed[n]
        <5>1. ToSet(pending'[n]) \subseteq ToSet(pending[n]) \cup {u}
          BY <2>3
        <5> QED
          BY <2>1, <3>2, <5>1
      <4> QED
        BY <4>1
    <3>3. ASSUME NEW v, NEW n \in Networks,
                 v \in ToSet(pending[n]) \cup begun[n] \cup completed[n]
          PROVE  v \in ToSet(pending'[n]) \cup begun'[n] \cup completed'[n]
      BY <2>1, <2>3, <3>3
    <3>4. \A v : v \in Posted <=>
                   \E n \in Networks : v \in ToSet(pending[n]) \cup begun[n] \cup completed[n]
      BY DEF Posted
    <3>5. \A v : v \in Posted' <=>
                   \E n \in Networks : v \in ToSet(pending'[n]) \cup begun'[n] \cup completed'[n]
      BY DEF Posted, ToSet
    <3> QED
      BY <2>1, <3>1, <3>2, <3>3, <3>4, <3>5
  <2> QED
    BY <2>4
<1>3. a # Main => a \in Tasks /\ a \in Posted
  BY <1>1 DEF Runs, Posted, Actors
<1>4. ASSUME NEW t \in Tasks, NEW v \in Tasks, Holds(t, v)'
      PROVE  Holds(t, v) \/ (t = a /\ v = u)
  <2>1. TypeOK /\ todo[a] # <<>> /\ Advance(a)
    BY <1>1
  <2> QED
    BY <1>4, <2>1, HoldsAdvance
<1>5. Posted \subseteq Tasks
  BY <1>1 DEF Posted, TypeOK, ToSet
<1>6. \A t, v \in Tasks : Holds(t, v)' => t \in Posted' /\ v \in Posted'
  BY <1>2, <1>3, <1>4 DEF HoldInv
<1>7. ASSUME NEW S \in SUBSET Posted', S # {}
      PROVE  \E t \in S : \A w \in S : ~Holds(t, w)'
  <2>1. S \subseteq Tasks
    BY <1>1, <1>2, <1>5
  <2>2. CASE u \in S
    <3>1. u # a
      BY <1>1, <1>3 DEF Actors
    <3>2. \A w \in S : ~Holds(u, w)'
      BY <1>1, <1>4, <2>1, <3>1 DEF HoldInv
    <3> QED
      BY <2>2, <3>2
  <2>3. CASE u \notin S
    <3>1. S \in SUBSET Posted
      BY <1>2, <2>3
    <3>2. PICK t \in S : \A w \in S : ~Holds(t, w)
      BY <1>7, <3>1 DEF HoldInv
    <3> QED
      BY <1>4, <2>1, <2>3, <3>2
  <2> QED
    BY <2>2, <2>3
<1> QED
  BY <1>6, <1>7 DEF HoldInv

LEMMA HoldStep == IInv /\ HoldInv /\ [Next]_vars => HoldInv'
<1> SUFFICES ASSUME IInv, HoldInv, [Next]_vars PROVE HoldInv'
  OBVIOUS
<1> USE NetworksAssumption
<1>1. TypeOK /\ SafetyInv
  BY DEF IInv
<1>2. ASSUME NEW a \in Actors, Use(a) \/ Get(a) \/ Expect(a) \/ Emit(a) \/ Hear(a)
      PROVE  HoldInv'
  <2>1. /\ todo[a] # <<>> /\ Advance(a) /\ Head(todo[a]).op # "post"
        /\ UNCHANGED <<pending, begun, completed>>
    BY <1>2 DEF Use, Get, Expect, Emit, Hear, Does, loops
  <2>2. Posted' = Posted
    BY <2>1 DEF Posted
  <2> QED
    BY <1>1, <2>1, <2>2, HoldKept
<1>3. CASE Stop
  <2>1. /\ Main \in Actors /\ todo[Main] # <<>> /\ Advance(Main)
        /\ Head(todo[Main]).op # "post" /\ UNCHANGED <<pending, begun, completed>>
    BY <1>3 DEF Stop, Does, Actors
  <2>2. Posted' = Posted
    BY <2>1 DEF Posted
  <2> QED
    BY <1>1, <2>1, <2>2, HoldKept
<1>4. ASSUME NEW a \in Actors, Post(a) PROVE HoldInv'
  BY <1>4, HoldPost
<1>5. ASSUME UNCHANGED <<todo, pending, begun, completed>> PROVE HoldInv'
  <2>1. Posted' = Posted
    BY <1>5 DEF Posted
  <2> QED
    BY <1>1, <1>5, <2>1, HoldKept
<1>6. ASSUME NEW t \in Tasks, Finish(t) PROVE HoldInv'
  <2>1. /\ Home[t] \in Networks /\ t \in begun[Home[t]]
        /\ begun' = [begun EXCEPT ![Home[t]] = @ \ {t}]
        /\ completed' = [completed EXCEPT ![Home[t]] = @ \cup {t}]
        /\ pending' = pending /\ todo' = todo
    BY <1>6 DEF Finish, Runs, Ended, Actors
  <2>2. Posted' = Posted
    <3>1. \A n \in Networks : begun'[n] \cup completed'[n] = begun[n] \cup completed[n]
      BY <1>1, <2>1 DEF TypeOK
    <3> QED
      BY <2>1, <3>1 DEF Posted
  <2> QED
    BY <1>1, <2>1, <2>2, HoldKept
<1>7. ASSUME NEW n \in Networks, Begin(n) PROVE HoldInv'
  <2>1. /\ pending[n] \in Seq(Tasks) /\ pending[n] # <<>>
        /\ begun' = [begun EXCEPT ![n] = @ \cup {Head(pending[n])}]
        /\ pending' = [pending EXCEPT ![n] = Tail(@)]
        /\ completed' = completed /\ todo' = todo
    BY <1>1, <1>7 DEF Begin, CanBegin, TypeOK
  <2>2. Posted' = Posted
    <3>1. ToSet(pending[n]) = {Head(pending[n])} \cup ToSet(Tail(pending[n]))
      BY <2>1, ToSetIsRange, HeadTailRange
    <3>2. \A m \in Networks :
            ToSet(pending'[m]) \cup begun'[m] = ToSet(pending[m]) \cup begun[m]
      BY <1>1, <2>1, <3>1 DEF TypeOK
    <3> QED
      BY <2>1, <3>2 DEF Posted
  <2> QED
    BY <1>1, <2>1, <2>2, HoldKept
<1>8. CASE \/ \E a \in Actors : GetThrows(a) \/ UseDestroyed(a) \/ Exit(a) \/ ExitTwice(a)
           \/ StopReturns \/ LoopDestroyed \/ JoinsItself \/ Exited
           \/ \E i \in DOMAIN born : DestroyRegistry(i) \/ DestroyLoop(i)
           \/ UNCHANGED vars
  BY <1>5, <1>8 DEF GetThrows, UseDestroyed, Exit, ExitTwice, StopReturns,
     LoopDestroyed, JoinsItself, Exited, DestroyRegistry, DestroyLoop, loops, vars
<1> QED
  BY <1>2, <1>3, <1>4, <1>6, <1>7, <1>8
  DEF Next, MainStep, TaskStep, Step, Destroy, Actors

LEMMA HopeStep == IInv /\ HopeInv /\ [Next]_vars => HopeInv'
<1> SUFFICES ASSUME IInv, HopeInv, [Next]_vars PROVE HopeInv'
  OBVIOUS
<1> USE NetworksAssumption
<1>1. TypeOK /\ SafetyInv
  BY DEF IInv
<1>2. ASSUME NEW a \in Actors, Expect(a) PROVE HopeInv'
  <2>1. /\ todo[a] # <<>> /\ Head(todo[a]).op = "expect" /\ LookUp(a)
        /\ hopes' = hopes \cup {<<a, Arg(a)>>}
    BY <1>2 DEF Expect, Does
  <2>2. Arg(a) \notin dead /\ dead' = dead
    BY <1>1, <2>1, Arguments DEF LookUp
  <2> QED
    BY <2>1, <2>2 DEF HopeInv
<1>3. ASSUME NEW i \in DOMAIN born, DestroyRegistry(i) PROVE HopeInv'
  BY <1>3 DEF DestroyRegistry, DropHopes, Hopes, HopeInv
<1>4. CASE LoopDestroyed
  <2>1. ending \in Networks /\ dead' = dead \cup {ending} /\ hopes' = hopes
    BY <1>1, <1>4 DEF LoopDestroyed, TypeOK
  <2>2. \A h \in hopes : h[2] \in Registries
    BY <1>1 DEF TypeOK
  <2> QED
    BY <2>1, <2>2 DEF HopeInv
<1>5. ASSUME dead' = dead, hopes' \subseteq hopes PROVE HopeInv'
  BY <1>5 DEF HopeInv
<1>6. ASSUME NEW a \in Actors, Use(a) \/ Post(a) \/ Emit(a) PROVE HopeInv'
  BY <1>5, <1>6 DEF Use, Post, Emit, LookUp
<1>7. CASE \/ \E a \in Actors : Get(a) \/ Hear(a) \/ GetThrows(a) \/ UseDestroyed(a)
                                  \/ Exit(a) \/ ExitTwice(a)
           \/ \E t \in Tasks : Finish(t)
           \/ \E n \in Networks : Begin(n)
           \/ Stop \/ StopReturns \/ JoinsItself \/ Exited
           \/ \E i \in DOMAIN born : DestroyLoop(i)
           \/ UNCHANGED vars
  <2>1. dead' = dead /\ hopes' = hopes
    BY <1>7 DEF Get, Hear, GetThrows, UseDestroyed, Exit, ExitTwice, Finish, Begin,
       Stop, LookUp, StopReturns, JoinsItself, Exited, DestroyLoop, statics, vars
  <2> QED
    BY <1>5, <2>1
<1> QED
  BY <1>2, <1>3, <1>4, <1>6, <1>7
  DEF Next, MainStep, TaskStep, Step, Destroy, Actors

\* Of the fibers that exit() waits for, and those they wait for, the youngest
\* waits for no other fiber: it waits in vain.
LEMMA HungInVain ==
  ASSUME IInv, HoldInv, HopeInv, Hung
  PROVE  WaitsInVain
<1> USE NetworksAssumption
<1>1. TypeOK /\ SafetyInv /\ exiter # None
  BY DEF IInv, Hung, SafetyInv, PhaseInv
<1> DEFINE x == Thread(exiter)
           S == UNION {begun[n] : n \in Networks \ {x}}
<1>2. S # {} /\ S \in SUBSET Posted
  <2>1. ending \in Networks \ {x} /\ begun[ending] # {}
    BY <1>1 DEF Hung, Joined, TypeOK
  <2> QED
    BY <2>1 DEF Posted
<1>3. PICK t \in S : \A u \in S : ~Holds(t, u)
  BY <1>2 DEF HoldInv
<1>4. PICK n \in Networks \ {x} : t \in begun[n]
  OBVIOUS
<1>5. t \in Tasks /\ Home[t] = n /\ Blocked(t)
  BY <1>1, <1>4 DEF TypeOK, Hung
<1> DEFINE next == Head(todo[t])
<1>6. todo[t] # <<>> /\ t \in Actors
  BY <1>5 DEF Blocked, Actors
<1>7. CASE next.op = "hear" /\ <<t, next.arg>> \in hopes
  <2>1. next.arg \notin dead
    BY <1>7 DEF HopeInv
  <2> QED
    BY <1>4, <1>5, <1>6, <1>7, <2>1 DEF WaitsInVain
<1>8. CASE /\ next.op = "get" /\ next.arg \notin broken
           /\ \A m \in Networks : next.arg \notin completed[m]
  <2> DEFINE u == next.arg
             m == Home[u]
  <2>1. u \in Tasks /\ m \in Networks
    BY <1>1, <1>6, <1>8, Arguments DEF Arg
  <2>2. Holds(t, u)
    <3>1. todo[t] \in Seq(Operation)
      BY <1>1, <1>6 DEF TypeOK
    <3>2. 1 \in DOMAIN todo[t] /\ todo[t][1] = next
      BY <1>6, <3>1, HeadTailProperties, LenProperties
    <3>3. 1..1 - 1 = {}
      OBVIOUS
    <3> QED
      BY <1>8, <3>2, <3>3 DEF Holds
  <2>3. u \in Posted /\ u \notin S
    BY <1>3, <1>5, <2>1, <2>2 DEF HoldInv
  <2>4. PICK k \in Networks : u \in ToSet(pending[k]) \cup begun[k] \cup completed[k]
    BY <2>3 DEF Posted
  <2>5. k = m /\ u \in ToSet(pending[m]) \cup begun[m] /\ u \notin completed[m]
    BY <1>1, <1>8, <2>1, <2>4 DEF TypeOK
  <2>6. m \notin dead
    BY <1>1, <1>8, <2>1, <2>5, ToSetIsRange DEF SafetyInv, LoopInv
  <2>7. \/ closed[m] /\ u \in ToSet(pending[m])
        \/ exiter # None /\ Thread(exiter) = m
    <3>1. CASE m = x
      BY <1>1, <3>1
    <3>2. CASE m # x
      <4>1. u \in ToSet(pending[m])
        BY <2>1, <2>3, <2>5, <3>2
      <4>2. pending[m] # <<>>
        BY <4>1 DEF ToSet
      <4>3. ~CanBegin(m)
        BY <2>1, <3>2 DEF Hung
      <4> QED
        BY <4>1, <4>2, <4>3 DEF CanBegin
    <3> QED
      BY <3>1, <3>2
  <2>8. Unanswerable(u)
    BY <2>5, <2>6, <2>7 DEF Unanswerable
  <2> QED
    BY <1>4, <1>5, <1>6, <1>8, <2>8 DEF WaitsInVain
<1> QED
  BY <1>5, <1>7, <1>8 DEF Blocked

\* exit() hangs only when a fiber waits in vain, in any program whose tasks
\* wait for the results of the tasks they posted: the fibers of its loops never
\* wait for each other in a circle.
THEOREM NoOtherWayToHang == Spec => HangsOnlyInVain
<1>1. Init /\ OwnFutures => HoldInv
  <2> SUFFICES ASSUME Init, OwnFutures PROVE HoldInv
    OBVIOUS
  <2>1. \A n \in Networks : ToSet(pending[n]) \cup begun[n] \cup completed[n] = {}
    BY ToSetIsRange DEF Init, Range
  <2>2. Posted = {}
    BY <2>1 DEF Posted
  <2>3. ASSUME NEW t \in Tasks, NEW v \in Tasks PROVE ~Holds(t, v)
    BY DEF Holds, OwnFutures
  <2> QED
    BY <2>2, <2>3 DEF HoldInv
<1>2. Init => HopeInv
  BY DEF Init, HopeInv
<1>3. IInv /\ HoldInv /\ HopeInv => (Hung => WaitsInVain)
  BY HungInVain
<1> QED
  BY <1>1, <1>2, <1>3, HoldStep, HopeStep, Invariance, PTL DEF Spec, HangsOnlyInVain
=============================================================================
