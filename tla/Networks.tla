------------------------------ MODULE Networks ------------------------------
(***************************************************************************)
(* A whole program of dispatcher.hpp: several networks, each with its      *)
(* event loop, and the signals and functions they share.  All of them are  *)
(* static objects inside functions: GetFunction, GetSignal, getEventLoop.  *)
(* Each is constructed when it is first looked up, and exit() destroys     *)
(* them, the youngest first.  Destroying a loop stops it, which waits for  *)
(* its fibers, while the fibers of the other loops go on.                  *)
(*                                                                         *)
(* An actor is the main thread, or a task, which has a fiber of its        *)
(* network's loop once it has begun.  It executes a script, a sequence of  *)
(* the library's operations; what a handler or subscriber does is part of  *)
(* the script of the task that calls it.                                   *)
(***************************************************************************)
EXTENDS Naturals, Sequences, SequencesExt

CONSTANTS Networks,    \* getEventLoop<Network>(), one per network
          Registries,  \* GetFunction<...>() and GetSignal<...>()
          Tasks,       \* the calls of async_call, publish and post
          Home,        \* Home[t]: the network task t is posted to
          Main,        \* the thread that executes main()
          None,        \* no actor, no object
          Programs     \* the programs: what each actor executes

Statics == Networks \cup Registries
Actors == Tasks \cup {Main}

\* One operation of a script.
Operation ==
  [op : {"use"}, arg : Statics]                 \* attach, call, subscribe, Timer()
    \cup [op : {"emit", "expect", "hear"}, arg : Registries]
    \cup [op : {"post", "get"}, arg : Tasks]
    \cup [op : {"stop"}, arg : Networks]
    \cup [op : {"exit"}, arg : {None}]

ASSUME NetworksAssumption ==
  /\ Networks \cap Registries = {}
  /\ Main \notin Tasks \cup Statics /\ None \notin Actors \cup Statics
  /\ Home \in [Tasks -> Networks]
  /\ Programs \subseteq [Actors -> Seq(Operation)]

VARIABLES
  todo,       \* todo[a]: what actor a has still to execute
  hopes,      \* <<a, s>>: a future a got from expect on signal s is not ready
  broken,     \* tasks whose promise was destroyed unfulfilled
  born,       \* the statics constructed so far, in order of construction
  dead,       \* those destroyed
  late,       \* those constructed after exit() began
  ending,     \* the loop whose destructor waits in Stop(), or None
  joining,    \* the loop that main waits for in a Stop() of its own, or None
  phase,      \* "running", "exiting", "exited"
  exiter,     \* the actor that called exit(), or returned from main()
  fault       \* [kind, by, of]: what went wrong, kind "none" if nothing did

\* The event loops, one TaskExecutor per network.
VARIABLES pending, begun, completed, closed, quiescent

statics == <<born, dead, late>>
exit == <<ending, phase, exiter>>
stops == <<joining, exit>>
loops == <<pending, begun, completed, closed, quiescent>>
vars == <<todo, hopes, broken, statics, stops, fault, loops>>

NoFault == [kind |-> "none", by |-> None, of |-> None]

Init ==
  /\ todo \in Programs
  /\ hopes = {} /\ broken = {}
  /\ born = <<>> /\ dead = {} /\ late = {}
  /\ joining = None /\ ending = None
  /\ phase = "running" /\ exiter = None
  /\ fault = NoFault
  /\ pending = [n \in Networks |-> <<>>]
  /\ begun = [n \in Networks |-> {}]
  /\ completed = [n \in Networks |-> {}]
  /\ closed = [n \in Networks |-> FALSE]
  /\ quiescent = [n \in Networks |-> FALSE]

Posted == UNION {ToSet(pending[n]) \cup begun[n] \cup completed[n] : n \in Networks}

-----------------------------------------------------------------------------
\* The thread that executes a.  A call of exit() occupies it for good.
Thread(a) == IF a = Main THEN Main ELSE Home[a]

Runs(a) ==
  /\ fault.kind = "none"
  /\ phase # "exited"
  /\ IF a = Main THEN joining = None ELSE a \in begun[Home[a]]
  /\ exiter # None => Thread(exiter) # Thread(a)

\* a's next operation is `op`.
Does(a, op) == Runs(a) /\ todo[a] # <<>> /\ Head(todo[a]).op = op

Arg(a) == Head(todo[a]).arg

Advance(a) == todo' = [todo EXCEPT ![a] = Tail(@)]

\* The static object that a's next operation looks up.
LookedUp(a) ==
  CASE Head(todo[a]).op \in {"use", "emit", "expect", "stop"} -> Arg(a)
    [] Head(todo[a]).op = "post" -> Home[Arg(a)]
    [] OTHER -> None

\* It is constructed the first time.
LookUp(a) ==
  LET o == LookedUp(a) IN
    /\ o \notin dead
    /\ IF o \in ToSet(born)
       THEN UNCHANGED <<born, late>>
       ELSE /\ born' = Append(born, o)
            /\ late' = IF phase = "exiting" THEN late \cup {o} ELSE late
    /\ UNCHANGED dead

\* A function-local static is not constructed a second time: once destroyed,
\* it is what the lookup returns, and using it is undefined.
UseDestroyed(a) ==
  /\ Runs(a) /\ todo[a] # <<>>
  /\ LookedUp(a) \in dead
  /\ fault' = [kind |-> "dangling", by |-> a, of |-> LookedUp(a)]
  /\ UNCHANGED <<todo, hopes, broken, statics, stops, loops>>

-----------------------------------------------------------------------------
\* attach, detach, call, subscribe, the constructor of Timer.
Use(a) ==
  /\ Does(a, "use")
  /\ LookUp(a) /\ Advance(a)
  /\ UNCHANGED <<hopes, broken, stops, fault, loops>>

\* async_call, publish, post: the task goes to the end of its loop's queue,
\* also when that loop is stopped.
Post(a) ==
  /\ Does(a, "post")
  /\ LookUp(a) /\ Advance(a)
  /\ LET t == Arg(a) IN
       /\ t \notin Posted
       /\ pending' = [pending EXCEPT ![Home[t]] = Append(@, t)]
  /\ UNCHANGED <<hopes, broken, stops, fault, begun, completed, closed, quiescent>>

\* get() on the future of an async_call that has ended.
Get(a) ==
  /\ Does(a, "get")
  /\ \E n \in Networks : Arg(a) \in completed[n]
  /\ Advance(a)
  /\ UNCHANGED <<hopes, broken, statics, stops, fault, loops>>

\* get() on the future of one that never will: it throws broken_promise.
GetThrows(a) ==
  /\ Does(a, "get")
  /\ Arg(a) \in broken
  /\ fault' = [kind |-> "broken", by |-> a, of |-> Home[Arg(a)]]
  /\ UNCHANGED <<todo, hopes, broken, statics, stops, loops>>

\* expect: a future, and a slot on the signal that will fulfil it.
Expect(a) ==
  /\ Does(a, "expect")
  /\ LookUp(a) /\ Advance(a)
  /\ hopes' = hopes \cup {<<a, Arg(a)>>}
  /\ UNCHANGED <<broken, stops, fault, loops>>

Hopes(s) == {h \in hopes : h[2] = s}

\* The task of a publish calls the signal, whose expecters fulfil their
\* promises.
Emit(a) ==
  /\ Does(a, "emit")
  /\ LookUp(a) /\ Advance(a)
  /\ hopes' = hopes \ Hopes(Arg(a))
  /\ UNCHANGED <<broken, stops, fault, loops>>

\* wait() on a future of expect: it is ready, or its promise was destroyed.
Hear(a) ==
  /\ Does(a, "hear")
  /\ <<a, Arg(a)>> \notin hopes
  /\ Advance(a)
  /\ UNCHANGED <<hopes, broken, statics, stops, fault, loops>>

-----------------------------------------------------------------------------
\* The loop of n dispatches a fiber for the oldest task in its queue.
BeginAlways(n) == pending[n] # <<>>   \* mutant: a stopped loop still begins tasks

CanBegin(n) == ~closed[n] /\ pending[n] # <<>>

Begin(n) ==
  /\ fault.kind = "none" /\ phase # "exited"
  /\ exiter # None => Thread(exiter) # n
  /\ CanBegin(n)
  /\ begun' = [begun EXCEPT ![n] = @ \cup {Head(pending[n])}]
  /\ pending' = [pending EXCEPT ![n] = Tail(@)]
  /\ UNCHANGED <<todo, hopes, broken, statics, stops, fault, completed, closed, quiescent>>

NotEnded(n, t) == begun   \* mutant: the task is not taken off

Ended(n, t) == [begun EXCEPT ![n] = @ \ {t}]

Finish(t) ==
  /\ Runs(t) /\ todo[t] = <<>>
  /\ LET n == Home[t] IN
       /\ begun' = Ended(n, t)
       /\ completed' = [completed EXCEPT ![n] = @ \cup {t}]
  /\ UNCHANGED <<todo, hopes, broken, statics, stops, fault, pending, closed, quiescent>>

\* Stop() up to the join, called by main (the test fixture's TearDown) ...
Stop ==
  /\ Does(Main, "stop")
  /\ LookUp(Main) /\ Advance(Main)
  /\ closed' = [closed EXCEPT ![Arg(Main)] = TRUE]
  /\ joining' = Arg(Main)
  /\ UNCHANGED <<hopes, broken, exit, fault, pending, begun, completed, quiescent>>

\* ... and the join, which returns once every fiber of the loop has ended.
JoinAtOnce(n) == TRUE   \* mutant: the work thread is not joined

Joined(n) == begun[n] = {}

StopReturns ==
  /\ fault.kind = "none"
  /\ joining # None
  /\ Joined(joining)
  /\ quiescent' = [quiescent EXCEPT ![joining] = TRUE]
  /\ joining' = None
  /\ UNCHANGED <<todo, hopes, broken, statics, exit, fault, pending, begun, completed, closed>>

-----------------------------------------------------------------------------
\* main() returns, or a handler calls exit().
CallsExit(a) ==
  IF a = Main THEN Runs(Main) /\ todo[Main] = <<>> ELSE Does(a, "exit")

Exit(a) ==
  /\ CallsExit(a)
  /\ phase = "running"
  /\ phase' = "exiting"
  /\ exiter' = a
  /\ UNCHANGED <<todo, hopes, broken, statics, joining, ending, fault, loops>>

\* It is undefined what a second call of exit() does, on another thread.
ExitTwice(a) ==
  /\ CallsExit(a)
  /\ phase = "exiting"
  /\ fault' = [kind |-> "second_exit", by |-> a, of |-> None]
  /\ UNCHANGED <<todo, hopes, broken, statics, stops, loops>>

\* born[i] is the next to destroy: the youngest alive.
IsOldest(i) ==   \* mutant: in the order of construction
  born[i] \notin dead /\ \A j \in DOMAIN born : j < i => born[j] \in dead

IsYoungest(i) ==
  born[i] \notin dead /\ \A j \in DOMAIN born : j > i => born[j] \in dead

Exiting == fault.kind = "none" /\ phase = "exiting"

\* Destroying a signal destroys its slots, and with them the promises of the
\* expecters: whoever waits for one is woken by broken_promise.
KeepHopes(o) == hopes   \* mutant: nobody is woken

DropHopes(o) == hopes \ Hopes(o)

DestroyRegistry(i) ==
  /\ Exiting /\ ending = None
  /\ IsYoungest(i) /\ born[i] \in Registries
  /\ dead' = dead \cup {born[i]}
  /\ hopes' = DropHopes(born[i])
  /\ UNCHANGED <<todo, broken, born, late, stops, fault, loops>>

\* ~EventLoop calls Stop(): no task begins any more ...
DestroyLoop(i) ==
  /\ Exiting /\ ending = None
  /\ IsYoungest(i) /\ born[i] \in Networks
  /\ ending' = born[i]
  /\ closed' = [closed EXCEPT ![born[i]] = TRUE]
  /\ UNCHANGED <<todo, hopes, broken, statics, joining, phase, exiter, fault, pending, begun, completed, quiescent>>

\* ... the work thread is joined, and the io_context is destroyed with the
\* tasks still in its queue, and their promises with them.
LeaveUnbroken(n) == broken   \* mutant: the promises are left as they are

BreakPromises(n) == broken \cup ToSet(pending[n])

LoopDestroyed ==
  /\ Exiting /\ ending # None
  /\ Thread(exiter) # ending
  /\ Joined(ending)
  /\ quiescent' = [quiescent EXCEPT ![ending] = TRUE]
  /\ dead' = dead \cup {ending}
  /\ broken' = BreakPromises(ending)
  /\ ending' = None
  /\ UNCHANGED <<todo, hopes, born, late, joining, phase, exiter, fault, pending, begun, completed, closed>>

\* A handler that called exit() makes its work thread join itself: join()
\* throws, out of a destructor.
JoinsItself ==
  /\ Exiting /\ ending # None
  /\ Thread(exiter) = ending
  /\ fault' = [kind |-> "self_join", by |-> exiter, of |-> ending]
  /\ UNCHANGED <<todo, hopes, broken, statics, stops, loops>>

Exited ==
  /\ Exiting /\ ending = None
  /\ ToSet(born) \subseteq dead
  /\ phase' = "exited"
  /\ UNCHANGED <<todo, hopes, broken, statics, joining, ending, exiter, fault, loops>>

Destroy ==
  \/ \E i \in DOMAIN born : DestroyRegistry(i) \/ DestroyLoop(i)
  \/ LoopDestroyed \/ JoinsItself \/ Exited

-----------------------------------------------------------------------------
Step(a) ==
  \/ Use(a) \/ Post(a) \/ Get(a) \/ GetThrows(a)
  \/ Expect(a) \/ Emit(a) \/ Hear(a)
  \/ UseDestroyed(a) \/ Exit(a) \/ ExitTwice(a)

TaskStep(t) == Step(t) \/ Finish(t)

MainStep == Step(Main) \/ Stop \/ StopReturns

Next ==
  \/ MainStep
  \/ \E t \in Tasks : TaskStep(t)
  \/ \E n \in Networks : Begin(n)
  \/ Destroy

Spec == Init /\ [][Next]_vars

-----------------------------------------------------------------------------
Faults == [kind : {"none", "dangling", "broken", "self_join", "second_exit"},
           by : Actors \cup {None}, of : Statics \cup {None}]

\* Every variable keeps its shape, and a task is on its own network's loop,
\* in one place.
TypeOK ==
  /\ todo \in [Actors -> Seq(Operation)]
  /\ hopes \subseteq Actors \X Registries
  /\ broken \subseteq Tasks
  /\ born \in Seq(Statics) /\ dead \subseteq ToSet(born) /\ late \subseteq ToSet(born)
  /\ joining \in Networks \cup {None} /\ ending \in Networks \cup {None}
  /\ phase \in {"running", "exiting", "exited"}
  /\ exiter \in Actors \cup {None}
  /\ fault \in Faults
  /\ pending \in [Networks -> Seq(Tasks)]
  /\ begun \in [Networks -> SUBSET Tasks]
  /\ completed \in [Networks -> SUBSET Tasks]
  /\ \A n \in Networks :
       /\ \A t \in ToSet(pending[n]) \cup begun[n] \cup completed[n] : Home[t] = n
       /\ begun[n] \cap completed[n] = {}
  /\ closed \in [Networks -> BOOLEAN] /\ quiescent \in [Networks -> BOOLEAN]

Younger(o, n) ==
  \E i, j \in DOMAIN born : i < j /\ born[i] = n /\ born[j] = o

\* A task meets a destroyed static, or a promise that a destroyed loop broke,
\* only if that static was constructed after the task's own loop, or the loop
\* itself was constructed while the program was exiting.  Main meets one only
\* when a handler has called exit().
OnlyYoungerAreMissed ==
  fault.kind \in {"dangling", "broken"} =>
    IF fault.by = Main
    THEN exiter # Main
    ELSE \/ Younger(fault.of, Home[fault.by])
         \/ Home[fault.by] \in late

\* The static an operation looks up, or the loop whose answer it waits for.
Needed(x) ==
  CASE x.op \in {"use", "emit", "expect", "stop"} -> x.arg
    [] x.op \in {"post", "get"} -> Home[x.arg]
    [] OTHER -> None

\* o is there, and n is not or is younger: n will be destroyed before o.
Outlives(o, n) ==
  /\ o \in ToSet(born)
  /\ n \in ToSet(born) => Younger(n, o)

\* What the tasks have still to look up outlives their loops, and none of them
\* calls exit().
Prepared ==
  \A t \in Tasks : \A i \in DOMAIN todo[t] :
    LET x == todo[t][i] IN
      /\ x.op # "exit"
      /\ Needed(x) # None =>
           Needed(x) = Home[t] \/ Outlives(Needed(x), Home[t])

\* The way out of OnlyYoungerAreMissed: a program that has constructed the
\* functions, signals and called loops before the loops of the tasks that use
\* them, whatever main() and the tasks do afterwards, exits without a fault.
PreparedExitsCleanly ==
  [](phase = "running" /\ Prepared => [](fault.kind = "none"))

\* No future outlives its loop: when a loop is destroyed, each task ever posted
\* to it has completed or had its promise broken, so that fibers of the other
\* loops never wait for an answer that nobody can give.
DeadLoopsAnswer ==
  \A n \in Networks \cap dead :
    begun[n] = {} /\ ToSet(pending[n]) \subseteq broken

\* Each loop of the program is the executor that EventLoop implements: the
\* statics' construction and destruction use it only as Post, Stop and the
\* work thread do.
Loop(n) == INSTANCE TaskExecutor WITH
             Tasks     <- {t \in Tasks : Home[t] = n},
             pending   <- pending[n],
             begun     <- begun[n],
             completed <- completed[n],
             closed    <- closed[n],
             quiescent <- quiescent[n]

LoopsImplementExecutor ==
  /\ \A n \in Networks : Loop(n)!ExecInit
  /\ [][\A n \in Networks : [Loop(n)!ExecNext]_(Loop(n)!taskVars)]_vars

-----------------------------------------------------------------------------
\* The operating system runs the main thread and the one that exits; a loop
\* begins its tasks and runs each of its fibers when it can (PostedCompletes
\* and BegunCompletes of EventLoop).
Fairness ==
  /\ WF_vars(MainStep) /\ WF_vars(Destroy)
  /\ \A t \in Tasks : WF_vars(TaskStep(t))
  /\ \A n \in Networks : WF_vars(Begin(n))

FairSpec == Spec /\ Fairness

\* The result of t will not come: its loop is stopped and t still queued, or
\* the loop's thread is in exit().
Unanswerable(t) ==
  LET n == Home[t] IN
    /\ n \notin dead /\ t \notin completed[n]
    /\ \/ closed[n] /\ t \in ToSet(pending[n])
       \/ exiter # None /\ Thread(exiter) = n

\* A fiber waits for such a task, or for an event on a signal still there.
WaitsInVain ==
  \E t \in Tasks :
    /\ t \in begun[Home[t]] /\ todo[t] # <<>>
    /\ LET next == Head(todo[t]) IN
         \/ next.op = "get" /\ Unanswerable(next.arg)
         \/ next.op = "hear" /\ <<t, next.arg>> \in hopes /\ next.arg \notin dead

\* Whoever waits for the result of a task has posted the task before.
OwnFutures ==
  \A t \in Tasks : \A i \in DOMAIN todo[t] :
    todo[t][i].op = "get" =>
      \E j \in 1..i - 1 : todo[t][j] = [op |-> "post", arg |-> todo[t][i].arg]

\* What t waits for has not come.
Blocked(t) ==
  /\ todo[t] # <<>>
  /\ LET next == Head(todo[t]) IN
       \/ /\ next.op = "get"
          /\ next.arg \notin broken /\ \A n \in Networks : next.arg \notin completed[n]
       \/ next.op = "hear" /\ <<t, next.arg>> \in hopes

\* exit() waits for the fibers of a loop, and there is no loop whose thread
\* can begin a task or resume a fiber.
Hung ==
  /\ phase = "exiting" /\ fault.kind = "none"
  /\ ending # None /\ ~Joined(ending) /\ Thread(exiter) # ending
  /\ \A n \in Networks \ {Thread(exiter)} :
       ~CanBegin(n) /\ \A t \in begun[n] : Blocked(t)

\* exit() hangs only when a fiber waits in vain: the fibers of several loops
\* that wait for each other's tasks do not wait in a circle.
HangsOnlyInVain == OwnFutures => [](Hung => WaitsInVain)

\* A program that begins to exit does exit, or ends in a fault, unless from
\* some time on a fiber waits in vain: there is no other way to hang, neither
\* in one loop nor between the fibers of several.
ExitEnds ==
  phase = "exiting" ~>
    (phase = "exited" \/ fault.kind # "none" \/ []WaitsInVain)
=============================================================================
