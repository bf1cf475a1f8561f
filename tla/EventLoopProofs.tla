--------------------------- MODULE EventLoopProofs ---------------------------
(***************************************************************************)
(* The safety of the event loop for any number of tasks and heap blocks.   *)
(*                                                                         *)
(* IInv is the inductive invariant.  Its parts say where a task is: which  *)
(* queue holds it, on which stack it runs, what it waits for; and that the *)
(* dispatcher context always comes right before Main in the round-robin    *)
(* order.  Every safety invariant of EventLoop follows from IInv and, for  *)
(* NoLostWakeup, from LineageInv: of any posted tasks the youngest holds   *)
(* the future of none of the others, so they do not wait in a circle.      *)
(***************************************************************************)
EXTENDS EventLoop, SequenceLemmas

\* The io_context's queue holds the queued tasks, each once.
QueueInv ==
  /\ IsInjective(io_queue)
  /\ \A t \in Tasks : status[t] = "queued" <=> t \in Range(io_queue)

\* The scheduler's list of ended fibers holds the finished tasks, each once.
TerminatedInv ==
  /\ IsInjective(terminated)
  /\ \A t \in Tasks : status[t] = "finished" <=> t \in Range(terminated)

\* Exactly the fibers that are live or not yet released have a stack.
StackInv ==
  \A t \in Tasks : sp[t] # 0 <=> status[t] \in {"live", "finished"}

\* A live fiber executes, is ready, was woken by another thread, waits for a
\* task, or waits for another thread: exactly one of these, and no other task
\* does any of them.
TasksOnce(q) == \A i, j \in DOMAIN q : q[i] = q[j] /\ q[i] \in Tasks => i = j

PlaceInv ==
  /\ IsInjective(remote_ready)
  /\ TasksOnce(ready)
  /\ \A t \in Tasks :
       /\ t = cur =>
            /\ status[t] = "live" /\ t \notin Range(ready)
            /\ t \notin Range(remote_ready)
            /\ awaited[t] = None /\ remote[t] # "pending"
       /\ t \in Range(ready) =>
            /\ status[t] = "live" /\ t \notin Range(remote_ready)
            /\ awaited[t] = None /\ remote[t] # "pending"
       /\ t \in Range(remote_ready) =>
            /\ status[t] = "live"
            /\ awaited[t] = None /\ remote[t] # "pending"
       /\ awaited[t] # None => status[t] = "live" /\ remote[t] # "pending"
       /\ remote[t] = "pending" => status[t] = "live"
       /\ status[t] = "live" => \/ Scheduled(t)
                                \/ awaited[t] # None
                                \/ remote[t] = "pending"

\* A fiber waits only for a task that it posted itself and that has not ended.
AwaitInv ==
  \A t \in Tasks : awaited[t] # None =>
    /\ parent[awaited[t]] = t
    /\ status[awaited[t]] \in {"queued", "live"}

\* Where Main and Dispatcher are: until Main leaves the loop both are scheduled
\* and Dispatcher comes right before Main, so that Main always finds the ended
\* fibers released.  Every other place in the queue belongs to a task.
LoopRing(q) ==
  \E k \in 1..(Len(q) - 1) :
    /\ q[k] = Dispatcher /\ q[k + 1] = Main
    /\ \A i \in 1..Len(q) : i # k /\ i # k + 1 => q[i] \in Tasks

JoinRing(q) ==
  \E k \in 1..Len(q) :
    /\ q[k] = Dispatcher
    /\ \A i \in 1..Len(q) : i # k => q[i] \in Tasks

RingInv ==
  /\ cur = Main =>
       /\ main_pc \in {"test", "run"} /\ terminated = <<>>
       /\ Len(ready) >= 1 /\ ready[Len(ready)] = Dispatcher
       /\ \A i \in 1..(Len(ready) - 1) : ready[i] \in Tasks
  /\ cur = Dispatcher /\ main_pc # "join" =>
       /\ main_pc \in {"test", "run"}
       /\ Len(ready) >= 1 /\ ready[1] = Main
       /\ \A i \in 2..Len(ready) : ready[i] \in Tasks
  /\ cur = Dispatcher /\ main_pc = "join" =>
       \A i \in 1..Len(ready) : ready[i] \in Tasks
  /\ cur \in Tasks =>
       \/ main_pc \in {"test", "run"} /\ LoopRing(ready)
       \/ main_pc = "join" /\ JoinRing(ready)

\* The steps of Stop() and the end of the work thread.
StopInv ==
  /\ stop_pc = "idle" <=> ~io_stopped
  /\ cur = None <=> main_pc = "done"
  /\ main_pc = "done" => Live = {} /\ terminated = <<>>
  /\ stop_pc = "returned" => main_pc = "done"
  /\ overrun => first_use = "scheduler" /\ main_pc \in {"join", "done"}
  /\ lifetime = "destroyed" =>
       \/ main_pc = "done"
       \/ main_pc = "join" /\ first_use = "scheduler"

\* The program died for want of a stack: all blocks were under live fibers.
AbortInv ==
  aborted => \A b \in Pool!Blocks : \E t \in Live : sp[t] = b

IInv ==
  /\ TypeOK /\ Pool!PoolInv
  /\ QueueInv /\ TerminatedInv /\ StackInv
  /\ PlaceInv /\ AwaitInv /\ RingInv
  /\ StopInv /\ AbortInv

-----------------------------------------------------------------------------
\* The facts about the pool, for the pool of the work thread.
PoolFacts == INSTANCE MemoryPoolProofs WITH Stacks <- Tasks

\* Every step of the event loop is a step of the pool, or leaves it alone.
LEMMA PoolSimulation ==
  ASSUME TypeOK, [Next]_vars
  PROVE  [Pool!PoolNext]_pool
<1> USE DEF Pool!PoolNext
<1>1. CASE RunHandler
  <2>1. Head(io_queue) \in Tasks
    BY <1>1, HeadTailRange DEF RunHandler, HandlerReady, TypeOK
  <2>2. Pool!Allocate(Head(io_queue))
    BY <1>1 DEF RunHandler
  <2> QED
    BY <2>1, <2>2
<1>2. CASE ReleaseTerminated
  <2>1. Head(terminated) \in Tasks
    BY <1>2, HeadTailRange DEF ReleaseTerminated, TypeOK
  <2>2. \/ Pool!Deallocate(Head(terminated))
        \/ Pool!DeallocateLate(Head(terminated))
    BY <1>2 DEF ReleaseTerminated
  <2> QED
    BY <2>1, <2>2
<1>3. CASE LeaveLoop
  BY <1>3 DEF LeaveLoop, pool
<1>4. CASE ThreadExit
  BY <1>4 DEF ThreadExit, pool
<1>5. CASE UNCHANGED pool
  BY <1>5
<1>6. CASE \/ EnterRun \/ RunHandlerThrows \/ YieldMain \/ DispatchNext
           \/ Stop \/ \E t \in Tasks : ClientPost(t) \/ RemoteWake(t)
           \/ \E t \in Tasks : Fiber(t)
  <2>1. UNCHANGED pool
    BY <1>6 DEF EnterRun, RunHandlerThrows, YieldMain, DispatchNext, Stop, StopIo,
       StopFlag, StopReturn, ClientPost, RemoteWake, Fiber, FiberPost, FiberAwait,
       FiberAwaitRemote, FiberFinish
  <2> QED
    BY <2>1
<1>7. CASE UNCHANGED vars
  BY <1>5, <1>7 DEF vars
<1> QED
  BY <1>1, <1>2, <1>3, <1>4, <1>6, <1>7
     DEF Next, WorkThread, MainLoop, Scheduler

\* So the pool keeps its invariant under the event loop.
LEMMA PoolStep ==
  ASSUME TypeOK, Pool!PoolInv, [Next]_vars
  PROVE  Pool!PoolInv'
<1> USE DEF Pool!PoolInv, PoolFacts!PoolInv, Pool!PoolTypeOK, PoolFacts!PoolTypeOK,
        Pool!NoSharedBlock, PoolFacts!NoSharedBlock, Pool!NoBlockLost,
        PoolFacts!NoBlockLost, Pool!InUse, PoolFacts!InUse, Pool!Blocks,
        PoolFacts!Blocks, Pool!Range, PoolFacts!Range, Pool!IsInjective,
        PoolFacts!IsInjective
<1>1. PoolFacts!PoolInv
  BY Zenon
<1>2. [Pool!PoolNext]_pool
  BY PoolSimulation
<1>3. [PoolFacts!PoolNext]_(PoolFacts!poolVars)
  BY <1>2, Zenon DEF Pool!PoolNext, PoolFacts!PoolNext, pool, PoolFacts!poolVars,
     Pool!Allocate, PoolFacts!Allocate, Pool!Reuse, PoolFacts!Reuse, Pool!Malloc,
     PoolFacts!Malloc, Pool!Deallocate, PoolFacts!Deallocate, Pool!DeallocateLate,
     PoolFacts!DeallocateLate, Pool!Destroy, PoolFacts!Destroy
<1>4. PoolFacts!PoolInv'
  <2> HIDE DEF PoolFacts!PoolInv, Pool!PoolInv
  <2>1. PoolFacts!HeapBlocksAssumption
    BY HeapAssumption DEF PoolFacts!HeapBlocksAssumption
  <2> QED
    BY <1>1, <1>3, <2>1, PoolFacts!PoolStepInv
<1> QED
  BY <1>4, Zenon

LEMMA PoolStart ==
  ASSUME Pool!PoolInit
  PROVE  Pool!PoolInv
<1>1. PoolFacts!PoolInv
  <2>1. PoolFacts!HeapBlocksAssumption
    BY HeapAssumption DEF PoolFacts!HeapBlocksAssumption
  <2>2. PoolFacts!PoolInit
    BY Zenon DEF Pool!PoolInit, PoolFacts!PoolInit
  <2> QED
    BY <2>1, <2>2, PoolFacts!PoolInitInv
<1> QED
  BY <1>1, Zenon DEF Pool!PoolInv, PoolFacts!PoolInv, Pool!PoolTypeOK,
     PoolFacts!PoolTypeOK, Pool!NoSharedBlock, PoolFacts!NoSharedBlock,
     Pool!NoBlockLost, PoolFacts!NoBlockLost, Pool!InUse, PoolFacts!InUse,
     Pool!Blocks, PoolFacts!Blocks, Pool!Range, PoolFacts!Range,
     Pool!IsInjective, PoolFacts!IsInjective

-----------------------------------------------------------------------------
\* The initial state satisfies the invariant.
LEMMA InitInv == Init => IInv
<1> SUFFICES ASSUME Init PROVE IInv
  OBVIOUS
<1> USE DEF Init
<1>1. Pool!PoolInv
  BY PoolStart
<1>2. TypeOK
  <2>1. /\ io_queue \in Seq(Tasks) /\ remote_ready \in Seq(Tasks)
        /\ terminated \in Seq(Tasks)
    BY EmptySeq
  <2>2. ready \in Seq(Contexts)
    BY DEF Contexts
  <2>3. io_stopped \in BOOLEAN /\ stopped \in BOOLEAN /\ aborted \in BOOLEAN
    OBVIOUS
  <2>4. Pool!PoolTypeOK
    BY <1>1 DEF Pool!PoolInv
  <2> QED
    BY <2>1, <2>2, <2>3, <2>4 DEF TypeOK, Contexts
<1>3. \A t \in Tasks : t # Main /\ t # Dispatcher /\ t # None
  BY ContextAssumption
<1>4. /\ Range(io_queue) = {} /\ IsInjective(io_queue)
      /\ Range(terminated) = {} /\ IsInjective(terminated)
      /\ Range(remote_ready) = {} /\ IsInjective(remote_ready)
  BY DEF Range, IsInjective
<1>5. Range(ready) = {Dispatcher}
  BY DEF Range
<1>6. QueueInv /\ TerminatedInv /\ AwaitInv /\ AbortInv
  BY <1>4 DEF QueueInv, TerminatedInv, AwaitInv, AbortInv
<1>7. StackInv
  BY DEF StackInv, Pool!PoolInit
<1>8. PlaceInv
  BY <1>3, <1>4, <1>5 DEF PlaceInv, TasksOnce
<1>9. RingInv
  BY <1>3, ContextAssumption DEF RingInv
<1>10. StopInv
  BY ContextAssumption DEF StopInv, Pool!PoolInit
<1> QED
  BY <1>1, <1>2, <1>6, <1>7, <1>8, <1>9, <1>10 DEF IInv

-----------------------------------------------------------------------------
\* Whoever gives up the thread hands it to a context, and keeps the queue one.
LEMMA SuspendSchedules ==
  ASSUME TypeOK, Suspend
  PROVE  cur' \in Contexts /\ ready' \in Seq(Contexts)
BY HeadTailRange DEF Suspend, TypeOK

LEMMA FinishSchedules ==
  ASSUME TypeOK, NEW t \in Tasks, FiberFinish(t)
  PROVE  cur' \in Contexts /\ ready' \in Seq(Contexts)
<1> DEFINE wake == Wake(t)
<1>1. wake \in Seq(Contexts)
  <2>1. CASE parent[t] \in Waiting(t)
    BY <2>1 DEF Wake, Waiting, Contexts
  <2>2. CASE parent[t] \notin Waiting(t)
    BY <2>2, EmptySeq DEF Wake
  <2> QED
    BY <2>1, <2>2
<1>2. ready \in Seq(Contexts)
  BY DEF TypeOK
<1>3. /\ ready \o wake # <<>>
      /\ cur' = Head(ready \o wake) /\ ready' = Tail(ready \o wake)
  BY DEF FiberFinish
<1> HIDE DEF wake
<1> QED
  BY <1>1, <1>2, <1>3, ConcatProperties, HeadTailRange

LEMMA DispatchSchedules ==
  ASSUME TypeOK, DispatchNext
  PROVE  cur' \in Contexts /\ ready' \in Seq(Contexts)
<1> DEFINE woken == ready \o remote_ready
<1>1. ready \in Seq(Contexts) /\ remote_ready \in Seq(Contexts)
  BY SeqMonotonic DEF TypeOK, Contexts
<1>2. woken \in Seq(Contexts) /\ woken # <<>>
  BY <1>1, ConcatProperties DEF DispatchNext
<1>3. Dispatcher \in Contexts
  BY DEF Contexts
<1>4. cur' = Head(woken) /\ ready' = Append(Tail(woken), Dispatcher)
  BY DEF DispatchNext
<1> HIDE DEF woken
<1> QED
  BY <1>2, <1>3, <1>4, HeadTailRange, AppendProperties

-----------------------------------------------------------------------------
\* Every step keeps the type invariant.
LEMMA TypeStep ==
  ASSUME TypeOK, Pool!PoolInv, RingInv, [Next]_vars
  PROVE  TypeOK'
<1>1. Pool!PoolTypeOK'
  BY PoolStep DEF Pool!PoolInv
<1> USE <1>1 DEF TypeOK
<1>2. CASE \E t \in Tasks : ClientPost(t)
  BY <1>2, AppendProperties DEF ClientPost, Enqueue, waits, sched, stopping
<1>3. CASE \E t \in Tasks : RemoteWake(t)
  BY <1>3, AppendProperties DEF RemoteWake, tasks, sched, stopping
<1>4. CASE StopIo
  BY <1>4 DEF StopIo, tasks, waits, sched
<1>5. CASE StopFlag
  BY <1>5 DEF StopFlag, tasks, waits, sched
<1>6. CASE StopReturn
  BY <1>6 DEF StopReturn, tasks, waits, sched
<1>7. CASE EnterRun
  BY <1>7 DEF EnterRun, tasks, waits, sched, stopping
<1>8. CASE RunHandler
  <2>1. /\ Head(io_queue) \in Tasks /\ io_queue' \in Seq(Tasks)
        /\ ready' \in Seq(Contexts)
    BY <1>8, HeadTailRange, AppendProperties DEF RunHandler, HandlerReady, Contexts
  <2> QED
    BY <1>8, <2>1 DEF RunHandler, waits, stopping, Contexts
<1>9. CASE RunHandlerThrows
  BY <1>9 DEF RunHandlerThrows, tasks, waits, sched, stopping
<1>10. CASE YieldMain \/ LeaveLoop
  <2>1. ready # <<>>
    BY <1>10 DEF RingInv, YieldMain, LeaveLoop
  <2>2. Head(ready) \in Contexts /\ Tail(ready) \in Seq(Contexts)
    BY <2>1, HeadTailRange
  <2>3. Main \in Contexts
    BY DEF Contexts
  <2>4. Append(Tail(ready), Main) \in Seq(Contexts)
    BY <2>2, <2>3, AppendProperties
  <2>5. cur' \in Contexts /\ ready' \in Seq(Contexts)
    BY <1>10, <2>2, <2>4 DEF YieldMain, Yield, LeaveLoop, PoolBeforeScheduler
  <2> QED
    BY <1>10, <2>5 DEF YieldMain, LeaveLoop, tasks, waits, stopping
<1>11. CASE ReleaseTerminated
  <2>1. terminated' \in Seq(Tasks)
    BY <1>11, HeadTailRange DEF ReleaseTerminated
  <2> QED
    BY <1>11, <2>1 DEF ReleaseTerminated, waits, stopping
<1>12. CASE DispatchNext
  <2>1. remote_ready' \in Seq(Tasks)
    BY <1>12, EmptySeq DEF DispatchNext
  <2> QED
    BY <1>12, <2>1, DispatchSchedules DEF DispatchNext, tasks, stopping
<1>13. CASE ThreadExit
  BY <1>13 DEF ThreadExit, tasks, waits, stopping
<1>14. ASSUME NEW t \in Tasks, NEW u \in Tasks, FiberPost(t, u)
       PROVE  TypeOK'
  BY <1>14, AppendProperties DEF FiberPost, Enqueue, waits, sched, stopping
<1>16. ASSUME NEW t \in Tasks, NEW u \in Tasks, FiberAwait(t, u)
       PROVE  TypeOK'
  BY <1>16, SuspendSchedules DEF FiberAwait, tasks, stopping
<1>17. ASSUME NEW t \in Tasks, FiberAwaitRemote(t)
       PROVE  TypeOK'
  BY <1>17, SuspendSchedules DEF FiberAwaitRemote, tasks, stopping
<1>18. ASSUME NEW t \in Tasks, FiberFinish(t)
       PROVE  TypeOK'
  <2>2. cur' \in Contexts /\ ready' \in Seq(Contexts)
    BY <1>18, FinishSchedules
  <2>3. terminated' \in Seq(Tasks)
    BY <1>18, AppendProperties DEF FiberFinish
  <2>4. awaited' \in [Tasks -> Tasks \cup {None}]
    BY <1>18 DEF FiberFinish
  <2>5. status' \in [Tasks -> {"new", "queued", "live", "finished", "released"}]
    BY <1>18 DEF FiberFinish
  <2> QED
    BY <1>18, <2>2, <2>3, <2>4, <2>5 DEF FiberFinish, stopping
<1>19. CASE UNCHANGED vars
  BY <1>19 DEF vars, tasks, waits, sched, stopping
<1> QED
  BY <1>2, <1>3, <1>4, <1>5, <1>6, <1>7, <1>8, <1>9, <1>10, <1>11, <1>12, <1>13,
     <1>14, <1>16, <1>17, <1>18, <1>19
     DEF Next, WorkThread, MainLoop, Scheduler, Stop, Fiber

-----------------------------------------------------------------------------
\* A step that changes no task's status, stack or place in those two queues.
StatusQuo == UNCHANGED <<io_queue, status, terminated, sp>>

\* Every step but those of a task's life leaves the tasks' states alone.
LEMMA StatusCases ==
  ASSUME [Next]_vars
  PROVE  \/ StatusQuo
         \/ \E t \in Tasks : ClientPost(t)
         \/ RunHandler
         \/ ReleaseTerminated
         \/ \E t \in Tasks, u \in Tasks : FiberPost(t, u)
         \/ \E t \in Tasks : FiberFinish(t)
<1> USE DEF StatusQuo, tasks, sched, pool, Pool!Destroy
<1>1. CASE \/ StopIo \/ StopFlag \/ StopReturn \/ EnterRun \/ RunHandlerThrows
           \/ YieldMain \/ LeaveLoop \/ DispatchNext \/ ThreadExit
           \/ \E t \in Tasks : RemoteWake(t)
  BY <1>1 DEF StopIo, StopFlag, StopReturn, EnterRun, RunHandlerThrows, YieldMain,
     LeaveLoop, DispatchNext, ThreadExit, RemoteWake
<1>2. CASE \E t \in Tasks : \/ \E u \in Tasks : FiberAwait(t, u)
                            \/ FiberAwaitRemote(t)
  BY <1>2 DEF FiberAwait, FiberAwaitRemote
<1>3. CASE UNCHANGED vars
  BY <1>3 DEF vars
<1> QED
  BY <1>1, <1>2, <1>3
     DEF Next, WorkThread, MainLoop, Scheduler, Stop, Fiber

\* Posting queues a new task once; the io_context takes it from the queue.
LEMMA QueueStep ==
  ASSUME TypeOK, QueueInv, TerminatedInv, PlaceInv, [Next]_vars
  PROVE  QueueInv'
<1> USE DEF TypeOK, QueueInv
<1>1. ASSUME NEW t \in Tasks, Enqueue(t)
      PROVE  QueueInv'
  <2>1. t \notin Range(io_queue)
    BY <1>1 DEF Enqueue
  <2>2. /\ Range(io_queue') = Range(io_queue) \cup {t}
        /\ IsInjective(io_queue')
    BY <1>1, <2>1, RangeAppend, AppendInjectiveQueue DEF Enqueue
  <2> QED
    BY <1>1, <2>2 DEF Enqueue
<1>2. CASE RunHandler
  <2> DEFINE t == Head(io_queue)
  <2>1. /\ t \in Tasks /\ t \notin Range(io_queue')
        /\ Range(io_queue) = {t} \cup Range(io_queue')
        /\ IsInjective(io_queue')
    BY <1>2, HeadTailRange, TailInjectiveQueue DEF RunHandler, HandlerReady
  <2>2. status' = [status EXCEPT ![t] = "live"]
    BY <1>2 DEF RunHandler
  <2> QED
    BY <2>1, <2>2
<1>3. CASE ReleaseTerminated
  <2>1. Head(terminated) \in Tasks /\ status[Head(terminated)] = "finished"
    BY <1>3, HeadTailRange DEF ReleaseTerminated, TerminatedInv
  <2> QED
    BY <1>3, <2>1 DEF ReleaseTerminated
<1>4. ASSUME NEW t \in Tasks, FiberFinish(t)
      PROVE  QueueInv'
  <2>1. status[t] = "live"
    BY <1>4 DEF FiberFinish, PlaceInv
  <2> QED
    BY <1>4, <2>1 DEF FiberFinish
<1>5. CASE StatusQuo
  BY <1>5 DEF StatusQuo
<1> QED
  BY <1>1, <1>2, <1>3, <1>4, <1>5, StatusCases DEF ClientPost, FiberPost

\* A task that ends joins the list of ended fibers, until it is released.
LEMMA TerminatedStep ==
  ASSUME TypeOK, QueueInv, TerminatedInv, PlaceInv, [Next]_vars
  PROVE  TerminatedInv'
<1> USE DEF TypeOK, TerminatedInv
<1>1. ASSUME NEW t \in Tasks, Enqueue(t), UNCHANGED sched
      PROVE  TerminatedInv'
  BY <1>1 DEF Enqueue, sched
<1>2. CASE RunHandler
  <2>1. Head(io_queue) \in Tasks /\ status[Head(io_queue)] = "queued"
    BY <1>2, HeadTailRange DEF RunHandler, HandlerReady, QueueInv
  <2> QED
    BY <1>2, <2>1 DEF RunHandler
<1>3. CASE ReleaseTerminated
  <2> DEFINE t == Head(terminated)
  <2>1. /\ t \in Tasks /\ t \notin Range(terminated')
        /\ Range(terminated) = {t} \cup Range(terminated')
        /\ IsInjective(terminated')
    BY <1>3, HeadTailRange, TailInjectiveQueue DEF ReleaseTerminated
  <2>2. status' = [status EXCEPT ![t] = "released"]
    BY <1>3 DEF ReleaseTerminated
  <2> QED
    BY <2>1, <2>2
<1>4. ASSUME NEW t \in Tasks, FiberFinish(t)
      PROVE  TerminatedInv'
  <2>1. status[t] = "live"
    BY <1>4 DEF FiberFinish, PlaceInv
  <2>2. t \notin Range(terminated)
    BY <2>1
  <2>3. terminated' = Append(terminated, t)
    BY <1>4 DEF FiberFinish
  <2>4. IsInjective(terminated')
    BY <2>2, <2>3, AppendInjectiveQueue
  <2>5. Range(terminated') = Range(terminated) \cup {t}
    BY <2>3, RangeAppend
  <2> QED
    BY <1>4, <2>4, <2>5 DEF FiberFinish
<1>5. CASE StatusQuo
  BY <1>5 DEF StatusQuo
<1> QED
  BY <1>1, <1>2, <1>3, <1>4, <1>5, StatusCases DEF ClientPost, FiberPost

\* A stack is taken when a fiber starts and given back when it is released.
LEMMA StackStep ==
  ASSUME TypeOK, Pool!PoolInv, QueueInv, TerminatedInv, StackInv, PlaceInv, [Next]_vars
  PROVE  StackInv'
<1> USE DEF TypeOK, StackInv
<1>1. ASSUME NEW t \in Tasks, Enqueue(t), sp' = sp
      PROVE  StackInv'
  BY <1>1 DEF Enqueue
<1>2. CASE RunHandler
  <2> DEFINE t == Head(io_queue)
  <2>1. t \in Tasks /\ status' = [status EXCEPT ![t] = "live"]
    BY <1>2, HeadTailRange DEF RunHandler, HandlerReady
  <2>2. Pool!Allocate(t)
    BY <1>2 DEF RunHandler
  <2> HIDE DEF t
  <2>3. sp' = [sp EXCEPT ![t] = sp'[t]] /\ sp'[t] # 0
    <3>1. CASE Pool!Reuse(t)
      <4>1. allocated_blocks \in Seq(Pool!Blocks) /\ allocated_blocks # <<>>
        BY <3>1 DEF Pool!Reuse, Pool!PoolTypeOK
      <4>2. Head(allocated_blocks) \in Pool!Blocks
        BY <4>1, HeadTailRange
      <4>3. Head(allocated_blocks) # 0
        BY <4>2 DEF Pool!Blocks
      <4> QED
        BY <2>1, <3>1, <4>3 DEF Pool!Reuse, Pool!PoolTypeOK
    <3>2. CASE Pool!Malloc(t)
      BY <2>1, <3>2 DEF Pool!Malloc, Pool!PoolTypeOK
    <3> QED
      BY <2>2, <3>1, <3>2 DEF Pool!Allocate
  <2> QED
    BY <2>1, <2>3 DEF Pool!PoolTypeOK
<1>3. CASE ReleaseTerminated
  <2> DEFINE t == Head(terminated)
  <2>1. /\ t \in Tasks /\ status' = [status EXCEPT ![t] = "released"]
        /\ sp' = [sp EXCEPT ![t] = 0]
    BY <1>3, HeadTailRange DEF ReleaseTerminated, Pool!Deallocate, Pool!DeallocateLate
  <2> HIDE DEF t
  <2> QED
    BY <2>1 DEF Pool!PoolTypeOK
<1>4. ASSUME NEW t \in Tasks, FiberFinish(t)
      PROVE  StackInv'
  <2>1. status[t] = "live" /\ sp' = sp
    BY <1>4 DEF FiberFinish, PlaceInv, pool
  <2> QED
    BY <1>4, <2>1 DEF FiberFinish
<1>5. CASE StatusQuo
  BY <1>5 DEF StatusQuo
<1> QED
  BY <1>1, <1>2, <1>3, <1>4, <1>5, StatusCases DEF ClientPost, FiberPost, pool

\* A fiber waits for its own task, and no longer than until that task ends.
LEMMA AwaitStep ==
  ASSUME TypeOK, QueueInv, TerminatedInv, PlaceInv, AwaitInv, [Next]_vars
  PROVE  AwaitInv'
<1> USE DEF TypeOK, AwaitInv
<1> DEFINE Same == UNCHANGED <<status, parent, awaited>>
<1>1. ASSUME NEW t \in Tasks, ClientPost(t)
      PROVE  AwaitInv'
  BY <1>1 DEF ClientPost, Enqueue, waits
<1>2. CASE RunHandler
  <2>1. Head(io_queue) \in Tasks /\ UNCHANGED <<parent, awaited>>
        /\ status' = [status EXCEPT ![Head(io_queue)] = "live"]
    BY <1>2, HeadTailRange DEF RunHandler, HandlerReady, waits
  <2> QED
    BY <2>1
<1>3. CASE ReleaseTerminated
  <2>1. /\ Head(terminated) \in Tasks /\ UNCHANGED <<parent, awaited>>
        /\ status[Head(terminated)] = "finished"
        /\ status' = [status EXCEPT ![Head(terminated)] = "released"]
    BY <1>3, HeadTailRange DEF ReleaseTerminated, TerminatedInv, waits
  <2> QED
    BY <2>1
<1>4. ASSUME NEW t \in Tasks, NEW u \in Tasks, FiberPost(t, u)
      PROVE  AwaitInv'
  BY <1>4 DEF FiberPost, Enqueue, waits
<1>5. ASSUME NEW t \in Tasks, NEW u \in Tasks, FiberAwait(t, u)
      PROVE  AwaitInv'
  BY <1>5 DEF FiberAwait, tasks
<1>6. ASSUME NEW t \in Tasks, FiberFinish(t)
      PROVE  AwaitInv'
  BY <1>6, ContextAssumption DEF FiberFinish
<1>7. CASE Same
  BY <1>7
<1>8. CASE \/ StopIo \/ StopFlag \/ StopReturn \/ EnterRun \/ RunHandlerThrows
           \/ YieldMain \/ LeaveLoop \/ DispatchNext \/ ThreadExit
           \/ \E t \in Tasks : RemoteWake(t) \/ FiberAwaitRemote(t)
           \/ UNCHANGED vars
  <2>1. Same
    BY <1>8 DEF StopIo, StopFlag, StopReturn, EnterRun, RunHandlerThrows,
       YieldMain, LeaveLoop, DispatchNext, ThreadExit, RemoteWake,
       FiberAwaitRemote, tasks, waits, vars
  <2> QED
    BY <2>1, <1>7
<1> QED
  BY <1>1, <1>2, <1>3, <1>4, <1>5, <1>6, <1>8
     DEF Next, WorkThread, MainLoop, Scheduler, Stop, Fiber

\* The work thread ends with nothing left over, and Stop() returns after it.
LEMMA StopStep ==
  ASSUME TypeOK, Pool!PoolInv, RingInv, StopInv, [Next]_vars
  PROVE  StopInv'
<1> USE ContextAssumption DEF TypeOK, StopInv
<1>1. CASE StopIo \/ StopFlag \/ StopReturn
  BY <1>1 DEF StopIo, StopFlag, StopReturn, Joined, Live, tasks, waits, sched, pool
<1>2. ASSUME NEW t \in Tasks, ClientPost(t)
      PROVE  StopInv'
  BY <1>2 DEF ClientPost, Enqueue, Live, sched, pool, stopping
<1>3. CASE EnterRun \/ RunHandlerThrows
  BY <1>3 DEF EnterRun, RunHandlerThrows, Live, tasks, sched, pool, stopping
<1>4. CASE RunHandler
  <2>1. /\ cur = Main /\ main_pc = "run" /\ cur' = Head(io_queue)
        /\ Head(io_queue) \in Tasks /\ lifetime' = "alive" /\ overrun' = overrun
    BY <1>4, HeadTailRange DEF RunHandler, HandlerReady, Pool!Allocate
  <2> QED
    BY <1>4, <2>1 DEF RunHandler, stopping
<1>5. CASE YieldMain
  <2>1. cur' \in Contexts
    BY <1>5, HeadTailRange DEF YieldMain, Yield, RingInv
  <2> QED
    BY <1>5, <2>1 DEF YieldMain, stopping, pool, Contexts
<1>6. CASE LeaveLoop
  <2>1. cur' \in Contexts
    BY <1>6, HeadTailRange DEF LeaveLoop, RingInv
  <2>2. overrun' = overrun /\ ~overrun
    BY <1>6 DEF LeaveLoop, pool, Pool!Destroy
  <2>3. lifetime' = "destroyed" => first_use' = "scheduler"
    BY <1>6 DEF LeaveLoop, PoolBeforeScheduler, pool, Pool!Destroy
  <2> QED
    BY <1>6, <2>1, <2>2, <2>3 DEF LeaveLoop, stopping, Contexts
<1>7. CASE ReleaseTerminated
  BY <1>7 DEF ReleaseTerminated, stopping, Pool!Deallocate, Pool!DeallocateLate
<1>8. CASE DispatchNext
  <2>1. cur' \in Contexts
    BY <1>8, DispatchSchedules
  <2> QED
    BY <1>8, <2>1 DEF DispatchNext, tasks, stopping, pool, Contexts
<1>9. CASE ThreadExit
  BY <1>9 DEF ThreadExit, Live, tasks, stopping, pool, Pool!Destroy
<1>11. ASSUME NEW t \in Tasks, \/ \E u \in Tasks : FiberPost(t, u) \/ FiberAwait(t, u)
                               \/ FiberAwaitRemote(t) \/ FiberFinish(t)
       PROVE  StopInv'
  <2>1. cur' \in Contexts
    BY <1>11, SuspendSchedules, FinishSchedules
       DEF FiberPost, FiberAwait, FiberAwaitRemote, sched, Contexts
  <2>2. /\ cur = t /\ main_pc' = main_pc
        /\ UNCHANGED <<stopping, first_use, pool>>
    BY <1>11 DEF FiberPost, FiberAwait, FiberAwaitRemote, FiberFinish
  <2> QED
    BY <2>1, <2>2 DEF stopping, pool, Contexts
<1>12. CASE UNCHANGED vars \/ \E t \in Tasks : RemoteWake(t)
  BY <1>12 DEF RemoteWake, vars, tasks, sched, stopping, pool, Live
<1> QED
  BY <1>1, <1>2, <1>3, <1>4, <1>5, <1>6, <1>7, <1>8, <1>9, <1>11, <1>12
     DEF Next, WorkThread, MainLoop, Scheduler, Stop, Fiber

\* bad_alloc ends the program with every block under a live fiber.
LEMMA AbortStep ==
  ASSUME TypeOK, Pool!PoolInv, TerminatedInv, StackInv, RingInv, StopInv, AbortInv,
         [Next]_vars
  PROVE  AbortInv'
<1> USE DEF AbortInv
<1>1. CASE RunHandlerThrows
  <2>1. /\ lifetime # "destroyed" /\ allocated_blocks = <<>> /\ mallocs = HeapBlocks
        /\ terminated = <<>> /\ UNCHANGED <<status, sp>>
    BY <1>1 DEF RunHandlerThrows, Pool!AllocateThrows, RingInv, tasks, pool
  <2>2. Pool!Blocks = Pool!InUse
    <3>1. Pool!Range(allocated_blocks) = {}
      BY <2>1 DEF Pool!Range
    <3>2. freed = {} /\ 1..mallocs = Pool!InUse \cup {} \cup freed
      BY <2>1, <3>1 DEF Pool!PoolInv, Pool!NoBlockLost
    <3> QED
      BY <2>1, <3>2 DEF Pool!Blocks
  <2>3. \A t \in Tasks : sp[t] # 0 => t \in Live
    BY <2>1 DEF StackInv, TerminatedInv, Range, Live
  <2>4. \A b \in Pool!Blocks : \E t \in Live : sp[t] = b
    BY <2>2, <2>3 DEF Pool!InUse
  <2> QED
    BY <2>1, <2>4 DEF Live
<1>2. CASE UNCHANGED vars
  BY <1>2 DEF vars, tasks, pool, Live
<1>3. CASE ~aborted'
  BY <1>3
<1> QED
  <2>1. ~aborted' \/ RunHandlerThrows \/ UNCHANGED vars
    BY DEF Next, WorkThread, MainLoop, Scheduler, Stop, Fiber, ClientPost, RemoteWake,
       StopIo, StopFlag, StopReturn, EnterRun, RunHandler, YieldMain, LeaveLoop,
       ReleaseTerminated, DispatchNext, ThreadExit, FiberPost, FiberAwait,
       FiberAwaitRemote, FiberFinish
  <2> QED
    BY <1>1, <1>2, <1>3, <2>1

-----------------------------------------------------------------------------
\* When a fiber gives up the thread, the one in front of the queue takes over,
\* and Dispatcher still comes right before Main.
LEMMA RingRotates ==
  ASSUME NEW q \in Seq(Contexts), cur' = Head(q), ready' = Tail(q),
         \/ main_pc' \in {"test", "run"} /\ LoopRing(q)
         \/ main_pc' = "join" /\ JoinRing(q)
  PROVE  RingInv'
<1> USE ContextAssumption
<1>1. q # <<>> /\ Len(q) \in Nat \ {0} /\ Head(q) = q[1]
  BY LenProperties, EmptySeq DEF LoopRing, JoinRing
<1>2. /\ Len(Tail(q)) = Len(q) - 1
      /\ \A i \in 1..(Len(q) - 1) : Tail(q)[i] = q[i + 1]
  BY <1>1, HeadTailProperties
<1>3. CASE main_pc' \in {"test", "run"} /\ LoopRing(q)
  <2>1. PICK k \in 1..(Len(q) - 1) :
               /\ q[k] = Dispatcher /\ q[k + 1] = Main
               /\ \A i \in 1..Len(q) : i # k /\ i # k + 1 => q[i] \in Tasks
    BY <1>3 DEF LoopRing
  <2>2. CASE k = 1
    <3>1. cur' = Dispatcher /\ ready'[1] = Main
      BY <1>1, <1>2, <2>1, <2>2
    <3>2. \A i \in 2..Len(ready') : ready'[i] \in Tasks
      BY <1>1, <1>2, <2>1, <2>2
    <3> QED
      BY <1>1, <1>2, <1>3, <2>1, <3>1, <3>2 DEF RingInv
  <2>3. CASE k # 1
    <3>1. cur' \in Tasks
      BY <1>1, <2>1, <2>3
    <3>2. /\ k - 1 \in 1..(Len(ready') - 1)
          /\ ready'[k - 1] = Dispatcher /\ ready'[k] = Main
      BY <1>1, <1>2, <2>1, <2>3
    <3>3. \A i \in 1..Len(ready') : i # k - 1 /\ i # k => ready'[i] \in Tasks
      BY <1>1, <1>2, <2>1, <2>3
    <3>4. LoopRing(ready)'
      BY <1>1, <2>1, <3>2, <3>3 DEF LoopRing
    <3> QED
      BY <1>3, <3>1, <3>4 DEF RingInv
  <2> QED
    BY <2>2, <2>3
<1>4. CASE main_pc' = "join" /\ JoinRing(q)
  <2>1. PICK k \in 1..Len(q) :
               /\ q[k] = Dispatcher
               /\ \A i \in 1..Len(q) : i # k => q[i] \in Tasks
    BY <1>4 DEF JoinRing
  <2>2. CASE k = 1
    <3>1. cur' = Dispatcher
      BY <1>1, <2>1, <2>2
    <3>2. \A i \in 1..Len(ready') : ready'[i] \in Tasks
      BY <1>1, <1>2, <2>1, <2>2
    <3> QED
      BY <1>4, <3>1, <3>2 DEF RingInv
  <2>3. CASE k # 1
    <3>1. cur' \in Tasks
      BY <1>1, <2>1, <2>3
    <3>2. k - 1 \in 1..Len(ready') /\ ready'[k - 1] = Dispatcher
      BY <1>1, <1>2, <2>1, <2>3
    <3>3. \A i \in 1..Len(ready') : i # k - 1 => ready'[i] \in Tasks
      BY <1>1, <1>2, <2>1, <2>3
    <3>4. JoinRing(ready)'
      BY <3>2, <3>3 DEF JoinRing
    <3> QED
      BY <1>4, <3>1, <3>4 DEF RingInv
  <2> QED
    BY <2>2, <2>3
<1> QED
  BY <1>3, <1>4

\* Tasks that join the end of the queue do not disturb that order.
LEMMA RingGrows ==
  ASSUME NEW q \in Seq(Contexts), NEW w \in Seq(Tasks)
  PROVE  /\ LoopRing(q) => LoopRing(q \o w)
         /\ JoinRing(q) => JoinRing(q \o w)
<1>1. /\ Len(q) \in Nat /\ Len(w) \in Nat
      /\ \A i \in 1..Len(w) : w[i] \in Tasks
  BY LenProperties, ElementOfSeq
<1>2. /\ Len(q \o w) = Len(q) + Len(w)
      /\ \A i \in 1..(Len(q) + Len(w)) :
            (q \o w)[i] = IF i <= Len(q) THEN q[i] ELSE w[i - Len(q)]
  <2>1. w \in Seq(Contexts)
    BY SeqMonotonic DEF Contexts
  <2> QED
    BY <2>1, ConcatProperties
<1>3. ASSUME LoopRing(q) PROVE LoopRing(q \o w)
  <2>1. PICK k \in 1..(Len(q) - 1) :
               /\ q[k] = Dispatcher /\ q[k + 1] = Main
               /\ \A i \in 1..Len(q) : i # k /\ i # k + 1 => q[i] \in Tasks
    BY <1>3 DEF LoopRing
  <2>2. /\ k \in 1..(Len(q \o w) - 1)
        /\ (q \o w)[k] = Dispatcher /\ (q \o w)[k + 1] = Main
    BY <1>1, <1>2, <2>1
  <2>3. \A i \in 1..Len(q \o w) : i # k /\ i # k + 1 => (q \o w)[i] \in Tasks
    BY <1>1, <1>2, <2>1
  <2> QED
    BY <2>2, <2>3 DEF LoopRing
<1>4. ASSUME JoinRing(q) PROVE JoinRing(q \o w)
  <2>1. PICK k \in 1..Len(q) :
               /\ q[k] = Dispatcher
               /\ \A i \in 1..Len(q) : i # k => q[i] \in Tasks
    BY <1>4 DEF JoinRing
  <2>2. k \in 1..Len(q \o w) /\ (q \o w)[k] = Dispatcher
    BY <1>1, <1>2, <2>1
  <2>3. \A i \in 1..Len(q \o w) : i # k => (q \o w)[i] \in Tasks
    BY <1>1, <1>2, <2>1
  <2> QED
    BY <2>2, <2>3 DEF JoinRing
<1> QED
  BY <1>3, <1>4

\* Main at the end of a queue that ends with Dispatcher: the order is right.
LEMMA RingCloses ==
  ASSUME NEW q \in Seq(Contexts), Len(q) >= 1, q[Len(q)] = Dispatcher,
         \A i \in 1..(Len(q) - 1) : q[i] \in Tasks
  PROVE  LoopRing(Append(q, Main)) /\ JoinRing(q)
<1>1. Main \in Contexts /\ Len(q) \in Nat
  BY LenProperties DEF Contexts
<1> DEFINE r == Append(q, Main)
<1>2. PICK n \in Nat : n = Len(q)
  BY <1>1
<1>3. /\ Len(r) = n + 1 /\ r[n + 1] = Main
      /\ \A i \in 1..n : r[i] = q[i]
  BY <1>1, <1>2, AppendProperties
<1> HIDE DEF r
<1>4. r[n] = Dispatcher /\ n \in 1..(Len(r) - 1)
  BY <1>2, <1>3
<1>5. ASSUME NEW i \in 1..Len(r), i # n, i # n + 1
      PROVE  r[i] \in Tasks
  <2>1. i \in 1..(n - 1) /\ i \in 1..n
    BY <1>3, <1>5
  <2> QED
    BY <1>2, <1>3, <2>1
<1>6. LoopRing(r)
  BY <1>3, <1>4, <1>5 DEF LoopRing
<1>7. JoinRing(q)
  BY <1>2 DEF JoinRing
<1> QED
  BY <1>6, <1>7 DEF r

\* Every step keeps the round-robin order.
LEMMA RingStep ==
  ASSUME TypeOK, StopInv, RingInv, [Next]_vars
  PROVE  RingInv'
<1> USE ContextAssumption
<1>1. ready \in Seq(Contexts) /\ Len(ready) \in Nat /\ DOMAIN ready = 1..Len(ready)
  BY LenProperties DEF TypeOK
<1>2. CASE UNCHANGED <<ready, cur, terminated, main_pc>>
  BY <1>2 DEF RingInv, LoopRing, JoinRing
<1>3. CASE EnterRun
  BY <1>3 DEF EnterRun, sched, RingInv
<1>4. CASE RunHandler
  <2>1. LoopRing(Append(ready, Main))
    BY <1>1, <1>4, RingCloses DEF RunHandler, RingInv
  <2>2. /\ ready' = Append(ready, Main) /\ cur' \in Tasks
        /\ main_pc' \in {"test", "run"}
    BY <1>4, HeadTailRange DEF RunHandler, HandlerReady, TypeOK
  <2> QED
    BY <2>1, <2>2 DEF RingInv, LoopRing
<1>5. CASE YieldMain
  <2> DEFINE q == Append(ready, Main)
  <2>1. ready # <<>> /\ LoopRing(q)
    BY <1>1, <1>5, RingCloses DEF YieldMain, RingInv
  <2>2. Main \in Contexts
    BY DEF Contexts
  <2>3. q \in Seq(Contexts)
    BY <1>1, <2>2, AppendProperties
  <2>4. cur' = Head(q) /\ ready' = Tail(q)
    BY <1>1, <1>5, <2>1, HeadTailAppend DEF YieldMain, Yield
  <2> HIDE DEF q
  <2> QED
    BY <1>5, <2>1, <2>3, <2>4, RingRotates DEF YieldMain
<1>6. CASE LeaveLoop
  <2>1. JoinRing(ready)
    BY <1>1, <1>6, RingCloses DEF LeaveLoop, RingInv
  <2> QED
    BY <1>1, <1>6, <2>1, RingRotates DEF LeaveLoop
<1>7. CASE ReleaseTerminated
  BY <1>7 DEF ReleaseTerminated, RingInv
<1>8. CASE DispatchNext
  <2> DEFINE q == ready \o remote_ready
             n == Len(q)
  <2>1. remote_ready \in Seq(Tasks)
    BY DEF TypeOK
  <2>2. /\ q \in Seq(Contexts) /\ n = Len(ready) + Len(remote_ready)
        /\ Len(remote_ready) \in Nat
        /\ \A i \in 1..n : q[i] = IF i <= Len(ready) THEN ready[i]
                                  ELSE remote_ready[i - Len(ready)]
    <3>1. remote_ready \in Seq(Contexts)
      BY <2>1, SeqMonotonic DEF Contexts
    <3> QED
      BY <1>1, <3>1, ConcatProperties, LenProperties
  <2>3. /\ q # <<>> /\ cur' = Head(q) /\ ready' = Append(Tail(q), Dispatcher)
        /\ terminated = <<>> /\ terminated' = <<>> /\ main_pc' = main_pc
    BY <1>8 DEF DispatchNext, AllReleased
  <2>4. \A i \in 1..Len(remote_ready) : remote_ready[i] \in Tasks
    BY <2>1, ElementOfSeq
  <2>5. \A i \in 2..n : q[i] \in Tasks
    BY <1>1, <1>8, <2>2, <2>4 DEF DispatchNext, RingInv
  <2> HIDE DEF q
  <2>6. n \in Nat \ {0} /\ Head(q) = q[1]
    BY <2>2, <2>3, EmptySeq
  <2>7. /\ Tail(q) \in Seq(Contexts) /\ Len(Tail(q)) = n - 1
        /\ \A i \in 1..(n - 1) : Tail(q)[i] = q[i + 1]
    BY <2>2, <2>3, HeadTailProperties
  <2>8. /\ Len(ready') = n /\ ready'[n] = Dispatcher
        /\ \A i \in 1..(n - 1) : ready'[i] = q[i + 1]
    <3>1. Dispatcher \in Contexts
      BY DEF Contexts
    <3>2. /\ Len(Append(Tail(q), Dispatcher)) = Len(Tail(q)) + 1
          /\ Append(Tail(q), Dispatcher)[Len(Tail(q)) + 1] = Dispatcher
          /\ \A i \in 1..Len(Tail(q)) : Append(Tail(q), Dispatcher)[i] = Tail(q)[i]
      BY <2>7, <3>1, AppendProperties
    <3> QED
      BY <2>3, <2>6, <2>7, <3>2
  <2>9. \A i \in 1..(n - 1) : ready'[i] \in Tasks
    BY <2>5, <2>6, <2>8
  <2>10. CASE main_pc # "join"
    <3>1. q[1] = Main /\ main_pc \in {"test", "run"}
      BY <1>1, <1>8, <2>2, <2>6, <2>10 DEF q, DispatchNext, RingInv
    <3> HIDE DEF n
    <3> QED
      BY <2>3, <2>6, <2>8, <2>9, <3>1 DEF RingInv
  <2>11. CASE main_pc = "join"
    <3>1. q[1] \in Tasks
      BY <1>1, <1>8, <2>2, <2>4, <2>6, <2>11 DEF q, DispatchNext, RingInv
    <3>2. JoinRing(ready)'
      BY <2>6, <2>8, <2>9 DEF JoinRing
    <3> QED
      BY <2>3, <2>6, <2>11, <3>1, <3>2 DEF RingInv
  <2> QED
    BY <2>10, <2>11
<1>9. CASE ThreadExit
  BY <1>9 DEF ThreadExit, RingInv
<1>10. ASSUME NEW t \in Tasks, cur = t, Suspend, main_pc' = main_pc
       PROVE  RingInv'
  BY <1>1, <1>10, RingRotates DEF Suspend, RingInv
<1>11. ASSUME NEW t \in Tasks, FiberFinish(t)
       PROVE  RingInv'
  <2> DEFINE wake == Wake(t)
  <2>1. wake \in Seq(Tasks)
    <3>1. CASE parent[t] \in Waiting(t)
      BY <3>1 DEF Wake, Waiting
    <3>2. CASE parent[t] \notin Waiting(t)
      BY <3>2, EmptySeq DEF Wake
    <3> QED
      BY <3>1, <3>2
  <2>2. /\ cur' = Head(ready \o wake) /\ ready' = Tail(ready \o wake)
        /\ cur = t /\ main_pc' = main_pc
    BY <1>11 DEF FiberFinish
  <2> HIDE DEF wake
  <2>3. ready \o wake \in Seq(Contexts)
    <3>1. wake \in Seq(Contexts)
      BY <2>1, SeqMonotonic DEF Contexts
    <3> QED
      BY <1>1, <3>1, ConcatProperties
  <2>4. \/ main_pc' \in {"test", "run"} /\ LoopRing(ready \o wake)
        \/ main_pc' = "join" /\ JoinRing(ready \o wake)
    BY <1>1, <2>1, <2>2, RingGrows DEF RingInv
  <2> QED
    BY <2>2, <2>3, <2>4, RingRotates
<1>12. CASE \/ \E t \in Tasks : ClientPost(t) \/ RemoteWake(t)
            \/ StopIo \/ StopFlag \/ StopReturn \/ RunHandlerThrows
            \/ \E t, u \in Tasks : FiberPost(t, u)
            \/ UNCHANGED vars
  <2>1. UNCHANGED <<ready, cur, terminated, main_pc>>
    BY <1>12 DEF ClientPost, RemoteWake, StopIo, StopFlag, StopReturn,
       RunHandlerThrows, FiberPost, sched, vars
  <2> QED
    BY <1>2, <2>1
<1> QED
  BY <1>3, <1>4, <1>5, <1>6, <1>7, <1>8, <1>9, <1>10, <1>11, <1>12
     DEF Next, WorkThread, MainLoop, Scheduler, Stop, Fiber, FiberAwait,
     FiberAwaitRemote

-----------------------------------------------------------------------------
\* Taking the front of a queue that holds every task once.
LEMMA OnceTail ==
  ASSUME NEW q \in Seq(Contexts), q # <<>>, TasksOnce(q)
  PROVE  /\ TasksOnce(Tail(q))
         /\ Range(q) = {Head(q)} \cup Range(Tail(q))
         /\ Head(q) \in Tasks => Head(q) \notin Range(Tail(q))
<1>1. /\ DOMAIN q = 1..Len(q) /\ Len(q) \in Nat \ {0}
      /\ Head(q) = q[1]
  BY LenProperties, EmptySeq
<1>2. /\ DOMAIN Tail(q) = 1..(Len(q) - 1)
      /\ \A i \in 1..(Len(q) - 1) : Tail(q)[i] = q[i + 1]
  BY HeadTailProperties, LenProperties
<1>3. TasksOnce(Tail(q))
  BY <1>1, <1>2 DEF TasksOnce
<1>4. ASSUME NEW i \in DOMAIN Tail(q), Head(q) \in Tasks
      PROVE  Tail(q)[i] # Head(q)
  BY <1>1, <1>2, <1>4 DEF TasksOnce
<1>5. Head(q) \in Tasks => Head(q) \notin Range(Tail(q))
  BY <1>4 DEF Range
<1> QED
  BY <1>3, <1>5, HeadTailRange

\* Adding a context, or a task that was not in the queue.
LEMMA OnceAppend ==
  ASSUME NEW q \in Seq(Contexts), NEW c \in Contexts,
         TasksOnce(q), c \notin Tasks \/ c \notin Range(q)
  PROVE  TasksOnce(Append(q, c)) /\ Range(Append(q, c)) = Range(q) \cup {c}
<1>1. DOMAIN q = 1..Len(q) /\ Len(q) \in Nat
  BY LenProperties
<1>2. /\ DOMAIN Append(q, c) = 1..(Len(q) + 1)
      /\ \A i \in 1..Len(q) : Append(q, c)[i] = q[i]
      /\ Append(q, c)[Len(q) + 1] = c
  BY AppendProperties, LenProperties
<1>3. TasksOnce(Append(q, c))
  BY <1>1, <1>2 DEF TasksOnce, Range
<1> QED
  BY <1>3, RangeAppend

\* Adding several tasks that were not in the queue.
LEMMA OnceConcat ==
  ASSUME NEW q \in Seq(Contexts), NEW w \in Seq(Contexts),
         TasksOnce(q), IsInjective(w), Range(q) \cap Range(w) = {}
  PROVE  TasksOnce(q \o w) /\ Range(q \o w) = Range(q) \cup Range(w)
<1>1. /\ DOMAIN q = 1..Len(q) /\ Len(q) \in Nat
      /\ DOMAIN w = 1..Len(w) /\ Len(w) \in Nat
  BY LenProperties
<1>2. /\ DOMAIN (q \o w) = 1..(Len(q) + Len(w))
      /\ \A i \in 1..(Len(q) + Len(w)) :
            (q \o w)[i] = IF i <= Len(q) THEN q[i] ELSE w[i - Len(q)]
  BY ConcatProperties, LenProperties
<1>3. ASSUME NEW i \in DOMAIN q, NEW j \in DOMAIN w PROVE q[i] # w[j]
  BY DEF Range
<1>4. ASSUME NEW i \in DOMAIN (q \o w), NEW j \in DOMAIN (q \o w),
             (q \o w)[i] = (q \o w)[j], (q \o w)[i] \in Tasks
      PROVE  i = j
  <2>1. CASE i <= Len(q) /\ j <= Len(q)
    BY <1>1, <1>2, <1>4, <2>1 DEF TasksOnce
  <2>2. CASE i <= Len(q) /\ ~(j <= Len(q))
    <3>1. j - Len(q) \in DOMAIN w /\ i \in DOMAIN q
      BY <1>1, <1>2, <2>2
    <3> QED
      BY <1>2, <1>3, <1>4, <2>2, <3>1
  <2>3. CASE ~(i <= Len(q)) /\ j <= Len(q)
    <3>1. i - Len(q) \in DOMAIN w /\ j \in DOMAIN q
      BY <1>1, <1>2, <2>3
    <3> QED
      BY <1>2, <1>3, <1>4, <2>3, <3>1
  <2>4. CASE ~(i <= Len(q)) /\ ~(j <= Len(q))
    <3>1. i - Len(q) \in DOMAIN w /\ j - Len(q) \in DOMAIN w
      BY <1>1, <1>2, <2>4
    <3>2. w[i - Len(q)] = w[j - Len(q)]
      BY <1>2, <1>4, <2>4
    <3>3. i - Len(q) = j - Len(q)
      BY <3>1, <3>2 DEF IsInjective
    <3> QED
      BY <1>1, <1>2, <3>3
  <2> QED
    BY <2>1, <2>2, <2>3, <2>4
<1> QED
  BY <1>4, RangeConcatenation DEF TasksOnce

\* Every step moves a task from one place to one other, or leaves it.
LEMMA PlaceStep ==
  ASSUME TypeOK, QueueInv, TerminatedInv, PlaceInv, AwaitInv, RingInv, StopInv,
         [Next]_vars
  PROVE  PlaceInv'
<1> USE ContextAssumption
<1>1. /\ ready \in Seq(Contexts) /\ remote_ready \in Seq(Tasks)
      /\ remote_ready \in Seq(Contexts)
      /\ Main \in Contexts /\ Dispatcher \in Contexts
      /\ IsInjective(remote_ready) /\ TasksOnce(ready)
  BY SeqMonotonic DEF TypeOK, Contexts, PlaceInv
<1>2. ASSUME NEW t \in Tasks, Enqueue(t), UNCHANGED <<waits, sched>>
      PROVE  PlaceInv'
  <2>1. status[t] = "new" /\ status' = [status EXCEPT ![t] = "queued"]
    BY <1>2 DEF Enqueue
  <2> QED
    BY <1>2, <2>1 DEF PlaceInv, TasksOnce, Scheduled, waits, sched, TypeOK
<1>3. ASSUME NEW t \in Tasks, RemoteWake(t)
      PROVE  PlaceInv'
  <2>1. /\ remote[t] = "pending" /\ remote' = [remote EXCEPT ![t] = "arrived"]
        /\ remote_ready' = Append(remote_ready, t)
        /\ UNCHANGED <<ready, cur, status, awaited>>
    BY <1>3 DEF RemoteWake, tasks, sched
  <2>2. /\ t \notin Range(remote_ready) /\ t \notin Range(ready) /\ t # cur
        /\ awaited[t] = None /\ status[t] = "live"
    BY <2>1 DEF PlaceInv
  <2>3. IsInjective(remote_ready') /\ Range(remote_ready') = Range(remote_ready) \cup {t}
    BY <1>1, <2>1, <2>2, AppendInjectiveQueue, RangeAppend
  <2> QED
    BY <1>1, <2>1, <2>2, <2>3 DEF PlaceInv, Scheduled, TypeOK
<1>4. CASE RunHandler
  <2> DEFINE h == Head(io_queue)
  <2>1. h \in Tasks /\ status[h] = "queued"
    BY <1>4, HeadTailRange DEF RunHandler, HandlerReady, QueueInv, TypeOK
  <2>2. /\ cur = Main /\ cur' = h /\ ready' = Append(ready, Main)
        /\ status' = [status EXCEPT ![h] = "live"]
        /\ UNCHANGED <<awaited, remote, remote_ready>>
    BY <1>4 DEF RunHandler, waits
  <2>3. TasksOnce(ready') /\ Range(ready') = Range(ready) \cup {Main}
    BY <1>1, <2>2, OnceAppend
  <2> HIDE DEF h
  <2> QED
    BY <1>1, <2>1, <2>2, <2>3 DEF PlaceInv, Scheduled, TypeOK
<1>5. CASE YieldMain
  <2>1. ready # <<>> /\ cur = Main
    BY <1>5 DEF YieldMain, RingInv
  <2>2. /\ Tail(ready) \in Seq(Contexts) /\ TasksOnce(Tail(ready))
        /\ Range(ready) = {Head(ready)} \cup Range(Tail(ready))
        /\ Head(ready) \in Tasks => Head(ready) \notin Range(Tail(ready))
    BY <1>1, <2>1, OnceTail, HeadTailRange
  <2>3. /\ cur' = Head(ready) /\ ready' = Append(Tail(ready), Main)
        /\ UNCHANGED <<status, awaited, remote, remote_ready>>
    BY <1>5 DEF YieldMain, Yield, tasks, waits
  <2>4. TasksOnce(ready') /\ Range(ready') = Range(Tail(ready)) \cup {Main}
    BY <1>1, <2>2, <2>3, OnceAppend
  <2> QED
    BY <1>1, <2>1, <2>2, <2>3, <2>4 DEF PlaceInv, Scheduled
<1>6. CASE LeaveLoop
  <2>1. ready # <<>> /\ cur = Main
    BY <1>6 DEF LeaveLoop, RingInv
  <2>2. /\ TasksOnce(Tail(ready))
        /\ Range(ready) = {Head(ready)} \cup Range(Tail(ready))
        /\ Head(ready) \in Tasks => Head(ready) \notin Range(Tail(ready))
    BY <1>1, <2>1, OnceTail
  <2>3. /\ cur' = Head(ready) /\ ready' = Tail(ready)
        /\ UNCHANGED <<status, awaited, remote, remote_ready>>
    BY <1>6 DEF LeaveLoop, tasks, waits
  <2> QED
    BY <1>1, <2>1, <2>2, <2>3 DEF PlaceInv, Scheduled
<1>7. CASE ReleaseTerminated
  <2> DEFINE h == Head(terminated)
  <2>1. h \in Tasks /\ status[h] = "finished"
    BY <1>7, HeadTailRange DEF ReleaseTerminated, TerminatedInv, TypeOK
  <2>2. /\ status' = [status EXCEPT ![h] = "released"]
        /\ UNCHANGED <<ready, cur, awaited, remote, remote_ready>>
    BY <1>7 DEF ReleaseTerminated, waits
  <2> HIDE DEF h
  <2> QED
    BY <2>1, <2>2 DEF PlaceInv, TasksOnce, Scheduled, TypeOK
<1>8. CASE DispatchNext
  <2> DEFINE q == ready \o remote_ready
  <2>1. Range(ready) \cap Range(remote_ready) = {}
    <3>1. \A t \in Tasks : t \in Range(ready) => t \notin Range(remote_ready)
      BY DEF PlaceInv
    <3>2. Range(remote_ready) \subseteq Tasks
      BY <1>1, RangeOfSeq
    <3> QED
      BY <3>1, <3>2
  <2>2. /\ q \in Seq(Contexts) /\ TasksOnce(q)
        /\ Range(q) = Range(ready) \cup Range(remote_ready)
    BY <1>1, <2>1, OnceConcat, ConcatProperties
  <2>3. /\ q # <<>> /\ cur = Dispatcher
        /\ cur' = Head(q) /\ ready' = Append(Tail(q), Dispatcher)
        /\ remote_ready' = <<>>
        /\ UNCHANGED <<status, awaited, remote>>
    BY <1>8 DEF DispatchNext, tasks
  <2> HIDE DEF q
  <2>4. /\ Tail(q) \in Seq(Contexts) /\ TasksOnce(Tail(q))
        /\ Range(q) = {Head(q)} \cup Range(Tail(q))
        /\ Head(q) \in Tasks => Head(q) \notin Range(Tail(q))
    BY <2>2, <2>3, OnceTail, HeadTailRange
  <2>5. TasksOnce(ready') /\ Range(ready') = Range(Tail(q)) \cup {Dispatcher}
    BY <1>1, <2>3, <2>4, OnceAppend
  <2>6. IsInjective(remote_ready') /\ Range(remote_ready') = {}
    BY <2>3 DEF Range, IsInjective
  <2> QED
    BY <1>1, <2>2, <2>3, <2>4, <2>5, <2>6 DEF PlaceInv, Scheduled
<1>9. CASE ThreadExit
  <2>1. cur' = None /\ UNCHANGED <<status, awaited, remote, ready, remote_ready>>
    BY <1>9 DEF ThreadExit, tasks, waits
  <2>2. cur = Dispatcher /\ Live = {}
    BY <1>9 DEF ThreadExit
  <2> QED
    BY <2>1, <2>2 DEF PlaceInv, TasksOnce, Scheduled, Live
<1>10. ASSUME NEW t \in Tasks, cur = t, Suspend
       PROVE  /\ TasksOnce(ready') /\ Range(ready) = {cur'} \cup Range(ready')
              /\ cur' \in Tasks => cur' \notin Range(ready')
  BY <1>1, <1>10, OnceTail DEF Suspend
<1>11. ASSUME NEW t \in Tasks, NEW u \in Tasks, FiberAwait(t, u)
       PROVE  PlaceInv'
  <2>1. /\ cur = t /\ awaited' = [awaited EXCEPT ![t] = u]
        /\ UNCHANGED <<status, remote, remote_ready>>
    BY <1>11 DEF FiberAwait, tasks
  <2>2. /\ TasksOnce(ready') /\ Range(ready) = {cur'} \cup Range(ready')
        /\ cur' \in Tasks => cur' \notin Range(ready')
    BY <1>10, <1>11 DEF FiberAwait
  <2> QED
    BY <1>1, <2>1, <2>2 DEF PlaceInv, Scheduled, TypeOK
<1>12. ASSUME NEW t \in Tasks, FiberAwaitRemote(t)
       PROVE  PlaceInv'
  <2>1. /\ cur = t /\ remote' = [remote EXCEPT ![t] = "pending"]
        /\ UNCHANGED <<status, awaited, remote_ready>>
    BY <1>12 DEF FiberAwaitRemote, tasks
  <2>2. /\ TasksOnce(ready') /\ Range(ready) = {cur'} \cup Range(ready')
        /\ cur' \in Tasks => cur' \notin Range(ready')
    BY <1>10, <1>12 DEF FiberAwaitRemote
  <2> QED
    BY <1>1, <2>1, <2>2 DEF PlaceInv, Scheduled, TypeOK
<1>13. ASSUME NEW t \in Tasks, FiberFinish(t)
       PROVE  PlaceInv'
  <2> DEFINE wake == Wake(t)
             q == ready \o wake
  <2>1. /\ cur = t /\ q # <<>> /\ cur' = Head(q) /\ ready' = Tail(q)
        /\ status' = [status EXCEPT ![t] = "finished"]
        /\ awaited' = [w \in Tasks |-> IF awaited[w] = t THEN None ELSE awaited[w]]
        /\ UNCHANGED <<remote, remote_ready>>
    BY <1>13 DEF FiberFinish
  <2>2. /\ wake \in Seq(Contexts) /\ IsInjective(wake)
        /\ Range(wake) = Waiting(t)
    <3>1. \A w \in Waiting(t) : parent[t] = w
      BY DEF Waiting, AwaitInv
    <3>2. CASE parent[t] \in Waiting(t)
      <4>1. wake = <<parent[t]>> /\ Waiting(t) = {parent[t]}
        BY <3>1, <3>2 DEF Wake
      <4>2. parent[t] \in Contexts
        BY <3>2 DEF Waiting, Contexts
      <4>3. <<parent[t]>> \in Seq(Contexts) /\ IsInjective(<<parent[t]>>)
        BY <4>2 DEF IsInjective
      <4>4. Range(<<parent[t]>>) = {parent[t]}
        BY DEF Range
      <4> HIDE DEF wake
      <4> QED
        BY <4>1, <4>3, <4>4
    <3>3. CASE parent[t] \notin Waiting(t)
      <4>1. wake = <<>> /\ Waiting(t) = {}
        BY <3>1, <3>3 DEF Wake
      <4> QED
        BY <4>1, EmptySeq DEF Range, IsInjective
    <3> QED
      BY <3>2, <3>3
  <2>3. \A w \in Tasks : w \in Waiting(t) <=> awaited[w] = t
    BY DEF Waiting
  <2>4. \A w \in Waiting(t) :
          /\ w \in Tasks /\ w # t /\ status[w] = "live" /\ remote[w] # "pending"
          /\ w \notin Range(ready) /\ w \notin Range(remote_ready)
    BY <2>1, <2>3 DEF Waiting, PlaceInv
  <2>5. Range(ready) \cap Range(wake) = {}
    BY <2>2, <2>4
  <2> HIDE DEF wake
  <2>6. /\ q \in Seq(Contexts) /\ TasksOnce(q)
        /\ Range(q) = Range(ready) \cup Waiting(t)
    BY <1>1, <2>2, <2>5, OnceConcat, ConcatProperties
  <2> HIDE DEF q
  <2>7. /\ TasksOnce(ready') /\ Range(q) = {cur'} \cup Range(ready')
        /\ cur' \in Tasks => cur' \notin Range(ready')
    BY <2>1, <2>6, OnceTail
  <2>8. t \notin Range(q)
    BY <2>1, <2>4, <2>6 DEF PlaceInv
  <2> QED
    BY <1>1, <2>1, <2>3, <2>4, <2>6, <2>7, <2>8 DEF PlaceInv, Scheduled, TypeOK
<1>14. CASE \/ StopIo \/ StopFlag \/ StopReturn \/ EnterRun \/ RunHandlerThrows
            \/ UNCHANGED vars
  <2>1. UNCHANGED <<ready, cur, status, awaited, remote, remote_ready>>
    BY <1>14 DEF StopIo, StopFlag, StopReturn, EnterRun, RunHandlerThrows,
       tasks, waits, sched, vars
  <2> QED
    BY <2>1 DEF PlaceInv, TasksOnce, Scheduled
<1> QED
  BY <1>2, <1>3, <1>4, <1>5, <1>6, <1>7, <1>8, <1>9, <1>11, <1>12, <1>13, <1>14
     DEF Next, WorkThread, MainLoop, Scheduler, Stop, Fiber, ClientPost, FiberPost

-----------------------------------------------------------------------------
\* Every step keeps the whole invariant.
LEMMA StepInv == IInv /\ [Next]_vars => IInv'
BY PoolStep, TypeStep, QueueStep, TerminatedStep, StackStep, PlaceStep, AwaitStep,
   RingStep, StopStep, AbortStep DEF IInv

LEMMA Invariance == Spec => []IInv
BY InitInv, StepInv, PTL DEF Spec

-----------------------------------------------------------------------------
\* Nobody holds the future of a task that is not posted yet, so a task is
\* younger than the fiber that holds its future: however the posted tasks are
\* chosen, one of them (the youngest) holds the future of none of the others.
Posted == {t \in Tasks : status[t] # "new"}

LineageInv ==
  /\ \A u \in Tasks : parent[u] \in Tasks => parent[u] \in Posted
  /\ \A S \in SUBSET Posted :
       S # {} => \E t \in S : \A u \in S : parent[u] # t

\* The thread function leaves its loop only after io_context_.stop().
LeaveInv ==
  /\ stopped => io_stopped
  /\ stop_pc = "flag" => io_stopped
  /\ main_pc = "join" => stopped

\* A posted task stays posted.
LEMMA PostedStays ==
  ASSUME IInv, [Next]_vars, NEW t \in Posted
  PROVE  t \in Posted'
<1>1. t \in Tasks /\ status[t] # "new"
  BY DEF Posted
<1>2. CASE StatusQuo
  BY <1>1, <1>2 DEF StatusQuo, Posted
<1>3. ASSUME NEW u \in Tasks, Enqueue(u)
      PROVE  t \in Posted'
  BY <1>1, <1>3 DEF Enqueue, Posted, IInv, TypeOK
<1>4. CASE RunHandler
  BY <1>1, <1>4 DEF RunHandler, Posted, IInv, TypeOK
<1>5. CASE ReleaseTerminated
  BY <1>1, <1>5 DEF ReleaseTerminated, Posted, IInv, TypeOK
<1>6. ASSUME NEW u \in Tasks, FiberFinish(u)
      PROVE  t \in Posted'
  BY <1>1, <1>6 DEF FiberFinish, Posted, IInv, TypeOK
<1> QED
  BY <1>2, <1>3, <1>4, <1>5, <1>6, StatusCases DEF ClientPost, FiberPost

\* A new task that is posted with nobody, or a posted task, for its parent
\* keeps the lineage.
LEMMA LineageGrows ==
  ASSUME IInv, LineageInv, NEW u \in Tasks, Enqueue(u),
         \/ parent' = parent
         \/ \E t \in Posted : parent' = [parent EXCEPT ![u] = t]
  PROVE  LineageInv'
<1>1. /\ status[u] = "new" /\ status' = [status EXCEPT ![u] = "queued"]
      /\ parent \in [Tasks -> Tasks \cup {None}]
      /\ status \in [Tasks -> {"new", "queued", "live", "finished", "released"}]
  BY DEF Enqueue, IInv, TypeOK
<1>2. Posted' = Posted \cup {u} /\ u \notin Posted
  BY <1>1 DEF Posted
<1>3. \A v \in Tasks : parent[v] # u
  BY <1>2 DEF LineageInv
<1>4. /\ \A v \in Tasks : v # u => parent'[v] = parent[v]
      /\ parent'[u] # u
      /\ parent'[u] = parent[u] \/ parent'[u] \in Posted
  BY <1>1, <1>2, <1>3
<1>5. \A v \in Tasks : parent'[v] \in Tasks => parent'[v] \in Posted'
  BY <1>2, <1>4 DEF LineageInv
<1>6. ASSUME NEW S \in SUBSET Posted', S # {}
      PROVE  \E t \in S : \A v \in S : parent'[v] # t
  <2>1. S \subseteq Tasks
    BY DEF Posted
  <2>2. CASE u \in S
    BY <1>3, <1>4, <2>1, <2>2
  <2>3. CASE u \notin S
    <3>1. S \in SUBSET Posted
      BY <1>2, <2>3
    <3>2. PICK t \in S : \A v \in S : parent[v] # t
      BY <1>6, <3>1 DEF LineageInv
    <3> QED
      BY <1>4, <2>1, <2>3, <3>2
  <2> QED
    BY <2>2, <2>3
<1> QED
  BY <1>5, <1>6 DEF LineageInv

LEMMA LineageStep ==
  ASSUME IInv, LineageInv, [Next]_vars
  PROVE  LineageInv'
<1>1. ASSUME NEW u \in Tasks, ClientPost(u)
      PROVE  LineageInv'
  BY <1>1, LineageGrows DEF ClientPost
<1>2. ASSUME NEW t \in Tasks, NEW u \in Tasks, FiberPost(t, u)
      PROVE  LineageInv'
  <2>1. t \in Posted
    BY <1>2 DEF FiberPost, Posted, IInv, PlaceInv
  <2> QED
    BY <1>2, <2>1, LineageGrows DEF FiberPost
<1>3. CASE parent' = parent /\ Posted' = Posted
  BY <1>3 DEF LineageInv
<1>4. CASE StatusQuo
  <2>1. CASE parent' = parent
    BY <1>3, <1>4, <2>1 DEF StatusQuo, Posted
  <2>2. parent' = parent
    BY <1>1, <1>2, <1>4
       DEF Next, WorkThread, MainLoop, Scheduler, Stop, Fiber, ClientPost, RemoteWake,
       StopIo, StopFlag, StopReturn, EnterRun, RunHandler, RunHandlerThrows,
       YieldMain, LeaveLoop, ReleaseTerminated, DispatchNext, ThreadExit, FiberPost,
       FiberAwait, FiberAwaitRemote, FiberFinish, Enqueue, StatusQuo, IInv, TypeOK,
       tasks, vars
  <2> QED
    BY <2>1, <2>2
<1>5. CASE RunHandler
  <2>1. Head(io_queue) \in Tasks /\ status[Head(io_queue)] = "queued"
    BY <1>5, HeadTailRange DEF RunHandler, HandlerReady, IInv, QueueInv, TypeOK
  <2>2. Posted' = Posted /\ parent' = parent
    BY <1>5, <2>1 DEF RunHandler, Posted, IInv, TypeOK
  <2> QED
    BY <1>3, <2>2
<1>6. CASE ReleaseTerminated
  <2>1. Head(terminated) \in Tasks /\ status[Head(terminated)] = "finished"
    BY <1>6, HeadTailRange DEF ReleaseTerminated, IInv, TerminatedInv, TypeOK
  <2>2. Posted' = Posted /\ parent' = parent
    BY <1>6, <2>1 DEF ReleaseTerminated, Posted, IInv, TypeOK
  <2> QED
    BY <1>3, <2>2
<1>7. ASSUME NEW t \in Tasks, FiberFinish(t)
      PROVE  LineageInv'
  <2>1. status[t] = "live"
    BY <1>7 DEF FiberFinish, IInv, PlaceInv
  <2>2. Posted' = Posted /\ parent' = parent
    BY <1>7, <2>1 DEF FiberFinish, Posted, IInv, TypeOK
  <2> QED
    BY <1>3, <2>2
<1> QED
  BY <1>1, <1>2, <1>4, <1>5, <1>6, <1>7, StatusCases

LEMMA LeaveStep ==
  ASSUME IInv, LeaveInv, [Next]_vars
  PROVE  LeaveInv'
<1>1. CASE StopIo
  BY <1>1 DEF StopIo, LeaveInv
<1>2. CASE StopFlag
  BY <1>2 DEF StopFlag, LeaveInv
<1>3. CASE StopReturn
  BY <1>3 DEF StopReturn, LeaveInv
<1>4. CASE \/ EnterRun \/ RunHandler \/ RunHandlerThrows \/ YieldMain \/ LeaveLoop
  BY <1>4 DEF EnterRun, RunHandler, RunHandlerThrows, YieldMain, LeaveLoop,
     stopping, LeaveInv
<1>5. CASE ReleaseTerminated \/ DispatchNext \/ ThreadExit
  BY <1>5 DEF ReleaseTerminated, DispatchNext, ThreadExit, stopping, LeaveInv
<1>6. CASE \E t \in Tasks : ClientPost(t) \/ RemoteWake(t) \/ Fiber(t)
  BY <1>6 DEF ClientPost, RemoteWake, Fiber, FiberPost, FiberAwait,
     FiberAwaitRemote, FiberFinish, stopping, LeaveInv
<1>7. CASE UNCHANGED vars
  BY <1>7 DEF vars, stopping, LeaveInv
<1> QED
  BY <1>1, <1>2, <1>3, <1>4, <1>5, <1>6, <1>7
     DEF Next, WorkThread, MainLoop, Scheduler, Stop

LEMMA LineageHolds == Spec => [](IInv /\ LineageInv /\ LeaveInv)
<1>1. Init => LineageInv /\ LeaveInv
  <2> SUFFICES ASSUME Init PROVE LineageInv /\ LeaveInv
    OBVIOUS
  <2>1. Posted = {} /\ \A u \in Tasks : parent[u] \notin Tasks
    BY ContextAssumption DEF Init, Posted
  <2> QED
    BY <2>1 DEF Init, LineageInv, LeaveInv
<1> QED
  BY <1>1, LineageStep, LeaveStep, Invariance, PTL DEF Spec

\* Every variable keeps its shape, for any number of tasks and heap blocks.
THEOREM TypeCorrect == Spec => []TypeOK
<1>1. IInv => TypeOK
  BY DEF IInv
<1> QED
  BY <1>1, Invariance, PTL

\* Of fibers that wait for each other's tasks, the youngest waits for none of
\* the others: there is no circle.
LEMMA NoCircle ==
  ASSUME IInv, LineageInv, NEW S \in SUBSET Live, S # {}
  PROVE  \E t \in S : awaited[t] \notin S
<1>1. S \in SUBSET Posted
  BY DEF Live, Posted
<1>2. PICK t \in S : \A u \in S : parent[u] # t
  BY <1>1 DEF LineageInv
<1>3. awaited[t] \notin S
  <2>1. ASSUME awaited[t] \in S PROVE FALSE
    <3>1. t \in Tasks /\ awaited[t] # None
      BY <1>1, <2>1, ContextAssumption DEF Posted
    <3> QED
      BY <1>2, <2>1, <3>1 DEF IInv, AwaitInv
  <2> QED
    BY <2>1
<1> QED
  BY <1>3

\* No wake-up is lost: a live fiber can run or waits for something unfinished,
\* no fibers wait in a circle, and the work thread sleeps with fibers left only
\* for another thread's answer or for a task the stopped loop does not begin.
THEOREM WakeupsKept == Spec => []NoLostWakeup
<1>1. ASSUME IInv, LineageInv, LeaveInv
      PROVE  NoLostWakeup
  <2>1. \A t \in Live :
          \/ Scheduled(t)
          \/ awaited[t] \in Tasks /\ status[awaited[t]] \in {"queued", "live"}
          \/ remote[t] = "pending"
    BY <1>1 DEF IInv, TypeOK, PlaceInv, AwaitInv, Live
  <2>2. \A S \in SUBSET Live : S # {} => \E t \in S : awaited[t] \notin S
    BY <1>1, NoCircle
  <2>3. ASSUME Asleep, Live # {}, ~\E t \in Tasks : remote[t] = "pending"
        PROVE  Stuck
    <3>1. PICK t \in Live : awaited[t] \notin Live
      BY <2>2, <2>3
    <3>2. t \in Tasks /\ t # cur
      BY <2>3, ContextAssumption DEF Live, Asleep
    <3>3. ~Scheduled(t)
      BY <2>3, <3>2 DEF Asleep, Scheduled, Range
    <3>4. awaited[t] \in Tasks /\ status[awaited[t]] = "queued"
      BY <2>1, <2>3, <3>1, <3>2, <3>3 DEF Live
    <3>5. main_pc = "join"
      BY <1>1, <2>3 DEF IInv, RingInv, Asleep
    <3> QED
      BY <1>1, <3>1, <3>4, <3>5 DEF LeaveInv, Stuck
  <2> QED
    BY <2>1, <2>2, <2>3 DEF NoLostWakeup
<1> QED
  BY <1>1, LineageHolds, PTL

\* The thread function always finds the stacks of ended fibers released.
THEOREM StacksReturned == Spec => []StacksBackBeforeMain
<1>1. IInv => StacksBackBeforeMain
  BY DEF IInv, RingInv, StacksBackBeforeMain
<1> QED
  BY <1>1, Invariance, PTL

\* bad_alloc comes only when all blocks of the heap are under live fibers.
THEOREM OnlyRealExhaustion == Spec => []ExhaustionIsReal
<1>1. IInv => ExhaustionIsReal
  BY DEF IInv, AbortInv, ExhaustionIsReal
<1> QED
  BY <1>1, Invariance, PTL

\* No two fibers run on one stack.
THEOREM StacksAreDisjoint == Spec => []StacksDisjoint
<1>1. IInv => StacksDisjoint
  BY DEF IInv, StackInv, Live, Pool!PoolInv, StacksDisjoint
<1> QED
  BY <1>1, Invariance, PTL

\* Stop() returns with no fiber left half-way and no stack outstanding.
THEOREM StopLeavesNothing == Spec => []NoFiberLeftBehind
<1>1. IInv => NoFiberLeftBehind
  <2> SUFFICES ASSUME IInv, stop_pc = "returned"
               PROVE  /\ Live = {} /\ terminated = <<>>
                      /\ \A t \in Tasks : sp[t] = 0
    BY DEF NoFiberLeftBehind
  <2>1. Live = {} /\ terminated = <<>>
    BY DEF IInv, StopInv
  <2>2. Range(terminated) = {}
    BY <2>1 DEF Range
  <2>3. \A t \in Tasks : status[t] # "live" /\ status[t] # "finished"
    BY <2>1, <2>2 DEF IInv, TerminatedInv, Live
  <2> QED
    BY <2>1, <2>3 DEF IInv, StackInv
<1> QED
  BY <1>1, Invariance, PTL

\* A pool that was used before the first yield outlives every fiber.
THEOREM PoolLivesLongEnough == Spec => []PoolOutlivesFibers
<1>1. IInv => PoolOutlivesFibers
  BY DEF IInv, StopInv, PoolOutlivesFibers
<1> QED
  BY <1>1, Invariance, PTL

\* The event loop uses its pool as MemoryPool specifies: every run of the loop
\* is, seen from the pool, a run of the pool.
THEOREM LoopUsesPool == Spec => Pool!PoolSpec
<1>1. Init => Pool!PoolInit
  BY DEF Init
<1>2. TypeOK /\ [Next]_vars => [Pool!PoolNext]_pool
  BY PoolSimulation
<1>3. [Pool!PoolNext]_pool => [Pool!PoolNext]_(Pool!poolVars)
  BY DEF pool, Pool!poolVars
<1> QED
  BY <1>1, <1>2, <1>3, TypeCorrect, PTL DEF Spec, Pool!PoolSpec

-----------------------------------------------------------------------------
\* The set of tasks that have ended, as the refinement sees it.
Ended == {t \in Tasks : status[t] \in {"finished", "released"}}

\* Posting a new task is a Post of the executor.
LEMMA PostRefines ==
  ASSUME IInv, NEW t \in Tasks, Enqueue(t), UNCHANGED <<io_stopped, stop_pc>>
  PROVE  Exec!Post(t)
<1>1. /\ status[t] = "new" /\ status' = [status EXCEPT ![t] = "queued"]
      /\ io_queue' = Append(io_queue, t)
  BY DEF Enqueue
<1>2. t \notin Range(io_queue)
  BY <1>1 DEF IInv, QueueInv
<1>3. t \notin Exec!Posted
  BY <1>1, <1>2 DEF Exec!Posted, Live, Range
<1>4. Live' = Live /\ Ended' = Ended
  BY <1>1 DEF Live, Ended, IInv, TypeOK
<1> QED
  BY <1>1, <1>3, <1>4 DEF Exec!Post, Ended

\* Taking a handler from the io_context is a Begin of the executor.
LEMMA BeginRefines ==
  ASSUME IInv, RunHandler
  PROVE  Exec!Begin
<1> DEFINE t == Head(io_queue)
<1>1. /\ t \in Tasks /\ status[t] = "queued" /\ ~io_stopped /\ io_queue # <<>>
  BY HeadTailRange DEF RunHandler, HandlerReady, IInv, QueueInv, TypeOK
<1>2. /\ status' = [status EXCEPT ![t] = "live"]
      /\ io_queue' = Tail(io_queue) /\ UNCHANGED <<io_stopped, stop_pc>>
  BY DEF RunHandler, stopping
<1> HIDE DEF t
<1>3. Live' = Live \cup {t} /\ Ended' = Ended
  BY <1>1, <1>2 DEF Live, Ended, IInv, TypeOK
<1> QED
  BY <1>1, <1>2, <1>3 DEF Exec!Begin, Ended, t

\* The end of a fiber is a Complete of the executor.
LEMMA CompleteRefines ==
  ASSUME IInv, NEW t \in Tasks, FiberFinish(t)
  PROVE  Exec!Complete(t)
<1>1. /\ status[t] = "live" /\ status' = [status EXCEPT ![t] = "finished"]
      /\ UNCHANGED <<io_queue, io_stopped, stop_pc>>
  BY DEF FiberFinish, IInv, PlaceInv, stopping
<1>2. t \in Live /\ Live' = Live \ {t} /\ Ended' = Ended \cup {t}
  BY <1>1 DEF Live, Ended, IInv, TypeOK
<1> QED
  BY <1>1, <1>2 DEF Exec!Complete, Ended

\* Every other step is Close, Quiesce, or invisible to the executor.
LEMMA OtherRefines ==
  ASSUME IInv, StatusQuo \/ ReleaseTerminated, [Next]_vars
  PROVE  Exec!Close \/ Exec!Quiesce \/ UNCHANGED Exec!taskVars
<1>1. Live' = Live /\ Ended' = Ended /\ io_queue' = io_queue
  <2>1. CASE StatusQuo
    BY <2>1 DEF StatusQuo, Live, Ended
  <2>2. CASE ReleaseTerminated
    <3>1. Head(terminated) \in Tasks /\ status[Head(terminated)] = "finished"
      BY <2>2, HeadTailRange DEF ReleaseTerminated, IInv, TerminatedInv, TypeOK
    <3> QED
      BY <2>2, <3>1 DEF ReleaseTerminated, Live, Ended, IInv, TypeOK
  <2> QED
    BY <2>1, <2>2
<1>2. CASE StopIo
  BY <1>1, <1>2 DEF StopIo, Exec!Close, Ended, IInv, StopInv
<1>3. CASE StopReturn
  BY <1>1, <1>3 DEF StopReturn, Joined, Exec!Quiesce, Ended, IInv, StopInv
<1>4. CASE UNCHANGED io_stopped /\ (stop_pc = "returned")' = (stop_pc = "returned")
  BY <1>1, <1>4 DEF Exec!taskVars, Ended
<1>5. \/ StopIo \/ StopReturn \/ StopFlag \/ UNCHANGED <<io_stopped, stop_pc>>
  BY DEF Next, WorkThread, MainLoop, Scheduler, Stop, Fiber, ClientPost, RemoteWake,
     EnterRun, RunHandler, RunHandlerThrows, YieldMain, LeaveLoop, ReleaseTerminated,
     DispatchNext, ThreadExit, FiberPost, FiberAwait, FiberAwaitRemote, FiberFinish,
     stopping, vars
<1> QED
  BY <1>2, <1>3, <1>4, <1>5 DEF StopFlag

\* The event loop implements the abstract executor: tasks begin in posting
\* order, each at most once and none after the io_context stopped, and Stop()
\* returns only with nothing half-way.
THEOREM LoopImplementsExecutor == Spec => ImplementsExecutor
<1>1. Init => Exec!ExecInit
  BY DEF Init, Exec!ExecInit, Live
<1>2. IInv /\ [Next]_vars => [Exec!ExecNext]_(Exec!taskVars)
  <2> SUFFICES ASSUME IInv, [Next]_vars
               PROVE  Exec!ExecNext \/ UNCHANGED Exec!taskVars
    OBVIOUS
  <2>1. ASSUME NEW t \in Tasks, ClientPost(t) PROVE Exec!Post(t)
    BY <2>1, PostRefines DEF ClientPost, stopping
  <2>2. ASSUME NEW t \in Tasks, NEW u \in Tasks, FiberPost(t, u) PROVE Exec!Post(u)
    BY <2>2, PostRefines DEF FiberPost, stopping
  <2> QED
    BY <2>1, <2>2, BeginRefines, CompleteRefines, OtherRefines, StatusCases
       DEF Exec!ExecNext
<1> QED
  BY <1>1, <1>2, Invariance, PTL DEF Spec, ImplementsExecutor, Exec!ExecSpec

\* A fiber that waits for a task the stopped loop will not begin waits for ever.
THEOREM StuckStaysStuck == Spec => StuckIsForever
<1>1. IInv /\ [Next]_vars => [Stuck => Stuck']_vars
  <2> SUFFICES ASSUME IInv, [Next]_vars, Stuck PROVE Stuck'
    OBVIOUS
  <2>1. PICK t \in Live : /\ awaited[t] \in Tasks
                          /\ status[awaited[t]] = "queued" /\ io_stopped
    BY DEF Stuck
  <2> DEFINE u == awaited[t]
  <2>2. /\ t \in Tasks /\ status[t] = "live" /\ t # cur /\ t # u
        /\ u \in Tasks /\ status[u] = "queued" /\ u # cur
    BY <2>1, ContextAssumption DEF Live, IInv, PlaceInv
  <2>3. io_stopped'
    BY <2>1 DEF Next, WorkThread, MainLoop, Scheduler, Stop, Fiber, ClientPost,
       RemoteWake, StopIo, StopFlag, StopReturn, EnterRun, RunHandler,
       RunHandlerThrows, YieldMain, LeaveLoop, ReleaseTerminated, DispatchNext,
       ThreadExit, FiberPost, FiberAwait, FiberAwaitRemote, FiberFinish, stopping, vars
  <2>4. status'[t] = "live" /\ status'[u] = "queued"
    <3>1. CASE RunHandler
      BY <2>1, <3>1 DEF RunHandler, HandlerReady
    <3>2. CASE ReleaseTerminated
      <4>1. Head(terminated) \in Tasks /\ status[Head(terminated)] = "finished"
        BY <3>2, HeadTailRange DEF ReleaseTerminated, IInv, TerminatedInv, TypeOK
      <4> QED
        BY <2>2, <3>2, <4>1 DEF ReleaseTerminated, IInv, TypeOK
    <3>3. ASSUME NEW v \in Tasks, Enqueue(v)
          PROVE  status'[t] = "live" /\ status'[u] = "queued"
      BY <2>2, <3>3 DEF Enqueue, IInv, TypeOK
    <3>4. ASSUME NEW v \in Tasks, FiberFinish(v)
          PROVE  status'[t] = "live" /\ status'[u] = "queued"
      BY <2>2, <3>4 DEF FiberFinish, IInv, TypeOK
    <3>5. CASE StatusQuo
      BY <2>2, <3>5 DEF StatusQuo
    <3> QED
      BY <3>1, <3>2, <3>3, <3>4, <3>5, StatusCases DEF ClientPost, FiberPost
  <2>5. awaited'[t] = u
    <3>1. ASSUME NEW v \in Tasks, NEW w \in Tasks, FiberAwait(v, w)
          PROVE  awaited'[t] = u
      BY <2>2, <3>1 DEF FiberAwait, IInv, TypeOK
    <3>2. ASSUME NEW v \in Tasks, FiberFinish(v)
          PROVE  awaited'[t] = u
      BY <2>2, <3>2 DEF FiberFinish, IInv, TypeOK
    <3>3. CASE awaited' = awaited
      BY <3>3
    <3> QED
      BY <3>1, <3>2, <3>3
         DEF Next, WorkThread, MainLoop, Scheduler, Stop, Fiber, ClientPost,
         RemoteWake, StopIo, StopFlag, StopReturn, EnterRun, RunHandler,
         RunHandlerThrows, YieldMain, LeaveLoop, ReleaseTerminated, DispatchNext,
         ThreadExit, FiberPost, FiberAwaitRemote, waits, vars
  <2> QED
    BY <2>2, <2>3, <2>4, <2>5 DEF Stuck, Live
<1> QED
  BY <1>1, Invariance, PTL DEF Spec, StuckIsForever
=============================================================================
