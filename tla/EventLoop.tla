------------------------------ MODULE EventLoop ------------------------------
(***************************************************************************)
(* EventLoop<Network> of dispatcher.hpp: one io_context, one work thread,  *)
(* and a fiber for every task posted to it.                                *)
(*                                                                         *)
(* The work thread is a cooperative machine.  Its contexts are the thread  *)
(* function (Main, which runs the io_context), the Boost.Fiber dispatcher  *)
(* context, and the fibers of the tasks.  Exactly one of them, `cur`,      *)
(* executes; `ready` is the round-robin queue of the others that could.    *)
(* A fiber gives up the thread only when it waits for a future or ends.    *)
(* Every other thread of the program can post tasks and one of them calls  *)
(* Stop(); their steps interleave with the work thread's.                  *)
(*                                                                         *)
(* Task t stands for one call of Post.  A fiber that makes an async_call   *)
(* posts a task and holds its future: parent[u] = t says so, and t may     *)
(* wait for it.  Tasks in RemoteWaiters also wait once for something that  *)
(* another thread completes: a call on another network, or a deadline.     *)
(***************************************************************************)
EXTENDS Naturals, Sequences, Functions

CONSTANTS Tasks,          \* the tasks, one per call of Post
          RemoteWaiters,  \* those that wait for another thread once
          Main,           \* the work thread's own context
          Dispatcher,     \* the scheduler's dispatcher context
          None,           \* no context, no task
          HeapBlocks      \* stacks malloc can supply (bound, see MemoryPool)

ASSUME ContextAssumption ==
  /\ RemoteWaiters \subseteq Tasks
  /\ Main \notin Tasks /\ Dispatcher \notin Tasks /\ None \notin Tasks
  /\ Main # Dispatcher /\ Main # None /\ Dispatcher # None

ASSUME HeapAssumption == HeapBlocks \in Nat \ {0}

Contexts == Tasks \cup {Main, Dispatcher}

VARIABLES
  io_queue,      \* handlers the io_context has still to run
  status,        \* "new", "queued", "live", "finished", "released"
  parent,        \* the fiber that holds the task's future, if a fiber does
  awaited,       \* what a suspended fiber waits for: a task, Main (remote), None
  remote,        \* "unused", "pending", "arrived": the one remote wait of a task
  remote_ready,  \* fibers woken by another thread, not yet seen by Dispatcher
  terminated,    \* ended fibers whose stacks are not released yet
  ready,         \* the round-robin queue
  cur,           \* the context the work thread executes
  main_pc,       \* where the thread function is: "test", "run", "join", "done"
  io_stopped,    \* io_context_.stop() has been called
  stopped,       \* the atomic stopped_
  stop_pc,       \* where the caller of Stop() is
  first_use,     \* which thread_local came first: "none", "pool", "scheduler"
  aborted        \* std::terminate has been called

\* The stack pool of the work thread.
VARIABLES allocated_blocks, mallocs, sp, freed, lifetime, overrun

Pool == INSTANCE MemoryPool WITH Stacks <- Tasks

pool == <<allocated_blocks, mallocs, sp, freed, lifetime, overrun>>
stopping == <<io_stopped, stopped, stop_pc>>
tasks == <<io_queue, status, parent>>
waits == <<awaited, remote, remote_ready>>
sched == <<terminated, ready, cur>>
vars == <<tasks, waits, sched, main_pc, stopping, first_use, aborted, pool>>

Live == {t \in Tasks : status[t] = "live"}

Init ==
  /\ io_queue = <<>>
  /\ status = [t \in Tasks |-> "new"]
  /\ parent = [t \in Tasks |-> None]
  /\ awaited = [t \in Tasks |-> None]
  /\ remote = [t \in Tasks |-> "unused"]
  /\ remote_ready = <<>>
  /\ terminated = <<>>
  /\ ready = <<Dispatcher>>
  /\ cur = Main
  /\ main_pc = "test"
  /\ io_stopped = FALSE
  /\ stopped = FALSE
  /\ stop_pc = "idle"
  /\ first_use = "none"
  /\ aborted = FALSE
  /\ Pool!PoolInit

-----------------------------------------------------------------------------
\* boost::asio::post: the handler goes to the end of the io_context's queue,
\* also when the io_context is already stopped.
EnqueueFront(t) ==   \* mutant: the newest handler goes first
  /\ status[t] = "new"
  /\ io_queue' = <<t>> \o io_queue
  /\ status' = [status EXCEPT ![t] = "queued"]

Enqueue(t) ==
  /\ status[t] = "new"
  /\ io_queue' = Append(io_queue, t)
  /\ status' = [status EXCEPT ![t] = "queued"]

\* Post from a thread that is not the work thread.
ClientPost(t) ==
  /\ ~aborted
  /\ Enqueue(t)
  /\ UNCHANGED <<parent, waits, sched, main_pc, stopping, first_use, aborted, pool>>

\* A wake-up from another thread: set_value on another network, or a deadline.
RemoteWake(t) ==
  /\ ~aborted
  /\ remote[t] = "pending"
  /\ remote' = [remote EXCEPT ![t] = "arrived"]
  /\ remote_ready' = Append(remote_ready, t)
  /\ UNCHANGED <<tasks, awaited, sched, main_pc, stopping, first_use, aborted, pool>>

-----------------------------------------------------------------------------
\* Stop(): work_guard_.reset() and io_context_.stop() ...
StopIo ==
  /\ ~aborted
  /\ stop_pc = "idle"
  /\ io_stopped' = TRUE
  /\ stop_pc' = "flag"
  /\ UNCHANGED <<tasks, waits, sched, main_pc, stopped, first_use, aborted, pool>>

\* ... then stopped_ = true ...
StopFlagForgotten ==   \* mutant: stopped_ is never set
  /\ ~aborted
  /\ stop_pc = "flag"
  /\ stop_pc' = "join"
  /\ UNCHANGED <<tasks, waits, sched, main_pc, io_stopped, stopped, first_use, aborted, pool>>

StopFlag ==
  /\ ~aborted
  /\ stop_pc = "flag"
  /\ stopped' = TRUE
  /\ stop_pc' = "join"
  /\ UNCHANGED <<tasks, waits, sched, main_pc, io_stopped, first_use, aborted, pool>>

\* ... then work_thread_.join(), which returns when the thread has ended.
NotJoined == TRUE   \* mutant: the thread is not joined

Joined == main_pc = "done"

StopReturn ==
  /\ ~aborted
  /\ stop_pc = "join"
  /\ Joined
  /\ stop_pc' = "returned"
  /\ UNCHANGED <<tasks, waits, sched, main_pc, io_stopped, stopped, first_use, aborted, pool>>

-----------------------------------------------------------------------------
\* The loop condition while (!stopped_) holds: enter io_context_.run_until.
EnterRun ==
  /\ ~aborted
  /\ cur = Main /\ main_pc = "test"
  /\ ~stopped
  /\ main_pc' = "run"
  /\ UNCHANGED <<tasks, waits, sched, stopping, first_use, aborted, pool>>

\* run_until takes a handler if there is one and the io_context is not stopped.
AnyHandler == io_queue # <<>>   \* mutant: a stopped io_context still runs them

HandlerReady == ~io_stopped /\ io_queue # <<>>

\* It takes the oldest.  Its stack is allocated, the fiber is
\* dispatched at once and detached; Main waits in the round-robin queue.
RunHandler ==
  /\ ~aborted
  /\ cur = Main /\ main_pc = "run"
  /\ HandlerReady
  /\ LET t == Head(io_queue) IN
       /\ Pool!Allocate(t)
       /\ cur' = t
       /\ status' = [status EXCEPT ![t] = "live"]
  /\ io_queue' = Tail(io_queue)
  /\ ready' = Append(ready, Main)
  /\ first_use' = IF first_use = "none" THEN "pool" ELSE first_use
  /\ UNCHANGED <<parent, waits, terminated, main_pc, stopping, aborted>>

\* No stack for the fiber: bad_alloc leaves run_until and the thread function.
RunHandlerThrows ==
  /\ ~aborted
  /\ cur = Main /\ main_pc = "run"
  /\ HandlerReady
  /\ Pool!AllocateThrows
  /\ aborted' = TRUE
  /\ UNCHANGED <<tasks, waits, sched, main_pc, stopping, first_use, pool>>

\* this_fiber::yield(): the thread goes to the next context, Main queues up.
NoYield == UNCHANGED <<cur, ready>>   \* mutant: the loop does not yield

Yield == cur' = Head(ready) /\ ready' = Append(Tail(ready), Main)

\* run_until reaches its deadline (or the io_context is stopped) and the
\* thread function yields to the other contexts.
YieldMain ==
  /\ ~aborted
  /\ cur = Main /\ main_pc = "run"
  /\ main_pc' = "test"
  /\ Yield
  /\ first_use' = IF first_use = "none" THEN "scheduler" ELSE first_use
  /\ UNCHANGED <<tasks, waits, terminated, stopping, aborted, pool>>

\* thread_locals are destroyed in reverse order of construction: a pool that is
\* younger than the scheduler goes before it.
PoolAlwaysFirst == lifetime = "alive"   \* mutant: the pool always goes first

PoolBeforeScheduler == first_use = "scheduler" /\ lifetime = "alive"

\* stopped_ is seen.  The thread function returns, and the thread_locals are
\* destroyed; the scheduler's destructor lets Main join the dispatcher context.
LeaveLoop ==
  /\ ~aborted
  /\ cur = Main /\ main_pc = "test"
  /\ stopped
  /\ main_pc' = "join"
  /\ cur' = Head(ready)
  /\ ready' = Tail(ready)
  /\ IF PoolBeforeScheduler THEN Pool!Destroy ELSE UNCHANGED pool
  /\ UNCHANGED <<tasks, waits, terminated, stopping, first_use, aborted>>

-----------------------------------------------------------------------------
\* The dispatcher context first releases every ended fiber: its stack goes
\* back to the pool of the thread, through CustomStackAllocator::deallocate.
ReleaseTerminated ==
  /\ ~aborted
  /\ cur = Dispatcher
  /\ terminated # <<>>
  /\ LET t == Head(terminated) IN
       /\ status' = [status EXCEPT ![t] = "released"]
       /\ Pool!Deallocate(t) \/ Pool!DeallocateLate(t)
  /\ terminated' = Tail(terminated)
  /\ UNCHANGED <<io_queue, parent, waits, ready, cur, main_pc, stopping, first_use, aborted>>

\* It resumes nobody before all of them are released.
ReleaseLater == TRUE   \* mutant: ended fibers are released some other time

AllReleased == terminated = <<>>

\* Then it takes in the fibers other threads have woken and resumes the next
\* ready context.  With none ready it sleeps until a wake-up.
DispatchNext ==
  /\ ~aborted
  /\ cur = Dispatcher
  /\ AllReleased
  /\ LET woken == ready \o remote_ready IN
       /\ woken # <<>>
       /\ cur' = Head(woken)
       /\ ready' = Append(Tail(woken), Dispatcher)
  /\ remote_ready' = <<>>
  /\ UNCHANGED <<tasks, awaited, remote, terminated, main_pc, stopping, first_use, aborted, pool>>

\* At thread exit the dispatcher context ends once no fiber is left; a pool
\* older than the scheduler is destroyed after it.
ThreadExit ==
  /\ ~aborted
  /\ cur = Dispatcher /\ main_pc = "join"
  /\ terminated = <<>>
  /\ Live = {}
  /\ main_pc' = "done"
  /\ cur' = None
  /\ IF lifetime = "alive" THEN Pool!Destroy ELSE UNCHANGED pool
  /\ UNCHANGED <<tasks, waits, terminated, ready, stopping, first_use, aborted>>

-----------------------------------------------------------------------------
\* The task makes an async_call (or any post) on its own network.
FiberPost(t, u) ==
  /\ ~aborted
  /\ cur = t
  /\ Enqueue(u)
  /\ parent' = [parent EXCEPT ![u] = t]
  /\ UNCHANGED <<waits, sched, main_pc, stopping, first_use, aborted, pool>>

\* The fiber gives up the thread to the next ready context.
Suspend ==
  /\ ready # <<>>
  /\ cur' = Head(ready)
  /\ ready' = Tail(ready)

\* The task waits for the result of a task it posted and that has not ended.
FiberAwait(t, u) ==
  /\ ~aborted
  /\ cur = t
  /\ parent[u] = t
  /\ status[u] \in {"queued", "live"}
  /\ awaited' = [awaited EXCEPT ![t] = u]
  /\ Suspend
  /\ UNCHANGED <<tasks, remote, remote_ready, terminated, main_pc, stopping, first_use, aborted, pool>>

\* The task waits for another thread.
FiberAwaitRemote(t) ==
  /\ ~aborted
  /\ cur = t
  /\ t \in RemoteWaiters /\ remote[t] = "unused"
  /\ remote' = [remote EXCEPT ![t] = "pending"]
  /\ Suspend
  /\ UNCHANGED <<tasks, awaited, remote_ready, terminated, main_pc, stopping, first_use, aborted, pool>>

Waiting(t) == {w \in Tasks : awaited[w] = t}

\* Fulfilling the promise readies the fiber that waits for the future.
WakeNobody(t) == <<>>   \* mutant: the waiting fiber is not notified

Wake(t) == IF parent[t] \in Waiting(t) THEN <<parent[t]>> ELSE <<>>

\* The task returns: the promise is fulfilled, which makes the fiber that
\* waits for it ready, and the fiber ends.
FiberFinish(t) ==
  /\ ~aborted
  /\ cur = t
  /\ status' = [status EXCEPT ![t] = "finished"]
  /\ terminated' = Append(terminated, t)
  /\ awaited' = [w \in Tasks |-> IF awaited[w] = t THEN None ELSE awaited[w]]
  /\ LET rest == ready \o Wake(t) IN
       /\ rest # <<>>
       /\ cur' = Head(rest)
       /\ ready' = Tail(rest)
  /\ UNCHANGED <<io_queue, parent, remote, remote_ready, main_pc, stopping, first_use, aborted, pool>>

-----------------------------------------------------------------------------
Fiber(t) ==
  \/ \E u \in Tasks : FiberPost(t, u) \/ FiberAwait(t, u)
  \/ FiberAwaitRemote(t)
  \/ FiberFinish(t)

MainLoop == EnterRun \/ RunHandler \/ RunHandlerThrows \/ YieldMain \/ LeaveLoop

Scheduler == ReleaseTerminated \/ DispatchNext \/ ThreadExit

WorkThread == MainLoop \/ Scheduler \/ \E t \in Tasks : Fiber(t)

Stop == StopIo \/ StopFlag \/ StopReturn

Next ==
  \/ WorkThread
  \/ Stop
  \/ \E t \in Tasks : ClientPost(t) \/ RemoteWake(t)

Spec == Init /\ [][Next]_vars

-----------------------------------------------------------------------------
\* Every variable keeps its shape.
TypeOK ==
  /\ io_queue \in Seq(Tasks)
  /\ status \in [Tasks -> {"new", "queued", "live", "finished", "released"}]
  /\ parent \in [Tasks -> Tasks \cup {None}]
  /\ awaited \in [Tasks -> Tasks \cup {None}]
  /\ remote \in [Tasks -> {"unused", "pending", "arrived"}]
  /\ remote_ready \in Seq(Tasks)
  /\ terminated \in Seq(Tasks)
  /\ ready \in Seq(Contexts)
  /\ cur \in Contexts \cup {None}
  /\ main_pc \in {"test", "run", "join", "done"}
  /\ io_stopped \in BOOLEAN
  /\ stopped \in BOOLEAN
  /\ stop_pc \in {"idle", "flag", "join", "returned"}
  /\ first_use \in {"none", "pool", "scheduler"}
  /\ aborted \in BOOLEAN
  /\ Pool!PoolTypeOK

Scheduled(c) == c = cur \/ c \in Range(ready) \/ c \in Range(remote_ready)

\* A fiber that waits for a task the stopped loop will never begin.
Stuck ==
  \E t \in Live : /\ awaited[t] \in Tasks
                  /\ status[awaited[t]] = "queued"
                  /\ io_stopped

\* The dispatcher context has nothing to resume and nothing to release.
Asleep ==
  cur = Dispatcher /\ ready = <<>> /\ remote_ready = <<>> /\ terminated = <<>>

\* No wake-up is lost: a live fiber is executing, or queued to execute, or it
\* waits for a task that has not ended, or for a thread that has not answered
\* (FiberFinish readies the waiting fiber in the step that fulfils its future).
\* Nor do fibers wait for each other in a circle: when the thread sleeps with
\* fibers left, another thread owes an answer, or the stopped loop has a task
\* in its queue that a fiber waits for (async_call, stop() and get()).
NoLostWakeup ==
  /\ \A t \in Live :
       \/ Scheduled(t)
       \/ awaited[t] \in Tasks /\ status[awaited[t]] \in {"queued", "live"}
       \/ remote[t] = "pending"
  /\ \A S \in SUBSET Live : S # {} => \E t \in S : awaited[t] \notin S
  /\ Asleep /\ Live # {} => Stuck \/ \E t \in Tasks : remote[t] = "pending"

\* Whenever the thread function executes, the stacks of all ended fibers are
\* back in the pool.  The dispatcher context always comes right before Main in
\* the round-robin order, so the pool holds no more blocks than there were
\* unfinished fibers at one time, however many tasks are posted.
StacksBackBeforeMain == cur = Main => terminated = <<>>

\* bad_alloc ends the program only when every block malloc can supply is under
\* a fiber that has not ended: no block is idle, leaked or still unreleased.
ExhaustionIsReal ==
  aborted => \A b \in Pool!Blocks : \E t \in Live : sp[t] = b

\* A live fiber has a stack, and no two fibers ever run on the same block.
StacksDisjoint ==
  /\ \A t \in Live : sp[t] # 0
  /\ Pool!NoSharedBlock

\* When Stop() returns, no task is left half-way: it ended and its stack was
\* released, or it never began.  (The scheduler, destroyed with the thread,
\* runs the remaining fibers to their end before join() can return.)
NoFiberLeftBehind ==
  stop_pc = "returned" =>
    /\ Live = {} /\ terminated = <<>>
    /\ \A t \in Tasks : sp[t] = 0

\* A stack comes back to a destroyed pool only if the thread yielded before it
\* ran its first task and a fiber outlived the loop: when the first task came
\* before the first yield, the pool outlives the scheduler and every fiber.
PoolOutlivesFibers ==
  overrun => first_use = "scheduler" /\ main_pc \in {"join", "done"}

\* Once a fiber waits for a task that was still queued when the io_context
\* stopped, it waits for ever: nothing restarts the io_context, and the promise
\* is destroyed only with the io_context, after the join.
StuckIsForever == [][Stuck => Stuck']_vars

\* The event loop implements the abstract executor: tasks begin in posting
\* order, at most once, not after the io_context stopped, and Stop() returns
\* only when nothing is half-way.
Exec == INSTANCE TaskExecutor WITH
          pending   <- io_queue,
          begun     <- Live,
          completed <- {t \in Tasks : status[t] \in {"finished", "released"}},
          closed    <- io_stopped,
          quiescent <- stop_pc = "returned"

ImplementsExecutor == Exec!ExecSpec

-----------------------------------------------------------------------------
\* The operating system runs the work thread, and a task's code eventually
\* waits or returns.  run_until executes a ready handler before its deadline,
\* so a queue that is non-empty again and again is served (SF): between two
\* handlers Main may lose the thread to fibers or leave and re-enter run_until.
\* A thread inside Stop() proceeds, and other threads answer remote waits.
Fairness ==
  /\ WF_vars(WorkThread)
  /\ SF_vars(RunHandler \/ RunHandlerThrows)
  /\ WF_vars(StopFlag)
  /\ WF_vars(StopReturn)
  /\ \A t \in Tasks : WF_vars(RemoteWake(t))

FairSpec == Spec /\ Fairness

\* A posted task runs to its end, unless the loop is stopped or the program
\* dies: neither earlier tasks nor suspended fibers can starve it.
PostedCompletes ==
  \A t \in Tasks :
    status[t] = "queued" ~> (status[t] = "released" \/ io_stopped \/ aborted)

\* A task that began runs to its end even when the loop is stopped meanwhile,
\* unless from some time on a fiber waits for a task that the stopped loop will
\* never begin.
BegunCompletes ==
  \A t \in Tasks :
    status[t] = "live" ~> (status[t] = "released" \/ []Stuck \/ aborted)

\* Stop() returns, except when a fiber waits for a queued task: then the work
\* thread never ends and Stop() hangs in join().  That is the only way to hang.
StopReturnsUnlessStuck ==
  stop_pc = "flag" ~> (stop_pc = "returned" \/ []Stuck \/ aborted)
=============================================================================
