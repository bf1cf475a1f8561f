# Verification of function_dispatcher

TLA+ models of `include/dispatcher.hpp` and `include/dispatcher_test.hpp`, the
TLC configurations that check them on small instances, and TLAPS proofs of their
safety for every size.

Run a check with `tlc -config X.cfg M` and a proof module with `tlapm M.tla`.

## 1. The system

The library lets components call each other, publish events and set timers
through types ("signatures") instead of objects. All state is static: one
registry entry per signature, one signal per event, one event loop per network.

| Part (lines of `dispatcher.hpp`) | State | Operations | Interacts with |
|---|---|---|---|
| `FunctionDispatcher` (127-161, 449-549) | a `std::function` per signature | `attach`, `detach`, `call`, `async_call` | `async_call` posts to `EventLoop` |
| `MemoryPool`, `CustomStackAllocator` (163-236) | thread_local queue of stack blocks | `allocate`, `free`, destructor | `EventLoop` launches fibers on its blocks |
| `EventLoop` (238-306) | `io_context`, work thread, fibers, `stopped_` | `Post`, `Stop`, the thread's loop | everything asynchronous |
| `EventDispatcher` (321-349, 551-688) | a `boost::signals2` signal per event | `subscribe`, `expect`, `publish` | emissions are posted tasks |
| `Timer`, `MockableClock` (351-420, 737-833) | a deadline timer; an optional settable clock | `DoIn`, `DoEvery`, `Cancel`, `advance_time` | handlers run on the loop, callbacks are posted |
| Test framework (`dispatcher_test.hpp`) | expectations per signature, `Sequence` per thread | builders, matching, `InSequence`, `TearDown` | attaches and subscribes expecters |
| Static objects (127-132, 321-326, 301-306) | function-local statics: registry entries, signals, loops | constructed on first use, destroyed by `exit()` in reverse order | fibers of several loops use all of them |
| `set_worker_threads` (713-735), signature traits (28-105) | none | | not modelled, see section 8 |

What is hard here:

- One work thread runs the thread function, the Boost.Fiber dispatcher and all
  task fibers cooperatively, while other threads post, wake fibers and call
  `Stop()` (interleaving, lost wake-ups, starvation, shutdown order).
- Stacks come from a pool whose lifetime is that of a `thread_local`.
- Emissions and calls may be suspended and overlap. What was looked up, connected
  or attached when they were requested may have changed when they run.
- Timer completions, cancellation, re-arming and new requests race.
- The test framework keeps thread_local state and matches on two threads, and
  what it attached, its sequence and the stopped loop outlive the fixture.
- `exit()` destroys signals, functions and loops one by one while the fibers of
  the loops that are left still use them.

`PROJECT.json` lists each hazard at its line with the properties that cover it.

## 2. What makes each part correct

- **Pool**: no block is under two fibers, queued twice, freed in use, or leaked.
- **Event loop**: tasks begin in posting order, at most once; a waiting fiber is
  woken; stacks are back before the next task needs one; posted tasks complete;
  `Stop()` returns, and leaves no task half-way.
- **Calls**: an asynchronous call is answered; `NoHandler` blames the right
  signature.
- **Events**: whoever is subscribed when an event is published hears it, once,
  in order; a future from `expect` is fulfilled once.
- **Timer**: no callback earlier than the whole milliseconds of its duration, none
  twice, none lost; a destroyed timer is left
  alone; a repeating request never multiplies.
- **Test framework**: the verdict says what happened; order is enforced; a
  sequence never blocks itself; no fixture ends under a callback of the Default
  network's worker.
- **Networks**: no fiber meets a destroyed object that was there before its loop;
  a loop that is destroyed leaves nobody waiting for it; `exit()` ends.

## 3. Modules

| Module | Models |
|---|---|
| `MemoryPool` | the pool: `Reuse`/`Malloc`/`AllocateThrows` are the branches of `allocate`, `Deallocate`/`DeallocateLate` is `free` before and after `Destroy` (`~MemoryPool`) |
| `TaskExecutor` | the abstract promise of an event loop: a FIFO of pending tasks, begun and completed sets, `Close`, `Quiesce` |
| `EventLoop` | the work thread as a cooperative machine; contains a `MemoryPool` (`Pool`) and implements `TaskExecutor` (`Exec`) |
| `Calls` | the registry and the stack of calls of each task or thread, on a `TaskExecutor` |
| `Events` | connections, `expect` in its two steps, emissions, on a `TaskExecutor` |
| `Timer` | one timer object, the clock, and the loop's handler queue |
| `Expectations` | builders, expectations, matching, sequences and the fixtures of the tests of one process |
| `Networks` | a whole program: several loops, the statics, `Stop()` and `exit()`; each loop implements a `TaskExecutor` |
| `Examples` | two programs of `example/` as programs of `Networks` |
| `MC*` | instances for TLC |
| `SequenceLemmas`, `*Proofs` | theorems and proofs |

Definitions commented "mutant" are deliberately wrong variants of the definition
that follows them, each a plausible slip in the code. They are used nowhere;
`PROJECT.json` "mutants" says which property fails when the variant takes the
definition's place. Some are variants of what Boost does (`SkipOne`,
`Wake`...): the code relies on it, and the property is about the code.

### EventLoop

`cur` is the context that executes, `ready` Boost.Fiber's round-robin queue,
`main_pc` the thread function's place (`while (!stopped_)` is "test",
`run_until` is "run", the destruction of thread_locals is "join"). `RunHandler`
is the lambda that `Post` gives to the `io_context`: allocate a stack, dispatch
the fiber at once, detach it. A fiber posts (`FiberPost`), waits for a task it
posted (`FiberAwait`), waits once for another thread (`FiberAwaitRemote`), and
ends (`FiberFinish`). Ended fibers stay in `terminated` until the dispatcher
context releases them. `Stop()` is three steps of another thread: `StopIo`,
`StopFlag`, `StopReturn`. Boost.Asio and Boost.Fiber are modelled from their
behaviour as the code uses it; those definitions are marked external in the map.

`first_use` records whether the thread first allocated a stack or first
yielded, which decides the order in which the pool and the fiber scheduler are
destroyed. If `Stop()` comes before the first iteration neither exists, and the
steps of the join are empty: the model then walks through them with empty queues.

### Calls, Events

Both put their tasks on `TaskExecutor` rather than on `EventLoop`; the theorem
`LoopImplementsExecutor` and the run `event_loop_live` justify that. Handlers and
slots may be suspended anywhere their code could wait, so that tasks interleave.

In `Calls`, `origin` and `cause` remember where an exception came from: the call
of an empty function, a handler that lets its own `bad_function_call` escape, or
something else.

A slot of `Events` is connected once. An emission starts with the signal's whole
list of slots and skips the disconnected ones as it gets to them. `Connect` and
`StoreConnection` are separate only for an `expect` on another thread, because on
the work thread no emission can come between the two statements.

### Timer

A call of `DoIn` or `DoEvery` is two steps, `ExpiresFromNow` (which aborts armed
waits) and `AsyncWait`, so that another thread can come in between (`raced`
records it). The re-arming call inside `DoEvery`'s handler is the same two steps
by the loop's thread. `Expire` is the reactor that queues the handlers of due
waits: between it and the handler, everything else may happen. `now` is
`MockableClock::now()`; it moves forward by one or two ticks at a time,
whether `advance_time` or real time moves it. `Duration[r]` is what the program
passes, in ticks of which `Milli` make a millisecond; any natural number, zero
included. `Interval(r)` is what is left of it after `duration_cast` to
milliseconds, and what the timer waits for. A Timer has no `Stop()`: its loop is
taken to live as long as it does.

### Expectations

A statement such as `DISPATCHER_EXPECT_CALL(F, a).Times(2).WillOnce(f)` is the
actions `Expect`, `Times`, `WillOnce`, `EndStatement` (the builder's destructor).
`Match` is the loop of an expecter and `validate`. Calls are matched on the thread
that makes them, which may be the worker of any network (`Others`), because a
handler belongs to no network. Events are matched by `Deliver` on the worker of
the Default network, to which every expecter subscribes. A worker's callback may still be
executing (`executing`) while the test goes on. `TearDown`, which stops and joins
the Default network's loop only, `TearDownReturns` and
`DestroyFixture` end a test, `NextTest` begins another in the same process. What
lives longer than a fixture is kept: the test thread's `Sequence`, the stopped
loop, the loops of other networks, which run on, and the signatures an expecter
was attached to (`registered`). `MayCall` says when each thread can still call:
fibers of the Default network go on while `Stop()` waits for them. `stale`
collects the uses of something destroyed, with the thread that makes them.
`asked` is what the builder recorded: `Times(2).WillOnce(f)` asks for one match. Returned values, default behaviour and
messages have no influence on the verdict and are left out.

### Networks

An actor is main or a task, which has a fiber of its network's loop once it has
begun. Each executes a script of library operations: "use" a function, signal or
loop, "post" (`async_call`, `publish`, `post`), "get" the result, "emit",
"expect", "hear" (wait for the future), "stop", "exit". What handlers and
subscribers do is part of the script of the task that calls them. Looking up a
static constructs it (`born` is the order of construction); after `Exit` they are
destroyed youngest first. `DestroyLoop` closes the loop and waits for its fibers,
which go on using what is left, and may construct more (`late`);
`LoopDestroyed` breaks the promises of what was still queued. `fault` is the first
thing that goes wrong: a destroyed static is used ("dangling"), a
`broken_promise` is thrown into a fiber ("broken"), a work thread joins itself,
or a second thread calls `exit()`. `exit()` occupies the thread that calls it:
if that is a work thread, the other fibers of its loop come to a halt.

## 4. Runs

| Run | Instance | Shows |
|---|---|---|
| `memory_pool` | 5 stacks, 4 blocks | the pool's safety under any order of operations |
| `event_loop` | 4 tasks, 2 of which wait for another thread, 3 stacks | the safety invariants of the loop |
| `event_loop_live` | 3 tasks, 2 stacks | liveness, refinement of `TaskExecutor` |
| `calls` | 2 signatures, 1 task, 1 client, 3 calls or throws each | who is blamed by `NoHandler`, async calls are answered |
| `calls_async` | 2 tasks, no client | finding, section 5 |
| `events` | 2 publications, a waiting subscriber, an expecter on each thread | delivery, order, one-shot expecters, fulfilment |
| `events_abort` | the same | finding |
| `timer` | one DoEvery (1½ ms), two DoIn (½ ms and 2 ms), loop and one other thread, clock to 2 ms in steps of ½ and 1 ms | chains, early or doubled runs, destruction, punctuality, every request runs |
| `timer_latest` | the same requests, loop thread only | finding |
| `expectations` | 2 statements, 2 modifiers each, 2 calls or events, spread over up to 2 tests, the Default network's worker and one other | ranks, order, verdict, the end of a fixture |
| `expectations_order` | 3 events in one test | finding |
| `networks` | 2 loops, 2 signals, 4 tasks, two examples and every small program | the order of destruction, broken promises, which programs exit cleanly, the end of `exit()`, refinement of `TaskExecutor` |

Why the bounds are enough. In the loop, three tasks already give a parent, a
child it waits for, and an unrelated task; with more tasks than stacks the
exhaustion branch is reached, and `HeapBlocks` bounds what malloc supplies. For
events, two emissions can overlap in each slot. For timers, the races need one
repeating request, one other request and two threads; until `MaxNow` a repeating
request can fire twice, each time ahead of the duration it was given, a DoIn below
a millisecond fires at once, and one of whole milliseconds to the tick. A DoEvery
below a millisecond is not in the instance: it runs without end at one instant, so
its number of runs has no bound. The proofs cover it. `ClockTooShort` in `RequestRuns` excludes only waits
whose deadline lies beyond `MaxNow`. For sequences, two
calls or events suffice to meet two statements in the wrong order, to exceed a
statement, or to leave one of `Times(2)` unfinished, with ranks that the next one
must skip over; a second test is what a leftover of the first can reach. That ranks
and order stay right over more calls is proved. For networks, the programs are all those in
which main executes up to three operations, the first task up to two and another
loop's task up to two, a future is waited for by whoever got it, and no task is
posted twice: enough for fibers of both loops that post to and wait for each
other while either loop is stopped, destroyed, or not yet constructed.

`CHECK_DEADLOCK FALSE` everywhere: each of these programs may stop, be shut down
or come to rest, and the models cap their inputs.

Fairness. `EventLoop`: the operating system runs the work thread
(`WF(WorkThread)`) and the callers of `Stop()`; `run_until` runs ready handlers
before its deadline, so a queue that is non-empty again and again is served even
though Main leaves `run_until` and yields in between (`SF(RunHandler)`). User code
eventually waits or returns. `Events`, `Calls`, `Timer`: the loop makes progress,
a thread inside a call finishes it, and the clock advances. `Networks`: main, the
thread that exits, and each loop and each of its fibers go on when they can
(`PostedCompletes` and `BegunCompletes` of `EventLoop`).

## 5. What the runs found

Each is a violation run and an entry of `PROJECT.json` "findings".

1. `expect` on a thread other than the loop's: an event between connect and the
   assignment of the connection leaves the slot connected, and the next event
   ends the program (`events_abort`).
2. `DoIn` after a `DoEvery` whose wait has completed is aborted by the re-arming
   (`timer_latest`).
3. `async_call` without handler ends the program; its doc says it throws
   (`calls_async`).
4. `InSequence` does not order events (`expectations_order`).

More is characterised by properties that hold, with their exceptions spelt out:

- `Stop()` hangs exactly when a fiber waits for a task still queued
  (`StopReturnsUnlessStuck`; that such a fiber waits for ever, `StuckIsForever`, is
  proved). When the work thread sleeps with fibers left, they wait for another
  thread or for such a task; they never wait for each other in a circle
  (`NoLostWakeup`);
- a destroyed pool is touched only if the thread yielded before its first task
  and a fiber outlived the loop (`PoolOutlivesFibers`);
- `call` reports a handler's own `bad_function_call` as `NoHandler`; whatever the
  nesting, it names the innermost call it came from (`BlameIsInnermost`);
- a destroyed `Timer` is used only if a completed `DoEvery` wait was still to be
  handled or a call was in progress (`QuietDestroyIsSafe`);
- `DoIn` and `DoEvery` cut any duration to whole milliseconds
  (`dispatcher.hpp:790-791` and `820-821`), so a callback comes up to 1 ms before "the
  specified duration has elapsed" (`dispatcher.hpp:772`), and a `DoEvery` gains as
  much in each of its runs. `DoIn(1500us)` runs after 1 ms; `DoEvery(500us)` runs
  without a pause and keeps its loop busy for good. `NeverEarly` and `Punctual` hold
  of the duration that is left (`Interval`), and the lemma `IntervalCuts` says that
  the cut is less than a millisecond and nothing of a whole number of them. The
  repository's tests and examples use whole milliseconds;
- a repeating request keeps its interval as long as the clock does not move past
  work the loop has still to do (`Punctual`; `late` records that it did). The
  test `RecurrentTimerTest` relies on that: it advances the clock three times and
  trusts that the loop re-arms within the 1.1 ms that `advance_time` sleeps;
- `TearDown` stops the loop after 10 ms whatever is queued, so a forbidden event
  may go unnoticed: `VerdictIsRight` promises to report it only if the loop got
  to the end of its queue;
- `TearDown` stops and joins the Default network's loop and no other
  (`dispatcher_test.hpp:667`). So the Default network's worker is never in an
  expectation whose fixture is destroyed, and never reaches an expecter of one; but
  a worker of another network may do both, because handlers belong to no network
  and the lambda an expecter attached (`dispatcher_test.hpp:326`) stays attached. The
  test itself may reach a destroyed expecter, when it calls a signature that only an
  earlier test expected; and any worker may be in an expectation that the test
  clears (`FixtureEndIsSafe`);
- a sequence left unfinished by one test halts the sequences of the next
  (`SequenceProceeds`);
- at exit, a fiber can meet a destroyed signal, function or loop, or a broken
  promise, only if that object is younger than the fiber's own loop, or the loop
  was constructed during the exit (`OnlyYoungerAreMissed`). Main meets such a thing
  only if a handler called `exit()`;
- a program that attaches, subscribes and touches the loops it calls before the
  loops that use them, and whose tasks do not call `exit()`, exits cleanly
  (`PreparedExitsCleanly`). `Prepared` looks only at the scripts of the tasks and the
  order of construction so far: it may become true at any time before the exit,
  and what main does afterwards does not matter;
- `exit()` ends unless a fiber waits in vain: for a task that is queued on a
  stopped loop, for a fiber of the loop whose thread called `exit()`, or for an
  event on a signal that is still to be destroyed (`ExitEnds`). A handler that
  calls `exit()` makes its work thread join itself; this is one of the faults that
  `ExitEnds` names. The fibers of several loops never hang by waiting for each
  other (`HangsOnlyInVain`).

## 6. Proofs

The theorems hold for all constants that satisfy the modules' named assumptions:
model values are distinct (main is neither a task nor a static), bounds and
durations are natural numbers, a millisecond is at least one tick,
malloc supplies at least one block. Every `IInv`, and every addition to it named
below, was also checked by TLC as an invariant of the module's run; in each proof
module one lemma (or one step) per action shows that it is preserved.

- `MemoryPoolProofs`: `PoolInv` is inductive, hence `PoolTypeCorrect`,
  `StacksNeverShared`, `NoStackLeaked`. `PoolInv` adds to the properties that every
  known block was returned by malloc, and that only a destroyed pool has freed
  blocks.
- `EventLoopProofs`: `LoopUsesPool` shows that every step of the loop is a step
  of the pool or leaves it alone, so the pool's theorems hold in the loop. The
  inductive invariant `IInv` has these parts:
  - `QueueInv`: the io queue holds each queued task once;
  - `TerminatedInv`, `StackInv`: a task has a stack exactly while live or ended
    and unreleased;
  - `PlaceInv`: each context is in one place of the scheduler at most;
  - `AwaitInv`: who waits for whom, and that nobody waits for an ended task;
  - `RingInv`: in the round-robin queue the dispatcher comes right before Main;
    without it `StacksBackBeforeMain` is not inductive, nor is
    `OnlyRealExhaustion`, which rests on it;
  - `StopInv`, `AbortInv`: where `Stop()` and the thread function may be, and
    what holds when the program dies.

  `NoLostWakeup` says in addition that live fibers do not wait in a circle. That
  rests on `LineageInv`: nobody holds the future of a task that is not posted yet,
  so of any set of posted tasks one, the youngest, holds the future of none of
  the others. `LeaveInv` relates `Stop()` to the thread's leaving of
  its loop; with both, `WakeupsKept` shows why a sleeping thread still has fibers.

  From these follow all the safety invariants of run `event_loop`, `StuckStaysStuck`,
  and `LoopImplementsExecutor` (the initial state maps to an initial state; posts,
  begins, completions, close and quiesce map to the abstract actions, all other
  steps to stuttering).
- `NetworksProofs`: `OrderOfConstruction`, `NoFutureOutlivesItsLoop`, `CleanExit`,
  `NoOtherWayToHang` and `ImplementsExecutors`, for any number of loops, statics and tasks and any set of
  programs. The parts of `IInv` say that a static is constructed once and only
  the youngest are dead, but for those constructed late (`BornInv`), which loop is being destroyed and what is
  already gone by then (`EndingInv`, `PhaseInv`), that a loop with tasks has been
  constructed, a dead one has no fibers, and each task is queued once (`LoopInv`,
  `QueueInv`), and whose promises are broken (`BrokenInv`).

  `CleanExit` is `PreparedExitsCleanly`. Before the exit nothing is late or faulty
  (`RunningInv`); from a prepared state on, `Settled` is inductive: what a task has
  still to look up is not destroyed, because it is older than the task's loop.

  `NoOtherWayToHang` is the safety core of `ExitEnds`: if `exit()` waits for fibers and
  no loop can begin a task or resume a fiber, then a fiber waits in vain. Its
  hypothesis `OwnFutures` says that a task waits only for tasks it posted (as every
  caller of `async_call` does); all programs of run `networks` satisfy it. `HoldInv`
  is `LineageInv` for all loops at once, and `HopeInv` says that nobody hopes for an
  event on a destroyed signal. `HangsOnlyInVain` is in no run, because `ExitEnds`
  covers it on the instance.
- `EventsProofs`: `NobodyMissesAnEvent`, `EventsInOrder`, `ExpectHearsOnce`. The
  central parts of `IInv` are `EmissionInv` (what an emission has called and
  what it has still to call differ, and are connected), `AudienceInv`
  (a member of the audience is told, still to be visited, or disconnected),
  `HeldInv` and `OvertakenInv` (an emission that began earlier and is not over is
  held in a slot) and `ExpecterInv`.
- `CallsProofs`: `BlameIsRight`, from `QueueInv` (a queued task has a signature to call),
  `DepthInv` (nobody is deeper in calls than it has made) and `CauseInv` (a
  `bad_function_call` in flight is one that a handler threw).
- `TimerProofs`: all the safety invariants of `Timer`. `PlaceInv` says that a
  request is armed, being called, or waiting for its handler, and that its
  callback is not queued behind its next handler; `AccountInv` that the runs a
  request has had and those that are queued, times its interval, fit into the
  time since its call, which gives `CallbacksAreNotEarly`; `LatestInv` makes the
  account exact for the last request as long as the loop keeps up, which gives
  `LatestIsPunctual`; `CallInv` and `DestroyInv` give `QuietDestroy`; `KeptInv`, that
  each step hands a request on to its next place unless it aborts it, gives the
  second half of `OneChain`: no request is lost; `GoneInv`, that what was aborted is
  in no place, gives the part that none comes back. `IntervalCuts` relates an
  interval to its duration.
- `ExpectationsProofs`: `RanksAreHandedOutOnce`, `SequencesProceed`,
  `StatementsInOrder`, `VerdictsAreRight`, `FixturesEndSafely`. `RankInv` says that the expectations
  that wait own disjoint intervals of ranks, between the current one and the next
  to hand out, in the order of their statements; `GaplessInv` that these intervals
  leave no gap unless an expectation was lost; `MetInv` relates what was met to
  them; `WorkerInv` says that no worker's sequence is ever switched on, `BuilderInv`
  and `EndInv` where builder and test can be. `EndInv` is what `FixturesEndSafely` rests
  on: once `TearDown` has returned, the Default network's worker is in no callback
  (`Joined`), and in later tests its loop is `closed`.
  The verdict needs `VerdictInv` (`AccountIsKept`): for each statement, the matches it
  got and those its expectations still wait for add up to what it asked for,
  unless the test reported a missing one (`Balanced`); what is left is counted as
  the cardinality of a set of units, so that no induction over data is needed;
  `OwnInv` says whose the expectations are, and `ReportInv` that what is forbidden is
  reported or still in the queue.
- `SequenceLemmas`: facts about `Append`, `Tail` and positions in a sequence,
  cited by the other proof modules.

Only model-checked:

- liveness (`PostedCompletes`, `BegunCompletes`, `StopReturnsUnlessStuck`,
  `AsyncCallAnswered`, `ExpectIsFulfilled`, `RequestRuns`, `ExitEnds`): the prover
  has no ENABLED, in which fairness is defined. What the proofs give of them is
  that the system comes to rest only in the states that these properties except:
  `WakeupsKept` for `Stop()`, `NoOtherWayToHang` for `exit()`.

Every safety property that a run checks is proved.

## 7. Plan

Done: the modules above, their runs, and proofs of all their safety properties.

Left, in this order:

1. `Calls`: the lifetime of a handler that is detached or replaced while it runs.
2. `MockableClock`: `set_now` with an earlier time, and what it does to a wait.
3. `Networks`: a caller that catches `broken_promise` and goes on.

## 8. Not modelled

- `set_worker_threads` does not compile when used (`SetWorkerThreadsAmount` does
  not exist), so there is never more than one work thread per loop.
- `EventLoop::memory_pool_` is never used.
- The signature traits are decided by the compiler.
- Data races on `std::function`, on the optional clock and on the expectation
  vectors: accesses are atomic in the models; the hazards say so. Tests whose
  callbacks or later statements add expectations while the worker matches belong
  here too.
- A handler's callable that is replaced while it runs: what happens depends on
  what the callable captures.
- A clock that goes back: `set_now` with an earlier time, or, without manual time,
  a `system_clock` that is corrected (`dispatcher.hpp:371`). Negative durations.
- `Times` with a negative number (`dispatcher_test.hpp:528` accepts it):
  `WillRepeatedly` then hands ranks back.
- Two threads that match calls or events at the same moment: `validate` is not
  synchronised, and the model makes each match one step. The loops of networks
  other than Default are, in `Expectations`, threads that call.
- The size of stacks, exceptions thrown by slots.
- Two threads that join one loop at the same time, and user code that catches a
  `broken_promise`: `Networks` treats the latter as a fault of the program.
- The examples other than `events.cpp` and `expect.cpp` call the library from main
  alone or only wait for time to pass; they have no behaviour of their own.
- Benchmark, build and documentation files.

