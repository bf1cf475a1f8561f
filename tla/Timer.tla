-------------------------------- MODULE Timer --------------------------------
(***************************************************************************)
(* Timer<Network> of dispatcher.hpp on top of MockableClock.  One Timer    *)
(* object; each request is one call of DoIn or (if Repeating) of DoEvery.  *)
(*                                                                         *)
(* A call is expires_from_now, which aborts the waits that are armed, then *)
(* async_wait, which arms one.  Both the loop's thread and another thread  *)
(* may call, and nothing in Timer keeps their calls apart.  When the wait  *)
(* completes, its handler runs on the loop: it posts the callback, and     *)
(* DoEvery's handler also makes the call again.                            *)
(***************************************************************************)
EXTENDS Naturals, Sequences, SequencesExt

CONSTANTS Requests,    \* the calls of DoIn and DoEvery the program makes
          Repeating,   \* those that are calls of DoEvery
          Duration,    \* Duration[r]: the duration request r is given, in ticks
          Milli,       \* the ticks of the clock in a millisecond
          Loop,        \* the event loop's thread
          Clients,     \* the other threads that use the timer
          None,        \* no request
          MaxNow       \* the clock stops here (bound)

ASSUME TimerAssumption ==
  /\ Repeating \subseteq Requests
  /\ Duration \in [Requests -> Nat]
  /\ Milli \in Nat \ {0}
  /\ Loop \notin Clients
  /\ None \notin Requests
  /\ MaxNow \in Nat

Threads == Clients \cup {Loop}

VARIABLES
  now,        \* MockableClock::now()
  expiry,     \* the expiry time stored in timer_
  waits,      \* the armed waits, oldest first
  deadline,   \* when the reactor completes them
  io_queue,   \* handlers and posted callbacks the loop has still to run
  step,       \* step[th]: "idle", before "expire", before "arm"
  doing,      \* doing[th]: the request th is making the call for
  destroyed,  \* "no"; "quiet" or "busy": what the loop was doing at ~Timer
  dangling    \* a destroyed Timer was used

\* History: what the properties talk about.
VARIABLES
  issued,     \* requests made
  start,      \* start[r]: the time of the call
  runs,       \* runs[r]: how often r's callback ran
  dropped,    \* requests whose wait was aborted
  wanted,     \* the last request, unless Cancel was called after it
  raced,      \* two threads' calls overlapped
  late        \* the clock moved past work that the loop had still to do

timer == <<expiry, waits, deadline>>
calls == <<step, doing>>
history == <<issued, start, runs, dropped, wanted, raced, late>>
vars == <<now, timer, io_queue, calls, destroyed, dangling, history>>

Init ==
  /\ now = 0
  /\ expiry = 0 /\ waits = <<>> /\ deadline = 0
  /\ io_queue = <<>>
  /\ step = [th \in Threads |-> "idle"]
  /\ doing = [th \in Threads |-> None]
  /\ destroyed = "no" /\ dangling = FALSE
  /\ issued = {} /\ dropped = {} /\ wanted = None
  /\ raced = FALSE /\ late = FALSE
  /\ start = [r \in Requests |-> 0]
  /\ runs = [r \in Requests |-> 0]

-----------------------------------------------------------------------------
\* An entry of io_queue: a wait handler with its error code, or a callback.
Entry(what, r) == [what |-> what, req |-> r]

Entries(what, rs) == [i \in DOMAIN rs |-> Entry(what, rs[i])]

\* timer_.cancel(), also part of expires_from_now: the handler of every armed
\* wait is queued with operation_aborted.  Completed waits are out of reach.
AbortLatest ==   \* mutant: the latest request is aborted, be it armed or not
  /\ io_queue' = Append(io_queue, Entry("aborted", wanted))
  /\ dropped' = dropped \cup {wanted}
  /\ waits' = <<>>

AbortWaits ==
  /\ io_queue' = io_queue \o Entries("aborted", waits)
  /\ dropped' = dropped \cup ToSet(waits)
  /\ waits' = <<>>

\* Another thread is between expires_from_now and async_wait.
Overlaps(th) == \E o \in Threads \ {th} : step[o] = "arm"

Race(th) == raced' = (raced \/ Overlaps(th))

\* duration_cast<milliseconds>: what is less than a millisecond is cut off, so a
\* short duration is none.
Interval(r) == (Duration[r] \div Milli) * Milli

\* expires_from_now(duration), the first half of the call for request r.
ExpiresFromNow(th, r) ==
  /\ AbortWaits
  /\ expiry' = now + Interval(r)
  /\ step' = [step EXCEPT ![th] = "arm"]
  /\ doing' = [doing EXCEPT ![th] = r]
  /\ Race(th)
  /\ UNCHANGED <<now, deadline, dangling, late>>

\* A program's call of DoIn or DoEvery.  The guard on `now` is a bound: the
\* clock can still reach the expiry.
Request(th, r) ==
  /\ ~dangling /\ destroyed = "no"
  /\ step[th] = "idle"
  /\ r \notin issued
  /\ now + Interval(r) <= MaxNow
  /\ ExpiresFromNow(th, r)
  /\ issued' = issued \cup {r}
  /\ start' = [start EXCEPT ![r] = now]
  /\ wanted' = r
  /\ UNCHANGED <<destroyed, runs>>

\* async_wait, the second half: a wait that finds others armed completes with
\* them, whatever expiry says by now.
AsyncWait(th) ==
  /\ ~dangling /\ destroyed = "no"
  /\ step[th] = "arm"
  /\ waits' = Append(waits, doing[th])
  /\ deadline' = IF waits = <<>> THEN expiry ELSE deadline
  /\ step' = [step EXCEPT ![th] = "idle"]
  /\ doing' = [doing EXCEPT ![th] = None]
  /\ Race(th)
  /\ UNCHANGED <<now, expiry, io_queue, destroyed, dangling, issued, start, runs, dropped, wanted, late>>

\* Timer::Cancel.
Cancel(th) ==
  /\ ~dangling /\ destroyed = "no"
  /\ step[th] = "idle"
  /\ AbortWaits
  /\ wanted' = None
  /\ Race(th)
  /\ UNCHANGED <<now, expiry, deadline, calls, destroyed, dangling, issued, start, runs, late>>

\* A handler that will use the timer object: the completed wait of a DoEvery.
Rearming == \E i \in DOMAIN io_queue :
              io_queue[i].what = "expired" /\ io_queue[i].req \in Repeating

\* ~Timer: the timer_ member's destructor cancels.
Destroy(th) ==
  /\ ~dangling /\ destroyed = "no"
  /\ step[th] = "idle"
  /\ AbortWaits
  /\ wanted' = None
  /\ destroyed' = IF Rearming \/ \E o \in Threads : step[o] # "idle"
                  THEN "busy" ELSE "quiet"
  /\ Race(th)
  /\ UNCHANGED <<now, expiry, deadline, calls, dangling, issued, start, runs, late>>

\* A call goes on in, or a handler calls, a Timer that no longer exists.
UseDestroyed(th) ==
  /\ ~dangling /\ destroyed # "no"
  /\ step[th] # "idle"
  /\ dangling' = TRUE
  /\ UNCHANGED <<now, timer, io_queue, calls, destroyed, history>>

-----------------------------------------------------------------------------
\* The loop has nothing to do at this time.
Settled ==
  /\ io_queue = <<>>
  /\ \A th \in Threads : step[th] = "idle"
  /\ waits # <<>> => deadline > now

\* The clock moves: real time passes by any number of ticks, advance_time adds
\* whole milliseconds.
Advance(d) ==
  /\ ~dangling
  /\ now + d <= MaxNow
  /\ now' = now + d
  /\ late' = (late \/ ~Settled \/ (waits # <<>> /\ now + d > deadline))
  /\ UNCHANGED <<timer, io_queue, calls, destroyed, dangling, issued, start, runs, dropped, wanted, raced>>

DueEarly == deadline <= now + 1   \* mutant: the reactor rounds the wait down

Due == deadline <= now

\* The loop's thread looks at the clock, and queues the waits that are due.
Expire ==
  /\ ~dangling
  /\ step[Loop] = "idle"
  /\ waits # <<>>
  /\ Due
  /\ io_queue' = io_queue \o Entries("expired", waits)
  /\ waits' = <<>>
  /\ UNCHANGED <<now, expiry, deadline, calls, destroyed, dangling, history>>

\* ec != operation_aborted
NotChecked(h) == TRUE   \* mutant: the handler ignores its error code

OnlyAborted(h) == h.what = "aborted"   \* mutant: the test is inverted

NotAborted(h) == h.what = "expired"

\* The loop runs the oldest handler: an aborted one does nothing; the others
\* post the callback, and DoEvery's goes on to call DoEvery again.
RunHandler ==
  /\ ~dangling
  /\ step[Loop] = "idle"
  /\ io_queue # <<>>
  /\ LET h == Head(io_queue) IN
       /\ h.what \in {"expired", "aborted"}
       /\ IF NotAborted(h)
          THEN /\ io_queue' = Append(Tail(io_queue), Entry("callback", h.req))
               /\ IF h.req \in Repeating
                  THEN /\ step' = [step EXCEPT ![Loop] = "expire"]
                       /\ doing' = [doing EXCEPT ![Loop] = h.req]
                  ELSE UNCHANGED calls
          ELSE io_queue' = Tail(io_queue) /\ UNCHANGED calls
  /\ UNCHANGED <<now, timer, destroyed, dangling, history>>

RearmInPlace ==   \* mutant: the handler waits again without a new expiry
  /\ ~dangling /\ destroyed = "no"
  /\ step[Loop] = "expire"
  /\ step' = [step EXCEPT ![Loop] = "arm"]
  /\ UNCHANGED <<now, timer, io_queue, doing, destroyed, dangling, history>>

\* DoEvery's handler calls DoEvery.
Rearm ==
  /\ ~dangling /\ destroyed = "no"
  /\ step[Loop] = "expire"
  /\ ExpiresFromNow(Loop, doing[Loop])
  /\ UNCHANGED <<destroyed, issued, start, runs, wanted>>

\* The loop runs a posted callback.
RunCallback ==
  /\ ~dangling
  /\ step[Loop] = "idle"
  /\ io_queue # <<>>
  /\ Head(io_queue).what = "callback"
  /\ runs' = [runs EXCEPT ![Head(io_queue).req] = @ + 1]
  /\ io_queue' = Tail(io_queue)
  /\ UNCHANGED <<now, timer, calls, destroyed, dangling, issued, start, dropped, wanted, raced, late>>

-----------------------------------------------------------------------------
LoopStep == Expire \/ RunHandler \/ Rearm \/ RunCallback

Next ==
  \/ LoopStep
  \/ \E th \in Threads :
       \/ \E r \in Requests : Request(th, r)
       \/ AsyncWait(th)
       \/ Cancel(th)
       \/ Destroy(th)
       \/ UseDestroyed(th)
  \/ \E d \in {1, 2} : Advance(d)

Spec == Init /\ [][Next]_vars

-----------------------------------------------------------------------------
QueueEntry == [what : {"expired", "aborted", "callback"}, req : Requests]

\* Every variable keeps its shape.
TypeOK ==
  /\ now \in 0..MaxNow
  /\ expiry \in Nat /\ deadline \in Nat
  /\ waits \in Seq(Requests)
  /\ io_queue \in Seq(QueueEntry)
  /\ step \in [Threads -> {"idle", "expire", "arm"}]
  /\ doing \in [Threads -> Requests \cup {None}]
  /\ destroyed \in {"no", "quiet", "busy"} /\ dangling \in BOOLEAN
  /\ issued \subseteq Requests /\ dropped \subseteq Requests
  /\ start \in [Requests -> 0..MaxNow]
  /\ runs \in [Requests -> Nat]
  /\ wanted \in Requests \cup {None}
  /\ raced \in BOOLEAN /\ late \in BOOLEAN

\* Where request r is between its call and the last run of its callback.
Armed(r) == {<<"armed", i>> : i \in {j \in DOMAIN waits : waits[j] = r}}
Calling(r) == {<<"calling", th>> : th \in {o \in Threads : doing[o] = r}}
Handled(r) == {<<"queued", i>> : i \in {j \in DOMAIN io_queue :
                 io_queue[j] = Entry("expired", r)}}

\* A DoEvery never multiplies: a request is in one place at most - being
\* called, armed, or completed and waiting for its handler - however the calls
\* of several threads, Cancel and the handlers interleave.  A request whose
\* wait was aborted does not come back.  Nor is one lost: unless its wait was
\* aborted it is in such a place, or it is a DoIn whose callback is posted or
\* has run.
OneChain ==
  \A r \in Requests :
    LET places == Armed(r) \cup Calling(r) \cup Handled(r) IN
      /\ \A p, q \in places : p = q
      /\ r \in dropped => places = {}
      /\ r \in issued \ dropped =>
           \/ places # {}
           \/ r \notin Repeating /\ (runs[r] > 0 \/ Entry("callback", r) \in ToSet(io_queue))

\* As long as no two threads' calls overlap, at most one wait is armed: the
\* timer serves one request at a time.
OneWaitAtATime == ~raced => Len(waits) <= 1

\* A callback is early by no more than what duration_cast cuts off: n runs take
\* n intervals of whole milliseconds, so the k-th comes less than k milliseconds
\* before k durations are over, and DoIn runs its callback once.  Overlapping
\* calls void this: the one thread's async_wait is then armed with the other's
\* expiry.
NeverEarly ==
  ~raced => \A r \in Requests :
    /\ runs[r] * Interval(r) <= now - start[r]
    /\ r \notin Repeating => runs[r] <= 1

\* Destroying a timer is safe unless a completed DoEvery wait has its handler
\* still to run, or a call is in progress: aborted handlers and queued
\* callbacks never touch the Timer object again.
QuietDestroyIsSafe == dangling => destroyed = "busy"

\* What the timer promises of the request made last: it is not dropped unless
\* the program cancels or destroys the timer.
LatestRequestKept == wanted \notin dropped

\* As long as the clock never moves past work the loop has still to do, nor
\* calls overlap, the latest request is punctual: when the loop has caught up,
\* DoEvery's callback has run once per interval of whole milliseconds, and
\* DoIn's once if that is over.  (A late loop loses ticks: an interval begins
\* when the handler re-arms.  With an interval of none a DoEvery keeps the loop
\* busy for good.)
Punctual ==
  ~late /\ ~raced /\ Settled /\ wanted # None /\ wanted \notin dropped =>
    LET elapsed == now - start[wanted] IN
      IF wanted \in Repeating
      THEN /\ runs[wanted] * Interval(wanted) <= elapsed
           /\ elapsed < (runs[wanted] + 1) * Interval(wanted)
      ELSE runs[wanted] = IF Interval(wanted) <= elapsed THEN 1 ELSE 0

-----------------------------------------------------------------------------
\* Time passes, the loop's thread runs what is ready, and a thread that has
\* begun a call finishes it.
Fairness ==
  /\ WF_vars(\E d \in {1, 2} : Advance(d))
  /\ WF_vars(LoopStep)
  /\ \A th \in Threads : WF_vars(AsyncWait(th))

FairSpec == Spec /\ Fairness

\* The bounded clock stops before the armed waits are due (an artefact of
\* MaxNow: an overlapping DoEvery has moved the expiry past it).
ClockTooShort == waits # <<>> /\ deadline > MaxNow

\* Every request's callback runs, unless its wait was aborted by Cancel, by
\* ~Timer or by a later call, or the timer was destroyed.
RequestRuns ==
  \A r \in Requests :
    r \in issued ~> \/ runs[r] > 0 \/ r \in dropped \/ destroyed # "no"
                    \/ r \in ToSet(waits) /\ ClockTooShort
=============================================================================
