---------------------------- MODULE Expectations ----------------------------
(***************************************************************************)
(* The test framework of dispatcher_test.hpp: the statements that build    *)
(* expectations, the expecters that match calls and events with them,      *)
(* InSequence, and the fixture's end; for the tests of one process, one    *)
(* after the other, each with a fixture of its own.                        *)
(*                                                                         *)
(* The test body runs on the thread Test; calls it makes are matched there.*)
(* Events are matched on Worker, the thread of the Default network's loop  *)
(* (an expecter subscribes to no other), in the order they were published, *)
(* and so are the calls its tasks make.  A handler belongs to no network:  *)
(* tasks on the loops of other networks, the threads Others, call too, and *)
(* TearDown neither stops nor joins those.  Each thread has its own        *)
(* Sequence (thread_local), which outlives a test.  So do the loop, once   *)
(* stopped, and the handlers and slots that the expecters of a destroyed   *)
(* fixture have registered.                                                *)
(*                                                                         *)
(* A matcher is the set of arguments it accepts.  All expectations of a    *)
(* test are set before the first call or publish in it, and a call or an   *)
(* event is matched in one step: the expecters synchronise neither         *)
(* add_expectation nor the matching of two threads.                        *)
(***************************************************************************)
EXTENDS Integers, Sequences, SequencesExt

CONSTANTS Calls,          \* the call signatures
          Events,         \* the event signatures
          Args,           \* the arguments of a call or event
          Matchers,       \* the matchers the test uses
          Test, Worker,   \* the test's thread and that of the Default network's loop
          Others,         \* the threads of other networks' loops
          None,           \* no statement under construction
          MaxTests,       \* tests in the process (bound)
          MaxStatements,  \* expectation statements in all of them (bound)
          MaxTimes,       \* argument of Times (bound)
          MaxActs         \* calls and publishes in all of them (bound)

Sigs == Calls \cup Events
Workers == {Worker} \cup Others
Threads == {Test} \cup Workers

ASSUME ExpectationsAssumption ==
  /\ Calls \cap Events = {}
  /\ Matchers \subseteq SUBSET Args
  /\ Test \notin Workers /\ Worker \notin Others
  /\ MaxTests \in Nat \ {0}
  /\ {MaxStatements, MaxTimes, MaxActs} \subseteq Nat

VARIABLES
  sequence,   \* sequence[th]: the thread_local Sequence
  remaining,  \* remaining[s]: the expecter's expectations, oldest first
  forbidden,  \* forbidden[s]: the matchers of Times(0)
  builder,    \* the statement under construction, or None
  registered, \* registered[s]: the tests whose expecter of s is registered
  queue,      \* published events the loop has not matched
  executing,  \* <<w, s>>: worker w executes the callback of an expectation of s
  closed,     \* the Default network's loop is stopped
  test,       \* the test that runs
  phase,      \* "arrange", "act", "stopping", "stopped", "over"
  unexpected, \* a failure "Unexpected call" / "Event was not expected"
  missing     \* a failure "Still expecting n calls"

\* History: what the properties talk about.
VARIABLES
  statements, \* number of statements so far
  before,     \* number of statements of earlier tests
  acts,       \* number of calls and publishes so far
  asked,      \* asked[i]: the matches statement i asks for
  taken,      \* taken[i]: the matches it got
  met,        \* statements met while an InSequence is alive, in order
  strayed,    \* a ranked expectation was met without looking at its rank
  failed,     \* an earlier test reported a missing call
  offended,   \* a call or event of this test is forbidden
  stale       \* <<how, th>>: thread th used something cleared or destroyed

expecters == <<remaining, forbidden>>
loop == <<queue, executing, closed>>
running == <<test, phase>>
failures == <<unexpected, missing>>
matches == <<taken, met, strayed>>
history == <<statements, before, acts, asked, matches, failed, offended, stale>>
vars == <<sequence, expecters, registered, builder, loop, running, failures, history>>

Unranked == -1

Statements == 1..MaxStatements

Init ==
  /\ sequence = [th \in Threads |-> [next |-> 0, current |-> 0, on |-> FALSE]]
  /\ remaining = [s \in Sigs |-> <<>>]
  /\ forbidden = [s \in Sigs |-> {}]
  /\ builder = None
  /\ registered = [s \in Sigs |-> {}]
  /\ queue = <<>> /\ executing = {} /\ closed = FALSE
  /\ test = 1 /\ phase = "arrange"
  /\ unexpected = FALSE /\ missing = FALSE
  /\ statements = 0 /\ before = 0 /\ acts = 0
  /\ asked = [i \in Statements |-> 0]
  /\ taken = [i \in Statements |-> 0]
  /\ met = <<>> /\ strayed = FALSE
  /\ failed = FALSE /\ offended = FALSE /\ stale = {}

-----------------------------------------------------------------------------
\* InSequence: its constructor and destructor only switch the flag.
BeginSequence ==
  /\ phase = "arrange" /\ builder = None
  /\ ~sequence[Test].on
  /\ sequence' = [sequence EXCEPT ![Test].on = TRUE]
  /\ UNCHANGED <<expecters, registered, builder, loop, running, failures, history>>

EndSequence ==
  /\ phase \in {"arrange", "act"} /\ builder = None
  /\ sequence[Test].on
  /\ sequence' = [sequence EXCEPT ![Test].on = FALSE]
  /\ UNCHANGED <<expecters, registered, builder, loop, running, failures, history>>

-----------------------------------------------------------------------------
\* DISPATCHER_EXPECT_CALL or DISPATCHER_EXPECT_EVENT: the builder object.  It
\* creates the signature's expecter unless the fixture has one; the expecter
\* attaches a handler, which replaces the last, or subscribes one more slot.
Expect(s, want) ==
  /\ phase = "arrange" /\ builder = None
  /\ statements < MaxStatements
  /\ statements' = statements + 1
  /\ builder' = [sig |-> s, want |-> want, times |-> 1, chain |-> 0]
  /\ registered' = [registered EXCEPT ![s] = IF s \in Calls THEN {test} ELSE @ \cup {test}]
  /\ UNCHANGED <<sequence, expecters, loop, running, failures, before, acts, asked, matches,
                 failed, offended, stale>>

OneRank(count) == IF count > 0 THEN 1 ELSE 0   \* mutant: one rank per expectation

RanksFor(count) == count

\* The constructor of CallExpectation or EventExpectation takes as many ranks
\* as it expects matches, and add_expectation appends it.
AddExpectation(count) ==
  LET s == builder.sig
      q == sequence[Test]
      e == [statement |-> statements, want |-> builder.want, left |-> count,
            rank |-> IF q.on THEN q.next ELSE Unranked]
  IN /\ remaining' = [remaining EXCEPT ![s] = Append(@, e)]
     /\ sequence' = IF q.on
                    THEN [sequence EXCEPT ![Test].next = @ + RanksFor(count)]
                    ELSE sequence
     /\ asked' = [asked EXCEPT ![statements] = @ + count]

\* A chain has one or two of the modifiers (bound).
Chained(times) ==
  /\ builder # None
  /\ builder.chain < 2
  /\ builder' = [builder EXCEPT !.times = times, !.chain = @ + 1]

\* (Negative numbers, with which WillRepeatedly would hand ranks back, are left
\* out.)
Times(n) ==
  /\ Chained(n)
  /\ forbidden' = IF n = 0
                  THEN [forbidden EXCEPT ![builder.sig] = @ \cup {builder.want}]
                  ELSE forbidden
  /\ UNCHANGED <<sequence, remaining, registered, loop, running, failures, history>>

WillOnce ==
  /\ Chained(0)
  /\ AddExpectation(1)
  /\ UNCHANGED <<forbidden, registered, loop, running, failures, statements, before, acts, matches,
                 failed, offended, stale>>

WillRepeatedly ==
  /\ Chained(0)
  /\ AddExpectation(builder.times)
  /\ UNCHANGED <<forbidden, registered, loop, running, failures, statements, before, acts, matches,
                 failed, offended, stale>>

\* The builder's destructor adds the expectation no modifier has added.
EndStatement ==
  /\ builder # None
  /\ IF builder.times > 0 THEN AddExpectation(builder.times)
                          ELSE UNCHANGED <<remaining, sequence, asked>>
  /\ builder' = None
  /\ UNCHANGED <<forbidden, registered, loop, running, failures, statements, before, acts, matches,
                 failed, offended, stale>>

-----------------------------------------------------------------------------
Ranked(e) == e.rank # Unranked

\* The rank counts only on a thread whose sequence is switched on.
InOrder(e, th) ==
  Ranked(e) /\ sequence[th].on => e.rank = sequence[th].current

RankIgnored(e, arg, th) == e.left # 0 /\ arg \in e.want   \* mutant: any order

Exhausted(e, arg, th) == arg \in e.want /\ InOrder(e, th)   \* mutant: no count test

\* CallExpectation::validate and EventExpectation::validate, their tests.
Validates(e, arg, th) == e.left # 0 /\ arg \in e.want /\ InOrder(e, th)

RankKept(rank) == rank   \* mutant: rank_in_sequence stays

NextRank(rank) == rank + 1

LeftKept(left) == left   \* mutant: expected_calls_left stays

OneLess(left) == left - 1

\* The matchers of Times(0) report a call or event they accept.
Forbidden(s, arg) == \E m \in forbidden[s] : arg \in m

\* The expecter goes through its expectations and the first that validates
\* takes the call or event, and its callback is executed: on a worker, that
\* takes until CallbackReturns.  None may validate: an event is then ignored,
\* and a call is answered by the default behaviour or throws NoHandler.
Match(s, arg, th) ==
  LET i == SelectInSeq(remaining[s], LAMBDA e : Validates(e, arg, th))
      e == remaining[s][i]
      counts == Ranked(e) /\ sequence[th].on
  IN /\ unexpected' = (unexpected \/ Forbidden(s, arg))
     /\ IF i = 0
        THEN UNCHANGED <<remaining, sequence, matches, executing>>
        ELSE /\ remaining' = [remaining EXCEPT
                  ![s][i].left = OneLess(@),
                  ![s][i].rank = IF counts THEN NextRank(@) ELSE @]
             /\ sequence' = IF counts
                            THEN [sequence EXCEPT ![th].current = @ + 1]
                            ELSE sequence
             /\ taken' = [taken EXCEPT ![e.statement] = @ + 1]
             /\ met' = IF Ranked(e) /\ sequence[Test].on
                       THEN Append(met, e.statement) ELSE met
             /\ strayed' = (strayed \/ (Ranked(e) /\ ~counts))
             /\ executing' = IF th = Test THEN executing ELSE executing \cup {<<th, s>>}

\* A call or event, when no statement is under construction.
Acts ==
  /\ builder = None
  /\ acts < MaxActs
  /\ acts' = acts + 1
  /\ phase' = IF phase = "arrange" THEN "act" ELSE phase

\* Begun tasks of the Default network go on until Stop() has joined its thread,
\* which is in the first test; those of other networks go on at any time.
MayCall(th) ==
  \/ th = Test /\ phase \in {"arrange", "act"}
  \/ th = Worker /\ (~closed \/ (phase = "stopping" /\ test = 1))
  \/ th \in Others

\* The tests whose fixture is destroyed.
Gone == 1..(IF phase = "over" THEN test ELSE test - 1)

\* A handler or slot that a destroyed fixture has left behind.
LeftBehind(s) == registered[s] \cap Gone # {}

\* The test, or a task or event handler on a loop, calls a signature.
Call(th, c, arg) ==
  /\ Acts /\ MayCall(th)
  /\ ~LeftBehind(c)
  /\ Match(c, arg, th)
  /\ offended' = (offended \/ Forbidden(c, arg))
  /\ UNCHANGED <<forbidden, registered, builder, queue, closed, test, missing, statements,
                 before, asked, failed, stale>>

\* The same, when the handler is a lambda of a destroyed expecter: no later test
\* expected the signature.
CallLeftBehind(th, c) ==
  /\ Acts /\ MayCall(th)
  /\ LeftBehind(c)
  /\ stale' = stale \cup {<<"called", th>>}
  /\ UNCHANGED <<sequence, expecters, registered, builder, loop, test, failures, statements,
                 before, asked, matches, failed, offended>>

\* An event is published to the Default network.
Publish(ev, arg) ==
  /\ Acts /\ phase \in {"arrange", "act"}
  /\ queue' = Append(queue, [sig |-> ev, arg |-> arg])
  /\ offended' = (offended \/ Forbidden(ev, arg))
  /\ UNCHANGED <<sequence, expecters, registered, builder, executing, closed, test, failures,
                 statements, before, asked, matches, failed, stale>>

\* The event reaches its expecters on the loop's thread.
Deliver ==
  /\ phase = "act" /\ ~closed
  /\ queue # <<>>
  /\ LET ev == Head(queue).sig IN
       /\ Match(ev, Head(queue).arg, Worker)
       /\ stale' = IF LeftBehind(ev) THEN stale \cup {<<"called", Worker>>} ELSE stale
  /\ queue' = Tail(queue)
  /\ UNCHANGED <<forbidden, registered, builder, closed, running, missing, statements, before,
                 acts, asked, failed, offended>>

CallbackReturns(w, s) ==
  /\ <<w, s>> \in executing
  /\ executing' = executing \ {<<w, s>>}
  /\ UNCHANGED <<sequence, expecters, registered, builder, queue, closed, running, failures, history>>

-----------------------------------------------------------------------------
\* ~CallExpectation, ~EventExpectation: a failure when matches are left.
Unmet(s) == \E i \in DOMAIN remaining[s] : remaining[s][i].left # 0

\* DISPATCHER_VERIFY_AND_CLEAR_EXPECTATIONS, of a signature the test expects.
VerifyAndClear(c) ==
  /\ phase \in {"arrange", "act"} /\ builder = None
  /\ test \in registered[c]
  /\ missing' = (missing \/ Unmet(c))
  /\ remaining' = [remaining EXCEPT ![c] = <<>>]
  /\ forbidden' = [forbidden EXCEPT ![c] = {}]
  /\ stale' = stale \cup {<<"cleared", w>> : w \in {o \in Workers : <<o, c>> \in executing}}
  /\ UNCHANGED <<sequence, registered, builder, loop, running, unexpected, statements, before,
                 acts, asked, matches, failed, offended>>

\* The test's body ends, and with it its InSequence.  TearDown sleeps 10 ms,
\* however much is queued, and stops the Default network's loop ...
TearDown ==
  /\ phase \in {"arrange", "act"} /\ builder = None
  /\ phase' = "stopping"
  /\ closed' = TRUE
  /\ sequence' = [sequence EXCEPT ![Test].on = FALSE]
  /\ UNCHANGED <<expecters, registered, builder, queue, executing, test, failures, history>>

\* ... whose Stop() joins its thread, and so waits for the callbacks there.
NotJoined == TRUE   \* mutant: it does not wait for the thread

Joined == \A s \in Sigs : <<Worker, s>> \notin executing

TearDownReturns ==
  /\ phase = "stopping"
  /\ Joined
  /\ phase' = "stopped"
  /\ UNCHANGED <<sequence, expecters, registered, builder, loop, test, failures, history>>

\* The fixture's destructor destroys the expecters and their expectations; a
\* worker that is in the callback of one runs on in a destroyed object.
DestroyFixture ==
  /\ phase = "stopped"
  /\ phase' = "over"
  /\ missing' = (missing \/ \E s \in Sigs : Unmet(s))
  /\ remaining' = [s \in Sigs |-> <<>>]
  /\ forbidden' = [s \in Sigs |-> {}]
  /\ stale' = stale \cup {<<"destroyed", w>> : w \in {o[1] : o \in executing}}
  /\ executing' = {}
  /\ UNCHANGED <<sequence, registered, builder, queue, closed, test, unexpected, statements, before,
                 acts, asked, matches, failed, offended>>

\* The next test of the process: a new fixture, the same threads.
NextTest ==
  /\ phase = "over" /\ test < MaxTests
  /\ test' = test + 1 /\ phase' = "arrange"
  /\ unexpected' = FALSE /\ missing' = FALSE
  /\ before' = statements
  /\ failed' = (failed \/ missing)
  /\ offended' = FALSE
  /\ UNCHANGED <<sequence, expecters, registered, builder, loop, statements, acts, asked, matches, stale>>

Next ==
  \/ BeginSequence \/ EndSequence
  \/ \E s \in Sigs, want \in Matchers : Expect(s, want)
  \/ \E n \in 0..MaxTimes : Times(n)
  \/ WillOnce \/ WillRepeatedly \/ EndStatement
  \/ \E th \in Threads, c \in Calls, arg \in Args : Call(th, c, arg)
  \/ \E th \in Threads, c \in Calls : CallLeftBehind(th, c)
  \/ \E ev \in Events, arg \in Args : Publish(ev, arg)
  \/ Deliver
  \/ \E w \in Workers, s \in Sigs : CallbackReturns(w, s)
  \/ \E c \in Calls : VerifyAndClear(c)
  \/ TearDown \/ TearDownReturns \/ DestroyFixture \/ NextTest

Spec == Init /\ [][Next]_vars

-----------------------------------------------------------------------------
Expectation == [statement : Statements, want : Matchers, left : Nat,
                rank : Nat \cup {Unranked}]

\* Every variable keeps its shape.
TypeOK ==
  /\ sequence \in [Threads -> [next : Nat, current : Nat, on : BOOLEAN]]
  /\ remaining \in [Sigs -> Seq(Expectation)]
  /\ forbidden \in [Sigs -> SUBSET Matchers]
  /\ builder \in [sig : Sigs, want : Matchers, times : 0..MaxTimes \cup {1}, chain : 0..2]
                 \cup {None}
  /\ queue \in Seq([sig : Events, arg : Args])
  /\ registered \in [Sigs -> SUBSET (1..MaxTests)] /\ executing \subseteq Workers \X Sigs
  /\ closed \in BOOLEAN /\ test \in 1..MaxTests
  /\ phase \in {"arrange", "act", "stopping", "stopped", "over"}
  /\ unexpected \in BOOLEAN /\ missing \in BOOLEAN /\ strayed \in BOOLEAN
  /\ failed \in BOOLEAN /\ offended \in BOOLEAN
  /\ stale \subseteq {"called", "cleared", "destroyed"} \X Threads
  /\ statements \in 0..MaxStatements /\ before \in 0..statements /\ acts \in 0..MaxActs
  /\ asked \in [Statements -> Nat] /\ taken \in [Statements -> Nat]
  /\ met \in Seq(Statements)

\* The expectations that have a rank, each named by its place.
Places == UNION {{s} \X DOMAIN remaining[s] : s \in Sigs}
At(p) == remaining[p[1]][p[2]]
RankedPlaces == {p \in Places : Ranked(At(p))}

\* The ranks an expectation still waits for.
Owed(p) == At(p).rank .. At(p).rank + At(p).left - 1

\* No two expectations ever wait for the same rank, and each waits for ranks
\* that were handed out and have not passed: over repeated matches, cleared
\* expecters, and sequences that end and begin again.
RanksAreUnique ==
  \A p, q \in RankedPlaces :
    /\ Owed(p) \subseteq sequence[Test].current .. sequence[Test].next - 1
    /\ p # q => Owed(p) \cap Owed(q) = {}

\* A sequence never comes to a halt by itself, not even over several tests:
\* while a rank is to come, the expectation that waits for it exists.  It does
\* halt, for all later tests too, after an expectation was met without
\* advancing the sequence, or was destroyed unmet.
SequenceProceeds ==
  ~strayed /\ ~missing /\ ~failed =>
    UNION {Owed(p) : p \in RankedPlaces}
      = sequence[Test].current .. sequence[Test].next - 1

Ordered(s) == \A i, j \in DOMAIN s : i <= j => s[i] <= s[j]

\* Calls of one thread, under one InSequence, meet their expectations in the
\* order of the statements.
OrderKept == ~strayed => Ordered(met)

\* What InSequence says: as long as it is alive, calls and events meet their
\* expectations in the order of the statements.
InSequenceOrders == Ordered(met)

\* The test's verdict on its expectations is right: it reports a missing call
\* exactly when some statement got fewer matches than it asked for, and none
\* ever gets more.  It reports a forbidden call or event only if there was one,
\* and always when the loop got to the end of its queue in the 10 ms it had.
VerdictIsRight ==
  /\ \A i \in Statements : taken[i] <= asked[i]
  /\ unexpected => offended
  /\ phase = "over" =>
       /\ missing <=> \E i \in before + 1 .. MaxStatements : taken[i] < asked[i]
       /\ queue = <<>> /\ offended => unexpected

\* The Default network's worker is safe from the end of a fixture: no
\* expectation is destroyed while that worker executes its callback, and it
\* never reaches an expecter of a destroyed fixture.  What is destroyed is used
\* only by the test itself, when it calls a signature that only an earlier test
\* expected, and by workers of other networks, whose loops nobody has stopped;
\* and any worker may be in an expectation that the test clears.
FixtureEndIsSafe ==
  \A u \in stale : \/ u[1] = "called" /\ u[2] # Worker
                   \/ u[1] = "destroyed" /\ u[2] \in Others
                   \/ u[1] = "cleared" /\ u[2] \in Workers
=============================================================================
