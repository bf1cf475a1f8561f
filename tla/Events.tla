------------------------------- MODULE Events -------------------------------
(***************************************************************************)
(* The events of dispatcher.hpp: subscribe, expect and publish of one      *)
(* EventSignature.  publish posts an emission to the event loop; when it   *)
(* begins, the signal takes the slots connected at that time and calls     *)
(* them one after the other, in connection order, skipping those that are  *)
(* disconnected by then.  A slot may wait, which gives the work thread   *)
(* to other emissions, so several can be in progress.                      *)
(*                                                                         *)
(* expect() is a slot that disconnects itself and fulfils a promise.  It   *)
(* connects the slot first and stores the connection for it afterwards; on *)
(* a thread other than the work thread an emission can come in between.    *)
(*                                                                         *)
(* The event loop is the abstract TaskExecutor, which EventLoop implements.*)
(***************************************************************************)
EXTENDS Naturals, Sequences, SequencesExt

CONSTANTS Publications,    \* the calls of publish
          Subscribers,     \* the calls of subscribe
          Expecters,       \* the calls of expect
          ClientExpecters, \* those made on another thread than the loop's
          Waiting,         \* the slots whose callable waits once per call
          None             \* no slot, no emission

Slots == Subscribers \cup Expecters

ASSUME EventsAssumption ==
  /\ Subscribers \cap Expecters = {}
  /\ ClientExpecters \subseteq Expecters
  /\ Waiting \subseteq Slots
  /\ None \notin Slots /\ None \notin Publications

VARIABLES
  slots,         \* every slot ever connected, in connection order
  disconnected,  \* those disconnected since
  stored,        \* expecters whose connection variable is assigned
  rest,          \* rest[p]: the slots emission p has still to call
  within,        \* within[p]: the slot emission p is calling, or None
  active,        \* the emission that executes, or None
  fulfilled,     \* expecters whose promise is fulfilled
  aborted        \* an exception left a fiber: std::terminate

\* The event loop.
VARIABLES pending, begun, completed, closed, quiescent

Loop == INSTANCE TaskExecutor WITH Tasks <- Publications

\* History: what the properties talk about.
VARIABLES
  published,     \* the publications, in the order of the publish calls
  audience,      \* audience[p]: the slots connected when p was published
  told,          \* told[p]: the slots emission p has called
  held,          \* <<p, s>>: emission p was suspended in slot s
  early          \* expecters called before their connection was stored

signal == <<slots, disconnected, stored>>
emission == <<rest, within, active>>
loop == <<pending, begun, completed, closed, quiescent>>
history == <<published, audience, told, held, early>>
vars == <<signal, emission, fulfilled, aborted, loop, history>>

Init ==
  /\ slots = <<>> /\ disconnected = {} /\ stored = {}
  /\ rest = [p \in Publications |-> <<>>]
  /\ within = [p \in Publications |-> None]
  /\ active = None
  /\ fulfilled = {} /\ aborted = FALSE
  /\ Loop!ExecInit
  /\ published = <<>>
  /\ audience = [p \in Publications |-> {}]
  /\ told = [p \in Publications |-> <<>>]
  /\ held = {} /\ early = {}

Connected == ToSet(slots) \ disconnected

-----------------------------------------------------------------------------
\* The connection is stored in the same step, except by an expect on another
\* thread: on the work thread no emission comes between the two.
StoredLater(s) == stored   \* mutant: the connection is always stored later

StoredAtOnce(s) == IF s \in ClientExpecters THEN stored ELSE stored \cup {s}

\* subscribe, and expect up to the assignment of its connection.
Connect(s) ==
  /\ ~aborted
  /\ s \notin ToSet(slots)
  /\ slots' = Append(slots, s)
  /\ stored' = StoredAtOnce(s)
  /\ UNCHANGED <<disconnected, emission, fulfilled, aborted, loop, history>>

\* *connection = ..., on another thread.
StoreConnection(s) ==
  /\ ~aborted
  /\ s \in ToSet(slots) \ stored
  /\ stored' = stored \cup {s}
  /\ UNCHANGED <<slots, disconnected, emission, fulfilled, aborted, loop, history>>

\* disconnect() on the connection that subscribe returned.
Disconnect(s) ==
  /\ ~aborted
  /\ s \in Connected \cap Subscribers
  /\ disconnected' = disconnected \cup {s}
  /\ UNCHANGED <<slots, stored, emission, fulfilled, aborted, loop, history>>

Publish(p) ==
  /\ ~aborted
  /\ Loop!Post(p)
  /\ published' = Append(published, p)
  /\ audience' = [audience EXCEPT ![p] = Connected]
  /\ UNCHANGED <<signal, emission, fulfilled, aborted, told, held, early>>

\* EventLoop::Stop: what was posted and has not begun never begins.
Stop ==
  /\ ~aborted
  /\ Loop!Close \/ Loop!Quiesce
  /\ UNCHANGED <<signal, emission, fulfilled, aborted, history>>

-----------------------------------------------------------------------------
\* The loop dispatches a fiber for the oldest publication: the signal takes
\* its list of slots as it is now.
BeginEmission ==
  /\ ~aborted
  /\ active = None
  /\ Loop!Begin
  /\ LET p == Head(pending) IN
       /\ active' = p
       /\ rest' = [rest EXCEPT ![p] = slots]
  /\ UNCHANGED <<signal, within, fulfilled, aborted, history>>

\* The signal calls a slot unless it has been disconnected.
NotBusy(s) ==   \* mutant: a slot that is being called is passed over
  s \notin disconnected /\ \A q \in Publications : within[q] # s

StillConnected(s) == s \notin disconnected

\* The first thing expect's slot does is to disconnect itself, which has no
\* effect when its connection is not stored yet.
DisconnectLater(s) == disconnected   \* mutant: after the callable has run

DisconnectFirst(s) ==
  IF s \in Expecters \cap stored THEN disconnected \cup {s} ELSE disconnected

CallSlot(p) ==
  /\ ~aborted
  /\ active = p /\ within[p] = None /\ rest[p] # <<>>
  /\ LET s == Head(rest[p]) IN
       /\ StillConnected(s)
       /\ within' = [within EXCEPT ![p] = s]
       /\ disconnected' = DisconnectFirst(s)
       /\ told' = [told EXCEPT ![p] = Append(@, s)]
       /\ early' = IF s \in stored THEN early ELSE early \cup {s}
  /\ rest' = [rest EXCEPT ![p] = Tail(@)]
  /\ UNCHANGED <<slots, stored, active, fulfilled, aborted, loop, published, audience, held>>

SkipToEnd(p) == <<>>   \* mutant: a disconnected slot ends the emission

SkipOne(p) == Tail(rest[p])

SkipSlot(p) ==
  /\ ~aborted
  /\ active = p /\ within[p] = None /\ rest[p] # <<>>
  /\ ~StillConnected(Head(rest[p]))
  /\ rest' = [rest EXCEPT ![p] = SkipOne(p)]
  /\ UNCHANGED <<signal, within, active, fulfilled, aborted, loop, history>>

\* The slot's callable waits: the work thread turns to something else ...
SlotWaits(p) ==
  /\ ~aborted
  /\ active = p /\ within[p] \in Waiting
  /\ <<p, within[p]>> \notin held
  /\ held' = held \cup {<<p, within[p]>>}
  /\ active' = None
  /\ UNCHANGED <<signal, rest, within, fulfilled, aborted, loop, published, audience, told, early>>

\* ... and later comes back to it.
SlotResumes(p) ==
  /\ ~aborted
  /\ active = None /\ within[p] # None
  /\ active' = p
  /\ UNCHANGED <<signal, rest, within, fulfilled, aborted, loop, history>>

\* The slot returns; an expecter's last statement is promise->set_value, which
\* throws promise_already_satisfied the second time.
SlotReturns(p) ==
  /\ ~aborted
  /\ active = p /\ within[p] # None
  /\ within[p] \in Waiting => <<p, within[p]>> \in held
  /\ within' = [within EXCEPT ![p] = None]
  /\ IF within[p] \in Expecters
     THEN /\ aborted' = (within[p] \in fulfilled)
          /\ fulfilled' = fulfilled \cup {within[p]}
     ELSE UNCHANGED <<aborted, fulfilled>>
  /\ UNCHANGED <<signal, rest, active, loop, history>>

\* The last slot has returned and the fiber ends.
EndEmission(p) ==
  /\ ~aborted
  /\ active = p /\ within[p] = None /\ rest[p] = <<>>
  /\ Loop!Complete(p)
  /\ active' = None
  /\ UNCHANGED <<signal, rest, within, fulfilled, aborted, history>>

-----------------------------------------------------------------------------
Emit(p) ==
  \/ CallSlot(p) \/ SkipSlot(p)
  \/ SlotWaits(p) \/ SlotResumes(p) \/ SlotReturns(p)
  \/ EndEmission(p)

LoopStep == BeginEmission \/ \E p \in Publications : Emit(p)

Next ==
  \/ LoopStep
  \/ \E s \in Slots : Connect(s) \/ StoreConnection(s) \/ Disconnect(s)
  \/ \E p \in Publications : Publish(p)
  \/ Stop

Spec == Init /\ [][Next]_vars

-----------------------------------------------------------------------------
\* Every variable keeps its shape.
TypeOK ==
  /\ slots \in Seq(Slots)
  /\ disconnected \subseteq ToSet(slots) /\ stored \subseteq ToSet(slots)
  /\ rest \in [Publications -> Seq(Slots)]
  /\ within \in [Publications -> Slots \cup {None}]
  /\ active \in begun \cup {None}
  /\ fulfilled \subseteq Expecters /\ early \subseteq ClientExpecters
  /\ aborted \in BOOLEAN
  /\ pending \in Seq(Publications) /\ published \in Seq(Publications)
  /\ begun \subseteq Publications /\ completed \subseteq Publications
  /\ closed \in BOOLEAN /\ quiescent \in BOOLEAN
  /\ audience \in [Publications -> SUBSET Slots]
  /\ told \in [Publications -> Seq(Slots)]
  /\ held \subseteq Publications \X Slots

\* A slot connected when an event is published hears it, in an emission that
\* has finished, unless it was disconnected: neither the delay until the
\* emission begins, nor slots that disconnect while it runs, nor emissions that
\* overlap it make a subscriber miss an event.
AudienceIsTold ==
  \A p \in completed : audience[p] \subseteq ToSet(told[p]) \cup disconnected

Before(p, q) ==
  \E i, j \in DOMAIN published : i < j /\ published[i] = p /\ published[j] = q

\* A slot hears the events in the order they were published, except that an
\* emission suspended in a slot connected earlier is overtaken by later ones.
OvertakenOnlyWhileHeld ==
  \A p, q \in Publications : \A s \in Slots :
    /\ Before(p, q)
    /\ s \in ToSet(told[q])
    /\ p \in ToSet(pending) \/ s \in ToSet(rest[p]) \ disconnected
    => \E t \in Slots \ {s} : <<p, t>> \in held

\* expect's slot is called by one emission only, however many overlap, and
\* its promise is fulfilled once: the exception is a slot that was called
\* between connect and the assignment of its connection on another thread.
ExpectIsOneShot ==
  /\ \A e \in Expecters \ early : \A p, q \in Publications :
       e \in ToSet(told[p]) /\ e \in ToSet(told[q]) => p = q
  /\ aborted => early # {}

\* Waiting for an event never takes the program down: what one expects of
\* "a future that will be fulfilled when the specified event is published".
ExpectNeverAborts == ~aborted

-----------------------------------------------------------------------------
\* The loop runs what is posted and resumes what was suspended (that EventLoop
\* completes its tasks), and a thread inside expect goes on.
Fairness ==
  /\ WF_vars(LoopStep)
  /\ \A s \in Slots : WF_vars(StoreConnection(s))

FairSpec == Spec /\ Fairness

\* A future that expect returned is fulfilled once an event is published after
\* the call, unless the loop is stopped or the program dies.
ExpectIsFulfilled ==
  \A e \in Expecters : \A p \in Publications :
    e \in audience[p] ~> (e \in fulfilled \/ closed \/ aborted)
=============================================================================
