---------------------------- MODULE EventsProofs ----------------------------
(***************************************************************************)
(* The safety of events for any number of publications, subscribers and    *)
(* expecters.                                                              *)
(*                                                                         *)
(* IInv is the inductive invariant.  Its parts say in which order the      *)
(* emissions begin, what a begun emission has called and has still to      *)
(* call, and what is known of an expecter that was never called early.     *)
(***************************************************************************)
EXTENDS Events, SequenceLemmas

\* The emissions begin in the order of the publish calls, each once.
FifoInv ==
  /\ IsInjective(published) /\ IsInjective(pending)
  /\ Range(published) = Range(pending) \cup begun \cup completed
  /\ Range(pending) \cap (begun \cup completed) = {}
  /\ begun \cap completed = {}
  /\ \A i, j \in DOMAIN pending : i < j => Before(pending[i], pending[j])
  /\ \A p, q \in Publications : Before(p, q) /\ p \in Range(pending) => q \in Range(pending)

\* A slot is connected once; only an expect on another thread leaves its
\* connection unstored.
SlotsInv ==
  /\ IsInjective(slots)
  /\ Range(slots) \ ClientExpecters \subseteq stored

\* An emission calls nothing before it begins, and has nothing left to call
\* when it has ended; what it has called and what it has still to call differ.
EmissionInv ==
  \A p \in Publications :
    /\ p \notin begun => within[p] = None /\ rest[p] = <<>>
    /\ p \notin begun \cup completed => told[p] = <<>>
    /\ Range(rest[p]) \subseteq Range(slots)
    /\ IsInjective(rest[p]) /\ Range(rest[p]) \cap Range(told[p]) = {}
    /\ within[p] # None => within[p] \in Range(told[p])

\* A begun emission executes, or is suspended in a slot.
HeldInv ==
  /\ \A p \in begun : p = active \/ (within[p] # None /\ <<p, within[p]>> \in held)
  /\ \A h \in held : h[2] \in Range(told[h[1]])

\* What was connected at the publish call is told, still to be told, or was
\* disconnected.
AudienceInv ==
  \A p \in Publications :
    /\ audience[p] \subseteq Range(slots)
    /\ p \in begun \cup completed =>
         audience[p] \subseteq Range(told[p]) \cup Range(rest[p]) \cup disconnected

\* An emission that a later one has overtaken was suspended.
OvertakenInv ==
  \A p, q \in Publications :
    Before(p, q) /\ told[q] # <<>> /\ p \in begun
      => \E t \in Slots : <<p, t>> \in held

\* An expecter that was never called early is disconnected by its first call,
\* and its promise fulfilled when that call returns.
ExpecterInv ==
  \A e \in Expecters \ early :
    /\ \A p \in Publications : e \in Range(told[p]) => e \in disconnected
    /\ \A p, q \in Publications : e \in Range(told[p]) /\ e \in Range(told[q]) => p = q
    /\ e \in fulfilled =>
         \E p \in Publications : e \in Range(told[p]) /\ within[p] # e

SafetyInv ==
  /\ FifoInv /\ SlotsInv /\ EmissionInv /\ HeldInv
  /\ AudienceInv /\ OvertakenInv /\ ExpecterInv

IInv == TypeOK /\ SafetyInv /\ (aborted => early # {})

-----------------------------------------------------------------------------
LEMMA ToSetIsRange == \A s : ToSet(s) = Range(s)
  BY DEF ToSet, Range

LEMMA EmptyRange == Range(<<>>) = {}
  BY DEF Range

\* The loop's queue, per action.
LEMMA PostEffect ==
  ASSUME NEW p \in Publications, Loop!Post(p)
  PROVE  /\ p \notin Range(pending) \cup begun \cup completed
         /\ pending' = Append(pending, p)
         /\ UNCHANGED <<begun, completed, closed, quiescent>>
BY DEF Loop!Post, Loop!Posted, Range

LEMMA BeginEffect ==
  ASSUME TypeOK, FifoInv, Loop!Begin
  PROVE  /\ ~closed /\ pending # <<>> /\ Head(pending) \in Publications
         /\ Head(pending) \in Range(pending) /\ Head(pending) \notin begun \cup completed
         /\ pending' = Tail(pending) /\ pending' \in Seq(Publications)
         /\ Range(pending) = {Head(pending)} \cup Range(pending')
         /\ Head(pending) \notin Range(pending')
         /\ begun' = begun \cup {Head(pending)}
         /\ UNCHANGED <<completed, closed, quiescent>>
<1>1. /\ ~closed /\ pending # <<>> /\ pending' = Tail(pending)
      /\ begun' = begun \cup {Head(pending)}
      /\ UNCHANGED <<completed, closed, quiescent>>
  BY DEF Loop!Begin
<1>2. pending \in Seq(Publications) /\ IsInjective(pending)
  BY DEF TypeOK, FifoInv
<1>3. /\ Head(pending) \in Publications /\ Tail(pending) \in Seq(Publications)
      /\ Range(pending) = {Head(pending)} \cup Range(Tail(pending))
  BY <1>1, <1>2, HeadTailRange
<1>4. Head(pending) \notin Range(Tail(pending))
  BY <1>1, <1>2, TailInjectiveQueue
<1> QED
  BY <1>1, <1>3, <1>4 DEF FifoInv

\* An emission's next slot.
LEMMA RestEffect ==
  ASSUME TypeOK, EmissionInv, NEW p \in Publications, rest[p] # <<>>
  PROVE  /\ Head(rest[p]) \in Slots /\ Tail(rest[p]) \in Seq(Slots)
         /\ Range(rest[p]) = {Head(rest[p])} \cup Range(Tail(rest[p]))
         /\ IsInjective(Tail(rest[p])) /\ Head(rest[p]) \notin Range(Tail(rest[p]))
         /\ Head(rest[p]) \in Range(slots) /\ Head(rest[p]) \notin Range(told[p])
<1>1. rest[p] \in Seq(Slots) /\ IsInjective(rest[p])
  BY DEF TypeOK, EmissionInv
<1>2. /\ Head(rest[p]) \in Slots /\ Tail(rest[p]) \in Seq(Slots)
      /\ Range(rest[p]) = {Head(rest[p])} \cup Range(Tail(rest[p]))
  BY <1>1, HeadTailRange
<1>3. IsInjective(Tail(rest[p])) /\ Head(rest[p]) \notin Range(Tail(rest[p]))
  BY <1>1, TailInjectiveQueue
<1> QED
  BY <1>2, <1>3 DEF EmissionInv

\* What CallSlot does, for the proofs that follow.
LEMMA CallEffect ==
  ASSUME TypeOK, EmissionInv, NEW p \in Publications, CallSlot(p),
         NEW s, s = Head(rest[p])
  PROVE  /\ ~aborted /\ active = p /\ within[p] = None /\ rest[p] # <<>>
         /\ s \in Slots /\ s \in Range(slots) /\ s \notin disconnected
         /\ s \notin Range(told[p])
         /\ Range(rest[p]) = {s} \cup Range(rest'[p])
         /\ IsInjective(rest'[p]) /\ s \notin Range(rest'[p])
         /\ rest' = [rest EXCEPT ![p] = Tail(rest[p])]
         /\ rest' \in [Publications -> Seq(Slots)]
         /\ within' = [within EXCEPT ![p] = s]
         /\ told' = [told EXCEPT ![p] = Append(told[p], s)]
         /\ told' \in [Publications -> Seq(Slots)]
         /\ Range(told'[p]) = Range(told[p]) \cup {s}
         /\ disconnected' = IF s \in Expecters \cap stored THEN disconnected \cup {s} ELSE disconnected
         /\ early' = IF s \in stored THEN early ELSE early \cup {s}
         /\ UNCHANGED <<slots, stored, active, fulfilled, aborted, loop, published, audience, held>>
<1>1. /\ ~aborted /\ active = p /\ within[p] = None /\ rest[p] # <<>>
      /\ s \notin disconnected
      /\ rest' = [rest EXCEPT ![p] = Tail(rest[p])]
      /\ within' = [within EXCEPT ![p] = s]
      /\ told' = [told EXCEPT ![p] = Append(told[p], s)]
      /\ disconnected' = IF s \in Expecters \cap stored THEN disconnected \cup {s} ELSE disconnected
      /\ early' = IF s \in stored THEN early ELSE early \cup {s}
      /\ UNCHANGED <<slots, stored, active, fulfilled, aborted, loop, published, audience, held>>
  BY DEF CallSlot, StillConnected, DisconnectFirst
<1>2. /\ s \in Slots /\ Tail(rest[p]) \in Seq(Slots)
      /\ Range(rest[p]) = {s} \cup Range(Tail(rest[p]))
      /\ IsInjective(Tail(rest[p])) /\ s \notin Range(Tail(rest[p]))
      /\ s \in Range(slots) /\ s \notin Range(told[p])
  BY <1>1, RestEffect
<1>3. rest'[p] = Tail(rest[p]) /\ told'[p] = Append(told[p], s)
  BY <1>1 DEF TypeOK
<1>4. told[p] \in Seq(Slots)
  BY DEF TypeOK
<1>5. Append(told[p], s) \in Seq(Slots) /\ Range(Append(told[p], s)) = Range(told[p]) \cup {s}
  BY <1>2, <1>4, RangeAppend, AppendProperties
<1>6. rest' \in [Publications -> Seq(Slots)] /\ told' \in [Publications -> Seq(Slots)]
  BY <1>1, <1>2, <1>5 DEF TypeOK
<1> QED
  BY <1>1, <1>2, <1>3, <1>5, <1>6

-----------------------------------------------------------------------------
\* A publish puts the publication after all earlier ones.
LEMMA BeforeGrows ==
  ASSUME NEW p \in Publications, published \in Seq(Publications),
         published' = Append(published, p)
  PROVE  \A x, y \in Publications :
           Before(x, y)' <=> Before(x, y) \/ (x \in Range(published) /\ y = p)
<1> DEFINE n == Len(published)
<1>1. /\ DOMAIN published = 1..n /\ DOMAIN published' = 1..(n + 1) /\ n \in Nat
      /\ \A i \in 1..n : published'[i] = published[i]
      /\ published'[n + 1] = p
  BY AppendProperties, LenProperties
<1> TAKE x \in Publications, y \in Publications
<1>2. ASSUME Before(x, y)'
      PROVE  Before(x, y) \/ (x \in Range(published) /\ y = p)
  <2>1. PICK i \in 1..(n + 1), j \in 1..(n + 1) :
          i < j /\ published'[i] = x /\ published'[j] = y
    BY <1>1, <1>2 DEF Before
  <2>2. i \in 1..n /\ published[i] = x
    BY <2>1, <1>1
  <2>3. CASE j = n + 1
    BY <2>1, <2>2, <2>3, <1>1 DEF Range
  <2>4. CASE j # n + 1
    <3>1. j \in 1..n /\ published[j] = y
      BY <2>1, <2>4, <1>1
    <3> QED
      BY <2>1, <2>2, <3>1, <1>1 DEF Before
  <2> QED
    BY <2>3, <2>4
<1>3. ASSUME Before(x, y) PROVE Before(x, y)'
  BY <1>1, <1>3 DEF Before
<1>4. ASSUME x \in Range(published), y = p PROVE Before(x, y)'
  <2>1. PICK i \in 1..n : published[i] = x
    BY <1>1, <1>4 DEF Range
  <2>2. i \in 1..(n + 1) /\ n + 1 \in 1..(n + 1) /\ i < n + 1 /\ published'[i] = x
    BY <2>1, <1>1
  <2> QED
    BY <2>2, <1>1, <1>4 DEF Before
<1> QED
  BY <1>2, <1>3, <1>4

\* Being published before is a strict order.
LEMMA BeforeAsymmetric ==
  ASSUME IsInjective(published), published \in Seq(Publications),
         NEW p, NEW q, Before(p, q)
  PROVE  ~Before(q, p) /\ p # q
<1>1. DOMAIN published = 1..Len(published) /\ Len(published) \in Nat
  BY LenProperties
<1> QED
  BY <1>1 DEF Before, IsInjective

\* An action that posts, begins and ends nothing.
LEMMA KeepsFifo ==
  ASSUME FifoInv, UNCHANGED <<published, pending, begun, completed>>
  PROVE  FifoInv'
BY DEF FifoInv, IsInjective, Before

LEMMA FifoStep ==
  ASSUME TypeOK, SafetyInv, [Next]_vars
  PROVE  FifoInv'
<1>0. FifoInv
  BY DEF SafetyInv
<1>1. ASSUME NEW p \in Publications, Publish(p) PROVE FifoInv'
  <2>1. /\ p \notin Range(pending) \cup begun \cup completed
        /\ pending' = Append(pending, p) /\ published' = Append(published, p)
        /\ UNCHANGED <<begun, completed>>
    BY <1>1, PostEffect DEF Publish
  <2>2. pending \in Seq(Publications) /\ published \in Seq(Publications)
    BY DEF TypeOK
  <2>3. p \notin Range(published) /\ p \notin Range(pending)
    BY <2>1, <1>0 DEF FifoInv
  <2>4. /\ Range(pending') = Range(pending) \cup {p}
        /\ Range(published') = Range(published) \cup {p}
        /\ IsInjective(pending') /\ IsInjective(published')
    BY <2>1, <2>2, <2>3, <1>0, RangeAppend, AppendInjectiveQueue DEF FifoInv
  <2>5. \A x, y \in Publications :
          Before(x, y)' <=> Before(x, y) \/ (x \in Range(published) /\ y = p)
    BY <2>1, <2>2, BeforeGrows
  <2>6. ASSUME NEW i \in DOMAIN pending', NEW j \in DOMAIN pending', i < j
        PROVE  Before(pending[i], pending[j])'
    <3> DEFINE n == Len(pending)
    <3>1. /\ DOMAIN pending = 1..n /\ DOMAIN pending' = 1..(n + 1) /\ n \in Nat
          /\ \A k \in 1..n : pending'[k] = pending[k] /\ pending[k] \in Publications
          /\ pending'[n + 1] = p
      BY <2>1, <2>2, AppendProperties, LenProperties, ElementOfSeq
    <3>2. i \in 1..n
      BY <2>6, <3>1
    <3>3. CASE j = n + 1
      <4>1. pending[i] \in Range(published)
        <5>1. pending[i] \in Range(pending)
          BY <3>1, <3>2 DEF Range
        <5> QED
          BY <5>1, <1>0 DEF FifoInv
      <4>2. pending'[i] = pending[i] /\ pending'[j] = p /\ pending[i] \in Publications
        BY <3>1, <3>2, <3>3
      <4>3. p \in Publications
        OBVIOUS
      <4> QED
        BY <2>5, <4>1, <4>2, <4>3
    <3>4. CASE j # n + 1
      <4>1. j \in 1..n
        BY <3>1, <3>4
      <4>2. Before(pending[i], pending[j])
        BY <2>6, <3>1, <3>2, <4>1, <1>0 DEF FifoInv
      <4> QED
        BY <2>5, <3>1, <3>2, <4>1, <4>2
    <3> QED
      BY <3>3, <3>4
  <2>7. ASSUME NEW x \in Publications, NEW y \in Publications,
               Before(x, y)', x \in Range(pending')
        PROVE  y \in Range(pending')
    <3>1. CASE Before(x, y)
      <4>1. x \in Range(published)
        BY <3>1 DEF Before, Range
      <4> QED
        BY <2>3, <2>4, <2>7, <3>1, <4>1, <1>0 DEF FifoInv
    <3>2. CASE y = p
      BY <2>4, <3>2
    <3> QED
      BY <2>5, <2>7, <3>1, <3>2
  <2> QED
    BY <2>1, <2>4, <2>6, <2>7, <1>0 DEF FifoInv
<1>2. CASE BeginEmission
  <2> DEFINE h == Head(pending)
  <2>1. /\ pending # <<>> /\ h \in Publications /\ h \in Range(pending)
        /\ h \notin begun \cup completed
        /\ pending' = Tail(pending) /\ Range(pending) = {h} \cup Range(pending')
        /\ h \notin Range(pending') /\ begun' = begun \cup {h}
        /\ UNCHANGED <<completed, published>>
    BY <1>0, <1>2, BeginEffect DEF BeginEmission, history
  <2>2. pending \in Seq(Publications) /\ published \in Seq(Publications)
    BY DEF TypeOK
  <2>3. IsInjective(pending')
    BY <2>1, <2>2, <1>0, TailInjectiveQueue DEF FifoInv
  <2>4. /\ DOMAIN pending = 1..Len(pending) /\ Len(pending) \in Nat
        /\ DOMAIN pending' = 1..(Len(pending) - 1)
        /\ \A k \in DOMAIN pending' : k + 1 \in DOMAIN pending /\ pending'[k] = pending[k + 1]
        /\ pending[1] = h /\ 1 \in DOMAIN pending
    <3>1. Len(pending) \in Nat \ {0} /\ DOMAIN pending = 1..Len(pending) /\ h = pending[1]
      BY <2>1, <2>2, LenProperties, EmptySeq
    <3>2. /\ Tail(pending) \in Seq(Publications) /\ Len(Tail(pending)) = Len(pending) - 1
          /\ \A i \in 1..Len(Tail(pending)) : Tail(pending)[i] = pending[i + 1]
      BY <2>1, <2>2, HeadTailProperties
    <3>3. DOMAIN Tail(pending) = 1..(Len(pending) - 1)
      BY <3>2, LenProperties
    <3> QED
      BY <2>1, <3>1, <3>2, <3>3
  <2>5. ASSUME NEW i \in DOMAIN pending', NEW j \in DOMAIN pending', i < j
        PROVE  Before(pending[i], pending[j])'
    <3>1. /\ i + 1 \in DOMAIN pending /\ j + 1 \in DOMAIN pending /\ i + 1 < j + 1
          /\ pending'[i] = pending[i + 1] /\ pending'[j] = pending[j + 1]
      BY <2>4, <2>5
    <3>2. Before(pending[i + 1], pending[j + 1])
      BY <3>1, <1>0 DEF FifoInv
    <3> QED
      BY <2>1, <3>1, <3>2 DEF Before
  <2>6. ASSUME NEW x \in Publications, NEW y \in Publications,
               Before(x, y)', x \in Range(pending')
        PROVE  y \in Range(pending')
    <3>1. Before(x, y)
      BY <2>1, <2>6 DEF Before
    <3>2. y \in Range(pending)
      BY <2>1, <2>6, <3>1, <1>0 DEF FifoInv
    <3>3. PICK k \in DOMAIN pending' : pending'[k] = x
      BY <2>6 DEF Range
    <3>4. Before(h, x)
      <4>1. k + 1 \in DOMAIN pending /\ pending[k + 1] = x /\ 1 < k + 1
        BY <2>4, <3>3
      <4> QED
        BY <2>4, <4>1, <1>0 DEF FifoInv
    <3>5. y # h
      BY <2>2, <3>1, <3>4, <1>0, BeforeAsymmetric DEF FifoInv
    <3> QED
      BY <2>1, <3>2, <3>5
  <2> QED
    BY <2>1, <2>3, <2>5, <2>6, <1>0 DEF FifoInv, IsInjective
<1>3. ASSUME NEW p \in Publications, EndEmission(p) PROVE FifoInv'
  <2>1. /\ p \in begun /\ begun' = begun \ {p} /\ completed' = completed \cup {p}
        /\ UNCHANGED <<published, pending>>
    BY <1>3 DEF EndEmission, history, Loop!Complete
  <2> QED
    BY <1>0, <2>1 DEF FifoInv, IsInjective, Before
<1>4. ASSUME NEW s \in Slots, Connect(s) \/ StoreConnection(s) \/ Disconnect(s)
      PROVE  FifoInv'
  BY <1>0, <1>4, KeepsFifo DEF Connect, StoreConnection, Disconnect, loop, history
<1>5. ASSUME NEW p \in Publications,
             \/ CallSlot(p) \/ SkipSlot(p)
             \/ SlotWaits(p) \/ SlotResumes(p) \/ SlotReturns(p)
      PROVE  FifoInv'
  BY <1>0, <1>5, KeepsFifo
  DEF CallSlot, SkipSlot, SlotWaits, SlotResumes, SlotReturns, loop, history
<1>6. CASE Stop \/ UNCHANGED vars
  BY <1>0, <1>6, KeepsFifo DEF Stop, Loop!Close, Loop!Quiesce, vars, loop, history
<1> QED
  BY <1>1, <1>2, <1>3, <1>4, <1>5, <1>6 DEF Next, LoopStep, Emit

-----------------------------------------------------------------------------
\* Connect, for the proofs that follow.
LEMMA ConnectEffect ==
  ASSUME TypeOK, NEW s \in Slots, Connect(s)
  PROVE  /\ s \notin Range(slots) /\ slots' = Append(slots, s)
         /\ slots' \in Seq(Slots) /\ Range(slots') = Range(slots) \cup {s}
         /\ stored' = IF s \in ClientExpecters THEN stored ELSE stored \cup {s}
         /\ UNCHANGED <<disconnected, emission, fulfilled, aborted, loop, history>>
<1>1. slots \in Seq(Slots)
  BY DEF TypeOK
<1>2. /\ s \notin Range(slots) /\ slots' = Append(slots, s)
      /\ stored' = IF s \in ClientExpecters THEN stored ELSE stored \cup {s}
      /\ UNCHANGED <<disconnected, emission, fulfilled, aborted, loop, history>>
  BY ToSetIsRange DEF Connect, StoredAtOnce
<1> QED
  BY <1>1, <1>2, RangeAppend, AppendProperties

LEMMA SlotsStep ==
  ASSUME TypeOK, SafetyInv, [Next]_vars
  PROVE  SlotsInv' /\ Range(slots) \subseteq Range(slots')
<1>0. SlotsInv /\ slots \in Seq(Slots)
  BY DEF SafetyInv, TypeOK
<1>1. ASSUME NEW s \in Slots, Connect(s)
      PROVE  SlotsInv' /\ Range(slots) \subseteq Range(slots')
  <2>1. /\ s \notin Range(slots) /\ slots' = Append(slots, s)
        /\ Range(slots') = Range(slots) \cup {s}
        /\ stored' = IF s \in ClientExpecters THEN stored ELSE stored \cup {s}
    BY <1>1, ConnectEffect
  <2>2. IsInjective(slots')
    BY <1>0, <2>1, AppendInjectiveQueue DEF SlotsInv
  <2> QED
    BY <1>0, <2>1, <2>2 DEF SlotsInv
<1>2. ASSUME NEW s \in Slots, StoreConnection(s) \/ Disconnect(s)
      PROVE  SlotsInv' /\ Range(slots) \subseteq Range(slots')
  BY <1>0, <1>2 DEF StoreConnection, Disconnect, SlotsInv, IsInjective
<1>3. ASSUME NEW p \in Publications,
             \/ Publish(p) \/ CallSlot(p) \/ SkipSlot(p)
             \/ SlotWaits(p) \/ SlotResumes(p) \/ SlotReturns(p) \/ EndEmission(p)
      PROVE  UNCHANGED <<slots, stored>>
  BY <1>3 DEF Publish, CallSlot, SkipSlot, SlotWaits, SlotResumes, SlotReturns,
              EndEmission, signal
<1>4. ASSUME Stop \/ BeginEmission \/ UNCHANGED vars
      PROVE  UNCHANGED <<slots, stored>>
  BY <1>4 DEF Stop, BeginEmission, vars, signal
<1>5. ASSUME UNCHANGED <<slots, stored>>
      PROVE  SlotsInv' /\ Range(slots) \subseteq Range(slots')
  BY <1>0, <1>5 DEF SlotsInv, IsInjective
<1> QED
  BY <1>1, <1>2, <1>3, <1>4, <1>5 DEF Next, LoopStep, Emit

-----------------------------------------------------------------------------
\* An action that touches no emission but may connect or disconnect slots, or
\* publish.
LEMMA KeepsEmissions ==
  ASSUME EmissionInv, HeldInv, Range(slots) \subseteq Range(slots'),
         UNCHANGED <<rest, within, active, told, held, begun, completed>>
  PROVE  EmissionInv' /\ HeldInv'
BY DEF EmissionInv, HeldInv, IsInjective

LEMMA EmissionStep ==
  ASSUME TypeOK, SafetyInv, [Next]_vars
  PROVE  EmissionInv' /\ HeldInv'
<1>0. EmissionInv /\ HeldInv /\ SlotsInv /\ FifoInv
  BY DEF SafetyInv
<1>s. Range(slots) \subseteq Range(slots')
  BY SlotsStep
<1>t. /\ rest \in [Publications -> Seq(Slots)] /\ told \in [Publications -> Seq(Slots)]
      /\ within \in [Publications -> Slots \cup {None}]
      /\ active \in begun \cup {None}
      /\ None \notin Slots /\ None \notin Publications
  BY EventsAssumption DEF TypeOK
<1>1. ASSUME NEW s \in Slots, Connect(s) \/ StoreConnection(s) \/ Disconnect(s)
      PROVE  EmissionInv' /\ HeldInv'
  BY <1>0, <1>s, <1>1, KeepsEmissions
  DEF Connect, StoreConnection, Disconnect, emission, loop, history
<1>2. ASSUME NEW p \in Publications, Publish(p)
      PROVE  EmissionInv' /\ HeldInv'
  BY <1>0, <1>s, <1>2, KeepsEmissions, PostEffect DEF Publish, emission
<1>3. CASE Stop \/ UNCHANGED vars
  BY <1>0, <1>s, <1>3, KeepsEmissions
  DEF Stop, Loop!Close, Loop!Quiesce, vars, emission, loop, history
<1>4. CASE BeginEmission
  <2> DEFINE h == Head(pending)
  <2>1. /\ h \in Publications /\ h \notin begun \cup completed
        /\ begun' = begun \cup {h} /\ UNCHANGED <<completed, told, held, within, slots>>
    BY <1>0, <1>4, BeginEffect DEF BeginEmission, history, signal
  <2>2. active' = h /\ active = None /\ rest' = [rest EXCEPT ![h] = slots]
    BY <1>4 DEF BeginEmission
  <2>3. ASSUME NEW p \in Publications
        PROVE  /\ p \notin begun' => within'[p] = None /\ rest'[p] = <<>>
               /\ p \notin begun' \cup completed' => told'[p] = <<>>
               /\ Range(rest'[p]) \subseteq Range(slots')
               /\ IsInjective(rest'[p]) /\ Range(rest'[p]) \cap Range(told'[p]) = {}
               /\ within'[p] # None => within'[p] \in Range(told'[p])
    <3>1. CASE p = h
      <4>1. told[p] = <<>> /\ within[p] = None
        BY <1>0, <2>1, <3>1 DEF EmissionInv
      <4>2. rest'[p] = slots
        BY <1>t, <2>2, <3>1
      <4> QED
        BY <1>0, <2>1, <3>1, <4>1, <4>2, EmptyRange DEF SlotsInv
    <3>2. CASE p # h
      BY <1>0, <1>t, <2>1, <2>2, <3>2 DEF EmissionInv
    <3> QED
      BY <3>1, <3>2
  <2>4. HeldInv'
    <3>1. \A q \in begun : q # None
      BY <1>t DEF TypeOK
    <3> QED
      BY <1>0, <2>1, <2>2, <3>1 DEF HeldInv
  <2> QED
    BY <2>3, <2>4 DEF EmissionInv
<1>5. ASSUME NEW p \in Publications, CallSlot(p)
      PROVE  EmissionInv' /\ HeldInv'
  <2> DEFINE s == Head(rest[p])
  <2>1. /\ active = p /\ s \in Slots /\ s \notin Range(told[p])
        /\ Range(rest[p]) = {s} \cup Range(rest'[p])
        /\ IsInjective(rest'[p]) /\ s \notin Range(rest'[p])
        /\ rest' = [rest EXCEPT ![p] = Tail(rest[p])]
        /\ within' = [within EXCEPT ![p] = s]
        /\ told' = [told EXCEPT ![p] = Append(told[p], s)]
        /\ Range(told'[p]) = Range(told[p]) \cup {s}
        /\ UNCHANGED <<slots, active, begun, completed, held>>
    BY <1>0, <1>5, CallEffect DEF loop
  <2>2. p \in begun
    BY <1>t, <2>1
  <2>3. \A q \in Publications : q # p =>
          rest'[q] = rest[q] /\ within'[q] = within[q] /\ told'[q] = told[q]
    BY <1>t, <2>1
  <2>4. within'[p] = s
    BY <1>t, <2>1
  <2>5. EmissionInv'
    <3> SUFFICES ASSUME NEW q \in Publications
                 PROVE  /\ q \notin begun' => within'[q] = None /\ rest'[q] = <<>>
                        /\ q \notin begun' \cup completed' => told'[q] = <<>>
                        /\ Range(rest'[q]) \subseteq Range(slots')
                        /\ IsInjective(rest'[q])
                        /\ Range(rest'[q]) \cap Range(told'[q]) = {}
                        /\ within'[q] # None => within'[q] \in Range(told'[q])
      BY DEF EmissionInv
    <3>1. CASE q = p
      BY <1>0, <2>1, <2>2, <2>4, <3>1 DEF EmissionInv
    <3>2. CASE q # p
      BY <1>0, <2>1, <2>3, <3>2 DEF EmissionInv
    <3> QED
      BY <3>1, <3>2
  <2>6. \A q \in begun' : q = active' \/ (within'[q] # None /\ <<q, within'[q]>> \in held')
    BY <1>0, <2>1, <2>3, <1>t DEF HeldInv, TypeOK
  <2>7. \A h \in held' : h[2] \in Range(told'[h[1]])
    <3>1. \A h \in held : h[1] \in Publications
      BY DEF TypeOK
    <3> QED
      BY <1>0, <2>1, <2>3, <3>1 DEF HeldInv
  <2> QED
    BY <2>5, <2>6, <2>7 DEF HeldInv
<1>6. ASSUME NEW p \in Publications, SkipSlot(p)
      PROVE  EmissionInv' /\ HeldInv'
  <2>1. /\ active = p /\ rest[p] # <<>> /\ rest' = [rest EXCEPT ![p] = Tail(rest[p])]
        /\ UNCHANGED <<slots, within, active, begun, completed, told, held>>
    BY <1>6 DEF SkipSlot, SkipOne, signal, loop, history
  <2>2. /\ IsInjective(Tail(rest[p]))
        /\ Range(rest[p]) = {Head(rest[p])} \cup Range(Tail(rest[p]))
    BY <1>0, <2>1, RestEffect
  <2>3. p \in begun
    BY <1>t, <2>1
  <2>4. EmissionInv'
    <3> SUFFICES ASSUME NEW q \in Publications
                 PROVE  /\ q \notin begun' => within'[q] = None /\ rest'[q] = <<>>
                        /\ q \notin begun' \cup completed' => told'[q] = <<>>
                        /\ Range(rest'[q]) \subseteq Range(slots')
                        /\ IsInjective(rest'[q])
                        /\ Range(rest'[q]) \cap Range(told'[q]) = {}
                        /\ within'[q] # None => within'[q] \in Range(told'[q])
      BY DEF EmissionInv
    <3>1. CASE q = p
      BY <1>0, <1>t, <2>1, <2>2, <2>3, <3>1 DEF EmissionInv
    <3>2. CASE q # p
      BY <1>0, <1>t, <2>1, <3>2 DEF EmissionInv
    <3> QED
      BY <3>1, <3>2
  <2> QED
    BY <1>0, <2>1, <2>4 DEF HeldInv
<1>7. ASSUME NEW p \in Publications, SlotWaits(p)
      PROVE  EmissionInv' /\ HeldInv'
  <2>1. /\ active = p /\ active' = None /\ within[p] \in Slots
        /\ held' = held \cup {<<p, within[p]>>}
        /\ UNCHANGED <<slots, rest, within, begun, completed, told>>
    BY <1>7, EventsAssumption DEF SlotWaits, signal, loop
  <2>2. within[p] \in Range(told[p])
    BY <1>0, <1>t, <2>1 DEF EmissionInv
  <2>3. EmissionInv'
    BY <1>0, <2>1 DEF EmissionInv, IsInjective
  <2>4. HeldInv'
    BY <1>0, <1>t, <2>1, <2>2 DEF HeldInv
  <2> QED
    BY <2>3, <2>4
<1>8. ASSUME NEW p \in Publications, SlotResumes(p)
      PROVE  EmissionInv' /\ HeldInv'
  <2>1. /\ active = None /\ active' = p
        /\ UNCHANGED <<slots, rest, within, begun, completed, told, held>>
    BY <1>8 DEF SlotResumes, signal, loop, history
  <2>2. \A q \in begun : q # active
    BY <1>t, <2>1 DEF TypeOK
  <2> QED
    BY <1>0, <2>1, <2>2 DEF EmissionInv, HeldInv, IsInjective
<1>9. ASSUME NEW p \in Publications, SlotReturns(p)
      PROVE  EmissionInv' /\ HeldInv'
  <2>1. /\ active = p /\ within' = [within EXCEPT ![p] = None]
        /\ UNCHANGED <<slots, rest, active, begun, completed, told, held>>
    BY <1>9 DEF SlotReturns, signal, loop, history
  <2>2. \A q \in Publications : within'[q] = IF q = p THEN None ELSE within[q]
    BY <1>t, <2>1
  <2>3. EmissionInv'
    BY <1>0, <2>1, <2>2 DEF EmissionInv, IsInjective
  <2>4. HeldInv'
    BY <1>0, <2>1, <2>2 DEF HeldInv, TypeOK
  <2> QED
    BY <2>3, <2>4
<1>10. ASSUME NEW p \in Publications, EndEmission(p)
       PROVE  EmissionInv' /\ HeldInv'
  <2>1. /\ active = p /\ within[p] = None /\ rest[p] = <<>> /\ active' = None
        /\ begun' = begun \ {p} /\ completed' = completed \cup {p}
        /\ UNCHANGED <<slots, rest, within, told, held>>
    BY <1>10 DEF EndEmission, signal, history, Loop!Complete
  <2>2. EmissionInv'
    BY <1>0, <2>1 DEF EmissionInv, IsInjective
  <2>3. HeldInv'
    BY <1>0, <2>1 DEF HeldInv
  <2> QED
    BY <2>2, <2>3
<1> QED
  BY <1>1, <1>2, <1>3, <1>4, <1>5, <1>6, <1>7, <1>8, <1>9, <1>10 DEF Next, LoopStep, Emit

-----------------------------------------------------------------------------
\* An action that changes neither the slots nor the emissions.
LEMMA KeepsAudience ==
  ASSUME AudienceInv, Range(slots) \subseteq Range(slots'),
         disconnected \subseteq disconnected',
         UNCHANGED <<audience, begun, completed, told, rest>>
  PROVE  AudienceInv'
BY DEF AudienceInv

LEMMA AudienceStep ==
  ASSUME TypeOK, SafetyInv, [Next]_vars
  PROVE  AudienceInv'
<1>0. AudienceInv /\ EmissionInv /\ FifoInv
  BY DEF SafetyInv
<1>s. Range(slots) \subseteq Range(slots')
  BY SlotsStep
<1>t. /\ rest \in [Publications -> Seq(Slots)] /\ told \in [Publications -> Seq(Slots)]
      /\ audience \in [Publications -> SUBSET Slots]
      /\ active \in begun \cup {None} /\ None \notin Publications
  BY EventsAssumption DEF TypeOK
<1>1. ASSUME NEW s \in Slots, Connect(s) \/ StoreConnection(s) \/ Disconnect(s)
      PROVE  AudienceInv'
  BY <1>0, <1>s, <1>1, KeepsAudience
  DEF Connect, StoreConnection, Disconnect, emission, loop, history
<1>2. ASSUME NEW p \in Publications, Publish(p)
      PROVE  AudienceInv'
  <2>1. /\ p \notin begun \cup completed
        /\ audience' = [audience EXCEPT ![p] = Range(slots) \ disconnected]
        /\ UNCHANGED <<slots, disconnected, rest, begun, completed, told>>
    BY <1>2, PostEffect, ToSetIsRange DEF Publish, Connected, signal, emission
  <2>2. \A q \in Publications :
          audience'[q] = IF q = p THEN Range(slots) \ disconnected ELSE audience[q]
    BY <1>t, <2>1
  <2> QED
    BY <1>0, <2>1, <2>2 DEF AudienceInv
<1>3. CASE Stop \/ UNCHANGED vars
  BY <1>0, <1>s, <1>3, KeepsAudience
  DEF Stop, Loop!Close, Loop!Quiesce, vars, signal, emission, loop, history
<1>4. CASE BeginEmission
  <2> DEFINE h == Head(pending)
  <2>1. /\ h \in Publications /\ h \notin begun \cup completed
        /\ begun' = begun \cup {h} /\ rest' = [rest EXCEPT ![h] = slots]
        /\ UNCHANGED <<completed, told, slots, disconnected, audience>>
    BY <1>0, <1>4, BeginEffect DEF BeginEmission, history, signal
  <2>2. \A q \in Publications : rest'[q] = IF q = h THEN slots ELSE rest[q]
    BY <1>t, <2>1
  <2> QED
    BY <1>0, <2>1, <2>2 DEF AudienceInv
<1>5. ASSUME NEW p \in Publications, CallSlot(p)
      PROVE  AudienceInv'
  <2> DEFINE s == Head(rest[p])
  <2>1. /\ Range(rest[p]) = {s} \cup Range(rest'[p])
        /\ rest' = [rest EXCEPT ![p] = Tail(rest[p])]
        /\ told' = [told EXCEPT ![p] = Append(told[p], s)]
        /\ Range(told'[p]) = Range(told[p]) \cup {s}
        /\ disconnected \subseteq disconnected'
        /\ UNCHANGED <<slots, begun, completed, audience>>
    BY <1>0, <1>5, CallEffect DEF loop
  <2>2. \A q \in Publications : q # p => rest'[q] = rest[q] /\ told'[q] = told[q]
    <3>1. \E x : rest' = [rest EXCEPT ![p] = x]
      BY <2>1
    <3>2. \E y : told' = [told EXCEPT ![p] = y]
      BY <2>1
    <3>3. \A q \in Publications : q # p => rest'[q] = rest[q]
      BY <1>t, <3>1
    <3>4. \A q \in Publications : q # p => told'[q] = told[q]
      BY <1>t, <3>2
    <3> QED
      BY <3>3, <3>4
  <2> QED
    BY <1>0, <2>1, <2>2 DEF AudienceInv
<1>6. ASSUME NEW p \in Publications, SkipSlot(p)
      PROVE  AudienceInv'
  <2>1. /\ rest[p] # <<>> /\ Head(rest[p]) \in disconnected
        /\ rest' = [rest EXCEPT ![p] = Tail(rest[p])]
        /\ UNCHANGED <<slots, disconnected, begun, completed, told, audience>>
    BY <1>6 DEF SkipSlot, SkipOne, StillConnected, signal, loop, history
  <2>2. Range(rest[p]) = {Head(rest[p])} \cup Range(Tail(rest[p]))
    BY <1>0, <2>1, RestEffect
  <2>3. \A q \in Publications : rest'[q] = IF q = p THEN Tail(rest[p]) ELSE rest[q]
    BY <1>t, <2>1
  <2> QED
    BY <1>0, <2>1, <2>2, <2>3 DEF AudienceInv
<1>7. ASSUME NEW p \in Publications, SlotWaits(p) \/ SlotResumes(p) \/ SlotReturns(p)
      PROVE  AudienceInv'
  BY <1>0, <1>s, <1>7, KeepsAudience
  DEF SlotWaits, SlotResumes, SlotReturns, signal, loop, history
<1>8. ASSUME NEW p \in Publications, EndEmission(p)
      PROVE  AudienceInv'
  <2>1. /\ p \in begun /\ begun' = begun \ {p} /\ completed' = completed \cup {p}
        /\ UNCHANGED <<slots, disconnected, rest, told, audience>>
    BY <1>8 DEF EndEmission, signal, history, Loop!Complete
  <2> QED
    BY <1>0, <2>1 DEF AudienceInv
<1> QED
  BY <1>1, <1>2, <1>3, <1>4, <1>5, <1>6, <1>7, <1>8 DEF Next, LoopStep, Emit

-----------------------------------------------------------------------------
\* An action that calls no slot, and publishes and begins nothing.
LEMMA KeepsOvertaken ==
  ASSUME OvertakenInv, held \subseteq held', begun' \subseteq begun,
         UNCHANGED <<published, told>>
  PROVE  OvertakenInv'
BY DEF OvertakenInv, Before

LEMMA OvertakenStep ==
  ASSUME TypeOK, SafetyInv, [Next]_vars
  PROVE  OvertakenInv'
<1>0. OvertakenInv /\ EmissionInv /\ FifoInv /\ HeldInv
  BY DEF SafetyInv
<1>t. /\ told \in [Publications -> Seq(Slots)]
      /\ within \in [Publications -> Slots \cup {None}]
      /\ active \in begun \cup {None} /\ None \notin Publications
      /\ published \in Seq(Publications)
  BY EventsAssumption DEF TypeOK
<1>1. ASSUME NEW s \in Slots, Connect(s) \/ StoreConnection(s) \/ Disconnect(s)
      PROVE  OvertakenInv'
  BY <1>0, <1>1, KeepsOvertaken DEF Connect, StoreConnection, Disconnect, loop, history
<1>2. ASSUME NEW p \in Publications, Publish(p)
      PROVE  OvertakenInv'
  <2>1. /\ p \notin Range(pending) \cup begun \cup completed
        /\ published' = Append(published, p) /\ UNCHANGED <<begun, told, held>>
    BY <1>2, PostEffect DEF Publish
  <2>2. told[p] = <<>>
    BY <1>0, <2>1 DEF EmissionInv
  <2>3. \A x, y \in Publications : Before(x, y)' => Before(x, y) \/ y = p
    BY <1>t, <2>1, BeforeGrows
  <2> QED
    BY <1>0, <2>1, <2>2, <2>3 DEF OvertakenInv
<1>3. CASE Stop \/ UNCHANGED vars
  BY <1>0, <1>3, KeepsOvertaken DEF Stop, Loop!Close, Loop!Quiesce, vars, loop, history
<1>4. CASE BeginEmission
  <2> DEFINE h == Head(pending)
  <2>1. /\ h \in Publications /\ h \in Range(pending) /\ begun' = begun \cup {h}
        /\ UNCHANGED <<published, told, held>>
    BY <1>0, <1>4, BeginEffect DEF BeginEmission, history
  <2>2. \A q \in Publications : Before(h, q) => told[q] = <<>>
    BY <1>0, <2>1 DEF FifoInv, EmissionInv
  <2> QED
    BY <1>0, <2>1, <2>2 DEF OvertakenInv, Before
<1>5. ASSUME NEW q \in Publications, CallSlot(q)
      PROVE  OvertakenInv'
  <2>1. /\ active = q /\ told' = [told EXCEPT ![q] = Append(told[q], Head(rest[q]))]
        /\ UNCHANGED <<begun, published, held>>
    BY <1>0, <1>5, CallEffect DEF loop
  <2>2. ASSUME NEW p \in begun, Before(p, q)
        PROVE  \E t \in Slots : <<p, t>> \in held
    <3>1. p # q
      BY <1>0, <1>t, <2>2, BeforeAsymmetric DEF FifoInv
    <3>2. p \in Publications /\ within[p] # None /\ <<p, within[p]>> \in held
      BY <1>0, <2>1, <3>1 DEF HeldInv, TypeOK
    <3> QED
      BY <1>t, <3>2
  <2>3. \A r \in Publications : r # q => told'[r] = told[r]
    BY <1>t, <2>1
  <2>4. \A x, y \in Publications : Before(x, y)' <=> Before(x, y)
    BY <2>1 DEF Before
  <2>5. ASSUME NEW x \in Publications, NEW y \in Publications,
               Before(x, y), told'[y] # <<>>, x \in begun
        PROVE  \E t \in Slots : <<x, t>> \in held
    <3>1. CASE y = q
      BY <2>2, <2>5, <3>1
    <3>2. CASE y # q
      BY <1>0, <2>3, <2>5, <3>2 DEF OvertakenInv
    <3> QED
      BY <3>1, <3>2
  <2> QED
    BY <2>1, <2>4, <2>5 DEF OvertakenInv
<1>6. ASSUME NEW p \in Publications,
             SkipSlot(p) \/ SlotWaits(p) \/ SlotResumes(p) \/ SlotReturns(p)
      PROVE  OvertakenInv'
  BY <1>0, <1>6, KeepsOvertaken
  DEF SkipSlot, SlotWaits, SlotResumes, SlotReturns, loop, history
<1>7. ASSUME NEW p \in Publications, EndEmission(p)
      PROVE  OvertakenInv'
  BY <1>0, <1>7, KeepsOvertaken DEF EndEmission, Loop!Complete, history
<1> QED
  BY <1>1, <1>2, <1>3, <1>4, <1>5, <1>6, <1>7 DEF Next, LoopStep, Emit

-----------------------------------------------------------------------------
\* What the loop and the emissions do to an expecter that is never called early.
LEMMA KeepsExpecters ==
  ASSUME ExpecterInv, disconnected \subseteq disconnected',
         UNCHANGED <<within, fulfilled, told, early>>
  PROVE  ExpecterInv'
BY DEF ExpecterInv

LEMMA ExpecterStep ==
  ASSUME TypeOK, SafetyInv, [Next]_vars
  PROVE  ExpecterInv'
<1>0. ExpecterInv /\ EmissionInv /\ FifoInv
  BY DEF SafetyInv
<1>t. /\ told \in [Publications -> Seq(Slots)]
      /\ within \in [Publications -> Slots \cup {None}]
      /\ None \notin Slots /\ Expecters \subseteq Slots
  BY EventsAssumption DEF TypeOK, Slots
<1>1. ASSUME NEW s \in Slots, Connect(s) \/ StoreConnection(s) \/ Disconnect(s)
      PROVE  ExpecterInv'
  BY <1>0, <1>1, KeepsExpecters DEF Connect, StoreConnection, Disconnect, emission, history
<1>2. ASSUME NEW p \in Publications,
             Publish(p) \/ SkipSlot(p) \/ SlotWaits(p) \/ SlotResumes(p) \/ EndEmission(p)
      PROVE  ExpecterInv'
  BY <1>0, <1>2, KeepsExpecters
  DEF Publish, SkipSlot, SlotWaits, SlotResumes, EndEmission, signal, emission, history
<1>3. CASE Stop \/ BeginEmission \/ UNCHANGED vars
  BY <1>0, <1>3, KeepsExpecters DEF Stop, BeginEmission, vars, signal, emission, history
<1>4. ASSUME NEW p \in Publications, CallSlot(p)
      PROVE  ExpecterInv'
  <2> DEFINE s == Head(rest[p])
  <2>1. /\ within[p] = None /\ s \in Slots /\ s \notin disconnected
        /\ within' = [within EXCEPT ![p] = s]
        /\ told' = [told EXCEPT ![p] = Append(told[p], s)]
        /\ Range(told'[p]) = Range(told[p]) \cup {s}
        /\ disconnected' = IF s \in Expecters \cap stored THEN disconnected \cup {s} ELSE disconnected
        /\ early' = IF s \in stored THEN early ELSE early \cup {s}
        /\ UNCHANGED fulfilled
    BY <1>0, <1>4, CallEffect
  <2>2. \A q \in Publications : q # p => told'[q] = told[q] /\ within'[q] = within[q]
    BY <1>t, <2>1
  <2>3. within'[p] = s
    BY <1>t, <2>1
  <2> SUFFICES ASSUME NEW e \in Expecters \ early'
               PROVE  /\ \A q \in Publications : e \in Range(told'[q]) => e \in disconnected'
                      /\ \A q, r \in Publications :
                           e \in Range(told'[q]) /\ e \in Range(told'[r]) => q = r
                      /\ e \in fulfilled =>
                           \E q \in Publications : e \in Range(told'[q]) /\ within'[q] # e
    BY <2>1 DEF ExpecterInv
  <2>4. e \in Expecters \ early
    BY <2>1
  <2>5. CASE e = s
    <3>1. e \in stored
      BY <2>1, <2>5
    <3>2. \A q \in Publications : e \notin Range(told[q])
      BY <1>0, <2>1, <2>4, <2>5 DEF ExpecterInv
    <3>3. e \notin fulfilled
      BY <1>0, <2>4, <3>2 DEF ExpecterInv
    <3>4. \A q \in Publications : e \in Range(told'[q]) => q = p
      BY <2>2, <3>2
    <3> QED
      BY <2>1, <2>5, <3>1, <3>3, <3>4
  <2>6. CASE e # s
    <3>1. \A q \in Publications : e \in Range(told'[q]) <=> e \in Range(told[q])
      BY <2>1, <2>2, <2>6
    <3>2. \A q \in Publications : within[q] # e => within'[q] # e
      BY <2>2, <2>3, <2>6
    <3> QED
      BY <1>0, <2>1, <2>4, <3>1, <3>2 DEF ExpecterInv
  <2> QED
    BY <2>5, <2>6
<1>5. ASSUME NEW p \in Publications, SlotReturns(p)
      PROVE  ExpecterInv'
  <2>1. /\ within[p] # None /\ within' = [within EXCEPT ![p] = None]
        /\ fulfilled' = fulfilled \/ fulfilled' = fulfilled \cup {within[p]}
        /\ UNCHANGED <<disconnected, told, early>>
    BY <1>5 DEF SlotReturns, signal, history
  <2>2. within[p] \in Range(told[p])
    BY <1>0, <2>1 DEF EmissionInv
  <2>3. \A q \in Publications : within'[q] = IF q = p THEN None ELSE within[q]
    BY <1>t, <2>1
  <2>4. ASSUME NEW e \in Expecters \ early, e \in fulfilled'
        PROVE  \E q \in Publications : e \in Range(told[q]) /\ within'[q] # e
    <3>1. e # None
      BY <1>t
    <3>2. CASE e = within[p]
      BY <2>2, <2>3, <3>1, <3>2
    <3>3. CASE e # within[p]
      <4>1. PICK q \in Publications : e \in Range(told[q]) /\ within[q] # e
        BY <1>0, <2>1, <2>4, <3>3 DEF ExpecterInv
      <4> QED
        BY <2>3, <3>1, <4>1
    <3> QED
      BY <3>2, <3>3
  <2> QED
    BY <1>0, <2>1, <2>4 DEF ExpecterInv
<1> QED
  BY <1>1, <1>2, <1>3, <1>4, <1>5 DEF Next, LoopStep, Emit

\* The promise of an expecter that was never called early is fulfilled once.
LEMMA AbortStep ==
  ASSUME TypeOK, SafetyInv, aborted => early # {}, [Next]_vars
  PROVE  aborted' => early' # {}
<1>1. ASSUME NEW p \in Publications, SlotReturns(p), aborted'
      PROVE  early' # {}
  <2>1. within[p] \in Expecters /\ within[p] \in fulfilled /\ ~aborted /\ early' = early
    BY <1>1 DEF SlotReturns, history
  <2>2. within[p] \in Range(told[p])
    BY <2>1, EventsAssumption DEF SafetyInv, EmissionInv, Slots
  <2>3. within[p] \in early
    BY <2>1, <2>2 DEF SafetyInv, ExpecterInv
  <2> QED
    BY <2>1, <2>3
<1>2. ASSUME NEW p \in Publications,
             \/ Publish(p) \/ CallSlot(p) \/ SkipSlot(p)
             \/ SlotWaits(p) \/ SlotResumes(p) \/ EndEmission(p)
      PROVE  aborted' = aborted /\ ~aborted
  BY <1>2 DEF Publish, CallSlot, SkipSlot, SlotWaits, SlotResumes, EndEmission
<1>3. ASSUME NEW s \in Slots, Connect(s) \/ StoreConnection(s) \/ Disconnect(s)
      PROVE  aborted' = aborted /\ ~aborted
  BY <1>3 DEF Connect, StoreConnection, Disconnect
<1>4. CASE Stop \/ BeginEmission
  BY <1>4 DEF Stop, BeginEmission
<1>5. CASE UNCHANGED vars
  BY <1>5 DEF vars, history
<1> QED
  BY <1>1, <1>2, <1>3, <1>4, <1>5 DEF Next, LoopStep, Emit

-----------------------------------------------------------------------------
LEMMA TypeStep ==
  ASSUME TypeOK, SafetyInv, [Next]_vars
  PROVE  TypeOK'
<1> USE EventsAssumption
<1>0. EmissionInv /\ FifoInv /\ SlotsInv
  BY DEF SafetyInv
<1>q. \A q : ToSet(q) = Range(q)
  BY ToSetIsRange
<1>1. ASSUME NEW s \in Slots, Connect(s) PROVE TypeOK'
  <2>1. /\ slots' \in Seq(Slots) /\ Range(slots') = Range(slots) \cup {s}
        /\ stored' \subseteq stored \cup {s}
        /\ UNCHANGED <<disconnected, emission, fulfilled, aborted, loop, history>>
    BY <1>1, ConnectEffect
  <2>2. disconnected' \subseteq ToSet(slots') /\ stored' \subseteq ToSet(slots')
    BY <2>1, <1>q DEF TypeOK
  <2> QED
    BY <2>1, <2>2 DEF TypeOK, emission, loop, history
<1>2. ASSUME NEW s \in Slots, StoreConnection(s) \/ Disconnect(s) PROVE TypeOK'
  <2>1. disconnected' \subseteq ToSet(slots) /\ stored' \subseteq ToSet(slots)
    BY <1>2 DEF TypeOK, StoreConnection, Disconnect, Connected
  <2> QED
    BY <1>2, <2>1, <1>q DEF TypeOK, StoreConnection, Disconnect, emission, loop, history
<1>3. ASSUME NEW p \in Publications, Publish(p) PROVE TypeOK'
  <2>1. /\ pending' = Append(pending, p) /\ published' = Append(published, p)
        /\ audience' = [audience EXCEPT ![p] = Connected]
        /\ UNCHANGED <<signal, emission, fulfilled, aborted, told, held, early,
                       begun, completed, closed, quiescent>>
    BY <1>3, PostEffect DEF Publish
  <2>2. pending' \in Seq(Publications) /\ published' \in Seq(Publications)
    BY <2>1, AppendProperties DEF TypeOK
  <2>3. Connected \subseteq Slots
    BY ElementOfSeq DEF Connected, TypeOK, ToSet
  <2>4. audience' \in [Publications -> SUBSET Slots]
    BY <2>1, <2>3 DEF TypeOK
  <2> QED
    BY <2>1, <2>2, <2>4, <1>q DEF TypeOK, signal, emission
<1>4. CASE Stop
  BY <1>4, <1>q DEF Stop, Loop!Close, Loop!Quiesce, TypeOK, signal, emission, history
<1>5. CASE BeginEmission
  <2> DEFINE h == Head(pending)
  <2>1. /\ h \in Publications /\ pending' \in Seq(Publications) /\ begun' = begun \cup {h}
        /\ active' = h /\ rest' = [rest EXCEPT ![h] = slots]
        /\ UNCHANGED <<signal, within, fulfilled, aborted, history, completed, closed, quiescent>>
    BY <1>0, <1>5, BeginEffect DEF BeginEmission
  <2>2. rest' \in [Publications -> Seq(Slots)]
    BY <2>1 DEF TypeOK
  <2> QED
    BY <2>1, <2>2, <1>q DEF TypeOK, signal, history
<1>6. ASSUME NEW p \in Publications, CallSlot(p) PROVE TypeOK'
  <2> DEFINE s == Head(rest[p])
  <2>1. /\ s \in Slots /\ s \in Range(slots)
        /\ rest' \in [Publications -> Seq(Slots)]
        /\ within' = [within EXCEPT ![p] = s]
        /\ told' \in [Publications -> Seq(Slots)]
        /\ disconnected' = IF s \in Expecters \cap stored THEN disconnected \cup {s} ELSE disconnected
        /\ early' = IF s \in stored THEN early ELSE early \cup {s}
        /\ UNCHANGED <<slots, stored, active, fulfilled, aborted, loop, published, audience, held>>
    BY <1>0, <1>6, CallEffect
  <2>2. s \notin stored => s \in ClientExpecters
    BY <1>0, <2>1 DEF SlotsInv
  <2>3. /\ within' \in [Publications -> Slots \cup {None}]
        /\ disconnected' \subseteq ToSet(slots) /\ early' \subseteq ClientExpecters
    BY <2>1, <2>2, <1>q DEF TypeOK
  <2> QED
    BY <2>1, <2>3, <1>q DEF TypeOK, loop
<1>7. ASSUME NEW p \in Publications, SkipSlot(p) PROVE TypeOK'
  <2>1. rest' = [rest EXCEPT ![p] = Tail(rest[p])] /\ rest[p] # <<>>
    BY <1>7 DEF SkipSlot, SkipOne
  <2>2. rest' \in [Publications -> Seq(Slots)]
    BY <1>0, <2>1, RestEffect DEF TypeOK
  <2> QED
    BY <1>7, <2>2, <1>q DEF SkipSlot, TypeOK, signal, loop, history
<1>8. ASSUME NEW p \in Publications, SlotWaits(p) PROVE TypeOK'
  <2>1. within[p] \in Slots
    BY <1>8 DEF SlotWaits
  <2> QED
    BY <1>8, <2>1, <1>q DEF SlotWaits, TypeOK, signal, loop
<1>9. ASSUME NEW p \in Publications, SlotResumes(p) PROVE TypeOK'
  <2>1. p \in begun
    BY <1>0, <1>9 DEF SlotResumes, EmissionInv
  <2> QED
    BY <1>9, <2>1, <1>q DEF SlotResumes, TypeOK, signal, loop, history
<1>10. ASSUME NEW p \in Publications, SlotReturns(p) PROVE TypeOK'
  <2>1. within' \in [Publications -> Slots \cup {None}] /\ fulfilled' \subseteq Expecters
    BY <1>10 DEF SlotReturns, TypeOK
  <2>2. aborted' \in BOOLEAN
    <3>1. CASE within[p] \in Expecters
      <4>1. aborted' = (within[p] \in fulfilled)
        BY <1>10, <3>1 DEF SlotReturns
      <4> QED
        BY <4>1
    <3>2. CASE within[p] \notin Expecters
      BY <1>10, <3>2 DEF SlotReturns, TypeOK
    <3> QED
      BY <3>1, <3>2
  <2> QED
    BY <1>10, <2>1, <2>2, <1>q DEF SlotReturns, TypeOK, signal, loop, history
<1>11. ASSUME NEW p \in Publications, EndEmission(p) PROVE TypeOK'
  <2>1. /\ active' = None /\ begun' = begun \ {p} /\ completed' = completed \cup {p}
        /\ UNCHANGED <<pending, closed, quiescent>>
    BY <1>11 DEF EndEmission, Loop!Complete
  <2> QED
    BY <1>11, <2>1, <1>q DEF EndEmission, TypeOK, signal, history
<1>12. CASE UNCHANGED vars
  BY <1>12, <1>q DEF vars, TypeOK, signal, emission, loop, history
<1> QED
  BY <1>1, <1>2, <1>3, <1>4, <1>5, <1>6, <1>7, <1>8, <1>9, <1>10, <1>11, <1>12
  DEF Next, LoopStep, Emit

-----------------------------------------------------------------------------
LEMMA InitIInv == Init => IInv
<1> SUFFICES ASSUME Init PROVE IInv
  OBVIOUS
<1>1. /\ slots = <<>> /\ disconnected = {} /\ stored = {}
      /\ rest = [p \in Publications |-> <<>>]
      /\ within = [p \in Publications |-> None]
      /\ active = None /\ fulfilled = {} /\ aborted = FALSE
      /\ pending = <<>> /\ begun = {} /\ completed = {}
      /\ closed = FALSE /\ quiescent = FALSE
      /\ published = <<>> /\ audience = [p \in Publications |-> {}]
      /\ told = [p \in Publications |-> <<>>] /\ held = {} /\ early = {}
  BY DEF Init, Loop!ExecInit
<1>2. DOMAIN <<>> = {} /\ Range(<<>>) = {} /\ ToSet(<<>>) = {}
  BY DEF Range, ToSet
<1>3. TypeOK
  <2>1. /\ rest \in [Publications -> Seq(Slots)] /\ told \in [Publications -> Seq(Slots)]
        /\ within \in [Publications -> Slots \cup {None}]
        /\ audience \in [Publications -> SUBSET Slots]
    BY <1>1
  <2>2. slots \in Seq(Slots) /\ pending \in Seq(Publications) /\ published \in Seq(Publications)
    BY <1>1
  <2> QED
    BY <1>1, <1>2, <2>1, <2>2 DEF TypeOK
<1>4. FifoInv /\ SlotsInv /\ OvertakenInv
  BY <1>1, <1>2 DEF FifoInv, SlotsInv, OvertakenInv, Before, IsInjective
<1>5. EmissionInv /\ HeldInv /\ AudienceInv /\ ExpecterInv
  BY <1>1, <1>2 DEF EmissionInv, HeldInv, AudienceInv, ExpecterInv, IsInjective
<1> QED
  BY <1>1, <1>3, <1>4, <1>5 DEF IInv, SafetyInv

LEMMA NextIInv == IInv /\ [Next]_vars => IInv'
<1> SUFFICES ASSUME IInv, [Next]_vars PROVE IInv'
  OBVIOUS
<1>1. TypeOK /\ SafetyInv /\ (aborted => early # {})
  BY DEF IInv
<1>2. TypeOK' /\ (aborted' => early' # {})
  BY <1>1, TypeStep, AbortStep
<1>3. FifoInv' /\ SlotsInv' /\ EmissionInv' /\ HeldInv'
  BY <1>1, FifoStep, SlotsStep, EmissionStep
<1>4. AudienceInv' /\ OvertakenInv' /\ ExpecterInv'
  BY <1>1, AudienceStep, OvertakenStep, ExpecterStep
<1> QED
  BY <1>2, <1>3, <1>4 DEF IInv, SafetyInv

\* The inductive invariant of events.
THEOREM Invariance == Spec => []IInv
  BY InitIInv, NextIInv, PTL DEF Spec

\* Signals and emissions keep their shape, for any number of slots.
THEOREM TypeCorrect == Spec => []TypeOK
<1>1. IInv => TypeOK
  BY DEF IInv
<1> QED
  BY <1>1, Invariance, PTL

\* However many emissions overlap and whatever disconnects meanwhile, publish
\* reaches every slot connected at the call that stays connected.
THEOREM NobodyMissesAnEvent == Spec => []AudienceIsTold
<1>1. IInv => AudienceIsTold
  <2> SUFFICES ASSUME IInv, NEW p \in completed
               PROVE  audience[p] \subseteq ToSet(told[p]) \cup disconnected
    BY DEF AudienceIsTold
  <2>1. p \in Publications /\ p \notin begun
    BY DEF IInv, SafetyInv, FifoInv, TypeOK
  <2>2. Range(rest[p]) = {}
    BY <2>1, EmptyRange DEF IInv, SafetyInv, EmissionInv
  <2> QED
    BY <2>1, <2>2, ToSetIsRange DEF IInv, SafetyInv, AudienceInv
<1> QED
  BY <1>1, Invariance, PTL

\* publish keeps the order of events, for each slot, unless a slot connected
\* earlier suspended the earlier emission.
THEOREM EventsInOrder == Spec => []OvertakenOnlyWhileHeld
<1>1. IInv => OvertakenOnlyWhileHeld
  <2> SUFFICES ASSUME IInv, NEW p \in Publications, NEW q \in Publications, NEW s \in Slots,
                      Before(p, q), s \in Range(told[q]),
                      p \in Range(pending) \/ s \in Range(rest[p]) \ disconnected
               PROVE  \E t \in Slots \ {s} : <<p, t>> \in held
    BY ToSetIsRange DEF OvertakenOnlyWhileHeld
  <2>1. told[q] # <<>>
    BY EmptyRange
  <2>2. p \notin Range(pending)
    <3>1. q \in begun \cup completed
      BY <2>1 DEF IInv, SafetyInv, EmissionInv
    <3> QED
      BY <3>1 DEF IInv, SafetyInv, FifoInv
  <2>3. s \in Range(rest[p])
    BY <2>2
  <2>4. p \in begun
    BY <2>3, EmptyRange DEF IInv, SafetyInv, EmissionInv
  <2>5. PICK t \in Slots : <<p, t>> \in held
    BY <2>1, <2>4 DEF IInv, SafetyInv, OvertakenInv
  <2>6. t \in Range(told[p])
    BY <2>5 DEF IInv, SafetyInv, HeldInv
  <2>7. t # s
    BY <2>3, <2>6 DEF IInv, SafetyInv, EmissionInv
  <2> QED
    BY <2>5, <2>7
<1> QED
  BY <1>1, Invariance, PTL

\* expect hears one event, and its promise is never fulfilled twice, unless
\* it was called before its connection was stored.
THEOREM ExpectHearsOnce == Spec => []ExpectIsOneShot
<1>1. IInv => ExpectIsOneShot
  BY ToSetIsRange DEF IInv, SafetyInv, ExpecterInv, ExpectIsOneShot
<1> QED
  BY <1>1, Invariance, PTL
=============================================================================
