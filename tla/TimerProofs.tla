---------------------------- MODULE TimerProofs ----------------------------
(***************************************************************************)
(* The safety of Timer for any number of requests, with any durations, and *)
(* any number of threads.                                                  *)
(*                                                                         *)
(* IInv is the inductive invariant.  Its core is that a request is in one  *)
(* place at a time, and an account of its callback's runs: those that have *)
(* happened and those that the loop's queue holds take their durations of  *)
(* the clock, and the armed wait takes one duration more.  For the request *)
(* made last the account is exact, as long as the loop keeps up.  KeptInv  *)
(* adds that no request is lost on its way from one place to the next.     *)
(***************************************************************************)
EXTENDS Timer, SequenceLemmas

Queued(what, r) == Entry(what, r) \in Range(io_queue)

\* The handlers of completed waits, and the callbacks, are queued once, and a
\* request's callback never behind the handler of its next wait.
Orderly(q) ==
  \A i, j \in DOMAIN q :
    /\ q[i] = q[j] /\ q[i].what # "aborted" => i = j
    /\ q[i].what = "expired" /\ q[j].what = "callback" /\ q[i].req = q[j].req => j < i

\* A request is made once, and then armed, completed or in a call: one of them.
PlaceInv ==
  /\ Orderly(io_queue) /\ IsInjective(waits)
  /\ \A th \in Threads : step[th] = "idle" <=> doing[th] = None
  /\ \A th \in Clients : step[th] # "expire"
  /\ \A th, o \in Threads : doing[th] = doing[o] /\ doing[th] # None => th = o
  /\ \A r \in Requests :
       /\ ~(r \in Range(waits) /\ Queued("expired", r))
       /\ \A th \in Threads : doing[th] = r => r \notin Range(waits) /\ ~Queued("expired", r)
       /\ r \notin issued =>
            /\ r \notin Range(waits) /\ ~Queued("expired", r) /\ ~Queued("callback", r)
            /\ \A th \in Threads : doing[th] # r
            /\ runs[r] = 0

\* Without overlapping calls, only one thread is about to arm a wait, and then
\* none is armed.
CallInv ==
  ~raced =>
    /\ Len(waits) <= 1
    /\ \A th \in Threads : step[th] = "arm" =>
         waits = <<>> /\ \A o \in Threads : step[o] = "arm" => o = th

\* A destroyed timer has no armed wait, and one destroyed while nothing was
\* going on is used no more.
DestroyInv ==
  /\ destroyed # "no" => waits = <<>>
  /\ destroyed = "quiet" => ~Rearming /\ \A th \in Threads : step[th] = "idle"

One(b) == IF b THEN 1 ELSE 0

\* The runs of r's callback, with those that the loop has yet to do.
Owed(r) == runs[r] + One(Queued("callback", r)) + One(Queued("expired", r))

\* They took their time, and so will the next.
AccountInv ==
  ~raced =>
    /\ \A r \in Requests : Owed(r) * Interval(r) <= now - start[r]
    /\ \A r \in Range(waits) : (Owed(r) + 1) * Interval(r) <= deadline - start[r]
    /\ \A th \in Threads : step[th] = "arm" =>
         (Owed(doing[th]) + 1) * Interval(doing[th]) <= expiry - start[doing[th]]

\* DoIn runs its callback once.
OnceInv ==
  \A r \in Requests \ Repeating :
    /\ Owed(r) <= 1
    /\ r \in Range(waits) \/ (\E th \in Threads : doing[th] = r) => Owed(r) = 0

\* The account of r is exact: the clock has not passed the end of the interval
\* that r is armed for, or stands there until r's handler and DoEvery's next
\* call are done.
Exact(r) ==
  \/ \E th \in Threads : /\ doing[th] = r /\ step[th] = "arm"
                         /\ expiry = start[r] + (Owed(r) + 1) * Interval(r) /\ now <= expiry
  \/ /\ r \in Range(waits)
     /\ deadline = start[r] + (Owed(r) + 1) * Interval(r) /\ now <= deadline
  \/ /\ Queued("expired", r) \/ \E th \in Threads : doing[th] = r /\ step[th] = "expire"
     /\ now = start[r] + Owed(r) * Interval(r)
  \/ r \notin Repeating /\ Owed(r) = 1 /\ start[r] + Interval(r) <= now

\* As long as the loop keeps up and no calls overlap, the latest request's is.
LatestInv ==
  ~late /\ ~raced /\ wanted # None /\ wanted \notin dropped => Exact(wanted)

SafetyInv == PlaceInv /\ CallInv /\ DestroyInv /\ AccountInv /\ OnceInv /\ LatestInv

IInv == TypeOK /\ SafetyInv /\ QuietDestroyIsSafe

-----------------------------------------------------------------------------
\* Entries are told apart by what they are and by their request.
LEMMA EntryFacts ==
  /\ \A what \in {"expired", "aborted", "callback"}, r \in Requests :
       Entry(what, r) \in QueueEntry
  /\ \A k, l, r, o : Entry(k, r) = Entry(l, o) <=> k = l /\ r = o
  /\ \A k, r : Entry(k, r).what = k /\ Entry(k, r).req = r
  /\ \A e \in QueueEntry : e = Entry(e.what, e.req) /\ e.req \in Requests
BY DEF Entry, QueueEntry

\* The handlers of a queue of waits.
LEMMA EntriesOf ==
  ASSUME NEW w \in Seq(Requests), NEW what \in {"expired", "aborted", "callback"}
  PROVE  /\ Entries(what, w) \in Seq(QueueEntry) /\ Len(Entries(what, w)) = Len(w)
         /\ \A i \in 1..Len(w) : Entries(what, w)[i] = Entry(what, w[i])
         /\ \A k, r : Entry(k, r) \in Range(Entries(what, w)) <=> k = what /\ r \in Range(w)
<1>1. DOMAIN w = 1..Len(w) /\ Len(w) \in Nat /\ \A i \in 1..Len(w) : w[i] \in Requests
  BY LenProperties, ElementOfSeq
<1>2. Entries(what, w) = [i \in 1..Len(w) |-> Entry(what, w[i])]
  BY <1>1 DEF Entries
<1>3. Entries(what, w) \in [1..Len(w) -> QueueEntry]
  BY <1>1, <1>2, EntryFacts
<1>4. Entries(what, w) \in Seq(QueueEntry) /\ Len(Entries(what, w)) = Len(w)
  BY <1>1, <1>3, LenProperties, SeqDef
<1>5. \A i \in 1..Len(w) : Entries(what, w)[i] = Entry(what, w[i])
  BY <1>2
<1>6. ASSUME NEW k, NEW r
      PROVE  Entry(k, r) \in Range(Entries(what, w)) <=> k = what /\ r \in Range(w)
  <2>1. Range(Entries(what, w)) = {Entry(what, w[i]) : i \in 1..Len(w)}
    BY <1>2 DEF Range
  <2>2. Range(w) = {w[i] : i \in 1..Len(w)}
    BY <1>1 DEF Range
  <2> QED
    BY <2>1, <2>2, EntryFacts
<1> QED
  BY <1>4, <1>5, <1>6

\* Handlers of waits join the queue: those of completed waits are not there yet.
LEMMA HandlersJoin ==
  ASSUME NEW q \in Seq(QueueEntry), Orderly(q),
         NEW w \in Seq(Requests), IsInjective(w), NEW what \in {"expired", "aborted"},
         what = "expired" => \A r \in Range(w) : Entry(what, r) \notin Range(q)
  PROVE  /\ q \o Entries(what, w) \in Seq(QueueEntry)
         /\ Orderly(q \o Entries(what, w))
         /\ \A k, r : Entry(k, r) \in Range(q \o Entries(what, w)) <=>
              Entry(k, r) \in Range(q) \/ (k = what /\ r \in Range(w))
<1> DEFINE e == Entries(what, w)
           n == Len(q)
           c == q \o e
<1>1. /\ e \in Seq(QueueEntry) /\ Len(e) = Len(w) /\ Len(w) \in Nat
      /\ \A i \in 1..Len(w) : e[i] = Entry(what, w[i])
      /\ \A k, r : Entry(k, r) \in Range(e) <=> k = what /\ r \in Range(w)
  BY EntriesOf, LenProperties
<1>2. n \in Nat /\ DOMAIN q = 1..n /\ DOMAIN w = 1..Len(w)
  BY LenProperties
<1> HIDE DEF e
<1>3. /\ c \in Seq(QueueEntry) /\ Len(c) = n + Len(w) /\ DOMAIN c = 1..(n + Len(w))
      /\ \A i \in 1..(n + Len(w)) : c[i] = IF i <= n THEN q[i] ELSE e[i - n]
  <2>1. /\ c \in Seq(QueueEntry) /\ Len(c) = Len(q) + Len(e)
        /\ \A i \in 1..(Len(q) + Len(e)) : c[i] = IF i <= Len(q) THEN q[i] ELSE e[i - Len(q)]
    BY <1>1, ConcatProperties
  <2>2. DOMAIN c = 1..Len(c)
    BY <2>1, LenProperties
  <2> QED
    BY <1>1, <2>1, <2>2
<1>4. Range(c) = Range(q) \cup Range(e)
  BY <1>1, RangeConcatenation
<1> HIDE DEF c
<1>5. ASSUME NEW i \in DOMAIN c, i > n
      PROVE  i - n \in 1..Len(w) /\ c[i] = Entry(what, w[i - n])
  <2>1. i \in 1..(n + Len(w)) /\ i - n \in 1..Len(w) /\ ~(i <= n)
    BY <1>1, <1>2, <1>3, <1>5
  <2> QED
    BY <1>1, <1>3, <2>1
<1>6. ASSUME NEW i \in DOMAIN c, ~(i > n)
      PROVE  i \in DOMAIN q /\ c[i] = q[i]
  BY <1>1, <1>2, <1>3, <1>6
<1>7. ASSUME NEW i \in DOMAIN c, NEW j \in DOMAIN c, c[i] = c[j], c[i].what # "aborted"
      PROVE  i = j
  <2>1. CASE i > n /\ j > n
    <3>1. w[i - n] = w[j - n] /\ i - n \in DOMAIN w /\ j - n \in DOMAIN w
      BY <1>2, <1>5, <1>7, <2>1, EntryFacts
    <3>2. i - n = j - n
      BY <3>1 DEF IsInjective
    <3> QED
      BY <1>1, <1>2, <1>3, <3>2
  <2>2. ASSUME NEW x \in DOMAIN c, NEW y \in DOMAIN c, c[x] = c[y],
               c[x].what # "aborted", x > n, ~(y > n)
        PROVE  FALSE
    <3>1. c[x] = Entry(what, w[x - n]) /\ x - n \in DOMAIN w /\ what = "expired"
      BY <1>2, <1>5, <2>2, EntryFacts
    <3>2. w[x - n] \in Range(w)
      BY <3>1 DEF Range
    <3>3. c[y] \in Range(q)
      BY <1>6, <2>2 DEF Range
    <3> QED
      BY <2>2, <3>1, <3>2, <3>3
  <2>3. CASE ~(i > n) /\ ~(j > n)
    BY <1>6, <1>7, <2>3 DEF Orderly
  <2> QED
    BY <1>7, <2>1, <2>2, <2>3
<1>8. ASSUME NEW i \in DOMAIN c, NEW j \in DOMAIN c,
             c[i].what = "expired", c[j].what = "callback", c[i].req = c[j].req
      PROVE  j < i
  <2>1. ~(j > n)
    BY <1>5, <1>8, EntryFacts
  <2>2. CASE i > n
    BY <1>1, <1>2, <1>3, <2>1, <2>2
  <2>3. CASE ~(i > n)
    BY <1>6, <1>8, <2>1, <2>3 DEF Orderly
  <2> QED
    BY <2>2, <2>3
<1>9. Orderly(c)
  BY <1>7, <1>8 DEF Orderly
<1> QED
  BY <1>1, <1>3, <1>4, <1>9 DEF c, e

\* The oldest entry leaves the queue: if it counts, it was there once, and a
\* completed wait's handler comes before its request's next callback.
LEMMA OldestLeaves ==
  ASSUME NEW q \in Seq(QueueEntry), Orderly(q), q # <<>>
  PROVE  /\ Tail(q) \in Seq(QueueEntry) /\ Orderly(Tail(q)) /\ Head(q) \in QueueEntry
         /\ Head(q) \in Range(q)
         /\ \A k, r : k # "aborted" =>
              (Entry(k, r) \in Range(Tail(q)) <=> Entry(k, r) \in Range(q) /\ Entry(k, r) # Head(q))
         /\ Head(q).what = "expired" => Entry("callback", Head(q).req) \notin Range(q)
<1> DEFINE t == Tail(q)
<1>1. /\ DOMAIN q = 1..Len(q) /\ Len(q) \in Nat \ {0} /\ Head(q) = q[1]
  BY LenProperties, EmptySeq
<1>2. /\ t \in Seq(QueueEntry) /\ Head(q) \in QueueEntry
      /\ Range(q) = {Head(q)} \cup Range(t)
  BY HeadTailRange
<1>3. /\ DOMAIN t = 1..(Len(q) - 1)
      /\ \A i \in 1..(Len(q) - 1) : t[i] = q[i + 1] /\ i + 1 \in DOMAIN q
  BY <1>1, HeadTailProperties, LenProperties
<1> HIDE DEF t
<1>4. Orderly(t)
  <2> SUFFICES ASSUME NEW i \in DOMAIN t, NEW j \in DOMAIN t
               PROVE  /\ t[i] = t[j] /\ t[i].what # "aborted" => i = j
                      /\ t[i].what = "expired" /\ t[j].what = "callback" /\ t[i].req = t[j].req
                         => j < i
    BY DEF Orderly
  <2>1. i \in Int /\ j \in Int /\ i + 1 \in DOMAIN q /\ j + 1 \in DOMAIN q
        /\ t[i] = q[i + 1] /\ t[j] = q[j + 1]
    BY <1>1, <1>3
  <2>2. /\ q[i + 1] = q[j + 1] /\ q[i + 1].what # "aborted" => i + 1 = j + 1
        /\ q[i + 1].what = "expired" /\ q[j + 1].what = "callback"
           /\ q[i + 1].req = q[j + 1].req => j + 1 < i + 1
    BY <2>1 DEF Orderly
  <2> QED
    BY <2>1, <2>2
<1>5. ASSUME NEW k, NEW r, k # "aborted", Entry(k, r) = Head(q)
      PROVE  Entry(k, r) \notin Range(t)
  <2>1. SUFFICES ASSUME NEW i \in DOMAIN t, t[i] = Entry(k, r) PROVE FALSE
    BY DEF Range
  <2>2. 1 \in DOMAIN q /\ i + 1 \in DOMAIN q /\ q[1] = q[i + 1] /\ q[1].what # "aborted"
    BY <1>1, <1>3, <1>5, <2>1, EntryFacts
  <2>3. 1 = i + 1 /\ i \in 1..(Len(q) - 1)
    BY <1>3, <2>2 DEF Orderly
  <2> QED
    BY <1>1, <2>3
<1>6. ASSUME Head(q).what = "expired", Entry("callback", Head(q).req) \in Range(q)
      PROVE  FALSE
  <2>1. PICK j \in DOMAIN q : q[j] = Entry("callback", Head(q).req)
    BY <1>6 DEF Range
  <2>2. 1 \in DOMAIN q /\ q[1].what = "expired" /\ q[j].what = "callback"
        /\ q[1].req = q[j].req
    BY <1>1, <1>6, <2>1, EntryFacts
  <2>3. j < 1
    BY <2>2 DEF Orderly
  <2> QED
    BY <1>1, <2>1, <2>3
<1> QED
  BY <1>2, <1>4, <1>5, <1>6 DEF t

\* A callback joins the queue: no handler of its request is there.
LEMMA CallbackJoins ==
  ASSUME NEW q \in Seq(QueueEntry), Orderly(q), NEW r \in Requests,
         Entry("expired", r) \notin Range(q), Entry("callback", r) \notin Range(q)
  PROVE  /\ Append(q, Entry("callback", r)) \in Seq(QueueEntry)
         /\ Orderly(Append(q, Entry("callback", r)))
         /\ \A k, o : Entry(k, o) \in Range(Append(q, Entry("callback", r))) <=>
              Entry(k, o) \in Range(q) \/ (k = "callback" /\ o = r)
<1> DEFINE e == Entry("callback", r)
           n == Len(q)
           c == Append(q, e)
<1>1. e \in QueueEntry /\ e.what = "callback" /\ e.req = r
  BY EntryFacts
<1>2. n \in Nat /\ DOMAIN q = 1..n
  BY LenProperties
<1>3. /\ c \in Seq(QueueEntry) /\ DOMAIN c = 1..(n + 1)
      /\ \A i \in 1..n : c[i] = q[i] /\ c[n + 1] = e
  BY <1>1, AppendProperties, LenProperties
<1>4. Range(c) = Range(q) \cup {e} /\ c[n + 1] = e
  BY <1>1, <1>2, RangeAppend, AppendProperties
<1> HIDE DEF c, n
<1>5. \A i \in DOMAIN c : i = n + 1 \/ (i \in DOMAIN q /\ c[i] = q[i] /\ c[i] \in Range(q))
  BY <1>2, <1>3 DEF Range
<1>6. \A i \in DOMAIN q : q[i] \in QueueEntry
  BY ElementOfSeq, LenProperties
<1>7. ASSUME NEW i \in DOMAIN q
      PROVE  q[i] # e /\ ~(q[i].what = "expired" /\ q[i].req = r)
  <2>1. q[i] \in Range(q) /\ q[i] = Entry(q[i].what, q[i].req)
    BY <1>6, EntryFacts DEF Range
  <2> QED
    BY <2>1
<1>8. Orderly(c)
  <2> SUFFICES ASSUME NEW i \in DOMAIN c, NEW j \in DOMAIN c
               PROVE  /\ c[i] = c[j] /\ c[i].what # "aborted" => i = j
                      /\ c[i].what = "expired" /\ c[j].what = "callback" /\ c[i].req = c[j].req
                         => j < i
    BY DEF Orderly
  <2>1. CASE i = n + 1
    BY <1>1, <1>4, <1>5, <1>7, <2>1
  <2>2. CASE i # n + 1 /\ j = n + 1
    BY <1>1, <1>4, <1>5, <1>7, <2>2
  <2>3. CASE i # n + 1 /\ j # n + 1
    BY <1>5, <2>3 DEF Orderly
  <2> QED
    BY <2>1, <2>2, <2>3
<1> HIDE DEF e
<1>9. \A k, o : Entry(k, o) = e <=> k = "callback" /\ o = r
  BY EntryFacts DEF e
<1> QED
  BY <1>3, <1>4, <1>8, <1>9 DEF c, e

\* A completed DoEvery wait with its handler still to run.
LEMMA RearmingIs ==
  ASSUME NEW q \in Seq(QueueEntry)
  PROVE  (\E i \in DOMAIN q : q[i].what = "expired" /\ q[i].req \in Repeating)
           <=> \E r \in Repeating : Entry("expired", r) \in Range(q)
<1>1. \A i \in DOMAIN q : q[i] = Entry(q[i].what, q[i].req)
  BY EntryFacts, ElementOfSeq, LenProperties
<1> QED
  BY <1>1, EntryFacts DEF Range

\* One duration more.
LEMMA OneMore ==
  ASSUME NEW n \in Nat, NEW d \in Nat
  PROVE  (n + 1) * d = n * d + d /\ n * d \in Nat
OBVIOUS

\* What duration_cast leaves of a duration: less than a millisecond is cut off.
LEMMA IntervalCuts ==
  \A r \in Requests :
    Interval(r) \in Nat /\ Interval(r) <= Duration[r] /\ Duration[r] < Interval(r) + Milli
<1>1. \A d \in Nat, m \in Nat \ {0} :
        (d \div m) * m \in Nat /\ (d \div m) * m <= d /\ d < (d \div m) * m + m
  OBVIOUS
<1> QED
  BY <1>1, TimerAssumption DEF Interval

LEMMA IntervalIsNat == \A r \in Requests : Interval(r) \in Nat
BY IntervalCuts

LEMMA OwedIsNat ==
  ASSUME TypeOK, NEW r \in Requests
  PROVE  Owed(r) \in Nat /\ runs[r] <= Owed(r) /\ runs[r] \in Nat
BY DEF TypeOK, Owed, One

LEMMA EmptyWaits ==
  /\ <<>> \in Seq(Requests) /\ IsInjective(<<>>) /\ Len(<<>>) = 0 /\ Range(<<>>) = {}
  /\ \A w \in Seq(Requests) : Len(w) \in Nat /\ (Len(w) = 0 <=> w = <<>>)
  /\ \A w \in Seq(Requests) : Range(w) \subseteq Requests
BY EmptySeq, RangeOfSeq, LenProperties DEF IsInjective, Range

\* Aborting the waits: their handlers are queued, and nothing else changes that
\* the invariant is about.
LEMMA AbortEffect ==
  ASSUME TypeOK, PlaceInv, AbortWaits
  PROVE  /\ io_queue' \in Seq(QueueEntry) /\ Orderly(io_queue')
         /\ waits' = <<>> /\ dropped' \subseteq Requests
         /\ dropped' = dropped \cup Range(waits)
         /\ \A r : /\ Queued("expired", r)' <=> Queued("expired", r)
                   /\ Queued("callback", r)' <=> Queued("callback", r)
         /\ Rearming' <=> Rearming
<1>1. /\ io_queue \in Seq(QueueEntry) /\ waits \in Seq(Requests)
      /\ Orderly(io_queue) /\ IsInjective(waits)
      /\ io_queue' = io_queue \o Entries("aborted", waits) /\ waits' = <<>>
      /\ dropped' = dropped \cup ToSet(waits)
  BY DEF TypeOK, PlaceInv, AbortWaits
<1>2. /\ io_queue' \in Seq(QueueEntry) /\ Orderly(io_queue')
      /\ \A k, r : Entry(k, r) \in Range(io_queue') <=>
           Entry(k, r) \in Range(io_queue) \/ (k = "aborted" /\ r \in Range(waits))
  BY <1>1, HandlersJoin
<1>3. ToSet(waits) = Range(waits)
  BY DEF ToSet, Range
<1>4. dropped' \subseteq Requests
  BY <1>1, <1>3, EmptyWaits DEF TypeOK
<1>5. \A r : /\ Entry("expired", r) \in Range(io_queue') <=> Entry("expired", r) \in Range(io_queue)
             /\ Entry("callback", r) \in Range(io_queue') <=> Entry("callback", r) \in Range(io_queue)
  BY <1>2
<1>6. Rearming' <=> Rearming
  BY <1>1, <1>2, <1>5, RearmingIs DEF Rearming
<1> QED
  BY <1>1, <1>2, <1>3, <1>4, <1>5, <1>6 DEF Queued

-----------------------------------------------------------------------------
\* Cancel and ~Timer.
LEMMA AbortStep ==
  ASSUME IInv, NEW th \in Threads, Cancel(th) \/ Destroy(th)
  PROVE  IInv'
<1> USE TimerAssumption, IntervalIsNat
<1>0. TypeOK /\ PlaceInv /\ CallInv /\ DestroyInv /\ AccountInv /\ OnceInv /\ LatestInv
      /\ QuietDestroyIsSafe
  BY DEF IInv, SafetyInv
<1>1. /\ AbortWaits /\ Race(th) /\ destroyed = "no" /\ ~dangling /\ wanted' = None
      /\ UNCHANGED <<now, expiry, deadline, step, doing, dangling, issued, start, runs, late>>
  BY DEF Cancel, Destroy, calls
<1>2. /\ io_queue' \in Seq(QueueEntry) /\ Orderly(io_queue')
      /\ waits' = <<>> /\ dropped' \subseteq Requests
      /\ \A r : /\ Queued("expired", r)' <=> Queued("expired", r)
                /\ Queued("callback", r)' <=> Queued("callback", r)
      /\ Rearming' <=> Rearming
  BY <1>0, <1>1, AbortEffect
<1>3. waits' \in Seq(Requests) /\ IsInjective(waits') /\ Len(waits') = 0 /\ Range(waits') = {}
  BY <1>2, EmptyWaits
<1>4. raced' \in BOOLEAN /\ (~raced' => ~raced)
  BY <1>1 DEF Race
<1>5. /\ destroyed' \in {"no", "quiet", "busy"}
      /\ destroyed' = "quiet" => ~Rearming /\ \A o \in Threads : step[o] = "idle"
  <2>1. CASE Cancel(th)
    BY <1>1, <2>1 DEF Cancel
  <2>2. CASE Destroy(th)
    BY <2>2 DEF Destroy
  <2> QED
    BY <2>1, <2>2
<1>6. TypeOK'
  BY <1>0, <1>1, <1>2, <1>3, <1>4, <1>5 DEF TypeOK
<1>7. PlaceInv'
  BY <1>0, <1>1, <1>2, <1>3 DEF PlaceInv
<1>8. CallInv'
  BY <1>0, <1>1, <1>2, <1>3, <1>4 DEF CallInv
<1>9. DestroyInv'
  BY <1>0, <1>1, <1>2, <1>5 DEF DestroyInv
<1>10. \A r : Owed(r)' = Owed(r)
  BY <1>1, <1>2 DEF Owed, One
<1>11. AccountInv'
  BY <1>0, <1>1, <1>3, <1>4, <1>10 DEF AccountInv
<1>12. OnceInv'
  BY <1>0, <1>1, <1>3, <1>10 DEF OnceInv
<1>13. QuietDestroyIsSafe'
  BY <1>1 DEF QuietDestroyIsSafe
<1>14. LatestInv'
  BY <1>1 DEF LatestInv
<1> QED
  BY <1>6, <1>7, <1>8, <1>9, <1>11, <1>12, <1>13, <1>14 DEF IInv, SafetyInv

\* What expires_from_now does on the way to arming a wait for r, be it a new
\* request or a DoEvery's next interval.
LEMMA ExpiresStep ==
  ASSUME IInv, NEW th \in Threads, NEW r \in Requests, ExpiresFromNow(th, r),
         destroyed = "no", destroyed' = destroyed, runs' = runs,
         issued' = issued \cup {r}, start' \in [Requests -> 0..MaxNow],
         \A o \in Requests \ {r} : start'[o] = start[o],
         wanted' \in Requests \cup {None},
         \A o \in Threads : doing[o] = r => o = th,
         r \notin Range(waits), ~Queued("expired", r),
         ~raced => Owed(r) * Interval(r) <= now - start'[r],
         r \notin Repeating => Owed(r) = 0,
         wanted' # r => wanted' = wanted /\ doing[th] # wanted,
         wanted' = r /\ ~late /\ ~raced /\ wanted' \notin dropped =>
           now = start'[r] + Owed(r) * Interval(r)
  PROVE  IInv'
<1> USE TimerAssumption, IntervalIsNat
<1>0. TypeOK /\ PlaceInv /\ CallInv /\ DestroyInv /\ AccountInv /\ OnceInv /\ LatestInv
      /\ QuietDestroyIsSafe
  BY DEF IInv, SafetyInv
<1>1. /\ AbortWaits /\ Race(th) /\ expiry' = now + Interval(r)
      /\ step' = [step EXCEPT ![th] = "arm"] /\ doing' = [doing EXCEPT ![th] = r]
      /\ UNCHANGED <<now, deadline, dangling, late>>
  BY DEF ExpiresFromNow
<1>2. /\ io_queue' \in Seq(QueueEntry) /\ Orderly(io_queue')
      /\ waits' = <<>> /\ dropped' \subseteq Requests
      /\ dropped' = dropped \cup Range(waits)
      /\ \A o : /\ Queued("expired", o)' <=> Queued("expired", o)
                /\ Queued("callback", o)' <=> Queued("callback", o)
      /\ Rearming' <=> Rearming
  BY <1>0, <1>1, AbortEffect
<1>3. waits' \in Seq(Requests) /\ IsInjective(waits') /\ Len(waits') = 0 /\ Range(waits') = {}
  BY <1>2, EmptyWaits
<1>4. /\ raced' \in BOOLEAN
      /\ ~raced' => ~raced /\ \A o \in Threads \ {th} : step[o] # "arm"
  BY <1>1 DEF Race, Overlaps
<1>5. /\ now \in Nat /\ Interval(r) \in Nat /\ expiry' \in Nat
      /\ step \in [Threads -> {"idle", "expire", "arm"}]
      /\ doing \in [Threads -> Requests \cup {None}]
  <2>1. now \in Nat /\ Interval(r) \in Nat
    BY <1>0 DEF TypeOK
  <2>2. expiry' \in Nat
    <3>1. expiry' = now + Interval(r)
      BY <1>1
    <3>2. \A m, n \in Nat : m + n \in Nat
      OBVIOUS
    <3> QED
      BY <2>1, <3>1, <3>2
  <2>3. /\ step \in [Threads -> {"idle", "expire", "arm"}]
        /\ doing \in [Threads -> Requests \cup {None}]
    BY <1>0 DEF TypeOK
  <2> QED
    BY <2>1, <2>2, <2>3
<1>6. /\ step' \in [Threads -> {"idle", "expire", "arm"}]
      /\ doing' \in [Threads -> Requests \cup {None}]
      /\ step'[th] = "arm" /\ doing'[th] = r /\ r # None
      /\ \A o \in Threads \ {th} : step'[o] = step[o] /\ doing'[o] = doing[o]
  BY <1>1, <1>5
<1>7. TypeOK'
  BY <1>0, <1>1, <1>2, <1>3, <1>4, <1>5, <1>6 DEF TypeOK
<1>8. PlaceInv'
  <2>1. \A x \in Threads : step'[x] = "idle" <=> doing'[x] = None
    BY <1>0, <1>6 DEF PlaceInv
  <2>2. \A x \in Clients : step'[x] # "expire"
    BY <1>0, <1>6 DEF PlaceInv, Threads
  <2>3. \A x, o \in Threads : doing'[x] = doing'[o] /\ doing'[x] # None => x = o
    BY <1>0, <1>6 DEF PlaceInv
  <2>4. ASSUME NEW o \in Requests
        PROVE  /\ \A x \in Threads : doing'[x] = o => ~Queued("expired", o)'
               /\ o \notin issued' =>
                    /\ ~Queued("expired", o)' /\ ~Queued("callback", o)'
                    /\ \A x \in Threads : doing'[x] # o
                    /\ runs'[o] = 0
    <3>1. /\ \A x \in Threads : doing[x] = o => ~Queued("expired", o)
          /\ o \notin issued =>
               /\ ~Queued("expired", o) /\ ~Queued("callback", o)
               /\ \A x \in Threads : doing[x] # o
               /\ runs[o] = 0
      BY <1>0, <2>4 DEF PlaceInv
    <3>2. CASE o = r
      BY <3>1, <3>2, <1>2, <1>6
    <3>3. CASE o # r
      <4>1. \A x \in Threads : doing'[x] = o => doing[x] = o
        BY <3>3, <1>6
      <4> QED
        BY <3>1, <3>3, <4>1, <1>2
    <3> QED
      BY <3>2, <3>3
  <2> QED
    BY <1>2, <1>3, <2>1, <2>2, <2>3, <2>4 DEF PlaceInv
<1>9. CallInv'
  <2>1. ~raced' => \A x \in Threads : step'[x] = "arm" => x = th
    BY <1>4, <1>6
  <2> QED
    BY <1>2, <1>3, <2>1 DEF CallInv
<1>10. DestroyInv'
  BY <1>2 DEF DestroyInv
<1>11. \A o : Owed(o)' = Owed(o)
  BY <1>2 DEF Owed, One
<1>12. AccountInv'
  <2> SUFFICES ASSUME ~raced'
               PROVE  /\ \A o \in Requests : Owed(o)' * Interval(o) <= now' - start'[o]
                      /\ \A x \in Threads : step'[x] = "arm" =>
                           (Owed(doing[x])' + 1) * Interval(doing'[x]) <= expiry' - start'[doing'[x]]
    BY <1>3 DEF AccountInv
  <2>1. \A o \in Requests : Owed(o)' * Interval(o) <= now' - start'[o]
    BY <1>0, <1>1, <1>4, <1>11 DEF AccountInv
  <2>2. (Owed(r) + 1) * Interval(r) <= expiry' - start'[r]
    <3>1. Owed(r) \in Nat /\ start'[r] \in Nat
      BY <1>0, OwedIsNat
    <3>2. (Owed(r) + 1) * Interval(r) = Owed(r) * Interval(r) + Interval(r)
          /\ Owed(r) * Interval(r) \in Nat
      BY <1>5, <3>1, OneMore
    <3>3. Owed(r) * Interval(r) <= now - start'[r]
      BY <1>4
    <3> QED
      BY <1>1, <1>5, <3>1, <3>2, <3>3
  <2>3. \A x \in Threads : step'[x] = "arm" => doing'[x] = r
    BY <1>4, <1>6
  <2> QED
    BY <1>11, <2>1, <2>2, <2>3
<1>13. OnceInv'
  BY <1>0, <1>3, <1>6, <1>11 DEF OnceInv
<1>14. QuietDestroyIsSafe'
  BY <1>0, <1>1 DEF QuietDestroyIsSafe
<1>15. LatestInv'
  <2> SUFFICES ASSUME ~late, ~raced', wanted' # None, wanted' \notin dropped'
               PROVE  Exact(wanted)'
    BY <1>1 DEF LatestInv
  <2>1. ~raced /\ wanted' \notin dropped /\ wanted' \notin Range(waits)
    BY <1>2, <1>4
  <2>2. CASE wanted' = r
    <3>1. Owed(r) \in Nat /\ start'[r] \in Nat
      BY <1>0, OwedIsNat
    <3>2. (Owed(r) + 1) * Interval(r) = Owed(r) * Interval(r) + Interval(r)
          /\ Owed(r) * Interval(r) \in Nat
      BY <1>5, <3>1, OneMore
    <3>3. now = start'[r] + Owed(r) * Interval(r)
      BY <2>1, <2>2
    <3>4. now + Interval(r) = start'[r] + (Owed(r) + 1) * Interval(r)
      BY <1>5, <3>1, <3>2, <3>3
    <3>5. expiry' = start'[r] + (Owed(r)' + 1) * Interval(r) /\ now' <= expiry'
      BY <1>1, <1>5, <1>11, <3>4
    <3> QED
      BY <1>6, <2>2, <3>5 DEF Exact
  <2>3. CASE wanted' # r
    <3>1. wanted' = wanted /\ doing[th] # wanted /\ wanted \in Requests /\ wanted # r
      BY <2>3
    <3>2. Exact(wanted)
      BY <1>0, <2>1, <3>1 DEF LatestInv
    <3>3. Owed(wanted)' = Owed(wanted) /\ start'[wanted] = start[wanted] /\ now' = now
      BY <1>1, <1>11, <3>1
    <3>4. ~\E o \in Threads : doing[o] = wanted /\ step[o] = "arm"
      BY <1>4, <3>1
    <3>5. (\E o \in Threads : doing[o] = wanted /\ step[o] = "expire")
            => \E o \in Threads : doing'[o] = wanted /\ step'[o] = "expire"
      BY <1>6, <3>1
    <3>6. Queued("expired", wanted)' <=> Queued("expired", wanted)
      BY <1>2, <3>1
    <3> QED
      BY <2>1, <3>1, <3>2, <3>3, <3>4, <3>5, <3>6 DEF Exact
  <2> QED
    BY <2>2, <2>3
<1> QED
  BY <1>7, <1>8, <1>9, <1>10, <1>12, <1>13, <1>14, <1>15 DEF IInv, SafetyInv

\* A call of DoIn or DoEvery begins: the request is new.
LEMMA RequestStep ==
  ASSUME IInv, NEW th \in Threads, NEW r \in Requests, Request(th, r)
  PROVE  IInv'
<1> USE TimerAssumption, IntervalIsNat
<1>0. TypeOK /\ PlaceInv
  BY DEF IInv, SafetyInv
<1>1. /\ ExpiresFromNow(th, r) /\ destroyed = "no" /\ r \notin issued
      /\ issued' = issued \cup {r} /\ start' = [start EXCEPT ![r] = now] /\ wanted' = r
      /\ destroyed' = destroyed /\ runs' = runs
  BY DEF Request
<1>2. /\ r \notin Range(waits) /\ ~Queued("expired", r) /\ ~Queued("callback", r)
      /\ \A o \in Threads : doing[o] # r
      /\ runs[r] = 0
  BY <1>0, <1>1 DEF PlaceInv
<1>3. Owed(r) = 0
  BY <1>2 DEF Owed, One
<1>4. start' \in [Requests -> 0..MaxNow] /\ start'[r] = now /\ now \in Nat
      /\ \A o \in Requests \ {r} : start'[o] = start[o]
  <2>1. start \in [Requests -> 0..MaxNow] /\ now \in 0..MaxNow
    BY <1>0 DEF TypeOK
  <2> QED
    BY <1>1, <2>1
<1>5. Owed(r) * Interval(r) <= now - start'[r]
  <2>1. 0 * Interval(r) = 0
    OBVIOUS
  <2> QED
    BY <1>3, <1>4, <2>1
<1>6. now = start'[r] + Owed(r) * Interval(r)
  <2>1. 0 * Interval(r) = 0
    OBVIOUS
  <2> QED
    BY <1>3, <1>4, <2>1
<1> QED
  BY <1>1, <1>2, <1>3, <1>4, <1>5, <1>6, ExpiresStep

\* DoEvery's handler begins the call for its next interval.
LEMMA RearmStep ==
  ASSUME IInv, Rearm
  PROVE  IInv'
<1> USE TimerAssumption, IntervalIsNat
<1> DEFINE r == doing[Loop]
<1>0. TypeOK /\ PlaceInv /\ AccountInv /\ OnceInv /\ LatestInv
  BY DEF IInv, SafetyInv
<1>1. /\ ExpiresFromNow(Loop, r) /\ destroyed = "no" /\ step[Loop] = "expire"
      /\ UNCHANGED <<destroyed, issued, start, runs, wanted>>
  BY DEF Rearm
<1>2. Loop \in Threads /\ r \in Requests
  <2>1. Loop \in Threads
    BY DEF Threads
  <2>2. doing[Loop] \in Requests \cup {None} /\ doing[Loop] # None
    BY <1>0, <1>1, <2>1 DEF TypeOK, PlaceInv
  <2> QED
    BY <2>1, <2>2
<1>3. /\ \A o \in Threads : doing[o] = r => o = Loop
      /\ r \notin Range(waits) /\ ~Queued("expired", r) /\ r \in issued
  BY <1>0, <1>2 DEF PlaceInv
<1>4. start' \in [Requests -> 0..MaxNow] /\ wanted' \in Requests \cup {None}
      /\ issued' = issued \cup {r}
  BY <1>0, <1>1, <1>3 DEF TypeOK
<1>5. ~raced => Owed(r) * Interval(r) <= now - start'[r]
  BY <1>0, <1>1, <1>2 DEF AccountInv
<1>6. r \notin Repeating => Owed(r) = 0
  BY <1>0, <1>2 DEF OnceInv
<1>7. wanted = r /\ ~late /\ ~raced /\ wanted \notin dropped =>
        now = start[r] + Owed(r) * Interval(r)
  <2> SUFFICES ASSUME wanted = r, ~late, ~raced, wanted \notin dropped
               PROVE  now = start[r] + Owed(r) * Interval(r)
    OBVIOUS
  <2>1. Exact(r)
    BY <1>0, <1>2 DEF LatestInv
  <2>2. \A o \in Threads : doing[o] = r => step[o] # "arm"
    BY <1>1, <1>3
  <2> QED
    BY <1>3, <1>6, <2>1, <2>2 DEF Exact
<1>8. /\ wanted' # r => wanted' = wanted /\ doing[Loop] # wanted
      /\ wanted' = r /\ ~late /\ ~raced /\ wanted' \notin dropped =>
           now = start'[r] + Owed(r) * Interval(r)
  BY <1>1, <1>7
<1> HIDE DEF r
<1> QED
  BY <1>1, <1>2, <1>3, <1>4, <1>5, <1>6, <1>8, ExpiresStep

\* async_wait arms a wait.
LEMMA AsyncWaitStep ==
  ASSUME IInv, NEW th \in Threads, AsyncWait(th)
  PROVE  IInv'
<1> USE TimerAssumption, IntervalIsNat
<1> DEFINE r == doing[th]
<1>0. TypeOK /\ PlaceInv /\ CallInv /\ DestroyInv /\ AccountInv /\ OnceInv /\ LatestInv
      /\ QuietDestroyIsSafe
  BY DEF IInv, SafetyInv
<1>1. /\ destroyed = "no" /\ step[th] = "arm" /\ waits' = Append(waits, r) /\ Race(th)
      /\ deadline' = IF waits = <<>> THEN expiry ELSE deadline
      /\ step' = [step EXCEPT ![th] = "idle"] /\ doing' = [doing EXCEPT ![th] = None]
      /\ UNCHANGED <<now, expiry, io_queue, destroyed, dangling, issued, start, runs,
                     dropped, wanted, late>>
  BY DEF AsyncWait
<1>2. /\ waits \in Seq(Requests) /\ IsInjective(waits)
      /\ step \in [Threads -> {"idle", "expire", "arm"}]
      /\ doing \in [Threads -> Requests \cup {None}]
  BY <1>0 DEF TypeOK, PlaceInv
<1>3. r \in Requests
  BY <1>0, <1>1, <1>2 DEF PlaceInv
<1>4. /\ r \notin Range(waits) /\ ~Queued("expired", r) /\ r \in issued
      /\ \A o \in Threads : doing[o] = r => o = th
  BY <1>0, <1>3 DEF PlaceInv
<1> HIDE DEF r
<1>5. /\ waits' \in Seq(Requests) /\ IsInjective(waits') /\ Range(waits') = Range(waits) \cup {r}
      /\ Len(waits') = Len(waits) + 1
  BY <1>1, <1>2, <1>3, <1>4, RangeAppend, AppendInjectiveQueue, AppendProperties
<1>6. /\ step' \in [Threads -> {"idle", "expire", "arm"}]
      /\ doing' \in [Threads -> Requests \cup {None}]
      /\ step'[th] = "idle" /\ doing'[th] = None
      /\ \A o \in Threads \ {th} : step'[o] = step[o] /\ doing'[o] = doing[o]
  BY <1>1, <1>2
<1>7. raced' \in BOOLEAN /\ (~raced' => ~raced)
  BY <1>1 DEF Race
<1>8. TypeOK'
  BY <1>0, <1>1, <1>5, <1>6, <1>7 DEF TypeOK
<1>9. PlaceInv'
  <2>1. \A x \in Threads : step'[x] = "idle" <=> doing'[x] = None
    BY <1>0, <1>6 DEF PlaceInv
  <2>2. \A x \in Clients : step'[x] # "expire"
    BY <1>0, <1>6 DEF PlaceInv, Threads
  <2>3. \A x, o \in Threads : doing'[x] = doing'[o] /\ doing'[x] # None => x = o
    BY <1>0, <1>6 DEF PlaceInv
  <2>4. \A o : (Queued("expired", o)' <=> Queued("expired", o))
               /\ (Queued("callback", o)' <=> Queued("callback", o))
    BY <1>1 DEF Queued
  <2>5. \A x \in Threads : doing'[x] # r
    BY <1>3, <1>4, <1>6
  <2>6. ASSUME NEW o \in Requests
        PROVE  /\ ~(o \in Range(waits') /\ Queued("expired", o)')
               /\ \A x \in Threads : doing'[x] = o => o \notin Range(waits') /\ ~Queued("expired", o)'
               /\ o \notin issued' =>
                    /\ o \notin Range(waits') /\ ~Queued("expired", o)' /\ ~Queued("callback", o)'
                    /\ \A x \in Threads : doing'[x] # o
                    /\ runs'[o] = 0
    <3>1. CASE o = r
      BY <1>1, <1>4, <2>4, <2>5, <3>1
    <3>2. CASE o # r
      <4>1. o \in Range(waits') <=> o \in Range(waits)
        BY <1>5, <3>2
      <4>2. \A x \in Threads : doing'[x] = o => doing[x] = o
        BY <1>6
      <4> QED
        BY <1>0, <1>1, <2>4, <4>1, <4>2 DEF PlaceInv
    <3> QED
      BY <3>1, <3>2
  <2> QED
    BY <1>0, <1>1, <1>5, <2>1, <2>2, <2>3, <2>6 DEF PlaceInv
<1>10. ~raced' => ~raced /\ waits = <<>> /\ \A x \in Threads : step'[x] # "arm"
  BY <1>0, <1>1, <1>6, <1>7 DEF CallInv
<1>11. CallInv'
  BY <1>5, <1>10, EmptyWaits DEF CallInv
<1>12. DestroyInv'
  BY <1>1 DEF DestroyInv
<1>13. \A o : Owed(o)' = Owed(o)
  BY <1>1 DEF Owed, One, Queued
<1>14. AccountInv'
  <2> SUFFICES ASSUME ~raced'
               PROVE  /\ \A o \in Requests : Owed(o)' * Interval(o) <= now' - start'[o]
                      /\ \A o \in Range(waits') : (Owed(o)' + 1) * Interval(o) <= deadline' - start'[o]
    BY <1>10 DEF AccountInv
  <2>1. \A o \in Requests : Owed(o)' * Interval(o) <= now' - start'[o]
    BY <1>0, <1>1, <1>7, <1>13 DEF AccountInv
  <2>2. Range(waits') = {r} /\ deadline' = expiry
    BY <1>1, <1>5, <1>10, EmptyWaits
  <2>3. (Owed(r) + 1) * Interval(r) <= expiry - start[r]
    BY <1>0, <1>1, <1>10 DEF AccountInv, r
  <2> QED
    BY <1>1, <1>13, <2>1, <2>2, <2>3
<1>15. OnceInv'
  <2>1. r \notin Repeating => Owed(r) = 0
    BY <1>0, <1>3 DEF OnceInv, r
  <2> QED
    BY <1>0, <1>3, <1>5, <1>6, <1>13, <2>1 DEF OnceInv
<1>16. QuietDestroyIsSafe'
  BY <1>0, <1>1 DEF QuietDestroyIsSafe
<1>17. LatestInv'
  <2> SUFFICES ASSUME ~late, ~raced', wanted # None, wanted \notin dropped
               PROVE  Exact(wanted)'
    BY <1>1 DEF LatestInv
  <2>1. Exact(wanted) /\ waits = <<>>
    BY <1>0, <1>10 DEF LatestInv
  <2>2. Range(waits') = {r} /\ deadline' = expiry
    BY <1>1, <1>5, <2>1, EmptyWaits
  <2>3. Owed(wanted)' = Owed(wanted) /\ start' = start /\ now' = now
        /\ (Queued("expired", wanted)' <=> Queued("expired", wanted))
    BY <1>1, <1>13 DEF Queued
  <2>4. CASE wanted = r
    <3>1. \A o \in Threads : doing[o] = r => step[o] = "arm"
      BY <1>1, <1>4
    <3>2. r \notin Repeating => Owed(r) = 0
      BY <1>0, <1>3 DEF OnceInv, r
    <3>3. expiry = start[r] + (Owed(r) + 1) * Interval(r) /\ now <= expiry
      BY <1>4, <2>1, <2>4, <3>1, <3>2 DEF Exact
    <3> QED
      BY <1>1, <2>2, <2>3, <2>4, <3>3 DEF Exact
  <2>5. CASE wanted # r
    <3>1. wanted \notin Range(waits) /\ ~\E o \in Threads : doing[o] = wanted /\ step[o] = "arm"
      <4>1. \A o \in Threads : step[o] = "arm" => doing[o] = r
        BY <1>6, <1>10 DEF r
      <4> QED
        BY <2>1, <2>5, <4>1, EmptyWaits
    <3>2. (\E o \in Threads : doing[o] = wanted /\ step[o] = "expire")
            => \E o \in Threads : doing'[o] = wanted /\ step'[o] = "expire"
      BY <1>1, <1>6
    <3> QED
      BY <1>1, <2>1, <2>3, <3>1, <3>2 DEF Exact
  <2> QED
    BY <2>4, <2>5
<1> QED
  BY <1>8, <1>9, <1>11, <1>12, <1>14, <1>15, <1>16, <1>17 DEF IInv, SafetyInv

\* The clock moves, a destroyed timer is used, or nothing happens.
LEMMA IdleStep ==
  ASSUME IInv,
         \/ \E d \in {1, 2} : Advance(d)
         \/ \E th \in Threads : UseDestroyed(th)
         \/ UNCHANGED vars
  PROVE  IInv'
<1> USE TimerAssumption, IntervalIsNat
<1>0. TypeOK /\ PlaceInv /\ CallInv /\ DestroyInv /\ AccountInv /\ OnceInv /\ LatestInv
      /\ QuietDestroyIsSafe
  BY DEF IInv, SafetyInv
<1>1. UNCHANGED <<timer, io_queue, calls, destroyed, issued, start, runs, dropped, wanted, raced>>
  BY DEF Advance, UseDestroyed, vars, history
<1>2. now \in 0..MaxNow /\ now' \in 0..MaxNow /\ now <= now'
  <2>1. now \in 0..MaxNow /\ MaxNow \in Nat
    BY <1>0 DEF TypeOK
  <2> QED
    BY <2>1 DEF Advance, UseDestroyed, vars
<1>3. late' \in BOOLEAN
  <2>1. CASE \E d \in {1, 2} : Advance(d)
    BY <2>1 DEF Advance
  <2>2. CASE ~\E d \in {1, 2} : Advance(d)
    BY <1>0, <2>2 DEF UseDestroyed, vars, history, TypeOK
  <2> QED
    BY <2>1, <2>2
<1>4. dangling' \in BOOLEAN /\ (dangling' => destroyed = "busy")
  <2>1. CASE \E th \in Threads : UseDestroyed(th)
    <3>1. dangling' = TRUE /\ destroyed # "no" /\ destroyed # "quiet"
      BY <1>0, <2>1 DEF UseDestroyed, DestroyInv
    <3> QED
      BY <1>0, <3>1 DEF TypeOK
  <2>2. CASE ~\E th \in Threads : UseDestroyed(th)
    BY <1>0, <2>2 DEF Advance, vars, TypeOK, QuietDestroyIsSafe
  <2> QED
    BY <2>1, <2>2
<1>5. TypeOK'
  BY <1>0, <1>1, <1>2, <1>3, <1>4 DEF TypeOK, timer, calls
<1>6. PlaceInv' /\ CallInv' /\ DestroyInv'
  BY <1>0, <1>1 DEF PlaceInv, CallInv, DestroyInv, Queued, Rearming, timer, calls
<1>7. \A r : Owed(r)' = Owed(r)
  BY <1>1 DEF Owed, One, Queued
<1>8. AccountInv'
  <2> SUFFICES ASSUME ~raced' PROVE \A r \in Requests : Owed(r)' * Interval(r) <= now' - start'[r]
    BY <1>0, <1>1, <1>7 DEF AccountInv, timer, calls
  <2> TAKE r \in Requests
  <2>1. Owed(r) * Interval(r) <= now - start[r]
    BY <1>0, <1>1 DEF AccountInv
  <2>2. Owed(r) * Interval(r) \in Nat
    BY <1>0, OwedIsNat, OneMore
  <2>3. start[r] \in Nat
    BY <1>0 DEF TypeOK
  <2> QED
    BY <1>1, <1>2, <1>7, <2>1, <2>2, <2>3
<1>9. OnceInv'
  BY <1>0, <1>1, <1>7 DEF OnceInv, timer, calls
<1>10. QuietDestroyIsSafe'
  BY <1>1, <1>4 DEF QuietDestroyIsSafe
<1>11. LatestInv'
  <2> SUFFICES ASSUME ~late', ~raced, wanted # None, wanted \notin dropped
               PROVE  Exact(wanted)'
    BY <1>1 DEF LatestInv
  <2>1. ~late
    BY DEF Advance, UseDestroyed, vars, history
  <2>2. Exact(wanted)
    BY <1>0, <2>1 DEF LatestInv
  <2>3. Owed(wanted)' = Owed(wanted) /\ (Queued("expired", wanted)' <=> Queued("expired", wanted))
    BY <1>1, <1>7 DEF Queued
  <2>4. CASE now' = now
    BY <1>1, <2>2, <2>3, <2>4 DEF Exact, timer, calls
  <2>5. CASE now' # now
    <3>1. PICK d \in {1, 2} : Advance(d)
      BY <2>5 DEF UseDestroyed, vars
    <3>2. Settled /\ (waits # <<>> => now' <= deadline)
      <4>1. now' = now + d /\ Settled /\ ~(waits # <<>> /\ now + d > deadline)
        BY <3>1 DEF Advance
      <4>2. now + d \in Nat /\ deadline \in Nat
        BY <1>0, <1>2 DEF TypeOK
      <4> QED
        BY <4>1, <4>2
    <3>3. /\ \A th \in Threads : step[th] = "idle"
          /\ ~Queued("expired", wanted)
          /\ wanted \in Range(waits) => waits # <<>>
      BY <3>2, EmptyWaits DEF Settled, Queued, Range
    <3>4. CASE /\ wanted \in Range(waits)
               /\ deadline = start[wanted] + (Owed(wanted) + 1) * Interval(wanted)
      BY <1>1, <2>3, <3>2, <3>3, <3>4 DEF Exact, timer
    <3>5. CASE wanted \notin Repeating /\ Owed(wanted) = 1 /\ start[wanted] + Interval(wanted) <= now
      <4>1. start[wanted] \in Nat /\ Interval(wanted) \in Nat
        BY <1>0, <2>2 DEF TypeOK
      <4>2. start[wanted] + Interval(wanted) <= now'
        BY <1>2, <3>5, <4>1
      <4> QED
        BY <1>1, <2>3, <3>5, <4>2 DEF Exact
    <3> QED
      BY <2>2, <3>3, <3>4, <3>5 DEF Exact
  <2> QED
    BY <2>4, <2>5
<1> QED
  BY <1>5, <1>6, <1>8, <1>9, <1>10, <1>11 DEF IInv, SafetyInv

-----------------------------------------------------------------------------
\* The reactor completes the armed waits.
LEMMA ExpireStep ==
  ASSUME IInv, Expire
  PROVE  IInv'
<1> USE TimerAssumption, IntervalIsNat
<1>0. TypeOK /\ PlaceInv /\ CallInv /\ DestroyInv /\ AccountInv /\ OnceInv /\ LatestInv
      /\ QuietDestroyIsSafe
  BY DEF IInv, SafetyInv
<1>1. /\ waits # <<>> /\ deadline <= now /\ waits' = <<>>
      /\ io_queue' = io_queue \o Entries("expired", waits)
      /\ UNCHANGED <<now, expiry, deadline, step, doing, destroyed, dangling, issued, start,
                     runs, dropped, wanted, raced, late>>
  BY DEF Expire, Due, calls, history
<1>2. /\ io_queue \in Seq(QueueEntry) /\ Orderly(io_queue)
      /\ waits \in Seq(Requests) /\ IsInjective(waits) /\ Range(waits) \subseteq Requests
      /\ \A r \in Range(waits) : Entry("expired", r) \notin Range(io_queue)
  BY <1>0, EmptyWaits DEF TypeOK, PlaceInv, Queued
<1>3. /\ io_queue' \in Seq(QueueEntry) /\ Orderly(io_queue')
      /\ \A k, r : Entry(k, r) \in Range(io_queue') <=>
           Entry(k, r) \in Range(io_queue) \/ (k = "expired" /\ r \in Range(waits))
  BY <1>1, <1>2, HandlersJoin
<1>4. \A r : /\ Queued("expired", r)' <=> Queued("expired", r) \/ r \in Range(waits)
             /\ Queued("callback", r)' <=> Queued("callback", r)
  BY <1>3 DEF Queued
<1>5. waits' \in Seq(Requests) /\ IsInjective(waits') /\ Len(waits') = 0 /\ Range(waits') = {}
  BY <1>1, EmptyWaits
<1>6. TypeOK'
  BY <1>0, <1>1, <1>3, <1>5 DEF TypeOK
<1>7. PlaceInv'
  BY <1>0, <1>1, <1>3, <1>4, <1>5 DEF PlaceInv
<1>8. CallInv' /\ DestroyInv'
  BY <1>0, <1>1, <1>5 DEF CallInv, DestroyInv
<1>9. \A r \in Requests \ Range(waits) : Owed(r)' = Owed(r)
  BY <1>1, <1>4 DEF Owed, One
<1>10. \A r \in Range(waits) : Owed(r)' = Owed(r) + 1
  <2> TAKE r \in Range(waits)
  <2>1. ~Queued("expired", r) /\ Queued("expired", r)'
    BY <1>2, <1>4 DEF Queued
  <2>2. runs[r] \in Nat /\ runs'[r] = runs[r]
    BY <1>0, <1>1, <1>2 DEF TypeOK
  <2> QED
    BY <1>4, <2>1, <2>2 DEF Owed, One
<1>11. AccountInv'
  <2> SUFFICES ASSUME ~raced
               PROVE  /\ \A r \in Requests : Owed(r)' * Interval(r) <= now - start[r]
                      /\ \A th \in Threads : step[th] # "arm"
    BY <1>1, <1>5 DEF AccountInv
  <2>1. \A th \in Threads : step[th] # "arm"
    BY <1>0, <1>1 DEF CallInv
  <2>2. ASSUME NEW r \in Range(waits)
        PROVE  Owed(r)' * Interval(r) <= now - start[r]
    <3>1. (Owed(r) + 1) * Interval(r) <= deadline - start[r]
      BY <1>0 DEF AccountInv
    <3>2. /\ start[r] \in Nat /\ now \in Nat /\ deadline \in Nat
          /\ Owed(r) \in Nat /\ Interval(r) \in Nat
      BY <1>0, <1>2, OwedIsNat DEF TypeOK
    <3>3. (Owed(r) + 1) * Interval(r) \in Nat
      BY <3>2
    <3>4. Owed(r)' * Interval(r) = (Owed(r) + 1) * Interval(r)
      BY <1>10
    <3> QED
      BY <1>1, <3>1, <3>2, <3>3, <3>4
  <2>3. ASSUME NEW r \in Requests \ Range(waits)
        PROVE  Owed(r)' * Interval(r) <= now - start[r]
    BY <1>0, <1>9 DEF AccountInv
  <2> QED
    BY <2>1, <2>2, <2>3
<1>12. OnceInv'
  <2>1. ASSUME NEW r \in Requests \ Repeating PROVE Owed(r)' <= 1
    <3>1. CASE r \in Range(waits)
      BY <1>0, <1>10, <3>1 DEF OnceInv
    <3>2. CASE r \notin Range(waits)
      BY <1>0, <1>9, <3>2 DEF OnceInv
    <3> QED
      BY <3>1, <3>2
  <2>2. ASSUME NEW r \in Requests \ Repeating, \E th \in Threads : doing'[th] = r
        PROVE  Owed(r)' = 0
    <3>1. r \notin Range(waits) /\ Owed(r) = 0
      BY <1>0, <1>1, <2>2 DEF PlaceInv, OnceInv
    <3> QED
      BY <1>9, <3>1
  <2> QED
    BY <1>5, <2>1, <2>2 DEF OnceInv
<1>13. QuietDestroyIsSafe'
  BY <1>0, <1>1 DEF QuietDestroyIsSafe
<1>14. LatestInv'
  <2> SUFFICES ASSUME ~late, ~raced, wanted # None, wanted \notin dropped
               PROVE  Exact(wanted)'
    BY <1>1 DEF LatestInv
  <2>1. Exact(wanted) /\ wanted \in Requests
    BY <1>0 DEF LatestInv, TypeOK
  <2>2. CASE wanted \in Range(waits)
    <3>1. ~Queued("expired", wanted) /\ ~\E th \in Threads : doing[th] = wanted
      BY <1>0, <2>1, <2>2 DEF PlaceInv
    <3>2. wanted \notin Repeating => Owed(wanted) = 0
      BY <1>0, <2>1, <2>2 DEF OnceInv
    <3>3. deadline = start[wanted] + (Owed(wanted) + 1) * Interval(wanted) /\ now <= deadline
      BY <2>1, <3>1, <3>2 DEF Exact
    <3>4. now = deadline
      BY <1>0, <1>1, <3>3 DEF TypeOK
    <3>5. now' = start'[wanted] + Owed(wanted)' * Interval(wanted)
      BY <1>1, <1>10, <2>2, <3>3, <3>4
    <3> QED
      BY <1>1, <1>4, <2>2, <3>5 DEF Exact
  <2>3. CASE wanted \notin Range(waits)
    <3>1. Owed(wanted)' = Owed(wanted)
      BY <1>1, <1>9, <2>1, <2>3
    <3>2. \A th \in Threads : step[th] # "arm"
      BY <1>0, <1>1 DEF CallInv
    <3> QED
      BY <1>1, <1>4, <2>1, <2>3, <3>1, <3>2 DEF Exact
  <2> QED
    BY <2>2, <2>3
<1> QED
  BY <1>6, <1>7, <1>8, <1>11, <1>12, <1>13, <1>14 DEF IInv, SafetyInv

\* A handler that runs, or a callback: what both leave alone.
LEMMA SameAccount ==
  ASSUME AccountInv, OnceInv, \A r \in Requests : Owed(r)' = Owed(r),
         TypeOK, UNCHANGED <<now, timer, start, raced>>,
         \A th \in Threads : step'[th] = "arm" => step[th] = "arm" /\ doing'[th] = doing[th],
         \A th \in Threads : doing'[th] \in Requests \ Repeating => doing[th] = doing'[th],
         \A th \in Threads : step[th] = "arm" => doing[th] \in Requests
  PROVE  AccountInv' /\ OnceInv'
<1>1. Range(waits) \subseteq Requests
  BY EmptyWaits DEF TypeOK
<1>2. AccountInv'
  <2> SUFFICES ASSUME ~raced
               PROVE  /\ \A r \in Requests : Owed(r)' * Interval(r) <= now - start[r]
                      /\ \A r \in Range(waits) : (Owed(r)' + 1) * Interval(r) <= deadline - start[r]
                      /\ \A th \in Threads : step'[th] = "arm" =>
                           (Owed(doing[th])' + 1) * Interval(doing'[th]) <= expiry - start[doing'[th]]
    BY DEF AccountInv, timer
  <2>1. \A th \in Threads : step'[th] = "arm" =>
           (Owed(doing[th]) + 1) * Interval(doing[th]) <= expiry - start[doing[th]]
    BY DEF AccountInv
  <2>2. ASSUME NEW th \in Threads, step'[th] = "arm"
        PROVE  Owed(doing[th])' = Owed(doing[th]) /\ doing'[th] = doing[th]
    <3>1. doing'[th] = doing[th] /\ doing[th] \in Requests
      BY <2>2
    <3> DEFINE r == doing'[th]
    <3>2. r \in Requests
      BY <3>1
    <3> QED
      BY <3>1, <3>2
  <2> QED
    BY <1>1, <2>1, <2>2 DEF AccountInv
<1>3. OnceInv'
  BY <1>1 DEF OnceInv, timer
<1> QED
  BY <1>2, <1>3

\* The loop runs the oldest handler.
LEMMA RunHandlerStep ==
  ASSUME IInv, RunHandler
  PROVE  IInv'
<1> USE TimerAssumption, IntervalIsNat
<1> DEFINE h == Head(io_queue)
           t == Tail(io_queue)
<1>0. TypeOK /\ PlaceInv /\ CallInv /\ DestroyInv /\ AccountInv /\ OnceInv /\ LatestInv
      /\ QuietDestroyIsSafe
  BY DEF IInv, SafetyInv
<1>1. /\ step[Loop] = "idle" /\ io_queue # <<>> /\ h.what \in {"expired", "aborted"}
      /\ IF h.what = "expired"
         THEN /\ io_queue' = Append(t, Entry("callback", h.req))
              /\ IF h.req \in Repeating
                 THEN /\ step' = [step EXCEPT ![Loop] = "expire"]
                      /\ doing' = [doing EXCEPT ![Loop] = h.req]
                 ELSE step' = step /\ doing' = doing
         ELSE io_queue' = t /\ step' = step /\ doing' = doing
      /\ UNCHANGED <<now, timer, destroyed, dangling, issued, start, runs, dropped,
                     wanted, raced, late>>
  BY DEF RunHandler, NotAborted, calls, history
<1>2. /\ io_queue \in Seq(QueueEntry) /\ Orderly(io_queue)
      /\ step \in [Threads -> {"idle", "expire", "arm"}]
      /\ doing \in [Threads -> Requests \cup {None}] /\ Loop \in Threads
  BY <1>0 DEF TypeOK, PlaceInv, Threads
<1>3. /\ t \in Seq(QueueEntry) /\ Orderly(t) /\ h \in QueueEntry /\ h \in Range(io_queue)
      /\ \A k, r : k # "aborted" =>
           (Entry(k, r) \in Range(t) <=> Entry(k, r) \in Range(io_queue) /\ Entry(k, r) # h)
      /\ h.what = "expired" => Entry("callback", h.req) \notin Range(io_queue)
  BY <1>1, <1>2, OldestLeaves
<1> HIDE DEF h, t
<1>4. h = Entry(h.what, h.req) /\ h.req \in Requests
  BY <1>3, EntryFacts
<1>5. CASE h.what # "expired"
  <2>1. io_queue' = t /\ step' = step /\ doing' = doing
    BY <1>1, <1>5
  <2>2. \A r : /\ Queued("expired", r)' <=> Queued("expired", r)
               /\ Queued("callback", r)' <=> Queued("callback", r)
    BY <1>1, <1>3, <1>4, <1>5, <2>1, EntryFacts DEF Queued
  <2>3. TypeOK'
    BY <1>0, <1>1, <1>3, <2>1 DEF TypeOK, timer
  <2>4. PlaceInv'
    BY <1>0, <1>1, <1>3, <2>1, <2>2 DEF PlaceInv, timer
  <2>5. CallInv'
    BY <1>0, <1>1, <2>1 DEF CallInv, timer
  <2>6. Rearming' <=> Rearming
    BY <1>2, <1>3, <2>1, <2>2, RearmingIs DEF Rearming, Queued
  <2>7. DestroyInv'
    BY <1>0, <1>1, <2>1, <2>6 DEF DestroyInv, timer
  <2>8. \A r \in Requests : Owed(r)' = Owed(r)
    BY <1>1, <2>2 DEF Owed, One
  <2>9. \A th \in Threads : step[th] = "arm" => doing[th] \in Requests
    BY <1>0, <1>2 DEF PlaceInv
  <2>10. AccountInv' /\ OnceInv'
    BY <1>0, <1>1, <2>1, <2>8, <2>9, SameAccount
  <2>11. QuietDestroyIsSafe'
    BY <1>0, <1>1 DEF QuietDestroyIsSafe
  <2>12. LatestInv'
    <3> SUFFICES ASSUME ~late, ~raced, wanted # None, wanted \notin dropped
                 PROVE  Exact(wanted)'
      BY <1>1 DEF LatestInv
    <3>1. Exact(wanted) /\ wanted \in Requests
      BY <1>0 DEF LatestInv, TypeOK
    <3> QED
      BY <1>1, <2>1, <2>2, <2>8, <3>1 DEF Exact, timer
  <2> QED
    BY <2>3, <2>4, <2>5, <2>7, <2>10, <2>11, <2>12 DEF IInv, SafetyInv
<1>6. CASE h.what = "expired"
  <2> DEFINE r == h.req
  <2>1. r \in Requests /\ h = Entry("expired", r)
    BY <1>4, <1>6
  <2>2. /\ io_queue' = Append(t, Entry("callback", r))
        /\ IF r \in Repeating
           THEN /\ step' = [step EXCEPT ![Loop] = "expire"]
                /\ doing' = [doing EXCEPT ![Loop] = r]
           ELSE step' = step /\ doing' = doing
    BY <1>1, <1>6
  <2>3. Queued("expired", r) /\ ~Queued("callback", r)
    BY <1>3, <1>6, <2>1 DEF Queued
  <2> HIDE DEF r
  <2>4. Entry("expired", r) \notin Range(t) /\ Entry("callback", r) \notin Range(t)
    BY <1>3, <2>1, <2>3 DEF Queued
  <2>5. /\ io_queue' \in Seq(QueueEntry) /\ Orderly(io_queue')
        /\ \A k, o : Entry(k, o) \in Range(io_queue') <=>
             Entry(k, o) \in Range(t) \/ (k = "callback" /\ o = r)
    BY <1>3, <2>1, <2>2, <2>4, CallbackJoins
  <2>6. \A o : /\ Queued("expired", o)' <=> Queued("expired", o) /\ o # r
               /\ Queued("callback", o)' <=> Queued("callback", o) \/ o = r
    BY <1>3, <2>1, <2>5, EntryFacts DEF Queued
  <2>7. /\ r \notin Range(waits) /\ r \in issued /\ \A th \in Threads : doing[th] # r
        /\ doing[Loop] = None
    BY <1>0, <1>1, <1>2, <2>1, <2>3 DEF PlaceInv
  <2>8. /\ step' \in [Threads -> {"idle", "expire", "arm"}]
        /\ doing' \in [Threads -> Requests \cup {None}]
        /\ \A th \in Threads \ {Loop} : step'[th] = step[th] /\ doing'[th] = doing[th]
        /\ \/ r \in Repeating /\ step'[Loop] = "expire" /\ doing'[Loop] = r
           \/ step'[Loop] = "idle" /\ doing'[Loop] = None
    BY <1>1, <1>2, <2>1, <2>2, <2>7
  <2>9. TypeOK'
    BY <1>0, <1>1, <2>5, <2>8 DEF TypeOK, timer
  <2>10. PlaceInv'
    <3>1. \A x \in Threads : step'[x] = "idle" <=> doing'[x] = None
      BY <1>0, <2>1, <2>8 DEF PlaceInv
    <3>2. \A x \in Clients : step'[x] # "expire"
      BY <1>0, <2>8 DEF PlaceInv, Threads
    <3>3. \A x, o \in Threads : doing'[x] = doing'[o] /\ doing'[x] # None => x = o
      BY <1>0, <2>7, <2>8 DEF PlaceInv
    <3>4. \A x \in Threads, o \in Requests : doing'[x] = o => doing[x] = o \/ o = r
      BY <2>1, <2>8
    <3>5. ASSUME NEW o \in Requests
          PROVE  /\ ~(o \in Range(waits) /\ Queued("expired", o)')
                 /\ \A x \in Threads : doing'[x] = o => o \notin Range(waits) /\ ~Queued("expired", o)'
                 /\ o \notin issued =>
                      /\ o \notin Range(waits) /\ ~Queued("expired", o)' /\ ~Queued("callback", o)'
                      /\ \A x \in Threads : doing'[x] # o
                      /\ runs[o] = 0
      BY <1>0, <2>6, <2>7, <3>4 DEF PlaceInv
    <3> QED
      BY <1>0, <1>1, <2>5, <3>1, <3>2, <3>3, <3>5 DEF PlaceInv, timer
  <2>11. \A x \in Threads : step'[x] = "arm" => step[x] = "arm" /\ doing'[x] = doing[x]
    BY <2>8
  <2>12. CallInv'
    BY <1>0, <1>1, <2>11 DEF CallInv, timer
  <2>13. DestroyInv'
    <3>1. Rearming' => Rearming
      BY <1>2, <2>5, <2>6, RearmingIs DEF Rearming, Queued
    <3>2. r \in Repeating => Rearming
      BY <1>2, <2>3, RearmingIs DEF Rearming, Queued
    <3>3. r \notin Repeating => step' = step
      BY <2>2
    <3> QED
      BY <1>0, <1>1, <3>1, <3>2, <3>3 DEF DestroyInv, timer
  <2>14. \A o \in Requests : Owed(o)' = Owed(o)
    <3> TAKE o \in Requests
    <3>1. runs'[o] = runs[o] /\ runs[o] \in Nat
      BY <1>0, <1>1 DEF TypeOK
    <3>2. CASE o = r
      BY <2>3, <2>6, <3>1, <3>2 DEF Owed, One
    <3>3. CASE o # r
      BY <2>6, <3>1, <3>3 DEF Owed, One
    <3> QED
      BY <3>2, <3>3
  <2>15. \A x \in Threads : step[x] = "arm" => doing[x] \in Requests
    BY <1>0, <1>2 DEF PlaceInv
  <2>16. \A x \in Threads : doing'[x] \in Requests \ Repeating => doing[x] = doing'[x]
    BY <2>8
  <2>17. AccountInv' /\ OnceInv'
    BY <1>0, <1>1, <2>11, <2>14, <2>15, <2>16, SameAccount
  <2>18. QuietDestroyIsSafe'
    BY <1>0, <1>1 DEF QuietDestroyIsSafe
  <2>19. LatestInv'
    <3> SUFFICES ASSUME ~late, ~raced, wanted # None, wanted \notin dropped
                 PROVE  Exact(wanted)'
      BY <1>1 DEF LatestInv
    <3>1. Exact(wanted) /\ wanted \in Requests
      BY <1>0 DEF LatestInv, TypeOK
    <3>2. Owed(wanted)' = Owed(wanted)
      BY <1>1, <2>14, <3>1
    <3>3. UNCHANGED <<now, expiry, deadline, waits, start, wanted>>
      BY <1>1 DEF timer
    <3>4. \A x \in Threads : step[x] # "idle" => step'[x] = step[x] /\ doing'[x] = doing[x]
      BY <1>1, <2>8
    <3>5. CASE wanted # r
      BY <2>6, <3>1, <3>2, <3>3, <3>4, <3>5 DEF Exact
    <3>6. CASE wanted = r /\ r \in Repeating
      <4>1. now = start[r] + Owed(r) * Interval(r)
        BY <2>7, <3>1, <3>6 DEF Exact
      <4>2. step'[Loop] = "expire" /\ doing'[Loop] = r
        BY <1>2, <2>2, <3>6
      <4> QED
        BY <1>2, <3>2, <3>3, <3>6, <4>1, <4>2 DEF Exact
    <3>7. CASE wanted = r /\ r \notin Repeating
      <4>1. Owed(r) = 1
        <5>1. Owed(r) <= 1
          BY <1>0, <2>1, <3>7 DEF OnceInv
        <5>2. Owed(r) = runs[r] + 0 + 1 /\ runs[r] \in Nat
          BY <1>0, <2>1, <2>3 DEF Owed, One, TypeOK
        <5> QED
          BY <5>1, <5>2
      <4>2. /\ start[r] \in Nat /\ Interval(r) \in Nat /\ now \in Nat
            /\ Owed(r) * Interval(r) = Interval(r)
        BY <1>0, <2>1, <4>1 DEF TypeOK
      <4>3. start[r] + Interval(r) <= now
        BY <2>7, <3>1, <3>7, <4>2 DEF Exact
      <4> QED
        BY <3>2, <3>3, <3>7, <4>1, <4>3 DEF Exact
    <3> QED
      BY <3>5, <3>6, <3>7
  <2> QED
    BY <2>9, <2>10, <2>12, <2>13, <2>17, <2>18, <2>19 DEF IInv, SafetyInv
<1> QED
  BY <1>5, <1>6

\* The loop runs a callback.
LEMMA RunCallbackStep ==
  ASSUME IInv, RunCallback
  PROVE  IInv'
<1> USE TimerAssumption, IntervalIsNat
<1> DEFINE h == Head(io_queue)
           t == Tail(io_queue)
           r == h.req
<1>0. TypeOK /\ PlaceInv /\ CallInv /\ DestroyInv /\ AccountInv /\ OnceInv /\ LatestInv
      /\ QuietDestroyIsSafe
  BY DEF IInv, SafetyInv
<1>1. /\ io_queue # <<>> /\ h.what = "callback" /\ io_queue' = t
      /\ runs' = [runs EXCEPT ![r] = runs[r] + 1]
      /\ UNCHANGED <<now, timer, step, doing, destroyed, dangling, issued, start, dropped,
                     wanted, raced, late>>
  BY DEF RunCallback, calls
<1>2. io_queue \in Seq(QueueEntry) /\ Orderly(io_queue) /\ runs \in [Requests -> Nat]
  BY <1>0 DEF TypeOK, PlaceInv
<1>3. /\ t \in Seq(QueueEntry) /\ Orderly(t) /\ h \in QueueEntry /\ h \in Range(io_queue)
      /\ \A k, o : k # "aborted" =>
           (Entry(k, o) \in Range(t) <=> Entry(k, o) \in Range(io_queue) /\ Entry(k, o) # h)
  BY <1>1, <1>2, OldestLeaves
<1>4. h = Entry("callback", r) /\ r \in Requests
  BY <1>1, <1>3, EntryFacts
<1> HIDE DEF h, t, r
<1>5. /\ Queued("callback", r)
      /\ \A o : /\ Queued("expired", o)' <=> Queued("expired", o)
                /\ Queued("callback", o)' <=> Queued("callback", o) /\ o # r
  BY <1>1, <1>3, <1>4, EntryFacts DEF Queued
<1>6. /\ runs' \in [Requests -> Nat] /\ runs'[r] = runs[r] + 1 /\ runs[r] \in Nat
      /\ \A o \in Requests \ {r} : runs'[o] = runs[o]
  BY <1>1, <1>2, <1>4
<1>7. TypeOK'
  BY <1>0, <1>1, <1>3, <1>6 DEF TypeOK, timer
<1>8. PlaceInv'
  <2>1. \A o \in Requests : o \notin issued => o # r
    BY <1>0, <1>5 DEF PlaceInv
  <2> QED
    BY <1>0, <1>1, <1>3, <1>5, <1>6, <2>1 DEF PlaceInv, timer
<1>9. CallInv'
  BY <1>0, <1>1 DEF CallInv, timer
<1>10. Rearming' <=> Rearming
  BY <1>1, <1>2, <1>3, <1>5, RearmingIs DEF Rearming, Queued
<1>11. DestroyInv'
  BY <1>0, <1>1, <1>10 DEF DestroyInv, timer
<1>12. \A o \in Requests : Owed(o)' = Owed(o)
  <2> TAKE o \in Requests
  <2>1. CASE o = r
    BY <1>5, <1>6, <2>1 DEF Owed, One
  <2>2. CASE o # r
    BY <1>5, <1>6, <2>2 DEF Owed, One
  <2> QED
    BY <2>1, <2>2
<1>13. \A x \in Threads : step[x] = "arm" => doing[x] \in Requests
  BY <1>0 DEF PlaceInv, TypeOK
<1>14. AccountInv' /\ OnceInv'
  BY <1>0, <1>1, <1>12, <1>13, SameAccount
<1>15. QuietDestroyIsSafe'
  BY <1>0, <1>1 DEF QuietDestroyIsSafe
<1>16. LatestInv'
  <2> SUFFICES ASSUME ~late, ~raced, wanted # None, wanted \notin dropped
               PROVE  Exact(wanted)'
    BY <1>1 DEF LatestInv
  <2>1. Exact(wanted) /\ wanted \in Requests
    BY <1>0 DEF LatestInv, TypeOK
  <2> QED
    BY <1>1, <1>5, <1>12, <2>1 DEF Exact, timer
<1> QED
  BY <1>7, <1>8, <1>9, <1>11, <1>14, <1>15, <1>16 DEF IInv, SafetyInv

-----------------------------------------------------------------------------
LEMMA InitHolds == Init => IInv
<1> SUFFICES ASSUME Init PROVE IInv
  OBVIOUS
<1> USE TimerAssumption, IntervalIsNat
<1>1. io_queue = <<>> /\ <<>> \in Seq(QueueEntry) /\ DOMAIN io_queue = {} /\ Range(io_queue) = {}
  BY EmptySeq DEF Init, Range
<1>2. waits = <<>>
  BY DEF Init
<1>3. step \in [Threads -> {"idle", "expire", "arm"}] /\ doing \in [Threads -> Requests \cup {None}]
  BY DEF Init
<1>4. start \in [Requests -> 0..MaxNow] /\ runs \in [Requests -> Nat] /\ now \in 0..MaxNow
  BY DEF Init
<1>5. TypeOK
  BY <1>1, <1>2, <1>3, <1>4, EmptyWaits DEF TypeOK, Init
<1>6. \A r : ~Queued("expired", r) /\ ~Queued("callback", r)
  BY <1>1 DEF Queued
<1>7. Orderly(io_queue) /\ IsInjective(waits)
  BY <1>1, <1>2, EmptyWaits DEF Orderly
<1>8. /\ \A th \in Threads : step[th] = "idle" /\ doing[th] = None
      /\ \A r \in Requests : runs[r] = 0 /\ start[r] = 0
      /\ Range(waits) = {}
  BY <1>2, EmptyWaits DEF Init
<1>9. PlaceInv
  BY <1>6, <1>7, <1>8 DEF PlaceInv, Threads
<1>10. CallInv /\ DestroyInv
  BY <1>2, <1>8, EmptyWaits DEF CallInv, DestroyInv, Init
<1>11. \A r \in Requests : Owed(r) = 0
  BY <1>6, <1>8 DEF Owed, One
<1>12. AccountInv /\ OnceInv
  <2>1. \A r \in Requests : 0 * Interval(r) = 0
    OBVIOUS
  <2> QED
    BY <1>8, <1>11, <2>1 DEF AccountInv, OnceInv, Init
<1>13. QuietDestroyIsSafe
  BY DEF Init, QuietDestroyIsSafe
<1>14. LatestInv
  BY DEF Init, LatestInv
<1> QED
  BY <1>5, <1>9, <1>10, <1>12, <1>13, <1>14 DEF IInv, SafetyInv

LEMMA NextPreserves == IInv /\ [Next]_vars => IInv'
<1> SUFFICES ASSUME IInv, [Next]_vars PROVE IInv'
  OBVIOUS
<1>1. CASE LoopStep
  BY <1>1, ExpireStep, RunHandlerStep, RearmStep, RunCallbackStep DEF LoopStep
<1>2. ASSUME NEW th \in Threads,
             \/ \E r \in Requests : Request(th, r)
             \/ AsyncWait(th) \/ Cancel(th) \/ Destroy(th)
      PROVE  IInv'
  BY <1>2, RequestStep, AsyncWaitStep, AbortStep
<1>3. CASE \/ \E d \in {1, 2} : Advance(d)
           \/ \E th \in Threads : UseDestroyed(th)
           \/ UNCHANGED vars
  BY <1>3, IdleStep
<1> QED
  BY <1>1, <1>2, <1>3 DEF Next

\* IInv holds in every reachable state.
THEOREM Invariance == Spec => []IInv
<1>1. Init => IInv
  BY InitHolds
<1>2. IInv /\ [Next]_vars => IInv'
  BY NextPreserves
<1> QED
  BY <1>1, <1>2, PTL DEF Spec

\* Every variable keeps its shape: TypeOK.
THEOREM TypeCorrect == Spec => []TypeOK
<1>1. IInv => TypeOK
  BY DEF IInv
<1> QED
  BY <1>1, Invariance, PTL

\* A request that was not aborted has a place, or is a DoIn whose callback is
\* posted or has run.
KeptInv ==
  \A r \in issued \ dropped :
    \/ r \in Range(waits)
    \/ Queued("expired", r)
    \/ \E th \in Threads : doing[th] = r
    \/ r \notin Repeating /\ (runs[r] > 0 \/ Queued("callback", r))

\* Each step hands a request on to its next place, or drops it.
LEMMA KeptStep == IInv /\ KeptInv /\ [Next]_vars => KeptInv'
<1> SUFFICES ASSUME IInv, KeptInv, [Next]_vars PROVE KeptInv'
  OBVIOUS
<1> USE TimerAssumption
<1>1. TypeOK /\ PlaceInv
  BY DEF IInv, SafetyInv
<1>2. ASSUME NEW th \in Threads, NEW r \in Requests, Request(th, r)
      PROVE  KeptInv'
  <2>1. /\ AbortWaits /\ step[th] = "idle" /\ doing' = [doing EXCEPT ![th] = r]
        /\ issued' = issued \cup {r} /\ runs' = runs
    BY <1>2 DEF Request, ExpiresFromNow
  <2>2. /\ dropped' = dropped \cup Range(waits)
        /\ \A o : /\ Queued("expired", o)' <=> Queued("expired", o)
                  /\ Queued("callback", o)' <=> Queued("callback", o)
    BY <1>1, <2>1, AbortEffect
  <2>3. doing[th] = None /\ doing \in [Threads -> Requests \cup {None}]
    BY <1>1, <2>1 DEF PlaceInv, TypeOK
  <2>4. doing'[th] = r /\ \A o \in Threads : doing[o] # None => doing'[o] = doing[o]
    BY <2>1, <2>3
  <2>5. issued \subseteq Requests
    BY <1>1 DEF TypeOK
  <2> QED
    BY <2>1, <2>2, <2>4, <2>5 DEF KeptInv
<1>3. ASSUME Rearm \/ \E th \in Threads : Cancel(th) \/ Destroy(th)
      PROVE  KeptInv'
  <2>1. AbortWaits /\ UNCHANGED <<issued, runs>>
    BY <1>3 DEF Rearm, ExpiresFromNow, Cancel, Destroy
  <2>2. /\ dropped' = dropped \cup Range(waits)
        /\ \A o : /\ Queued("expired", o)' <=> Queued("expired", o)
                  /\ Queued("callback", o)' <=> Queued("callback", o)
    BY <1>1, <2>1, AbortEffect
  <2>3. doing' = doing
    BY <1>1, <1>3 DEF Rearm, ExpiresFromNow, Cancel, Destroy, calls, TypeOK, Threads
  <2> QED
    BY <2>1, <2>2, <2>3 DEF KeptInv
<1>4. ASSUME NEW th \in Threads, AsyncWait(th)
      PROVE  KeptInv'
  <2>1. /\ waits' = Append(waits, doing[th]) /\ doing' = [doing EXCEPT ![th] = None]
        /\ UNCHANGED <<io_queue, issued, runs, dropped>>
    BY <1>4 DEF AsyncWait
  <2>2. doing[th] \in Requests /\ doing \in [Threads -> Requests \cup {None}]
    BY <1>1, <1>4 DEF PlaceInv, TypeOK, AsyncWait
  <2>3. Range(waits') = Range(waits) \cup {doing[th]}
    BY <1>1, <2>1, <2>2, RangeAppend DEF TypeOK
  <2>4. \A o \in Threads : o # th => doing'[o] = doing[o]
    BY <2>1, <2>2
  <2> QED
    BY <2>1, <2>3, <2>4 DEF KeptInv, Queued
<1>5. CASE Expire
  <2>1. /\ io_queue' = io_queue \o Entries("expired", waits)
        /\ UNCHANGED <<doing, issued, runs, dropped>>
    BY <1>5 DEF Expire, calls, history
  <2>2. \A k, r : Entry(k, r) \in Range(io_queue') <=>
           Entry(k, r) \in Range(io_queue) \/ (k = "expired" /\ r \in Range(waits))
    <3>1. \A r \in Range(waits) : Entry("expired", r) \notin Range(io_queue)
      BY <1>1, EmptyWaits DEF PlaceInv, Queued, TypeOK
    <3> QED
      BY <1>1, <2>1, <3>1, HandlersJoin DEF PlaceInv, TypeOK
  <2> QED
    BY <2>1, <2>2 DEF KeptInv, Queued
<1>6. CASE RunHandler
  <2> DEFINE h == Head(io_queue)
             q == Tail(io_queue)
  <2>1. /\ step[Loop] = "idle" /\ h.what \in {"expired", "aborted"}
        /\ IF NotAborted(h)
           THEN /\ io_queue' = Append(q, Entry("callback", h.req))
                /\ IF h.req \in Repeating
                   THEN doing' = [doing EXCEPT ![Loop] = h.req]
                   ELSE doing' = doing
           ELSE io_queue' = q /\ doing' = doing
        /\ UNCHANGED <<waits, issued, runs, dropped>> /\ io_queue # <<>>
    BY <1>6 DEF RunHandler, timer, calls, history
  <2>2. /\ q \in Seq(QueueEntry) /\ h \in QueueEntry /\ h = Entry(h.what, h.req)
        /\ \A k, r : k # "aborted" =>
             (Entry(k, r) \in Range(q) <=> Entry(k, r) \in Range(io_queue) /\ Entry(k, r) # h)
    BY <1>1, <2>1, OldestLeaves, EntryFacts DEF PlaceInv, TypeOK
  <2>3. doing[Loop] = None /\ doing \in [Threads -> Requests \cup {None}] /\ Loop \in Threads
    BY <1>1, <2>1 DEF PlaceInv, TypeOK, Threads
  <2> HIDE DEF h, q
  <2>4. CASE h.what = "aborted"
    <3>1. \A k, r : k # "aborted" => Entry(k, r) # h
      BY <2>2, <2>4, EntryFacts
    <3>2. io_queue' = q /\ doing' = doing
      BY <2>1, <2>4 DEF NotAborted
    <3> QED
      BY <2>1, <2>2, <3>1, <3>2 DEF KeptInv, Queued
  <2>5. CASE h.what = "expired"
    <3>1. /\ io_queue' = Append(q, Entry("callback", h.req))
          /\ h.req \in Repeating => doing' = [doing EXCEPT ![Loop] = h.req]
          /\ h.req \notin Repeating => doing' = doing
      BY <2>1, <2>5 DEF NotAborted
    <3>2. Range(io_queue') = Range(q) \cup {Entry("callback", h.req)}
      <4>1. Entry("callback", h.req) \in QueueEntry
        BY <2>2, EntryFacts
      <4> QED
        BY <2>2, <3>1, <4>1, RangeAppend
    <3>3. h = Entry("expired", h.req)
      BY <2>2, <2>5
    <3>4. \A r : r # h.req => (Queued("expired", r) => Queued("expired", r)')
      BY <2>2, <3>2, <3>3, EntryFacts DEF Queued
    <3>5. \A r : Queued("callback", r) => Queued("callback", r)'
      BY <2>2, <3>2, <3>3, EntryFacts DEF Queued
    <3>6. \A o \in Threads : doing[o] # None => doing'[o] = doing[o]
      BY <2>3, <3>1
    <3>7. \/ \E th \in Threads : doing'[th] = h.req
          \/ h.req \notin Repeating /\ Entry("callback", h.req) \in Range(io_queue')
      <4>1. CASE h.req \in Repeating
        <5>1. doing'[Loop] = h.req
          BY <2>3, <3>1, <4>1
        <5> QED
          BY <2>3, <5>1
      <4>2. CASE h.req \notin Repeating
        BY <3>2, <4>2
      <4> QED
        BY <4>1, <4>2
    <3>8. issued \subseteq Requests
      BY <1>1 DEF TypeOK
    <3>9. ASSUME NEW r \in issued \ dropped
          PROVE  \/ r \in Range(waits')
                 \/ Queued("expired", r)'
                 \/ \E th \in Threads : doing'[th] = r
                 \/ r \notin Repeating /\ (runs'[r] > 0 \/ Queued("callback", r)')
      <4>1. CASE r = h.req
        BY <3>7, <4>1 DEF Queued
      <4>2. CASE r # h.req
        <5>1. r # None
          BY <3>8
        <5> QED
          BY <2>1, <3>4, <3>5, <3>6, <4>2, <5>1 DEF KeptInv
      <4> QED
        BY <4>1, <4>2
    <3> QED
      BY <2>1, <3>9 DEF KeptInv
  <2> QED
    BY <2>1, <2>4, <2>5
<1>7. CASE RunCallback
  <2> DEFINE h == Head(io_queue)
             q == Tail(io_queue)
  <2>1. /\ h.what = "callback" /\ io_queue' = q /\ io_queue # <<>>
        /\ runs' = [runs EXCEPT ![h.req] = @ + 1]
        /\ UNCHANGED <<waits, doing, issued, dropped>>
    BY <1>7 DEF RunCallback, timer, calls
  <2>2. /\ h \in QueueEntry /\ h = Entry(h.what, h.req) /\ h.req \in Requests
        /\ \A k, r : k # "aborted" =>
             (Entry(k, r) \in Range(q) <=> Entry(k, r) \in Range(io_queue) /\ Entry(k, r) # h)
    BY <1>1, <2>1, OldestLeaves, EntryFacts DEF PlaceInv, TypeOK
  <2> HIDE DEF h, q
  <2>3. \A r : Queued("expired", r)' <=> Queued("expired", r)
    BY <2>1, <2>2, EntryFacts DEF Queued
  <2>4. \A r : r # h.req => (Queued("callback", r)' <=> Queued("callback", r))
    BY <2>1, <2>2, EntryFacts DEF Queued
  <2>5. /\ runs'[h.req] > 0
        /\ \A r \in Requests : r # h.req => runs'[r] = runs[r]
    BY <1>1, <2>1, <2>2 DEF TypeOK
  <2>6. issued \subseteq Requests
    BY <1>1 DEF TypeOK
  <2> QED
    BY <2>1, <2>3, <2>4, <2>5, <2>6 DEF KeptInv
<1>8. CASE (\E th \in Threads : UseDestroyed(th)) \/ (\E d \in {1, 2} : Advance(d)) \/ UNCHANGED vars
  <2>1. UNCHANGED <<waits, io_queue, doing, issued, runs, dropped>>
    BY <1>8 DEF UseDestroyed, Advance, timer, calls, history, vars
  <2> QED
    BY <2>1 DEF KeptInv, Queued
<1> QED
  BY <1>2, <1>3, <1>4, <1>5, <1>6, <1>7, <1>8 DEF Next, LoopStep

\* A request whose wait was aborted has no place.
GoneInv ==
  \A r \in dropped :
    /\ r \in issued /\ r \notin Range(waits) /\ ~Queued("expired", r)
    /\ \A th \in Threads : doing[th] # r

\* No step finds it one.
LEMMA GoneStep == IInv /\ GoneInv /\ [Next]_vars => GoneInv'
<1> SUFFICES ASSUME IInv, GoneInv, [Next]_vars PROVE GoneInv'
  OBVIOUS
<1> USE TimerAssumption
<1>1. TypeOK /\ PlaceInv /\ dropped \subseteq Requests /\ None \notin Requests
  BY DEF IInv, SafetyInv, TypeOK
<1>2. ASSUME AbortWaits, issued \subseteq issued',
             \A r \in issued : \A th \in Threads : doing'[th] = r => doing[th] = r
      PROVE  GoneInv'
  <2>1. /\ waits' = <<>> /\ dropped' = dropped \cup Range(waits)
        /\ \A o : Queued("expired", o)' <=> Queued("expired", o)
    BY <1>1, <1>2, AbortEffect
  <2>2. Range(waits') = {}
    BY <2>1, EmptyWaits
  <2>3. ASSUME NEW r \in Range(waits)
        PROVE  r \in issued /\ ~Queued("expired", r) /\ \A th \in Threads : doing[th] # r
    <3>1. r \in Requests
      BY <1>1, EmptyWaits DEF TypeOK
    <3> QED
      BY <1>1, <3>1 DEF PlaceInv
  <2> QED
    BY <1>2, <2>1, <2>2, <2>3 DEF GoneInv
<1>3. ASSUME NEW th \in Threads, NEW r \in Requests, Request(th, r)
      PROVE  GoneInv'
  <2>1. /\ AbortWaits /\ r \notin issued /\ issued' = issued \cup {r}
        /\ doing' = [doing EXCEPT ![th] = r]
    BY <1>3 DEF Request, ExpiresFromNow
  <2>2. \A o \in issued : \A x \in Threads : doing'[x] = o => doing[x] = o
    BY <1>1, <2>1 DEF TypeOK
  <2> QED
    BY <1>2, <2>1, <2>2
<1>4. ASSUME Rearm \/ \E th \in Threads : Cancel(th) \/ Destroy(th)
      PROVE  GoneInv'
  <2>1. AbortWaits /\ issued' = issued /\ doing' = doing
    BY <1>1, <1>4 DEF Rearm, ExpiresFromNow, Cancel, Destroy, calls, TypeOK, Threads
  <2> QED
    BY <1>2, <2>1
<1>5. ASSUME NEW th \in Threads, AsyncWait(th)
      PROVE  GoneInv'
  <2>1. /\ waits' = Append(waits, doing[th]) /\ doing' = [doing EXCEPT ![th] = None]
        /\ UNCHANGED <<io_queue, issued, dropped>>
    BY <1>5 DEF AsyncWait
  <2>2. doing[th] \in Requests /\ doing \in [Threads -> Requests \cup {None}]
    BY <1>1, <1>5 DEF PlaceInv, TypeOK, AsyncWait
  <2>3. Range(waits') = Range(waits) \cup {doing[th]}
    BY <1>1, <2>1, <2>2, RangeAppend DEF TypeOK
  <2> QED
    BY <1>1, <2>1, <2>2, <2>3 DEF GoneInv, Queued
<1>6. CASE Expire
  <2>1. /\ io_queue' = io_queue \o Entries("expired", waits) /\ waits' = <<>>
        /\ UNCHANGED <<doing, issued, dropped>>
    BY <1>6 DEF Expire, calls, history
  <2>2. \A k, r : Entry(k, r) \in Range(io_queue') <=>
           Entry(k, r) \in Range(io_queue) \/ (k = "expired" /\ r \in Range(waits))
    <3>1. \A r \in Range(waits) : Entry("expired", r) \notin Range(io_queue)
      BY <1>1, EmptyWaits DEF PlaceInv, Queued, TypeOK
    <3> QED
      BY <1>1, <2>1, <3>1, HandlersJoin DEF PlaceInv, TypeOK
  <2> QED
    BY <2>1, <2>2, EmptyWaits DEF GoneInv, Queued
<1>7. CASE RunHandler \/ RunCallback
  <2> DEFINE h == Head(io_queue)
             q == Tail(io_queue)
  <2>1. /\ io_queue # <<>> /\ UNCHANGED <<waits, issued, dropped>>
        /\ \/ io_queue' = q
           \/ h.what = "expired" /\ io_queue' = Append(q, Entry("callback", h.req))
        /\ \/ doing' = doing
           \/ h.what = "expired" /\ doing' = [doing EXCEPT ![Loop] = h.req]
    BY <1>7 DEF RunHandler, RunCallback, NotAborted, timer, calls, history
  <2>2. /\ q \in Seq(QueueEntry) /\ h \in QueueEntry /\ h = Entry(h.what, h.req)
        /\ h \in Range(io_queue)
        /\ \A r : Entry("expired", r) \in Range(q) => Entry("expired", r) \in Range(io_queue)
    BY <1>1, <2>1, OldestLeaves, EntryFacts DEF PlaceInv, TypeOK
  <2> HIDE DEF h, q
  <2>3. Entry("callback", h.req) \in QueueEntry
    BY <2>2, EntryFacts
  <2>4. \A r : Queued("expired", r)' => Queued("expired", r)
    <3>1. CASE io_queue' = q
      BY <2>2, <3>1 DEF Queued
    <3>2. CASE io_queue' = Append(q, Entry("callback", h.req))
      <4>1. Range(io_queue') = Range(q) \cup {Entry("callback", h.req)}
        BY <2>2, <2>3, <3>2, RangeAppend
      <4> QED
        BY <2>2, <4>1, EntryFacts DEF Queued
    <3> QED
      BY <2>1, <3>1, <3>2
  <2>5. \A r \in dropped : \A th \in Threads : doing'[th] # r
    <3>1. h.what = "expired" => h.req \notin dropped
      BY <2>2 DEF GoneInv, Queued
    <3> QED
      BY <1>1, <2>1, <3>1 DEF GoneInv, TypeOK
  <2> QED
    BY <2>1, <2>4, <2>5 DEF GoneInv
<1>8. CASE (\E th \in Threads : UseDestroyed(th)) \/ (\E d \in {1, 2} : Advance(d)) \/ UNCHANGED vars
  <2>1. UNCHANGED <<waits, io_queue, doing, issued, dropped>>
    BY <1>8 DEF UseDestroyed, Advance, timer, calls, history, vars
  <2> QED
    BY <2>1 DEF GoneInv, Queued
<1> QED
  BY <1>3, <1>4, <1>5, <1>6, <1>7, <1>8 DEF Next, LoopStep

\* A request is in one place at most, being called, armed, or completed with
\* its handler to run, so a DoEvery never multiplies; it is in one at least until
\* it is aborted or a DoIn's callback is posted; and it is in none once it was
\* aborted: OneChain.
THEOREM ChainsNeverMultiply == Spec => []OneChain
<1>1. IInv =>
        \A r \in Requests : \A p, q \in Armed(r) \cup Calling(r) \cup Handled(r) : p = q
  <2> SUFFICES ASSUME IInv, NEW r \in Requests
               PROVE  \A p, q \in Armed(r) \cup Calling(r) \cup Handled(r) : p = q
    OBVIOUS
  <2>1. PlaceInv
    BY DEF IInv, SafetyInv
  <2>2. \A p \in Armed(r) : r \in Range(waits) /\ \E i \in DOMAIN waits : waits[i] = r /\ p = <<"armed", i>>
    BY DEF Armed, Range
  <2>3. \A p \in Calling(r) : \E th \in Threads : doing[th] = r /\ p = <<"calling", th>>
    BY DEF Calling
  <2>4. \A p \in Handled(r) : /\ Queued("expired", r)
                              /\ \E i \in DOMAIN io_queue :
                                   io_queue[i] = Entry("expired", r) /\ p = <<"queued", i>>
    BY DEF Handled, Queued, Range
  <2>5. \A p, q \in Armed(r) : p = q
    BY <2>1, <2>2 DEF PlaceInv, IsInjective
  <2>6. \A p, q \in Calling(r) : p = q
    BY <2>1, <2>3, TimerAssumption DEF PlaceInv
  <2>7. \A p, q \in Handled(r) : p = q
    <3>1. Entry("expired", r).what # "aborted"
      BY EntryFacts
    <3> QED
      BY <2>1, <2>4, <3>1 DEF PlaceInv, Orderly
  <2>8. /\ Armed(r) = {} \/ Handled(r) = {}
        /\ Calling(r) = {} \/ (Armed(r) = {} /\ Handled(r) = {})
    BY <2>1, <2>2, <2>3, <2>4 DEF PlaceInv
  <2> QED
    BY <2>5, <2>6, <2>7, <2>8
<1>2. ASSUME KeptInv, NEW r \in Requests, r \in issued \ dropped
      PROVE  \/ Armed(r) \cup Calling(r) \cup Handled(r) # {}
             \/ r \notin Repeating /\ (runs[r] > 0 \/ Entry("callback", r) \in ToSet(io_queue))
  <2>1. CASE r \in Range(waits)
    BY <2>1 DEF Armed, Range
  <2>2. CASE Queued("expired", r)
    BY <2>2 DEF Handled, Queued, Range
  <2>3. CASE \E th \in Threads : doing[th] = r
    BY <2>3 DEF Calling
  <2>4. CASE r \notin Repeating /\ (runs[r] > 0 \/ Queued("callback", r))
    BY <2>4 DEF Queued, Range, ToSet
  <2> QED
    BY <1>2, <2>1, <2>2, <2>3, <2>4 DEF KeptInv
<1>3. ASSUME GoneInv, NEW r \in dropped
      PROVE  Armed(r) \cup Calling(r) \cup Handled(r) = {}
  BY <1>3 DEF GoneInv, Armed, Calling, Handled, Queued, Range
<1>4. IInv /\ KeptInv /\ GoneInv => OneChain
  BY <1>1, <1>2, <1>3 DEF OneChain
<1>5. Init => KeptInv /\ GoneInv
  BY DEF Init, KeptInv, GoneInv
<1> QED
  BY <1>4, <1>5, KeptStep, GoneStep, Invariance, PTL DEF Spec

\* Unless two threads' calls overlap, at most one wait is armed: OneWaitAtATime.
THEOREM OneWait == Spec => []OneWaitAtATime
<1>1. IInv => OneWaitAtATime
  BY DEF IInv, SafetyInv, CallInv, OneWaitAtATime
<1> QED
  BY <1>1, Invariance, PTL

\* Unless two threads' calls overlap, n runs of a callback take n intervals of
\* the clock - the durations without what is less than a millisecond - and DoIn
\* runs its callback once: NeverEarly.
THEOREM CallbacksAreNotEarly == Spec => []NeverEarly
<1>1. IInv => NeverEarly
  <2> SUFFICES ASSUME IInv, ~raced, NEW r \in Requests
               PROVE  /\ runs[r] * Interval(r) <= now - start[r]
                      /\ r \notin Repeating => runs[r] <= 1
    BY DEF NeverEarly
  <2>1. TypeOK /\ AccountInv /\ OnceInv
    BY DEF IInv, SafetyInv
  <2>2. /\ Owed(r) \in Nat /\ runs[r] \in Nat /\ runs[r] <= Owed(r)
        /\ Interval(r) \in Nat /\ now \in Nat /\ start[r] \in Nat
    BY <2>1, OwedIsNat, IntervalIsNat DEF TypeOK
  <2>3. Owed(r) * Interval(r) <= now - start[r]
    BY <2>1 DEF AccountInv
  <2>4. runs[r] * Interval(r) <= Owed(r) * Interval(r)
    <3>1. \A m, n, d \in Nat : m <= n => m * d <= n * d
      OBVIOUS
    <3> QED
      BY <2>2, <3>1
  <2>5. runs[r] * Interval(r) \in Nat /\ Owed(r) * Interval(r) \in Nat
    BY <2>2, OneMore
  <2>6. r \notin Repeating => Owed(r) <= 1
    BY <2>1 DEF OnceInv
  <2> QED
    BY <2>2, <2>3, <2>4, <2>5, <2>6
<1> QED
  BY <1>1, Invariance, PTL

\* A timer destroyed while the loop was doing nothing with it is used no more:
\* QuietDestroyIsSafe.
THEOREM QuietDestroy == Spec => []QuietDestroyIsSafe
<1>1. IInv => QuietDestroyIsSafe
  BY DEF IInv
<1> QED
  BY <1>1, Invariance, PTL

\* As long as the clock never moves past work that the loop has still to do, nor
\* calls overlap, the latest request's callback has run once per interval that
\* has passed, and DoIn's once at most: Punctual.
THEOREM LatestIsPunctual == Spec => []Punctual
<1>1. IInv => Punctual
  <2> SUFFICES ASSUME IInv PROVE Punctual
    OBVIOUS
  <2>0. TypeOK
    BY DEF IInv
  <2> SUFFICES ASSUME ~late, ~raced, Settled, NEW r \in Requests, wanted = r, r \notin dropped
               PROVE  LET elapsed == now - start[r] IN
                        IF r \in Repeating
                        THEN /\ runs[r] * Interval(r) <= elapsed
                             /\ elapsed < (runs[r] + 1) * Interval(r)
                        ELSE runs[r] = IF Interval(r) <= elapsed THEN 1 ELSE 0
    BY <2>0 DEF Punctual, TypeOK
  <2> DEFINE d == Interval(r)
             n == Owed(r)
             x == now - start[r]
  <2>1. TypeOK /\ AccountInv /\ OnceInv /\ LatestInv
    BY DEF IInv, SafetyInv
  <2>2. /\ \A th \in Threads : step[th] = "idle"
        /\ ~Queued("expired", r) /\ ~Queued("callback", r)
        /\ waits # <<>> => deadline > now
    BY DEF Settled, Queued, Range
  <2>3. n = runs[r] /\ n \in Nat
    BY <2>1, <2>2, OwedIsNat DEF Owed, One
  <2>4. d \in Nat /\ start[r] \in Nat /\ now \in Nat /\ deadline \in Nat
    BY <2>1, IntervalIsNat DEF TypeOK
  <2>5. Exact(r)
    BY <2>1, TimerAssumption DEF LatestInv
  <2>6. n * d <= x
    BY <2>1 DEF AccountInv
  <2>7. n * d \in Nat /\ (n + 1) * d \in Nat
    BY <2>3, <2>4, OneMore
  <2> HIDE DEF n, d
  <2>8. CASE r \in Range(waits) /\ deadline = start[r] + (n + 1) * d
    <3>1. waits # <<>>
      BY <2>8, EmptyWaits
    <3>2. x < (n + 1) * d
      BY <2>2, <2>4, <2>7, <2>8, <3>1
    <3>3. CASE r \in Repeating
      BY <2>3, <2>6, <3>2, <3>3 DEF d
    <3>4. CASE r \notin Repeating
      <4>1. n = 0
        BY <2>1, <2>8, <3>4 DEF OnceInv, n
      <4>2. x < d /\ x \in Int
        BY <2>4, <3>2, <4>1
      <4> QED
        BY <2>3, <2>4, <3>4, <4>1, <4>2 DEF d
    <3> QED
      BY <3>3, <3>4
  <2>9. CASE r \notin Repeating /\ n = 1 /\ start[r] + d <= now
    <3>1. d <= x
      BY <2>4, <2>9
    <3> QED
      BY <2>3, <2>9, <3>1 DEF d
  <2> QED
    BY <2>2, <2>5, <2>8, <2>9 DEF Exact, n, d
<1> QED
  BY <1>1, Invariance, PTL
=============================================================================
