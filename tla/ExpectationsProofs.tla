------------------------- MODULE ExpectationsProofs -------------------------
(***************************************************************************)
(* InSequence, the verdict of a test and the end of fixtures, for any      *)
(* number of signatures, matchers, statements and tests.                   *)
(*                                                                         *)
(* IInv is the inductive invariant.  An expectation that waits for ranks   *)
(* has an interval of them to itself; the intervals lie between the        *)
(* sequence's current and next rank, in the order of the statements, and   *)
(* leave no gap as long as nothing was met out of turn or destroyed unmet. *)
(*                                                                         *)
(* VerdictInv adds an account of every statement: what it asked for is     *)
(* what it got and what its expectations still wait for.  An expectation   *)
(* waits for as many units as it has matches left, so that the account of  *)
(* a statement is the cardinality of a set and not a sum over a sequence.  *)
(***************************************************************************)
EXTENDS Expectations, SequenceLemmas, WellFoundedInduction, FiniteSetTheorems

\* The expectations that still wait for ranks.
Waiting == {p \in RankedPlaces : At(p).left > 0}

Current == sequence[Test].current
Handed == sequence[Test].next

\* Ranks are handed out once, in the order of the statements.
RankInv ==
  /\ Current <= Handed
  /\ \A p \in Waiting : Current <= At(p).rank /\ At(p).rank + At(p).left <= Handed
  /\ \A p, q \in Waiting :
       p # q => \/ At(p).rank + At(p).left <= At(q).rank
                \/ At(q).rank + At(q).left <= At(p).rank
  /\ \A p, q \in Waiting :
       At(p).rank < At(q).rank => At(p).statement <= At(q).statement

\* Every rank that is still to come has an expectation that waits for it.
GaplessInv ==
  ~strayed /\ ~missing /\ ~failed =>
    \A k \in Current..Handed - 1 :
      \E p \in Waiting : At(p).rank <= k /\ k < At(p).rank + At(p).left

\* The statements met so far come before those that still wait.
MetInv ==
  /\ \A p \in Places : At(p).statement <= statements
  /\ \A i \in DOMAIN met : met[i] <= statements
  /\ ~strayed => \A i \in DOMAIN met, p \in Waiting : met[i] <= At(p).statement

\* Only the test's thread uses InSequence.
WorkerInv == \A w \in Workers : ~sequence[w].on

BuilderInv == builder # None => statements # 0

\* Tests after the first find the Default network's loop stopped, and a fixture
\* is destroyed only after that loop's worker is done.
EndInv ==
  /\ test > 1 \/ phase \in {"stopping", "stopped", "over"} => closed
  /\ phase \in {"stopped", "over"} => Joined

SafetyInv == RankInv /\ GaplessInv /\ MetInv /\ WorkerInv /\ BuilderInv /\ EndInv

IInv == TypeOK /\ SafetyInv /\ OrderKept /\ FixtureEndIsSafe

\* The matches statement i still waits for, each named by its expectation and
\* its number there.
Units(i) == UNION {{p} \X (1..At(p).left) : p \in {q \in Places : At(q).statement = i}}
Left(i) == Cardinality(Units(i))

OfThisTest == before + 1 .. MaxStatements

\* The matches a statement asked for are those it got and those it waits for,
\* except where the test reported a missing call or event.
Balanced ==
  /\ \A i \in Statements : IsFiniteSet(Units(i)) /\ taken[i] + Left(i) <= asked[i]
  /\ ~missing => \A i \in OfThisTest : taken[i] + Left(i) = asked[i]
  /\ missing => \E i \in OfThisTest : taken[i] + Left(i) < asked[i]

\* The expectations there are belong to statements of the test that runs.
OwnInv ==
  /\ \A i \in Statements : i > statements => asked[i] = 0
  /\ \A p \in Places : At(p).statement > before
  /\ phase = "over" => Places = {}
  /\ builder # None => phase = "arrange" /\ before < statements

Offends(j) == Forbidden(queue[j].sig, queue[j].arg)

\* A forbidden call or event is reported, or still in the queue.
ReportInv ==
  /\ unexpected => offended
  /\ ~closed => \A j \in DOMAIN queue : Offends(j) => offended
  /\ phase = "arrange" /\ ~closed => queue = <<>>
  /\ offended /\ ~unexpected /\ phase = "over" => queue # <<>>
  /\ offended /\ ~unexpected /\ phase # "over" => \E j \in DOMAIN queue : Offends(j)

VerdictInv == Balanced /\ OwnInv /\ ReportInv

-----------------------------------------------------------------------------
\* A set of numbers has a least one, so SelectInSeq finds what it looks for.
LEMMA LeastNumber ==
  ASSUME NEW I \in SUBSET Nat, I # {}
  PROVE  Min(I) \in I
<1> DEFINE R == {ss \in Nat \X Nat : ss[1] < ss[2]}
<1>1. IsWellFoundedOn(R, Nat)
  BY NatLessThanWellFounded DEF OpToRel
<1> HIDE DEF R
<1>2. \E x \in I : \A y \in I : ~ (<<y, x>> \in R)
  <2>1. I \subseteq Nat /\ I # {}
    OBVIOUS
  <2> QED
    BY <1>1, <2>1, WFMin
<1>3. PICK m \in I : \A y \in I : ~ (<<y, m>> \in R)
  BY <1>2
<1>4. \A y \in I : m <= y
  <2>1. \A y \in I : y \in Nat /\ m \in Nat
    OBVIOUS
  <2>2. \A y \in I : ~(y < m)
    BY <1>3, <2>1 DEF R
  <2> QED
    BY <2>1, <2>2
<1> QED
  BY <1>4 DEF Min

LEMMA FirstToValidate ==
  ASSUME NEW s \in Sigs, NEW arg, NEW th, NEW i,
         i = SelectInSeq(remaining[s], LAMBDA e : Validates(e, arg, th)),
         remaining[s] \in Seq(Expectation)
  PROVE  i = 0 \/ (i \in DOMAIN remaining[s] /\ Validates(remaining[s][i], arg, th))
<1> DEFINE I == {j \in 1..Len(remaining[s]) : Validates(remaining[s][j], arg, th)}
<1>1. i = IF I # {} THEN Min(I) ELSE 0
  BY DEF SelectInSeq
<1>2. I \in SUBSET Nat /\ DOMAIN remaining[s] = 1..Len(remaining[s])
  BY LenProperties
<1>3. CASE I # {}
  <2>1. i \in I
    BY <1>1, <1>2, <1>3, LeastNumber
  <2> QED
    BY <1>2, <2>1
<1> QED
  BY <1>1, <1>3

\* The places of the expectations, and what is there.
LEMMA PlacesAre ==
  ASSUME TypeOK
  PROVE  /\ \A p : p \in Places <=> \E s \in Sigs : \E i \in DOMAIN remaining[s] : p = <<s, i>>
         /\ \A p \in Places : At(p) \in Expectation
<1>1. ASSUME NEW p
      PROVE  p \in Places <=> \E s \in Sigs : \E i \in DOMAIN remaining[s] : p = <<s, i>>
  <2>1. p \in Places <=> \E s \in Sigs : p \in {s} \X DOMAIN remaining[s]
    BY DEF Places
  <2>2. \A s : p \in {s} \X DOMAIN remaining[s] <=> \E i \in DOMAIN remaining[s] : p = <<s, i>>
    OBVIOUS
  <2> QED
    BY <2>1, <2>2
<1>2. ASSUME NEW p \in Places PROVE At(p) \in Expectation
  <2>1. PICK s \in Sigs : \E i \in DOMAIN remaining[s] : p = <<s, i>>
    BY <1>1
  <2>4. PICK i \in DOMAIN remaining[s] : p = <<s, i>>
    BY <2>1
  <2>2. remaining[s] \in Seq(Expectation)
    BY <2>1 DEF TypeOK
  <2>3. remaining[s][i] \in Expectation
    BY <2>2, ElementOfSeq, LenProperties
  <2> QED
    BY <2>4, <2>3 DEF At
<1> QED
  BY <1>1, <1>2

LEMMA WaitingAre ==
  ASSUME TypeOK
  PROVE  /\ \A p : p \in Waiting <=> p \in Places /\ At(p).rank # -1 /\ At(p).left > 0
         /\ \A p \in Waiting : /\ At(p).rank \in Nat /\ At(p).left \in Nat \ {0}
                               /\ At(p).statement \in Nat
<1>1. \A p : p \in Waiting <=> p \in Places /\ At(p).rank # -1 /\ At(p).left > 0
  BY DEF Waiting, RankedPlaces, Ranked, Unranked
<1>2. ASSUME NEW p \in Waiting
      PROVE  At(p).rank \in Nat /\ At(p).left \in Nat \ {0} /\ At(p).statement \in Nat
  <2>1. At(p) \in Expectation /\ At(p).rank # -1 /\ At(p).left > 0
    BY <1>1, PlacesAre
  <2> QED
    BY <2>1 DEF Expectation, Statements, Unranked
<1> QED
  BY <1>1, <1>2

LEMMA SequenceTyped ==
  ASSUME TypeOK
  PROVE  /\ Current \in Nat /\ Handed \in Nat
         /\ \A th \in Threads : sequence[th].on \in BOOLEAN
         /\ Test \in Threads /\ Workers \subseteq Threads /\ Test \notin Workers
BY ExpectationsAssumption DEF TypeOK, Current, Handed, Threads

-----------------------------------------------------------------------------
\* What a step keeps that adds and meets no expectation, and destroys none that
\* waits, or reports it.
LEMMA Fewer ==
  ASSUME TypeOK, RankInv, GaplessInv, MetInv, OrderKept,
         Places' \subseteq Places, \A p \in Places' : At(p)' = At(p),
         Current' = Current, Handed' = Handed,
         met' = met, strayed' = strayed, statements' \in Nat, statements <= statements',
         ~missing' /\ ~failed' => /\ ~missing /\ ~failed
                                  /\ \A p \in Places \ Places' : At(p).left = 0
  PROVE  RankInv' /\ GaplessInv' /\ MetInv' /\ OrderKept'
<1>1. \A p : p \in Waiting' <=> p \in Places' /\ p \in Waiting
  BY DEF Waiting, RankedPlaces, Ranked
<1>2. RankInv'
  BY <1>1 DEF RankInv, Waiting, RankedPlaces
<1>3. GaplessInv'
  <2> SUFFICES ASSUME ~strayed, ~missing', ~failed', NEW k \in Current..Handed - 1
               PROVE  \E p \in Waiting' : At(p)'.rank <= k /\ k < At(p)'.rank + At(p)'.left
    BY DEF GaplessInv
  <2>1. PICK p \in Waiting : At(p).rank <= k /\ k < At(p).rank + At(p).left
    BY DEF GaplessInv
  <2>2. p \in Places'
    BY DEF Waiting, RankedPlaces
  <2> QED
    BY <1>1, <2>1, <2>2
<1>4. MetInv'
  <2>1. \A p \in Places' : At(p)'.statement <= statements'
    <3> TAKE p \in Places'
    <3>1. p \in Places /\ At(p).statement <= statements /\ At(p) \in Expectation
      BY PlacesAre DEF MetInv
    <3>2. At(p).statement \in Nat
      BY <3>1 DEF Expectation, Statements
    <3>3. statements \in Nat /\ At(p)' = At(p)
      BY DEF TypeOK
    <3> QED
      BY <3>1, <3>2, <3>3
  <2>2. \A i \in DOMAIN met' : met'[i] <= statements'
    <3> TAKE i \in DOMAIN met'
    <3>1. met[i] \in Statements /\ met[i] <= statements /\ statements \in Nat
      BY ElementOfSeq, LenProperties DEF MetInv, TypeOK
    <3> QED
      BY <3>1 DEF Statements
  <2>3. ~strayed' => \A i \in DOMAIN met', p \in Waiting' : met'[i] <= At(p)'.statement
    BY <1>1 DEF MetInv, Waiting, RankedPlaces
  <2> QED
    BY <2>1, <2>2, <2>3 DEF MetInv
<1>5. OrderKept'
  BY DEF OrderKept, Ordered
<1> QED
  BY <1>2, <1>3, <1>4, <1>5

\* The same, for the steps that leave the expectations alone.
LEMMA NoExpectation ==
  ASSUME TypeOK, RankInv, GaplessInv, MetInv, OrderKept,
         remaining' = remaining, Current' = Current, Handed' = Handed,
         met' = met, strayed' = strayed, statements' \in Nat, statements <= statements',
         ~missing' /\ ~failed' => ~missing /\ ~failed
  PROVE  RankInv' /\ GaplessInv' /\ MetInv' /\ OrderKept'
<1>1. Places' = Places /\ \A p \in Places' : At(p)' = At(p)
  BY DEF Places, At
<1> QED
  BY <1>1, Fewer

-----------------------------------------------------------------------------
SequenceType == [Threads -> [next : Nat, current : Nat, on : BOOLEAN]]

\* A new expectation: a new place, and as many new ranks as it waits for.
LEMMA AddEffect ==
  ASSUME TypeOK, BuilderInv, builder # None, NEW count \in Nat, AddExpectation(count)
  PROVE  /\ remaining' \in [Sigs -> Seq(Expectation)] /\ asked' \in [Statements -> Nat]
         /\ asked' = [asked EXCEPT ![statements] = @ + count]
         /\ sequence' \in SequenceType
         /\ Current' = Current
         /\ \A w \in Workers : sequence'[w] = sequence[w]
         /\ Handed' = Handed + IF sequence[Test].on THEN count ELSE 0
         /\ \E n : /\ n \notin Places /\ Places' = Places \cup {n}
                   /\ \A p \in Places : At(p)' = At(p)
                   /\ At(n)'.statement = statements /\ At(n)'.left = count
                   /\ At(n)'.rank = IF sequence[Test].on THEN Handed ELSE -1
<1> DEFINE s == builder.sig
           q == sequence[Test]
           e == [statement |-> statements, want |-> builder.want, left |-> count,
                 rank |-> IF q.on THEN q.next ELSE -1]
<1>1. /\ remaining' = [remaining EXCEPT ![s] = Append(remaining[s], e)]
      /\ sequence' = IF q.on THEN [sequence EXCEPT ![Test].next = q.next + count] ELSE sequence
      /\ asked' = [asked EXCEPT ![statements] = @ + count]
  BY DEF AddExpectation, RanksFor, Unranked
<1>2. s \in Sigs /\ builder.want \in Matchers
  BY DEF TypeOK
<1>3. statements \in Statements
  BY DEF TypeOK, BuilderInv, Statements
<1>4. /\ q \in [next : Nat, current : Nat, on : BOOLEAN] /\ sequence \in SequenceType
      /\ Test \in Threads /\ Workers \subseteq Threads /\ Test \notin Workers
  BY SequenceTyped DEF TypeOK, SequenceType
<1>5. e \in Expectation
  BY <1>2, <1>3, <1>4 DEF Expectation, Unranked
<1>6. /\ e.statement = statements /\ e.left = count
      /\ e.rank = IF q.on THEN q.next ELSE -1
  OBVIOUS
<1>7. Handed = q.next /\ Current = q.current
  BY DEF Handed, Current
<1> HIDE DEF s, e, q
<1>8. remaining \in [Sigs -> Seq(Expectation)] /\ remaining[s] \in Seq(Expectation)
  BY <1>2 DEF TypeOK
<1>9. /\ Append(remaining[s], e) \in Seq(Expectation)
      /\ DOMAIN remaining[s] = 1..Len(remaining[s]) /\ Len(remaining[s]) \in Nat
      /\ DOMAIN Append(remaining[s], e) = 1..(Len(remaining[s]) + 1)
      /\ \A i \in 1..Len(remaining[s]) : Append(remaining[s], e)[i] = remaining[s][i]
      /\ Append(remaining[s], e)[Len(remaining[s]) + 1] = e
  BY <1>5, <1>8, AppendProperties, LenProperties
<1>10. remaining' \in [Sigs -> Seq(Expectation)]
  BY <1>1, <1>2, <1>8, <1>9
<1>11. asked' \in [Statements -> Nat]
  <2>1. asked \in [Statements -> Nat]
    BY DEF TypeOK
  <2> QED
    BY <1>1, <1>3, <2>1
<1>12. /\ sequence' \in SequenceType /\ \A w \in Workers : sequence'[w] = sequence[w]
       /\ sequence'[Test].current = q.current
       /\ sequence'[Test].next = q.next + IF q.on THEN count ELSE 0
  <2>1. CASE q.on
    <3>1. sequence' = [sequence EXCEPT ![Test] = [q EXCEPT !.next = q.next + count]]
      BY <1>1, <2>1 DEF q
    <3>2. q.next + count \in Nat
      BY <1>4
    <3>3. [q EXCEPT !.next = q.next + count] \in [next : Nat, current : Nat, on : BOOLEAN]
      BY <1>4, <3>2
    <3>4. [q EXCEPT !.next = q.next + count].current = q.current
          /\ [q EXCEPT !.next = q.next + count].next = q.next + count
      BY <1>4
    <3> QED
      BY <1>4, <2>1, <3>1, <3>3, <3>4 DEF SequenceType
  <2>2. CASE ~q.on
    BY <1>1, <1>4, <2>2 DEF q
  <2> QED
    BY <2>1, <2>2
<1>13. \A t \in Sigs \ {s} : remaining'[t] = remaining[t]
  BY <1>1, <1>8
<1>14. remaining'[s] = Append(remaining[s], e)
  BY <1>1, <1>2, <1>8
<1>15. \A p : p \in Places <=> \E t \in Sigs : \E i \in DOMAIN remaining[t] : p = <<t, i>>
  BY PlacesAre
<1>16. \A p : p \in Places' <=> \E t \in Sigs : \E i \in DOMAIN remaining'[t] : p = <<t, i>>
  <2> TAKE p
  <2>1. p \in Places' <=> \E t \in Sigs : p \in {t} \X DOMAIN remaining'[t]
    BY DEF Places
  <2>2. \A t : p \in {t} \X DOMAIN remaining'[t] <=> \E i \in DOMAIN remaining'[t] : p = <<t, i>>
    OBVIOUS
  <2> QED
    BY <2>1, <2>2
<1> PICK n : n = <<s, Len(remaining[s]) + 1>>
  OBVIOUS
<1>17. n \notin Places
  <2>1. ASSUME NEW t \in Sigs, NEW i \in DOMAIN remaining[t], n = <<t, i>> PROVE FALSE
    <3>1. t = s /\ i = Len(remaining[s]) + 1
      BY <2>1
    <3> QED
      BY <1>9, <2>1, <3>1
  <2> QED
    BY <1>15, <2>1
<1>18. DOMAIN remaining'[s] = DOMAIN remaining[s] \cup {Len(remaining[s]) + 1}
  BY <1>9, <1>14
<1>19. Places' = Places \cup {n}
  <2>1. \A p : p \in Places' <=> p \in Places \/ p = n
    <3> TAKE p
    <3>1. ASSUME NEW t \in Sigs \ {s}
          PROVE  (\E i \in DOMAIN remaining'[t] : p = <<t, i>>)
                   <=> \E i \in DOMAIN remaining[t] : p = <<t, i>>
      BY <1>13
    <3>2. (\E i \in DOMAIN remaining'[s] : p = <<s, i>>)
            <=> p = n \/ \E i \in DOMAIN remaining[s] : p = <<s, i>>
      BY <1>18
    <3> QED
      BY <1>2, <1>15, <1>16, <3>1, <3>2
  <2> QED
    BY <2>1
<1>20. \A p \in Places : At(p)' = At(p)
  <2> TAKE p \in Places
  <2>1. PICK t \in Sigs : \E i \in DOMAIN remaining[t] : p = <<t, i>>
    BY <1>15
  <2>2. PICK i \in DOMAIN remaining[t] : p = <<t, i>>
    BY <2>1
  <2>3. remaining'[t][i] = remaining[t][i]
    <3>1. CASE t = s
      BY <1>9, <1>14, <2>2, <3>1
    <3>2. CASE t # s
      BY <1>13, <2>1, <3>2
    <3> QED
      BY <3>1, <3>2
  <2> QED
    BY <2>2, <2>3 DEF At
<1>21. At(n)' = e
  BY <1>9, <1>14 DEF At
<1>22. \E m : /\ m \notin Places /\ Places' = Places \cup {m}
              /\ \A p \in Places : At(p)' = At(p)
              /\ At(m)'.statement = statements /\ At(m)'.left = count
              /\ At(m)'.rank = IF sequence[Test].on THEN Handed ELSE -1
  <2>1. /\ At(n)'.statement = statements /\ At(n)'.left = count
        /\ At(n)'.rank = IF sequence[Test].on THEN Handed ELSE -1
    BY <1>6, <1>7, <1>21 DEF q
  <2> QED
    BY <1>17, <1>19, <1>20, <2>1
<1> QED
  BY <1>1, <1>7, <1>10, <1>11, <1>12, <1>22 DEF q, Handed, Current

\* Adding an expectation keeps the ranks in order and without a gap.
LEMMA AddKeeps ==
  ASSUME TypeOK, SafetyInv, OrderKept, builder # None, NEW count \in Nat,
         AddExpectation(count), UNCHANGED <<met, strayed, missing, failed, statements>>
  PROVE  RankInv' /\ GaplessInv' /\ MetInv' /\ WorkerInv' /\ OrderKept'
<1>0. RankInv /\ GaplessInv /\ MetInv /\ WorkerInv /\ BuilderInv
  BY DEF SafetyInv
<1>1. Current' = Current /\ Handed' = Handed + IF sequence[Test].on THEN count ELSE 0
  BY <1>0, AddEffect
<1>2. PICK n : /\ n \notin Places /\ Places' = Places \cup {n}
               /\ \A p \in Places : At(p)' = At(p)
               /\ At(n)'.statement = statements /\ At(n)'.left = count
               /\ At(n)'.rank = IF sequence[Test].on THEN Handed ELSE -1
  BY <1>0, AddEffect
<1>3. Current \in Nat /\ Handed \in Nat /\ sequence[Test].on \in BOOLEAN /\ statements \in Nat
  BY SequenceTyped DEF TypeOK
<1>4. \A p : p \in Waiting' <=> p \in Places' /\ At(p)'.rank # -1 /\ At(p)'.left > 0
  BY DEF Waiting, RankedPlaces, Ranked, Unranked
<1>5. \A p \in Places : p \in Waiting' <=> p \in Waiting
  BY <1>2, <1>4, WaitingAre
<1>6. n \in Waiting' <=> sequence[Test].on /\ count > 0
  BY <1>2, <1>3, <1>4
<1>7. Waiting \subseteq Waiting' /\ \A p \in Waiting : p # n /\ At(p)' = At(p) /\ p \in Places
  BY <1>2, <1>5, WaitingAre
<1>8. \A p \in Waiting' : p = n \/ p \in Waiting
  BY <1>2, <1>4, <1>5
<1>9. n \in Waiting' => At(n)'.rank = Handed /\ Handed' = Handed + count /\ At(n)'.left = count
  BY <1>1, <1>2, <1>6
<1>10. Handed <= Handed' /\ Handed' \in Nat
  BY <1>1, <1>3
<1>11. \A p \in Waiting : /\ At(p).rank \in Nat /\ At(p).left \in Nat \ {0}
                          /\ At(p).statement \in Nat /\ At(p).statement <= statements
                          /\ Current <= At(p).rank /\ At(p).rank + At(p).left <= Handed
  BY <1>0, <1>7, WaitingAre DEF RankInv, MetInv
<1>12. RankInv'
  <2>1. Current' <= Handed'
    BY <1>0, <1>1, <1>3, <1>10 DEF RankInv
  <2>2. ASSUME NEW p \in Waiting'
        PROVE  Current' <= At(p)'.rank /\ At(p)'.rank + At(p)'.left <= Handed'
    <3>1. CASE p = n
      BY <1>0, <1>1, <1>3, <1>9, <2>2, <3>1 DEF RankInv
    <3>2. CASE p \in Waiting
      BY <1>1, <1>3, <1>7, <1>10, <1>11, <3>2
    <3> QED
      BY <1>8, <3>1, <3>2
  <2>3. ASSUME NEW p \in Waiting', NEW q \in Waiting', p # q
        PROVE  \/ At(p)'.rank + At(p)'.left <= At(q)'.rank
               \/ At(q)'.rank + At(q)'.left <= At(p)'.rank
    <3>1. CASE p \in Waiting /\ q \in Waiting
      BY <1>0, <1>7, <2>3, <3>1 DEF RankInv
    <3>2. CASE p = n /\ q \in Waiting
      BY <1>7, <1>9, <1>11, <3>2
    <3>3. CASE q = n /\ p \in Waiting
      BY <1>7, <1>9, <1>11, <3>3
    <3> QED
      BY <1>8, <2>3, <3>1, <3>2, <3>3
  <2>4. ASSUME NEW p \in Waiting', NEW q \in Waiting', At(p)'.rank < At(q)'.rank
        PROVE  At(p)'.statement <= At(q)'.statement
    <3>1. CASE p \in Waiting /\ q \in Waiting
      BY <1>0, <1>7, <2>4, <3>1 DEF RankInv
    <3>2. CASE p = n /\ q \in Waiting
      BY <1>3, <1>7, <1>9, <1>11, <2>4, <3>2
    <3>3. CASE q = n /\ p \in Waiting
      BY <1>2, <1>7, <1>11, <3>3
    <3>4. CASE p = n /\ q = n
      BY <1>3, <1>9, <2>4, <3>4
    <3> QED
      BY <1>8, <3>1, <3>2, <3>3, <3>4
  <2> QED
    BY <2>1, <2>2, <2>3, <2>4 DEF RankInv
<1>13. GaplessInv'
  <2> SUFFICES ASSUME ~strayed, ~missing, ~failed, NEW k \in Current..Handed' - 1
               PROVE  \E p \in Waiting' : At(p)'.rank <= k /\ k < At(p)'.rank + At(p)'.left
    BY <1>1 DEF GaplessInv
  <2>1. CASE k < Handed
    <3>1. k \in Current..Handed - 1
      BY <1>3, <1>10, <2>1
    <3>2. PICK p \in Waiting : At(p).rank <= k /\ k < At(p).rank + At(p).left
      BY <1>0, <3>1 DEF GaplessInv
    <3> QED
      BY <1>7, <3>2
  <2>2. CASE ~(k < Handed)
    <3>1. sequence[Test].on /\ count > 0 /\ Handed <= k /\ k < Handed + count
      BY <1>1, <1>3, <2>2
    <3> QED
      BY <1>6, <1>9, <3>1
  <2> QED
    BY <2>1, <2>2
<1>14. MetInv'
  <2>1. \A p \in Places' : At(p)'.statement <= statements
    BY <1>0, <1>2, <1>3 DEF MetInv
  <2>2. ~strayed => \A i \in DOMAIN met, p \in Waiting' : met[i] <= At(p)'.statement
    BY <1>0, <1>2, <1>7, <1>8 DEF MetInv
  <2> QED
    BY <1>0, <2>1, <2>2 DEF MetInv
<1>15. WorkerInv' /\ OrderKept'
  <2>1. \A w \in Workers : sequence'[w] = sequence[w]
    BY <1>0, AddEffect
  <2> QED
    BY <1>0, <2>1 DEF WorkerInv, OrderKept, Ordered
<1> QED
  BY <1>12, <1>13, <1>14, <1>15

-----------------------------------------------------------------------------
\* What the expectation at n is like after it took a call or event on thread th.
Counts(n, th) == At(n).rank # -1 /\ th = Test /\ sequence[Test].on

Took(n, th) ==
  /\ n \in Places /\ At(n).left \in Nat \ {0}
  /\ Counts(n, th) => At(n).rank = Current
  /\ Places' = Places /\ \A p \in Places \ {n} : At(p)' = At(p)
  /\ At(n)'.statement = At(n).statement /\ At(n)'.left = At(n).left - 1
  /\ At(n)'.rank = At(n).rank + IF Counts(n, th) THEN 1 ELSE 0
  /\ Handed' = Handed /\ Current' = Current + IF Counts(n, th) THEN 1 ELSE 0
  /\ met' = IF At(n).rank # -1 /\ sequence[Test].on THEN Append(met, At(n).statement) ELSE met
  /\ strayed' = (strayed \/ (At(n).rank # -1 /\ ~Counts(n, th)))
  /\ taken' = [taken EXCEPT ![At(n).statement] = @ + 1]

LEMMA MatchEffect ==
  ASSUME TypeOK, WorkerInv, NEW s \in Sigs, NEW arg, NEW th \in Threads,
         Match(s, arg, th)
  PROVE  \/ UNCHANGED <<remaining, sequence, matches, executing>>
         \/ /\ remaining' \in [Sigs -> Seq(Expectation)] /\ taken' \in [Statements -> Nat]
            /\ sequence' \in SequenceType /\ \A w \in Workers : sequence'[w] = sequence[w]
            /\ executing' = IF th = Test THEN executing ELSE executing \cup {<<th, s>>}
            /\ \E n \in Places : Took(n, th)
<1> DEFINE i == SelectInSeq(remaining[s], LAMBDA x : Validates(x, arg, th))
           e == remaining[s][i]
           counts == Ranked(e) /\ sequence[th].on
           f == [e EXCEPT !.left = e.left - 1, !.rank = IF counts THEN e.rank + 1 ELSE e.rank]
<1>1. remaining \in [Sigs -> Seq(Expectation)] /\ remaining[s] \in Seq(Expectation)
  BY DEF TypeOK
<1>2. i = 0 \/ (i \in DOMAIN remaining[s] /\ Validates(remaining[s][i], arg, th))
  BY <1>1, FirstToValidate
<1>3. CASE i = 0
  BY <1>3 DEF Match
<1>4. CASE i # 0
  <2>1. /\ remaining' = [remaining EXCEPT ![s][i].left = OneLess(@),
                                          ![s][i].rank = IF counts THEN NextRank(@) ELSE @]
        /\ sequence' = IF counts THEN [sequence EXCEPT ![th].current = @ + 1] ELSE sequence
        /\ taken' = [taken EXCEPT ![e.statement] = @ + 1]
        /\ met' = IF Ranked(e) /\ sequence[Test].on THEN Append(met, e.statement) ELSE met
        /\ strayed' = (strayed \/ (Ranked(e) /\ ~counts))
        /\ executing' = IF th = Test THEN executing ELSE executing \cup {<<th, s>>}
    BY <1>4 DEF Match
  <2>2. i \in DOMAIN remaining[s] /\ Validates(e, arg, th)
    BY <1>2, <1>4
  <2> HIDE DEF i
  <2>3. e \in Expectation
    BY <1>1, <2>2, ElementOfSeq, LenProperties
  <2> PICK x : x = e
    OBVIOUS
  <2>4. /\ x.left \in Nat \ {0} /\ x.rank \in Nat \cup {-1} /\ x.statement \in Statements
        /\ counts => x.rank = sequence[th].current
        /\ Ranked(e) <=> x.rank # -1
    BY <2>2, <2>3 DEF Expectation, Validates, InOrder, Ranked, Unranked
  <2>5. /\ sequence \in SequenceType /\ taken \in [Statements -> Nat]
        /\ Test \in Threads /\ Workers \subseteq Threads /\ Test \notin Workers
        /\ th # Test => ~sequence[th].on
    BY SequenceTyped DEF TypeOK, SequenceType, WorkerInv, Threads
  <2>6. counts <=> x.rank # -1 /\ th = Test /\ sequence[Test].on
    BY <2>4, <2>5
  <2>7. remaining' = [remaining EXCEPT ![s] = [remaining[s] EXCEPT ![i] = f]]
    BY <1>1, <2>1, <2>2, <2>3 DEF OneLess, NextRank, Expectation
  <2> PICK y : y = f
    OBVIOUS
  <2>8. /\ y \in Expectation /\ y.statement = x.statement /\ y.left = x.left - 1
        /\ y.rank = IF counts THEN x.rank + 1 ELSE x.rank
    <3>1. x.left - 1 \in Nat /\ (IF counts THEN x.rank + 1 ELSE x.rank) \in Nat \cup {-1}
      BY <2>4, <2>6
    <3> QED
      BY <2>3, <3>1 DEF Expectation, Unranked
  <2> HIDE DEF f
  <2>9. /\ [remaining[s] EXCEPT ![i] = y] \in Seq(Expectation)
        /\ DOMAIN [remaining[s] EXCEPT ![i] = y] = DOMAIN remaining[s]
        /\ \A j \in DOMAIN remaining[s] \ {i} :
             [remaining[s] EXCEPT ![i] = y][j] = remaining[s][j]
        /\ [remaining[s] EXCEPT ![i] = y][i] = y
    BY <1>1, <2>2, <2>8, ExceptSeq
  <2>10. remaining' \in [Sigs -> Seq(Expectation)]
    BY <1>1, <2>7, <2>9
  <2>11. taken' \in [Statements -> Nat]
    BY <2>1, <2>4, <2>5
  <2>12. /\ sequence' \in SequenceType /\ \A w \in Workers : sequence'[w] = sequence[w]
         /\ sequence'[Test].next = sequence[Test].next
         /\ sequence'[Test].current = sequence[Test].current + IF counts THEN 1 ELSE 0
    <3>1. CASE counts
      <4> DEFINE q == sequence[Test]
      <4>1. th = Test /\ q \in [next : Nat, current : Nat, on : BOOLEAN]
        BY <2>5, <2>6, <3>1 DEF SequenceType
      <4>2. sequence' = [sequence EXCEPT ![Test] = [q EXCEPT !.current = q.current + 1]]
        BY <2>1, <3>1, <4>1
      <4>3. /\ [q EXCEPT !.current = q.current + 1] \in [next : Nat, current : Nat, on : BOOLEAN]
            /\ [q EXCEPT !.current = q.current + 1].next = q.next
            /\ [q EXCEPT !.current = q.current + 1].current = q.current + 1
        BY <4>1
      <4> QED
        BY <2>5, <3>1, <4>2, <4>3 DEF SequenceType
    <3>2. CASE ~counts
      <4>1. sequence' = sequence /\ sequence[Test].current \in Nat
        BY <2>1, <2>5, <3>2 DEF SequenceType
      <4> QED
        BY <2>5, <3>2, <4>1
    <3> QED
      BY <3>1, <3>2
  <2> PICK n : n = <<s, i>>
    OBVIOUS
  <2>13. n \in Places
    BY <2>2, PlacesAre
  <2>14. At(n) = x
    BY DEF At
  <2>15. remaining'[s] = [remaining[s] EXCEPT ![i] = y]
    BY <1>1, <2>7
  <2>16. At(n)' = y
    BY <2>9, <2>15 DEF At
  <2>17. \A t \in Sigs : DOMAIN remaining'[t] = DOMAIN remaining[t]
    <3> TAKE t \in Sigs
    <3>1. t # s => remaining'[t] = remaining[t]
      BY <1>1, <2>7
    <3> QED
      BY <2>9, <2>15, <3>1
  <2>18. Places' = Places
    <3>1. \A p : p \in Places' <=> \E t \in Sigs : p \in {t} \X DOMAIN remaining'[t]
      BY DEF Places
    <3>2. \A p : p \in Places <=> \E t \in Sigs : p \in {t} \X DOMAIN remaining[t]
      BY DEF Places
    <3>3. \A p : p \in Places' <=> p \in Places
      BY <2>17, <3>1, <3>2
    <3> QED
      BY <3>3
  <2>19. \A p \in Places \ {n} : At(p)' = At(p)
    <3> TAKE p \in Places \ {n}
    <3>1. PICK t \in Sigs : \E j \in DOMAIN remaining[t] : p = <<t, j>>
      BY PlacesAre
    <3>2. PICK j \in DOMAIN remaining[t] : p = <<t, j>>
      BY <3>1
    <3>3. t # s \/ j # i
      BY <3>2
    <3>4. remaining'[t][j] = remaining[t][j]
      <4>1. CASE t = s
        BY <2>9, <2>15, <3>2, <3>3, <4>1
      <4>2. CASE t # s
        BY <1>1, <2>7, <3>1, <4>2
      <4> QED
        BY <4>1, <4>2
    <3> QED
      BY <3>2, <3>4 DEF At
  <2> HIDE DEF e, counts
  <2>20. Counts(n, th) <=> counts
    BY <2>6, <2>14 DEF Counts
  <2>21. met' = IF x.rank # -1 /\ sequence[Test].on THEN Append(met, x.statement) ELSE met
    BY <2>1, <2>4
  <2>22. strayed' = (strayed \/ (x.rank # -1 /\ ~counts))
    BY <2>1, <2>4
  <2>25. taken' = [taken EXCEPT ![x.statement] = @ + 1]
    BY <2>1
  <2>23. Took(n, th)
    <3>1. /\ At(n).left \in Nat \ {0} /\ (Counts(n, th) => At(n).rank = Current)
          /\ At(n)'.statement = At(n).statement /\ At(n)'.left = At(n).left - 1
          /\ At(n)'.rank = At(n).rank + IF Counts(n, th) THEN 1 ELSE 0
      BY <2>4, <2>6, <2>8, <2>14, <2>16, <2>20 DEF Current
    <3>2. /\ Handed' = Handed /\ Current' = Current + IF Counts(n, th) THEN 1 ELSE 0
          /\ met' = IF At(n).rank # -1 /\ sequence[Test].on
                    THEN Append(met, At(n).statement) ELSE met
      BY <2>12, <2>14, <2>20, <2>21 DEF Current, Handed
    <3>3. /\ strayed' = (strayed \/ (At(n).rank # -1 /\ ~Counts(n, th)))
          /\ taken' = [taken EXCEPT ![At(n).statement] = @ + 1]
      BY <2>14, <2>20, <2>22, <2>25
    <3> QED
      BY <2>13, <2>18, <2>19, <3>1, <3>2, <3>3 DEF Took
  <2> QED
    BY <2>1, <2>10, <2>11, <2>12, <2>13, <2>23
<1> QED
  BY <1>3, <1>4

\* Meeting an expectation keeps the ranks in order and without a gap, unless it
\* strays.
LEMMA TookKeeps ==
  ASSUME TypeOK, SafetyInv, OrderKept, NEW n \in Places, NEW th \in Threads,
         Took(n, th), UNCHANGED <<missing, failed, statements>>
  PROVE  RankInv' /\ GaplessInv' /\ MetInv' /\ OrderKept' /\ met' \in Seq(Statements)
<1> DEFINE c == Counts(n, th)
<1>0. RankInv /\ GaplessInv /\ MetInv
  BY DEF SafetyInv
<1>1. /\ At(n).left \in Nat \ {0} /\ At(n).rank \in Nat \cup {-1}
      /\ At(n).statement \in Statements /\ At(n).statement <= statements
  <2>1. At(n) \in Expectation
    BY PlacesAre
  <2> QED
    BY <1>0, <2>1 DEF Expectation, Unranked, Took, MetInv
<1>2. /\ Places' = Places /\ \A p \in Places \ {n} : At(p)' = At(p)
      /\ At(n)'.statement = At(n).statement /\ At(n)'.left = At(n).left - 1
      /\ At(n)'.rank = At(n).rank + IF c THEN 1 ELSE 0
      /\ Handed' = Handed /\ Current' = Current + IF c THEN 1 ELSE 0
      /\ c => At(n).rank = Current
  BY DEF Took
<1>3. Current \in Nat /\ Handed \in Nat /\ sequence[Test].on \in BOOLEAN /\ statements \in Nat
  BY SequenceTyped DEF TypeOK
<1>4. c => At(n).rank # -1 /\ sequence[Test].on
  BY DEF Counts
<1>5. met' = IF At(n).rank # -1 /\ sequence[Test].on THEN Append(met, At(n).statement) ELSE met
  BY DEF Took
<1>6. /\ ~strayed' => ~strayed
      /\ ~strayed' => At(n).rank = -1 \/ c
  BY DEF Took
<1> HIDE DEF c
<1>7. \A p : p \in Waiting' <=> p \in Places' /\ At(p)'.rank # -1 /\ At(p)'.left > 0
  BY DEF Waiting, RankedPlaces, Ranked, Unranked
<1>8. \A p \in Places \ {n} : p \in Waiting' <=> p \in Waiting
  BY <1>2, <1>7, WaitingAre
<1>9. n \in Waiting <=> At(n).rank # -1
  BY <1>1, WaitingAre
<1>10. n \in Waiting' <=> At(n).rank # -1 /\ At(n).left > 1
  BY <1>1, <1>2, <1>4, <1>7
<1>11. \A p \in Waiting' : p \in Waiting /\ p \in Places
  BY <1>2, <1>7, <1>8, <1>9, <1>10
<1>12. \A p \in Waiting : /\ At(p).rank \in Nat /\ At(p).left \in Nat \ {0}
                          /\ At(p).statement \in Nat /\ p \in Places
                          /\ Current <= At(p).rank /\ At(p).rank + At(p).left <= Handed
  BY <1>0, WaitingAre DEF RankInv
<1>13. \A p, q \in Waiting : p # q => \/ At(p).rank + At(p).left <= At(q).rank
                                      \/ At(q).rank + At(q).left <= At(p).rank
  BY <1>0 DEF RankInv
<1>14. \A p \in Waiting' : /\ At(p)'.rank \in Nat /\ At(p)'.left \in Nat \ {0}
                           /\ At(p).rank <= At(p)'.rank
                           /\ At(p)'.rank + At(p)'.left <= At(p).rank + At(p).left
                           /\ At(p)'.statement = At(p).statement
  <2> TAKE p \in Waiting'
  <2>1. CASE p = n
    BY <1>1, <1>2, <1>9, <1>10, <1>12, <2>1
  <2>2. CASE p # n
    BY <1>2, <1>11, <1>12, <2>2
  <2> QED
    BY <2>1, <2>2
<1>15. \A p \in Waiting' : c /\ p # n => Current + 1 <= At(p).rank
  <2> SUFFICES ASSUME NEW p \in Waiting', c, p # n PROVE Current + 1 <= At(p).rank
    OBVIOUS
  <2>1. p \in Waiting /\ n \in Waiting /\ At(n).rank = Current
    BY <1>2, <1>4, <1>9, <1>11
  <2>2. \/ At(p).rank + At(p).left <= At(n).rank
        \/ At(n).rank + At(n).left <= At(p).rank
    BY <1>13, <2>1
  <2>3. /\ At(p).rank \in Nat /\ At(p).left \in Nat \ {0} /\ Current <= At(p).rank
        /\ At(n).left \in Nat \ {0}
    BY <1>1, <1>12, <2>1
  <2> QED
    BY <1>3, <2>1, <2>2, <2>3
<1>16. RankInv'
  <2>1. Current' <= Handed'
    <3>1. CASE c
      <4>1. n \in Waiting /\ At(n).rank = Current
        BY <1>2, <1>4, <1>9, <3>1
      <4>2. At(n).rank + At(n).left <= Handed
        BY <1>12, <4>1
      <4> QED
        BY <1>1, <1>2, <1>3, <3>1, <4>1, <4>2
    <3>2. CASE ~c
      BY <1>0, <1>2, <1>3, <3>2 DEF RankInv
    <3> QED
      BY <3>1, <3>2
  <2>2. ASSUME NEW p \in Waiting'
        PROVE  Current' <= At(p)'.rank /\ At(p)'.rank + At(p)'.left <= Handed'
    <3>1. /\ At(p).rank \in Nat /\ At(p).left \in Nat
          /\ Current <= At(p).rank /\ At(p).rank + At(p).left <= Handed
      BY <1>11, <1>12, <2>2
    <3>2. At(p)'.rank + At(p)'.left <= Handed'
      BY <1>2, <1>3, <1>14, <2>2, <3>1
    <3>3. Current' <= At(p)'.rank
      <4>1. CASE c /\ p = n
        BY <1>2, <1>3, <4>1
      <4>2. CASE c /\ p # n
        BY <1>2, <1>3, <1>14, <1>15, <2>2, <3>1, <4>2
      <4>3. CASE ~c
        BY <1>2, <1>3, <1>14, <2>2, <3>1, <4>3
      <4> QED
        BY <4>1, <4>2, <4>3
    <3> QED
      BY <3>2, <3>3
  <2>3. ASSUME NEW p \in Waiting', NEW q \in Waiting', p # q
        PROVE  \/ At(p)'.rank + At(p)'.left <= At(q)'.rank
               \/ At(q)'.rank + At(q)'.left <= At(p)'.rank
    <3>1. \/ At(p).rank + At(p).left <= At(q).rank
          \/ At(q).rank + At(q).left <= At(p).rank
      BY <1>11, <1>13, <2>3
    <3>2. /\ At(p).rank \in Nat /\ At(p).left \in Nat
          /\ At(q).rank \in Nat /\ At(q).left \in Nat
      BY <1>11, <1>12
    <3> QED
      BY <1>14, <3>1, <3>2
  <2>4. ASSUME NEW p \in Waiting', NEW q \in Waiting', At(p)'.rank < At(q)'.rank
        PROVE  At(p)'.statement <= At(q)'.statement
    <3>1. p # q
      BY <1>14, <2>4
    <3>2. At(p)'.rank + At(p)'.left <= At(q)'.rank \/ At(q)'.rank + At(q)'.left <= At(p)'.rank
      BY <2>3, <3>1
    <3>3. \/ At(p).rank + At(p).left <= At(q).rank
          \/ At(q).rank + At(q).left <= At(p).rank
      BY <1>11, <1>13, <3>1
    <3>4. /\ At(p).rank \in Nat /\ At(p).left \in Nat \ {0}
          /\ At(q).rank \in Nat /\ At(q).left \in Nat \ {0}
      BY <1>11, <1>12
    <3>5. At(p).rank < At(q).rank
      <4>1. ASSUME At(q).rank + At(q).left <= At(p).rank PROVE FALSE
        BY <1>14, <2>4, <3>4, <4>1
      <4> QED
        BY <3>3, <3>4, <4>1
    <3> QED
      BY <1>0, <1>11, <1>14, <3>5 DEF RankInv
  <2> QED
    BY <2>1, <2>2, <2>3, <2>4 DEF RankInv
<1>17. GaplessInv'
  <2> SUFFICES ASSUME ~strayed', ~missing, ~failed, NEW k \in Current'..Handed - 1
               PROVE  \E p \in Waiting' : At(p)'.rank <= k /\ k < At(p)'.rank + At(p)'.left
    BY <1>2 DEF GaplessInv
  <2>1. k \in Current..Handed - 1 /\ (c => Current + 1 <= k)
    BY <1>2, <1>3
  <2>2. PICK p \in Waiting : At(p).rank <= k /\ k < At(p).rank + At(p).left
    BY <1>0, <1>6, <2>1 DEF GaplessInv
  <2>3. CASE p = n
    <3>1. c /\ At(n).rank = Current /\ n \in Waiting
      BY <1>2, <1>6, <1>9, <2>2, <2>3
    <3>2. At(n)'.rank = Current + 1 /\ At(n)'.left = At(n).left - 1 /\ k < Current + At(n).left
      BY <1>1, <1>2, <1>3, <2>2, <2>3, <3>1
    <3>3. At(n).left > 1
      BY <1>1, <1>3, <2>1, <3>1, <3>2
    <3> QED
      BY <1>1, <1>3, <1>9, <1>10, <2>1, <3>1, <3>2, <3>3
  <2>4. CASE p # n
    BY <1>2, <1>8, <1>12, <2>2, <2>4
  <2> QED
    BY <2>3, <2>4
<1>18. /\ met \in Seq(Statements) /\ DOMAIN met = 1..Len(met) /\ Len(met) \in Nat
       /\ \A i \in DOMAIN met : met[i] \in Statements /\ met[i] <= statements
  <2>1. met \in Seq(Statements)
    BY DEF TypeOK
  <2> QED
    BY <1>0, <2>1, ElementOfSeq, LenProperties DEF MetInv
<1>19. CASE ~(At(n).rank # -1 /\ sequence[Test].on)
  <2>1. met' = met
    BY <1>5, <1>19
  <2>2. ~strayed' => \A i \in DOMAIN met, p \in Waiting' : met[i] <= At(p)'.statement
    BY <1>0, <1>6, <1>11, <1>14 DEF MetInv
  <2>3. \A p \in Places' : At(p)'.statement <= statements
    BY <1>0, <1>2 DEF MetInv
  <2>4. MetInv'
    BY <1>0, <2>1, <2>2, <2>3 DEF MetInv
  <2>5. OrderKept'
    BY <1>6, <2>1 DEF OrderKept, Ordered
  <2> QED
    BY <1>16, <1>17, <1>18, <2>1, <2>4, <2>5
<1>20. CASE At(n).rank # -1 /\ sequence[Test].on
  <2> DEFINE x == At(n).statement
             m == Append(met, x)
  <2>1. met' = m
    BY <1>5, <1>20
  <2>2. /\ m \in Seq(Statements) /\ DOMAIN m = 1..Len(met) + 1
        /\ \A i \in DOMAIN met : m[i] = met[i]
        /\ m[Len(met) + 1] = x
    BY <1>1, <1>18, AppendProperties, LenProperties
  <2>3. x \in Statements /\ x <= statements
    BY <1>1
  <2>4. n \in Waiting /\ (~strayed' => ~strayed /\ c)
    BY <1>6, <1>9, <1>20
  <2>5. ~strayed => \A i \in DOMAIN met : met[i] <= x
    BY <1>0, <2>4 DEF MetInv
  <2>6. \A i \in DOMAIN m : i = Len(met) + 1 \/ i \in DOMAIN met
    BY <1>18, <2>2
  <2>7. ~strayed' => \A p \in Waiting' : x <= At(p)'.statement
    <3> SUFFICES ASSUME ~strayed', NEW p \in Waiting' PROVE x <= At(p)'.statement
      OBVIOUS
    <3>1. CASE p = n
      BY <1>2, <2>3, <3>1 DEF Statements
    <3>2. CASE p # n
      <4>1. At(n).rank < At(p).rank /\ p \in Waiting
        BY <1>2, <1>3, <1>11, <1>12, <1>15, <2>4, <3>2
      <4> QED
        BY <1>0, <1>14, <2>4, <4>1 DEF RankInv
    <3> QED
      BY <3>1, <3>2
  <2>8. ~strayed => \A i \in DOMAIN met, p \in Waiting : met[i] <= At(p).statement
    BY <1>0 DEF MetInv
  <2>9. \A p \in Places' : At(p)'.statement <= statements
    BY <1>0, <1>2 DEF MetInv
  <2>10. ~strayed => Ordered(met)
    BY DEF OrderKept
  <2> HIDE DEF m, x
  <2>11. MetInv'
    <3>1. \A i \in DOMAIN m : m[i] <= statements
      BY <1>18, <2>2, <2>3, <2>6
    <3>2. ~strayed' => \A i \in DOMAIN m, p \in Waiting' : m[i] <= At(p)'.statement
      <4> SUFFICES ASSUME ~strayed', NEW i \in DOMAIN m, NEW p \in Waiting'
                   PROVE  m[i] <= At(p)'.statement
        OBVIOUS
      <4>1. CASE i = Len(met) + 1
        BY <2>2, <2>7, <4>1
      <4>2. CASE i \in DOMAIN met
        BY <1>11, <1>14, <2>2, <2>4, <2>8, <4>2
      <4> QED
        BY <2>6, <4>1, <4>2
    <3> QED
      BY <2>1, <2>9, <3>1, <3>2 DEF MetInv
  <2>12. OrderKept'
    <3> SUFFICES ASSUME ~strayed', NEW i \in DOMAIN m, NEW j \in DOMAIN m, i <= j
                 PROVE  m[i] <= m[j]
      BY <2>1 DEF OrderKept, Ordered
    <3>1. i \in Nat /\ j \in Nat
      BY <1>18, <2>2
    <3>2. CASE j \in DOMAIN met
      <4>1. i \in DOMAIN met
        BY <1>18, <2>2, <2>6, <3>1, <3>2
      <4> QED
        BY <2>2, <2>4, <2>10, <3>2, <4>1 DEF Ordered
    <3>3. CASE i \in DOMAIN met /\ j = Len(met) + 1
      BY <2>2, <2>4, <2>5, <3>3
    <3>4. CASE i = Len(met) + 1 /\ j = Len(met) + 1
      BY <2>2, <2>3, <3>4 DEF Statements
    <3> QED
      BY <2>6, <3>2, <3>3, <3>4
  <2> QED
    BY <1>16, <1>17, <2>1, <2>2, <2>11, <2>12
<1> QED
  BY <1>19, <1>20

-----------------------------------------------------------------------------
LEMMA Parts ==
  ASSUME IInv
  PROVE  /\ TypeOK /\ SafetyInv /\ OrderKept /\ FixtureEndIsSafe
         /\ RankInv /\ GaplessInv /\ MetInv /\ WorkerInv /\ BuilderInv /\ EndInv
         /\ statements \in Nat /\ test \in Nat
<1>1. TypeOK /\ SafetyInv /\ OrderKept /\ FixtureEndIsSafe
  BY DEF IInv
<1> QED
  BY <1>1 DEF SafetyInv, TypeOK

\* InSequence begins or ends, or the test's body does.
LEMMA SwitchStep ==
  ASSUME IInv, BeginSequence \/ EndSequence \/ TearDown
  PROVE  IInv'
<1> DEFINE q == sequence[Test]
<1>0. /\ TypeOK /\ OrderKept /\ FixtureEndIsSafe /\ RankInv /\ GaplessInv /\ MetInv
      /\ WorkerInv /\ BuilderInv /\ EndInv /\ statements \in Nat
  BY Parts
<1>1. \E on \in BOOLEAN : sequence' = [sequence EXCEPT ![Test].on = on]
  BY DEF BeginSequence, EndSequence, TearDown
<1>2. /\ UNCHANGED <<expecters, registered, builder, queue, executing, test, failures, history>>
      /\ \/ UNCHANGED <<closed, phase>>
         \/ closed' = TRUE /\ phase' = "stopping"
  BY DEF BeginSequence, EndSequence, TearDown, loop, running
<1>3. PICK on \in BOOLEAN : sequence' = [sequence EXCEPT ![Test].on = on]
  BY <1>1
<1>4. /\ q \in [next : Nat, current : Nat, on : BOOLEAN] /\ sequence \in SequenceType
      /\ Test \in Threads /\ Workers \subseteq Threads /\ Test \notin Workers
  BY <1>0, SequenceTyped DEF TypeOK, SequenceType
<1>5. /\ sequence' = [sequence EXCEPT ![Test] = [q EXCEPT !.on = on]]
      /\ [q EXCEPT !.on = on] \in [next : Nat, current : Nat, on : BOOLEAN]
      /\ [q EXCEPT !.on = on].next = q.next /\ [q EXCEPT !.on = on].current = q.current
  BY <1>3, <1>4
<1>6. /\ sequence' \in SequenceType /\ \A w \in Workers : sequence'[w] = sequence[w]
      /\ Current' = Current /\ Handed' = Handed
  BY <1>4, <1>5 DEF SequenceType, Current, Handed
<1>7. TypeOK'
  <2>1. /\ UNCHANGED <<remaining, forbidden, registered, builder, queue, executing, test>>
        /\ UNCHANGED <<unexpected, missing, strayed, failed, offended, stale>>
        /\ UNCHANGED <<statements, before, acts, asked, taken, met>>
    BY <1>2 DEF expecters, failures, history, matches
  <2>2. /\ closed' \in BOOLEAN
        /\ phase' \in {"arrange", "act", "stopping", "stopped", "over"}
    BY <1>0, <1>2 DEF TypeOK
  <2> QED
    BY <1>0, <1>6, <2>1, <2>2 DEF TypeOK, SequenceType
<1>8. RankInv' /\ GaplessInv' /\ MetInv' /\ OrderKept'
  <2>1. /\ remaining' = remaining /\ met' = met /\ strayed' = strayed /\ statements' = statements
        /\ missing' = missing /\ failed' = failed
    BY <1>2 DEF expecters, failures, history, matches
  <2> QED
    BY <1>0, <1>6, <2>1, NoExpectation
<1>9. WorkerInv' /\ BuilderInv' /\ FixtureEndIsSafe'
  BY <1>0, <1>2, <1>6 DEF WorkerInv, BuilderInv, FixtureEndIsSafe, history
<1>10. EndInv'
  BY <1>0, <1>2 DEF EndInv, Joined
<1> QED
  BY <1>7, <1>8, <1>9, <1>10 DEF IInv, SafetyInv

\* A statement begins, or gets Times.
LEMMA StatementStep ==
  ASSUME IInv, \/ \E s \in Sigs, want \in Matchers : Expect(s, want)
               \/ \E n \in 0..MaxTimes : Times(n)
  PROVE  IInv'
<1> DEFINE Builders == [sig : Sigs, want : Matchers, times : 0..MaxTimes \cup {1}, chain : 0..2]
<1>0. /\ TypeOK /\ OrderKept /\ FixtureEndIsSafe /\ RankInv /\ GaplessInv /\ MetInv
      /\ WorkerInv /\ BuilderInv /\ EndInv /\ statements \in Nat /\ test \in Nat
  BY Parts
<1>1. UNCHANGED <<sequence, remaining, loop, running, failures, before, acts, asked, matches,
                  failed, offended, stale>>
  BY DEF Expect, Times, history, expecters
<1>2. /\ builder' \in Builders \cup {None} /\ forbidden' \in [Sigs -> SUBSET Matchers]
      /\ registered' \in [Sigs -> SUBSET (1..MaxTests)]
      /\ statements' \in 0..MaxStatements /\ statements <= statements'
      /\ statements' # 0
  <2>1. CASE \E s \in Sigs, want \in Matchers : Expect(s, want)
    <3>1. PICK s \in Sigs : \E want \in Matchers : Expect(s, want)
      BY <2>1
    <3>2. PICK want \in Matchers : Expect(s, want)
      BY <3>1
    <3>3. /\ builder' = [sig |-> s, want |-> want, times |-> 1, chain |-> 0]
          /\ statements < MaxStatements /\ statements' = statements + 1
          /\ registered' = [registered EXCEPT ![s] = IF s \in Calls THEN {test} ELSE @ \cup {test}]
          /\ forbidden' = forbidden
      BY <3>2 DEF Expect, expecters
    <3>4. builder' \in Builders
      BY <3>3
    <3>5. registered \in [Sigs -> SUBSET (1..MaxTests)] /\ test \in 1..MaxTests
      BY <1>0 DEF TypeOK
    <3>6. registered' \in [Sigs -> SUBSET (1..MaxTests)]
      BY <3>3, <3>5
    <3>7. statements' \in 0..MaxStatements /\ statements <= statements' /\ statements' # 0
      BY <1>0, <3>3, ExpectationsAssumption
    <3>8. forbidden' \in [Sigs -> SUBSET Matchers]
      BY <1>0, <3>3 DEF TypeOK
    <3> QED
      BY <3>4, <3>6, <3>7, <3>8
  <2>2. CASE \E n \in 0..MaxTimes : Times(n)
    <3>1. PICK n \in 0..MaxTimes : Times(n)
      BY <2>2
    <3>2. /\ builder # None /\ builder.chain < 2
          /\ builder' = [builder EXCEPT !.times = n, !.chain = builder.chain + 1]
          /\ forbidden' = IF n = 0 THEN [forbidden EXCEPT ![builder.sig] = @ \cup {builder.want}]
                          ELSE forbidden
          /\ registered' = registered /\ statements' = statements
      BY <3>1 DEF Times, Chained, history
    <3>3. builder \in Builders
      BY <1>0, <3>2 DEF TypeOK
    <3>4. builder' \in Builders
      <4>1. builder.chain + 1 \in 0..2
        BY <3>2, <3>3
      <4> QED
        BY <3>2, <3>3, <4>1
    <3>5. forbidden' \in [Sigs -> SUBSET Matchers]
      <4>1. builder.sig \in Sigs /\ builder.want \in Matchers
        BY <3>3
      <4>2. forbidden \in [Sigs -> SUBSET Matchers]
        BY <1>0 DEF TypeOK
      <4> QED
        BY <3>2, <4>1, <4>2
    <3>6. statements \in 0..MaxStatements /\ statements # 0
      BY <1>0, <3>2 DEF TypeOK, BuilderInv
    <3>7. registered' \in [Sigs -> SUBSET (1..MaxTests)]
      BY <1>0, <3>2 DEF TypeOK
    <3> QED
      BY <1>0, <3>2, <3>4, <3>5, <3>6, <3>7
  <2> QED
    BY <2>1, <2>2
<1> HIDE DEF Builders
<1>3. TypeOK'
  <2>1. before' \in 0..statements'
    BY <1>0, <1>1, <1>2 DEF TypeOK
  <2> QED
    BY <1>0, <1>1, <1>2, <2>1 DEF TypeOK, Builders, loop, running, failures, matches
<1>4. RankInv' /\ GaplessInv' /\ MetInv' /\ OrderKept'
  <2>1. /\ remaining' = remaining /\ met' = met /\ strayed' = strayed
        /\ missing' = missing /\ failed' = failed /\ Current' = Current /\ Handed' = Handed
        /\ statements' \in Nat /\ statements <= statements'
    BY <1>1, <1>2 DEF failures, matches, Current, Handed
  <2> QED
    BY <1>0, <2>1, NoExpectation
<1>5. WorkerInv' /\ BuilderInv' /\ FixtureEndIsSafe'
  BY <1>0, <1>1, <1>2 DEF WorkerInv, BuilderInv, FixtureEndIsSafe
<1>6. EndInv'
  BY <1>0, <1>1, <1>2 DEF EndInv, Joined, loop, running
<1> QED
  BY <1>3, <1>4, <1>5, <1>6 DEF IInv, SafetyInv

\* A statement adds an expectation, or ends.
LEMMA AddStep ==
  ASSUME IInv, WillOnce \/ WillRepeatedly \/ EndStatement
  PROVE  IInv'
<1> DEFINE Builders == [sig : Sigs, want : Matchers, times : 0..MaxTimes \cup {1}, chain : 0..2]
<1>0. /\ TypeOK /\ SafetyInv /\ OrderKept /\ FixtureEndIsSafe /\ RankInv /\ GaplessInv /\ MetInv
      /\ WorkerInv /\ BuilderInv /\ EndInv /\ statements \in Nat
  BY Parts
<1>1. /\ builder # None
      /\ UNCHANGED <<forbidden, registered, loop, running, failures, statements, before, acts,
                     matches, failed, offended, stale>>
  BY DEF WillOnce, WillRepeatedly, EndStatement, Chained
<1>2. builder \in Builders
  BY <1>0, <1>1 DEF TypeOK
<1>3. builder' \in Builders \cup {None}
  <2>1. CASE EndStatement
    BY <2>1 DEF EndStatement
  <2>2. CASE WillOnce \/ WillRepeatedly
    <3>1. builder' = [builder EXCEPT !.times = 0, !.chain = builder.chain + 1] /\ builder.chain < 2
      BY <2>2 DEF WillOnce, WillRepeatedly, Chained
    <3>2. builder.chain + 1 \in 0..2 /\ 0 \in 0..MaxTimes
      BY <1>2, <3>1, ExpectationsAssumption
    <3> QED
      BY <1>2, <3>1, <3>2
  <2> QED
    BY <2>1, <2>2
<1>4. \/ \E count \in Nat : AddExpectation(count)
      \/ UNCHANGED <<remaining, sequence, asked>>
  <2>1. builder.times \in Nat /\ 1 \in Nat
    BY <1>2
  <2> QED
    BY <2>1 DEF WillOnce, WillRepeatedly, EndStatement
<1>5. /\ remaining' \in [Sigs -> Seq(Expectation)] /\ asked' \in [Statements -> Nat]
      /\ sequence' \in SequenceType
      /\ RankInv' /\ GaplessInv' /\ MetInv' /\ WorkerInv' /\ OrderKept'
  <2>1. /\ met' = met /\ strayed' = strayed /\ missing' = missing /\ failed' = failed
        /\ statements' = statements
    BY <1>1 DEF matches, failures
  <2>2. ASSUME NEW count \in Nat, AddExpectation(count)
        PROVE  /\ remaining' \in [Sigs -> Seq(Expectation)] /\ asked' \in [Statements -> Nat]
               /\ sequence' \in SequenceType
               /\ RankInv' /\ GaplessInv' /\ MetInv' /\ WorkerInv' /\ OrderKept'
    BY <1>0, <1>1, <2>1, <2>2, AddEffect, AddKeeps
  <2>3. CASE UNCHANGED <<remaining, sequence, asked>>
    <3>1. /\ remaining' \in [Sigs -> Seq(Expectation)] /\ asked' \in [Statements -> Nat]
          /\ sequence' \in SequenceType
      BY <1>0, <2>3 DEF TypeOK, SequenceType
    <3>2. Current' = Current /\ Handed' = Handed /\ WorkerInv'
      BY <1>0, <2>3 DEF Current, Handed, WorkerInv
    <3> QED
      BY <1>0, <2>1, <2>3, <3>1, <3>2, NoExpectation
  <2> QED
    BY <1>4, <2>2, <2>3
<1> HIDE DEF Builders
<1>6. TypeOK'
  BY <1>0, <1>1, <1>3, <1>5 DEF TypeOK, Builders, SequenceType, loop, running, failures, matches
<1>7. BuilderInv' /\ FixtureEndIsSafe'
  BY <1>0, <1>1 DEF BuilderInv, FixtureEndIsSafe
<1>8. EndInv'
  BY <1>0, <1>1 DEF EndInv, Joined, loop, running
<1> QED
  BY <1>5, <1>6, <1>7, <1>8 DEF IInv, SafetyInv

\* A call is matched, or an event delivered: what Match keeps.
LEMMA MatchKeeps ==
  ASSUME TypeOK, SafetyInv, OrderKept, NEW s \in Sigs, NEW arg, NEW th \in Threads,
         Match(s, arg, th), UNCHANGED <<missing, failed, statements>>
  PROVE  /\ remaining' \in [Sigs -> Seq(Expectation)] /\ taken' \in [Statements -> Nat]
         /\ sequence' \in SequenceType /\ met' \in Seq(Statements) /\ strayed' \in BOOLEAN
         /\ executing' \in {executing, executing \cup {<<th, s>>}} /\ unexpected' \in BOOLEAN
         /\ th = Test => executing' = executing
         /\ RankInv' /\ GaplessInv' /\ MetInv' /\ WorkerInv' /\ OrderKept'
<1>0. RankInv /\ GaplessInv /\ MetInv /\ WorkerInv /\ statements \in Nat
  BY DEF SafetyInv, TypeOK
<1>1. unexpected' \in BOOLEAN
  BY DEF Match
<1>2. CASE UNCHANGED <<remaining, sequence, matches, executing>>
  <2>1. /\ remaining' \in [Sigs -> Seq(Expectation)] /\ taken' \in [Statements -> Nat]
        /\ sequence' \in SequenceType /\ met' \in Seq(Statements) /\ strayed' \in BOOLEAN
        /\ executing' = executing /\ met' = met /\ strayed' = strayed
        /\ Current' = Current /\ Handed' = Handed
    BY <1>2 DEF TypeOK, matches, SequenceType, Current, Handed
  <2>2. WorkerInv'
    BY <1>0, <1>2 DEF WorkerInv
  <2> QED
    BY <1>0, <1>1, <1>2, <2>1, <2>2, NoExpectation
<1>3. CASE /\ remaining' \in [Sigs -> Seq(Expectation)] /\ taken' \in [Statements -> Nat]
           /\ sequence' \in SequenceType /\ \A w \in Workers : sequence'[w] = sequence[w]
           /\ executing' = IF th = Test THEN executing ELSE executing \cup {<<th, s>>}
           /\ \E n \in Places : Took(n, th)
  <2>1. PICK n \in Places : Took(n, th)
    BY <1>3
  <2>2. RankInv' /\ GaplessInv' /\ MetInv' /\ OrderKept' /\ met' \in Seq(Statements)
    BY <2>1, TookKeeps
  <2>3. strayed' \in BOOLEAN
    BY <2>1 DEF Took
  <2>4. WorkerInv'
    BY <1>0, <1>3 DEF WorkerInv
  <2> QED
    BY <1>1, <1>3, <2>2, <2>3, <2>4
<1> QED
  BY <1>0, <1>2, <1>3, MatchEffect

LEMMA CallStep ==
  ASSUME IInv, NEW th \in Threads, NEW c \in Calls, NEW arg \in Args, Call(th, c, arg)
  PROVE  IInv'
<1>0. /\ TypeOK /\ SafetyInv /\ OrderKept /\ FixtureEndIsSafe /\ BuilderInv /\ EndInv
  BY Parts
<1>1. /\ phase' = IF phase = "arrange" THEN "act" ELSE phase
      /\ acts < MaxActs /\ acts' = acts + 1 /\ MayCall(th) /\ Match(c, arg, th)
      /\ UNCHANGED <<forbidden, registered, builder, queue, closed, test, missing, statements,
                     before, asked, failed, stale>>
      /\ offended' \in BOOLEAN
  BY DEF Call, Acts
<1>2. c \in Sigs
  BY DEF Sigs
<1>3. /\ remaining' \in [Sigs -> Seq(Expectation)] /\ taken' \in [Statements -> Nat]
      /\ sequence' \in SequenceType /\ met' \in Seq(Statements) /\ strayed' \in BOOLEAN
      /\ executing' \in {executing, executing \cup {<<th, c>>}} /\ unexpected' \in BOOLEAN
      /\ th = Test => executing' = executing
      /\ RankInv' /\ GaplessInv' /\ MetInv' /\ WorkerInv' /\ OrderKept'
  BY <1>0, <1>1, <1>2, MatchKeeps
<1>4. acts' \in 0..MaxActs
  BY <1>0, <1>1, ExpectationsAssumption DEF TypeOK
<1>5. executing' \subseteq Workers \X Sigs
  BY <1>0, <1>2, <1>3 DEF TypeOK, Threads
<1>6. TypeOK'
  BY <1>0, <1>1, <1>3, <1>4, <1>5 DEF TypeOK, SequenceType
<1>7. BuilderInv' /\ FixtureEndIsSafe'
  BY <1>0, <1>1 DEF BuilderInv, FixtureEndIsSafe
<1>8. phase \in {"stopped", "over"} => th # Worker
  BY <1>0, <1>1, ExpectationsAssumption DEF MayCall, EndInv
<1>9. EndInv'
  BY <1>0, <1>1, <1>3, <1>8 DEF EndInv, Joined
<1> QED
  BY <1>3, <1>6, <1>7, <1>9 DEF IInv, SafetyInv

\* As long as the Default network's worker makes calls, no fixture is destroyed.
LEMMA NobodyLeftBehind ==
  ASSUME IInv, MayCall(Worker), NEW s \in Sigs
  PROVE  ~LeftBehind(s)
<1>1. TypeOK /\ EndInv
  BY Parts
<1>2. test = 1 /\ phase # "over"
  BY <1>1, ExpectationsAssumption DEF TypeOK, EndInv, MayCall, Workers
<1>3. Gone = {}
  BY <1>2 DEF Gone
<1> QED
  BY <1>3 DEF LeftBehind

LEMMA DeliverStep ==
  ASSUME IInv, Deliver
  PROVE  IInv'
<1> DEFINE ev == Head(queue).sig
           Published == [sig : Events, arg : Args]
<1>0. /\ TypeOK /\ SafetyInv /\ OrderKept /\ FixtureEndIsSafe /\ BuilderInv /\ EndInv
  BY Parts
<1>1. /\ phase = "act" /\ ~closed /\ queue # <<>>
      /\ Match(ev, Head(queue).arg, Worker)
      /\ stale' = IF LeftBehind(ev) THEN stale \cup {<<"called", Worker>>} ELSE stale
      /\ queue' = Tail(queue)
      /\ UNCHANGED <<forbidden, registered, builder, closed, running, missing, statements, before,
                     acts, asked, failed, offended>>
  BY DEF Deliver
<1>2. queue \in Seq(Published)
  BY <1>0 DEF TypeOK
<1>3. Head(queue) \in Published /\ queue' \in Seq(Published)
  BY <1>1, <1>2, HeadTailRange
<1>4. ev \in Events /\ ev \in Sigs
  BY <1>3 DEF Sigs
<1> HIDE DEF ev, Published
<1>5. stale' = stale
  BY <1>1, <1>4, NobodyLeftBehind DEF MayCall
<1>6. /\ remaining' \in [Sigs -> Seq(Expectation)] /\ taken' \in [Statements -> Nat]
      /\ sequence' \in SequenceType /\ met' \in Seq(Statements) /\ strayed' \in BOOLEAN
      /\ executing' \in {executing, executing \cup {<<Worker, ev>>}} /\ unexpected' \in BOOLEAN
      /\ RankInv' /\ GaplessInv' /\ MetInv' /\ WorkerInv' /\ OrderKept'
  BY <1>0, <1>1, <1>4, MatchKeeps DEF Threads, Workers
<1>7. executing' \subseteq Workers \X Sigs
  BY <1>0, <1>4, <1>6 DEF TypeOK, Workers
<1>8. TypeOK'
  BY <1>0, <1>1, <1>3, <1>5, <1>6, <1>7 DEF TypeOK, SequenceType, Published, running
<1>9. BuilderInv' /\ FixtureEndIsSafe' /\ EndInv'
  BY <1>0, <1>1, <1>5 DEF BuilderInv, FixtureEndIsSafe, EndInv, running
<1> QED
  BY <1>6, <1>8, <1>9 DEF IInv, SafetyInv

\* The steps that leave the expectations and sequences alone.
LEMMA OtherStep ==
  ASSUME IInv,
         \/ \E th \in Threads, c \in Calls : CallLeftBehind(th, c)
         \/ \E ev \in Events, arg \in Args : Publish(ev, arg)
         \/ \E w \in Workers, s \in Sigs : CallbackReturns(w, s)
         \/ TearDownReturns \/ NextTest \/ UNCHANGED vars
  PROVE  IInv'
<1>0. /\ TypeOK /\ OrderKept /\ FixtureEndIsSafe /\ RankInv /\ GaplessInv /\ MetInv
      /\ WorkerInv /\ BuilderInv /\ EndInv /\ statements \in Nat /\ test \in Nat
  BY Parts
<1>1. UNCHANGED <<sequence, expecters, registered, builder, closed, statements, asked, matches>>
  BY DEF CallLeftBehind, Publish, CallbackReturns, TearDownReturns, NextTest, vars, loop, history
<1>2. /\ executing' \subseteq executing
      /\ phase' \in {"stopped", "over"} => Joined'
  <2>1. CASE TearDownReturns
    BY <2>1 DEF TearDownReturns, Joined, loop
  <2>2. CASE \E w \in Workers, s \in Sigs : CallbackReturns(w, s)
    BY <1>0, <2>2 DEF CallbackReturns, Joined, running, EndInv
  <2>3. CASE ~TearDownReturns /\ ~\E w \in Workers, s \in Sigs : CallbackReturns(w, s)
    BY <1>0, <2>3 DEF CallLeftBehind, Publish, Acts, NextTest, Joined, vars, loop, running, EndInv
  <2> QED
    BY <2>1, <2>2, <2>3
<1>3. /\ test' \in 1..MaxTests /\ test <= test'
      /\ phase' \in {"arrange", "act", "stopping", "stopped", "over"}
      /\ test' > 1 \/ phase' \in {"stopping", "stopped", "over"} => closed
  <2>1. /\ test \in 1..MaxTests /\ phase \in {"arrange", "act", "stopping", "stopped", "over"}
        /\ MaxTests \in Nat
        /\ test > 1 \/ phase \in {"stopping", "stopped", "over"} => closed
    BY <1>0, ExpectationsAssumption DEF TypeOK, EndInv
  <2>2. CASE NextTest
    <3>1. phase = "over" /\ test < MaxTests /\ test' = test + 1 /\ phase' = "arrange"
      BY <2>2 DEF NextTest
    <3> QED
      BY <2>1, <3>1
  <2>3. CASE TearDownReturns
    BY <2>1, <2>3 DEF TearDownReturns
  <2>4. CASE ~NextTest /\ ~TearDownReturns
    <3>1. test' = test /\ (phase' = phase \/ (phase = "arrange" /\ phase' = "act"))
      BY <2>4 DEF CallLeftBehind, Publish, CallbackReturns, Acts, vars, running
    <3> QED
      BY <2>1, <3>1
  <2> QED
    BY <2>2, <2>3, <2>4
<1>4. stale' \subseteq {"called", "cleared", "destroyed"} \X Threads /\ FixtureEndIsSafe'
  <2>1. CASE \E th \in Threads, c \in Calls : CallLeftBehind(th, c)
    <3>1. PICK th \in Threads : \E c \in Calls : CallLeftBehind(th, c)
      BY <2>1
    <3>2. PICK c \in Calls : CallLeftBehind(th, c)
      BY <3>1
    <3>3. th # Worker /\ stale' = stale \cup {<<"called", th>>}
      BY <3>2, NobodyLeftBehind DEF CallLeftBehind, Sigs
    <3> QED
      BY <1>0, <3>3 DEF TypeOK, FixtureEndIsSafe
  <2>2. CASE ~\E th \in Threads, c \in Calls : CallLeftBehind(th, c)
    <3>1. stale' = stale
      BY <2>2 DEF Publish, CallbackReturns, TearDownReturns, NextTest, vars, history
    <3> QED
      BY <1>0, <3>1 DEF TypeOK, FixtureEndIsSafe
  <2> QED
    BY <2>1, <2>2
<1>5. /\ queue' \in Seq([sig : Events, arg : Args]) /\ acts' \in 0..MaxActs
      /\ before' \in 0..statements
  <2>1. queue \in Seq([sig : Events, arg : Args])
    BY <1>0 DEF TypeOK
  <2>2. queue' \in Seq([sig : Events, arg : Args])
    <3>1. CASE \E ev \in Events, arg \in Args : Publish(ev, arg)
      <4>1. \E x \in [sig : Events, arg : Args] : queue' = Append(queue, x)
        BY <3>1 DEF Publish
      <4> QED
        BY <2>1, <4>1, AppendProperties
    <3>2. CASE ~\E ev \in Events, arg \in Args : Publish(ev, arg)
      <4>1. queue' = queue
        BY <3>2 DEF CallLeftBehind, CallbackReturns, TearDownReturns, NextTest, vars, loop
      <4> QED
        BY <2>1, <4>1
    <3> QED
      BY <3>1, <3>2
  <2>3. acts' \in 0..MaxActs
    <3>1. acts \in 0..MaxActs /\ MaxActs \in Nat
      BY <1>0, ExpectationsAssumption DEF TypeOK
    <3>2. acts' = acts \/ (acts < MaxActs /\ acts' = acts + 1)
      BY DEF CallLeftBehind, Publish, Acts, CallbackReturns, TearDownReturns, NextTest, vars, history
    <3> QED
      BY <3>1, <3>2
  <2>4. before' = before \/ before' = statements
    BY DEF CallLeftBehind, Publish, Acts, CallbackReturns, TearDownReturns, NextTest, vars, history
  <2>5. before \in 0..statements
    BY <1>0 DEF TypeOK
  <2> QED
    BY <1>0, <2>2, <2>3, <2>4, <2>5
<1>6. unexpected' \in BOOLEAN /\ missing' \in BOOLEAN /\ failed' \in BOOLEAN /\ offended' \in BOOLEAN
      /\ (~missing' /\ ~failed' => ~missing /\ ~failed)
  <2>1. CASE NextTest
    BY <2>1 DEF NextTest
  <2>2. CASE \E ev \in Events, arg \in Args : Publish(ev, arg)
    BY <1>0, <2>2 DEF Publish, failures, TypeOK
  <2>3. CASE ~NextTest /\ ~\E ev \in Events, arg \in Args : Publish(ev, arg)
    <3>1. UNCHANGED <<unexpected, missing, failed, offended>>
      BY <2>3 DEF CallLeftBehind, CallbackReturns, TearDownReturns, vars, history, failures
    <3> QED
      BY <1>0, <3>1 DEF TypeOK
  <2> QED
    BY <2>1, <2>2, <2>3
<1>7. TypeOK'
  <2>1. executing' \subseteq Workers \X Sigs
    BY <1>0, <1>2 DEF TypeOK
  <2> QED
    BY <1>0, <1>1, <1>3, <1>4, <1>5, <1>6, <2>1 DEF TypeOK, expecters, matches
<1>8. RankInv' /\ GaplessInv' /\ MetInv' /\ OrderKept'
  <2>1. /\ remaining' = remaining /\ met' = met /\ strayed' = strayed /\ statements' = statements
        /\ Current' = Current /\ Handed' = Handed
    BY <1>1 DEF expecters, matches, Current, Handed
  <2> QED
    BY <1>0, <1>6, <2>1, NoExpectation
<1>9. WorkerInv' /\ BuilderInv'
  BY <1>0, <1>1 DEF WorkerInv, BuilderInv
<1>10. EndInv'
  BY <1>1, <1>2, <1>3 DEF EndInv
<1> QED
  BY <1>4, <1>7, <1>8, <1>9, <1>10 DEF IInv, SafetyInv

\* Expectations are destroyed, and a failure is reported if one still waits.
LEMMA DestroyEffect ==
  ASSUME TypeOK, DestroyFixture \/ \E c \in Calls : VerifyAndClear(c)
  PROVE  /\ UNCHANGED <<sequence, registered, builder, queue, closed, test, unexpected, statements, before,
                        acts, asked, matches, failed, offended>>
         /\ remaining' \in [Sigs -> Seq(Expectation)] /\ forbidden' \in [Sigs -> SUBSET Matchers]
         /\ Places' \subseteq Places /\ \A p \in Places' : At(p)' = At(p)
         /\ missing' <=> missing \/ \E p \in Places \ Places' : At(p).left # 0
         /\ missing' \in BOOLEAN
         /\ DestroyFixture => Places' = {}
         /\ ~DestroyFixture => \A ev \in Events : forbidden'[ev] = forbidden[ev]
<1> PICK D \in SUBSET Sigs :
       \/ D = Sigs /\ DestroyFixture
       \/ \E c \in Calls : D = {c} /\ VerifyAndClear(c)
  BY DEF Sigs
<1>1. /\ missing' = (missing \/ \E s \in D : Unmet(s))
      /\ UNCHANGED <<sequence, registered, builder, queue, closed, test, unexpected, statements, before,
                     acts, asked, matches, failed, offended>>
  BY DEF DestroyFixture, VerifyAndClear, running, loop
<1>2. remaining \in [Sigs -> Seq(Expectation)] /\ forbidden \in [Sigs -> SUBSET Matchers]
  BY DEF TypeOK
<1>3. /\ remaining' = [s \in Sigs |-> IF s \in D THEN <<>> ELSE remaining[s]]
      /\ forbidden' = [s \in Sigs |-> IF s \in D THEN {} ELSE forbidden[s]]
  <2>1. CASE DestroyFixture /\ D = Sigs
    BY <2>1 DEF DestroyFixture
  <2>2. CASE \E c \in Calls : D = {c} /\ VerifyAndClear(c)
    BY <1>2, <2>2 DEF VerifyAndClear
  <2> QED
    BY <2>1, <2>2
<1>4. remaining' \in [Sigs -> Seq(Expectation)] /\ forbidden' \in [Sigs -> SUBSET Matchers]
  BY <1>2, <1>3, EmptySeq
<1>5. \A p : p \in Places' <=> p \in Places /\ p[1] \notin D
  <2> TAKE p
  <2>1. p \in Places' <=> \E s \in Sigs : p \in {s} \X DOMAIN remaining'[s]
    BY DEF Places
  <2>2. p \in Places <=> \E s \in Sigs : p \in {s} \X DOMAIN remaining[s]
    BY DEF Places
  <2>3. \A s \in Sigs : IF s \in D THEN DOMAIN remaining'[s] = {} ELSE remaining'[s] = remaining[s]
    <3> TAKE s \in Sigs
    <3>1. DOMAIN <<>> = {}
      OBVIOUS
    <3> QED
      BY <1>3, <3>1
  <2>4. \A s : p \in {s} \X DOMAIN remaining[s] => p[1] = s
    OBVIOUS
  <2> QED
    BY <2>1, <2>2, <2>3, <2>4
<1>6. \A p \in Places' : At(p)' = At(p)
  <2> TAKE p \in Places'
  <2>1. p \in Places /\ p[1] \notin D
    BY <1>5
  <2>2. p[1] \in Sigs
    BY <2>1, PlacesAre
  <2>3. remaining'[p[1]] = remaining[p[1]]
    BY <1>3, <2>1, <2>2
  <2> QED
    BY <2>3 DEF At
<1>7. (\E s \in D : Unmet(s)) <=> \E p \in Places \ Places' : At(p).left # 0
  <2>1. ASSUME NEW s \in D, Unmet(s)
        PROVE  \E p \in Places \ Places' : At(p).left # 0
    <3>1. PICK i \in DOMAIN remaining[s] : remaining[s][i].left # 0
      BY <2>1 DEF Unmet
    <3>2. <<s, i>> \in Places
      BY PlacesAre
    <3>3. <<s, i>> \notin Places' /\ At(<<s, i>>).left # 0
      BY <1>5, <3>1 DEF At
    <3> QED
      BY <3>2, <3>3
  <2>2. ASSUME NEW p \in Places \ Places', At(p).left # 0
        PROVE  \E s \in D : Unmet(s)
    <3>1. PICK s \in Sigs : \E i \in DOMAIN remaining[s] : p = <<s, i>>
      BY PlacesAre
    <3>2. PICK i \in DOMAIN remaining[s] : p = <<s, i>>
      BY <3>1
    <3>3. s \in D
      BY <1>5, <3>2
    <3> QED
      BY <2>2, <3>2, <3>3 DEF At, Unmet
  <2> QED
    BY <2>1, <2>2
<1>8. missing \in BOOLEAN
  BY DEF TypeOK
<1>9. DestroyFixture => Places' = {}
  <2>1. DestroyFixture => \A s \in Sigs : remaining'[s] = <<>>
    BY DEF DestroyFixture
  <2>2. \A p : p \in Places' <=> \E s \in Sigs : p \in {s} \X DOMAIN remaining'[s]
    BY DEF Places
  <2>3. DOMAIN <<>> = {}
    OBVIOUS
  <2> QED
    BY <2>1, <2>2, <2>3
<1>10. ~DestroyFixture => \A ev \in Events : forbidden'[ev] = forbidden[ev]
  BY <1>3, ExpectationsAssumption DEF Sigs
<1> QED
  BY <1>1, <1>4, <1>5, <1>6, <1>7, <1>8, <1>9, <1>10

LEMMA DestroyStep ==
  ASSUME IInv, DestroyFixture \/ \E c \in Calls : VerifyAndClear(c)
  PROVE  IInv'
<1>0. /\ TypeOK /\ OrderKept /\ FixtureEndIsSafe /\ RankInv /\ GaplessInv /\ MetInv
      /\ WorkerInv /\ BuilderInv /\ EndInv /\ statements \in Nat
  BY Parts
<1>1. /\ UNCHANGED <<sequence, registered, builder, queue, closed, test, unexpected, statements, before,
                     acts, asked, matches, failed, offended>>
      /\ remaining' \in [Sigs -> Seq(Expectation)] /\ forbidden' \in [Sigs -> SUBSET Matchers]
      /\ Places' \subseteq Places /\ \A p \in Places' : At(p)' = At(p)
      /\ missing' <=> missing \/ \E p \in Places \ Places' : At(p).left # 0
      /\ missing' \in BOOLEAN
  BY <1>0, DestroyEffect
<1>2. /\ phase' \in {"arrange", "act", "over"}
      /\ phase' = "over" => closed /\ Joined'
      /\ executing' \subseteq executing
  <2>1. CASE DestroyFixture
    BY <1>0, <2>1 DEF DestroyFixture, EndInv, Joined
  <2>2. CASE \E c \in Calls : VerifyAndClear(c)
    BY <2>2 DEF VerifyAndClear, running, loop
  <2> QED
    BY <2>1, <2>2
<1>3. stale' \subseteq {"called", "cleared", "destroyed"} \X Threads /\ FixtureEndIsSafe'
  <2>1. CASE DestroyFixture
    <3>1. /\ stale' = stale \cup {<<"destroyed", w>> : w \in {o[1] : o \in executing}}
          /\ executing \subseteq Workers \X Sigs
          /\ \A s \in Sigs : <<Worker, s>> \notin executing
      BY <1>0, <2>1 DEF DestroyFixture, EndInv, Joined, TypeOK
    <3>2. \A o \in executing : o[1] \in Others
      BY <3>1 DEF Workers
    <3>3. \A u \in stale' \ stale : \E w \in Others : u = <<"destroyed", w>>
      BY <3>1, <3>2
    <3> QED
      BY <1>0, <3>3 DEF TypeOK, FixtureEndIsSafe, Threads, Workers
  <2>2. CASE \E c \in Calls : VerifyAndClear(c)
    <3>1. \A u \in stale' \ stale : \E w \in Workers : u = <<"cleared", w>>
      BY <2>2 DEF VerifyAndClear
    <3> QED
      BY <1>0, <3>1 DEF TypeOK, FixtureEndIsSafe, Threads
  <2> QED
    BY <2>1, <2>2
<1>4. TypeOK'
  BY <1>0, <1>1, <1>2, <1>3 DEF TypeOK, matches
<1>5. RankInv' /\ GaplessInv' /\ MetInv' /\ OrderKept'
  <2>1. /\ met' = met /\ strayed' = strayed /\ statements' = statements /\ failed' = failed
        /\ Current' = Current /\ Handed' = Handed
    BY <1>1 DEF matches, Current, Handed
  <2>2. ~missing' /\ ~failed' => /\ ~missing /\ ~failed
                                 /\ \A p \in Places \ Places' : At(p).left = 0
    BY <1>1
  <2> QED
    BY <1>0, <1>1, <2>1, <2>2, Fewer
<1>6. WorkerInv' /\ BuilderInv'
  BY <1>0, <1>1 DEF WorkerInv, BuilderInv
<1>7. EndInv'
  <2>1. test > 1 => closed
    BY <1>0 DEF EndInv
  <2> QED
    BY <1>1, <1>2, <2>1 DEF EndInv
<1> QED
  BY <1>3, <1>4, <1>5, <1>6, <1>7 DEF IInv, SafetyInv

-----------------------------------------------------------------------------
LEMMA InitHolds == Init => IInv
<1> SUFFICES ASSUME Init PROVE IInv
  OBVIOUS
<1> USE ExpectationsAssumption
<1>1. /\ remaining = [s \in Sigs |-> <<>>] /\ <<>> \in Seq(Expectation)
      /\ <<>> \in Seq(Statements) /\ <<>> \in Seq([sig : Events, arg : Args])
      /\ DOMAIN <<>> = {}
  BY EmptySeq DEF Init
<1>2. sequence = [th \in Threads |-> [next |-> 0, current |-> 0, on |-> FALSE]]
  BY DEF Init
<1>3. /\ sequence \in [Threads -> [next : Nat, current : Nat, on : BOOLEAN]]
      /\ Current = 0 /\ Handed = 0 /\ \A w \in Workers : sequence[w].on = FALSE
  BY <1>2 DEF Current, Handed, Threads
<1>4. /\ remaining \in [Sigs -> Seq(Expectation)] /\ forbidden \in [Sigs -> SUBSET Matchers]
      /\ registered \in [Sigs -> SUBSET (1..MaxTests)]
  BY <1>1 DEF Init
<1>5. asked \in [Statements -> Nat] /\ taken \in [Statements -> Nat]
  BY DEF Init
<1>6. /\ statements \in 0..MaxStatements /\ before \in 0..statements /\ acts \in 0..MaxActs
      /\ builder = None /\ executing = {} /\ phase = "arrange" /\ stale = {}
      /\ closed \in BOOLEAN /\ statements = 0
  <2>1. statements = 0 /\ before = 0 /\ acts = 0 /\ closed = FALSE
    BY DEF Init
  <2>2. statements \in 0..MaxStatements /\ before \in 0..statements /\ acts \in 0..MaxActs
    BY <2>1
  <2> QED
    BY <2>1, <2>2 DEF Init
<1>7. test \in 1..MaxTests /\ test = 1
  BY DEF Init
<1>8. queue \in Seq([sig : Events, arg : Args]) /\ met \in Seq(Statements) /\ met = <<>>
  BY <1>1 DEF Init
<1>9. /\ unexpected = FALSE /\ missing = FALSE /\ strayed = FALSE /\ failed = FALSE
      /\ offended = FALSE
  BY DEF Init
<1>10. TypeOK
  BY <1>3, <1>4, <1>5, <1>6, <1>7, <1>8, <1>9 DEF TypeOK
<1>11. Places = {} /\ Waiting = {}
  <2>1. \A p : p \notin Places
    BY <1>1, <1>10, PlacesAre
  <2> QED
    BY <2>1 DEF Waiting, RankedPlaces
<1>12. RankInv /\ GaplessInv /\ MetInv
  BY <1>1, <1>3, <1>8, <1>11 DEF RankInv, GaplessInv, MetInv
<1>13. WorkerInv /\ BuilderInv
  BY <1>3, <1>6 DEF WorkerInv, BuilderInv
<1>14. EndInv
  BY <1>6, <1>7 DEF EndInv
<1>15. OrderKept /\ FixtureEndIsSafe
  BY <1>1, <1>6, <1>8 DEF OrderKept, Ordered, FixtureEndIsSafe
<1> QED
  BY <1>10, <1>12, <1>13, <1>14, <1>15 DEF IInv, SafetyInv

LEMMA NextPreserves == IInv /\ [Next]_vars => IInv'
<1> SUFFICES ASSUME IInv, [Next]_vars PROVE IInv'
  OBVIOUS
<1>1. CASE BeginSequence \/ EndSequence \/ TearDown
  BY <1>1, SwitchStep
<1>2. CASE \/ \E s \in Sigs, want \in Matchers : Expect(s, want)
           \/ \E n \in 0..MaxTimes : Times(n)
  BY <1>2, StatementStep
<1>3. CASE WillOnce \/ WillRepeatedly \/ EndStatement
  BY <1>3, AddStep
<1>4. ASSUME NEW th \in Threads, NEW c \in Calls, NEW arg \in Args, Call(th, c, arg)
      PROVE  IInv'
  BY <1>4, CallStep
<1>5. CASE Deliver
  BY <1>5, DeliverStep
<1>6. CASE DestroyFixture \/ \E c \in Calls : VerifyAndClear(c)
  BY <1>6, DestroyStep
<1>7. CASE \/ \E th \in Threads, c \in Calls : CallLeftBehind(th, c)
           \/ \E ev \in Events, arg \in Args : Publish(ev, arg)
           \/ \E w \in Workers, s \in Sigs : CallbackReturns(w, s)
           \/ TearDownReturns \/ NextTest \/ UNCHANGED vars
  BY <1>7, OtherStep
<1> QED
  BY <1>1, <1>2, <1>3, <1>4, <1>5, <1>6, <1>7 DEF Next

\* IInv holds in every reachable state.
THEOREM Invariance == Spec => []IInv
<1>1. Init => IInv
  BY InitHolds
<1>2. IInv /\ [Next]_vars => IInv'
  BY NextPreserves
<1> QED
  BY <1>1, <1>2, PTL DEF Spec

\* Every variable keeps its shape: TypeOK.
THEOREM TypeCorrect == Spec => []TypeOK
<1>1. IInv => TypeOK
  BY DEF IInv
<1> QED
  BY <1>1, Invariance, PTL

\* The ranks an expectation owes are those of its interval.
LEMMA OwedAre ==
  ASSUME IInv, NEW p \in RankedPlaces
  PROVE  /\ \A k : k \in Owed(p) <=> /\ k \in Int /\ At(p).rank <= k
                                     /\ k < At(p).rank + At(p).left
         /\ \A k \in Owed(p) : p \in Waiting
         /\ At(p).rank \in Nat /\ At(p).left \in Nat
<1>1. TypeOK
  BY DEF IInv
<1>2. p \in Places /\ At(p).rank # -1
  BY DEF RankedPlaces, Ranked, Unranked
<1>3. At(p).rank \in Nat /\ At(p).left \in Nat
  <2>1. At(p) \in Expectation
    BY <1>1, <1>2, PlacesAre
  <2> QED
    BY <1>2, <2>1 DEF Expectation, Unranked
<1>4. \A k : k \in Owed(p) <=> k \in Int /\ At(p).rank <= k /\ k < At(p).rank + At(p).left
  BY <1>3 DEF Owed
<1>5. \A k \in Owed(p) : At(p).left > 0
  BY <1>3, <1>4
<1> QED
  BY <1>3, <1>4, <1>5 DEF Waiting

LEMMA RanksDisjoint == IInv => RanksAreUnique
<1> SUFFICES ASSUME IInv, NEW p \in RankedPlaces, NEW q \in RankedPlaces
             PROVE  /\ Owed(p) \subseteq Current..Handed - 1
                    /\ p # q => Owed(p) \cap Owed(q) = {}
  BY DEF RanksAreUnique, Current, Handed
<1>1. RankInv /\ Current \in Nat /\ Handed \in Nat
  BY Parts, SequenceTyped
<1>2. ASSUME NEW k \in Owed(p) PROVE k \in Current..Handed - 1
  <2>1. k \in Int /\ At(p).rank <= k /\ k < At(p).rank + At(p).left
    BY OwedAre
  <2>2. Current <= At(p).rank /\ At(p).rank + At(p).left <= Handed
    BY <1>1, <1>2, OwedAre DEF RankInv
  <2>3. At(p).rank \in Nat /\ At(p).left \in Nat
    BY OwedAre
  <2> QED
    BY <1>1, <2>1, <2>2, <2>3
<1>3. ASSUME p # q, NEW k, k \in Owed(p), k \in Owed(q) PROVE FALSE
  <2>1. /\ k \in Int /\ At(p).rank <= k /\ k < At(p).rank + At(p).left
        /\ At(q).rank <= k /\ k < At(q).rank + At(q).left
    BY <1>3, OwedAre
  <2>2. \/ At(p).rank + At(p).left <= At(q).rank
        \/ At(q).rank + At(q).left <= At(p).rank
    BY <1>1, <1>3, OwedAre DEF RankInv
  <2>3. /\ At(p).rank \in Nat /\ At(p).left \in Nat
        /\ At(q).rank \in Nat /\ At(q).left \in Nat
    BY OwedAre
  <2> QED
    BY <2>1, <2>2, <2>3
<1> QED
  BY <1>2, <1>3

\* No two expectations ever wait for the same rank, and each waits for ranks
\* that were handed out and have not passed: RanksAreUnique.
THEOREM RanksAreHandedOutOnce == Spec => []RanksAreUnique
  BY RanksDisjoint, Invariance, PTL

\* While a rank is to come, the expectation that waits for it exists, unless
\* one was met out of turn or destroyed unmet: SequenceProceeds.
THEOREM SequencesProceed == Spec => []SequenceProceeds
<1>1. IInv => SequenceProceeds
  <2> SUFFICES ASSUME IInv, ~strayed, ~missing, ~failed
               PROVE  UNION {Owed(p) : p \in RankedPlaces} = Current..Handed - 1
    BY DEF SequenceProceeds, Current, Handed
  <2>1. ASSUME NEW p \in RankedPlaces PROVE Owed(p) \subseteq Current..Handed - 1
    BY RanksDisjoint DEF RanksAreUnique, Current, Handed
  <2>2. ASSUME NEW k \in Current..Handed - 1
        PROVE  \E p \in RankedPlaces : k \in Owed(p)
    <3>1. GaplessInv /\ k \in Int
      BY Parts, SequenceTyped
    <3>2. PICK p \in Waiting : At(p).rank <= k /\ k < At(p).rank + At(p).left
      BY <3>1 DEF GaplessInv
    <3>3. p \in RankedPlaces
      BY DEF Waiting
    <3> QED
      BY <3>1, <3>2, <3>3, OwedAre
  <2> QED
    BY <2>1, <2>2
<1> QED
  BY <1>1, Invariance, PTL

\* Calls of one thread under one InSequence meet their expectations in the
\* order of the statements: OrderKept.
THEOREM StatementsInOrder == Spec => []OrderKept
<1>1. IInv => OrderKept
  BY DEF IInv
<1> QED
  BY <1>1, Invariance, PTL

\* A fixture ends without the Default network's worker in its expectations, and
\* that worker never reaches an expecter of a destroyed fixture; the test itself
\* and the workers of other networks may: FixtureEndIsSafe.
THEOREM FixturesEndSafely == Spec => []FixtureEndIsSafe
<1>1. IInv => FixtureEndIsSafe
  BY DEF IInv
<1> QED
  BY <1>1, Invariance, PTL
-----------------------------------------------------------------------------
\* The account of the matches asked for, got and waited for.
LEMMA UnitsAre ==
  ASSUME NEW i
  PROVE  /\ \A u : u \in Units(i) <=> \E p \in Places : /\ At(p).statement = i
                                                        /\ u \in {p} \X (1..At(p).left)
         /\ \A u : u \in Units(i)' <=> \E p \in Places' : /\ At(p)'.statement = i
                                                          /\ u \in {p} \X (1..At(p)'.left)
BY DEF Units

\* A step that takes nothing from the balance of any statement keeps it.
LEMMA BalanceKept ==
  ASSUME TypeOK, TypeOK', Balanced, before' = before, missing' = missing,
         \A i \in Statements : /\ IsFiniteSet(Units(i)')
                               /\ asked'[i] - taken'[i] - Left(i)' = asked[i] - taken[i] - Left(i)
  PROVE  Balanced'
<1>1. ASSUME NEW i \in Statements
      PROVE  /\ asked[i] \in Nat /\ taken[i] \in Nat /\ asked'[i] \in Nat /\ taken'[i] \in Nat
             /\ Left(i) \in Nat /\ Left(i)' \in Nat
             /\ asked'[i] - taken'[i] - Left(i)' = asked[i] - taken[i] - Left(i)
  <2>1. IsFiniteSet(Units(i)) /\ IsFiniteSet(Units(i)')
    BY DEF Balanced
  <2>2. Cardinality(Units(i)) \in Nat /\ Cardinality(Units(i)') \in Nat
    BY <2>1, FS_CardinalityType
  <2>3. Left(i) = Cardinality(Units(i)) /\ Left(i)' = Cardinality(Units(i)')
    BY DEF Left
  <2> QED
    BY <2>2, <2>3 DEF TypeOK
<1>2. OfThisTest' = OfThisTest /\ OfThisTest \subseteq Statements
  <2>1. before \in Nat
    BY DEF TypeOK
  <2> QED
    BY <2>1 DEF OfThisTest, Statements
<1>3. \A i \in Statements : taken'[i] + Left(i)' <= asked'[i]
  BY <1>1 DEF Balanced
<1>4. ~missing' => \A i \in OfThisTest' : taken'[i] + Left(i)' = asked'[i]
  <2> SUFFICES ASSUME ~missing, NEW i \in OfThisTest
               PROVE  taken'[i] + Left(i)' = asked'[i]
    BY <1>2
  <2>1. taken[i] + Left(i) = asked[i] /\ i \in Statements
    BY <1>2 DEF Balanced
  <2> QED
    BY <1>1, <2>1
<1>5. missing' => \E i \in OfThisTest' : taken'[i] + Left(i)' < asked'[i]
  <2> SUFFICES ASSUME missing
               PROVE  \E i \in OfThisTest : taken'[i] + Left(i)' < asked'[i]
    BY <1>2
  <2>1. PICK i \in OfThisTest : taken[i] + Left(i) < asked[i]
    BY DEF Balanced
  <2>2. i \in Statements
    BY <1>2
  <2>3. taken'[i] + Left(i)' < asked'[i]
    BY <1>1, <2>1, <2>2
  <2> QED
    BY <2>3
<1> QED
  BY <1>3, <1>4, <1>5 DEF Balanced

\* The steps that leave the expectations alone.
LEMMA QuietAccount ==
  ASSUME TypeOK, TypeOK', Balanced, OwnInv, remaining' = remaining,
         asked' = asked, taken' = taken, before' = before, missing' = missing,
         statements' \in Nat, statements <= statements', phase' = "over" => phase = "over",
         builder' # None => phase' = "arrange" /\ before < statements'
  PROVE  Balanced' /\ OwnInv'
<1>1. Places' = Places /\ \A p \in Places' : At(p)' = At(p)
  BY DEF Places, At
<1>2. ASSUME NEW i \in Statements PROVE Units(i)' = Units(i)
  BY DEF Units, Places, At
<1>3. Balanced'
  <2>1. \A i \in Statements : IsFiniteSet(Units(i)') /\ Left(i)' = Left(i)
    BY <1>2 DEF Balanced, Left
  <2> QED
    BY <2>1, BalanceKept
<1>4. OwnInv'
  <2>1. \A i \in Statements : i > statements' => i > statements
    BY DEF TypeOK, Statements
  <2> QED
    BY <1>1, <2>1 DEF OwnInv
<1> QED
  BY <1>3, <1>4

\* An expectation is added: what it waits for has been asked for.
LEMMA AddAccount ==
  ASSUME TypeOK, TypeOK', Balanced, OwnInv, BuilderInv, builder # None,
         NEW count \in Nat, AddExpectation(count), before < statements,
         UNCHANGED <<taken, before, missing, statements>>
  PROVE  /\ Balanced'
         /\ \A i \in Statements : i > statements => asked'[i] = 0
         /\ \A p \in Places' : At(p)'.statement > before
<1>1. asked' = [asked EXCEPT ![statements] = @ + count]
  BY AddEffect
<1>2. PICK n : /\ n \notin Places /\ Places' = Places \cup {n}
               /\ \A p \in Places : At(p)' = At(p)
               /\ At(n)'.statement = statements /\ At(n)'.left = count
  BY AddEffect
<1>3. statements \in Statements /\ before \in Nat /\ asked \in [Statements -> Nat]
  BY DEF TypeOK, BuilderInv, Statements
<1>4. ASSUME NEW i \in Statements
      PROVE  /\ IsFiniteSet(Units(i)) /\ Left(i) = Cardinality(Units(i))
             /\ Left(i) \in Nat /\ Left(i)' = Cardinality(Units(i)')
  <2>1. IsFiniteSet(Units(i))
    BY DEF Balanced
  <2> QED
    BY <2>1, FS_CardinalityType DEF Left
<1>5. ASSUME NEW i \in Statements, i # statements
      PROVE  Units(i)' = Units(i)
  <2>1. \A u : u \in Units(i)' <=> u \in Units(i)
    BY <1>2, <1>5, UnitsAre
  <2> QED
    BY <2>1
<1>6. /\ IsFiniteSet(Units(statements)')
      /\ Left(statements)' = Left(statements) + count
  <2> DEFINE N == {n} \X (1..count)
  <2>1. \A u : u \in Units(statements)' <=> u \in Units(statements) \/ u \in N
    BY <1>2 DEF Units
  <2>2. Units(statements)' = Units(statements) \cup N
    BY <2>1
  <2>3. IsFiniteSet(N) /\ Cardinality(N) = count
    <3>1. IsFiniteSet({n}) /\ Cardinality({n}) = 1
      BY FS_Singleton
    <3>2. IsFiniteSet(1..count) /\ Cardinality(1..count) = count
      BY FS_Interval
    <3>3. IsFiniteSet(N) /\ Cardinality(N) = Cardinality({n}) * Cardinality(1..count)
      BY <3>1, <3>2, FS_Product, Zenon
    <3> QED
      BY <3>1, <3>2, <3>3
  <2>4. Units(statements) \cap N = {}
    BY <1>2 DEF Units
  <2>5. /\ IsFiniteSet(Units(statements) \cup N)
        /\ Cardinality(Units(statements) \cup N)
             = Cardinality(Units(statements)) + Cardinality(N) - Cardinality(Units(statements) \cap N)
    BY <1>3, <1>4, <2>3, FS_Union
  <2>6. Cardinality(Units(statements) \cap N) = 0
    BY <2>4, FS_EmptySet
  <2> HIDE DEF N
  <2> QED
    BY <1>3, <1>4, <2>2, <2>3, <2>5, <2>6
<1>7. Balanced'
  <2>1. ASSUME NEW i \in Statements
        PROVE  /\ IsFiniteSet(Units(i)')
               /\ asked'[i] - taken'[i] - Left(i)' = asked[i] - taken[i] - Left(i)
    <3>1. asked[i] \in Nat /\ taken[i] \in Nat /\ taken'[i] = taken[i]
      BY DEF TypeOK
    <3>2. CASE i = statements
      <4>1. asked'[i] = asked[i] + count
        BY <1>1, <1>3, <3>2
      <4>2. IsFiniteSet(Units(i)') /\ Left(i)' = Left(i) + count /\ Left(i) \in Nat
        BY <1>3, <1>4, <1>6, <3>2
      <4> QED
        BY <3>1, <4>1, <4>2
    <3>3. CASE i # statements
      <4>1. asked'[i] = asked[i]
        BY <1>1, <1>3, <3>3
      <4> QED
        BY <1>4, <1>5, <3>1, <3>3, <4>1
    <3> QED
      BY <3>2, <3>3
  <2> QED
    BY <2>1, BalanceKept
<1>8. /\ \A i \in Statements : i > statements => asked'[i] = 0
      /\ \A p \in Places' : At(p)'.statement > before
  <2>1. \A i \in Statements : i > statements => asked'[i] = asked[i]
    BY <1>1, <1>3 DEF Statements
  <2> QED
    BY <1>2, <1>3, <2>1 DEF OwnInv, Statements
<1> QED
  BY <1>7, <1>8
\* A call or event is taken: one match that was waited for is got.
LEMMA TookAccount ==
  ASSUME TypeOK, TypeOK', Balanced, OwnInv, NEW n \in Places, NEW th, Took(n, th),
         UNCHANGED <<asked, before, missing, statements>>
  PROVE  /\ Balanced'
         /\ \A p \in Places' : At(p)'.statement > before
         /\ Places' = Places
<1>0. PICK x, l : x = At(n).statement /\ l = At(n).left
  OBVIOUS
<1> DEFINE u == <<n, l>>
<1>1. /\ l \in Nat \ {0} /\ Places' = Places /\ \A p \in Places \ {n} : At(p)' = At(p)
      /\ At(n)'.statement = x /\ At(n)'.left = l - 1
      /\ taken' = [taken EXCEPT ![x] = @ + 1]
  BY <1>0 DEF Took
<1>2. x \in Statements
  <2>1. At(n) \in Expectation
    BY PlacesAre
  <2> QED
    BY <1>0, <2>1 DEF Expectation
<1>3. ASSUME NEW i \in Statements
      PROVE  /\ IsFiniteSet(Units(i)) /\ Left(i) = Cardinality(Units(i))
             /\ Left(i) \in Nat /\ Left(i)' = Cardinality(Units(i)')
  <2>1. IsFiniteSet(Units(i))
    BY DEF Balanced
  <2> QED
    BY <2>1, FS_CardinalityType DEF Left
<1>4. ASSUME NEW i \in Statements, i # x
      PROVE  Units(i)' = Units(i)
  <2>1. \A v : v \in Units(i)' <=> v \in Units(i)
    BY <1>0, <1>1, <1>4, UnitsAre
  <2> QED
    BY <2>1
<1>5. u \in Units(x) /\ Units(x)' = Units(x) \ {u}
  <2>1. 1..l - 1 = (1..l) \ {l} /\ l \in 1..l
    BY <1>1
  <2>2. {n} \X (1..l - 1) = ({n} \X (1..l)) \ {u}
    BY <2>1
  <2>3. u \in Units(x)
    BY <1>0, <2>1, UnitsAre
  <2>4. \A v : v \in Units(x)' <=> v \in Units(x) \ {u}
    <3> TAKE v
    <3>1. \A p \in Places \ {n} : u \notin {p} \X (1..At(p).left)
      OBVIOUS
    <3>2. v \in Units(x)' <=> \/ v \in {n} \X (1..l - 1)
                              \/ \E p \in Places \ {n} : /\ At(p).statement = x
                                                         /\ v \in {p} \X (1..At(p).left)
      BY <1>1, UnitsAre
    <3>3. v \in Units(x) <=> \/ v \in {n} \X (1..l)
                             \/ \E p \in Places \ {n} : /\ At(p).statement = x
                                                        /\ v \in {p} \X (1..At(p).left)
      BY <1>0, UnitsAre
    <3> QED
      BY <2>2, <3>1, <3>2, <3>3
  <2> QED
    BY <2>3, <2>4
<1>6. IsFiniteSet(Units(x)') /\ Left(x)' = Left(x) - 1
  <2>1. IsFiniteSet(Units(x) \ {u}) /\ Cardinality(Units(x) \ {u}) = Cardinality(Units(x)) - 1
    BY <1>2, <1>3, <1>5, FS_RemoveElement
  <2> QED
    BY <1>2, <1>3, <1>5, <2>1
<1>7. Balanced'
  <2>1. ASSUME NEW i \in Statements
        PROVE  /\ IsFiniteSet(Units(i)')
               /\ asked'[i] - taken'[i] - Left(i)' = asked[i] - taken[i] - Left(i)
    <3>1. /\ asked[i] \in Nat /\ taken[i] \in Nat /\ asked'[i] = asked[i]
          /\ taken \in [Statements -> Nat]
      BY DEF TypeOK
    <3>2. CASE i = x
      <4>1. taken'[i] = taken[i] + 1
        BY <1>1, <1>2, <3>1, <3>2
      <4>2. IsFiniteSet(Units(i)') /\ Left(i)' = Left(i) - 1 /\ Left(i) \in Nat
        BY <1>2, <1>3, <1>6, <3>2
      <4> QED
        BY <3>1, <4>1, <4>2
    <3>3. CASE i # x
      <4>1. taken'[i] = taken[i]
        BY <1>1, <1>2, <3>1, <3>3
      <4> QED
        BY <1>3, <1>4, <3>1, <3>3, <4>1
    <3> QED
      BY <3>2, <3>3
  <2> QED
    BY <2>1, BalanceKept
<1>8. \A p \in Places' : At(p)'.statement > before
  BY <1>0, <1>1 DEF OwnInv
<1> QED
  BY <1>1, <1>7, <1>8
\* Expectations are destroyed: where one still waited, its statement is now
\* short, and the test has reported it.
LEMMA DestroyAccount ==
  ASSUME TypeOK, TypeOK', Balanced, OwnInv,
         DestroyFixture \/ \E c \in Calls : VerifyAndClear(c)
  PROVE  Balanced' /\ OwnInv'
<1>1. /\ UNCHANGED <<builder, statements, before, asked, taken>>
      /\ Places' \subseteq Places /\ \A p \in Places' : At(p)' = At(p)
      /\ missing' <=> missing \/ \E p \in Places \ Places' : At(p).left # 0
      /\ DestroyFixture => Places' = {}
  BY DestroyEffect DEF matches
<1>2. OfThisTest' = OfThisTest /\ OfThisTest \subseteq Statements
  <2>1. before \in Nat /\ before' = before
    BY <1>1 DEF TypeOK
  <2> QED
    BY <2>1 DEF OfThisTest, Statements
<1>3. ASSUME NEW i \in Statements
      PROVE  /\ Units(i)' \subseteq Units(i)
             /\ asked[i] \in Nat /\ taken[i] \in Nat /\ Left(i) \in Nat /\ Left(i)' \in Nat
             /\ IsFiniteSet(Units(i)') /\ Left(i)' <= Left(i)
             /\ Units(i)' # Units(i) => Left(i)' < Left(i)
  <2>1. IsFiniteSet(Units(i)) /\ asked[i] \in Nat /\ taken[i] \in Nat
    BY DEF Balanced, TypeOK
  <2>2. Units(i)' \subseteq Units(i)
    BY <1>1, UnitsAre
  <2>3. /\ IsFiniteSet(Units(i)')
        /\ Cardinality(Units(i)') <= Cardinality(Units(i))
        /\ Cardinality(Units(i)) = Cardinality(Units(i)') => Units(i) = Units(i)'
    BY <2>1, <2>2, FS_Subset
  <2>4. Cardinality(Units(i)) \in Nat /\ Cardinality(Units(i)') \in Nat
    BY <2>1, <2>3, FS_CardinalityType
  <2>5. Left(i) = Cardinality(Units(i)) /\ Left(i)' = Cardinality(Units(i)')
    BY DEF Left
  <2> QED
    BY <2>1, <2>2, <2>3, <2>4, <2>5
<1>4. \A i \in Statements : taken[i] + Left(i)' <= asked[i]
  <2> TAKE i \in Statements
  <2>1. taken[i] + Left(i) <= asked[i]
    BY DEF Balanced
  <2> QED
    BY <1>3, <2>1
<1>5. ~missing' => \A i \in OfThisTest : taken[i] + Left(i)' = asked[i]
  <2> SUFFICES ASSUME ~missing', NEW i \in OfThisTest
               PROVE  taken[i] + Left(i)' = asked[i]
    OBVIOUS
  <2>1. Units(i)' = Units(i)
    <3>1. ASSUME NEW p \in Places, p \notin Places' PROVE 1..At(p).left = {}
      BY <1>1, <3>1
    <3>2. \A u : u \in Units(i) => u \in Units(i)'
      BY <1>1, <3>1, UnitsAre
    <3>3. Units(i)' \subseteq Units(i)
      BY <1>2, <1>3
    <3> QED
      BY <3>2, <3>3
  <2>2. taken[i] + Left(i) = asked[i]
    BY <1>1 DEF Balanced
  <2> QED
    BY <2>1, <2>2 DEF Left
<1>6. missing' => \E i \in OfThisTest : taken[i] + Left(i)' < asked[i]
  <2>1. CASE missing
    <3>1. PICK i \in OfThisTest : taken[i] + Left(i) < asked[i]
      BY <2>1 DEF Balanced
    <3>2. i \in Statements
      BY <1>2
    <3>3. taken[i] + Left(i)' < asked[i]
      BY <1>3, <3>1, <3>2
    <3> QED
      BY <3>3
  <2>2. CASE ~missing /\ missing'
    <3>1. PICK p \in Places \ Places' : At(p).left # 0
      BY <1>1, <2>2
    <3>2. PICK i : i = At(p).statement
      OBVIOUS
    <3>3. i \in Statements /\ i > before /\ At(p).left \in Nat
      <4>1. At(p) \in Expectation
        BY PlacesAre
      <4> QED
        BY <3>2, <4>1 DEF Expectation, OwnInv
    <3>4. i \in OfThisTest
      BY <3>3 DEF OfThisTest, Statements, TypeOK
    <3>5. 1 \in 1..At(p).left
      BY <3>1, <3>3
    <3>6. <<p, 1>> \in Units(i) /\ <<p, 1>> \notin Units(i)'
      BY <3>1, <3>2, <3>5, UnitsAre
    <3>7. Left(i)' < Left(i)
      BY <1>3, <3>3, <3>6
    <3>8. taken[i] + Left(i) = asked[i]
      BY <2>2, <3>4 DEF Balanced
    <3>9. taken[i] + Left(i)' < asked[i]
      BY <1>3, <3>3, <3>7, <3>8
    <3> QED
      BY <3>4, <3>9
  <2> QED
    BY <2>1, <2>2
<1>7. Balanced'
  BY <1>1, <1>2, <1>3, <1>4, <1>5, <1>6 DEF Balanced
<1>8. OwnInv'
  <2>1. phase' = "over" => Places' = {}
    BY <1>1 DEF VerifyAndClear, running
  <2>2. builder' # None => phase' = "arrange" /\ before' < statements'
    <3>1. DestroyFixture => builder = None
      BY DEF DestroyFixture, OwnInv
    <3>2. ~DestroyFixture => phase' = phase
      BY DEF VerifyAndClear, running
    <3> QED
      BY <1>1, <3>1, <3>2 DEF OwnInv
  <2> QED
    BY <1>1, <2>1, <2>2 DEF OwnInv
<1> QED
  BY <1>7, <1>8
-----------------------------------------------------------------------------
\* The report of forbidden calls and events, for the steps that leave the queue
\* alone.
LEMMA ReportKept ==
  ASSUME TypeOK, ReportInv, queue' = queue, closed => closed',
         phase' = "arrange" => phase = "arrange", phase' = "over" <=> phase = "over",
         unexpected' => offended', offended => offended',
         offended' /\ ~unexpected' => offended /\ ~unexpected,
         \A j \in DOMAIN queue : Offends(j)' <=> Offends(j)
  PROVE  ReportInv'
BY DEF ReportInv, TypeOK

\* While the loop runs and a test arranges, nothing is queued that a new
\* Times(0) could forbid.
LEMMA TimesReport ==
  ASSUME TypeOK, OwnInv, ReportInv, NEW n, Times(n)
  PROVE  ReportInv'
<1>1. UNCHANGED <<queue, closed, phase, unexpected, offended>>
  BY DEF Times, loop, running, failures, history
<1>2. builder # None /\ phase = "arrange"
  BY DEF Times, Chained, OwnInv
<1>3. \A s \in Sigs : forbidden[s] \subseteq forbidden'[s]
  <2>1. builder.sig \in Sigs /\ forbidden \in [Sigs -> SUBSET Matchers]
    BY <1>2 DEF TypeOK
  <2> QED
    BY <2>1 DEF Times
<1>4. \A j \in DOMAIN queue : Offends(j) => Offends(j)'
  <2> TAKE j \in DOMAIN queue
  <2>1. queue[j].sig \in Sigs
    <3>1. queue \in Seq([sig : Events, arg : Args])
      BY DEF TypeOK
    <3>2. queue[j] \in [sig : Events, arg : Args]
      BY <3>1, ElementOfSeq, LenProperties
    <3> QED
      BY <3>2 DEF Sigs
  <2> QED
    BY <1>1, <1>3, <2>1 DEF Offends, Forbidden
<1>5. ~closed => queue = <<>>
  BY <1>2 DEF ReportInv
<1>6. DOMAIN <<>> = {}
  OBVIOUS
<1> QED
  BY <1>1, <1>2, <1>4, <1>5, <1>6 DEF ReportInv

\* A published event joins the queue.
LEMMA PublishReport ==
  ASSUME TypeOK, ReportInv, NEW ev \in Events, NEW arg \in Args, Publish(ev, arg)
  PROVE  ReportInv'
<1> DEFINE e == [sig |-> ev, arg |-> arg]
<1>1. /\ phase' = "act" /\ phase # "over" /\ queue' = Append(queue, e)
      /\ offended' = (offended \/ Forbidden(ev, arg))
      /\ UNCHANGED <<forbidden, closed, unexpected>>
  BY DEF Publish, Acts, expecters, failures
<1>2. queue \in Seq([sig : Events, arg : Args]) /\ e \in [sig : Events, arg : Args]
  BY DEF TypeOK
<1>0. PICK l : l = Len(queue)
  OBVIOUS
<1>3. /\ DOMAIN queue = 1..l /\ l \in Nat
      /\ DOMAIN queue' = 1..l + 1
      /\ \A j \in 1..l : queue'[j] = queue[j]
      /\ queue'[l + 1] = e
  BY <1>0, <1>1, <1>2, AppendProperties, LenProperties
<1>4. \A j \in DOMAIN queue : j \in DOMAIN queue' /\ (Offends(j)' <=> Offends(j))
  BY <1>1, <1>3 DEF Offends, Forbidden
<1>5. Offends(l + 1)' <=> Forbidden(ev, arg)
  BY <1>1, <1>3 DEF Offends, Forbidden
<1>6. \A j \in DOMAIN queue' : j \in DOMAIN queue \/ j = l + 1
  BY <1>3
<1>7. l + 1 \in DOMAIN queue'
  BY <1>3
<1>8. unexpected' => offended'
  BY <1>1 DEF ReportInv
<1>9. ~closed' => \A j \in DOMAIN queue' : Offends(j)' => offended'
  BY <1>1, <1>4, <1>5, <1>6 DEF ReportInv
<1>10. offended' /\ ~unexpected' => \E j \in DOMAIN queue' : Offends(j)'
  <2>1. CASE Forbidden(ev, arg)
    BY <1>5, <1>7, <2>1
  <2>2. CASE ~Forbidden(ev, arg)
    BY <1>1, <1>4, <2>2 DEF ReportInv
  <2> QED
    BY <2>1, <2>2
<1> QED
  BY <1>1, <1>8, <1>9, <1>10 DEF ReportInv

\* A delivered event leaves the queue, and is reported if it is forbidden.
LEMMA DeliverReport ==
  ASSUME TypeOK, ReportInv, Deliver
  PROVE  ReportInv'
<1>1. /\ phase = "act" /\ ~closed /\ queue # <<>> /\ queue' = Tail(queue)
      /\ unexpected' = (unexpected \/ Forbidden(Head(queue).sig, Head(queue).arg))
      /\ UNCHANGED <<forbidden, closed, phase, offended>>
  BY DEF Deliver, Match, running
<1>2. /\ DOMAIN queue = 1..Len(queue) /\ Len(queue) \in Nat \ {0}
      /\ DOMAIN queue' = 1..Len(queue) - 1
      /\ \A j \in 1..Len(queue) - 1 : queue'[j] = queue[j + 1]
      /\ Head(queue) = queue[1]
  <2>1. queue \in Seq([sig : Events, arg : Args])
    BY DEF TypeOK
  <2> QED
    BY <1>1, <2>1, HeadTailProperties, LenProperties, EmptySeq
<1>3. \A j \in DOMAIN queue' : j + 1 \in DOMAIN queue /\ (Offends(j)' <=> Offends(j + 1))
  BY <1>1, <1>2 DEF Offends, Forbidden
<1>4. 1 \in DOMAIN queue /\ (Offends(1) <=> Forbidden(Head(queue).sig, Head(queue).arg))
  BY <1>2 DEF Offends
<1>5. \A j \in DOMAIN queue : j = 1 \/ (j - 1 \in DOMAIN queue' /\ j = (j - 1) + 1)
  BY <1>2
<1>6. unexpected' => offended
  BY <1>1, <1>4 DEF ReportInv
<1>7. \A j \in DOMAIN queue' : Offends(j)' => offended
  BY <1>1, <1>3 DEF ReportInv
<1>8. offended /\ ~unexpected' => \E j \in DOMAIN queue' : Offends(j)'
  <2> SUFFICES ASSUME offended, ~unexpected'
               PROVE  \E j \in DOMAIN queue' : Offends(j)'
    OBVIOUS
  <2>1. PICK j \in DOMAIN queue : Offends(j)
    BY <1>1 DEF ReportInv
  <2>2. j # 1
    BY <1>1, <1>4, <2>1
  <2>3. j - 1 \in DOMAIN queue' /\ Offends((j - 1) + 1)
    BY <1>5, <2>1, <2>2
  <2> QED
    BY <1>3, <2>3
<1> QED
  BY <1>1, <1>6, <1>7, <1>8 DEF ReportInv

-----------------------------------------------------------------------------
\* One lemma per kind of step: it keeps the account and the report.
LEMMA StatementVerdict ==
  ASSUME IInv, TypeOK', VerdictInv,
         \/ \E s \in Sigs, want \in Matchers : Expect(s, want)
         \/ \E n \in 0..MaxTimes : Times(n)
  PROVE  VerdictInv'
<1>1. /\ TypeOK /\ Balanced /\ OwnInv /\ ReportInv
      /\ statements \in Nat /\ before \in 0..statements
  BY Parts DEF VerdictInv, TypeOK
<1>2. /\ UNCHANGED <<remaining, loop, running, failures, before, asked, taken, offended>>
      /\ statements' \in Nat /\ statements <= statements'
      /\ builder' # None => phase = "arrange" /\ before < statements'
  <2>1. CASE \E s \in Sigs, want \in Matchers : Expect(s, want)
    BY <1>1, <2>1 DEF Expect, expecters, matches
  <2>2. CASE \E n \in 0..MaxTimes : Times(n)
    <3>1. /\ builder # None
          /\ UNCHANGED <<remaining, loop, running, failures, history>>
      BY <2>2 DEF Times, Chained
    <3> QED
      BY <1>1, <3>1 DEF history, matches, OwnInv
  <2> QED
    BY <2>1, <2>2
<1>3. Balanced' /\ OwnInv'
  BY <1>1, <1>2, QuietAccount DEF running, failures
<1>4. ReportInv'
  <2>1. CASE \E s \in Sigs, want \in Matchers : Expect(s, want)
    <3>1. forbidden' = forbidden
      BY <2>1 DEF Expect, expecters
    <3>2. \A j \in DOMAIN queue : Offends(j)' <=> Offends(j)
      BY <1>2, <3>1 DEF Offends, Forbidden, loop
    <3>3. unexpected => offended
      BY <1>1 DEF ReportInv
    <3> QED
      BY <1>1, <1>2, <3>2, <3>3, ReportKept DEF loop, running, failures
  <2>2. CASE \E n \in 0..MaxTimes : Times(n)
    BY <1>1, <2>2, TimesReport
  <2> QED
    BY <2>1, <2>2
<1> QED
  BY <1>3, <1>4 DEF VerdictInv

LEMMA AddVerdict ==
  ASSUME IInv, TypeOK', VerdictInv, WillOnce \/ WillRepeatedly \/ EndStatement
  PROVE  VerdictInv'
<1>1. TypeOK /\ BuilderInv /\ Balanced /\ OwnInv /\ ReportInv /\ statements \in Nat
  BY Parts DEF VerdictInv
<1>2. /\ builder # None /\ phase = "arrange" /\ before < statements
      /\ UNCHANGED <<forbidden, loop, running, failures, statements, before, taken, offended>>
  BY <1>1 DEF WillOnce, WillRepeatedly, EndStatement, Chained, matches, OwnInv
<1>3. \/ \E count \in Nat : AddExpectation(count)
      \/ UNCHANGED <<remaining, sequence, asked>>
  <2>1. builder.times \in Nat /\ 1 \in Nat
    <3>1. builder \in [sig : Sigs, want : Matchers, times : 0..MaxTimes \cup {1}, chain : 0..2]
      BY <1>1, <1>2 DEF TypeOK
    <3>2. builder.times \in 0..MaxTimes \cup {1}
      BY <3>1
    <3> QED
      BY <3>2
  <2>2. CASE WillOnce
    <3>1. AddExpectation(1)
      BY <2>2 DEF WillOnce
    <3> QED
      BY <2>1, <3>1
  <2>3. CASE WillRepeatedly
    <3>1. AddExpectation(builder.times)
      BY <2>3 DEF WillRepeatedly
    <3> QED
      BY <2>1, <3>1
  <2>4. CASE EndStatement
    <3>1. AddExpectation(builder.times) \/ UNCHANGED <<remaining, sequence, asked>>
      BY <2>4 DEF EndStatement
    <3> QED
      BY <2>1, <3>1
  <2> QED
    BY <2>2, <2>3, <2>4
<1>4. Balanced' /\ OwnInv'
  <2>1. ASSUME NEW count \in Nat, AddExpectation(count)
        PROVE  Balanced' /\ OwnInv'
    <3>1. /\ Balanced'
          /\ \A i \in Statements : i > statements => asked'[i] = 0
          /\ \A p \in Places' : At(p)'.statement > before
      BY <1>1, <1>2, <2>1, AddAccount DEF failures
    <3> QED
      BY <1>2, <3>1 DEF OwnInv, running
  <2>2. CASE UNCHANGED <<remaining, sequence, asked>>
    BY <1>1, <1>2, <2>2, QuietAccount DEF running, failures
  <2> QED
    BY <1>3, <2>1, <2>2
<1>5. ReportInv'
  <2>1. \A j \in DOMAIN queue : Offends(j)' <=> Offends(j)
    BY <1>2 DEF Offends, Forbidden, loop
  <2>2. unexpected => offended
    BY <1>1 DEF ReportInv
  <2> QED
    BY <1>1, <1>2, <2>1, <2>2, ReportKept DEF loop, running, failures
<1> QED
  BY <1>4, <1>5 DEF VerdictInv

\* What a match keeps of the account.
LEMMA MatchAccount ==
  ASSUME IInv, TypeOK', Balanced, OwnInv, NEW s \in Sigs, NEW arg, NEW th \in Threads,
         Match(s, arg, th), UNCHANGED <<builder, asked, before, missing, statements>>,
         builder = None, phase' = "over" => phase = "over"
  PROVE  Balanced' /\ OwnInv'
<1>1. TypeOK /\ WorkerInv /\ statements \in Nat
  BY Parts
<1>2. CASE UNCHANGED <<remaining, sequence, matches, executing>>
  BY <1>1, <1>2, QuietAccount DEF matches
<1>3. CASE \E n \in Places : Took(n, th)
  <2>1. PICK n \in Places : Took(n, th)
    BY <1>3
  <2>2. /\ Balanced' /\ Places' = Places
        /\ \A p \in Places' : At(p)'.statement > before
    BY <1>1, <2>1, TookAccount
  <2> QED
    BY <2>2 DEF OwnInv
<1> QED
  BY <1>1, <1>2, <1>3, MatchEffect

LEMMA CallVerdict ==
  ASSUME IInv, TypeOK', VerdictInv,
         NEW th \in Threads, NEW c \in Calls, NEW arg \in Args, Call(th, c, arg)
  PROVE  VerdictInv'
<1>1. /\ phase' # "arrange" /\ (phase' = "over" <=> phase = "over")
      /\ builder = None /\ Match(c, arg, th)
      /\ unexpected' = (unexpected \/ Forbidden(c, arg))
      /\ offended' = (offended \/ Forbidden(c, arg))
      /\ UNCHANGED <<forbidden, builder, queue, closed, missing, statements, before, asked>>
  BY DEF Call, Acts, Match
<1>2. TypeOK /\ Balanced /\ OwnInv /\ ReportInv /\ c \in Sigs
  BY DEF IInv, VerdictInv, Sigs
<1>3. Balanced' /\ OwnInv'
  BY <1>1, <1>2, MatchAccount
<1>4. ReportInv'
  <2>1. \A j \in DOMAIN queue : Offends(j)' <=> Offends(j)
    BY <1>1 DEF Offends, Forbidden
  <2>2. /\ unexpected' => offended'
        /\ offended => offended'
        /\ offended' /\ ~unexpected' => offended /\ ~unexpected
    BY <1>1, <1>2 DEF ReportInv
  <2> QED
    BY <1>1, <1>2, <2>1, <2>2, ReportKept
<1> QED
  BY <1>3, <1>4 DEF VerdictInv

LEMMA DeliverVerdict ==
  ASSUME IInv, TypeOK', VerdictInv, Deliver
  PROVE  VerdictInv'
<1>1. TypeOK /\ Balanced /\ OwnInv /\ ReportInv
  BY DEF IInv, VerdictInv
<1>2. Head(queue).sig \in Sigs
  <2>1. queue \in Seq([sig : Events, arg : Args]) /\ queue # <<>>
    BY <1>1 DEF TypeOK, Deliver
  <2>2. Head(queue) \in [sig : Events, arg : Args]
    BY <2>1, HeadTailRange
  <2> QED
    BY <2>2 DEF Sigs
<1>3. /\ Match(Head(queue).sig, Head(queue).arg, Worker)
      /\ UNCHANGED <<builder, asked, before, missing, statements>>
      /\ builder = None /\ phase' # "over"
  BY <1>1 DEF Deliver, running, OwnInv
<1>4. Balanced' /\ OwnInv'
  <2> PICK s, arg : s = Head(queue).sig /\ arg = Head(queue).arg
    OBVIOUS
  <2>1. Worker \in Threads
    BY DEF Threads, Workers
  <2>2. Match(s, arg, Worker) /\ s \in Sigs
    BY <1>2, <1>3
  <2> QED
    BY <1>1, <1>3, <2>1, <2>2, MatchAccount
<1> QED
  BY <1>1, <1>4, DeliverReport DEF VerdictInv

LEMMA DestroyVerdict ==
  ASSUME IInv, TypeOK', VerdictInv, DestroyFixture \/ \E c \in Calls : VerifyAndClear(c)
  PROVE  VerdictInv'
<1>1. TypeOK /\ Balanced /\ OwnInv /\ ReportInv
  BY DEF IInv, VerdictInv
<1>2. Balanced' /\ OwnInv'
  BY <1>1, DestroyAccount
<1>3. /\ UNCHANGED <<queue, closed, unexpected, offended>>
      /\ ~DestroyFixture => \A ev \in Events : forbidden'[ev] = forbidden[ev]
  BY <1>1, DestroyEffect
<1>4. CASE DestroyFixture
  <2>1. phase = "stopped" /\ phase' = "over" /\ closed
    BY <1>4, Parts DEF DestroyFixture, EndInv
  <2>2. DOMAIN <<>> = {}
    OBVIOUS
  <2> QED
    BY <1>1, <1>2, <1>3, <2>1, <2>2 DEF VerdictInv, ReportInv
<1>5. CASE ~DestroyFixture
  <2>1. phase' = phase
    BY <1>5 DEF VerifyAndClear, running
  <2>2. \A j \in DOMAIN queue : Offends(j)' <=> Offends(j)
    <3> TAKE j \in DOMAIN queue
    <3>1. queue \in Seq([sig : Events, arg : Args])
      BY <1>1 DEF TypeOK
    <3>2. queue[j] \in [sig : Events, arg : Args]
      BY <3>1, ElementOfSeq, LenProperties
    <3>3. forbidden'[queue[j].sig] = forbidden[queue[j].sig] /\ queue' = queue
      BY <1>3, <1>5, <3>2
    <3> QED
      BY <3>3 DEF Offends, Forbidden
  <2>3. unexpected => offended
    BY <1>1 DEF ReportInv
  <2>4. ReportInv'
    BY <1>1, <1>3, <2>1, <2>2, <2>3, ReportKept
  <2> QED
    BY <1>2, <2>4 DEF VerdictInv
<1> QED
  BY <1>4, <1>5

\* The steps that leave expectations, arguments and queue alone.
LEMMA QuietVerdict ==
  ASSUME IInv, TypeOK', VerdictInv,
         \/ BeginSequence \/ EndSequence \/ TearDown
         \/ \E th \in Threads, c \in Calls : CallLeftBehind(th, c)
         \/ \E w \in Workers, s \in Sigs : CallbackReturns(w, s)
         \/ TearDownReturns \/ UNCHANGED vars
  PROVE  VerdictInv'
<1>1. TypeOK /\ Balanced /\ OwnInv /\ ReportInv /\ statements \in Nat
  BY Parts DEF VerdictInv
<1>2. UNCHANGED <<expecters, builder, queue, failures, statements, before, asked, taken, offended>>
  BY DEF BeginSequence, EndSequence, TearDown, CallLeftBehind, CallbackReturns, TearDownReturns,
         vars, loop, history, matches
<1>3. /\ closed => closed'
      /\ phase' = "arrange" => phase = "arrange"
      /\ phase' = "over" <=> phase = "over"
      /\ builder # None => phase' = phase
  <2>1. CASE TearDown
    BY <1>1, <2>1 DEF TearDown
  <2>2. CASE TearDownReturns
    BY <1>1, <2>2 DEF TearDownReturns, loop, OwnInv
  <2>3. CASE \E th \in Threads, c \in Calls : CallLeftBehind(th, c)
    <3>1. /\ builder = None /\ closed' = closed
          /\ phase' = IF phase = "arrange" THEN "act" ELSE phase
      BY <2>3 DEF CallLeftBehind, Acts, loop
    <3>2. phase' # "arrange" /\ (phase' = "over" <=> phase = "over")
      BY <3>1
    <3> QED
      BY <3>1, <3>2
  <2>4. CASE BeginSequence \/ EndSequence \/ \E w \in Workers, s \in Sigs : CallbackReturns(w, s)
    <3>1. closed' = closed /\ phase' = phase
      BY <2>4 DEF BeginSequence, EndSequence, CallbackReturns, loop, running
    <3> QED
      BY <3>1
  <2>5. CASE UNCHANGED vars
    BY <2>5 DEF vars, loop, running
  <2> QED
    BY <2>1, <2>2, <2>3, <2>4, <2>5
<1>4. Balanced' /\ OwnInv'
  <2>1. builder' # None => phase' = "arrange" /\ before < statements'
    BY <1>1, <1>2, <1>3 DEF OwnInv
  <2> QED
    BY <1>1, <1>2, <1>3, <2>1, QuietAccount DEF expecters, failures
<1>5. ReportInv'
  <2>1. \A j \in DOMAIN queue : Offends(j)' <=> Offends(j)
    BY <1>2 DEF Offends, Forbidden, expecters
  <2>2. unexpected => offended
    BY <1>1 DEF ReportInv
  <2> QED
    BY <1>1, <1>2, <1>3, <2>1, <2>2, ReportKept DEF failures
<1> QED
  BY <1>4, <1>5 DEF VerdictInv

LEMMA PublishVerdict ==
  ASSUME IInv, TypeOK', VerdictInv, NEW ev \in Events, NEW arg \in Args, Publish(ev, arg)
  PROVE  VerdictInv'
<1>1. TypeOK /\ Balanced /\ OwnInv /\ ReportInv /\ statements \in Nat
  BY Parts DEF VerdictInv
<1>2. /\ UNCHANGED <<remaining, builder, missing, statements, before, asked, taken>>
      /\ phase' = "act" /\ builder = None
  BY DEF Publish, Acts, expecters, failures, matches
<1>3. Balanced' /\ OwnInv'
  BY <1>1, <1>2, QuietAccount
<1> QED
  BY <1>1, <1>3, PublishReport DEF VerdictInv

\* The next test starts with a clean account: nothing is left of the last one.
LEMMA NextTestVerdict ==
  ASSUME IInv, TypeOK', VerdictInv, NextTest
  PROVE  VerdictInv'
<1>1. /\ TypeOK /\ EndInv /\ Balanced /\ OwnInv /\ statements \in Nat
  BY Parts DEF VerdictInv
<1>2. /\ phase = "over" /\ phase' = "arrange" /\ before' = statements
      /\ unexpected' = FALSE /\ missing' = FALSE /\ offended' = FALSE
      /\ UNCHANGED <<remaining, builder, loop, statements, asked, taken>>
  BY DEF NextTest, expecters, matches
<1>3. closed /\ Places = {} /\ builder = None
  BY <1>1, <1>2 DEF EndInv, OwnInv
<1>4. Places' = Places /\ \A i \in Statements : Units(i)' = Units(i)
  BY <1>2 DEF Places, Units, At
<1>5. \A i \in Statements : Left(i)' = Left(i)
  BY <1>4 DEF Left
<1>6. \A i \in OfThisTest' : taken[i] + Left(i)' = asked[i]
  <2> TAKE i \in OfThisTest'
  <2>1. i \in Statements /\ i > statements
    BY <1>1, <1>2 DEF OfThisTest, Statements
  <2>2. asked[i] = 0 /\ taken[i] + Left(i) <= 0
    BY <1>1, <2>1 DEF OwnInv, Balanced
  <2>3. taken[i] \in Nat /\ Left(i) \in Nat
    <3>1. IsFiniteSet(Units(i))
      BY <1>1, <2>1 DEF Balanced
    <3> QED
      BY <1>1, <2>1, <3>1, FS_CardinalityType DEF Left, TypeOK
  <2> QED
    BY <1>5, <2>1, <2>2, <2>3
<1>7. Balanced'
  BY <1>1, <1>2, <1>4, <1>5, <1>6 DEF Balanced
<1>8. OwnInv'
  BY <1>1, <1>2, <1>3, <1>4 DEF OwnInv
<1>9. ReportInv'
  BY <1>2, <1>3 DEF ReportInv, loop
<1> QED
  BY <1>7, <1>8, <1>9 DEF VerdictInv

LEMMA InitVerdict == Init => VerdictInv
<1> SUFFICES ASSUME Init PROVE VerdictInv
  OBVIOUS
<1>1. /\ unexpected = FALSE /\ missing = FALSE /\ offended = FALSE /\ queue = <<>>
      /\ phase = "arrange" /\ builder = None /\ before = 0
      /\ asked = [i \in Statements |-> 0] /\ taken = [i \in Statements |-> 0]
      /\ DOMAIN <<>> = {}
  BY DEF Init
<1>2. Places = {}
  <2>1. TypeOK
    BY InitHolds DEF IInv
  <2>2. \A s \in Sigs : DOMAIN remaining[s] = {}
    BY DEF Init
  <2>3. \A p : p \notin Places
    BY <2>1, <2>2, PlacesAre
  <2> QED
    BY <2>3
<1>3. \A i \in Statements : IsFiniteSet(Units(i)) /\ Left(i) = 0
  <2> TAKE i \in Statements
  <2>1. Units(i) = {}
    BY <1>2 DEF Units
  <2> QED
    BY <2>1, FS_EmptySet DEF Left
<1>4. OfThisTest \subseteq Statements
  BY <1>1 DEF OfThisTest, Statements
<1>5. Balanced
  BY <1>1, <1>3, <1>4 DEF Balanced
<1>6. OwnInv
  BY <1>1, <1>2 DEF OwnInv
<1>7. ReportInv
  BY <1>1 DEF ReportInv
<1> QED
  BY <1>5, <1>6, <1>7 DEF VerdictInv

LEMMA NextVerdict == IInv /\ TypeOK' /\ VerdictInv /\ [Next]_vars => VerdictInv'
<1> SUFFICES ASSUME IInv, TypeOK', VerdictInv, [Next]_vars PROVE VerdictInv'
  OBVIOUS
<1>1. CASE \/ \E s \in Sigs, want \in Matchers : Expect(s, want)
           \/ \E n \in 0..MaxTimes : Times(n)
  BY <1>1, StatementVerdict
<1>2. CASE WillOnce \/ WillRepeatedly \/ EndStatement
  BY <1>2, AddVerdict
<1>3. ASSUME NEW th \in Threads, NEW c \in Calls, NEW arg \in Args, Call(th, c, arg)
      PROVE  VerdictInv'
  BY <1>3, CallVerdict
<1>4. CASE Deliver
  BY <1>4, DeliverVerdict
<1>5. CASE DestroyFixture \/ \E c \in Calls : VerifyAndClear(c)
  BY <1>5, DestroyVerdict
<1>6. ASSUME NEW ev \in Events, NEW arg \in Args, Publish(ev, arg)
      PROVE  VerdictInv'
  BY <1>6, PublishVerdict
<1>7. CASE NextTest
  BY <1>7, NextTestVerdict
<1>8. CASE \/ BeginSequence \/ EndSequence \/ TearDown
           \/ \E th \in Threads, c \in Calls : CallLeftBehind(th, c)
           \/ \E w \in Workers, s \in Sigs : CallbackReturns(w, s)
           \/ TearDownReturns \/ UNCHANGED vars
  BY <1>8, QuietVerdict
<1> QED
  BY <1>1, <1>2, <1>3, <1>4, <1>5, <1>6, <1>7, <1>8 DEF Next

\* In every reachable state the matches asked for are those got and those
\* waited for, except where the test reported a missing call or event.
THEOREM AccountIsKept == Spec => []VerdictInv
<1>1. Init => VerdictInv
  BY InitVerdict
<1>2. IInv => TypeOK
  BY DEF IInv
<1>3. IInv /\ TypeOK' /\ VerdictInv /\ [Next]_vars => VerdictInv'
  BY NextVerdict
<1> QED
  BY <1>1, <1>2, <1>3, Invariance, PTL DEF Spec

\* The verdict of every test on its expectations is right: VerdictIsRight.
THEOREM VerdictsAreRight == Spec => []VerdictIsRight
<1>1. IInv /\ VerdictInv => VerdictIsRight
  <2> SUFFICES ASSUME IInv, VerdictInv PROVE VerdictIsRight
    OBVIOUS
  <2>1. Balanced /\ OwnInv /\ ReportInv /\ TypeOK
    BY DEF IInv, VerdictInv
  <2>2. ASSUME NEW i \in Statements
        PROVE  /\ asked[i] \in Nat /\ taken[i] \in Nat /\ Left(i) \in Nat
               /\ taken[i] + Left(i) <= asked[i]
               /\ phase = "over" => Left(i) = 0
    <3>1. IsFiniteSet(Units(i)) /\ taken[i] + Left(i) <= asked[i]
      BY <2>1 DEF Balanced
    <3>2. phase = "over" => Units(i) = {}
      BY <2>1 DEF OwnInv, Units
    <3> QED
      BY <2>1, <3>1, <3>2, FS_CardinalityType, FS_EmptySet DEF Left, TypeOK
  <2>3. \A i \in Statements : taken[i] <= asked[i]
    BY <2>2
  <2>4. OfThisTest \subseteq Statements
    BY <2>1 DEF OfThisTest, Statements, TypeOK
  <2>5. phase = "over" => (missing <=> \E i \in OfThisTest : taken[i] < asked[i])
    <3> SUFFICES ASSUME phase = "over"
                 PROVE  missing <=> \E i \in OfThisTest : taken[i] < asked[i]
      OBVIOUS
    <3>1. \A i \in OfThisTest : /\ taken[i] + Left(i) = taken[i]
                                /\ asked[i] \in Nat /\ taken[i] \in Nat
      BY <2>2, <2>4
    <3>2. CASE missing
      BY <2>1, <3>1, <3>2 DEF Balanced
    <3>3. CASE ~missing
      BY <2>1, <3>1, <3>3 DEF Balanced
    <3> QED
      BY <3>2, <3>3
  <2>6. /\ unexpected => offended
        /\ phase = "over" /\ queue = <<>> /\ offended => unexpected
    BY <2>1 DEF ReportInv
  <2> QED
    BY <2>3, <2>5, <2>6 DEF VerdictIsRight, OfThisTest
<1> QED
  BY <1>1, AccountIsKept, Invariance, PTL
=============================================================================
