---------------------------- MODULE EventsProofs ----------------------------
(***************************************************************************)
(* No future of a receiver sleeps on something it could return, and what   *)
(* a receiver is told of its losses is what was lost, for any number of    *)
(* receivers and any limits.                                               *)
(***************************************************************************)
EXTENDS Events, SequenceTheorems, FiniteSetTheorems, WellFoundedInduction, NaturalsInduction,
        TLAPS

\* A future needs a receiver, and a registered one has nothing to return.
Waiting ==
    /\ waits \in [Receivers -> {"idle", "registered", "woken"}]
    /\ DOMAIN cursor = Receivers /\ DOMAIN start = Receivers
    /\ \A r \in Receivers : start[r] = -1 => waits[r] = "idle"
    /\ NoLostWakeup

\* A notification leaves no future registered.
LEMMA NotifyWakes ==
    ASSUME Waiting, Notify
    PROVE  /\ waits' \in [Receivers -> {"idle", "registered", "woken"}]
           /\ \A r \in Receivers : /\ waits'[r] # "registered"
                                   /\ waits[r] = "idle" => waits'[r] = "idle"
  BY DEF Waiting, Notify

\* What a registered future has read does not change while the history and its cursor stay.
LEMMA NothingStays ==
    ASSUME NEW r \in Receivers, Nothing(r), UNCHANGED <<entries, next, closed>>,
           cursor'[r] = cursor[r]
    PROVE  Nothing(r)'
<1>1. Numbers(entries)' = Numbers(entries)
  BY DEF Numbers
<1>2. Ahead(r)' = Ahead(r)
  BY <1>1 DEF Ahead
<1>. QED
  BY <1>2 DEF Nothing, Level

\* A step that touches no receiver and no history.
LEMMA WaitingAside ==
    ASSUME Waiting, UNCHANGED <<history, receivers>>
    PROVE  Waiting'
<1>1. \A r \in Receivers : Nothing(r) => Nothing(r)'
  BY NothingStays DEF history, receivers
<1>. QED
  BY <1>1 DEF Waiting, NoLostWakeup, receivers

\* Every step keeps the futures that wait with nothing to return.
LEMMA WaitingStep == Waiting /\ [Next]_vars => Waiting'
<1>. SUFFICES ASSUME Waiting, [Next]_vars
              PROVE  Waiting'
  OBVIOUS
<1>1. ASSUME NEW omitted \in 0..1, NEW size \in 1..MaxEvent, Emit(omitted, size)
      PROVE  Waiting'
  BY <1>1, WaitingAside DEF Emit
<1>2. ASSUME NEW size \in 1..MaxEvent, Finish(size)
      PROVE  Waiting'
  BY <1>2, WaitingAside DEF Finish
<1>3. CASE Flush \/ Lost \/ ResultEnds \/ ReaderEnds \/ ReaderFails
  BY <1>3, WaitingAside DEF Flush, Lost, ResultEnds, ReaderEnds, ReaderFails
<1>4. CASE Push
  <2>1. UNCHANGED <<cursor, start>>
    BY <1>4 DEF Push
  <2>2. CASE Head(socket).seq < next \/ closed
    <3>1. UNCHANGED <<history, receivers>>
      BY <1>4, <2>2 DEF Push, receivers
    <3>. QED
      BY <3>1, WaitingAside
  <2>3. CASE ~(Head(socket).seq < next \/ closed)
    <3>1. Notify
      BY <1>4, <2>3 DEF Push
    <3>. QED
      BY <3>1, <2>1, NotifyWakes DEF Waiting, NoLostWakeup
  <2>. QED
    BY <2>2, <2>3
<1>5. CASE Close
  BY <1>5, NotifyWakes DEF Close, Waiting, NoLostWakeup
<1>6. ASSUME NEW r \in Receivers, Subscribe(r)
      PROVE  Waiting'
  <2>1. waits[r] = "idle"
    BY <1>6 DEF Subscribe, Waiting
  <2>2. \A s \in Receivers \ {r} : cursor'[s] = cursor[s] /\ start'[s] = start[s]
    BY <1>6 DEF Subscribe, Waiting
  <2>3. \A s \in Receivers \ {r} : Nothing(s) => Nothing(s)'
    BY <1>6, <2>2, NothingStays DEF Subscribe, history
  <2>. QED
    BY <1>6, <2>1, <2>2, <2>3 DEF Subscribe, Waiting, NoLostWakeup
<1>7. ASSUME NEW r \in Receivers, Cancel(r)
      PROVE  Waiting'
  <2>1. \A s \in Receivers : Nothing(s) => Nothing(s)'
    BY <1>7, NothingStays DEF Cancel, history
  <2>. QED
    BY <1>7, <2>1 DEF Cancel, Waiting, NoLostWakeup
<1>8. ASSUME NEW r \in Receivers, Receive(r)
      PROVE  Waiting'
  <2>1. UNCHANGED <<entries, next, closed, start>> /\ start[r] # -1
    BY <1>8 DEF Receive, history
  <2>2. DOMAIN cursor' = Receivers /\ \A s \in Receivers \ {r} : cursor'[s] = cursor[s]
    BY <1>8 DEF Receive, Waiting
  <2>3. Nothing(r) => ~Gives(r) /\ Level(r)
    BY DEF Nothing, Gives, Level
  <2>4. Nothing(r) => cursor'[r] = cursor[r]
    BY <1>8, <2>3 DEF Receive
  <2>5. Nothing(r) => Nothing(r)'
    BY <2>1, <2>4, NothingStays
  <2>6. \A s \in Receivers \ {r} : Nothing(s) => Nothing(s)'
    BY <2>1, <2>2, NothingStays
  <2>. QED
    BY <1>8, <2>1, <2>2, <2>5, <2>6 DEF Receive, Waiting, NoLostWakeup
<1>9. CASE UNCHANGED vars
  BY <1>9, WaitingAside DEF vars
<1>. QED
  BY <1>1, <1>2, <1>3, <1>4, <1>5, <1>6, <1>7, <1>8, <1>9 DEF Next, vars

\* A registered future that was not woken has nothing to return, whatever the receivers,
\* the limits and the interleaving of the reader, the reaper and the futures.
THEOREM NoSleeper == Spec => []NoLostWakeup
<1>1. Init => Waiting
  BY DEF Init, Waiting, NoLostWakeup
<1>2. Waiting => NoLostWakeup
  BY DEF Waiting
<1>. QED
  BY <1>1, <1>2, WaitingStep, PTL DEF Spec

-----------------------------------------------------------------------------
(* The numbers on their way. *)

Increasing(q) == \A i, j \in 1..Len(q) : i < j => q[i].seq < q[j].seq

Before(ns, ms) == \A n \in ns, m \in ms : n < m

\* The types of the line from the sender to the history.
LineType ==
    /\ worker \in {"up", "gone"} /\ reader \in {"reading", "ended"}
    /\ done \in BOOLEAN /\ closed \in BOOLEAN
    /\ sent \in Nat /\ sent <= MaxNext /\ told \in Int /\ next \in Nat
    /\ pending \in Seq(Event) /\ Len(pending) <= MaxEvents
    /\ socket \in Seq(Event) /\ Len(socket) <= SocketCap
    /\ entries \in Seq(Event) /\ Len(entries) <= MaxEvents
    /\ dropped \subseteq 0..MaxNext

\* The numbers leave the sender in order and enter the history in order.
Order ==
    /\ Increasing(pending) /\ Increasing(socket) /\ Before(Numbers(socket), Numbers(pending))
    /\ \A n \in Numbers(socket) \cup Numbers(pending) : n < sent /\ (~closed => next <= n)
    /\ \A n \in Numbers(entries) : n < next
    /\ next <= sent

\* Every number that was given out is on its way, in the history, or dropped.
Placed ==
    \A n \in Nat : n < sent =>
        n \in Numbers(pending) \cup Numbers(socket) \cup Numbers(entries) \cup dropped

\* What has ended holds nothing, and the history is closed with the worker's own count.
Ends ==
    /\ worker = "gone" => pending = <<>>
    /\ reader = "ended" => socket = <<>>
    /\ closed => reader = "ended" /\ worker = "gone"
    /\ told # -1 => told = sent /\ worker = "gone" /\ (closed => next = sent)

Line == LineType /\ Order /\ Placed /\ Ends

ReceiverType ==
    /\ cursor \in [Receivers -> Nat] /\ start \in [Receivers -> Int]
    /\ seen \in [Receivers -> SUBSET Nat] /\ missed \in [Receivers -> Nat]
    /\ ended \in [Receivers -> BOOLEAN]

\* A receiver has passed what it was given and what it was told of, one by one.
Account(r) ==
    /\ cursor[r] <= next
    /\ start[r] = -1 => ~ended[r] /\ seen[r] = {} /\ missed[r] = 0
    /\ start[r] # -1 =>
          /\ start[r] \in Nat /\ start[r] <= cursor[r]
          /\ \A n \in seen[r] : start[r] <= n /\ n < cursor[r]
          /\ IsFiniteSet(seen[r])
          /\ Cardinality(seen[r]) + missed[r] = cursor[r] - start[r]
          /\ \A n \in Nat : start[r] <= n /\ n < cursor[r] => n \in seen[r] \cup dropped
    /\ ended[r] => closed /\ cursor[r] = next

LossInv == Line /\ ReceiverType /\ (\A r \in Receivers : Account(r)) /\ Waiting

-----------------------------------------------------------------------------
(* Numbers and sequences. *)

\* A set of naturals that has a member has a least one.
LEMMA LeastNat ==
    ASSUME NEW T, T \subseteq Nat, T # {}
    PROVE  \E x \in T : \A y \in T : x <= y
<1>. DEFINE R == OpToRel(<, Nat)
<1>1. \E x \in T : \A y \in T : ~ (<<y, x>> \in R)
  BY NatLessThanWellFounded, WFMin
<1>2. \A x, y \in Nat : y < x => <<y, x>> \in R
  BY DEF OpToRel
<1>. HIDE DEF R
<1>3. PICK x \in T : \A y \in T : ~ (<<y, x>> \in R)
  BY <1>1
<1>4. \A y \in T : x <= y
  <2>. TAKE y \in T
  <2>1. x \in Nat /\ y \in Nat
    OBVIOUS
  <2>2. ~(y < x)
    BY <2>1, <1>2, <1>3, Zenon
  <2>. QED
    BY <2>1, <2>2
<1>. QED
  BY <1>4

\* Nothing weighs nothing.
LEMMA BytesEmpty == Bytes(<<>>) = 0
<1>. DEFINE Body(f) == [s \in SUBSET DOMAIN <<>> |->
                          IF s = {} THEN 0 ELSE f[s \ {Max(s)}] + (<<>>[Max(s)]).size]
            sums == CHOOSE f : f = Body(f)
<1>1. DOMAIN <<>> = {}
  OBVIOUS
<1>2. [s \in SUBSET DOMAIN <<>> |-> 0] = Body([s \in SUBSET DOMAIN <<>> |-> 0])
  BY <1>1
<1>3. Bytes(<<>>) = sums[DOMAIN <<>>]
  BY Zenon DEF Bytes, FoldLeft, MapThenFoldSet
<1>4. sums = Body(sums)
  BY <1>2, Zenon
<1>. HIDE DEF sums
<1>. QED
  BY <1>1, <1>3, <1>4

\* The two parts of an increasing queue.
LEMMA Cut ==
    ASSUME NEW q \in Seq(Event), NEW k \in 0..Len(q)
    PROVE  LET h == SubSeq(q, 1, k)
               t == SubSeq(q, k + 1, Len(q)) IN
           /\ h \in Seq(Event) /\ t \in Seq(Event) /\ Len(h) = k /\ Len(t) = Len(q) - k
           /\ Numbers(q) = Numbers(h) \cup Numbers(t)
           /\ Increasing(q) => Increasing(h) /\ Increasing(t) /\ Before(Numbers(h), Numbers(t))
<1>. DEFINE h == SubSeq(q, 1, k)
            t == SubSeq(q, k + 1, Len(q))
<1>0. Len(q) \in Nat /\ k \in Nat /\ k <= Len(q) /\ \A i \in 1..Len(q) : q[i] \in Event
  OBVIOUS
<1>1. h \in Seq(Event) /\ Len(h) = k /\ \A i \in 1..k : h[i] = q[i]
  BY <1>0, SubSeqProperties
<1>2. t \in Seq(Event) /\ Len(t) = Len(q) - k /\ \A i \in 1..(Len(q) - k) : t[i] = q[i + k]
  BY <1>0, SubSeqProperties
<1>. HIDE DEF h, t
<1>3. Numbers(q) = Numbers(h) \cup Numbers(t)
  <2>1. Numbers(h) \subseteq Numbers(q)
    BY <1>0, <1>1 DEF Numbers
  <2>2. Numbers(t) \subseteq Numbers(q)
    <3>1. \A i \in 1..Len(t) : i + k \in 1..Len(q) /\ t[i] = q[i + k]
      BY <1>0, <1>2
    <3>. QED
      BY <3>1 DEF Numbers
  <2>3. ASSUME NEW i \in 1..Len(q)
        PROVE  q[i].seq \in Numbers(h) \cup Numbers(t)
    <3>1. CASE i <= k
      BY <1>0, <1>1, <3>1 DEF Numbers
    <3>2. CASE ~(i <= k)
      <4>1. i - k \in 1..Len(t) /\ t[i - k] = q[i]
        BY <1>0, <1>2, <3>2
      <4>. QED
        BY <4>1 DEF Numbers
    <3>. QED
      BY <3>1, <3>2
  <2>. QED
    BY <2>1, <2>2, <2>3 DEF Numbers
<1>4. ASSUME Increasing(q)
      PROVE  Increasing(h) /\ Increasing(t) /\ Before(Numbers(h), Numbers(t))
  <2>1. Increasing(h)
    BY <1>0, <1>1, <1>4 DEF Increasing
  <2>2. Increasing(t)
    <3>. SUFFICES ASSUME NEW i \in 1..Len(t), NEW j \in 1..Len(t), i < j
                  PROVE  t[i].seq < t[j].seq
      BY DEF Increasing
    <3>1. i + k \in 1..Len(q) /\ j + k \in 1..Len(q) /\ i + k < j + k
      BY <1>0, <1>2
    <3>. QED
      BY <1>2, <1>4, <3>1 DEF Increasing
  <2>3. ASSUME NEW i \in 1..Len(h), NEW j \in 1..Len(t)
        PROVE  h[i].seq < t[j].seq
    <3>1. i \in 1..Len(q) /\ j + k \in 1..Len(q) /\ i < j + k
      BY <1>0, <1>1, <1>2
    <3>. QED
      BY <1>1, <1>2, <1>4, <3>1 DEF Increasing
  <2>. QED
    BY <2>1, <2>2, <2>3 DEF Before, Numbers
<1>. QED
  BY <1>1, <1>2, <1>3, <1>4 DEF h, t

\* One queue behind another.
LEMMA Join ==
    ASSUME NEW p \in Seq(Event), NEW q \in Seq(Event)
    PROVE  /\ p \o q \in Seq(Event) /\ Len(p \o q) = Len(p) + Len(q)
           /\ Numbers(p \o q) = Numbers(p) \cup Numbers(q)
           /\ Increasing(p) /\ Increasing(q) /\ Before(Numbers(p), Numbers(q)) =>
                 Increasing(p \o q)
<1>. DEFINE all == p \o q
<1>0. Len(p) \in Nat /\ Len(q) \in Nat
  OBVIOUS
<1>1. /\ all \in Seq(Event) /\ Len(all) = Len(p) + Len(q)
      /\ \A i \in 1..(Len(p) + Len(q)) : all[i] = IF i <= Len(p) THEN p[i] ELSE q[i - Len(p)]
  BY ConcatProperties
<1>. HIDE DEF all
<1>2. /\ \A i \in 1..Len(p) : i \in 1..Len(all) /\ all[i] = p[i]
      /\ \A i \in 1..Len(q) : i + Len(p) \in 1..Len(all) /\ all[i + Len(p)] = q[i]
  <2>1. ASSUME NEW i \in 1..Len(p) PROVE i \in 1..Len(all) /\ all[i] = p[i]
    <3>1. i \in 1..(Len(p) + Len(q)) /\ i <= Len(p)
      BY <1>0
    <3>. QED
      BY <1>1, <3>1
  <2>2. ASSUME NEW i \in 1..Len(q) PROVE i + Len(p) \in 1..Len(all) /\ all[i + Len(p)] = q[i]
    <3>1. i + Len(p) \in 1..(Len(p) + Len(q)) /\ ~(i + Len(p) <= Len(p)) /\ i + Len(p) - Len(p) = i
      BY <1>0
    <3>. QED
      BY <1>1, <3>1
  <2>. QED
    BY <2>1, <2>2
<1>3. \A i \in 1..Len(all) : i \in 1..Len(p) \/ (i - Len(p) \in 1..Len(q) /\ i > Len(p))
  BY <1>0, <1>1
<1>4. Numbers(all) = Numbers(p) \cup Numbers(q)
  <2>1. Numbers(p) \subseteq Numbers(all) /\ Numbers(q) \subseteq Numbers(all)
    BY <1>2 DEF Numbers
  <2>2. Numbers(all) \subseteq Numbers(p) \cup Numbers(q)
    <3>. SUFFICES ASSUME NEW i \in 1..Len(all) PROVE all[i].seq \in Numbers(p) \cup Numbers(q)
      BY DEF Numbers
    <3>1. CASE i \in 1..Len(p)
      BY <1>2, <3>1 DEF Numbers
    <3>2. CASE i - Len(p) \in 1..Len(q) /\ i > Len(p)
      <4>1. i - Len(p) + Len(p) = i
        BY <1>0
      <4>2. all[i] = q[i - Len(p)]
        BY <1>2, <3>2, <4>1
      <4>. QED
        BY <3>2, <4>2 DEF Numbers
    <3>. QED
      BY <1>3, <3>1, <3>2
  <2>. QED
    BY <2>1, <2>2
<1>5. ASSUME Increasing(p), Increasing(q), Before(Numbers(p), Numbers(q)),
             NEW i \in 1..Len(all), NEW j \in 1..Len(all), i < j
      PROVE  all[i].seq < all[j].seq
  <2>1. CASE j \in 1..Len(p)
    <3>1. i \in 1..Len(p)
      BY <1>0, <1>5, <2>1
    <3>. QED
      BY <1>2, <1>5, <2>1, <3>1 DEF Increasing
  <2>2. CASE i - Len(p) \in 1..Len(q) /\ i > Len(p)
    <3>1. j - Len(p) \in 1..Len(q) /\ i - Len(p) < j - Len(p) /\ ~(i <= Len(p)) /\ ~(j <= Len(p))
      BY <1>0, <1>1, <1>5, <2>2
    <3>2. all[i] = q[i - Len(p)] /\ all[j] = q[j - Len(p)]
      BY <1>1, <3>1
    <3>. QED
      BY <1>5, <2>2, <3>1, <3>2 DEF Increasing
  <2>3. CASE i \in 1..Len(p) /\ j - Len(p) \in 1..Len(q) /\ j > Len(p)
    <3>1. all[i] = p[i] /\ all[j] = q[j - Len(p)]
      <4>1. j - Len(p) + Len(p) = j
        BY <1>0
      <4>. QED
        BY <1>2, <2>3, <4>1
    <3>2. p[i].seq \in Numbers(p) /\ q[j - Len(p)].seq \in Numbers(q)
      BY <2>3 DEF Numbers
    <3>. QED
      BY <1>5, <3>1, <3>2 DEF Before
  <2>. QED
    BY <1>3, <2>1, <2>2, <2>3
<1>. QED
  BY <1>1, <1>4, <1>5 DEF all, Increasing

\* One event behind a queue.
LEMMA Added ==
    ASSUME NEW q \in Seq(Event), NEW e \in Event
    PROVE  /\ Append(q, e) \in Seq(Event) /\ Len(Append(q, e)) = Len(q) + 1
           /\ Numbers(Append(q, e)) = Numbers(q) \cup {e.seq}
           /\ Increasing(q) /\ Before(Numbers(q), {e.seq}) => Increasing(Append(q, e))
<1>0. Append(q, e) = q \o <<e>> /\ <<e>> \in Seq(Event) /\ Len(<<e>>) = 1 /\ <<e>>[1] = e
  OBVIOUS
<1>1. Numbers(<<e>>) = {e.seq}
  BY <1>0 DEF Numbers
<1>2. Increasing(<<e>>)
  BY DEF Increasing
<1>. QED
  BY <1>0, <1>1, <1>2, Join

\* The first event of a queue and the rest.
LEMMA Taking ==
    ASSUME NEW q \in Seq(Event), q # <<>>
    PROVE  /\ Head(q) \in Event /\ Tail(q) \in Seq(Event) /\ Len(Tail(q)) < Len(q)
           /\ Numbers(q) = {Head(q).seq} \cup Numbers(Tail(q))
           /\ Increasing(q) => Increasing(Tail(q)) /\ Before({Head(q).seq}, Numbers(Tail(q)))
<1>. DEFINE h == SubSeq(q, 1, 1)
            t == SubSeq(q, 2, Len(q))
<1>0. Len(q) \in Nat /\ 1 \in 0..Len(q) /\ 1 \in 1..Len(q)
  OBVIOUS
<1>1. Tail(q) = t /\ Head(q) = q[1] /\ q[1] \in Event
  BY TailIsSubSeq
<1>2. /\ t \in Seq(Event) /\ Len(t) = Len(q) - 1
      /\ Numbers(q) = Numbers(h) \cup Numbers(t)
      /\ Increasing(q) => Increasing(t) /\ Before(Numbers(h), Numbers(t))
  <2>1. t = SubSeq(q, 1 + 1, Len(q))
    OBVIOUS
  <2>. HIDE DEF h, t
  <2>. QED
    BY <1>0, <2>1, Cut DEF h
<1>3. Numbers(h) = {q[1].seq}
  <2>1. Len(h) = 1 /\ h[1] = q[1]
    BY <1>0
  <2>. QED
    BY <2>1 DEF Numbers
<1>. HIDE DEF h, t
<1>4. Head(q) \in Event /\ Tail(q) \in Seq(Event)
  BY <1>1, <1>2
<1>5. Len(Tail(q)) < Len(q)
  <2>1. Len(t) < Len(q)
    BY <1>0, <1>2
  <2>. QED
    BY <1>1, <2>1
<1>6. Numbers(h) = {Head(q).seq}
  BY <1>1, <1>3
<1>. QED
  BY <1>1, <1>2, <1>4, <1>5, <1>6

\* The limits drop the oldest events, and leave no more than the history may hold.
LEMMA Trimmed ==
    ASSUME NEW q \in Seq(Event)
    PROVE  /\ Trim(q) \in Seq(Event) /\ Len(Trim(q)) <= MaxEvents
           /\ Numbers(Trim(q)) \subseteq Numbers(q)
           /\ Increasing(q) => Increasing(Trim(q))
<1>. DEFINE fits(k) == Len(q) - k <= MaxEvents /\ Bytes(SubSeq(q, k + 1, Len(q))) <= MaxBytes
            all == {k \in 0..Len(q) : fits(k)}
            least == CHOOSE k \in 0..Len(q) : fits(k) /\ \A j \in 0..k - 1 : ~fits(j)
<1>0. Len(q) \in Nat /\ MaxEvents \in Nat /\ MaxBytes \in Nat
  BY EventsAssumption
<1>1. Len(q) \in all
  <2>1. SubSeq(q, Len(q) + 1, Len(q)) = <<>>
    BY <1>0, SubSeqEmpty
  <2>2. fits(Len(q))
    <3>1. Bytes(SubSeq(q, Len(q) + 1, Len(q))) = 0
      BY <2>1, BytesEmpty, Zenon
    <3>2. Len(q) - Len(q) <= MaxEvents /\ 0 <= MaxBytes
      BY <1>0
    <3>. QED
      BY <3>1, <3>2
  <2>. HIDE DEF fits
  <2>. QED
    BY <1>0, <2>2
<1>2. \E k \in 0..Len(q) : fits(k) /\ \A j \in 0..k - 1 : ~fits(j)
  <2>1. all \subseteq Nat /\ all # {}
    BY <1>0, <1>1
  <2>2. PICK k \in all : \A j \in all : k <= j
    BY <2>1, LeastNat
  <2>3. k \in 0..Len(q) /\ fits(k)
    BY <2>2
  <2>4. ASSUME NEW j \in 0..k - 1 PROVE ~fits(j)
    <3>1. j \in 0..Len(q) /\ ~(k <= j)
      BY <1>0, <2>3
    <3>. QED
      BY <2>2, <3>1
  <2>. QED
    BY <2>3, <2>4
<1>3. least \in 0..Len(q) /\ Len(q) - least <= MaxEvents
  <2>. HIDE DEF fits
  <2>1. least \in 0..Len(q) /\ fits(least)
    BY <1>2
  <2>. QED
    BY <2>1 DEF fits
<1>4. Trim(q) = SubSeq(q, least + 1, Len(q))
  BY DEF Trim
<1>. HIDE DEF least
<1>. QED
  BY <1>3, <1>4, Cut

-----------------------------------------------------------------------------
(* The line. *)

\* The socket takes a part of the queue, nothing once nobody reads it.
LEMMA Sending ==
    ASSUME Line, NEW q \in Seq(Event), Len(q) <= MaxEvents, Increasing(q),
           Before(Numbers(socket), Numbers(q))
    PROVE  LET s == socket \o SubSeq(q, 1, Taken(q)) IN
           /\ s \in Seq(Event) /\ Len(s) <= SocketCap
           /\ Rest(q) \in Seq(Event) /\ Len(Rest(q)) <= MaxEvents
           /\ Increasing(s) /\ Increasing(Rest(q)) /\ Before(Numbers(s), Numbers(Rest(q)))
           /\ Numbers(s) \cup Numbers(Rest(q)) = Numbers(socket) \cup Numbers(q)
           /\ reader = "ended" => s = <<>> /\ Numbers(Rest(q)) = Numbers(q)
<1>. DEFINE h == SubSeq(q, 1, Taken(q))
            s == socket \o h
<1>0. /\ socket \in Seq(Event) /\ Len(socket) <= SocketCap /\ SocketCap \in Nat
      /\ Len(socket) \in Nat /\ Len(q) \in Nat /\ reader \in {"reading", "ended"}
      /\ MaxEvents \in Nat
  BY EventsAssumption DEF Line, LineType
<1>1. /\ Taken(q) \in 0..Len(q) /\ Len(socket) + Taken(q) <= SocketCap
      /\ reader = "ended" => Taken(q) = 0
  <2>1. CASE reader = "ended"
    BY <1>0, <2>1 DEF Taken
  <2>2. CASE reader # "ended" /\ SocketCap - Len(socket) < Len(q)
    BY <1>0, <2>2 DEF Taken
  <2>3. CASE reader # "ended" /\ ~(SocketCap - Len(socket) < Len(q))
    BY <1>0, <2>3 DEF Taken
  <2>. QED
    BY <2>1, <2>2, <2>3
<1>2. /\ h \in Seq(Event) /\ Rest(q) \in Seq(Event) /\ Len(h) = Taken(q)
      /\ Len(Rest(q)) = Len(q) - Taken(q) /\ Numbers(q) = Numbers(h) \cup Numbers(Rest(q))
      /\ Increasing(h) /\ Increasing(Rest(q)) /\ Before(Numbers(h), Numbers(Rest(q)))
  BY <1>1, Cut DEF Rest
<1>3. CASE reader = "ended"
  <2>1. socket = <<>> /\ Taken(q) = 0
    BY <1>1, <1>3 DEF Line, Ends
  <2>2. h = <<>>
    BY <2>1
  <2>3. s = <<>>
    BY <2>1, <2>2
  <2>4. Numbers(<<>>) = {} /\ Increasing(<<>>) /\ Len(<<>>) = 0 /\ <<>> \in Seq(Event)
    BY DEF Numbers, Increasing
  <2>. HIDE DEF h, s
  <2>5. Numbers(Rest(q)) = Numbers(q) /\ Numbers(socket) = {} /\ Numbers(s) = {}
    BY <1>2, <2>1, <2>2, <2>3, <2>4
  <2>6. Before(Numbers(s), Numbers(Rest(q)))
    BY <2>5 DEF Before
  <2>7. Len(Rest(q)) <= MaxEvents /\ Len(s) <= SocketCap
    BY <1>0, <1>1, <1>2, <2>3, <2>4
  <2>. QED
    BY <1>2, <2>3, <2>4, <2>5, <2>6, <2>7 DEF s, h
<1>4. CASE reader # "ended"
  <2>. HIDE DEF h
  <2>1. Before(Numbers(socket), Numbers(h)) /\ Before(Numbers(socket), Numbers(Rest(q)))
    BY <1>2 DEF Before
  <2>2. Increasing(socket)
    BY DEF Line, Order
  <2>3. /\ s \in Seq(Event) /\ Len(s) = Len(socket) + Len(h)
        /\ Numbers(s) = Numbers(socket) \cup Numbers(h) /\ Increasing(s)
    BY <1>0, <1>2, <2>1, <2>2, Join
  <2>. HIDE DEF s
  <2>4. Before(Numbers(s), Numbers(Rest(q)))
    BY <1>2, <2>1, <2>3 DEF Before
  <2>5. Len(s) <= SocketCap /\ Len(Rest(q)) <= MaxEvents
    BY <1>0, <1>1, <1>2, <2>3
  <2>. QED
    BY <1>2, <1>4, <2>3, <2>4, <2>5 DEF s, h
<1>. QED
  BY <1>3, <1>4

\* An event that is added to what is pending comes after everything.
LEMMA Queued ==
    ASSUME Line, NEW seq \in Nat, sent <= seq, seq < MaxNext, NEW size \in 1..MaxEvent
    PROVE  LET all == Append(pending, [seq |-> seq, size |-> size]) IN
           /\ Trim(all) \in Seq(Event) /\ Len(Trim(all)) <= MaxEvents /\ Increasing(Trim(all))
           /\ Numbers(Trim(all)) \subseteq Numbers(all)
           /\ Numbers(all) = Numbers(pending) \cup {seq}
           /\ Before(Numbers(socket), Numbers(Trim(all)))
<1>. DEFINE e == [seq |-> seq, size |-> size]
            all == Append(pending, e)
<1>0. /\ pending \in Seq(Event) /\ Increasing(pending) /\ sent \in Nat /\ MaxNext \in Nat
      /\ Before(Numbers(socket), Numbers(pending))
      /\ \A n \in Numbers(socket) \cup Numbers(pending) : n \in Nat /\ n < sent
  <2>1. \A q \in Seq(Event) : \A n \in Numbers(q) : n \in Nat
    <3>. SUFFICES ASSUME NEW q \in Seq(Event), NEW i \in 1..Len(q) PROVE q[i].seq \in Nat
      BY DEF Numbers
    <3>1. q[i] \in Event
      OBVIOUS
    <3>. QED
      BY <3>1, EventsAssumption DEF Event
  <2>. QED
    BY <2>1, EventsAssumption DEF Line, LineType, Order
<1>1. e \in Event /\ e.seq = seq
  BY <1>0 DEF Event
<1>2. Before(Numbers(pending), {seq}) /\ Before(Numbers(socket), {seq})
  BY <1>0 DEF Before
<1>. HIDE DEF e
<1>3. all \in Seq(Event) /\ Numbers(all) = Numbers(pending) \cup {seq} /\ Increasing(all)
  BY <1>0, <1>1, <1>2, Added
<1>. HIDE DEF all
<1>4. /\ Trim(all) \in Seq(Event) /\ Len(Trim(all)) <= MaxEvents /\ Increasing(Trim(all))
      /\ Numbers(Trim(all)) \subseteq Numbers(all)
  BY <1>3, Trimmed
<1>5. Before(Numbers(socket), Numbers(Trim(all)))
  BY <1>0, <1>2, <1>3, <1>4 DEF Before
<1>. QED
  BY <1>3, <1>4, <1>5 DEF all, e

\* What the steps of the line leave to the receivers: the history only moves on.
Onward ==
    /\ UNCHANGED <<cursor, start, seen, missed, ended>>
    /\ next \in Nat /\ next' \in Nat /\ next <= next' /\ dropped \subseteq dropped'
    /\ closed => closed' /\ next' = next

\* The queue q goes to the socket, to what is pending, or is dropped; so was lost before.
Carried(q, lost) ==
    /\ socket' \in Seq(Event) /\ Len(socket') <= SocketCap /\ Increasing(socket')
    /\ pending' \in Seq(Event) /\ Len(pending') <= MaxEvents /\ Increasing(pending')
    /\ Before(Numbers(socket'), Numbers(pending'))
    /\ Numbers(socket') \cup Numbers(pending') \subseteq Numbers(socket) \cup Numbers(q)
    /\ lost \subseteq dropped' /\ dropped' \subseteq lost \cup Numbers(q)
    /\ Numbers(socket) \cup Numbers(q) \subseteq Numbers(socket') \cup Numbers(pending') \cup dropped'
    /\ reader = "ended" => socket' = <<>>

\* The numbers of a queue are numbers, and those of the empty one none.
LEMMA QueueNumbers ==
    /\ \A q \in Seq(Event) : Numbers(q) \subseteq 0..MaxNext
    /\ Numbers(<<>>) = {} /\ <<>> \in Seq(Event) /\ Increasing(<<>>) /\ Len(<<>>) = 0
    /\ MaxEvents \in Nat /\ MaxNext \in Nat /\ SocketCap \in Nat
<1>1. ASSUME NEW q \in Seq(Event), NEW i \in 1..Len(q) PROVE q[i].seq \in 0..MaxNext
  <2>1. q[i] \in Event
    OBVIOUS
  <2>. QED
    BY <2>1 DEF Event
<1>2. \A q \in Seq(Event) : Numbers(q) \subseteq 0..MaxNext
  BY <1>1 DEF Numbers
<1>. QED
  BY <1>2, EventsAssumption DEF Numbers, Increasing

\* Sender::flush carries the whole queue.
LEMMA Flushed ==
    ASSUME Line, NEW q \in Seq(Event), Len(q) <= MaxEvents, Increasing(q),
           Before(Numbers(socket), Numbers(q)), NEW lost,
           socket' = socket \o SubSeq(q, 1, Taken(q)),
           \/ pending' = <<>> /\ dropped' = lost \cup Numbers(Rest(q))
           \/ reader # "ended" /\ pending' = Rest(q) /\ dropped' = lost
    PROVE  Carried(q, lost)
<1>. DEFINE s == socket \o SubSeq(q, 1, Taken(q))
<1>1. /\ s \in Seq(Event) /\ Len(s) <= SocketCap
      /\ Rest(q) \in Seq(Event) /\ Len(Rest(q)) <= MaxEvents
      /\ Increasing(s) /\ Increasing(Rest(q)) /\ Before(Numbers(s), Numbers(Rest(q)))
      /\ Numbers(s) \cup Numbers(Rest(q)) = Numbers(socket) \cup Numbers(q)
      /\ reader = "ended" => s = <<>>
  BY Sending
<1>2. socket' = s
  OBVIOUS
<1>. HIDE DEF s
<1>3. CASE pending' = <<>> /\ dropped' = lost \cup Numbers(Rest(q))
  <2>1. /\ Numbers(pending') = {} /\ pending' \in Seq(Event) /\ Increasing(pending')
        /\ Len(pending') <= MaxEvents
    BY <1>3, QueueNumbers
  <2>2. Numbers(Rest(q)) \subseteq Numbers(q)
    <3>1. Taken(q) \in 0..Len(q)
      <4>1. Len(socket) \in Nat /\ Len(socket) <= SocketCap /\ reader \in {"reading", "ended"}
        BY DEF Line, LineType
      <4>. QED
        BY <4>1, QueueNumbers DEF Taken
    <3>. QED
      BY <3>1, Cut DEF Rest
  <2>3. Before(Numbers(socket'), Numbers(pending'))
    BY <2>1 DEF Before
  <2>. QED
    BY <1>1, <1>2, <1>3, <2>1, <2>2, <2>3 DEF Carried
<1>4. CASE reader # "ended" /\ pending' = Rest(q) /\ dropped' = lost
  BY <1>1, <1>2, <1>4 DEF Carried
<1>. QED
  BY <1>3, <1>4

\* Carrying what is pending, with the numbers given out by the step, keeps the line.
LEMMA CarriedLine ==
    ASSUME Line, worker = "up", NEW q \in Seq(Event), NEW lost, Carried(q, lost),
           UNCHANGED <<done, reader, entries, next, closed, cursor, start, seen, missed, ended>>,
           sent' \in Nat, sent <= sent', sent' <= MaxNext,
           \A n \in Numbers(q) : n \in Numbers(pending) \/ (n \in Nat /\ sent <= n /\ n < sent'),
           \A n \in Nat : sent <= n /\ n < sent' => n \in Numbers(q) \cup lost,
           Numbers(pending) \subseteq Numbers(q) \cup lost,
           dropped \subseteq lost, lost \subseteq 0..MaxNext,
           worker' \in {"up", "gone"}, worker' = "gone" => pending' = <<>>,
           told' = -1 \/ (told' = sent' /\ worker' = "gone")
    PROVE  Line' /\ Onward
<1>. USE DEF Line
<1>0. /\ sent \in Nat /\ next \in Nat /\ next <= sent /\ ~closed
      /\ pending \in Seq(Event) /\ socket \in Seq(Event)
      /\ \A n \in Numbers(socket) \cup Numbers(pending) : n \in Nat /\ n < sent /\ next <= n
  <2>1. next \in Nat /\ sent \in Nat /\ ~closed /\ pending \in Seq(Event) /\ socket \in Seq(Event)
    BY DEF LineType, Ends
  <2>2. Numbers(socket) \subseteq 0..MaxNext /\ Numbers(pending) \subseteq 0..MaxNext
    BY <2>1, QueueNumbers
  <2>. QED
    BY <2>1, <2>2, QueueNumbers DEF Order
<1>1. LineType'
  <2>1. told' \in Int
    OBVIOUS
  <2>2. dropped' \subseteq 0..MaxNext
    BY QueueNumbers DEF Carried
  <2>. QED
    BY <2>1, <2>2 DEF LineType, Carried
<1>2. Order'
  <2>1. \A n \in Numbers(socket') \cup Numbers(pending') : n < sent' /\ next <= n
    <3>1. ASSUME NEW n \in Numbers(socket) \cup Numbers(q) PROVE n < sent' /\ next <= n
      <4>1. CASE n \in Numbers(socket) \cup Numbers(pending)
        <5>1. n \in Nat /\ n < sent /\ next <= n
          BY <1>0, <4>1
        <5>. QED
          BY <1>0, <5>1
      <4>2. CASE n \in Nat /\ sent <= n /\ n < sent'
        BY <1>0, <4>2
      <4>. QED
        BY <3>1, <4>1, <4>2
    <3>. QED
      BY <3>1 DEF Carried
  <2>2. next' <= sent' /\ \A n \in Numbers(entries') : n < next'
    BY <1>0 DEF Order
  <2>. QED
    BY <2>1, <2>2 DEF Order, Carried
<1>3. Placed'
  <2>. SUFFICES ASSUME NEW n \in Nat, n < sent'
                PROVE  n \in Numbers(pending') \cup Numbers(socket') \cup Numbers(entries') \cup dropped'
    BY DEF Placed
  <2>1. CASE n < sent
    BY <2>1 DEF Placed, Carried
  <2>2. CASE ~(n < sent)
    <3>1. sent <= n
      BY <1>0, <2>2
    <3>. QED
      BY <3>1 DEF Carried
  <2>. QED
    BY <2>1, <2>2
<1>4. Ends'
  BY <1>0 DEF Ends, Carried
<1>5. Onward
  BY <1>0 DEF Onward, Carried
<1>. QED
  BY <1>1, <1>2, <1>3, <1>4, <1>5

\* Sender::emit, with the numbers of what the notifications omitted.
LEMMA EmitStep ==
    ASSUME Line, NEW omitted \in 0..1, NEW size \in 1..MaxEvent, Emit(omitted, size)
    PROVE  Line' /\ Onward
<1>. DEFINE seq  == sent + omitted
            all  == Append(pending, [seq |-> seq, size |-> size])
            kept == Trim(all)
            lost == dropped \cup sent..seq - 1 \cup (Numbers(all) \ Numbers(kept))
<1>0. /\ worker = "up" /\ seq < MaxNext /\ sent' = seq + 1 /\ FlushOf(kept, lost)
      /\ UNCHANGED <<worker, told, done, reader, entries, next, closed, cursor, start, seen,
                     missed, ended>>
  BY DEF Emit, Numbered, thread, history, receivers
<1>1. /\ sent \in Nat /\ seq \in Nat /\ sent <= seq /\ MaxNext \in Nat /\ told = -1
      /\ dropped \subseteq 0..MaxNext /\ pending \in Seq(Event)
  BY <1>0, QueueNumbers DEF Line, LineType, Ends
<1>2. sent' \in Nat /\ sent <= sent' /\ sent' <= MaxNext
  <2>1. seq + 1 \in Nat /\ sent <= seq + 1 /\ seq + 1 <= MaxNext
    BY <1>0, <1>1
  <2>. QED
    BY <1>0, <2>1
<1>3. /\ kept \in Seq(Event) /\ Len(kept) <= MaxEvents /\ Increasing(kept)
      /\ Numbers(kept) \subseteq Numbers(all) /\ Numbers(all) = Numbers(pending) \cup {seq}
      /\ Before(Numbers(socket), Numbers(kept))
  <2>. HIDE DEF seq
  <2>. QED
    BY <1>0, <1>1, Queued
<1>4. lost \subseteq 0..MaxNext
  <2>1. Numbers(pending) \subseteq 0..MaxNext
    BY <1>1, QueueNumbers
  <2>2. sent..seq - 1 \subseteq 0..MaxNext /\ seq \in 0..MaxNext
    BY <1>0, <1>1
  <2>. HIDE DEF all, kept, seq
  <2>. QED
    BY <1>1, <1>3, <2>1, <2>2
<1>5. \A n \in Nat : sent <= n /\ n < sent' => n \in sent..seq - 1 \cup {seq}
  BY <1>0, <1>1
<1>. HIDE DEF all, kept
<1>6. Carried(kept, lost)
  <2>. HIDE DEF lost
  <2>1. /\ socket' = socket \o SubSeq(kept, 1, Taken(kept))
        /\ \/ pending' = <<>> /\ dropped' = lost \cup Numbers(Rest(kept))
           \/ reader # "ended" /\ pending' = Rest(kept) /\ dropped' = lost
    BY <1>0 DEF FlushOf
  <2>. QED
    BY <1>3, <2>1, Flushed
<1>7. \A n \in Numbers(kept) : n \in Numbers(pending) \/ (n \in Nat /\ sent <= n /\ n < sent')
  BY <1>0, <1>1, <1>3
<1>8. /\ \A n \in Nat : sent <= n /\ n < sent' => n \in Numbers(kept) \cup lost
      /\ Numbers(pending) \subseteq Numbers(kept) \cup lost /\ dropped \subseteq lost
  <2>. HIDE DEF seq
  <2>. QED
    BY <1>3, <1>5
<1>. HIDE DEF lost, seq
<1>. QED
  BY <1>0, <1>1, <1>2, <1>3, <1>4, <1>6, <1>7, <1>8, CarriedLine

\* Sender::flush of what was left.
LEMMA FlushStep ==
    ASSUME Line, Flush
    PROVE  Line' /\ Onward
<1>0. /\ worker = "up" /\ FlushOf(pending, dropped)
      /\ UNCHANGED <<worker, sent, told, done, reader, entries, next, closed, cursor, start, seen,
                     missed, ended>>
  BY DEF Flush, thread, history, receivers
<1>1. /\ sent \in Nat /\ sent <= MaxNext /\ told = -1 /\ dropped \subseteq 0..MaxNext
      /\ pending \in Seq(Event) /\ Len(pending) <= MaxEvents /\ Increasing(pending)
      /\ Before(Numbers(socket), Numbers(pending))
  BY <1>0 DEF Line, LineType, Order, Ends
<1>2. Carried(pending, dropped)
  <2>1. /\ socket' = socket \o SubSeq(pending, 1, Taken(pending))
        /\ \/ pending' = <<>> /\ dropped' = dropped \cup Numbers(Rest(pending))
           \/ reader # "ended" /\ pending' = Rest(pending) /\ dropped' = dropped
    BY <1>0 DEF FlushOf
  <2>. QED
    BY <1>1, <2>1, Flushed
<1>3. sent' \in Nat /\ sent <= sent' /\ sent' <= MaxNext /\ \A n \in Nat : ~(sent <= n /\ n < sent')
  BY <1>0, <1>1
<1>. QED
  BY <1>0, <1>1, <1>2, <1>3, CarriedLine

\* The last status and the result: what the socket does not take is lost.
LEMMA FinishStep ==
    ASSUME Line, NEW size \in 1..MaxEvent, Finish(size)
    PROVE  Line' /\ Onward
<1>. DEFINE all  == Append(pending, [seq |-> sent, size |-> size])
            kept == Trim(all)
            lost == dropped \cup (Numbers(all) \ Numbers(kept))
<1>0. /\ worker = "up" /\ worker' = "gone" /\ sent < MaxNext /\ sent' = sent + 1
      /\ told' = IF done THEN told ELSE sent + 1
      /\ socket' = socket \o SubSeq(kept, 1, Taken(kept)) /\ pending' = <<>>
      /\ dropped' = lost \cup Numbers(Rest(kept))
      /\ UNCHANGED <<done, reader, entries, next, closed, cursor, start, seen, missed, ended>>
  BY DEF Finish, Count, thread, history, receivers
<1>1. /\ sent \in Nat /\ sent <= sent /\ MaxNext \in Nat /\ told = -1
      /\ dropped \subseteq 0..MaxNext /\ pending \in Seq(Event)
  BY <1>0, QueueNumbers DEF Line, LineType, Ends
<1>2. sent' \in Nat /\ sent <= sent' /\ sent' <= MaxNext
  <2>1. sent + 1 \in Nat /\ sent <= sent + 1 /\ sent + 1 <= MaxNext
    BY <1>0, <1>1
  <2>. QED
    BY <1>0, <2>1
<1>3. /\ kept \in Seq(Event) /\ Len(kept) <= MaxEvents /\ Increasing(kept)
      /\ Numbers(kept) \subseteq Numbers(all) /\ Numbers(all) = Numbers(pending) \cup {sent}
      /\ Before(Numbers(socket), Numbers(kept))
  BY <1>0, <1>1, Queued
<1>4. lost \subseteq 0..MaxNext
  <2>1. Numbers(pending) \subseteq 0..MaxNext /\ sent \in 0..MaxNext
    BY <1>0, <1>1, QueueNumbers
  <2>. HIDE DEF all, kept
  <2>. QED
    BY <1>1, <1>3, <2>1
<1>5. \A n \in Nat : sent <= n /\ n < sent' => n = sent
  BY <1>0, <1>1
<1>. HIDE DEF all, kept
<1>6. Carried(kept, lost)
  <2>. HIDE DEF lost
  <2>. QED
    BY <1>0, <1>3, Flushed
<1>7. \A n \in Numbers(kept) : n \in Numbers(pending) \/ (n \in Nat /\ sent <= n /\ n < sent')
  BY <1>0, <1>1, <1>3
<1>8. /\ \A n \in Nat : sent <= n /\ n < sent' => n \in Numbers(kept) \cup lost
      /\ Numbers(pending) \subseteq Numbers(kept) \cup lost /\ dropped \subseteq lost
  BY <1>3, <1>5
<1>9. told' = -1 \/ told' = sent'
  BY <1>0, <1>1
<1>. HIDE DEF lost
<1>. QED
  BY <1>0, <1>1, <1>2, <1>3, <1>4, <1>6, <1>7, <1>8, <1>9, CarriedLine

\* A lost worker takes what was pending with it.
LEMMA LostStep ==
    ASSUME Line, Lost
    PROVE  Line' /\ Onward
<1>0. /\ worker = "up" /\ worker' = "gone" /\ pending' = <<>>
      /\ dropped' = dropped \cup Numbers(pending)
      /\ UNCHANGED <<sent, told, socket, done, reader, entries, next, closed, cursor, start, seen,
                     missed, ended>>
  BY DEF Lost, thread, history, receivers
<1>1. /\ sent \in Nat /\ sent <= MaxNext /\ told = -1 /\ dropped \subseteq 0..MaxNext
      /\ pending \in Seq(Event) /\ socket \in Seq(Event) /\ Len(socket) <= SocketCap
      /\ Increasing(socket) /\ (reader = "ended" => socket = <<>>)
  BY <1>0 DEF Line, LineType, Order, Ends
<1>2. Carried(pending, dropped)
  <2>1. Numbers(pending') = {} /\ Len(pending') <= MaxEvents /\ Increasing(pending')
        /\ pending' \in Seq(Event)
    BY <1>0, QueueNumbers
  <2>2. Before(Numbers(socket'), Numbers(pending'))
    BY <2>1 DEF Before
  <2>. QED
    BY <1>0, <1>1, <2>1, <2>2 DEF Carried
<1>3. sent' \in Nat /\ sent <= sent' /\ sent' <= MaxNext /\ \A n \in Nat : ~(sent <= n /\ n < sent')
  BY <1>0, <1>1
<1>. QED
  BY <1>0, <1>1, <1>2, <1>3, CarriedLine

\* EventHistory::push: the number is new, for the line is in order.
LEMMA PushStep ==
    ASSUME Line, Push
    PROVE  Line' /\ Onward
<1>. USE DEF Line
<1>. DEFINE e   == Head(socket)
            all == Append(entries, e)
<1>0. /\ reader = "reading" /\ socket # <<>> /\ socket' = Tail(socket)
      /\ UNCHANGED <<worker, pending, sent, told, done, reader, cursor, start, seen, missed, ended>>
  BY DEF Push, sender, thread
<1>1. /\ e \in Event /\ Tail(socket) \in Seq(Event) /\ Len(Tail(socket)) < Len(socket)
      /\ Numbers(socket) = {e.seq} \cup Numbers(Tail(socket))
      /\ Increasing(Tail(socket)) /\ Before({e.seq}, Numbers(Tail(socket)))
  BY <1>0, Taking DEF LineType, Order
<1>2. /\ ~closed /\ next <= e.seq /\ e.seq < sent /\ e.seq \in Nat /\ next \in Nat /\ sent \in Nat
      /\ sent <= MaxNext /\ entries \in Seq(Event) /\ MaxNext \in Nat
      /\ dropped \subseteq 0..MaxNext
  <2>1. ~closed
    BY <1>0 DEF Ends
  <2>2. e.seq \in Numbers(socket) /\ e.seq \in 0..MaxNext
    BY <1>1 DEF Event
  <2>. QED
    BY <2>1, <2>2, QueueNumbers DEF Order, LineType
<1>3. /\ next' = e.seq + 1 /\ entries' = Trim(all)
      /\ dropped' = dropped \cup (Numbers(all) \ Numbers(entries')) /\ closed' = closed
  <2>1. ~(e.seq < next \/ closed)
    BY <1>2
  <2>. QED
    BY <2>1 DEF Push
<1>4. all \in Seq(Event) /\ Numbers(all) = Numbers(entries) \cup {e.seq}
  BY <1>1, <1>2, Added
<1>. HIDE DEF all, e
<1>5. /\ entries' \in Seq(Event) /\ Len(entries') <= MaxEvents
      /\ Numbers(entries') \subseteq Numbers(entries) \cup {e.seq}
      /\ Numbers(entries) \cup {e.seq} \cup dropped = Numbers(entries') \cup dropped'
  BY <1>3, <1>4, Trimmed
<1>6. Numbers(entries) \subseteq 0..MaxNext /\ Numbers(Tail(socket)) \subseteq 0..MaxNext
  BY <1>1, <1>2, QueueNumbers
<1>7. next' \in Nat /\ next < next' /\ next' <= sent /\ e.seq < next'
  <2>1. e.seq + 1 \in Nat /\ next < e.seq + 1 /\ e.seq + 1 <= sent /\ e.seq < e.seq + 1
    BY <1>2
  <2>. QED
    BY <1>3, <2>1
<1>8. LineType'
  <2>1. dropped' \subseteq 0..MaxNext
    <3>1. e.seq \in 0..MaxNext
      BY <1>2
    <3>. QED
      BY <1>2, <1>3, <1>4, <1>6, <3>1
  <2>2. Len(socket') <= SocketCap
    <3>1. Len(Tail(socket)) \in Nat /\ Len(socket) \in Nat /\ Len(socket) <= SocketCap
      BY <1>1 DEF LineType
    <3>2. Len(Tail(socket)) <= SocketCap
      BY <1>1, <3>1, QueueNumbers
    <3>. QED
      BY <1>0, <3>2
  <2>. QED
    BY <1>0, <1>1, <1>3, <1>5, <1>7, <2>1, <2>2 DEF LineType
<1>9. Order'
  <2>1. \A n \in Numbers(Tail(socket)) \cup Numbers(pending) : e.seq < n /\ n \in Nat
    <3>1. Numbers(pending) \subseteq 0..MaxNext
      BY QueueNumbers DEF LineType
    <3>2. Before({e.seq}, Numbers(pending))
      BY <1>1 DEF Order, Before
    <3>. QED
      BY <1>1, <1>2, <1>6, <3>1, <3>2 DEF Before
  <2>2. \A n \in Numbers(Tail(socket)) \cup Numbers(pending) : next' <= n
    <3>1. \A n \in Nat : e.seq < n => e.seq + 1 <= n
      BY <1>2
    <3>. QED
      BY <1>3, <2>1, <3>1
  <2>3. \A n \in Numbers(entries') : n < next'
    <3>1. \A n \in Numbers(entries) : n \in Nat /\ n < next
      BY <1>2, <1>6 DEF Order
    <3>2. \A n \in Numbers(entries) : n < next'
      BY <1>2, <1>7, <3>1
    <3>. QED
      BY <1>5, <1>7, <3>2
  <2>4. Before(Numbers(Tail(socket)), Numbers(pending))
    BY <1>1 DEF Order, Before
  <2>. QED
    BY <1>0, <1>1, <1>7, <2>2, <2>3, <2>4 DEF Order
<1>10. Placed'
  BY <1>0, <1>1, <1>5 DEF Placed
<1>11. Ends'
  BY <1>0, <1>2, <1>3 DEF Ends
<1>12. Onward
  BY <1>0, <1>2, <1>3, <1>7 DEF Onward
<1>. QED
  BY <1>8, <1>9, <1>10, <1>11, <1>12

\* The threads of the caller end, and the history is closed after them.
LEMMA EndStep ==
    ASSUME Line, ResultEnds \/ ReaderEnds \/ ReaderFails \/ Close
    PROVE  Line' /\ Onward
<1>. USE DEF Line
<1>0. /\ UNCHANGED <<worker, pending, sent, told, entries, cursor, start, seen, missed, ended>>
      /\ reader' \in {"reading", "ended"} /\ done' \in BOOLEAN
      /\ next \in Nat /\ sent \in Nat /\ next <= sent /\ MaxNext \in Nat
      /\ socket \in Seq(Event)
  BY QueueNumbers
     DEF ResultEnds, ReaderEnds, ReaderFails, Close, sender, thread, history, receivers,
         LineType, Order
<1>1. CASE ResultEnds \/ ReaderEnds
  <2>1. UNCHANGED <<socket, next, closed, dropped>>
    BY <1>1 DEF ResultEnds, ReaderEnds, history
  <2>2. reader' = reader \/ (reader' = "ended" /\ socket = <<>>)
    BY <1>1 DEF ResultEnds, ReaderEnds
  <2>3. LineType' /\ Order' /\ Placed'
    BY <1>0, <2>1 DEF LineType, Order, Placed
  <2>4. Ends'
    BY <1>0, <2>1, <2>2 DEF Ends
  <2>. QED
    BY <1>0, <2>1, <2>3, <2>4 DEF Onward
<1>2. CASE ReaderFails
  <2>1. /\ socket' = <<>> /\ reader' = "ended" /\ dropped' = dropped \cup Numbers(socket)
        /\ UNCHANGED <<next, closed>>
    BY <1>2 DEF ReaderFails, history
  <2>2. Numbers(socket') = {} /\ socket' \in Seq(Event) /\ Increasing(socket') /\ Len(socket') = 0
    BY <2>1, QueueNumbers
  <2>3. Numbers(socket) \subseteq 0..MaxNext
    BY <1>0, QueueNumbers
  <2>4. LineType'
    <3>0. 0 <= SocketCap
      BY EventsAssumption
    <3>1. dropped' \subseteq 0..MaxNext
      BY <2>1, <2>3 DEF LineType
    <3>2. Len(socket') <= SocketCap
      BY <2>2, <3>0
    <3>. QED
      BY <1>0, <2>1, <2>2, <3>1, <3>2 DEF LineType
  <2>5. Order'
    BY <1>0, <2>1, <2>2 DEF Order, Before
  <2>6. Placed' /\ Ends'
    BY <1>0, <2>1, <2>2 DEF Placed, Ends
  <2>. QED
    BY <1>0, <2>1, <2>4, <2>5, <2>6 DEF Onward
<1>3. CASE Close
  <2>1. /\ reader = "ended" /\ worker = "gone" /\ ~closed /\ closed' = TRUE
        /\ UNCHANGED <<socket, reader, dropped>>
        /\ next' = IF told > next THEN told ELSE next
    BY <1>3 DEF Close, thread, NextAfterClose
  <2>2. next' \in Nat /\ next <= next' /\ next' <= sent /\ (told # -1 => next' = sent)
    <3>1. told \in Int /\ (told # -1 => told = sent)
      BY DEF LineType, Ends
    <3>. QED
      BY <1>0, <2>1, <3>1
  <2>3. LineType'
    BY <1>0, <2>1, <2>2 DEF LineType
  <2>4. Order'
    <3>1. \A n \in Numbers(entries) : n \in Nat /\ n < next
      BY QueueNumbers DEF LineType, Order
    <3>2. \A n \in Numbers(entries) : n < next'
      BY <1>0, <2>2, <3>1
    <3>. QED
      BY <1>0, <2>1, <2>2, <3>2 DEF Order
  <2>5. Placed' /\ Ends'
    BY <1>0, <2>1, <2>2 DEF Placed, Ends
  <2>. QED
    BY <1>0, <2>1, <2>2, <2>3, <2>4, <2>5 DEF Onward
<1>. QED
  BY <1>1, <1>2, <1>3

-----------------------------------------------------------------------------
(* The receivers. *)

\* Every part of the invariant that is a receiver's own.
Accounts == ReceiverType /\ \A r \in Receivers : Account(r)

\* A history that moves on changes no account.
LEMMA AccountsStay ==
    ASSUME Accounts, Onward
    PROVE  Accounts'
<1>1. ReceiverType'
  BY DEF Accounts, Onward, ReceiverType
<1>2. ASSUME NEW r \in Receivers PROVE Account(r)'
  <2>1. Account(r) /\ cursor[r] \in Nat
    BY DEF Accounts, ReceiverType
  <2>2. cursor[r] <= next'
    BY <2>1 DEF Onward, Account
  <2>. QED
    BY <2>1, <2>2 DEF Account, Onward
<1>. QED
  BY <1>1, <1>2 DEF Accounts

\* A number the history has passed and does not have was dropped.
LEMMA Skipped ==
    ASSUME Line, NEW n \in Nat, n < next, n \notin Numbers(entries)
    PROVE  n \in dropped
<1>1. /\ next \in Nat /\ sent \in Nat /\ next <= sent
      /\ Numbers(socket) \subseteq 0..MaxNext /\ Numbers(pending) \subseteq 0..MaxNext
  BY QueueNumbers DEF Line, LineType, Order
<1>2. n \notin Numbers(socket) \cup Numbers(pending)
  <2>1. CASE closed
    <3>1. socket = <<>> /\ pending = <<>>
      BY <2>1 DEF Line, Ends
    <3>. QED
      BY <3>1, QueueNumbers
  <2>2. CASE ~closed
    BY <1>1, <2>2 DEF Line, Order
  <2>. QED
    BY <2>1, <2>2
<1>. QED
  BY <1>1, <1>2 DEF Line, Placed

\* The first number ahead of a receiver.
LEMMA FirstAhead ==
    ASSUME Line, NEW r \in Receivers, cursor[r] \in Nat, Ahead(r) # {}
    PROVE  /\ First(r) \in Numbers(entries) /\ First(r) \in Nat
           /\ cursor[r] <= First(r) /\ First(r) < next
           /\ \A n \in Nat : cursor[r] <= n /\ n < First(r) => n \notin Numbers(entries)
<1>1. Numbers(entries) \subseteq Nat
  BY QueueNumbers DEF Line, LineType
<1>2. \E n \in Ahead(r) : \A k \in Ahead(r) : n <= k
  <2>1. Ahead(r) \subseteq Nat
    BY <1>1 DEF Ahead
  <2>. HIDE DEF Ahead
  <2>. QED
    BY <2>1, LeastNat
<1>3. First(r) \in Ahead(r) /\ \A k \in Ahead(r) : First(r) <= k
  BY <1>2 DEF First
<1>4. First(r) \in Numbers(entries) /\ First(r) \in Nat /\ First(r) >= cursor[r]
  BY <1>1, <1>3 DEF Ahead
<1>5. First(r) < next
  BY <1>4 DEF Line, Order
<1>6. ASSUME NEW n \in Nat, cursor[r] <= n, n < First(r), n \in Numbers(entries) PROVE FALSE
  <2>1. n \in Ahead(r)
    BY <1>6 DEF Ahead
  <2>. QED
    BY <1>3, <1>4, <1>6, <2>1
<1>. QED
  BY <1>4, <1>5, <1>6

\* Running::events: a receiver starts at the end of the history.
LEMMA SubscribeStep ==
    ASSUME Line, Accounts, NEW r \in Receivers, Subscribe(r)
    PROVE  Accounts'
<1>0. /\ start[r] = -1 /\ start' = [start EXCEPT ![r] = next]
      /\ cursor' = [cursor EXCEPT ![r] = next]
      /\ UNCHANGED <<next, closed, dropped, seen, missed, ended>> /\ next \in Nat
  BY DEF Subscribe, history, Line, LineType
<1>1. ReceiverType'
  BY <1>0 DEF Accounts, ReceiverType
<1>2. ASSUME NEW s \in Receivers, s # r PROVE Account(s)'
  <2>1. Account(s) /\ cursor'[s] = cursor[s] /\ start'[s] = start[s]
    BY <1>0, <1>2 DEF Accounts, ReceiverType
  <2>. QED
    BY <1>0, <2>1 DEF Account
<1>3. Account(r)'
  <2>1. cursor'[r] = next /\ start'[r] = next /\ ~ended[r] /\ seen[r] = {} /\ missed[r] = 0
    BY <1>0 DEF Accounts, ReceiverType, Account
  <2>2. IsFiniteSet({}) /\ Cardinality({}) = 0
    BY FS_EmptySet
  <2>3. Cardinality(seen'[r]) + missed'[r] = cursor'[r] - start'[r]
    BY <1>0, <2>1, <2>2
  <2>. QED
    BY <1>0, <2>1, <2>2, <2>3 DEF Account
<1>. QED
  BY <1>1, <1>2, <1>3 DEF Accounts

\* Receive::poll: the event the receiver is at, or what it has missed, or the end.
LEMMA ReceiveStep ==
    ASSUME Line, Accounts, NEW r \in Receivers, Receive(r)
    PROVE  Accounts'
<1>0. /\ start[r] # -1 /\ ~ended[r] /\ UNCHANGED <<next, closed, start, dropped>>
      /\ next \in Nat /\ cursor[r] \in Nat /\ missed[r] \in Nat /\ Account(r) /\ start[r] \in Nat
      /\ start[r] <= cursor[r] /\ cursor[r] <= next
  BY DEF Receive, history, Line, LineType, Accounts, ReceiverType, Account
<1>1. /\ \A n \in seen[r] : start[r] <= n /\ n < cursor[r]
      /\ seen[r] \subseteq Nat /\ IsFiniteSet(seen[r]) /\ Cardinality(seen[r]) \in Nat
      /\ Cardinality(seen[r]) + missed[r] = cursor[r] - start[r]
      /\ \A n \in Nat : start[r] <= n /\ n < cursor[r] => n \in seen[r] \cup dropped
  BY <1>0, FS_CardinalityType DEF Account, Accounts, ReceiverType
<1>2. ASSUME NEW to \in Nat, NEW more \in Nat, NEW given \in SUBSET Nat, NEW end \in BOOLEAN,
             cursor' = [cursor EXCEPT ![r] = to], seen' = [seen EXCEPT ![r] = given],
             missed' = [missed EXCEPT ![r] = more], ended' = [ended EXCEPT ![r] = end],
             start[r] <= to, to <= next, \A n \in given : start[r] <= n /\ n < to,
             IsFiniteSet(given), Cardinality(given) + more = to - start[r],
             \A n \in Nat : start[r] <= n /\ n < to => n \in given \cup dropped,
             end => closed /\ to = next
      PROVE  Accounts'
  <2>1. ReceiverType'
    BY <1>0, <1>2 DEF Accounts, ReceiverType
  <2>2. ASSUME NEW s \in Receivers, s # r PROVE Account(s)'
    <3>1. /\ Account(s) /\ cursor'[s] = cursor[s] /\ seen'[s] = seen[s] /\ missed'[s] = missed[s]
          /\ ended'[s] = ended[s]
      BY <1>2, <2>2 DEF Accounts, ReceiverType
    <3>. QED
      BY <1>0, <3>1 DEF Account
  <2>3. cursor'[r] = to /\ seen'[r] = given /\ missed'[r] = more /\ ended'[r] = end
    BY <1>2 DEF Accounts, ReceiverType
  <2>4. Account(r)'
    BY <1>0, <1>2, <2>3 DEF Account
  <2>. QED
    BY <2>1, <2>2, <2>4 DEF Accounts
<1>3. CASE Gives(r)
  <2>. DEFINE to == cursor[r] + 1
              given == seen[r] \cup {cursor[r]}
  <2>1. Ahead(r) # {} /\ First(r) = cursor[r]
    BY <1>3 DEF Gives
  <2>2. cursor[r] < next
    BY <1>0, <2>1, FirstAhead
  <2>3. /\ cursor' = [cursor EXCEPT ![r] = to] /\ seen' = [seen EXCEPT ![r] = given]
        /\ missed' = [missed EXCEPT ![r] = missed[r]] /\ ended' = [ended EXCEPT ![r] = FALSE]
    <3>1. cursor' = [cursor EXCEPT ![r] = First(r) + 1]
          /\ seen' = [seen EXCEPT ![r] = @ \cup {First(r)}] /\ UNCHANGED <<missed, ended>>
      BY <1>3 DEF Receive
    <3>. QED
      BY <1>0, <2>1, <3>1 DEF Accounts, ReceiverType
  <2>4. cursor[r] \notin seen[r]
    BY <1>0, <1>1
  <2>5. IsFiniteSet(given) /\ Cardinality(given) = Cardinality(seen[r]) + 1
    BY <1>1, <2>4, FS_AddElement
  <2>6. /\ to \in Nat /\ given \in SUBSET Nat /\ start[r] <= to /\ to <= next
        /\ Cardinality(seen[r]) + 1 + missed[r] = to - start[r]
    BY <1>0, <1>1, <2>2
  <2>7. \A n \in given : start[r] <= n /\ n < to
    BY <1>0, <1>1
  <2>8. \A n \in Nat : start[r] <= n /\ n < to => n \in given \cup dropped
    <3>1. \A n \in Nat : n < to => n < cursor[r] \/ n = cursor[r]
      BY <1>0
    <3>. QED
      BY <1>1, <3>1
  <2>. HIDE DEF to, given
  <2>. QED
    BY <1>0, <1>2, <2>3, <2>5, <2>6, <2>7, <2>8
<1>4. CASE ~Gives(r) /\ ~Level(r)
  <2>. DEFINE to == Resumes(r)
              more == missed[r] + to - cursor[r]
  <2>1. /\ to \in Nat /\ cursor[r] <= to /\ to <= next
        /\ \A n \in Nat : cursor[r] <= n /\ n < to => n \notin Numbers(entries)
    <3>1. CASE Ahead(r) # {}
      <4>1. to = First(r)
        BY <3>1 DEF Resumes
      <4>2. /\ First(r) \in Nat /\ cursor[r] <= First(r) /\ First(r) < next
            /\ \A n \in Nat : cursor[r] <= n /\ n < First(r) => n \notin Numbers(entries)
        BY <1>0, <3>1, FirstAhead
      <4>. QED
        BY <1>0, <4>1, <4>2
    <3>2. CASE Ahead(r) = {}
      <4>1. to = next /\ ~(next <= cursor[r])
        BY <1>4, <3>2 DEF Resumes, Level
      <4>2. \A n \in Nat : cursor[r] <= n => n \notin Numbers(entries)
        BY <1>0, <3>2 DEF Ahead
      <4>. QED
        BY <1>0, <4>1, <4>2
    <3>. QED
      BY <3>1, <3>2
  <2>2. /\ cursor' = [cursor EXCEPT ![r] = to] /\ seen' = [seen EXCEPT ![r] = seen[r]]
        /\ missed' = [missed EXCEPT ![r] = more] /\ ended' = [ended EXCEPT ![r] = FALSE]
    <3>1. /\ cursor' = [cursor EXCEPT ![r] = Resumes(r)]
          /\ missed' = [missed EXCEPT ![r] = @ + Resumes(r) - cursor[r]] /\ UNCHANGED <<seen, ended>>
      BY <1>4 DEF Receive
    <3>. QED
      BY <1>0, <3>1 DEF Accounts, ReceiverType
  <2>. HIDE DEF to
  <2>3. ASSUME NEW n \in Nat, start[r] <= n, n < to PROVE n \in seen[r] \cup dropped
    <3>1. CASE n < cursor[r]
      BY <1>1, <2>3, <3>1
    <3>2. CASE ~(n < cursor[r])
      <4>1. n \notin Numbers(entries) /\ n < next
        BY <1>0, <2>1, <2>3, <3>2
      <4>. QED
        BY <4>1, Skipped
    <3>. QED
      BY <3>1, <3>2
  <2>4. /\ more \in Nat /\ Cardinality(seen[r]) + more = to - start[r] /\ start[r] <= to
        /\ \A n \in seen[r] : start[r] <= n /\ n < to
    BY <1>0, <1>1, <2>1
  <2>. HIDE DEF more
  <2>. QED
    BY <1>0, <1>1, <1>2, <2>1, <2>2, <2>3, <2>4
<1>5. CASE ~Gives(r) /\ Level(r)
  <2>1. /\ cursor' = [cursor EXCEPT ![r] = cursor[r]] /\ seen' = [seen EXCEPT ![r] = seen[r]]
        /\ missed' = [missed EXCEPT ![r] = missed[r]] /\ ended' = [ended EXCEPT ![r] = closed]
    <3>1. ended' = [ended EXCEPT ![r] = closed] /\ UNCHANGED <<cursor, seen, missed>>
      BY <1>5 DEF Receive
    <3>. QED
      BY <1>0, <3>1 DEF Accounts, ReceiverType
  <2>2. closed \in BOOLEAN /\ cursor[r] = next
    BY <1>0, <1>5 DEF Level, Line, LineType
  <2>. QED
    BY <1>0, <1>1, <1>2, <2>1, <2>2
<1>. QED
  BY <1>3, <1>4, <1>5

\* Every step keeps the invariant.
LEMMA LossStep == LossInv /\ [Next]_vars => LossInv'
<1>. SUFFICES ASSUME LossInv, [Next]_vars
              PROVE  LossInv'
  OBVIOUS
<1>. USE DEF LossInv
<1>0. Line /\ Accounts /\ Waiting'
  BY WaitingStep DEF Accounts
<1>1. ASSUME Line', Onward PROVE LossInv'
  <2>1. Accounts'
    BY <1>0, <1>1, AccountsStay
  <2>. QED
    BY <1>0, <1>1, <2>1 DEF Accounts
<1>2. ASSUME UNCHANGED <<sender, socket, thread, history, dropped>>, Accounts' PROVE LossInv'
  <2>1. Line'
    BY <1>0, <1>2 DEF Line, LineType, Order, Placed, Ends, sender, thread, history
  <2>. QED
    BY <1>0, <1>2, <2>1 DEF Accounts
<1>3. ASSUME NEW omitted \in 0..1, NEW size \in 1..MaxEvent, Emit(omitted, size)
      PROVE  LossInv'
  BY <1>0, <1>1, <1>3, EmitStep
<1>4. ASSUME NEW size \in 1..MaxEvent, Finish(size)
      PROVE  LossInv'
  BY <1>0, <1>1, <1>4, FinishStep
<1>5. CASE Flush
  BY <1>0, <1>1, <1>5, FlushStep
<1>6. CASE Lost
  BY <1>0, <1>1, <1>6, LostStep
<1>7. CASE Push
  BY <1>0, <1>1, <1>7, PushStep
<1>8. CASE ResultEnds \/ ReaderEnds \/ ReaderFails \/ Close
  BY <1>0, <1>1, <1>8, EndStep
<1>9. ASSUME NEW r \in Receivers, Subscribe(r)
      PROVE  LossInv'
  <2>1. Accounts'
    BY <1>0, <1>9, SubscribeStep
  <2>. QED
    BY <1>2, <1>9, <2>1 DEF Subscribe
<1>10. ASSUME NEW r \in Receivers, Cancel(r)
       PROVE  LossInv'
  <2>1. Accounts'
    BY <1>0, <1>10 DEF Cancel, history, Accounts, ReceiverType, Account
  <2>. QED
    BY <1>2, <1>10, <2>1 DEF Cancel
<1>11. ASSUME NEW r \in Receivers, Receive(r)
       PROVE  LossInv'
  <2>1. Accounts'
    BY <1>0, <1>11, ReceiveStep
  <2>. QED
    BY <1>2, <1>11, <2>1 DEF Receive
<1>12. CASE UNCHANGED vars
  <2>1. UNCHANGED <<sender, socket, thread, history, dropped>> /\ UNCHANGED receivers
    BY <1>12 DEF vars
  <2>2. Accounts'
    BY <1>0, <2>1 DEF receivers, history, Accounts, ReceiverType, Account
  <2>. QED
    BY <1>2, <2>1, <2>2
<1>. QED
  BY <1>3, <1>4, <1>5, <1>6, <1>7, <1>8, <1>9, <1>10, <1>11, <1>12 DEF Next

\* The history starts empty, and no receiver has started.
LEMMA LossInit == Init => LossInv
<1>. SUFFICES ASSUME Init PROVE LossInv
  OBVIOUS
<1>1. Waiting
  BY DEF Init, Waiting, NoLostWakeup
<1>2. Numbers(<<>>) = {} /\ <<>> \in Seq(Event) /\ Increasing(<<>>) /\ Len(<<>>) = 0
  BY QueueNumbers
<1>3. MaxEvents \in Nat /\ MaxNext \in Nat /\ SocketCap \in Nat
  BY QueueNumbers
<1>4. LineType
  <2>1. Len(<<>>) <= MaxEvents /\ Len(<<>>) <= SocketCap /\ 0 <= MaxNext
    BY <1>2, <1>3
  <2>2. /\ pending = <<>> /\ socket = <<>> /\ entries = <<>> /\ dropped = {}
        /\ worker = "up" /\ reader = "reading" /\ done = FALSE /\ closed = FALSE
        /\ sent = 0 /\ told = -1 /\ next = 0
    BY DEF Init
  <2>3. /\ sent \in Nat /\ sent <= MaxNext /\ told \in Int /\ next \in Nat
    BY <2>1, <2>2
  <2>. QED
    BY <1>2, <2>1, <2>2, <2>3 DEF LineType
<1>5. Order
  BY <1>2 DEF Init, Order, Before
<1>6. Placed /\ Ends
  BY <1>2 DEF Init, Placed, Ends
<1>7. ReceiverType
  BY DEF Init, ReceiverType
<1>8. \A r \in Receivers : Account(r)
  BY DEF Init, Account
<1>. QED
  BY <1>1, <1>4, <1>5, <1>6, <1>7, <1>8 DEF LossInv, Line

\* The accounts hold what the receivers are told to be exact.
LEMMA LossesExact == LossInv => LossesTold
<1>. SUFFICES ASSUME LossInv PROVE LossesTold
  OBVIOUS
<1>0. Line /\ ReceiverType /\ (\A r \in Receivers : Account(r)) /\ Waiting
  BY DEF LossInv
<1>1. /\ next \in Nat /\ sent \in Nat /\ next <= sent /\ sent <= MaxNext /\ MaxNext \in Nat
      /\ told \in Int /\ (told # -1 => told = sent)
  BY <1>0, QueueNumbers DEF Line, LineType, Order, Ends
<1>2. ASSUME NEW r \in Receivers
      PROVE  /\ cursor[r] \in 0..MaxNext + 1 /\ start[r] \in -1..MaxNext + 1
             /\ seen[r] \in SUBSET (0..MaxNext) /\ missed[r] \in 0..MaxNext + 1
  <2>1. Account(r) /\ cursor[r] \in Nat /\ missed[r] \in Nat /\ start[r] \in Int /\ seen[r] \subseteq Nat
    BY <1>0 DEF ReceiverType
  <2>2. cursor[r] <= next
    BY <2>1 DEF Account
  <2>3. CASE start[r] = -1
    BY <1>1, <2>1, <2>2, <2>3 DEF Account
  <2>4. CASE start[r] # -1
    <3>1. /\ start[r] \in Nat /\ start[r] <= cursor[r]
          /\ \A n \in seen[r] : start[r] <= n /\ n < cursor[r]
          /\ Cardinality(seen[r]) \in Nat
          /\ Cardinality(seen[r]) + missed[r] = cursor[r] - start[r]
      BY <2>1, <2>4, FS_CardinalityType DEF Account
    <3>2. missed[r] <= cursor[r]
      BY <2>1, <3>1
    <3>3. \A n \in seen[r] : n \in 0..MaxNext
      BY <1>1, <2>1, <2>2, <3>1
    <3>. QED
      BY <1>1, <2>1, <2>2, <3>1, <3>2, <3>3
  <2>. QED
    BY <2>3, <2>4
<1>3. TypeOK
  <2>1. /\ sent \in 0..MaxNext + 1 /\ told \in -1..MaxNext + 1 /\ next \in 0..MaxNext + 1
    BY <1>1
  <2>2. /\ cursor \in [Receivers -> 0..MaxNext + 1] /\ start \in [Receivers -> -1..MaxNext + 1]
        /\ seen \in [Receivers -> SUBSET (0..MaxNext)] /\ missed \in [Receivers -> 0..MaxNext + 1]
    BY <1>0, <1>2 DEF ReceiverType
  <2>. QED
    BY <1>0, <2>1, <2>2 DEF TypeOK, Line, LineType, ReceiverType, Waiting
<1>4. NoFalseLoss
  <2>. SUFFICES ASSUME NEW r \in Receivers, start[r] # -1, NEW n \in start[r]..cursor[r] - 1
                PROVE  n \in seen[r] \cup dropped
    BY DEF NoFalseLoss
  <2>1. Account(r) /\ cursor[r] \in Nat
    BY <1>0 DEF ReceiverType
  <2>2. start[r] \in Nat /\ \A k \in Nat : start[r] <= k /\ k < cursor[r] => k \in seen[r] \cup dropped
    BY <2>1 DEF Account
  <2>3. n \in Nat /\ start[r] <= n /\ n < cursor[r]
    BY <2>1, <2>2
  <2>. QED
    BY <2>2, <2>3
<1>5. AllAccounted
  <2>. SUFFICES ASSUME NEW r \in Receivers, ended[r], told # -1
                PROVE  Cardinality(seen[r]) + missed[r] = sent - start[r]
    BY DEF AllAccounted
  <2>1. Account(r)
    BY <1>0
  <2>2. closed /\ cursor[r] = next /\ start[r] # -1
    BY <2>1 DEF Account
  <2>3. next = sent
    BY <1>0, <2>2 DEF Line, Ends
  <2>. QED
    BY <2>1, <2>2, <2>3 DEF Account
<1>. QED
  BY <1>3, <1>4, <1>5 DEF LossesTold

\* What a receiver is told of its losses is exactly what was lost, whatever the receivers,
\* the limits of the queue, the socket and the history, and the moment at which the reader
\* fails, the worker ends or the history is closed: Lagged tells only of numbers that were
\* dropped, and a receiver that was told Closed after the worker told its count has been
\* given or told of every number since its start.
THEOREM LossesAreTold == Spec => []LossesTold
<1>. QED
  BY LossInit, LossStep, LossesExact, PTL DEF Spec

=============================================================================
