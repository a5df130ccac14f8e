------------------------------- MODULE Events -------------------------------
(***************************************************************************)
(* The events of a run of the library (kakoi-runtime, events.rs): the      *)
(* worker's Sender, the socket, the thread of the caller that reads it     *)
(* (preparation/mod.rs), the bounded EventHistory and its receivers.       *)
(*                                                                         *)
(* An event is its number and its size; the size is one after the          *)
(* truncation of its text.  The byte counters of the code are the sums of  *)
(* the sizes here.                                                         *)
(***************************************************************************)
EXTENDS Integers, Sequences, FiniteSets, SequencesExt

CONSTANTS
    Receivers,  \* the Events values the caller may create
    MaxEvents,  \* MAX_EVENTS, of the sender and of the history
    MaxBytes,   \* MAX_BYTES
    MaxEvent,   \* MAX_EVENT
    SocketCap,  \* datagrams the socket takes
    MaxNext     \* bound: numbers the sender gives out

ASSUME EventsAssumption ==
    /\ MaxEvents \in Nat \ {0} /\ MaxBytes \in Nat /\ MaxEvent \in 1..MaxBytes
    /\ SocketCap \in Nat \ {0} /\ MaxNext \in Nat

VARIABLES
    worker,     \* "up" or "gone"
    pending,    \* Sender: pending
    sent,       \* Sender: next
    socket,     \* datagrams under way
    told,       \* the number sent with the result, -1 without one
    done,       \* reap: done
    reader,     \* the thread kakoi-events: "reading" or "ended"
    entries,    \* History: entries
    next,       \* History: next
    closed,     \* History: closed
    cursor,     \* of every receiver
    waits,      \* its future: "idle", "registered", "woken"
    start,      \* history: its first cursor, -1 before it exists
    seen,       \* history: the numbers it was given
    missed,     \* history: the sum of what Lagged told it
    ended,      \* history: it was told Closed
    dropped     \* history: numbers no history has (any more)

sender    == <<worker, pending, sent, told>>
thread    == <<done, reader>>
history   == <<entries, next, closed>>
receivers == <<cursor, waits, start, seen, missed, ended>>
vars == <<sender, socket, thread, history, receivers, dropped>>

Event == [seq: 0..MaxNext, size: 1..MaxEvent]

Numbers(q) == {q[i].seq : i \in 1..Len(q)}

Bytes(q) == FoldLeft(LAMBDA sum, e : sum + e.size, 0, q)

\* A limit that is checked before the event is added.
TrimLate(q) ==
    LET fits(k) == Len(q) - k <= MaxEvents + 1 /\ Bytes(SubSeq(q, k + 1, Len(q))) <= MaxBytes
        k == CHOOSE k \in 0..Len(q) : fits(k) /\ \A j \in 0..k - 1 : ~fits(j)
    IN  SubSeq(q, k + 1, Len(q))

\* The oldest go first until both limits hold.
Trim(q) ==
    LET fits(k) == Len(q) - k <= MaxEvents /\ Bytes(SubSeq(q, k + 1, Len(q))) <= MaxBytes
        k == CHOOSE k \in 0..Len(q) : fits(k) /\ \A j \in 0..k - 1 : ~fits(j)
    IN  SubSeq(q, k + 1, Len(q))

Init ==
    /\ worker = "up" /\ pending = <<>> /\ sent = 0 /\ told = -1
    /\ socket = <<>> /\ done = FALSE /\ reader = "reading"
    /\ entries = <<>> /\ next = 0 /\ closed = FALSE
    /\ cursor = [r \in Receivers |-> 0] /\ waits = [r \in Receivers |-> "idle"]
    /\ start = [r \in Receivers |-> -1] /\ seen = [r \in Receivers |-> {}]
    /\ missed = [r \in Receivers |-> 0] /\ ended = [r \in Receivers |-> FALSE]
    /\ dropped = {}

-----------------------------------------------------------------------------
(* The worker. *)

\* Sender::flush: how much of q the socket takes.
Taken(q) ==
    LET room == SocketCap - Len(socket)
    IN  CASE reader = "ended" -> 0
          [] reader # "ended" /\ room < Len(q) -> room
          [] OTHER -> Len(q)

Rest(q) == SubSeq(q, Taken(q) + 1, Len(q))

\* Sender::flush of queue q, which keeps nothing once the socket fails.  lost is what was
\* dropped before.
FlushOf(q, lost) ==
    /\ socket' = socket \o SubSeq(q, 1, Taken(q))
    /\ IF reader = "ended"
       THEN pending' = <<>> /\ dropped' = lost \cup Numbers(Rest(q))
       ELSE pending' = Rest(q) /\ dropped' = lost

\* The number of the next event, after those the notifications have omitted.
Numbered(omitted) == sent + omitted

\* Sender::emit, after the worker's loop counted what the notifications omitted.
Emit(omitted, size) ==
    LET seq == Numbered(omitted)
        all == Append(pending, [seq |-> seq, size |-> size])
        kept == Trim(all)
    IN  /\ worker = "up" /\ sent + omitted < MaxNext
        /\ sent' = seq + 1
        /\ FlushOf(kept, dropped \cup sent..seq - 1 \cup (Numbers(all) \ Numbers(kept)))
        /\ UNCHANGED <<worker, told, thread, history, receivers>>

Flush ==
    /\ worker = "up" /\ pending # <<>>
    /\ FlushOf(pending, dropped)
    /\ UNCHANGED <<worker, sent, told, thread, history, receivers>>

\* A result that counts the events before the last status.
CountBeforeStatus == sent

\* Sender::next as it is sent with the result, after the last status.
Count == sent + 1

\* The worker emits its last status, sends its result with the count of its events and
\* exits; what it could not flush is lost, and so is the count if nobody waits for it.
Finish(size) ==
    LET all == Append(pending, [seq |-> sent, size |-> size])
        kept == Trim(all)
    IN  /\ worker = "up" /\ worker' = "gone" /\ sent < MaxNext
        /\ sent' = sent + 1
        /\ told' = IF done THEN told ELSE Count
        /\ socket' = socket \o SubSeq(kept, 1, Taken(kept)) /\ pending' = <<>>
        /\ dropped' = dropped \cup (Numbers(all) \ Numbers(kept)) \cup Numbers(Rest(kept))
    /\ UNCHANGED <<thread, history, receivers>>

\* The worker is lost without a result.
Lost ==
    /\ worker = "up" /\ worker' = "gone"
    /\ dropped' = dropped \cup Numbers(pending) /\ pending' = <<>>
    /\ UNCHANGED <<sent, told, socket, thread, history, receivers>>

-----------------------------------------------------------------------------
(* The caller's threads. *)

\* A notification that forgets the futures.
NotifyBlockingOnly == UNCHANGED waits

\* EventHistory::notify
Notify == waits' = [r \in Receivers |-> IF waits[r] = "registered" THEN "woken" ELSE waits[r]]

\* EventHistory::close with the worker's count, if it came.
NextAfterClose == IF told > next THEN told ELSE next

\* read_events takes one datagram; EventHistory::push.
Push ==
    /\ reader = "reading" /\ socket # <<>>
    /\ socket' = Tail(socket)
    /\ LET e == Head(socket)
           all == Append(entries, e)
       IN  IF e.seq < next \/ closed
           THEN UNCHANGED <<history, waits, dropped>>
           ELSE /\ next' = e.seq + 1
                /\ entries' = Trim(all)
                /\ dropped' = dropped \cup (Numbers(all) \ Numbers(entries'))
                /\ Notify
                /\ UNCHANGED closed
    /\ UNCHANGED <<sender, thread, cursor, start, seen, missed, ended>>

\* The reaper has the result, or has lost the connection to a worker that may go on.
ResultEnds ==
    /\ ~done /\ done' = TRUE
    /\ UNCHANGED <<sender, socket, reader, history, receivers, dropped>>

\* read_events leaves once it was told and nothing is left.
ReaderEnds ==
    /\ reader = "reading" /\ done /\ socket = <<>> /\ reader' = "ended"
    /\ UNCHANGED <<sender, socket, done, history, receivers, dropped>>

\* The socket fails: what was on it is lost.
ReaderFails ==
    /\ reader = "reading" /\ reader' = "ended"
    /\ socket' = <<>> /\ dropped' = dropped \cup Numbers(socket)
    /\ UNCHANGED <<sender, done, history, receivers>>

\* reap: after the reader was joined and the worker reaped.
Close ==
    /\ done /\ reader = "ended" /\ worker = "gone" /\ ~closed
    /\ next' = NextAfterClose /\ closed' = TRUE
    /\ Notify
    /\ UNCHANGED <<sender, socket, thread, entries, cursor, start, seen, missed, ended, dropped>>

-----------------------------------------------------------------------------
(* The receivers. *)

\* Running::events
Subscribe(r) ==
    /\ start[r] = -1
    /\ start' = [start EXCEPT ![r] = next] /\ cursor' = [cursor EXCEPT ![r] = next]
    /\ UNCHANGED <<sender, socket, thread, history, waits, seen, missed, ended, dropped>>

\* The numbers in the history a receiver has not passed.
Ahead(r) == {n \in Numbers(entries) : n >= cursor[r]}

\* The first of them: entries are searched from the oldest.
First(r) == CHOOSE n \in Ahead(r) : \A k \in Ahead(r) : n <= k

\* The receiver has passed all there is.
Level(r) == Ahead(r) = {} /\ next <= cursor[r]

\* read has nothing to say.
Nothing(r) == Level(r) /\ ~closed

\* read finds the very event the receiver is at.
Gives(r) == Ahead(r) # {} /\ First(r) = cursor[r]

\* Where Lagged leads: to the oldest event that is left, or past all there were.
Resumes(r) == IF Ahead(r) # {} THEN First(r) ELSE next

\* A future that is dropped uncompleted takes the event with it.
CancelConsumes(r) ==
    /\ waits[r] # "idle" /\ waits' = [waits EXCEPT ![r] = "idle"]
    /\ cursor' = [cursor EXCEPT ![r] = IF Gives(r) THEN @ + 1 ELSE @]
    /\ UNCHANGED <<sender, socket, thread, history, start, seen, missed, ended, dropped>>

\* Receive is dropped before it was ready: the registration goes, the cursor stays.
Cancel(r) ==
    /\ waits[r] # "idle" /\ waits' = [waits EXCEPT ![r] = "idle"]
    /\ UNCHANGED <<sender, socket, thread, history, cursor, start, seen, missed, ended, dropped>>

\* Receive::poll, or one turn of recv: an event, Lagged, Closed, or a registration.
Receive(r) ==
    /\ start[r] # -1 /\ ~ended[r]
    /\ waits' = [waits EXCEPT ![r] = IF Nothing(r) THEN "registered" ELSE "idle"]
    /\ CASE Gives(r) ->
              /\ cursor' = [cursor EXCEPT ![r] = First(r) + 1]
              /\ seen' = [seen EXCEPT ![r] = @ \cup {First(r)}]
              /\ UNCHANGED <<missed, ended>>
         [] ~Gives(r) /\ ~Level(r) ->
              /\ missed' = [missed EXCEPT ![r] = @ + Resumes(r) - cursor[r]]
              /\ cursor' = [cursor EXCEPT ![r] = Resumes(r)]
              /\ UNCHANGED <<seen, ended>>
         [] OTHER ->
              /\ ended' = [ended EXCEPT ![r] = closed]
              /\ UNCHANGED <<cursor, seen, missed>>
    /\ UNCHANGED <<sender, socket, thread, history, start, dropped>>

Next ==
    \/ \E omitted \in 0..1, size \in 1..MaxEvent : Emit(omitted, size)
    \/ \E size \in 1..MaxEvent : Finish(size)
    \/ Flush \/ Lost \/ Push \/ ResultEnds \/ ReaderEnds \/ ReaderFails \/ Close
    \/ \E r \in Receivers : Subscribe(r) \/ Cancel(r) \/ Receive(r)

Spec == Init /\ [][Next]_vars

\* The threads of the caller run, and a receiver polls a future that is not registered or
\* was woken.  Nothing makes the worker end or the socket empty itself.
Fairness ==
    /\ WF_vars(Push) /\ WF_vars(ResultEnds) /\ WF_vars(ReaderEnds)
    /\ WF_vars(Close)
    /\ \A r \in Receivers : WF_vars(waits[r] # "registered" /\ Receive(r))

-----------------------------------------------------------------------------
(* Properties. *)

TypeOK ==
    /\ worker \in {"up", "gone"} /\ sent \in 0..MaxNext + 1 /\ told \in -1..MaxNext + 1
    /\ pending \in Seq(Event) /\ Len(pending) <= MaxEvents
    /\ socket \in Seq(Event) /\ Len(socket) <= SocketCap
    /\ entries \in Seq(Event) /\ Len(entries) <= MaxEvents
    /\ done \in BOOLEAN /\ reader \in {"reading", "ended"}
    /\ next \in 0..MaxNext + 1 /\ closed \in BOOLEAN
    /\ cursor \in [Receivers -> 0..MaxNext + 1]
    /\ waits \in [Receivers -> {"idle", "registered", "woken"}]
    /\ start \in [Receivers -> -1..MaxNext + 1]
    /\ seen \in [Receivers -> SUBSET (0..MaxNext)]
    /\ missed \in [Receivers -> 0..MaxNext + 1] /\ ended \in [Receivers -> BOOLEAN]
    /\ dropped \subseteq 0..MaxNext

\* Lagged only tells of numbers that no one can be given any more: what a receiver has
\* passed it was given, or it was dropped on its way or by the limits of the history.
NoFalseLoss ==
    \A r \in Receivers : start[r] # -1 =>
        \A n \in start[r]..cursor[r] - 1 : n \in seen[r] \cup dropped

\* A receiver that was told Closed after the worker told its count has accounted for every
\* number since its start, the trailing ones that never left the worker included.
AllAccounted ==
    \A r \in Receivers : ended[r] /\ told # -1 =>
        Cardinality(seen[r]) + missed[r] = sent - start[r]

\* What a receiver is told of its losses is exactly what was lost.
LossesTold == TypeOK /\ NoFalseLoss /\ AllAccounted

\* A future that is registered and was not woken has nothing to return: registration and
\* delivery share the lock.
NoLostWakeup == \A r \in Receivers : waits[r] = "registered" => Nothing(r)

\* Once the worker is gone every receiver that goes on reading comes to Closed, however its
\* futures were registered, woken and dropped before.
ClosedReached ==
    Fairness => \A r \in Receivers : worker = "gone" /\ start[r] # -1 ~> ended[r]

=============================================================================
