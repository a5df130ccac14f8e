------------------------------ MODULE DnsFront ------------------------------
(***************************************************************************)
(* The connections of the DNS listener, crates/kakoi-net/src/dns_front.rs, *)
(* polled by dns_service.rs: a bounded table of TCP peers served in turn,  *)
(* each with one query at a time and a deadline that its reads, its query  *)
(* and its reply set anew.  What a socket returns is a choice.  The name   *)
(* resolution behind it answers at any moment, at its deadline, or, for a  *)
(* frame without a usable header, never.                                   *)
(***************************************************************************)
EXTENDS Integers, FiniteSets, Sequences, SequencesExt

CONSTANTS
    MaxId,              \* the connections of a behaviour
    MaxConnections,     \* max_connections
    IoTimeout,          \* IO_TIMEOUT
    Timeout,            \* resolution_timeout
    StepsPerPoll,       \* 64
    FrameParts,         \* reads a frame takes
    ReplyParts,         \* writes a reply takes
    PollGap             \* the longest time between two polls

VARIABLES
    pc,         \* "idle", or the phase of a poll
    peers,      \* id -> [input, output, pending, left]
    order,      \* the turn of the peers
    nextId,     \* next_id
    steps,      \* stream steps left in this poll
    query,      \* id -> time until the deadline of the resolution it waits for
    quiet,      \* clients that neither write nor read any more
    idle,       \* time since the last poll
    lost        \* connected peers that were refused the answer to their query

vars == <<pc, peers, order, nextId, steps, query, quiet, idle, lost>>

Ids == 1..MaxId
Put(f, x, v) == [y \in DOMAIN f \cup {x} |-> IF y = x THEN v ELSE f[y]]
Keep(f, xs)  == [y \in DOMAIN f \cap xs |-> f[y]]

Init ==
    /\ pc = "idle" /\ peers = <<>> /\ order = <<>> /\ nextId = 1 /\ steps = 0
    /\ query = <<>> /\ quiet = {} /\ idle = 0 /\ lost = {}

-----------------------------------------------------------------------------

\* DnsFront::respond to TCP tokens: the output of each peer that still waits.
Waits(i) == peers[i].pending /\ peers[i].left > 0

Responded(is) ==
    [i \in DOMAIN peers |->
        IF i \in is /\ Waits(i)
        THEN [peers[i] EXCEPT !.output = ReplyParts, !.left = IoTimeout] ELSE peers[i]]

Respond(i) ==
    /\ pc = "idle" /\ i \in DOMAIN query /\ query[i] > 0
    /\ peers' = Responded({i})
    /\ query' = Keep(query, Ids \ {i})
    /\ lost' = lost \cup {j \in {i} \cap DOMAIN peers : ~Waits(j)}
    /\ UNCHANGED <<pc, order, nextId, steps, quiet, idle>>

\* The poll of the service expires resolutions, and the poll of the front drops the peers
\* whose deadline has come, from the table and from the turn.
DroppedFromTable(ps) ==
    LET live == {i \in DOMAIN ps : ps[i].left > 0} IN
    /\ peers' = Keep(ps, live)
    /\ order' = order

DroppedPendingOnly(ps) ==
    LET live == {i \in DOMAIN ps : ps[i].left > 0 \/ ~ps[i].pending} IN
    /\ peers' = Keep(ps, live)
    /\ order' = SelectSeq(order, LAMBDA i : i \in live)

Dropped(ps) ==
    LET live == {i \in DOMAIN ps : ps[i].left > 0} IN
    /\ peers' = Keep(ps, live)
    /\ order' = SelectSeq(order, LAMBDA i : i \in live)

PollBegins ==
    LET due == {i \in DOMAIN query : query[i] = 0} IN
    /\ pc = "idle"
    /\ Dropped(Responded(due))
    /\ query' = Keep(query, Ids \ due)
    /\ lost' = lost \cup {i \in due \cap DOMAIN peers : ~Waits(i)}
    /\ pc' = "accept" /\ idle' = 0
    /\ UNCHANGED <<nextId, steps, quiet>>

\* A connection beyond the limit is accepted and closed at once.
AcceptStream ==
    /\ pc = "accept" /\ nextId <= MaxId /\ Cardinality(DOMAIN peers) # MaxConnections
    /\ peers' = Put(peers, nextId, [input |-> 0, output |-> 0, pending |-> FALSE,
                                    left |-> IoTimeout])
    /\ order' = Append(order, nextId)
    /\ nextId' = nextId + 1
    /\ UNCHANGED <<pc, steps, query, quiet, idle, lost>>

Accepted ==
    /\ pc = "accept"
    /\ pc' = "streams"
    /\ steps' = IF Len(order) < StepsPerPoll THEN Len(order) ELSE StepsPerPoll
    /\ UNCHANGED <<peers, order, nextId, query, quiet, idle, lost>>

\* Peer::step of the peer whose turn it is, one branch for each way it ends.
Turn(i, peer) ==
    /\ peers' = [peers EXCEPT ![i] = peer]
    /\ order' = Append(Tail(order), i)

Gone(i) ==
    /\ peers' = Keep(peers, Ids \ {i})
    /\ order' = Tail(order)
    /\ UNCHANGED query

AfterWrite(peer) ==
    IF peer.output = 1
    THEN [peer EXCEPT !.output = 0, !.pending = FALSE, !.left = IoTimeout]
    ELSE [peer EXCEPT !.output = @ - 1]

Writes(i) ==
    /\ peers[i].output > 0
    /\ \/ i \notin quiet /\ Turn(i, AfterWrite(peers[i])) /\ UNCHANGED query
       \/ Turn(i, peers[i]) /\ UNCHANGED query
       \/ Gone(i)

\* The frame is complete: its peer is kept until a timeout could be answered.
PendingTimeShort == Timeout
PendingTime == Timeout + IoTimeout

Asks(i, input) ==
    /\ Turn(i, [input |-> input - FrameParts, output |-> 0, pending |-> TRUE,
                left |-> PendingTime])
    /\ \/ query' = Put(query, i, Timeout)
       \/ UNCHANGED query           \* no header to answer

Trickles(i, input) == Turn(i, [peers[i] EXCEPT !.input = input]) /\ UNCHANGED query

MayAlwaysRead(peer) == peer.output = 0
MayRead(peer) == peer.output = 0 /\ ~peer.pending

Reads(i) ==
    /\ MayRead(peers[i])
    /\ \/ peers[i].input >= FrameParts /\ Asks(i, peers[i].input)
       \/ /\ peers[i].input < FrameParts
          /\ \/ Gone(i)                                     \* closed, or an empty frame
             \/ Turn(i, peers[i]) /\ UNCHANGED query        \* nothing to read
             \/ /\ i \notin quiet
                /\ \E input \in (peers[i].input + 1)..(FrameParts + 1) :
                      IF input < FrameParts THEN Trickles(i, input) ELSE Asks(i, input)

StepStream ==
    /\ pc = "streams" /\ steps > 0
    /\ steps' = steps - 1
    /\ LET i == Head(order) IN
       \/ Writes(i)
       \/ Reads(i)
       \/ /\ peers[i].pending /\ peers[i].output = 0
          /\ Turn(i, peers[i]) /\ UNCHANGED query
    /\ UNCHANGED <<pc, nextId, quiet, idle, lost>>

PollEnds ==
    /\ pc = "streams" /\ steps = 0
    /\ pc' = "idle"
    /\ UNCHANGED <<peers, order, nextId, steps, query, quiet, idle, lost>>

\* A client stops for good, without closing its connection.
FallsQuiet(i) ==
    /\ i \in DOMAIN peers \ quiet
    /\ quiet' = quiet \cup {i}
    /\ UNCHANGED <<pc, peers, order, nextId, steps, query, idle, lost>>

Less(t) == IF t > 0 THEN t - 1 ELSE 0

Tick ==
    /\ pc = "idle" /\ idle < PollGap
    /\ idle' = idle + 1
    /\ peers' = [i \in DOMAIN peers |-> [peers[i] EXCEPT !.left = Less(@)]]
    /\ query' = [i \in DOMAIN query |-> Less(query[i])]
    /\ UNCHANGED <<pc, order, nextId, steps, quiet, lost>>

Poll == PollBegins \/ AcceptStream \/ Accepted \/ StepStream \/ PollEnds

Next ==
    \/ Poll \/ Tick
    \/ \E i \in Ids : Respond(i) \/ FallsQuiet(i)

Spec == Init /\ [][Next]_vars

\* The supervisor polls, and the clock moves while it does not.
Fairness == WF_vars(PollBegins \/ Accepted \/ StepStream \/ PollEnds) /\ SF_vars(Tick)

-----------------------------------------------------------------------------

TypeOK ==
    /\ pc \in {"idle", "accept", "streams"}
    /\ DOMAIN peers \subseteq Ids /\ DOMAIN query \subseteq Ids
    /\ \A i \in DOMAIN peers :
          peers[i] \in [input : 0..(FrameParts + 1), output : 0..ReplyParts, pending : BOOLEAN,
                        left : 0..(Timeout + IoTimeout)]
    /\ order \in Seq(Ids) /\ nextId \in 1..(MaxId + 1) /\ steps \in 0..StepsPerPoll
    /\ \A i \in DOMAIN query : query[i] \in 0..Timeout
    /\ quiet \subseteq Ids /\ lost \subseteq Ids /\ idle \in 0..PollGap

\* The turn lists each connected peer once: step_streams takes as many turns as there are
\* and expects a live peer at each ("queue contains live peers").
OrderIsPeers == ToSet(order) = DOMAIN peers /\ IsInjective(order)

\* An answer is never refused to a peer that is still connected, not even the SERVFAIL of
\* a resolution that took all its time ("Keep the transport long enough to write a timeout
\* SERVFAIL"), when polls are less than IO_TIMEOUT apart.
NoAnswerLost == lost = {}

\* While the query of a peer is being resolved, nothing more is read from it or written to
\* it: replies cannot overtake one another nor meet a second query of the connection.
OneAtATime ==
    \A i \in DOMAIN query \cap DOMAIN query' \cap DOMAIN peers \cap DOMAIN peers' :
        peers'[i].input = peers[i].input /\ peers'[i].output = 0

\* What every step keeps: the front loses no answer, mixes no two queries of a connection, and its turns are those of
\* the peers.
FrontKeepsAnswers == OneAtATime /\ (TypeOK /\ OrderIsPeers /\ NoAnswerLost)'

\* A client that stops cannot hold its place in the table, in whatever phase it stops.
SlotFreed == Fairness => \A i \in Ids : i \in quiet ~> i \notin DOMAIN peers
=============================================================================
