----------------------------- MODULE DnsExchange -----------------------------
(***************************************************************************)
(* One question put to the upstreams (kakoi-net/src/dns_transport.rs with  *)
(* control.rs and tls.rs, and the budget of resolution.rs): the candidates *)
(* in order, UDP with a second try over TCP for a truncated answer, or TLS *)
(* throughout, within one candidate's wait, the resolution's limit and its *)
(* count of queries, until an answer, a limit or a cancellation.           *)
(*                                                                         *)
(* A stream's message is two reads, the length and the body.  A reply is   *)
(* known by its disposition, or is not one to this question.               *)
(***************************************************************************)
EXTENDS Naturals, Sequences, SequencesExt, FiniteSetsExt

CONSTANTS
    Peers,          \* the upstreams, in order; one may be listed twice
    ServerTimeout,  \* dns_server_timeout_seconds
    Timeout,        \* the resolution's limit
    MaxQueries,     \* dns_max_upstream_queries
    Wholes          \* UpstreamWait: whether a candidate is waited for up to the limit

VARIABLES
    now, cancelled,
    tls, whole,     \* the upstreams are TLS ones; UpstreamWait::WholeResolution
    index,          \* the candidates gone through
    pc, transport, until,   \* until: the candidate's deadline
    queries,        \* QueryAllowance
    read, reply,    \* parts of a stream read; the disposition of what came
    received, result,
    log,            \* the queries sent, as <<peer, transport>>
    late            \* how many of them after the cancellation

vars == <<now, cancelled, tls, whole, index, pc, transport, until, queries, read, reply, received,
          result, log, late>>

Init ==
    /\ now = 0 /\ cancelled = FALSE /\ tls \in BOOLEAN /\ whole \in Wholes
    /\ index = 0 /\ pc = "next" /\ transport = "udp" /\ until = 0 /\ queries = MaxQueries
    /\ read = 0 /\ reply = "none" /\ received = 0 /\ result = "none" /\ log = <<>> /\ late = 0

\* remaining
Alive == ~cancelled /\ now < until

Peer == Peers[index]

End(r) ==
    /\ pc' = "done" /\ result' = r
    /\ UNCHANGED <<now, cancelled, tls, whole, index, transport, until, queries, read, reply,
                   received, log, late>>

\* This candidate failed: the next one.
GiveUp ==
    /\ pc' = "next"
    /\ UNCHANGED <<now, cancelled, tls, whole, index, transport, until, queries, read, reply,
                   received, result, log, late>>

-----------------------------------------------------------------------------

\* reserve_query: the deadline of a query, for one that is within the limits.
Within == now < Timeout /\ queries > 0

reserve_query == IF whole THEN Timeout ELSE Min({now + ServerTimeout, Timeout})

\* The mutant asks a peer again.
NotAsked(i) == FALSE

Attempted(i) == \E j \in 1 .. i - 1 : Peers[j] = Peers[i]

\* The next candidate of the list, or the end of it.
Candidate ==
    /\ pc = "next"
    /\ \/ index = Len(Peers) /\ End("error")
       \/ /\ index < Len(Peers) /\ Attempted(index + 1) /\ index' = index + 1
          /\ UNCHANGED <<now, cancelled, tls, whole, pc, transport, until, queries, read, reply,
                         received, result, log, late>>
       \/ index < Len(Peers) /\ ~Attempted(index + 1) /\ ~Within /\ End("error")
       \/ /\ index < Len(Peers) /\ ~Attempted(index + 1) /\ Within
          /\ index' = index + 1 /\ queries' = queries - 1 /\ until' = reserve_query
          /\ transport' = IF tls THEN "tls" ELSE "udp"
          /\ pc' = "open" /\ read' = 0 /\ reply' = "none"
          /\ UNCHANGED <<now, cancelled, tls, whole, received, result, log, late>>

\* The mutant checks the time and not the cancellation before it sends.
MaySendLate == now < until

MaySend == Alive

\* The socket is connected and may be written to.
Open ==
    /\ pc = "open" /\ MaySend /\ pc' = "send"
    /\ UNCHANGED <<now, cancelled, tls, whole, index, transport, until, queries, read, reply,
                   received, result, log, late>>

Send ==
    /\ pc = "send" /\ pc' = "await" /\ log' = Append(log, <<Peer, transport>>)
    /\ late' = IF cancelled THEN late + 1 ELSE late
    /\ UNCHANGED <<now, cancelled, tls, whole, index, transport, until, queries, read, reply,
                   received, result>>

\* The socket cannot be connected or written, the handshake fails, the stream ends, or the
\* message of a stream is not a reply to the question.
Breaks == pc \in {"open", "send", "await"} /\ GiveUp

\* The mutant waits for a stream without the deadline.
WaitedFor == {"udp"}

Waited == {"udp", "tcp", "tls"}

\* wait: the time of the candidate is over, or the resolution was cancelled.
Expired == pc \in {"open", "await"} /\ ~Alive /\ transport \in Waited /\ GiveUp

\* udp: a datagram that is a reply to the question; any other is passed over.
Datagram(kind) ==
    /\ pc = "await" /\ transport = "udp" /\ Alive
    /\ reply' = kind /\ received' = now /\ pc' = "check"
    /\ UNCHANGED <<now, cancelled, tls, whole, index, transport, until, queries, read, result, log, late>>

\* read_exact of the length, then of the body.
StreamRead(kind) ==
    /\ pc = "await" /\ transport # "udp" /\ Alive
    /\ IF read = 0 THEN read' = 1 /\ UNCHANGED <<reply, received, pc>>
       ELSE read' = 2 /\ reply' = kind /\ received' = now /\ pc' = "check"
    /\ UNCHANGED <<now, cancelled, tls, whole, index, transport, until, queries, result, log, late>>

\* The mutant takes what came whenever it is done with it.
AnyTime == TRUE

InTime == Alive

\* The mutant gives the second transport a wait of its own.
Renewed == reserve_query

NotRenewed == Min({reserve_query, until})

\* The check after the read, and what follows from the disposition.
Check ==
    /\ pc = "check"
    /\ CASE ~InTime -> GiveUp
         [] InTime /\ reply = "answer" -> End("answer")
         [] InTime /\ reply = "truncated" /\ transport = "udp" ->
              IF now >= until THEN GiveUp
              ELSE IF ~Within THEN End("error")
              ELSE /\ queries' = queries - 1 /\ until' = NotRenewed
                   /\ transport' = "tcp" /\ pc' = "open" /\ read' = 0 /\ reply' = "none"
                   /\ UNCHANGED <<now, cancelled, tls, whole, index, received, result, log, late>>
         [] OTHER -> GiveUp

Cancel ==
    /\ pc # "done" /\ ~cancelled /\ cancelled' = TRUE
    /\ UNCHANGED <<now, tls, whole, index, pc, transport, until, queries, read, reply, received,
                   result, log, late>>

Tick ==
    /\ pc # "done" /\ now <= Timeout /\ now' = now + 1
    /\ UNCHANGED <<cancelled, tls, whole, index, pc, transport, until, queries, read, reply,
                   received, result, log, late>>

Kinds == {"answer", "truncated", "failed"}

Work == Candidate \/ Open \/ Send \/ Expired \/ Check

Next ==
    \/ Work \/ Breaks \/ Cancel \/ Tick
    \/ \E kind \in Kinds : Datagram(kind) \/ StreamRead(kind)

Spec == Init /\ [][Next]_vars

\* Time passes and the thread goes on; no upstream has to answer.
Fairness == WF_vars(Work) /\ WF_vars(Tick)

-----------------------------------------------------------------------------
(* Properties. *)

TypeOK ==
    /\ now \in 0 .. Timeout + 1 /\ until \in 0 .. Timeout /\ queries \in 0 .. MaxQueries
    /\ index \in 0 .. Len(Peers) /\ read \in 0 .. 2
    /\ transport \in {"udp", "tcp", "tls"} /\ result \in {"none", "answer", "error"}
    /\ pc \in {"next", "open", "send", "await", "check", "done"}

\* Each peer is asked once, and once more over TCP after its own truncated datagram; with TLS
\* never over anything else; and no more queries are sent than were allowed (plain_candidates,
\* exchange_upstreams_cancellable, reserve_query).
AskedInOrder ==
    /\ Len(log) + queries <= MaxQueries
    /\ \A i, j \in DOMAIN log : log[i] = log[j] => i = j
    /\ \A i \in DOMAIN log :
         /\ tls <=> log[i][2] = "tls"
         /\ log[i][2] = "tcp" => i > 1 /\ log[i - 1] = <<log[i][1], "udp">>

\* An answer is taken only while its candidate and the resolution had time left, and is what
\* the last query brought (plain, exchange_controlled).
AnsweredInTime ==
    (result' = "answer" /\ result = "none") =>
        /\ now < until /\ until <= Timeout /\ ~cancelled /\ received < until
        /\ Last(log) = <<Peer, transport>>

\* A candidate's wait is not renewed by the change to TCP.
WaitNotRenewed == (index' = index /\ pc = "check" /\ pc' = "open") => until' <= until

\* After the resolution was cancelled only the query that was past its check is sent, whatever
\* candidates are left (remaining at the start of every exchange and wait).
NothingAfterCancel == late <= 1

\* What every step keeps: the exchange holds to its candidates, its allowance and its deadlines.
ExchangeInOrder ==
    AnsweredInTime /\ WaitNotRenewed /\ (TypeOK /\ AskedInOrder /\ NothingAfterCancel)'

\* The exchange comes to an end although no upstream ever answers or every one stops in the
\* middle of a message.
ExchangeEnds == Fairness => <>(pc = "done")
=============================================================================
