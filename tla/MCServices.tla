------------------------------ MODULE MCServices ------------------------------
(***************************************************************************)
(* What comes about in the end: the notifications (extended), the DNS      *)
(* runtime, the front of connections, the exchange with the upstreams, the *)
(* messages, the handle and the events, beside one another on instances    *)
(* small enough for liveness.  A behaviour moves the part that `part'      *)
(* names; each property assumes the fairness its own part justifies.       *)
(***************************************************************************)
EXTENDS Notifications

CONSTANTS Peers

VARIABLES
    part,
    pc, file, text, next, generation, running, pool, nextId, left, cache, held, workers,
    inflight, adoption, adopting, retired, tasks, stopping, faulted, asked, client,
    phase, peers, order, connection, steps, query, quiet, idle, lost,
    now, cancelled, tls, whole, index, at, transport, until, queries, read, disposition,
    received, result, log, late,
    stream, posted, rest, arrived, header, fds, body, poster, taker, watch, truncated,
    status, settled, requested, waiters, next_waiter, control, stops, receipt, spawn, settler,
    waking, registration, polled, future, awake, blocked,
    worker, pending, sent, socket, counted, done, reader, entries, following, closed, cursor,
    waits, start, seen, missed, ended, dropped

runtimeVars  == <<pc, file, text, next, generation, running, pool, nextId, left, cache, held,
                  workers, inflight, adoption, adopting, retired, tasks, stopping, faulted,
                  asked, client>>
frontVars    == <<phase, peers, order, connection, steps, query, quiet, idle, lost>>
exchangeVars == <<now, cancelled, tls, whole, index, at, transport, until, queries, read,
                  disposition, received, result, log, late>>
messageVars  == <<stream, posted, rest, arrived, header, fds, body, poster, taker, watch,
                  truncated>>
handleVars   == <<status, settled, requested, waiters, next_waiter, control, stops, receipt,
                  spawn, settler, waking, registration, polled, future, awake, blocked>>
eventVars    == <<worker, pending, sent, socket, counted, done, reader, entries, following,
                  closed, cursor, waits, start, seen, missed, ended, dropped>>

Runtime == INSTANCE DnsRuntime WITH
    Clients <- {"c1", "c2"}, Names <- {"n1"}, Refused <- "refused", MaxId <- 1,
    MaxResolutions <- 1, MaxWaiters <- 2, MaxKept <- 1, Timeout <- 1, FailureHold <- 1,
    Ttls <- {1}, FollowInterval <- 2, MaxChanges <- 1, Panics <- FALSE

Connections == INSTANCE DnsFront WITH
    MaxId <- 2, MaxConnections <- 2, IoTimeout <- 2, Timeout <- 1, StepsPerPoll <- 1,
    FrameParts <- 2, ReplyParts <- 2, PollGap <- 1, pc <- phase, nextId <- connection

Exchange == INSTANCE DnsExchange WITH
    ServerTimeout <- 2, Timeout <- 3, MaxQueries <- 2, Wholes <- BOOLEAN, pc <- at,
    reply <- disposition

Message == INSTANCE Messages WITH
    Sizes <- 1 .. 2, Counts <- {0, 2}, MAX_MESSAGE <- 2, MAX_FDS <- 2, MaxMessages <- 2,
    Capacity <- 2,
    sent <- posted, left <- rest, received <- arrived, sender <- poster, receiver <- taker

Handle == INSTANCE RunningHandle WITH
    Futures <- {"f1"}, Tasks <- {"t1", "t2"}, Threads <- {"h1", "h2"}, Callers <- {"c1"},
    outcome <- settled, sent <- stops, reaper <- settler, thread <- blocked

Event == INSTANCE Events WITH
    Receivers <- {"r1"}, MaxEvents <- 2, MaxBytes <- 3, MaxEvent <- 2, SocketCap <- 1,
    MaxNext <- 3, told <- counted, next <- following

MCInit ==
    /\ part \in {"notifications", "runtime", "front", "exchange", "messages", "handle", "events"}
    /\ part = "exchange" \/ (tls = FALSE /\ whole = FALSE)
    /\ Init /\ Runtime!Init /\ Connections!Init /\ Exchange!Init /\ Message!Init /\ Handle!Init
    /\ Event!Init

allVars == <<vars, runtimeVars, frontVars, exchangeVars, messageVars, handleVars, eventVars>>

MCNext ==
    \/ /\ part = "notifications" /\ Next
       /\ UNCHANGED <<part, runtimeVars, frontVars, exchangeVars, messageVars,
                      handleVars, eventVars>>
    \/ /\ part = "runtime" /\ Runtime!Next
       /\ UNCHANGED <<part, vars, frontVars, exchangeVars, messageVars, handleVars,
                      eventVars>>
    \/ /\ part = "front" /\ Connections!Next
       /\ UNCHANGED <<part, vars, runtimeVars, exchangeVars, messageVars, handleVars,
                      eventVars>>
    \/ /\ part = "exchange" /\ Exchange!Next
       /\ UNCHANGED <<part, vars, runtimeVars, frontVars, messageVars, handleVars,
                      eventVars>>
    \/ /\ part = "messages" /\ Message!Next
       /\ UNCHANGED <<part, vars, runtimeVars, frontVars, exchangeVars, handleVars,
                      eventVars>>
    \/ /\ part = "handle" /\ Handle!Next
       /\ UNCHANGED <<part, vars, runtimeVars, frontVars, exchangeVars, messageVars,
                      eventVars>>
    \/ /\ part = "events" /\ Event!Next
       /\ UNCHANGED <<part, vars, runtimeVars, frontVars, exchangeVars, messageVars,
                      handleVars>>

MCSpec == MCInit /\ [][MCNext]_<<part, allVars>>

-----------------------------------------------------------------------------
\* DnsRuntime, DnsFront, DnsExchange: while the runtime serves every query is answered and a
\* change of the settings takes effect, once it is stopped its threads are collected; a client
\* that stops gives up its place; an exchange ends although no upstream answers.
Serves ==
    /\ part = "runtime" => Runtime!Serves
    /\ part = "front" => Connections!SlotFreed
    /\ part = "exchange" => Exchange!ExchangeEnds

\* Notifications, Messages, RunningHandle, Events: the state comes to be shown and the reader is
\* not misled; a transfer ends once a watch fires and what was begun arrives; a thread in wait
\* comes back; every receiver that goes on reading comes to Closed.
ToldInTheEnd ==
    /\ StateShown
    /\ part = "messages" => Message!TransferEnds
    /\ part = "handle" => Handle!WaitReturns
    /\ part = "events" => Event!ClosedReached

-----------------------------------------------------------------------------
MCPeers == <<"p", "q">>
==============================================================================
