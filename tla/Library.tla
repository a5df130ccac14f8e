------------------------------- MODULE Library -------------------------------
(***************************************************************************)
(* Two parts of the library beside one another: the handle the caller of a *)
(* run holds, and the messages between the processes.                      *)
(***************************************************************************)
EXTENDS Naturals, FiniteSets

CONSTANTS
    Futures, Tasks, Threads, Callers,
    Sizes, Counts, MAX_MESSAGE, MAX_FDS, MaxMessages, Capacity

ASSUME LibraryAssumption ==
    /\ IsFiniteSet(Futures) /\ Sizes \subseteq Nat /\ Counts \subseteq Nat
    /\ {MAX_MESSAGE, MAX_FDS, MaxMessages, Capacity} \subseteq Nat

VARIABLES
    status, settled, requested, waiters, next_waiter, control, stops, receipt, spawn, settler,
    waking, registration, polled, future, awake, blocked,
    stream, posted, rest, arrived, header, fds, body, poster, taker, watch, truncated

handleVars  == <<status, settled, requested, waiters, next_waiter, control, stops, receipt,
                 spawn, settler, waking, registration, polled, future, awake, blocked>>
messageVars == <<stream, posted, rest, arrived, header, fds, body, poster, taker, watch,
                 truncated>>

Handle == INSTANCE RunningHandle WITH
    outcome <- settled, sent <- stops, reaper <- settler, thread <- blocked

Message == INSTANCE Messages WITH
    sent <- posted, left <- rest, received <- arrived, sender <- poster, receiver <- taker

-----------------------------------------------------------------------------
\* RunningHandle: the status never goes back and no waker is forgotten.
HandleWakes == [][Handle!HandleWakes]_handleVars

\* Messages: what is received is what was sent.
DeliveredAsSent == Message!DeliveredAsSent
==============================================================================
