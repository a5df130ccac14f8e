--------------------------- MODULE SessionContract --------------------------
(***************************************************************************)
(* What a Session promises to the loop that polls and closes it: the       *)
(* abstract specification Session implements and Supervision relies on.    *)
(* Transit can open only inside a call of a session that was not given up; *)
(* a call that ends in Isolated leaves transit closed; a confirmed         *)
(* explicit closure is for ever.                                           *)
(***************************************************************************)

VARIABLES
    state,  \* Session::state
    over,   \* "shut" after a confirmed explicit closure, "unsafe" after Unsafe
    open,   \* traffic can cross
    busy    \* a call of the session is under way

sessionVars == <<state, over, open, busy>>

SessionInit ==
    state = "Prepared" /\ over = "no" /\ open = FALSE /\ busy = FALSE

\* activate, poll or close_until is called.
CallBegins ==
    ~busy /\ busy' = TRUE /\ UNCHANGED <<state, over, open>>

\* A renewal or a reopening commits.
TransitOpens ==
    busy /\ over = "no" /\ open' = TRUE /\ UNCHANGED <<state, over, busy>>

\* A closure commits, the lease runs out or the watchdog closes, at any time.
TransitCloses ==
    open /\ open' = FALSE /\ UNCHANGED <<state, over, busy>>

\* A call leaves the session running.
EndsRunning ==
    /\ busy /\ over = "no" /\ state' = "Running" /\ busy' = FALSE
    /\ UNCHANGED <<over, open>>

\* A call ends with a confirmed closure: close_until's own callers, or an explicit one.
EndsIsolated(explicit) ==
    /\ busy /\ ~open /\ state' = "Isolated" /\ busy' = FALSE
    /\ over' = IF explicit THEN "shut" ELSE over
    /\ UNCHANGED open

\* A closure could not be confirmed, or the Transport was lost with its worker.
EndsUnsafe ==
    /\ state' = "Unsafe" /\ busy' = FALSE
    /\ over' = IF over = "no" THEN "unsafe" ELSE over
    /\ UNCHANGED open

SessionNext ==
    \/ CallBegins \/ TransitOpens \/ TransitCloses \/ EndsRunning
    \/ \E explicit \in BOOLEAN : EndsIsolated(explicit)
    \/ EndsUnsafe

SessionSpec == SessionInit /\ [][SessionNext]_sessionVars

=============================================================================
