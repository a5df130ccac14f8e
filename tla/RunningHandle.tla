---------------------------- MODULE RunningHandle ----------------------------
(***************************************************************************)
(* What the caller holds of a run (kakoi-runtime/src/running.rs): the      *)
(* status and the outcome behind one lock, the stop request, the threads   *)
(* that wait on the condition variable and the futures that register a     *)
(* waker, against the reaper thread that settles the run.                  *)
(*                                                                         *)
(* A future may be polled by any task; its waker wakes the task that       *)
(* polled it last.  The outcome is only "there" or not.                    *)
(***************************************************************************)
EXTENDS Integers, FiniteSets, Functions

CONSTANTS
    Futures,    \* the Wait futures the caller makes
    Tasks,      \* the tasks that poll them
    Threads,    \* the threads that call wait
    Callers     \* the threads that request a stop

VARIABLES
    status, outcome, requested, waiters, next_waiter,   \* State
    control,    \* Shared.control holds the endpoint
    sent,       \* how many stops were sent
    receipt,    \* what each request returned
    spawn,      \* "starting", then the status a Running was returned with
    reaper,     \* where the reaper thread is
    waking,     \* the wakers finish took and has not called yet
    registration, polled, future,   \* each Wait: its id, its last task, where it is
    awake,      \* the tasks that were woken
    thread      \* each thread of wait: "idle", "waiting", "back"

shared == <<status, outcome, requested, control, sent, receipt, spawn, reaper>>
waits  == <<waiters, next_waiter, waking, registration, polled, future, awake>>
vars   == <<shared, waits, thread>>

NoId == -1  \* registration: None

Init ==
    /\ status = "Starting" /\ outcome = FALSE /\ requested = FALSE /\ control = TRUE
    /\ waiters = <<>> /\ next_waiter = 0 /\ sent = 0 /\ receipt = [c \in Callers |-> "none"]
    /\ spawn = "starting" /\ reaper = "recv" /\ waking = {}
    /\ registration = [f \in Futures |-> NoId] /\ future = [f \in Futures |-> "new"]
    /\ polled = [f \in Futures |-> CHOOSE t \in Tasks : TRUE]
    /\ awake = {} /\ thread = [h \in Threads |-> "idle"]

-----------------------------------------------------------------------------
(* The caller. *)

\* The mutant sets the status whatever it is.
RunningAlways == "Running"

\* mark_running
mark_running == IF status = "Starting" THEN "Running" ELSE status

\* Started::Ready was read: a Running is returned.
SpawnReturns ==
    /\ spawn = "starting"
    /\ status' = mark_running /\ spawn' = status'
    /\ UNCHANGED <<outcome, requested, control, sent, receipt, reaper, waits, thread>>

Asked == requested

\* stop, called by c: under the state's lock, then the control's.
Stop(c) ==
    /\ spawn # "starting" /\ receipt[c] = "none"
    /\ \/ /\ status = "Finished"
          /\ receipt' = [receipt EXCEPT ![c] = "AlreadyFinished"]
          /\ UNCHANGED <<requested, status, sent>>
       \/ /\ status # "Finished" /\ Asked
          /\ receipt' = [receipt EXCEPT ![c] = "AlreadyRequested"]
          /\ UNCHANGED <<requested, status, sent>>
       \/ /\ status # "Finished" /\ ~Asked
          /\ requested' = TRUE /\ status' = "Stopping"
          /\ \/ /\ ~control /\ UNCHANGED sent
                /\ receipt' = [receipt EXCEPT ![c] = "AlreadyFinished"]
             \/ /\ control /\ sent' = sent + 1
                /\ \E r \in {"Queued", "ControlError"} : receipt' = [receipt EXCEPT ![c] = r]
    /\ UNCHANGED <<outcome, control, spawn, reaper, waits, thread>>

\* wait: a thread finds the outcome or waits for the condition variable.
WaitBlocks(h) ==
    /\ spawn # "starting" /\ thread[h] = "idle"
    /\ thread' = [thread EXCEPT ![h] = IF outcome THEN "back" ELSE "waiting"]
    /\ UNCHANGED <<shared, waits>>

-----------------------------------------------------------------------------
(* The futures. *)

\* The mutant keeps the waker of the first poll.
InsertFirst(id, t) ==
    [i \in DOMAIN waiters \union {id} |-> IF i \in DOMAIN waiters THEN waiters[i] ELSE t]

Insert(id, t) == [i \in DOMAIN waiters \union {id} |-> IF i = id THEN t ELSE waiters[i]]

\* Wait::poll by task t.
Poll(f, t) ==
    /\ spawn # "starting" /\ future[f] \in {"new", "pending"}
    /\ IF outcome
       THEN /\ future' = [future EXCEPT ![f] = "ready"]
            /\ waiters' = Restrict(waiters, DOMAIN waiters \ {registration[f]})
            /\ registration' = [registration EXCEPT ![f] = NoId]
            /\ UNCHANGED next_waiter
       ELSE LET id == IF registration[f] = NoId THEN next_waiter ELSE registration[f]
            IN  /\ registration' = [registration EXCEPT ![f] = id]
                /\ next_waiter' = IF registration[f] = NoId THEN next_waiter + 1 ELSE next_waiter
                /\ waiters' = Insert(id, t)
                /\ future' = [future EXCEPT ![f] = "pending"]
    /\ polled' = [polled EXCEPT ![f] = t]
    /\ UNCHANGED <<shared, waking, awake, thread>>

\* The mutant leaves the waker behind.
NoneRemoved(f) == waiters

Removed(f) == Restrict(waiters, DOMAIN waiters \ {registration[f]})

\* Wait::drop
DropWait(f) ==
    /\ future[f] = "pending"
    /\ future' = [future EXCEPT ![f] = "dropped"]
    /\ waiters' = Removed(f) /\ registration' = [registration EXCEPT ![f] = NoId]
    /\ UNCHANGED <<shared, next_waiter, waking, polled, awake, thread>>

-----------------------------------------------------------------------------
(* The reaper thread. *)

\* ResultUpdate::Main arrives: mark_stopping.
ReaperMain ==
    /\ reaper = "recv" /\ reaper' = "main" /\ status' = "Stopping"
    /\ UNCHANGED <<outcome, requested, control, sent, receipt, spawn, waits, thread>>

\* The result arrives or is lost: the control endpoint is let go, the worker waited for.
ReaperLetsGo ==
    /\ reaper \in {"recv", "main"} /\ reaper' = "wait" /\ control' = FALSE
    /\ UNCHANGED <<status, outcome, requested, sent, receipt, spawn, waits, thread>>

\* finish, as far as its lock reaches.
Finish ==
    /\ reaper = "wait" /\ reaper' = "notify"
    /\ status' = "Finished" /\ outcome' = TRUE
    /\ waking' = Range(waiters) /\ waiters' = <<>>
    /\ UNCHANGED <<requested, control, sent, receipt, spawn, next_waiter, registration, polled,
                   future, awake, thread>>

\* The mutant wakes one thread.
NotifiesOne == {CHOOSE h \in Threads : TRUE}

Notifies == Threads

Notify ==
    /\ reaper = "notify" /\ reaper' = "wake"
    /\ thread' = [h \in Threads |->
                    IF thread[h] = "waiting" /\ h \in Notifies THEN "back" ELSE thread[h]]
    /\ UNCHANGED <<status, outcome, requested, control, sent, receipt, spawn, waits>>

Wake ==
    /\ reaper = "wake"
    /\ IF waking = {} THEN reaper' = "done" /\ UNCHANGED <<waking, awake>>
       ELSE \E t \in waking : waking' = waking \ {t} /\ awake' = awake \union {t}
                              /\ UNCHANGED reaper
    /\ UNCHANGED <<status, outcome, requested, control, sent, receipt, spawn, waiters,
                   next_waiter, registration, polled, future, thread>>

Reaper == ReaperMain \/ ReaperLetsGo \/ Finish \/ Notify \/ Wake

Next ==
    \/ SpawnReturns \/ Reaper
    \/ \E c \in Callers : Stop(c)
    \/ \E h \in Threads : WaitBlocks(h)
    \/ \E f \in Futures : DropWait(f) \/ \E t \in Tasks : Poll(f, t)

Spec == Init /\ [][Next]_vars

\* The reaper goes on, and an executor polls a task that was woken.
Fairness ==
    /\ WF_vars(Reaper)
    /\ \A f \in Futures, t \in Tasks : WF_vars(polled[f] = t /\ t \in awake /\ Poll(f, t))

-----------------------------------------------------------------------------
(* Properties. *)

Rank(s) == CASE s = "Starting" -> 0 [] s = "Running" -> 1 [] s = "Stopping" -> 2 [] OTHER -> 3

TypeOK ==
    /\ status \in {"Starting", "Running", "Stopping", "Finished"}
    /\ outcome \in BOOLEAN /\ requested \in BOOLEAN /\ control \in BOOLEAN /\ sent \in 0 .. 1
    /\ next_waiter \in 0 .. Cardinality(Futures)
    /\ spawn \in {"starting", "Running", "Stopping", "Finished"}

\* The status never goes back, whichever of spawn, a stop and the reaper comes first
\* (mark_running, mark_stopping, stop, finish).
StatusForward == Rank(status) <= Rank(status')

\* Exactly the pending futures hold a waker while the run is not over: none is forgotten,
\* none is left behind by a future that was dropped (Wait::poll, Wait::drop).
WaitersMatch ==
    ~outcome => DOMAIN waiters = {registration[f] : f \in {g \in Futures : future[g] = "pending"}}

\* After the reaper is done no task that polled a future last sleeps on it (finish takes the
\* wakers under the lock that stores the outcome).
NoLostWakeup ==
    reaper = "done" => \A f \in Futures : future[f] = "pending" => polled[f] \in awake

\* What every step of the handle keeps: the status never goes back, and no waker is forgotten or left behind.
HandleWakes == StatusForward /\ (TypeOK /\ WaitersMatch /\ NoLostWakeup)'

\* A thread in wait comes back.
WaitReturns ==
    Fairness => \A h \in Threads : thread[h] = "waiting" ~> thread[h] = "back"

==============================================================================
