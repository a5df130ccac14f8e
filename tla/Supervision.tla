----------------------------- MODULE Supervision ----------------------------
(***************************************************************************)
(* The end of a filtered run on the command line: the loop of              *)
(* crates/kakoi-net/src/run.rs with its Application (supervisor.rs), the   *)
(* first process of the isolation (init.rs), the processes under it, bwrap *)
(* between them, and a Session known by its contract.                      *)
(*                                                                         *)
(* Exit codes are abstract: "own" is what the command ended with,          *)
(* "killed" 128 + SIGKILL, "unstarted" 126 or 127, "refused" an error of   *)
(* bwrap itself; a process that was ended by a signal has no code          *)
(* ("signal").  The socket pair is two queues that keep order.             *)
(***************************************************************************)
EXTENDS SessionContract, Integers, Sequences

CONSTANTS
    Grace,      \* process.shutdown-grace-seconds
    MaxOthers   \* bound: processes of the isolation besides the main command

ASSUME SupervisionAssumption == Grace \in Nat \ {0} /\ MaxOthers \in Nat

VARIABLES
    alive,      \* the kakoi process exists
    at,         \* where its loop is
    why,        \* what the closure under way is for
    known,      \* run: main
    terminated, \* run: terminated
    fault,      \* run: fault
    closed,     \* run: closed
    code,       \* what run returned
    killed,     \* bwrap was sent SIGKILL
    term,       \* the termination flag
    interrupt,  \* a Ctrl+C in the first process's signal pipe
    toInit,     \* messages to the first process
    toRun,      \* messages from it: results, and "interrupted"
    bwrap,      \* "up", or how bwrap ended
    init,       \* where the first process is
    result,     \* its State.result
    grace,      \* time left to its State.deadline, -1 without one
    forced,     \* its State.forced
    orphaned,   \* its State.control_closed
    main,       \* the main command's process
    ended,      \* how the main command really ended
    others,     \* how many other processes there are
    asked       \* history: the processes were asked to end

loop      == <<at, why, known, terminated, fault, closed, code>>
first     == <<init, result, grace, forced, orphaned, asked>>
processes == <<main, ended, others>>
outside   == <<alive, term, interrupt>>
vars == <<sessionVars, loop, first, processes, outside, killed, toInit, toRun, bwrap>>

Results == {"own", "killed", "unstarted"}

\* run is called with a running session and an application that was just spawned.
Init ==
    /\ state = "Running" /\ over = "no" /\ open \in BOOLEAN /\ busy = FALSE
    /\ alive = TRUE /\ term = FALSE /\ interrupt = FALSE
    /\ at = "poll" /\ why = "none" /\ known = "none"
    /\ terminated = FALSE /\ fault = FALSE /\ closed = FALSE /\ code = "none"
    /\ killed = FALSE /\ toInit = <<>> /\ toRun = <<>> /\ bwrap = "up"
    /\ init = "new" /\ result = "none" /\ grace = -1
    /\ forced = FALSE /\ orphaned = FALSE /\ asked = FALSE
    /\ main = "none" /\ ended = "none" /\ others = 0

-----------------------------------------------------------------------------
(* The loop of run. *)

\* The session works inside a call, a command it started even after a crash; its transit
\* closes by itself at any time.
SessionWorks ==
    /\ TransitOpens \/ TransitCloses
    /\ UNCHANGED <<loop, first, processes, outside, killed, toInit, toRun, bwrap>>

PollBegins ==
    /\ alive /\ at = "poll" /\ at' = "polling"
    /\ CallBegins
    /\ UNCHANGED <<why, known, terminated, fault, closed, code, first, processes, outside,
                   killed, toInit, toRun, bwrap>>

\* An Unsafe session that is only noted.
UnsafeStopsNotKilled == UNCHANGED <<fault, closed, killed>>

\* run after session.poll: neither enforcement nor blocking holds.
UnsafeStops ==
    IF state' = "Unsafe" /\ ~fault
    THEN fault' = TRUE /\ closed' = TRUE /\ killed' = TRUE
    ELSE UNCHANGED <<fault, closed, killed>>

PollReturns ==
    /\ alive /\ at = "polling" /\ at' = "request"
    /\ EndsRunning \/ EndsIsolated(FALSE) \/ EndsUnsafe
    /\ UnsafeStops
    /\ UNCHANGED <<why, known, terminated, code, first, processes, outside, toInit, toRun,
                   bwrap>>

\* The rest of the turn before application.poll: a termination request is taken once,
\* and only as long as no result is known.
Request ==
    /\ alive /\ at = "request"
    /\ IF ~closed /\ known = "none" /\ term
       THEN /\ at' = "closing" /\ why' = "terminate"
            /\ terminated' = TRUE /\ closed' = TRUE
            /\ CallBegins
       ELSE at' = "recv" /\ UNCHANGED <<why, terminated, closed, sessionVars>>
    /\ UNCHANGED <<known, fault, code, first, processes, outside, killed, toInit, toRun, bwrap>>

\* Where run goes on after its closure.
AfterBlock ==
    CASE why = "terminate" -> "recv"
      [] why = "main"      -> "poll"
      [] why = "end"       -> "settle"

\* Application::terminate and begin_grace; a message that cannot be sent is a kill.
Ask ==
    IF init = "exited"
    THEN killed' = TRUE /\ UNCHANGED toInit
    ELSE /\ toInit' = Append(toInit, IF why = "terminate" THEN "T" ELSE "G")
         /\ UNCHANGED killed

\* block confirmed the closure: only now the processes are asked to end.
BlockConfirmed ==
    /\ alive /\ at = "closing" /\ at' = AfterBlock /\ why' = "none"
    /\ EndsIsolated(TRUE)
    /\ IF why = "end" THEN UNCHANGED <<killed, toInit>> ELSE Ask
    /\ UNCHANGED <<known, terminated, fault, closed, code, first, processes, outside, toRun,
                   bwrap>>

\* block that asks the processes although nothing is blocked.
BlockFailedAsks ==
    /\ alive /\ at = "closing" /\ at' = AfterBlock /\ why' = "none"
    /\ EndsUnsafe
    /\ fault' = TRUE
    /\ IF why = "end" THEN UNCHANGED <<killed, toInit>> ELSE Ask
    /\ UNCHANGED <<known, terminated, closed, code, first, processes, outside, toRun, bwrap>>

\* block could not confirm it: no process may continue.
BlockFailed ==
    /\ alive /\ at = "closing" /\ at' = AfterBlock /\ why' = "none"
    /\ EndsUnsafe
    /\ fault' = TRUE
    /\ killed' = (killed \/ why # "end")
    /\ UNCHANGED <<known, terminated, closed, code, first, processes, outside, toInit, toRun,
                   bwrap>>

\* Application::poll finds a report: the main command's result starts the end of the run.
Receive ==
    /\ alive /\ at = "recv" /\ toRun # <<>>
    /\ toRun' = Tail(toRun)
    /\ known' = IF known = "none" /\ Head(toRun) # "interrupted" THEN Head(toRun) ELSE known
    /\ IF Head(toRun) # "interrupted" /\ ~closed
       THEN at' = "closing" /\ why' = "main" /\ closed' = TRUE /\ CallBegins
       ELSE at' = "poll" /\ UNCHANGED <<why, closed, sessionVars>>
    /\ UNCHANGED <<terminated, fault, code, first, processes, outside, killed, toInit, bwrap>>

\* It finds none and goes on to try_wait.
ReceiveNothing ==
    /\ alive /\ at = "recv" /\ toRun = <<>> /\ at' = "reap"
    /\ UNCHANGED <<why, known, terminated, fault, closed, code, sessionVars, first, processes,
                   outside, killed, toInit, toRun, bwrap>>

\* try_wait: bwrap has ended, and what is still open is closed; or the next turn.
Reap ==
    /\ alive /\ at = "reap"
    /\ CASE bwrap = "up" -> at' = "poll" /\ UNCHANGED <<why, sessionVars>>
         [] bwrap # "up" /\ closed -> at' = "settle" /\ UNCHANGED <<why, sessionVars>>
         [] OTHER -> at' = "closing" /\ why' = "end" /\ CallBegins
    /\ UNCHANGED <<known, terminated, fault, closed, code, first, processes, outside, killed,
                   toInit, toRun, bwrap>>

\* try_wait fails.
ReapFails ==
    /\ alive /\ at = "reap" /\ at' = "poll"
    /\ fault' = TRUE /\ killed' = TRUE
    /\ UNCHANGED <<why, known, terminated, closed, code, sessionVars, first, processes,
                   outside, toInit, toRun, bwrap>>

\* The polls while the session drains; nothing they find is acted on.
SettlePolls ==
    /\ alive /\ at = "settle"
    /\ CallBegins \/ EndsIsolated(FALSE) \/ (busy /\ EndsUnsafe)
    /\ UNCHANGED <<loop, first, processes, outside, killed, toInit, toRun, bwrap>>

\* The command's result when no report came: the code of bwrap, which has the one of the
\* first process.
Fallback == IF bwrap = "signal" THEN "125" ELSE bwrap

\* The result of the command hides what happened to the network.
ExitCodeOfCommand(main_) == IF terminated THEN "143" ELSE main_

\* exit_code
ExitCode(main_) ==
    CASE fault -> "125"
      [] ~fault /\ terminated -> "143"
      [] OTHER -> main_

\* The session has drained, or SETTLE has passed, and run returns.
Return ==
    /\ alive /\ at = "settle" /\ ~busy /\ at' = "done"
    /\ code' = ExitCode(IF known = "none" THEN Fallback ELSE known)
    /\ UNCHANGED <<why, known, terminated, fault, closed, sessionVars, first, processes,
                   outside, killed, toInit, toRun, bwrap>>

-----------------------------------------------------------------------------
(* The first process of the isolation. *)

\* bwrap ends before it, or it cannot set itself up and exits with SAFETY_FAULT.
StartFails ==
    /\ init = "new" /\ init' = "exited" /\ bwrap' \in {"refused", "125"}
    /\ UNCHANGED <<sessionVars, loop, result, grace, forced, orphaned, asked, processes,
                   outside, killed, toInit, toRun>>

\* It starts the main command, or reports that it could not.
Spawn ==
    /\ init = "new" /\ init' = "top"
    /\ \/ main' = "alive" /\ UNCHANGED <<ended, result, toRun>>
       \/ /\ main' = "gone" /\ ended' = "unstarted" /\ result' = "unstarted"
          /\ toRun' = Append(toRun, "unstarted")
    /\ UNCHANGED <<sessionVars, loop, grace, forced, orphaned, asked, others, outside, killed,
                   toInit, bwrap>>

\* One broadcast of SIGKILL (force).  It reaches whoever is there; what is forked meanwhile
\* survives it, and is less than there was.
Broadcast ==
    /\ others' \in IF others = 0 THEN {0} ELSE 0..others - 1
    /\ ended' = IF main = "alive" THEN "killed" ELSE ended

\* waitpid reports ECHILD once everything has been reaped.
Childless == main # "alive" /\ others = 0

\* State::reap: the main command's result is kept and reported.
Reaped ==
    /\ result' = IF main = "zombie" THEN ended ELSE result
    /\ toRun' = IF main = "zombie" THEN Append(toRun, ended) ELSE toRun

\* The end was asked for, or nobody is there to ask, and no process is left.
Finishes == (orphaned \/ grace # -1) /\ Childless

\* The top of the loop: reap and exit with the main command's result.
FirstExits ==
    /\ init = "top" /\ Finishes
    /\ Reaped
    /\ main' = "gone" /\ init' = "exited"
    /\ UNCHANGED <<sessionVars, loop, grace, forced, orphaned, asked, ended, others, outside,
                   killed, toInit, bwrap>>

\* A grace that nobody ends.
GraceOverNever == forced

\* The broadcast is sent once.
GraceOverOnce == ~forced /\ grace = 0

\* The grace is over, or was cut short: every turn broadcasts again.
GraceOver == forced \/ grace = 0

\* The top of the loop otherwise: reap, and kill when the grace is over.
FirstTurns ==
    /\ init = "top" /\ ~Finishes
    /\ Reaped
    /\ init' = "wait"
    /\ forced' = (forced \/ GraceOver)
    /\ IF GraceOver THEN Broadcast ELSE UNCHANGED <<ended, others>>
    /\ main' = CASE main = "zombie" -> "gone"
                 [] main = "alive" /\ GraceOver -> "zombie"
                 [] OTHER -> main
    /\ UNCHANGED <<sessionVars, loop, grace, orphaned, asked, outside, killed, toInit, bwrap>>

\* Ctrl+C counts only once the main command has ended and the grace runs.
Interrupts == interrupt /\ result # "none" /\ grace # -1 /\ ~forced

\* The other end of the socket is closed and everything on it was read.
Abandoned == ~alive /\ toInit = <<>> /\ ~orphaned

\* A termination request that waits for the main command to end.
BeginsWithResult == toInit # <<>> /\ grace = -1 /\ result # "none"

\* A request that starts the one grace; begin_grace needs the main command's result.
Begins == toInit # <<>> /\ grace = -1 /\ (Head(toInit) = "T" \/ result # "none")

\* The bottom of the loop: the signals, then one message.
FirstWakes ==
    /\ init = "wait" /\ init' = "top"
    /\ interrupt' = FALSE
    /\ forced' = (forced \/ Interrupts \/ Abandoned)
    /\ toRun' = IF Interrupts THEN Append(toRun, "interrupted") ELSE toRun
    /\ IF Interrupts \/ Abandoned
       THEN Broadcast /\ main' = IF main = "alive" THEN "zombie" ELSE main
       ELSE UNCHANGED processes
    /\ orphaned' = (orphaned \/ Abandoned)
    /\ toInit' = IF toInit = <<>> THEN toInit ELSE Tail(toInit)
    /\ grace' = IF Begins THEN Grace ELSE grace
    /\ asked' = (asked \/ Begins)
    /\ UNCHANGED <<sessionVars, loop, result, alive, term, killed, bwrap>>

-----------------------------------------------------------------------------
(* bwrap, the processes and the outside. *)

\* bwrap exits with the code of the first process.
BwrapEnds ==
    /\ init = "exited" /\ bwrap = "up" /\ bwrap' = result
    /\ UNCHANGED <<sessionVars, loop, first, processes, outside, killed, toInit, toRun>>

\* bwrap is ended by a signal, and with it (--die-with-parent) the whole PID namespace.
BwrapDies ==
    /\ bwrap = "up" /\ bwrap' = "signal"
    /\ init' = "exited" /\ others' = 0
    /\ main' = "gone"
    /\ ended' = IF main \in {"none", "alive"} THEN "killed" ELSE ended
    /\ UNCHANGED <<sessionVars, loop, result, grace, forced, orphaned, asked, outside, killed,
                   toInit, toRun>>

MainEnds ==
    /\ main = "alive" /\ main' = "zombie" /\ ended' = "own"
    /\ UNCHANGED <<sessionVars, loop, first, others, outside, killed, toInit, toRun, bwrap>>

Fork ==
    /\ main = "alive" \/ others > 0
    /\ others < MaxOthers /\ ~forced /\ others' = others + 1
    /\ UNCHANGED <<sessionVars, loop, first, main, ended, outside, killed, toInit, toRun, bwrap>>

OtherEnds ==
    /\ others > 0 /\ others' = others - 1
    /\ UNCHANGED <<sessionVars, loop, first, main, ended, outside, killed, toInit, toRun, bwrap>>

\* SIGTERM to kakoi.
Terminate ==
    /\ alive /\ at # "done" /\ ~term /\ term' = TRUE
    /\ UNCHANGED <<sessionVars, loop, first, processes, alive, interrupt, killed, toInit, toRun,
                   bwrap>>

\* Ctrl+C, which kakoi and bwrap ignore.
Interrupt ==
    /\ init \in {"top", "wait"} /\ ~interrupt /\ interrupt' = TRUE
    /\ UNCHANGED <<sessionVars, loop, first, processes, alive, term, killed, toInit, toRun, bwrap>>

\* The grace runs.
Tick ==
    /\ init # "exited" /\ grace > 0 /\ grace' = grace - 1
    /\ UNCHANGED <<sessionVars, loop, init, result, forced, orphaned, asked, processes, outside,
                   killed, toInit, toRun, bwrap>>

\* kakoi is killed.
Crash ==
    /\ alive /\ at # "done" /\ alive' = FALSE
    /\ UNCHANGED <<sessionVars, loop, first, processes, term, interrupt, killed, toInit, toRun,
                   bwrap>>

-----------------------------------------------------------------------------
Loop ==
    \/ PollBegins \/ PollReturns \/ Request \/ BlockConfirmed \/ BlockFailed
    \/ Receive \/ ReceiveNothing \/ Reap \/ ReapFails \/ SettlePolls \/ Return

First == StartFails \/ Spawn \/ FirstExits \/ FirstTurns \/ FirstWakes

Next ==
    \/ SessionWorks \/ Loop \/ First
    \/ BwrapEnds \/ BwrapDies \/ MainEnds \/ Fork \/ OtherEnds
    \/ Terminate \/ Interrupt \/ Tick \/ Crash

Spec == Init /\ [][Next]_vars

\* Both loops keep turning and time passes.  A try_wait that fails does not fail for ever,
\* the settling ends (SETTLE), a process that was sent SIGKILL ends, and bwrap exits after
\* the first process.  No process of the isolation ends by itself.
FairSpec ==
    /\ Spec
    /\ WF_vars(Loop) /\ SF_vars(Reap) /\ SF_vars(Return)
    /\ WF_vars(First) /\ WF_vars(Tick)
    /\ WF_vars(BwrapEnds) /\ WF_vars(killed /\ BwrapDies)

-----------------------------------------------------------------------------
(* Properties. *)

TypeOK ==
    /\ state \in {"Running", "Isolated", "Unsafe"} /\ over \in {"no", "shut", "unsafe"}
    /\ open \in BOOLEAN /\ busy \in BOOLEAN
    /\ alive \in BOOLEAN /\ term \in BOOLEAN /\ interrupt \in BOOLEAN
    /\ at \in {"poll", "polling", "request", "closing", "recv", "reap", "settle", "done"}
    /\ why \in {"none", "terminate", "main", "end"}
    /\ known \in Results \cup {"none"}
    /\ terminated \in BOOLEAN /\ fault \in BOOLEAN /\ closed \in BOOLEAN
    /\ code \in Results \cup {"none", "refused", "125", "143"}
    /\ killed \in BOOLEAN
    /\ toInit \in Seq({"T", "G"}) /\ toRun \in Seq(Results \cup {"interrupted"})
    /\ bwrap \in Results \cup {"up", "signal", "refused", "125"}
    /\ init \in {"new", "top", "wait", "exited"}
    /\ result \in Results \cup {"none"} /\ grace \in -1..Grace
    /\ forced \in BOOLEAN /\ orphaned \in BOOLEAN /\ asked \in BOOLEAN
    /\ main \in {"none", "alive", "zombie", "gone"}
    /\ ended \in Results \cup {"none"} /\ others \in 0..MaxOthers

\* block's order (run.rs): by the time any process is asked to end, the closure of transit
\* was confirmed, and traffic stays blocked from then on.
BlockedBeforeAsked == asked => over = "shut" /\ ~open

\* begin_grace and terminate are sent at most once between them: the main command's result,
\* a termination request and an Unsafe session, in whatever order, give one grace.
OneRequest == Len(toInit) <= 1 /\ (asked => toInit = <<>>)

\* The first process kills only what it asked before, or what its controller abandoned: a
\* Ctrl+C before the grace is the application's (leave_interrupt_to_application).
ForcedAfterAsked == forced => asked \/ orphaned

\* run returns only when no process of the isolation is left, and with the network blocked
\* for good unless it says 125.
FinishedBlocked ==
    at = "done" =>
        /\ init = "exited" /\ main # "alive" /\ others = 0
        /\ over = "shut" \/ code = "125"

\* What run returns: a result of the command is the one it really ended with, also when its
\* report was never read; a network that could not be blocked is never hidden behind a
\* result; and 143 needs a request.
HonestCode ==
    at = "done" =>
        /\ code \in Results => code = ended
        /\ over = "unsafe" => code = "125"
        /\ code = "143" => term /\ ~fault

\* Application::poll: "Supervisor reports are returned before `Finished`."
ReportsBeforeFinished == at \in {"settle", "done"} => toRun = <<>>

\* run returns once the main command has ended, whatever its children do, and once SIGTERM
\* has arrived, even if the command ignores every signal it can.
RunEnds == main \in {"zombie", "gone"} \/ term ~> at = "done" \/ ~alive

\* No process outlives kakoi ("nothing may outlive its supervision", State::receive), by
\* the first process alone; nor an unsafe session ("Neither enforcement nor blocking holds:
\* no process may continue", run).
NothingOutlives == ~alive \/ state = "Unsafe" ~> init = "exited"

=============================================================================
