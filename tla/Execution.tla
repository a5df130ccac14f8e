------------------------------ MODULE Execution ------------------------------
(***************************************************************************)
(* One run of the library, from prepare to its outcome: the caller's side  *)
(* (preparation/mod.rs: prepare, PreparedRun, the reaper thread; the stop  *)
(* and the owner endpoint of running.rs), the worker process               *)
(* (preparation/dispatch.rs, execution/mod.rs), bwrap, the first process   *)
(* of the isolation (execution/init.rs) and the processes under it.        *)
(*                                                                         *)
(* The sockets are queues that keep order; an endpoint is closed when its  *)
(* process is gone or shut it down.  What the main command ended with is   *)
(* "code" or "sig".  A network session is known by whether traffic can     *)
(* flow (net) and whether helper processes of it are left (helpers); its   *)
(* closure may fail, and it may report itself Unsafe at any poll.          *)
(***************************************************************************)
EXTENDS Naturals, Sequences

CONSTANTS
    MaxOthers,  \* bound: processes of the isolation besides the main command
    Faults,     \* which processes may be killed from outside
    Filters     \* whether the policy's network mode may be Filtered, or another

ASSUME ExecutionAssumption ==
    /\ MaxOthers \in Nat /\ Faults \subseteq {"caller", "worker", "bwrap"}
    /\ Filters \subseteq BOOLEAN

VARIABLES
    caller,     \* where the caller's side is
    owner,      \* the owner endpoint is open
    stop,       \* State.stop_requested
    startError, \* the StartError spawn returned
    reaper,     \* where the reaper thread is
    kept,       \* its main
    received,   \* the outcome it received
    outcome,    \* State.outcome
    filtered,   \* the policy's network mode is Filtered
    at,         \* where the worker is
    exit,       \* "up", or how the worker process ended
    signal,     \* supervisor_signals::PENDING: "no", "int", "term"
    reason, stopping, ownerLost, controlLost, wmain, cleanup, diagnosed, initReady,
    failed,     \* the StartError under way, or the RunOutcome
    net, helpers,
    cut,        \* init_control was shut down
    bwrap,      \* "none", "up", or how bwrap ended
    init,       \* where the first process is
    imain, ireason, istopping, ikilled, icontrolLost,
    main,       \* the main command's process
    others,     \* how many other processes there are
    toWorker, toCaller, result, acked, toInit, fromInit,
    asked,      \* history: init asked the processes to end
    natural,    \* history: the main command ended before anything was asked of it
    released,   \* history: the main result init was released with
    seen        \* history: the reasons the worker and init observed

callerVars  == <<caller, owner, stop, startError>>
reaperVars  == <<reaper, kept, received, outcome>>
loopVars    == <<reason, stopping, ownerLost, controlLost, wmain, cleanup, diagnosed,
                 initReady, failed>>
workerVars  == <<at, exit, signal, loopVars>>
netVars     == <<filtered, net, helpers>>
initVars    == <<init, imain, ireason, istopping, ikilled, icontrolLost, asked, released>>
processVars == <<main, others, natural>>
controlQ    == <<toWorker, toCaller>>
resultQ     == <<result, acked>>
initQ       == <<toInit, fromInit, cut>>
vars == <<callerVars, reaperVars, workerVars, netVars, initVars, processVars, controlQ,
          resultQ, initQ, bwrap, seen>>

None     == [none |-> TRUE]
Reasons  == {"Completed", "StopRequested", "OwnerLost", "InfrastructureFailure"}
Mains    == {"code", "sig", "NotStarted", "Unknown"}
Cleanups == {"ConfirmedBlocked", "Unconfirmed", "NotApplicable"}
Outcomes == [main : Mains, reason : Reasons,
             network : Cleanups,
             processes : {"ConfirmedReaped", "Unconfirmed"}]
Kinds    == {"PlanChanged", "ResourceConflict", "UnsupportedEnvironment", "HelperFailure", "Io",
             "Protocol"}
StartErrors == [kind : Kinds, main : Mains, cleanup : {"Confirmed", "Unconfirmed"}]
Gone     == {"ok", "err", "killed"}

Alive == caller # "dead"
\* The worker's view of its two peers, and init's view of the worker.
ControlClosed == caller \in {"over", "failing", "dead"}
InitClosed    == init \in Gone \/ cut
WorkerClosed  == exit # "up" \/ cut

\* prepare has spawned the worker and waits for its first message.
Init ==
    /\ caller = "preparing" /\ owner = TRUE /\ stop = FALSE /\ startError = None
    /\ reaper = "none" /\ kept = "Unknown" /\ received = None /\ outcome = None
    /\ filtered \in Filters /\ net = "none" /\ helpers = FALSE
    /\ at = "hello" /\ exit = "up" /\ signal = "no"
    /\ reason = "Completed" /\ stopping = FALSE /\ ownerLost = FALSE /\ controlLost = FALSE
    /\ wmain = "Unknown" /\ cleanup = "NotApplicable" /\ diagnosed = FALSE
    /\ initReady = FALSE /\ failed = None
    /\ init = "none" /\ imain = "Unknown" /\ ireason = "Completed" /\ istopping = FALSE
    /\ ikilled = FALSE /\ icontrolLost = FALSE /\ asked = FALSE /\ released = "none"
    /\ main = "none" /\ others = 0 /\ natural = FALSE
    /\ toWorker = <<>> /\ toCaller = <<>> /\ result = <<>> /\ acked = FALSE
    /\ toInit = <<>> /\ fromInit = <<>> /\ cut = FALSE /\ bwrap = "none" /\ seen = {}

Priority(r) ==
    CASE r = "Completed" -> 0 [] r = "StopRequested" -> 1
      [] r = "OwnerLost" -> 2 [] OTHER -> 3

\* The mutant keeps the reason seen last.
StrongestForgets(current, observed) == observed

strongest_reason(current, observed) ==
    IF Priority(observed) > Priority(current) THEN observed ELSE current

-----------------------------------------------------------------------------
(* The caller: prepare, spawn, stop, drop. *)

PrepareSends ==
    /\ caller = "preparing" /\ toCaller # <<>> /\ Head(toCaller)[1] = "Hello"
    /\ toCaller' = Tail(toCaller) /\ toWorker' = Append(toWorker, "Request")
    /\ UNCHANGED <<callerVars, reaperVars, workerVars, netVars, initVars, processVars,
                   resultQ, initQ, bwrap, seen>>

\* The worker is prepared and its reaper starts, or the worker is killed and waited for.
PrepareEnds ==
    /\ caller = "preparing"
    /\ \/ /\ toCaller # <<>> /\ Head(toCaller)[1] = "Prepared"
          /\ toCaller' = Tail(toCaller)
          /\ caller' = "prepared" /\ reaper' = "recv"
          /\ UNCHANGED <<owner, exit>>
       \/ /\ IF toCaller = <<>> THEN exit # "up" ELSE Head(toCaller)[1] = "Refused"
          /\ caller' = "over" /\ owner' = FALSE /\ toCaller' = <<>>
          /\ exit' = (IF exit = "up" THEN "killed" ELSE exit)
          /\ UNCHANGED reaper
    /\ UNCHANGED <<stop, startError, kept, received, outcome, at, signal, loopVars, netVars,
                   initVars, processVars, toWorker, resultQ, initQ, bwrap, seen>>

ProtocolError == [kind |-> "Protocol", main |-> "Unknown", cleanup |-> "Unconfirmed"]

\* A send to a worker that is gone fails, and dropping the PreparedRun closes both ends.
Spawn ==
    /\ caller = "prepared"
    /\ IF exit = "up"
       THEN /\ caller' = "spawning" /\ toWorker' = Append(toWorker, "Start")
            /\ UNCHANGED <<owner, startError>>
       ELSE /\ caller' = "over" /\ owner' = FALSE
            /\ startError' = ProtocolError
            /\ UNCHANGED toWorker
    /\ UNCHANGED <<stop, reaperVars, workerVars, netVars, initVars, processVars, toCaller,
                   resultQ, initQ, bwrap, seen>>

\* Started::Ready, Started::Failed, and everything that is neither.
SpawnReply ==
    /\ caller = "spawning"
    /\ \/ /\ toCaller # <<>> /\ Head(toCaller)[1] = "Ready"
          /\ caller' = "running" /\ UNCHANGED <<owner, startError>>
       \/ /\ toCaller # <<>> /\ Head(toCaller)[1] = "Failed"
          /\ caller' = "failing" /\ owner' = FALSE /\ startError' = Head(toCaller)[2]
       \/ /\ IF toCaller = <<>> THEN exit # "up" ELSE Head(toCaller)[1] = "Refused"
          /\ caller' = "over" /\ owner' = FALSE
          /\ startError' = ProtocolError
    /\ toCaller' = IF toCaller = <<>> THEN <<>> ELSE Tail(toCaller)
    /\ UNCHANGED <<stop, reaperVars, workerVars, netVars, initVars, processVars, toWorker,
                   resultQ, initQ, bwrap, seen>>

\* wait_finished: only a worker its own reaper reaped leaves the cleanup confirmed.
SpawnFails ==
    /\ caller = "failing" /\ reaper \in {"reaped", "unreaped"}
    /\ caller' = "over"
    /\ startError' = IF reaper = "reaped" THEN startError
                     ELSE [startError EXCEPT !.cleanup = "Unconfirmed"]
    /\ UNCHANGED <<owner, stop, reaperVars, workerVars, netVars, initVars, processVars,
                   controlQ, resultQ, initQ, bwrap, seen>>

FirstStop == ~stop

\* Shared::stop: recorded once, sent while the reaper still holds the control endpoint.
RequestStop ==
    /\ caller \in {"running", "dropped"} /\ outcome = None /\ FirstStop
    /\ stop' = TRUE
    /\ toWorker' = IF reaper = "recv" /\ exit = "up" THEN Append(toWorker, "Stop") ELSE toWorker
    /\ UNCHANGED <<caller, owner, startError, reaperVars, workerVars, netVars, initVars,
                   processVars, toCaller, resultQ, initQ, bwrap, seen>>

Drop ==
    /\ caller \in {"prepared", "running"}
    /\ caller' = IF caller = "prepared" THEN "over" ELSE "dropped"
    /\ owner' = FALSE
    /\ UNCHANGED <<stop, startError, reaperVars, workerVars, netVars, initVars, processVars,
                   controlQ, resultQ, initQ, bwrap, seen>>

CallerDies ==
    /\ "caller" \in Faults /\ Alive
    /\ caller' = "dead" /\ owner' = FALSE
    /\ UNCHANGED <<stop, startError, reaperVars, workerVars, netVars, initVars, processVars,
                   controlQ, resultQ, initQ, bwrap, seen>>

-----------------------------------------------------------------------------
(* The reaper thread. *)

ReapMain ==
    /\ Alive /\ reaper = "recv" /\ result # <<>> /\ Head(result)[1] = "Main"
    /\ kept' = Head(result)[2] /\ result' = Tail(result) /\ acked' = TRUE
    /\ UNCHANGED <<callerVars, reaper, received, outcome, workerVars, netVars, initVars,
                   processVars, controlQ, initQ, bwrap, seen>>

\* The mutant takes every run for one without a filter.
NoNetwork == "NotApplicable"

\* What prepare told the reaper to assume of the network when no result comes.
AssumedNetwork == IF filtered THEN "Unconfirmed" ELSE "NotApplicable"

\* The result arrived or its connection is lost: the control endpoint is let go.
ReapResult ==
    /\ Alive /\ reaper = "recv"
    /\ \/ /\ result # <<>> /\ Head(result)[1] = "Finished"
          /\ received' = Head(result)[2] /\ result' = Tail(result)
       \/ /\ result = <<>> /\ exit # "up"
          /\ received' = [main |-> kept, reason |-> "InfrastructureFailure",
                          network |-> AssumedNetwork,
                          processes |-> "Unconfirmed"]
          /\ UNCHANGED result
    /\ reaper' = "wait"
    /\ UNCHANGED <<callerVars, kept, outcome, workerVars, netVars, initVars, processVars,
                   controlQ, acked, initQ, bwrap, seen>>

\* What the reaper makes of the outcome: the worker's exit and the event reader count.
Settled(o, success, events) ==
    [o EXCEPT !.processes = IF success THEN @ ELSE "Unconfirmed",
              !.reason = IF success /\ events THEN @ ELSE "InfrastructureFailure"]

\* The worker may have been reaped by the caller's own wait, and its status be unknown.
ReapWorker ==
    /\ Alive /\ reaper = "wait" /\ exit # "up"
    /\ \E external, events \in BOOLEAN :
          /\ outcome' = Settled(received, exit = "ok" /\ ~external, events)
          /\ reaper' = IF external THEN "unreaped" ELSE "reaped"
    /\ UNCHANGED <<callerVars, kept, received, workerVars, netVars, initVars, processVars,
                   controlQ, resultQ, initQ, bwrap, seen>>

-----------------------------------------------------------------------------
(* The worker before the run: dispatch_helper, prepare_worker, launch, startup. *)

\* The worker process ends; its ChildGuard kills a bwrap that is still there.
WorkerExits(code) ==
    /\ exit' = code /\ at' = "gone"
    /\ bwrap' = IF bwrap = "up" THEN "killed" ELSE bwrap

WorkerHello ==
    /\ exit = "up" /\ at = "hello"
    /\ at' = "request" /\ toCaller' = Append(toCaller, <<"Hello">>)
    /\ UNCHANGED <<callerVars, reaperVars, exit, signal, loopVars, netVars, initVars,
                   processVars, toWorker, resultQ, initQ, bwrap, seen>>

\* The request is read and planned; any failure is answered with Response::Failed.
WorkerPrepares ==
    /\ exit = "up" /\ at = "request"
    /\ \/ /\ owner /\ signal = "no" /\ toWorker # <<>>
          /\ at' = "waiting" /\ toCaller' = Append(toCaller, <<"Prepared">>)
          /\ toWorker' = Tail(toWorker) /\ UNCHANGED <<exit, bwrap>>
       \/ /\ toWorker # <<>> \/ ~owner
          /\ WorkerExits("err") /\ toCaller' = Append(toCaller, <<"Refused">>)
          /\ UNCHANGED toWorker
    /\ UNCHANGED <<callerVars, reaperVars, signal, loopVars, netVars, initVars, processVars,
                   resultQ, initQ, seen>>

\* The owner first, then a terminal signal, then the control endpoint.
WorkerWaits ==
    /\ exit = "up" /\ at = "waiting"
    /\ \/ /\ ~owner /\ WorkerExits("ok") /\ UNCHANGED controlQ
       \/ /\ owner /\ signal # "no"
          /\ WorkerExits("err") /\ toCaller' = Append(toCaller, <<"Refused">>)
          /\ UNCHANGED toWorker
       \/ /\ owner /\ signal = "no" /\ toWorker # <<>>
          /\ at' = "network" /\ toWorker' = Tail(toWorker)
          /\ UNCHANGED <<exit, bwrap, toCaller>>
    /\ UNCHANGED <<callerVars, reaperVars, signal, loopVars, netVars, initVars, processVars,
                   resultQ, initQ, seen>>

\* close_network, whose result is c: a session that is not confirmed closed may be open.
CloseNetwork(c) ==
    IF net = "none"
    THEN c = "NotApplicable" /\ net' = net
    ELSE \/ c = "ConfirmedBlocked" /\ net' = "closed"
         \/ c = "Unconfirmed" /\ net' = net

\* drain_network: every helper process was reaped (d), or it gave up.
DrainNetwork(d) == helpers' = (helpers /\ ~d)

\* A failure is reported to the caller and the worker is done.
ReportStart(kind, m, confirmed) ==
    /\ toCaller' = Append(toCaller,
          <<"Failed", [kind |-> kind, main |-> m,
                       cleanup |-> IF confirmed THEN "Confirmed" ELSE "Unconfirmed"]>>)
    /\ WorkerExits(IF Alive THEN "ok" ELSE "err")

\* open_network: a session that cannot be prepared leaves helpers to drain.
OpenNetwork ==
    /\ exit = "up" /\ at = "network"
    /\ \/ /\ at' = "launch"
          /\ net' = (IF filtered THEN "open" ELSE "none") /\ helpers' = filtered
          /\ UNCHANGED <<exit, bwrap, toCaller>>
       \/ /\ filtered
          /\ \E d \in BOOLEAN,
                kind \in {"ResourceConflict", "UnsupportedEnvironment", "HelperFailure"} :
                helpers' = ~d /\ ReportStart(kind, "NotStarted", d)
          /\ UNCHANGED net
    /\ UNCHANGED <<callerVars, reaperVars, signal, loopVars, filtered, initVars, processVars,
                   toWorker, resultQ, initQ, seen>>

\* launch: bwrap starts init with its request, or nothing was started.
Launch ==
    /\ exit = "up" /\ at = "launch"
    /\ \/ /\ at' = "startup" /\ bwrap' = "up" /\ init' = "new"
          /\ toInit' = <<<<"Request">>>>
          /\ UNCHANGED <<exit, toCaller, net, helpers>>
       \/ /\ \E c \in Cleanups, d \in BOOLEAN,
                kind \in {"PlanChanged", "UnsupportedEnvironment", "Io"} :
                /\ CloseNetwork(c) /\ DrainNetwork(d)
                /\ ReportStart(kind, "NotStarted", c # "Unconfirmed" /\ d)
          /\ UNCHANGED <<init, toInit>>
    /\ UNCHANGED <<callerVars, reaperVars, signal, loopVars, filtered, imain, ireason,
                   istopping, ikilled, icontrolLost, asked, released, processVars, toWorker,
                   resultQ, fromInit, cut, seen>>

\* ipc::ready refuses to go on once the owner, the control endpoint or a signal speaks.
Watched == ~owner \/ toWorker # <<>> \/ ControlClosed \/ signal # "no"

\* The wait for InitReply::Ready: an unreported failure kills bwrap, a reported one waits.
Startup ==
    /\ exit = "up" /\ at = "startup"
    /\ \/ /\ ~Watched /\ fromInit # <<>> /\ Head(fromInit)[1] = "Ready"
          /\ at' = "announce" /\ fromInit' = Tail(fromInit)
          /\ UNCHANGED <<failed, cleanup, net, cut, bwrap>>
       \/ /\ ~Watched /\ fromInit # <<>> /\ Head(fromInit)[1] = "Failed"
          /\ at' = "failed" /\ failed' = [kind |-> Head(fromInit)[2], main |-> Head(fromInit)[3]]
          /\ cut' = TRUE /\ fromInit' = Tail(fromInit)
          /\ \E c \in Cleanups : CloseNetwork(c) /\ cleanup' = c
          /\ UNCHANGED bwrap
       \/ /\ Watched \/ (fromInit = <<>> /\ InitClosed)
          /\ at' = "failed" /\ failed' = [kind |-> "HelperFailure", main |-> "Unknown"]
          /\ cut' = TRUE /\ bwrap' = (IF bwrap = "up" THEN "killed" ELSE bwrap)
          /\ \E c \in Cleanups : CloseNetwork(c) /\ cleanup' = c
          /\ UNCHANGED fromInit
    /\ UNCHANGED <<callerVars, reaperVars, exit, signal, reason, stopping, ownerLost,
                   controlLost, wmain, diagnosed, initReady, filtered, helpers, initVars,
                   processVars, controlQ, resultQ, toInit, seen>>

StartupFails ==
    /\ exit = "up" /\ at = "failed" /\ bwrap # "up"
    /\ \E d \in BOOLEAN :
          /\ DrainNetwork(d)
          /\ ReportStart(failed.kind, failed.main, bwrap = "ok" /\ d /\ cleanup # "Unconfirmed")
    /\ UNCHANGED <<callerVars, reaperVars, signal, loopVars, filtered, net, initVars,
                   processVars, toWorker, resultQ, initQ, seen>>

\* Started::Ready; when the caller is gone, init is let go and waited for.
Announce ==
    /\ exit = "up" /\ at = "announce"
    /\ IF Alive
       THEN at' = "signals" /\ toCaller' = Append(toCaller, <<"Ready">>)
            /\ UNCHANGED <<net, cut>>
       ELSE /\ at' = "giveup" /\ cut' = TRUE
            /\ \E c \in Cleanups : CloseNetwork(c)
            /\ UNCHANGED toCaller
    /\ UNCHANGED <<callerVars, reaperVars, exit, signal, loopVars, filtered, helpers,
                   initVars, processVars, toWorker, resultQ, toInit, fromInit, bwrap, seen>>

GivesUp ==
    /\ exit = "up" /\ at = "giveup" /\ bwrap # "up"
    /\ WorkerExits("err") /\ \E d \in BOOLEAN : DrainNetwork(d)
    /\ UNCHANGED <<callerVars, reaperVars, signal, loopVars, filtered, net, initVars,
                   processVars, controlQ, resultQ, initQ, seen>>

-----------------------------------------------------------------------------
(* The worker's loop: signals, the session, the owner, the control endpoint, init. *)

SendInit(m) == toInit' = IF InitClosed THEN toInit ELSE Append(toInit, m)

\* The mutant asks init to stop although the network may still be open.
AskOrKillAlways(c) == SendInit(<<"Stop">>) /\ UNCHANGED bwrap

\* The mutant leaves the isolation alone when the cut failed.
AskOnly(c) == IF c = "Unconfirmed" THEN UNCHANGED <<toInit, bwrap>>
              ELSE SendInit(<<"Stop">>) /\ UNCHANGED bwrap

\* After the cut init is asked to stop; without a confirmed cut bwrap is killed.
AskOrKill(c) ==
    IF c = "Unconfirmed"
    THEN bwrap' = (IF bwrap = "up" THEN "killed" ELSE bwrap) /\ UNCHANGED toInit
    ELSE SendInit(<<"Stop">>) /\ UNCHANGED bwrap

\* begin_stop, when the run was not stopping yet.
BeginStop ==
    /\ stopping' = TRUE
    /\ IF stopping
       THEN UNCHANGED <<cleanup, diagnosed, net, toInit, bwrap>>
       ELSE \E c \in Cleanups :
               /\ CloseNetwork(c) /\ cleanup' = c
               /\ diagnosed' = (diagnosed \/ c = "Unconfirmed")
               /\ AskOrKill(c)

\* take_shutdown_requested: Ctrl+C alone is left to the command.
CheckSignals ==
    /\ exit = "up" /\ at = "signals"
    /\ at' = "session" /\ signal' = "no"
    /\ IF signal = "term" /\ ~stopping
       THEN /\ reason' = strongest_reason(reason, "StopRequested")
            /\ seen' = seen \union {"StopRequested"}
            /\ BeginStop
       ELSE UNCHANGED <<reason, seen, stopping, cleanup, diagnosed, net, toInit, bwrap>>
    /\ UNCHANGED <<callerVars, reaperVars, exit, ownerLost, controlLost, wmain, initReady,
                   failed, filtered, helpers, initVars, processVars, controlQ, resultQ,
                   fromInit, cut>>

\* A session that reports itself Unsafe ends the run at once; then init's socket is polled.
PollSession ==
    /\ exit = "up" /\ at = "session"
    /\ at' = "owner" /\ initReady' = (fromInit # <<>> \/ InitClosed)
    /\ \/ UNCHANGED <<reason, seen, stopping, cleanup, diagnosed, net, bwrap>>
       \/ /\ ~stopping /\ net # "none"
          /\ reason' = "InfrastructureFailure" /\ stopping' = TRUE /\ diagnosed' = TRUE
          /\ seen' = seen \union {"InfrastructureFailure"}
          /\ \E c \in Cleanups : CloseNetwork(c) /\ cleanup' = c
          /\ bwrap' = IF bwrap = "up" THEN "killed" ELSE bwrap
    /\ UNCHANGED <<callerVars, reaperVars, exit, signal, ownerLost, controlLost, wmain, failed,
                   filtered, helpers, initVars, processVars, controlQ, resultQ, initQ>>

\* The mutant waits for the control endpoint to be lost as well.
OwnerAndControlGone == ~ownerLost /\ ~owner /\ ControlClosed

OwnerGone == ~ownerLost /\ ~owner

CheckOwner ==
    /\ exit = "up" /\ at = "owner"
    /\ at' = "control"
    /\ IF OwnerGone
       THEN /\ ownerLost' = TRUE
            /\ reason' = strongest_reason(reason, "OwnerLost")
            /\ seen' = seen \union {"OwnerLost"}
            /\ BeginStop
       ELSE UNCHANGED <<ownerLost, reason, seen, stopping, cleanup, diagnosed, net, toInit,
                        bwrap>>
    /\ UNCHANGED <<callerVars, reaperVars, exit, signal, controlLost, wmain, initReady, failed,
                   filtered, helpers, initVars, processVars, controlQ, resultQ, fromInit, cut>>

\* A stop, or an endpoint that is closed.
CheckControl ==
    /\ exit = "up" /\ at = "control"
    /\ at' = "reply"
    /\ IF ~controlLost /\ (toWorker # <<>> \/ ControlClosed)
       THEN LET observed == IF toWorker # <<>> THEN "StopRequested"
                            ELSE "InfrastructureFailure"
            IN  /\ toWorker' = IF toWorker # <<>> THEN Tail(toWorker) ELSE toWorker
                /\ controlLost' = (toWorker = <<>>)
                /\ reason' = strongest_reason(reason, observed)
                /\ seen' = seen \union {observed}
                /\ BeginStop
       ELSE UNCHANGED <<toWorker, controlLost, reason, seen, stopping, cleanup, diagnosed, net,
                        toInit, bwrap>>
    /\ UNCHANGED <<callerVars, reaperVars, exit, signal, ownerLost, wmain, initReady, failed,
                   filtered, helpers, initVars, processVars, toCaller, resultQ, fromInit, cut>>

\* The mutant forgets the main result it retained when init is lost.
LostForgets == [main |-> "Unknown", reason |-> "InfrastructureFailure",
                network |-> "NotApplicable", processes |-> "Unconfirmed"]

Lost == [main |-> wmain, reason |-> "InfrastructureFailure",
         network |-> "NotApplicable", processes |-> "Unconfirmed"]

\* One message of init: the main result, the end, or a connection that is lost.
ReadInit ==
    /\ exit = "up" /\ at = "reply"
    /\ \/ /\ ~initReady /\ at' = "signals"
          /\ UNCHANGED <<wmain, stopping, failed, result, fromInit>>
       \/ /\ initReady /\ fromInit # <<>> /\ Head(fromInit)[1] = "Main"
          /\ wmain' = Head(fromInit)[2] /\ stopping' = TRUE
          /\ at' = "retaining" /\ fromInit' = Tail(fromInit)
          /\ result' = IF Alive THEN Append(result, <<"Main", wmain'>>) ELSE result
          /\ UNCHANGED failed
       \/ /\ initReady /\ fromInit # <<>> /\ Head(fromInit)[1] = "Finished"
          /\ at' = "reaping" /\ fromInit' = Tail(fromInit)
          /\ failed' = [main |-> Head(fromInit)[2],
                        reason |-> strongest_reason(reason, Head(fromInit)[3]),
                        network |-> "NotApplicable", processes |-> "ConfirmedReaped"]
          /\ UNCHANGED <<wmain, stopping, result>>
       \/ /\ initReady /\ fromInit = <<>>
          /\ at' = "reaping" /\ failed' = Lost
          /\ UNCHANGED <<wmain, stopping, result, fromInit>>
    /\ UNCHANGED <<callerVars, reaperVars, exit, signal, reason, ownerLost, controlLost,
                   cleanup, diagnosed, initReady, netVars, initVars, processVars, controlQ,
                   acked, toInit, cut, bwrap, seen>>

\* The caller acknowledged the main result; the network is cut before init is released.
Retained ==
    /\ exit = "up" /\ at = "retaining" /\ (acked \/ ~Alive)
    /\ \E c \in Cleanups :
          /\ CloseNetwork(c) /\ cleanup' = c
          /\ diagnosed' = (diagnosed \/ c = "Unconfirmed")
          /\ IF ~acked
             THEN WorkerExits("err") /\ UNCHANGED toInit
             ELSE /\ at' = "signals" /\ UNCHANGED exit
                  /\ IF c = "Unconfirmed"
                     THEN bwrap' = (IF bwrap = "up" THEN "killed" ELSE bwrap) /\ UNCHANGED toInit
                     ELSE SendInit(<<"MainRetained">>) /\ UNCHANGED bwrap
    /\ acked' = FALSE
    /\ UNCHANGED <<callerVars, reaperVars, signal, reason, stopping, ownerLost, controlLost,
                   wmain, initReady, failed, filtered, helpers, initVars, processVars,
                   controlQ, result, fromInit, cut, seen>>

\* The mutant does not look at how bwrap ended.
ReapedUnchecked(o, c, d, e) ==
    [o EXCEPT !.network = c,
              !.processes = IF d THEN @ ELSE "Unconfirmed",
              !.reason = IF e THEN "InfrastructureFailure" ELSE @]

\* The outcome after bwrap, the session (closed as c) and its helpers (drained d, error e).
Reaped(o, c, d, e) ==
    [o EXCEPT !.network = c,
              !.processes = IF d /\ bwrap = "ok" THEN @ ELSE "Unconfirmed",
              !.reason = IF e \/ bwrap # "ok" THEN "InfrastructureFailure" ELSE @]

\* bwrap is waited for, the session closed and drained, and the outcome sent.
Finish ==
    /\ exit = "up" /\ at = "reaping" /\ bwrap # "up"
    /\ \E c \in Cleanups, d, e \in BOOLEAN :
          /\ IF net # "none" /\ cleanup = "NotApplicable"
             THEN CloseNetwork(c) ELSE c = cleanup /\ net' = net
          /\ IF net # "none" THEN DrainNetwork(d) /\ (e => ~d)
             ELSE d /\ ~e /\ UNCHANGED helpers
          /\ result' = IF Alive
                       THEN Append(result, <<"Finished",
                              Reaped(failed, c, d, e \/ diagnosed \/ (c = "Unconfirmed"))>>)
                       ELSE result
    /\ WorkerExits(IF Alive THEN "ok" ELSE "err")
    /\ UNCHANGED <<callerVars, reaperVars, signal, loopVars, filtered, initVars, processVars,
                   controlQ, acked, initQ, seen>>

-----------------------------------------------------------------------------
(* The first process of the isolation. *)

initUp == init \notin Gone \union {"none"}
worker == <<callerVars, reaperVars, workerVars, netVars, controlQ, resultQ, cut, bwrap>>

\* Process 1 ends, and the kernel ends every process of its namespace.
InitEnds(how) ==
    /\ init' = how
    /\ main' = IF main \in {"none", "reaped"} THEN main ELSE "gone"
    /\ others' = 0

\* The reply goes out and init ends well, or the worker is gone.
LastReply(m) ==
    IF WorkerClosed THEN InitEnds("err") /\ UNCHANGED fromInit
    ELSE InitEnds("ok") /\ fromInit' = Append(fromInit, m)

\* The mutant releases the command beside what the initializers left.
NothingReaped == others' = others

\* reap_before_release
reap_before_release == others' = 0

\* The request arrives, early descendants are ended, and the checks begin.
InitChecks ==
    /\ init = "new" /\ toInit # <<>>
    /\ toInit' = Tail(toInit) /\ init' = "checking" /\ reap_before_release
    /\ UNCHANGED <<worker, imain, ireason, istopping, ikilled, icontrolLost, asked, released,
                   main, natural, fromInit, seen>>

\* The data batches, the generated files and the visible mounts are not what was planned.
DataRefused == <<"Failed", "PlanChanged", "NotStarted">>

\* The execution limits cannot be set, or a guard does not confirm its dispatch.
GuardsRefused == <<"Failed", "HelperFailure", "NotStarted">>

\* The fork or the exec of the command reports an error.
ExecRefused == <<"Failed", "Io", "NotStarted">>

InitRefuses ==
    /\ init = "checking"
    /\ \E m \in {DataRefused, GuardsRefused, ExecRefused} : LastReply(m)
    /\ UNCHANGED <<worker, imain, ireason, istopping, ikilled, icontrolLost, asked, released,
                   natural, toInit, seen>>

\* The command is forked; init's memory of it is the pid.
InitSpawns ==
    /\ init = "checking"
    /\ init' = "confirming" /\ main' = "forked"
    /\ UNCHANGED <<worker, imain, ireason, istopping, ikilled, icontrolLost, asked, released,
                   others, natural, toInit, fromInit, seen>>

Broadcast == asked' = TRUE

\* confirm_exec saw another executable: Ready, and the loop begins.
InitConfirms ==
    /\ init = "confirming" /\ main = "run"
    /\ IF WorkerClosed
       THEN InitEnds("err") /\ UNCHANGED fromInit
       ELSE init' = "loop" /\ fromInit' = Append(fromInit, <<"Ready">>)
            /\ UNCHANGED <<main, others>>
    /\ UNCHANGED <<worker, imain, ireason, istopping, ikilled, icontrolLost, asked, released,
                   natural, toInit, seen>>

\* The mutant reaps an early end like that of any other child.
EarlyForgotten ==
    init' = "loop" /\ fromInit' = Append(fromInit, <<"Ready">>) /\ imain' = imain

\* The end of a command that was quick is kept and reported after Ready.
EarlyReported ==
    /\ init' = "retain" /\ imain' = "code"
    /\ fromInit' = fromInit \o <<<<"Ready">>, <<"Main", "code">>>>

\* The command ended with a code before its exec was seen.
InitEarly ==
    /\ init = "confirming" /\ main = "code"
    /\ IF WorkerClosed
       THEN InitEnds("err") /\ UNCHANGED <<fromInit, imain>>
       ELSE EarlyReported /\ main' = "reaped" /\ UNCHANGED others
    /\ UNCHANGED <<worker, ireason, istopping, ikilled, icontrolLost, asked, released,
                   natural, toInit, seen>>

\* The mutant takes a signal before the exec for a command that never ran.
NeverRan == "NotStarted"

MainUnconfirmed == "Unknown"

\* The mutant does not look for the death of the child.
ControlSpeaks == toInit # <<>> \/ WorkerClosed

CannotConfirm == main = "sig" \/ toInit # <<>> \/ WorkerClosed

\* It died of a signal before its exec was seen, or the control endpoint speaks.
InitUnconfirmed ==
    /\ init = "confirming" /\ CannotConfirm
    /\ LastReply(<<"Failed", IF main = "sig" THEN "HelperFailure" ELSE "Protocol",
                   MainUnconfirmed>>)
    /\ UNCHANGED <<worker, imain, ireason, istopping, ikilled, icontrolLost, asked, released,
                   natural, toInit, seen>>

\* retain_main: the result is sent and nothing else happens until it is acknowledged.
InitReapsMain ==
    /\ init = "loop" /\ main \in {"code", "sig"}
    /\ IF WorkerClosed
       THEN InitEnds("err") /\ UNCHANGED <<fromInit, imain>>
       ELSE /\ init' = "retain" /\ imain' = main /\ main' = "reaped"
            /\ fromInit' = Append(fromInit, <<"Main", main>>) /\ UNCHANGED others
    /\ UNCHANGED <<worker, ireason, istopping, ikilled, icontrolLost, asked, released,
                   natural, toInit, seen>>

\* The answers to it: a stop that crossed it, the acknowledgement, or a lost worker.
InitRetained ==
    /\ init = "retain" /\ toInit # <<>>
    /\ toInit' = Tail(toInit)
    /\ IF Head(toInit)[1] = "Stop"
       THEN /\ ireason' = "StopRequested" /\ seen' = seen \union {"StopRequested"}
            /\ UNCHANGED <<init, istopping, asked, released>>
       ELSE /\ init' = "loop" /\ istopping' = TRUE /\ released' = imain
            /\ IF istopping THEN UNCHANGED asked ELSE Broadcast
            /\ UNCHANGED <<ireason, seen>>
    /\ UNCHANGED <<worker, imain, ikilled, icontrolLost, processVars, fromInit>>

InitAbandoned ==
    /\ init = "retain" /\ toInit = <<>> /\ WorkerClosed
    /\ InitEnds("err")
    /\ UNCHANGED <<worker, imain, ireason, istopping, ikilled, icontrolLost, asked, released,
                   natural, toInit, fromInit, seen>>

\* A stop from the worker, or its endpoint closed.
InitControl ==
    /\ init = "loop" /\ main \notin {"code", "sig"} /\ ~icontrolLost
    /\ \/ /\ toInit # <<>> /\ toInit' = Tail(toInit)
          /\ ireason' = strongest_reason(ireason, "StopRequested")
          /\ seen' = seen \union {"StopRequested"}
          /\ UNCHANGED icontrolLost
       \/ /\ toInit = <<>> /\ WorkerClosed /\ icontrolLost' = TRUE
          /\ ireason' = strongest_reason(ireason, "OwnerLost")
          /\ seen' = seen \union {"OwnerLost"}
          /\ UNCHANGED toInit
    /\ istopping' = TRUE
    /\ IF istopping THEN UNCHANGED asked ELSE Broadcast
    /\ UNCHANGED <<worker, init, imain, ikilled, released, processVars, fromInit>>

\* The mutant lets the grace run only for an asked stop.
GraceEndsSometimes == istopping /\ ~ikilled /\ ireason = "StopRequested"

GraceEnds == istopping /\ ~ikilled

\* The grace is over: everything left is killed.
InitKills ==
    /\ init = "loop" /\ GraceEnds
    /\ ikilled' = TRUE /\ others' = 0
    /\ main' = IF main \in {"forked", "run"} THEN "sig" ELSE main
    /\ UNCHANGED <<worker, init, imain, ireason, istopping, icontrolLost, asked, released,
                   natural, toInit, fromInit, seen>>

\* waitpid has no child left: Finished.
InitFinishes ==
    /\ init = "loop" /\ main = "reaped" /\ others = 0
    /\ LastReply(<<"Finished", imain, ireason>>)
    /\ UNCHANGED <<worker, imain, ireason, istopping, ikilled, icontrolLost, asked, released,
                   natural, toInit, seen>>

-----------------------------------------------------------------------------
(* The kernel, the processes of the isolation, and what comes from outside. *)

rest == <<callerVars, reaperVars, workerVars, netVars, controlQ, resultQ, initQ, seen>>

\* Initializers of init's image may fork before it reads its request.
Fork ==
    /\ others < MaxOthers /\ (init = "new" \/ main = "run" \/ others > 0)
    /\ others' = others + 1
    /\ UNCHANGED <<rest, initVars, main, natural, bwrap>>

OtherEnds ==
    /\ others > 0 /\ others' = others - 1
    /\ UNCHANGED <<rest, initVars, main, natural, bwrap>>

MainExecs ==
    /\ main = "forked" /\ main' = "run"
    /\ UNCHANGED <<rest, initVars, others, natural, bwrap>>

MainEnds ==
    /\ main \in {"forked", "run"}
    /\ main' \in (IF main = "run" THEN {"code", "sig"} ELSE {"sig"})
    /\ natural' = ~asked
    /\ UNCHANGED <<rest, initVars, others, bwrap>>

\* bwrap ends with init; a mount it cannot make ends it before init runs.
BwrapEnds ==
    /\ bwrap = "up" /\ init \in Gone
    /\ bwrap' = IF init = "ok" THEN "ok" ELSE "killed"
    /\ UNCHANGED <<rest, initVars, processVars>>

BwrapRefuses ==
    /\ bwrap = "up" /\ init = "new" /\ others = 0
    /\ bwrap' = "killed" /\ init' = "killed"
    /\ UNCHANGED <<rest, imain, ireason, istopping, ikilled, icontrolLost, asked, released,
                   processVars>>

\* --die-with-parent: bwrap dies with the worker, and init with bwrap.
ParentDies ==
    \/ /\ exit # "up" /\ bwrap = "up" /\ bwrap' = "killed"
       /\ UNCHANGED <<rest, initVars, processVars>>
    \/ /\ bwrap = "killed" /\ initUp /\ InitEnds("killed")
       /\ UNCHANGED <<rest, imain, ireason, istopping, ikilled, icontrolLost, asked, released,
                      natural, bwrap>>

WorkerDies ==
    /\ "worker" \in Faults /\ exit = "up"
    /\ exit' = "killed" /\ at' = "gone"
    /\ UNCHANGED <<callerVars, reaperVars, signal, loopVars, netVars, initVars, processVars,
                   controlQ, resultQ, initQ, bwrap, seen>>

BwrapDies ==
    /\ "bwrap" \in Faults /\ bwrap = "up" /\ bwrap' = "killed"
    /\ UNCHANGED <<rest, initVars, processVars>>

\* A terminal signal reaches the worker: the handler sets a flag.
Interrupt ==
    /\ exit = "up" /\ at # "hello"
    /\ \E s \in {"int", "term"} : signal' = IF signal = "term" THEN signal ELSE s
    /\ UNCHANGED <<callerVars, reaperVars, at, exit, loopVars, netVars, initVars, processVars,
                   controlQ, resultQ, initQ, bwrap, seen>>

-----------------------------------------------------------------------------
Caller == PrepareSends \/ PrepareEnds \/ SpawnReply \/ SpawnFails
Reaper == ReapMain \/ ReapResult \/ ReapWorker
Worker == \/ WorkerHello \/ WorkerPrepares \/ WorkerWaits \/ OpenNetwork \/ Launch \/ Startup
          \/ StartupFails \/ Announce \/ GivesUp \/ CheckSignals \/ PollSession \/ CheckOwner
          \/ CheckControl \/ ReadInit \/ Retained \/ Finish
FirstProcess == \/ InitChecks \/ InitRefuses \/ InitSpawns \/ InitConfirms \/ InitEarly
                \/ InitUnconfirmed \/ InitReapsMain \/ InitRetained \/ InitAbandoned
                \/ InitControl \/ InitKills \/ InitFinishes
Outside == \/ Spawn \/ RequestStop \/ Drop \/ CallerDies \/ WorkerDies \/ BwrapDies
           \/ Interrupt \/ Fork \/ OtherEnds \/ MainExecs \/ MainEnds \/ BwrapEnds
           \/ BwrapRefuses \/ ParentDies

Next == Caller \/ Reaper \/ Worker \/ FirstProcess \/ Outside

Spec == Init /\ [][Next]_vars

\* Every thread and process that is not killed goes on, the kernel delivers what it owes,
\* and a forked child reaches its exec or dies.  Nothing makes the command end, and nobody
\* has to stop or drop a run.
FairSpec ==
    /\ Spec
    /\ WF_vars(Caller) /\ WF_vars(Reaper) /\ WF_vars(Worker)
    /\ WF_vars(InitChecks) /\ WF_vars(InitRefuses \/ InitSpawns)
    /\ WF_vars(InitConfirms) /\ WF_vars(InitEarly) /\ WF_vars(InitUnconfirmed)
    /\ WF_vars(InitReapsMain) /\ WF_vars(InitRetained) /\ WF_vars(InitAbandoned)
    /\ WF_vars(InitControl) /\ WF_vars(InitKills) /\ WF_vars(InitFinishes)
    /\ WF_vars(MainExecs \/ (main = "forked" /\ MainEnds))
    /\ WF_vars(BwrapEnds) /\ WF_vars(ParentDies)

-----------------------------------------------------------------------------
(* Properties. *)

TypeOK ==
    /\ caller \in {"preparing", "prepared", "spawning", "failing", "running", "dropped",
                   "over", "dead"}
    /\ owner \in BOOLEAN /\ stop \in BOOLEAN /\ startError \in StartErrors \union {None}
    /\ reaper \in {"none", "recv", "wait", "reaped", "unreaped"} /\ kept \in Mains
    /\ received \in Outcomes \union {None} /\ outcome \in Outcomes \union {None}
    /\ filtered \in BOOLEAN /\ net \in {"none", "open", "closed"} /\ helpers \in BOOLEAN
    /\ exit \in Gone \union {"up"} /\ signal \in {"no", "int", "term"}
    /\ reason \in Reasons /\ cleanup \in Cleanups /\ wmain \in Mains
    /\ bwrap \in {"none", "up", "ok", "killed"}
    /\ init \in Gone \union {"none", "new", "checking", "confirming", "retain", "loop"}
    /\ imain \in Mains /\ ireason \in Reasons
    /\ main \in {"none", "forked", "run", "code", "sig", "reaped", "gone"}
    /\ others \in 0 .. MaxOthers
    /\ Len(toWorker) <= 1 /\ Len(toCaller) <= 2 /\ Len(result) <= 1 /\ Len(toInit) <= 2
    /\ Len(fromInit) <= 2

\* Once init was released with the result of the main command, every outcome of the run
\* carries it, whatever fails afterwards (init.rs retain_main: descendant shutdown may
\* fail "without erasing a known main result").
MainKept == released # "none" /\ outcome # None => outcome.main = released

\* ConfirmedReaped is said only when no process of the isolation, no helper of the network
\* and no bwrap is left and all of them ended in order (run_worker, reap).
HonestOutcome ==
    outcome # None /\ outcome.processes = "ConfirmedReaped" =>
        main = "reaped" /\ others = 0 /\ bwrap = "ok" /\ exit = "ok" /\ ~helpers

\* The network is reported blocked only when it is, and left out only without a filter.
HonestNetwork ==
    outcome # None =>
        /\ outcome.network = "ConfirmedBlocked" => net = "closed"
        /\ outcome.network = "NotApplicable" => ~filtered

\* The outcome's reason outranks every reason the worker and init observed, in any order
\* (strongest_reason), unless the worker never got to report one.
ReasonRanked ==
    outcome # None => \A r \in seen : Priority(r) <= Priority(outcome.reason)

\* A run that is reported Completed ended by itself, and how it ended is known, however
\* quick the command was: nobody was asked to stop before (run_worker, init, confirm_exec).
CompletedIsTrue ==
    outcome # None /\ outcome.reason = "Completed" =>
        natural /\ outcome.main \in {"code", "sig"}

\* While the worker lives, the processes are asked to end only after the network was cut
\* (begin_stop and the Main branch of run_worker; init asks only when told or released).
CutBeforeAsked == asked /\ exit = "up" /\ ~cut => net # "open"

\* A StartError that says the command was not started, or that everything was cleaned up,
\* is right about it (run_worker's three failures, confirm_exec, PreparedRun::spawn).
HonestStartError ==
    startError # None /\ caller = "over" =>
        /\ startError.main = "NotStarted" => main = "none"
        /\ startError.kind \in {"PlanChanged", "ResourceConflict", "UnsupportedEnvironment"} =>
               main = "none"
        /\ startError.cleanup = "Confirmed" => ~initUp /\ others = 0 /\ ~helpers /\ exit # "up"

\* The command starts beside no other process of the isolation (reap_before_release).
ReleasedAlone == main = "none" /\ main' # "none" => others = 0

\* A run whose owner is gone (dropped, or the caller died) ends completely.
OwnerLossEnds == ~owner ~> (exit # "up" /\ ~initUp /\ bwrap # "up")

\* A stop that was requested leads to an outcome, however stubborn the processes are.
StopEnds == (stop /\ Alive) ~> (outcome # None \/ ~Alive)

\* The end of the main command leads to an outcome although other processes go on.
MainEndFinishes == (main \in {"code", "sig"} /\ caller = "running") ~> (outcome # None \/ ~Alive)

\* spawn returns: started, or failed with the worker's end known.
SpawnReturns == (caller \in {"spawning", "failing"}) ~> (caller \notin {"spawning", "failing"})

\* What a run reports is so: its main result, its reason, its network, its processes, and
\* what a start that failed says of itself.
HonestReport ==
    /\ TypeOK /\ MainKept /\ HonestOutcome /\ HonestNetwork
    /\ ReasonRanked /\ CompletedIsTrue /\ HonestStartError

\* What every step keeps: the command starts alone, and the network is cut before anything is asked to end.
OrderKept == ReleasedAlone /\ CutBeforeAsked'

\* A run ends once it has a reason to, and spawn returns.
ExecutionEnds == OwnerLossEnds /\ StopEnds /\ MainEndFinishes /\ SpawnReturns
=============================================================================
