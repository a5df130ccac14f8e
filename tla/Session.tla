------------------------------ MODULE Session -------------------------------
(***************************************************************************)
(* The filtered network's Session (crates/kakoi-net/src/session.rs) with   *)
(* what it owns and races with: the Transport and its nft gate, the        *)
(* watchdog process, the rebuild worker, the DNS runtime's permission      *)
(* thread, and time.                                                       *)
(*                                                                         *)
(* The controller is one thread: activate, poll and close_until run one    *)
(* at a time, and pc says in which blocking call it is.  An nft run is     *)
(* started (nft = "pending"), may commit in the kernel ("committed") and   *)
(* then returns success, or returns an error whether it committed or not   *)
(* (nft.rs: "a failure does not prove that the kernel rejected the         *)
(* transaction").  Instants are modelled by the time left until them, and  *)
(* a heartbeat stamp by its freshness: the watchdog timeout minus its age. *)
(***************************************************************************)
EXTENDS RecoveryTiming, Integers, FiniteSets

CONSTANTS
    Timeout,        \* WATCHDOG_TIMEOUT
    Window,         \* HEALTH_WINDOW_MS: the lease a renewal grants
    Interval,       \* HEALTH_INTERVAL between renewals
    QueueCap,       \* heartbeats the watchdog's socket holds
    Guards,         \* names for the watchdogs' private tables
    None,           \* no watchdog
    PromptStart     \* a new monitor answers its first stamp before it can expire

ASSUME SessionAssumption ==
    /\ Timeout \in Nat \ {0}
    /\ Window \in Nat \ {0}
    /\ Interval \in Nat
    /\ QueueCap \in Nat \ {0}
    /\ None \notin Guards
    /\ PromptStart \in BOOLEAN

VARIABLES
    alive,          \* the controller process exists
    pc,             \* the blocking call the controller is in
    nft,            \* that call's nft run
    then,           \* what follows the closure under way
    state,          \* Session.state
    automatic,      \* Session.automatic
    nextHealth,     \* Session.next_health
    over,           \* history: an explicit shutdown was confirmed, or Unsafe entered
    dns,            \* Session.dns
    adopting,       \* whose permission transaction is running in the kernel
    grants,         \* whose permissions the policy table holds
    wd,             \* Session.watchdog, by the name of its private table
    mon,            \* the monitor process
    monLeft,        \* its deadline
    hb,             \* heartbeats on the way to it
    ack,            \* the newest acknowledged stamp, -1 before the first
    quiet,          \* history: time since a stamp was sent or the monitor began
    guard,          \* table kakoi_guard exists
    private,        \* private watchdog tables that exist
    lease,          \* life left in the set kakoi_health live
    transport,      \* who owns the Transport
    closed,         \* Transport.closed_confirmed
    pasta,          \* both pasta processes run
    retired,        \* retired_guards, wherever the Transport is
    recovery,       \* Session.recovery
    phase,          \* the rebuild worker
    cancel,         \* its cancellation flag
    attempt         \* the attempt it works on

control == <<pc, nft, then, state, automatic, nextHealth, over>>
dnsVars == <<dns, adopting, grants>>
watch   == <<wd, mon, monLeft, hb, ack, quiet>>
gate    == <<guard, private, lease>>
carrier == <<transport, closed, pasta, retired>>
work    == <<phase, cancel, attempt>>
vars    == <<alive, control, dnsVars, watch, gate, carrier, recovery, work>>

Working == {"cleanup", "cleaned", "restart", "policy", "replaced"}
Joinable == {"ok", "err", "panicked"}
Larger(a, b) == IF a >= b THEN a ELSE b
Less(t) == IF t > 0 THEN t - 1 ELSE t

\* Traffic crosses the intermediate namespace: no closing table, and a live lease.
GateOpen == ~guard /\ private = {} /\ lease > 0

\* After Session::prepare: everything runs, nothing is open yet.
Init ==
    /\ alive = TRUE
    /\ pc = "idle" /\ nft = "none" /\ then = "none"
    /\ state = "Prepared" /\ automatic = FALSE /\ nextHealth = 0 /\ over = "no"
    /\ dns = "live" /\ adopting = "none" /\ grants = {}
    /\ wd \in Guards /\ mon = "watching" /\ monLeft = Timeout
    /\ hb = <<>> /\ ack = Timeout /\ quiet = 0
    /\ guard = FALSE /\ private = {} /\ lease = 0
    /\ transport = "session" /\ closed = FALSE /\ pasta = TRUE /\ retired = {}
    /\ recovery = RecoveryNew
    /\ phase = "none" /\ cancel = FALSE /\ attempt = 0

-----------------------------------------------------------------------------
(* The checks and the closure every controller call shares. *)

\* TransitWatchdog::poll: it has not exited, and its newest answer is not too old.
\* A monitor that is already closing transit still looks healthy.
WatchdogHealthy == mon \in {"watching", "closing", "committed"} /\ ack > 0

\* Session::verify
Verify == transport = "session" /\ pasta /\ dns = "live" /\ WatchdogHealthy

\* TransitWatchdog::heartbeat fails on a full queue and on a monitor that stopped reading.
CanHeartbeat == mon = "watching" /\ Len(hb) < QueueCap

\* TransitWatchdog::heartbeat sends a stamp of now.
Heartbeat ==
    /\ hb' = Append(hb, Timeout)
    /\ quiet' = 0
    /\ UNCHANGED <<wd, mon, monLeft, ack>>

\* Session::close_until up to its nft run: automatic recovery ends first, a worker is
\* cancelled, and a closure confirmed earlier is not made again (Transport::close_until).
BeginClose(next, held, rebuilding) ==
    /\ pc' = "closing"
    /\ then' = next
    /\ nft' = IF held /\ ~closed THEN "pending" ELSE "none"
    /\ automatic' = FALSE
    /\ cancel' = rebuilding
    /\ UNCHANGED <<state, nextHealth, over, attempt>>

\* Session::fail, which recovers only a session that was running.
Fail ==
    /\ BeginClose(IF state = "Running" THEN "recover" ELSE "fail",
                  transport = "session", phase # "none")
    /\ UNCHANGED phase

\* A closure that leaves the DNS runtime running.
DnsAfterCloseLive == dns

\* The runtime is told to stop, whether or not the closure was confirmed.
DnsAfterClose == IF dns = "live" THEN "stopping" ELSE dns

\* A retired watchdog's private table is remembered for the next cleanup.
Retired == IF wd = None THEN retired ELSE retired \cup {wd}

\* finish_rebuild does not restore what close_until cleared.
ResumesOnce == then = "recover"

\* The callers of a confirmed closure that turn automatic recovery on again.
Resumes == then \in {"recover", "retry"}

\* Session::close_until after its nft run, and what its caller does next:
\* fail (recover, fail), finish_rebuild (retry, giveup) or the shutdown (shut).
EndClose(confirmed) ==
    /\ pc' = "idle" /\ nft' = "none" /\ then' = "none"
    /\ dns' = DnsAfterClose
    /\ closed' = (closed \/ (confirmed /\ transport = "session"))
    /\ IF confirmed
       THEN /\ state' = "Isolated"
            /\ wd' = None /\ mon' = "none" /\ monLeft' = 0
            /\ hb' = <<>> /\ ack' = -1 /\ quiet' = 0
            /\ retired' = Retired
            /\ automatic' = Resumes
            /\ recovery' = IF then = "recover" THEN RecoveryIsolate(recovery)
                           ELSE recovery
            /\ over' = IF then = "shut" THEN "shut" ELSE over
       ELSE /\ state' = "Unsafe"
            /\ over' = IF over = "no" THEN "unsafe" ELSE over
            /\ UNCHANGED <<watch, retired, automatic, recovery>>
    /\ UNCHANGED <<alive, nextHealth, adopting, grants, gate, transport, pasta, work>>

\* A closure that counts as confirmed before nft answered.
CloseReturnsOkUnasked ==
    /\ alive /\ pc = "closing"
    /\ transport = "session" \/ (phase # "none" /\ state = "Isolated")
    /\ EndClose(TRUE)

CloseReturnsOk ==
    /\ alive /\ pc = "closing"
    /\ IF transport = "session" THEN closed \/ nft = "committed"
       ELSE phase # "none" /\ state = "Isolated"
    /\ EndClose(TRUE)

CloseReturnsErr ==
    /\ alive /\ pc = "closing"
    /\ IF transport = "session" THEN ~closed
       ELSE ~(phase # "none" /\ state = "Isolated")
    /\ EndClose(FALSE)

-----------------------------------------------------------------------------
(* Session::activate, Session::poll while the session is up, the shutdown. *)

\* A check, the heartbeat, and the start of the renewal (Session::refresh).  The
\* confirmed closure is forgotten before the renewal runs (Transport::renew_for).
BeginRefresh ==
    /\ Heartbeat
    /\ pc' = "renew" /\ nft' = "pending"
    /\ closed' = FALSE
    /\ UNCHANGED <<then, state, automatic, nextHealth, over, transport, pasta, retired, work>>

\* Session::activate: only a prepared session.
Activate ==
    /\ alive /\ pc = "idle" /\ state = "Prepared"
    /\ IF Verify /\ CanHeartbeat
       THEN BeginRefresh
       ELSE Fail /\ UNCHANGED <<watch, carrier>>
    /\ UNCHANGED <<alive, dnsVars, gate, recovery>>

\* Session::poll on a session that is up: verify, DnsRuntime::poll, then a refresh
\* when one is due and a heartbeat otherwise.
PollUp ==
    /\ alive /\ pc = "idle" /\ state \in {"Prepared", "Running"}
    /\ CASE ~(Verify /\ CanHeartbeat) -> Fail /\ UNCHANGED <<watch, carrier>>
         [] Verify /\ CanHeartbeat /\ state = "Running" /\ nextHealth = 0 ->
               BeginRefresh
         [] OTHER -> Heartbeat /\ UNCHANGED <<control, carrier, work>>
    /\ UNCHANGED <<alive, dnsVars, gate, recovery>>

\* The same poll when DnsRuntime::poll fails: the runtime stops itself first.
PollDnsFault ==
    /\ alive /\ pc = "idle" /\ state \in {"Prepared", "Running"}
    /\ Verify
    /\ dns' = "stopping"
    /\ Fail
    /\ UNCHANGED <<alive, adopting, grants, watch, gate, carrier, recovery>>

\* The renewal returned success: verify again, and the session is running.
RefreshEnds ==
    /\ alive /\ pc = "renew" /\ nft = "committed"
    /\ IF Verify
       THEN /\ pc' = "idle" /\ nft' = "none"
            /\ state' = "Running" /\ nextHealth' = Interval
            /\ UNCHANGED <<then, automatic, over, work>>
       ELSE Fail
    /\ UNCHANGED <<alive, dnsVars, watch, gate, carrier, recovery>>

RefreshFails ==
    /\ alive /\ pc = "renew"
    /\ Fail
    /\ UNCHANGED <<alive, dnsVars, watch, gate, carrier, recovery>>

\* run.rs block, and Drop: an explicit close_until between two polls.
Shutdown ==
    /\ alive /\ pc = "idle"
    /\ BeginClose("shut", transport = "session", phase # "none")
    /\ UNCHANGED <<alive, phase, dnsVars, watch, gate, carrier, recovery>>

-----------------------------------------------------------------------------
(* Session::poll_isolated and Session::finish_rebuild. *)

\* A poll that does not wait for the old runtime's permission thread.
DnsDoneUnawaited == TRUE

\* poll_isolated returns early while a stopped DNS runtime has unfinished work.
DnsDone == dns \in {"none", "finished"}

\* The early return for a session that does not recover, taken before the join.
PollIsolatedIfWanted ==
    alive /\ pc = "idle" /\ state \in {"Isolated", "Unsafe"} /\ DnsDone /\ automatic

\* The part of poll_isolated before it looks at the worker and the Recovery.
PollIsolated ==
    alive /\ pc = "idle" /\ state \in {"Isolated", "Unsafe"} /\ DnsDone

\* Recovery says Start: the old runtime is dropped, and the Transport and the retired
\* guards move into a new worker.  The worker has nothing to clean up when no guard
\* was retired.
StartRebuild ==
    /\ PollIsolated
    /\ phase \notin Joinable /\ automatic /\ state # "Unsafe"
    /\ RecoveryAction(recovery) = "Start"
    /\ recovery' = RecoveryPoll(recovery)
    /\ attempt' = recovery'.generation
    /\ cancel' = FALSE
    /\ phase' = IF retired = {} THEN "restart" ELSE "cleanup"
    /\ transport' = "rebuild"
    /\ dns' = "none"
    /\ adopting' = IF adopting = "current" THEN "old" ELSE adopting
    /\ grants' = IF grants = {} THEN {} ELSE {"old"}
    /\ UNCHANGED <<alive, control, watch, gate, closed, pasta, retired>>

\* The worker cannot be spawned: its Transport is dropped and the session is Unsafe.
StartRebuildFails ==
    /\ PollIsolated
    /\ phase \notin Joinable /\ automatic /\ state # "Unsafe"
    /\ RecoveryAction(recovery) = "Start"
    /\ recovery' = RecoveryPoll(recovery)
    /\ state' = "Unsafe" /\ automatic' = FALSE
    /\ over' = IF over = "no" THEN "unsafe" ELSE over
    /\ transport' = "lost" /\ pasta' = FALSE /\ retired' = {}
    /\ dns' = "none"
    /\ adopting' = IF adopting = "current" THEN "old" ELSE adopting
    /\ grants' = IF grants = {} THEN {} ELSE {"old"}
    /\ UNCHANGED <<alive, pc, nft, then, nextHealth, watch, gate, closed, work>>

\* Recovery says Cancel: the worker is told, and keeps its slot until it returns.
CancelRebuild ==
    /\ PollIsolated
    /\ phase \notin Joinable /\ automatic /\ state # "Unsafe"
    /\ RecoveryAction(recovery) = "Cancel"
    /\ recovery' = RecoveryPoll(recovery)
    /\ cancel' = (cancel \/ phase # "none")
    /\ UNCHANGED <<alive, control, dnsVars, watch, gate, carrier, phase, attempt>>

\* The worker panicked: the Transport went with it, which ends the session.
JoinPanicked ==
    /\ PollIsolated
    /\ phase = "panicked"
    /\ phase' = "none"
    /\ state' = "Unsafe" /\ automatic' = FALSE
    /\ over' = IF over = "no" THEN "unsafe" ELSE over
    /\ transport' = "lost" /\ retired' = {}
    /\ UNCHANGED <<alive, pc, nft, then, nextHealth, dnsVars, watch, gate, closed,
                   pasta, recovery, cancel, attempt>>

\* A result is admitted without asking whether the session still wants one.
AdmissibleAfterShutdown == recovery.left > 0

\* finish_rebuild takes a result only if recovery is still wanted, in time.
Admissible == automatic /\ recovery.left > 0

\* A failed attempt that always asks for the next one.
AttemptFailsRetrying(succeeded) ==
    /\ recovery' = RecoveryComplete(recovery, succeeded)
    /\ BeginClose("retry", TRUE, FALSE)

\* The rest of finish_rebuild when the attempt did not succeed: it is reported to the
\* Recovery and the closure is made or confirmed again.
AttemptFails(succeeded) ==
    /\ recovery' = RecoveryComplete(recovery, succeeded)
    /\ BeginClose(IF automatic THEN "retry" ELSE "giveup", TRUE, FALSE)

\* A worker that succeeded is joined: its runtime is the session's, and a watchdog is
\* started, which first sends itself a stamp.  Without a free name
\* TransitWatchdog::start fails ("watchdog generation exhausted").
JoinRebuilt ==
    /\ PollIsolated
    /\ phase = "ok" /\ phase' = "none"
    /\ transport' = "session"
    /\ dns' = "live"
    /\ Admissible
    /\ \E name \in Guards \ (private \cup retired) :
          /\ wd' = name /\ mon' = "starting" /\ monLeft' = 0
          /\ hb' = <<Timeout>> /\ ack' = -1 /\ quiet' = 0
    /\ pc' = "startwd"
    /\ UNCHANGED <<alive, nft, then, state, automatic, nextHealth, over, adopting, grants,
                   gate, closed, pasta, retired, recovery, cancel, attempt>>

\* A worker that failed, or whose result is not admissible or finds no name for a
\* watchdog, is joined: the attempt has failed.  A runtime it made is still collected.
JoinFailed ==
    /\ PollIsolated
    /\ \/ phase = "err" /\ dns' = dns
       \/ /\ phase = "ok" /\ dns' = "live"
          /\ ~Admissible \/ Guards \subseteq private \cup retired
    /\ phase' = "none"
    /\ transport' = "session"
    /\ AttemptFails(FALSE)
    /\ UNCHANGED <<alive, adopting, grants, watch, gate, closed, pasta, retired>>

\* TransitWatchdog::start returned: verify, and start the transaction that reopens.
WatchdogReady ==
    /\ alive /\ pc = "startwd" /\ ack >= 0
    /\ IF Verify
       THEN /\ pc' = "reopen" /\ nft' = "pending" /\ closed' = FALSE
            /\ UNCHANGED <<then, state, automatic, nextHealth, over, recovery, work>>
       ELSE AttemptFails(FALSE) /\ UNCHANGED <<closed, phase>>
    /\ UNCHANGED <<alive, dnsVars, watch, gate, transport, pasta, retired>>

\* TransitWatchdog::start failed: the monitor is killed and reaped, and the session
\* never learns the name of its private table.
WatchdogStartFails ==
    /\ alive /\ pc = "startwd" /\ ack = -1
    /\ AttemptFails(FALSE)
    /\ wd' = None /\ mon' = "none" /\ monLeft' = 0 /\ hb' = <<>> /\ quiet' = 0
    /\ UNCHANGED <<alive, phase, ack, dnsVars, gate, carrier>>

\* The reopening returned success: verify once more and report the attempt, whose
\* time may have run out meanwhile.
ReopenEnds ==
    /\ alive /\ pc = "reopen" /\ nft = "committed"
    /\ IF Verify /\ RecoverySuccess(recovery, TRUE)
       THEN /\ pc' = "idle" /\ nft' = "none"
            /\ state' = "Running" /\ nextHealth' = Interval
            /\ recovery' = RecoveryComplete(recovery, TRUE)
            /\ UNCHANGED <<then, automatic, over, work>>
       ELSE AttemptFails(Verify) /\ UNCHANGED phase
    /\ UNCHANGED <<alive, dnsVars, watch, gate, carrier>>

ReopenFails ==
    /\ alive /\ pc = "reopen"
    /\ AttemptFails(FALSE)
    /\ UNCHANGED <<alive, phase, dnsVars, watch, gate, carrier>>

-----------------------------------------------------------------------------
(* The kernel takes a transaction of the controller, whether or not the *)
(* controller is still there to see it.                                 *)

Commits(call) ==
    /\ pc = call /\ nft = "pending"
    /\ nft' = "committed"
    /\ UNCHANGED <<alive, pc, then, state, automatic, nextHealth, over, dnsVars, watch,
                   private, carrier, recovery, work>>

\* renewal_script: the lease is replaced, the guard is not touched.
RenewCommits == Commits("renew") /\ lease' = Window /\ UNCHANGED guard

\* HealthGate::reopen_until: the lease is renewed and the common guard deleted.
ReopenCommits == Commits("reopen") /\ lease' = Window /\ guard' = FALSE

\* A closure that only flushes the lease.
CloseCommitsLeaseOnly == Commits("closing") /\ lease' = 0 /\ UNCHANGED guard

\* HealthGate::close_until: the common guard is added and the lease flushed.
CloseCommits == Commits("closing") /\ lease' = 0 /\ guard' = TRUE

-----------------------------------------------------------------------------
(* The monitor process of the watchdog (namespace/watchdog.rs monitor). *)

MonitorBegins ==
    /\ mon = "starting"
    /\ mon' = "watching" /\ monLeft' = Timeout /\ quiet' = 0
    /\ UNCHANGED <<alive, control, dnsVars, wd, hb, ack, gate, carrier, recovery, work>>

\* Every way out of the loop leads to the closing transaction.
MonitorStops ==
    /\ mon' = "closing" /\ monLeft' = 0 /\ hb' = <<>> /\ quiet' = 0
    /\ UNCHANGED <<alive, control, dnsVars, wd, ack, gate, carrier, recovery, work>>

\* A heartbeat extends the lease from its arrival, however old its stamp is.
MonitorDeadlineFromArrival(stamp) == Timeout

\* The deadline a heartbeat moves the monitor to: stamp + timeout, never backwards.
MonitorDeadline(stamp) == Larger(monLeft, stamp)

MonitorReceives ==
    /\ mon = "watching" /\ monLeft > 0 /\ alive
    /\ hb # <<>> /\ Head(hb) > 0
    /\ monLeft' = MonitorDeadline(Head(hb))
    /\ ack' = Larger(ack, Head(hb))
    /\ hb' = Tail(hb)
    /\ UNCHANGED <<alive, control, dnsVars, wd, mon, quiet, gate, carrier, recovery, work>>

\* A monitor that only wakes up for messages.
MonitorExpiresOnMessage ==
    /\ mon = "watching"
    /\ PromptStart => pc # "startwd" \/ ack >= 0 \/ ~alive
    /\ hb # <<>> /\ Head(hb) = 0
    /\ MonitorStops

\* The deadline has passed, the controller is gone, or the next stamp is too old.
MonitorExpires ==
    /\ mon = "watching"
    /\ PromptStart => pc # "startwd" \/ ack >= 0 \/ ~alive
    /\ monLeft = 0 \/ ~alive \/ (hb # <<>> /\ Head(hb) = 0)
    /\ MonitorStops

\* A poll, receive or send of the monitor fails.
MonitorErrs ==
    /\ mon = "watching"
    /\ PromptStart => pc # "startwd" \/ ack >= 0
    /\ MonitorStops

\* A closing script without the private table, which a reopening would undo.
MonitorCommitsCommonOnly ==
    /\ mon = "closing"
    /\ mon' = "committed"
    /\ guard' = TRUE
    /\ UNCHANGED <<alive, control, dnsVars, wd, monLeft, hb, ack, quiet, private, lease,
                   carrier, recovery, work>>

\* The nft the monitor became commits: the common guard and its private table.
MonitorCommits ==
    /\ mon = "closing"
    /\ mon' = "committed"
    /\ guard' = TRUE
    /\ private' = private \cup {wd}
    /\ UNCHANGED <<alive, control, dnsVars, wd, monLeft, hb, ack, quiet, lease, carrier,
                   recovery, work>>

\* It exits: with status 0 once it committed, or failed (nft, the alarm, a kill).
MonitorExits ==
    /\ \/ mon = "committed" /\ mon' = "closed"
       \/ mon \in {"starting", "watching", "closing", "committed"} /\ mon' = "failed"
    /\ monLeft' = 0 /\ hb' = <<>> /\ quiet' = 0
    /\ UNCHANGED <<alive, control, dnsVars, wd, ack, gate, carrier, recovery, work>>

-----------------------------------------------------------------------------
(* The rebuild worker (session/rebuild.rs).  Its operations share the       *)
(* attempt's deadline and check the cancellation flag.                      *)

InTime == ~cancel /\ recovery.left > 0

WorkerStep(from, to) ==
    /\ phase = from /\ phase' = to
    /\ UNCHANGED <<alive, control, dns, adopting, watch, guard, lease, transport,
                   recovery, cancel, attempt>>

\* The transaction that deletes the retired private tables is taken by the kernel.
CleanupCommits ==
    /\ WorkerStep("cleanup", "cleaned")
    /\ private' = private \ retired
    /\ UNCHANGED <<grants, closed, pasta, retired>>

\* It returned success: the names are forgotten.
CleanupEnds ==
    /\ alive /\ InTime
    /\ WorkerStep("cleaned", "restart")
    /\ retired' = {}
    /\ UNCHANGED <<grants, private, closed, pasta>>

\* Transport::restart_controlled: both pasta processes are replaced.  The closure it
\* makes first is already confirmed (see RebuildBehindGuard).
Restart ==
    /\ alive /\ InTime /\ closed
    /\ WorkerStep("restart", "policy")
    /\ pasta' = TRUE
    /\ UNCHANGED <<grants, private, closed, retired>>

\* The policy table is deleted and made again, without any dynamic permission.
PolicyCommits ==
    /\ WorkerStep("policy", "replaced")
    /\ grants' = {}
    /\ UNCHANGED <<private, closed, pasta, retired>>

\* It returned success in time, and the new DnsRuntime was made.
RebuildEnds ==
    /\ alive /\ InTime
    /\ WorkerStep("replaced", "ok")
    /\ UNCHANGED <<grants, private, closed, pasta, retired>>

\* Any step returns an error; a restart has dropped the old processes by then.
RebuildFails ==
    /\ alive /\ phase \in Working
    /\ WorkerStep(phase, "err")
    /\ pasta' = (pasta /\ phase # "restart")
    /\ UNCHANGED <<grants, private, closed, retired>>

\* The worker panics, and the Transport it owns is dropped.
RebuildPanics ==
    /\ alive /\ phase \in Working
    /\ WorkerStep(phase, "panicked")
    /\ pasta' = FALSE
    /\ UNCHANGED <<grants, private, closed, retired>>

-----------------------------------------------------------------------------
(* The DNS runtime's permission thread, the processes around, and time. *)

OnlyDns == UNCHANGED <<alive, control, watch, gate, carrier, recovery, work>>

\* A live runtime starts the transaction of one permission.
AdoptBegins ==
    /\ alive /\ dns = "live" /\ adopting = "none"
    /\ adopting' = "current"
    /\ OnlyDns /\ UNCHANGED <<dns, grants>>

\* It commits, also after the runtime was told to stop ("active nft operations are
\* bounded but not forcibly interrupted").
AdoptCommits ==
    /\ adopting # "none"
    /\ adopting' = "none"
    /\ grants' = grants \cup {adopting}
    /\ OnlyDns /\ UNCHANGED dns

AdoptFails ==
    /\ adopting # "none"
    /\ adopting' = "none"
    /\ OnlyDns /\ UNCHANGED <<dns, grants>>

\* A stopped runtime's threads have ended and were collected (DnsRuntime::is_finished).
DnsDrains ==
    /\ alive /\ dns = "stopping" /\ adopting = "none"
    /\ dns' = "finished"
    /\ OnlyDns /\ UNCHANGED <<adopting, grants>>

\* A pasta process ends by itself.
PastaDies ==
    /\ pasta /\ pasta' = FALSE
    /\ UNCHANGED <<alive, control, dnsVars, watch, gate, transport, closed, retired,
                   recovery, work>>

\* The controller process dies; an nft it started may still commit.
Crash ==
    /\ alive /\ alive' = FALSE
    /\ UNCHANGED <<control, dnsVars, watch, gate, carrier, recovery, work>>

\* A lease set without "flags timeout".
LeaseLeftForever(left) == left

\* The elements of the set kakoi_health live time out.
LeaseLeft(left) == Less(left)

Tick ==
    /\ lease' = LeaseLeft(lease)
    /\ nextHealth' = Less(nextHealth)
    /\ monLeft' = Less(monLeft)
    /\ hb' = [i \in DOMAIN hb |-> Less(hb[i])]
    /\ ack' = Less(ack)
    /\ quiet' = IF mon = "watching" /\ quiet < Timeout THEN quiet + 1 ELSE quiet
    /\ recovery' = RecoveryAge(recovery)
    /\ UNCHANGED <<alive, pc, nft, then, state, automatic, over, dnsVars, wd, mon, guard,
                   private, carrier, work>>

-----------------------------------------------------------------------------

Controller ==
    \/ Activate \/ PollUp \/ PollDnsFault \/ RefreshEnds \/ RefreshFails
    \/ Shutdown \/ CloseReturnsOk \/ CloseReturnsErr
    \/ StartRebuild \/ StartRebuildFails \/ CancelRebuild
    \/ JoinPanicked \/ JoinRebuilt \/ JoinFailed
    \/ WatchdogReady \/ WatchdogStartFails \/ ReopenEnds \/ ReopenFails

Kernel == RenewCommits \/ ReopenCommits \/ CloseCommits

Monitor ==
    \/ MonitorBegins \/ MonitorReceives \/ MonitorExpires \/ MonitorErrs
    \/ MonitorCommits \/ MonitorExits

Worker ==
    \/ CleanupCommits \/ CleanupEnds \/ Restart \/ PolicyCommits \/ RebuildEnds
    \/ RebuildFails \/ RebuildPanics

Dns == AdoptBegins \/ AdoptCommits \/ AdoptFails \/ DnsDrains

Next ==
    Controller \/ Kernel \/ Monitor \/ Worker \/ Dns \/ PastaDies \/ Crash \/ Tick

Spec == Init /\ [][Next]_vars

\* Only time is fair: the controller, its watchdog and every process may stop.
TimeSpec == Spec /\ WF_vars(Tick)

\* The monitor process is scheduled; the controller may still stop or die.
Watched ==
    /\ WF_vars(MonitorBegins) /\ WF_vars(MonitorExpires)
    /\ WF_vars(mon = "closing" /\ (MonitorCommits \/ MonitorExits))

\* The steps by which poll_isolated moves a recovery on.
PollRebuild ==
    \/ StartRebuild \/ StartRebuildFails \/ CancelRebuild
    \/ JoinPanicked \/ JoinRebuilt \/ JoinFailed

\* The controller of run.rs: it polls again and again, between explicit closures too,
\* its bounded calls return, and so do the bounded calls of the threads it owns.
Polled ==
    /\ SF_vars(PollRebuild)
    /\ WF_vars(CloseReturnsOk \/ CloseReturnsErr)
    /\ WF_vars(RefreshEnds \/ RefreshFails)
    /\ WF_vars(WatchdogReady \/ WatchdogStartFails)
    /\ WF_vars(ReopenEnds \/ ReopenFails)
    /\ WF_vars(Worker)
    /\ WF_vars(AdoptCommits \/ AdoptFails)
    /\ WF_vars(DnsDrains)

-----------------------------------------------------------------------------

TypeOK ==
    /\ alive \in BOOLEAN
    /\ pc \in {"idle", "renew", "startwd", "reopen", "closing"}
    /\ nft \in {"none", "pending", "committed"}
    /\ then \in {"none", "recover", "fail", "retry", "giveup", "shut"}
    /\ state \in {"Prepared", "Running", "Isolated", "Unsafe"}
    /\ automatic \in BOOLEAN
    /\ nextHealth \in 0..Interval
    /\ over \in {"no", "unsafe", "shut"}
    /\ dns \in {"none", "live", "stopping", "finished"}
    /\ adopting \in {"none", "current", "old"}
    /\ grants \in SUBSET {"current", "old"}
    /\ wd \in Guards \cup {None}
    /\ mon \in {"none", "starting", "watching", "closing", "committed", "closed",
                "failed"}
    /\ monLeft \in 0..Timeout
    /\ hb \in Seq(0..Timeout)
    /\ Len(hb) <= QueueCap
    /\ ack \in -1..Timeout
    /\ quiet \in 0..Timeout
    /\ guard \in BOOLEAN
    /\ private \in SUBSET Guards
    /\ lease \in 0..Window
    /\ transport \in {"session", "rebuild", "lost"}
    /\ closed \in BOOLEAN
    /\ pasta \in BOOLEAN
    /\ retired \in SUBSET Guards
    /\ recovery \in RecoveryRecord
    /\ phase \in Working \cup Joinable \cup {"none"}
    /\ cancel \in BOOLEAN
    /\ attempt \in 0..Generations - 1

\* While a session reports Isolated, transit is latched shut by the common guard,
\* except inside the calls that reopen it or close it again (Session::close_until).
IsolatedMeansClosed ==
    state = "Isolated" /\ pc \in {"idle", "startwd"} => guard

\* A rebuild worker owns a Transport whose closure is confirmed and stands, so it
\* replaces pasta, the policy and the guards behind the latch and never opens it
\* ("transit is already latched closed while a rebuild owns it").
RebuildBehindGuard ==
    phase # "none" => transport = "rebuild" /\ closed /\ guard

\* A closure the watchdog made stands whatever the controller does meanwhile: an
\* in-flight renewal or reopening cannot undo it before a rebuild has cleaned up
\* ("reopening the common guard cannot erase a concurrent watchdog close").
WatchdogCloseHolds ==
    mon \in {"committed", "closed"} => ~GateOpen

\* Once an explicit shutdown is confirmed nothing opens transit again, not a rebuild
\* that was running, nor a renewal, nor a late result.
ShutdownIsFinal ==
    over = "shut" => ~GateOpen

\* A session that was shut down, or could not confirm a closure, never runs again.
NoResume ==
    over # "no" => state \in {"Isolated", "Unsafe"} /\ ~automatic

\* Traffic never crosses with permissions of a DNS runtime that was replaced: what
\* expired during an isolation is not restored (docs/security.md).
OldGrantsGone ==
    GateOpen => "old" \notin grants

\* A rebuild and its result always belong to the attempt the Recovery is in, so
\* Recovery::complete never refuses it and no second attempt overlaps it.
AttemptIsCurrent ==
    phase # "none" \/ pc \in {"startwd", "reopen"} =>
        RecoveryAccepts(recovery, attempt)

\* When the Recovery asks for the next attempt, the Transport is back in the session's
\* hands: poll_isolated's expect("no overlapping recovery") never panics.
NoOverlappingRecovery ==
    /\ pc = "idle" /\ automatic /\ phase \notin Joinable
    /\ RecoveryAction(recovery) = "Start"
    => transport = "session"

\* The monitor's deadline is never later than one timeout after the last stamp the
\* controller sent: a backlog of old heartbeats does not extend it.
HeartbeatLease ==
    mon = "watching" => monLeft + quiet <= Timeout

\* While the session runs, the only private table that can block transit is the one
\* of its own watchdog, which its next check notices.
RestoredIsOpen ==
    state = "Running" => private \subseteq {wd}

\* Transit stays open only as long as the controller keeps renewing it: when it stalls,
\* hangs or dies, the kernel lease closes the path even if the watchdog does nothing.
OpenNeedsRenewal ==
    <>[]GateOpen => []<><<RenewCommits>>_vars

\* The death of the controller makes a scheduled watchdog latch transit shut.
WatchdogLatches ==
    Watched => (~alive ~> guard \/ private # {} \/ mon \in {"none", "failed"})

\* A session that was isolated while it ran is given another attempt, after every
\* failed one too, until it is given up; and every attempt ends, cancelled and failed
\* ones included, with its worker joined.
IsolationRetried ==
    Polled =>
        /\ recovery.state = "Waiting" ~>
               recovery.state = "Working" \/ over # "no" \/ ~alive
        /\ phase # "none" ~> phase = "none" \/ ~alive

\* Session::is_drained
Drained == ~automatic /\ phase = "none" /\ DnsDone

\* After an explicit shutdown the workers drain, so that the owner can be released.
ShutdownDrains ==
    Polled => (over = "shut" ~> Drained \/ ~alive)

-----------------------------------------------------------------------------

Contract == INSTANCE SessionContract WITH open <- GateOpen, busy <- (pc # "idle")

\* The session keeps what SessionContract promises to its owner: transit opens only inside
\* a call of a session that was not given up, a call that ends in Isolated leaves it
\* closed, and a confirmed explicit closure stands.
KeepsContract == Contract!SessionSpec

=============================================================================
