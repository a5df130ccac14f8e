--------------------------- MODULE SessionProofs ---------------------------
(***************************************************************************)
(* Safety of the Session for every value of the constants: each part of    *)
(* the inductive invariant is kept by every step, and the properties       *)
(* follow. Time, the heartbeat queue and the number of watchdog tables are *)
(* arbitrary; the monitor, the worker, the kernel and the controller       *)
(* interleave freely.                                                      *)
(***************************************************************************)
EXTENDS Session, TLAPS

\* What the operations of the session's Recovery return: a Recovery (Recovery::new, isolate).
LEMMA NewType ==
    /\ RecoveryNew \in RecoveryRecord
    /\ \A r \in RecoveryRecord : RecoveryIsolate(r) \in RecoveryRecord
<1>1. RecoveryNew \in RecoveryRecord
  BY RecoveryAssumption DEF RecoveryNew, RecoveryRecord
<1>2. ASSUME NEW r \in RecoveryRecord PROVE RecoveryIsolate(r) \in RecoveryRecord
  BY DEF RecoveryIsolate, RecoveryRecord
<1>. QED
  BY <1>1, <1>2

\* A poll that starts an attempt leaves a Recovery at work, any other one leaves its state
\* and its generation (Recovery::poll).
LEMMA PollType ==
    ASSUME NEW r \in RecoveryRecord
    PROVE  /\ RecoveryPoll(r) \in RecoveryRecord
           /\ RecoveryAction(r) = "Start" => RecoveryPoll(r).state = "Working"
           /\ RecoveryAction(r) # "Start" =>
                RecoveryPoll(r).state = r.state /\ RecoveryPoll(r).generation = r.generation
<1>1. r.generation \in 0..Generations - 1
  BY DEF RecoveryRecord
<1>2. (r.generation + 1) % Generations \in 0..Generations - 1
  BY <1>1, RecoveryAssumption
<1>3. CASE RecoveryAction(r) = "Start"
  BY <1>2, <1>3, RecoveryAssumption DEF RecoveryPoll, RecoveryRecord
<1>4. CASE RecoveryAction(r) # "Start"
  <2>1. RecoveryPoll(r) \in {r, [r EXCEPT !.cancelled = TRUE]}
    BY <1>4 DEF RecoveryPoll
  <2>. QED
    BY <1>4, <2>1 DEF RecoveryRecord
<1>. QED
  BY <1>3, <1>4

\* An attempt that is reported leaves a Recovery, and so does the passing of time, which
\* also leaves its state and its generation (Recovery::complete).
LEMMA CompleteType ==
    ASSUME NEW r \in RecoveryRecord, NEW succeeded \in BOOLEAN
    PROVE  /\ RecoveryComplete(r, succeeded) \in RecoveryRecord
           /\ RecoveryAge(r) \in RecoveryRecord
           /\ RecoveryAge(r).state = r.state /\ RecoveryAge(r).generation = r.generation
<1>. DEFINE zero  == 0
            count == IF r.failures + 1 < Len(Delays) THEN r.failures + 1 ELSE Len(Delays) - 1
            delay == Delays[r.failures + 1]
<1>1. r.failures \in 0..Len(Delays) - 1
  BY DEF RecoveryRecord
<1>2. delay \in Nat /\ count \in 0..Len(Delays) - 1 /\ zero \in Nat /\ zero \in 0..Len(Delays) - 1
  BY <1>1, RecoveryAssumption
<1>3. \/ RecoveryComplete(r, succeeded) =
           [r EXCEPT !.state = "Healthy", !.left = zero, !.cancelled = FALSE, !.failures = zero]
      \/ RecoveryComplete(r, succeeded) =
           [r EXCEPT !.state = "Waiting", !.cancelled = FALSE, !.left = delay,
                     !.failures = count]
  BY DEF RecoveryComplete
<1>4. RecoveryComplete(r, succeeded) \in RecoveryRecord
  <2>. HIDE DEF zero, count, delay
  <2>. QED
    BY <1>2, <1>3 DEF RecoveryRecord
<1>5. /\ RecoveryAge(r) \in RecoveryRecord
      /\ RecoveryAge(r).state = r.state /\ RecoveryAge(r).generation = r.generation
  BY DEF RecoveryAge, RecoveryRecord
<1>. QED
  BY <1>4, <1>5

-----------------------------------------------------------------------------
(* Types.  TypeOK is not inductive by itself: the monitor adds the table named by wd, so *)
(* a monitor must have a name (Custody).                                                *)

\* The type invariant in three parts, each within the reach of one prover: the
\* enumerations and the tables, the counters and the queue, and the Recovery.
StateType ==
    /\ alive \in BOOLEAN
    /\ pc \in {"idle", "renew", "startwd", "reopen", "closing"}
    /\ nft \in {"none", "pending", "committed"}
    /\ then \in {"none", "recover", "fail", "retry", "giveup", "shut"}
    /\ state \in {"Prepared", "Running", "Isolated", "Unsafe"}
    /\ automatic \in BOOLEAN
    /\ over \in {"no", "unsafe", "shut"}
    /\ dns \in {"none", "live", "stopping", "finished"}
    /\ adopting \in {"none", "current", "old"}
    /\ guard \in BOOLEAN
    /\ transport \in {"session", "rebuild", "lost"}
    /\ closed \in BOOLEAN
    /\ pasta \in BOOLEAN
    /\ phase \in Working \cup Joinable \cup {"none"}
    /\ cancel \in BOOLEAN

TableType ==
    /\ grants \in SUBSET {"current", "old"}
    /\ wd \in Guards \cup {None}
    /\ mon \in {"none", "starting", "watching", "closing", "committed", "closed",
                "failed"}
    /\ private \in SUBSET Guards
    /\ retired \in SUBSET Guards

TimeType ==
    /\ nextHealth \in 0..Interval
    /\ monLeft \in 0..Timeout
    /\ hb \in Seq(0..Timeout)
    /\ Len(hb) <= QueueCap
    /\ ack \in -1..Timeout
    /\ quiet \in 0..Timeout
    /\ lease \in 0..Window

AttemptType ==
    /\ recovery \in RecoveryRecord
    /\ attempt \in 0..Generations - 1

\* Who holds what: the Transport is lost only in an Unsafe session, and a worker holds
\* it only while the session is isolated behind a confirmed closure, without watchdog.
Custody ==
    /\ closed => guard
    /\ pc \in {"renew", "reopen"} => ~closed
    /\ pc = "closing" /\ nft = "committed" => guard
    /\ transport = "lost" => state = "Unsafe"
    /\ transport = "rebuild" <=> phase # "none"
    /\ phase # "none" => /\ closed /\ state = "Isolated"
                         /\ mon = "none" /\ wd = None
                         /\ pc \in {"idle", "closing"}
    /\ state = "Isolated" /\ transport = "session" /\ pc \in {"idle", "startwd"} => closed
    /\ state = "Isolated" /\ pc = "idle" => mon = "none" /\ wd = None
    /\ mon # "none" => wd # None
    /\ pc = "renew" => state \in {"Prepared", "Running"}
    /\ pc \in {"startwd", "reopen"} =>
          transport = "session" /\ state = "Isolated" /\ automatic

\* What was given up stays given up, also across the closures under way.
Final ==
    /\ NoResume
    /\ state = "Unsafe" => over # "no"
    /\ pc = "closing" /\ then \in {"recover", "retry"} => over = "no"
    /\ pc = "closing" => ~automatic
    /\ over = "shut" => guard

\* The watchdog's closure is in a table that only a rebuild's cleanup removes.
Tables ==
    /\ mon \in {"committed", "closed"} => wd \in private
    /\ phase \in {"restart", "policy", "replaced", "ok"} => retired = {}
    /\ phase = "cleaned" => private \cap retired = {}
    /\ state \in {"Prepared", "Running"} \/ pc \in {"startwd", "reopen"} => retired = {}
    /\ PromptStart =>
          /\ transport # "lost" => private \subseteq {wd} \cup retired
          /\ alive /\ pc = "startwd" /\ ack = -1 =>
                wd \notin private /\ mon \in {"starting", "watching", "failed"}

\* Permissions of a dropped runtime exist only behind the latch, before the policy is
\* made again.
Permissions ==
    /\ adopting # "old"
    /\ DnsDone => adopting = "none"
    /\ "old" \in grants =>
          /\ guard /\ state \in {"Isolated", "Unsafe"}
          /\ pc \notin {"startwd", "reopen", "renew"}
          /\ phase \notin {"replaced", "ok"}

\* No stamp on the way to the monitor promises more than the last one sent.
Stamps ==
    mon = "watching" =>
        /\ monLeft + quiet <= Timeout
        /\ \A i \in DOMAIN hb : hb[i] + quiet <= Timeout

-----------------------------------------------------------------------------

\* The four parts are the type invariant.
LEMMA TypeParts ==
    TypeOK <=> StateType /\ TableType /\ TimeType /\ AttemptType
BY DEF TypeOK, StateType, TableType, TimeType, AttemptType

\* The elements of a sequence are in its set.
LEMMA Elements ==
    ASSUME NEW T, NEW s \in Seq(T)
    PROVE  \A i \in 1..Len(s) : s[i] \in T
OBVIOUS

\* A closure leaves the enumerations ones, whatever it was begun for.
LEMMA BeginCloseType ==
    ASSUME NEW next \in {"recover", "fail", "retry", "giveup", "shut"},
           NEW held \in BOOLEAN, NEW rebuilding \in BOOLEAN,
           StateType, BeginClose(next, held, rebuilding),
           alive' = alive, dns' \in {"none", "live", "stopping", "finished"},
           UNCHANGED <<adopting, guard, closed, pasta>>,
           transport' \in {"session", "rebuild", "lost"},
           phase' \in Working \cup Joinable \cup {"none"}
    PROVE  StateType'
<1>1. nft' \in {"none", "pending", "committed"} /\ automatic' \in BOOLEAN
      /\ cancel' \in BOOLEAN
  BY DEF BeginClose
<1> QED
  BY <1>1 DEF BeginClose, StateType

\* A heartbeat that is sent (TransitWatchdog::heartbeat) fits the queue.
LEMMA HeartbeatType ==
    TimeType /\ Heartbeat /\ CanHeartbeat /\ UNCHANGED <<nextHealth, lease>> => TimeType'
<1> SUFFICES ASSUME TimeType, Heartbeat, CanHeartbeat, UNCHANGED <<nextHealth, lease>>
             PROVE  TimeType'
  OBVIOUS
<1>1. Timeout \in 0..Timeout /\ 0 \in 0..Timeout
  BY SessionAssumption
<1>2. Append(hb, Timeout) \in Seq(0..Timeout) /\ Len(Append(hb, Timeout)) = Len(hb) + 1
  BY <1>1 DEF TimeType
<1>3. Len(hb) + 1 <= QueueCap
  BY SessionAssumption DEF TimeType, CanHeartbeat
<1> QED
  BY <1>1, <1>2, <1>3 DEF TimeType, Heartbeat

\* So does the passing of time, which also takes from every other countdown.
LEMMA TickType == TimeType /\ Tick => TimeType'
<1> SUFFICES ASSUME TimeType, Tick PROVE TimeType'
  OBVIOUS
<1>1. \A t \in 0..Timeout : Less(t) \in 0..Timeout
  BY SessionAssumption DEF Less
<1>2. hb' \in Seq(0..Timeout) /\ Len(hb') = Len(hb)
  <2>1. hb' = [i \in 1..Len(hb) |-> Less(hb[i])]
    BY DEF Tick, TimeType
  <2>2. \A i \in 1..Len(hb) : hb[i] \in 0..Timeout
    BY Elements DEF TimeType
  <2>3. \A i \in 1..Len(hb) : Less(hb[i]) \in 0..Timeout
    BY <1>1, <2>2
  <2> QED
    BY <2>1, <2>3 DEF TimeType
<1>3. nextHealth' \in 0..Interval /\ lease' \in 0..Window
  BY SessionAssumption DEF Tick, Less, LeaseLeft, TimeType
<1>4. monLeft' \in 0..Timeout /\ ack' \in -1..Timeout /\ quiet' \in 0..Timeout
  BY SessionAssumption DEF Tick, Less, TimeType
<1> QED
  BY <1>2, <1>3, <1>4 DEF TimeType

\* Every step keeps the enumerations: the controller's calls, the processes around it
\* and the worker only name states of theirs.
LEMMA StateTypeStep ==
    StateType /\ [Next]_vars => StateType'
<1> SUFFICES ASSUME StateType, [Next]_vars
             PROVE  StateType'
  OBVIOUS
<1>1. CASE Activate
  BY <1>1
     DEF Activate, BeginRefresh, Heartbeat, CanHeartbeat, Verify, Fail, BeginClose,
         StateType, control, dnsVars, watch, gate, carrier, work
<1>2. CASE PollUp
  BY <1>2
     DEF PollUp, BeginRefresh, Heartbeat, CanHeartbeat, Verify, Fail, BeginClose,
         StateType, control, dnsVars, watch, gate, carrier, work
<1>3. CASE PollDnsFault
  BY <1>3
     DEF PollDnsFault, Verify, Fail, BeginClose, StateType, control, dnsVars, watch,
         gate, carrier, work
<1>4. CASE RefreshEnds
  BY <1>4
     DEF RefreshEnds, Verify, Fail, BeginClose, StateType, control, dnsVars, watch,
         gate, carrier, work
<1>5. CASE RefreshFails
  BY <1>5, BeginCloseType
     DEF RefreshFails, Fail, StateType, dnsVars, watch, gate, carrier, work
<1>6. CASE Shutdown
  BY <1>6, BeginCloseType
     DEF Shutdown, StateType, dnsVars, watch, gate, carrier, work
<1>7. CASE CloseReturnsOk
  BY <1>7
     DEF CloseReturnsOk, EndClose, DnsAfterClose, Retired, Resumes, StateType, control,
         dnsVars, watch, gate, carrier, work
<1>8. CASE CloseReturnsErr
  BY <1>8
     DEF CloseReturnsErr, EndClose, DnsAfterClose, Retired, Resumes, StateType, control,
         dnsVars, watch, gate, carrier, work
<1>9. CASE StartRebuild
  BY <1>9
     DEF StartRebuild, PollIsolated, DnsDone, StateType, Working, Joinable, control,
         dnsVars, watch, gate, carrier, work
<1>10. CASE StartRebuildFails
  BY <1>10
     DEF StartRebuildFails, PollIsolated, DnsDone, StateType, control, dnsVars, watch,
         gate, carrier, work
<1>11. CASE CancelRebuild
  BY <1>11
     DEF CancelRebuild, PollIsolated, DnsDone, StateType, control, dnsVars, watch, gate,
         carrier, work
<1>12. CASE JoinPanicked
  BY <1>12
     DEF JoinPanicked, PollIsolated, DnsDone, StateType, control, dnsVars, watch, gate,
         carrier, work
<1>13. CASE JoinRebuilt
  BY <1>13
     DEF JoinRebuilt, PollIsolated, DnsDone, Admissible, StateType, Working, Joinable,
         control, dnsVars, watch, gate, carrier, work
<1>14. CASE JoinFailed
  BY <1>14
     DEF JoinFailed, PollIsolated, DnsDone, Admissible, AttemptFails, BeginClose,
         StateType, Working, Joinable, control, dnsVars, watch, gate, carrier, work
<1>15. CASE WatchdogReady
  BY <1>15
     DEF WatchdogReady, Verify, AttemptFails, BeginClose, StateType, control, dnsVars,
         watch, gate, carrier, work
<1>16. CASE WatchdogStartFails
  BY <1>16, BeginCloseType
     DEF WatchdogStartFails, AttemptFails, StateType, dnsVars, watch, gate, carrier, work
<1>17. CASE ReopenEnds
  BY <1>17
     DEF ReopenEnds, Verify, AttemptFails, BeginClose, StateType, control, dnsVars,
         watch, gate, carrier, work
<1>18. CASE ReopenFails
  BY <1>18, BeginCloseType
     DEF ReopenFails, AttemptFails, StateType, dnsVars, watch, gate, carrier, work
<1>19. CASE Kernel
  BY <1>19
     DEF Kernel, RenewCommits, Commits, ReopenCommits, CloseCommits, StateType, control,
         dnsVars, watch, gate, carrier, work
<1>20. CASE Monitor
  BY <1>20
     DEF Monitor, MonitorBegins, MonitorReceives, MonitorDeadline, Larger,
         MonitorExpires, MonitorStops, MonitorErrs, MonitorCommits, MonitorExits,
         StateType, control, dnsVars, watch, gate, carrier, work
<1>21. CASE Worker
  BY <1>21
     DEF Worker, CleanupCommits, WorkerStep, CleanupEnds, InTime, Restart,
         PolicyCommits, RebuildEnds, RebuildFails, Working, RebuildPanics, StateType,
         Joinable, control, dnsVars, watch, gate, carrier, work
<1>22. CASE Dns
  BY <1>22
     DEF Dns, AdoptBegins, OnlyDns, AdoptCommits, AdoptFails, DnsDrains, DnsDone,
         StateType, control, dnsVars, watch, gate, carrier, work
<1>23. CASE PastaDies \/ Crash \/ Tick
  BY <1>23
     DEF PastaDies, Crash, Tick, Less, LeaseLeft, StateType, control, dnsVars, watch,
         gate, carrier, work
<1>24. CASE UNCHANGED vars
  BY <1>24
     DEF vars, StateType, control, dnsVars, watch, gate, carrier, work
<1> QED
  BY <1>1, <1>2, <1>3, <1>4, <1>5, <1>6, <1>7, <1>8, <1>9, <1>10, <1>11, <1>12, <1>13,
     <1>14, <1>15, <1>16, <1>17, <1>18, <1>19, <1>20, <1>21, <1>22, <1>23, <1>24
     DEF Next, Controller

\* Every step keeps the table names: a closure retires the watchdog's own
\* (Session::close_until), and the monitor adds its own (watchdog.rs close_script).
LEMMA TableTypeStep ==
    StateType /\ TableType /\ Custody /\ [Next]_vars => TableType'
<1> SUFFICES ASSUME StateType /\ TableType /\ Custody, [Next]_vars
             PROVE  TableType'
  OBVIOUS
<1>1. CASE Activate
  BY <1>1
     DEF Activate, BeginRefresh, Heartbeat, CanHeartbeat, Verify, Fail, BeginClose,
         StateType, TableType, control, dnsVars, watch, gate, carrier, work
<1>2. CASE PollUp
  BY <1>2
     DEF PollUp, BeginRefresh, Heartbeat, CanHeartbeat, Verify, Fail, BeginClose,
         StateType, TableType, control, dnsVars, watch, gate, carrier, work
<1>3. CASE PollDnsFault
  BY <1>3
     DEF PollDnsFault, Verify, Fail, BeginClose, StateType, TableType, control, dnsVars,
         watch, gate, carrier, work
<1>4. CASE RefreshEnds
  BY <1>4
     DEF RefreshEnds, Verify, Fail, BeginClose, StateType, TableType, control, dnsVars,
         watch, gate, carrier, work
<1>5. CASE RefreshFails
  BY <1>5
     DEF RefreshFails, Fail, BeginClose, StateType, TableType, control, dnsVars, watch,
         gate, carrier, work
<1>6. CASE Shutdown
  BY <1>6
     DEF Shutdown, BeginClose, StateType, TableType, control, dnsVars, watch, gate,
         carrier, work
<1>7. CASE CloseReturnsOk
  BY <1>7
     DEF CloseReturnsOk, EndClose, DnsAfterClose, Retired, Resumes, StateType,
         TableType, control, dnsVars, watch, gate, carrier, work
<1>8. CASE CloseReturnsErr
  BY <1>8
     DEF CloseReturnsErr, EndClose, DnsAfterClose, Retired, Resumes, StateType,
         TableType, control, dnsVars, watch, gate, carrier, work
<1>9. CASE StartRebuild
  BY <1>9
     DEF StartRebuild, PollIsolated, DnsDone, StateType, TableType, control, dnsVars,
         watch, gate, carrier, work
<1>10. CASE StartRebuildFails
  BY <1>10
     DEF StartRebuildFails, PollIsolated, DnsDone, StateType, TableType, control,
         dnsVars, watch, gate, carrier, work
<1>11. CASE CancelRebuild
  BY <1>11
     DEF CancelRebuild, PollIsolated, DnsDone, StateType, TableType, control, dnsVars,
         watch, gate, carrier, work
<1>12. CASE JoinPanicked
  BY <1>12
     DEF JoinPanicked, PollIsolated, DnsDone, StateType, TableType, control, dnsVars,
         watch, gate, carrier, work
<1>13. CASE JoinRebuilt
  BY <1>13
     DEF JoinRebuilt, PollIsolated, DnsDone, Admissible, StateType, TableType, control,
         dnsVars, watch, gate, carrier, work
<1>14. CASE JoinFailed
  BY <1>14
     DEF JoinFailed, PollIsolated, DnsDone, Admissible, AttemptFails, BeginClose,
         StateType, TableType, control, dnsVars, watch, gate, carrier, work
<1>15. CASE WatchdogReady
  BY <1>15
     DEF WatchdogReady, Verify, AttemptFails, BeginClose, StateType, TableType, control,
         dnsVars, watch, gate, carrier, work
<1>16. CASE WatchdogStartFails
  BY <1>16
     DEF WatchdogStartFails, AttemptFails, BeginClose, StateType, TableType, control,
         dnsVars, watch, gate, carrier, work
<1>17. CASE ReopenEnds
  BY <1>17
     DEF ReopenEnds, Verify, AttemptFails, BeginClose, StateType, TableType, control,
         dnsVars, watch, gate, carrier, work
<1>18. CASE ReopenFails
  BY <1>18
     DEF ReopenFails, AttemptFails, BeginClose, StateType, TableType, control, dnsVars,
         watch, gate, carrier, work
<1>19. CASE Kernel
  BY <1>19
     DEF Kernel, RenewCommits, Commits, ReopenCommits, CloseCommits, StateType,
         TableType, control, dnsVars, watch, gate, carrier, work
<1>20. CASE MonitorBegins
  BY <1>20
     DEF MonitorBegins, StateType, TableType, control, dnsVars, watch, gate, carrier,
         work
<1>21. CASE MonitorReceives
  BY <1>21
     DEF MonitorReceives, MonitorDeadline, Larger, StateType, TableType, control,
         dnsVars, watch, gate, carrier, work
<1>22. CASE MonitorExpires
  BY <1>22
     DEF MonitorExpires, MonitorStops, StateType, TableType, control, dnsVars, watch,
         gate, carrier, work
<1>23. CASE MonitorErrs
  BY <1>23
     DEF MonitorErrs, MonitorStops, StateType, TableType, control, dnsVars, watch, gate,
         carrier, work
<1>24. CASE MonitorCommits
  <2>1. wd \in Guards
    BY <1>24 DEF MonitorCommits, TableType, Custody
  <2> QED
    BY <1>24, <2>1 DEF MonitorCommits, TableType, dnsVars, carrier
<1>25. CASE MonitorExits
  BY <1>25
     DEF MonitorExits, StateType, TableType, control, dnsVars, watch, gate, carrier,
         work
<1>26. CASE Worker
  BY <1>26
     DEF Worker, CleanupCommits, WorkerStep, CleanupEnds, InTime, Restart,
         PolicyCommits, RebuildEnds, RebuildFails, Working, RebuildPanics, StateType,
         TableType, control, dnsVars, watch, gate, carrier, work
<1>27. CASE Dns
  BY <1>27
     DEF Dns, AdoptBegins, OnlyDns, AdoptCommits, AdoptFails, DnsDrains, DnsDone,
         StateType, TableType, control, dnsVars, watch, gate, carrier, work
<1>28. CASE PastaDies \/ Crash \/ Tick
  BY <1>28
     DEF PastaDies, Crash, Tick, Less, LeaseLeft, StateType, TableType, control,
         dnsVars, watch, gate, carrier, work
<1>29. CASE UNCHANGED vars
  BY <1>29
     DEF vars, StateType, TableType, control, dnsVars, watch, gate, carrier, work
<1> QED
  BY <1>1, <1>2, <1>3, <1>4, <1>5, <1>6, <1>7, <1>8, <1>9, <1>10, <1>11, <1>12, <1>13,
     <1>14, <1>15, <1>16, <1>17, <1>18, <1>19, <1>20, <1>21, <1>22, <1>23, <1>24, <1>25,
     <1>26, <1>27, <1>28, <1>29
     DEF Next, Controller, Monitor

\* Every step keeps the countdowns and the heartbeat queue in their bounds.
LEMMA TimeTypeStep ==
    TimeType /\ [Next]_vars => TimeType'
<1> SUFFICES ASSUME TimeType, [Next]_vars
             PROVE  TimeType'
  OBVIOUS
<1>1. CASE Activate
  <2>1. CASE Heartbeat /\ CanHeartbeat
    BY <1>1, <2>1, HeartbeatType DEF Activate, BeginRefresh, gate, control, Fail, BeginClose
  <2>2. CASE UNCHANGED <<watch, nextHealth>>
    BY <1>1, <2>2 DEF Activate, TimeType, watch, gate
  <2> QED
    BY <1>1, <2>1, <2>2 DEF Activate, BeginRefresh, Fail, BeginClose
<1>2. CASE PollUp
  <2>1. CASE Heartbeat /\ CanHeartbeat
    BY <1>2, <2>1, HeartbeatType DEF PollUp, BeginRefresh, gate, control, Fail, BeginClose
  <2>2. CASE UNCHANGED <<watch, nextHealth>>
    BY <1>2, <2>2 DEF PollUp, TimeType, watch, gate
  <2> QED
    BY <1>2, <2>1, <2>2 DEF PollUp, BeginRefresh, Fail, BeginClose
<1>3. CASE PollDnsFault
  BY <1>3, SessionAssumption
     DEF PollDnsFault, Verify, Fail, BeginClose, TimeType, control, dnsVars, watch,
         gate, carrier, work
<1>4. CASE RefreshEnds
  BY <1>4, SessionAssumption
     DEF RefreshEnds, Verify, Fail, BeginClose, TimeType, control, dnsVars, watch, gate,
         carrier, work
<1>5. CASE RefreshFails
  BY <1>5, SessionAssumption
     DEF RefreshFails, Fail, BeginClose, TimeType, control, dnsVars, watch, gate,
         carrier, work
<1>6. CASE Shutdown
  BY <1>6, SessionAssumption
     DEF Shutdown, BeginClose, TimeType, control, dnsVars, watch, gate, carrier, work
<1>7. CASE CloseReturnsOk
  BY <1>7, SessionAssumption
     DEF CloseReturnsOk, EndClose, DnsAfterClose, Retired, Resumes, TimeType, control,
         dnsVars, watch, gate, carrier, work
<1>8. CASE CloseReturnsErr
  BY <1>8, SessionAssumption
     DEF CloseReturnsErr, EndClose, DnsAfterClose, Retired, Resumes, TimeType, control,
         dnsVars, watch, gate, carrier, work
<1>9. CASE StartRebuild
  BY <1>9, SessionAssumption
     DEF StartRebuild, PollIsolated, DnsDone, TimeType, control, dnsVars, watch, gate,
         carrier, work
<1>10. CASE StartRebuildFails
  BY <1>10, SessionAssumption
     DEF StartRebuildFails, PollIsolated, DnsDone, TimeType, control, dnsVars, watch,
         gate, carrier, work
<1>11. CASE CancelRebuild
  BY <1>11, SessionAssumption
     DEF CancelRebuild, PollIsolated, DnsDone, TimeType, control, dnsVars, watch, gate,
         carrier, work
<1>12. CASE JoinPanicked
  BY <1>12, SessionAssumption
     DEF JoinPanicked, PollIsolated, DnsDone, TimeType, control, dnsVars, watch, gate,
         carrier, work
<1>13. CASE JoinRebuilt
  BY <1>13, SessionAssumption
     DEF JoinRebuilt, PollIsolated, DnsDone, Admissible, TimeType, control, dnsVars,
         watch, gate, carrier, work
<1>14. CASE JoinFailed
  BY <1>14, SessionAssumption
     DEF JoinFailed, PollIsolated, DnsDone, Admissible, AttemptFails, BeginClose,
         TimeType, control, dnsVars, watch, gate, carrier, work
<1>15. CASE WatchdogReady
  BY <1>15, SessionAssumption
     DEF WatchdogReady, Verify, AttemptFails, BeginClose, TimeType, control, dnsVars,
         watch, gate, carrier, work
<1>16. CASE WatchdogStartFails
  BY <1>16, SessionAssumption
     DEF WatchdogStartFails, AttemptFails, BeginClose, TimeType, control, dnsVars,
         watch, gate, carrier, work
<1>17. CASE ReopenEnds
  <2>1. nextHealth' \in {nextHealth, Interval}
    BY <1>17 DEF ReopenEnds, AttemptFails, BeginClose
  <2> QED
    BY <1>17, <2>1, SessionAssumption DEF ReopenEnds, TimeType, watch, gate
<1>18. CASE ReopenFails
  BY <1>18, SessionAssumption
     DEF ReopenFails, AttemptFails, BeginClose, TimeType, control, dnsVars, watch, gate,
         carrier, work
<1>19. CASE Kernel
  BY <1>19, SessionAssumption
     DEF Kernel, RenewCommits, Commits, ReopenCommits, CloseCommits, TimeType, control,
         dnsVars, watch, gate, carrier, work
<1>20. CASE MonitorBegins
  BY <1>20, SessionAssumption
     DEF MonitorBegins, TimeType, control, dnsVars, watch, gate, carrier, work
<1>21. CASE MonitorReceives
  BY <1>21, SessionAssumption
     DEF MonitorReceives, MonitorDeadline, Larger, TimeType, control, dnsVars, watch,
         gate, carrier, work
<1>22. CASE MonitorExpires
  BY <1>22, SessionAssumption
     DEF MonitorExpires, MonitorStops, TimeType, control, dnsVars, watch, gate, carrier,
         work
<1>23. CASE MonitorErrs
  BY <1>23, SessionAssumption
     DEF MonitorErrs, MonitorStops, TimeType, control, dnsVars, watch, gate, carrier,
         work
<1>24. CASE MonitorCommits
  BY <1>24, SessionAssumption
     DEF MonitorCommits, TimeType, control, dnsVars, watch, gate, carrier, work
<1>25. CASE MonitorExits
  BY <1>25, SessionAssumption
     DEF MonitorExits, TimeType, control, dnsVars, watch, gate, carrier, work
<1>26. CASE Worker
  BY <1>26, SessionAssumption
     DEF Worker, CleanupCommits, WorkerStep, CleanupEnds, InTime, Restart,
         PolicyCommits, RebuildEnds, RebuildFails, Working, RebuildPanics, TimeType,
         control, dnsVars, watch, gate, carrier, work
<1>27. CASE Dns
  BY <1>27, SessionAssumption
     DEF Dns, AdoptBegins, OnlyDns, AdoptCommits, AdoptFails, DnsDrains, DnsDone,
         TimeType, control, dnsVars, watch, gate, carrier, work
<1>28. CASE PastaDies
  BY <1>28, SessionAssumption
     DEF PastaDies, TimeType, control, dnsVars, watch, gate, carrier, work
<1>29. CASE Crash
  BY <1>29, SessionAssumption
     DEF Crash, TimeType, control, dnsVars, watch, gate, carrier, work
<1>30. CASE Tick
  BY <1>30, TickType
<1>31. CASE UNCHANGED vars
  BY <1>31
     DEF vars, TimeType, control, dnsVars, watch, gate, carrier, work
<1> QED
  BY <1>1, <1>2, <1>3, <1>4, <1>5, <1>6, <1>7, <1>8, <1>9, <1>10, <1>11, <1>12, <1>13,
     <1>14, <1>15, <1>16, <1>17, <1>18, <1>19, <1>20, <1>21, <1>22, <1>23, <1>24, <1>25,
     <1>26, <1>27, <1>28, <1>29, <1>30, <1>31
     DEF Next, Controller, Monitor

\* Every step keeps the Recovery one: the session changes it only through the
\* operations of recovery.rs.
LEMMA AttemptTypeStep ==
    StateType /\ AttemptType /\ [Next]_vars => AttemptType'
<1> SUFFICES ASSUME StateType /\ AttemptType, [Next]_vars
             PROVE  AttemptType'
  OBVIOUS
<1>1. CASE Activate
  BY <1>1
     DEF Activate, BeginRefresh, Heartbeat, CanHeartbeat, Verify, Fail, BeginClose,
         StateType, AttemptType, Working, Joinable, control, dnsVars, watch, gate,
         carrier, work
<1>2. CASE PollUp
  BY <1>2
     DEF PollUp, BeginRefresh, Heartbeat, CanHeartbeat, Verify, Fail, BeginClose,
         StateType, AttemptType, Working, Joinable, control, dnsVars, watch, gate,
         carrier, work
<1>3. CASE PollDnsFault
  BY <1>3
     DEF PollDnsFault, Verify, Fail, BeginClose, StateType, AttemptType, Working,
         Joinable, control, dnsVars, watch, gate, carrier, work
<1>4. CASE RefreshEnds
  BY <1>4
     DEF RefreshEnds, Verify, Fail, BeginClose, StateType, AttemptType, Working,
         Joinable, control, dnsVars, watch, gate, carrier, work
<1>5. CASE RefreshFails
  BY <1>5
     DEF RefreshFails, Fail, BeginClose, StateType, AttemptType, Working, Joinable,
         control, dnsVars, watch, gate, carrier, work
<1>6. CASE Shutdown
  BY <1>6
     DEF Shutdown, BeginClose, StateType, AttemptType, Working, Joinable, control,
         dnsVars, watch, gate, carrier, work
<1>7. CASE CloseReturnsOk
  BY <1>7, NewType
     DEF CloseReturnsOk, EndClose, DnsAfterClose, Retired, Resumes, StateType,
         AttemptType, Working, Joinable, control, dnsVars, watch, gate, carrier, work
<1>8. CASE CloseReturnsErr
  BY <1>8, NewType
     DEF CloseReturnsErr, EndClose, DnsAfterClose, Retired, Resumes, StateType,
         AttemptType, Working, Joinable, control, dnsVars, watch, gate, carrier, work
<1>9. CASE StartRebuild
  BY <1>9, PollType
     DEF StartRebuild, PollIsolated, DnsDone, StateType, AttemptType, Working, Joinable,
         RecoveryRecord, control, dnsVars, watch, gate, carrier, work
<1>10. CASE StartRebuildFails
  BY <1>10, PollType
     DEF StartRebuildFails, PollIsolated, DnsDone, StateType, AttemptType, Working,
         Joinable, control, dnsVars, watch, gate, carrier, work
<1>11. CASE CancelRebuild
  BY <1>11, PollType
     DEF CancelRebuild, PollIsolated, DnsDone, StateType, AttemptType, Working,
         Joinable, control, dnsVars, watch, gate, carrier, work
<1>12. CASE JoinPanicked
  BY <1>12
     DEF JoinPanicked, PollIsolated, DnsDone, StateType, AttemptType, Working, Joinable,
         control, dnsVars, watch, gate, carrier, work
<1>13. CASE JoinRebuilt
  BY <1>13
     DEF JoinRebuilt, PollIsolated, DnsDone, Admissible, StateType, AttemptType,
         Working, Joinable, control, dnsVars, watch, gate, carrier, work
<1>14. CASE JoinFailed
  BY <1>14, CompleteType
     DEF JoinFailed, PollIsolated, DnsDone, Admissible, AttemptFails, BeginClose,
         StateType, AttemptType, Working, Joinable, control, dnsVars, watch, gate,
         carrier, work
<1>15. CASE WatchdogReady
  BY <1>15, CompleteType
     DEF WatchdogReady, Verify, AttemptFails, BeginClose, StateType, AttemptType,
         Working, Joinable, WatchdogHealthy, control, dnsVars, watch, gate, carrier,
         work
<1>16. CASE WatchdogStartFails
  BY <1>16, CompleteType
     DEF WatchdogStartFails, AttemptFails, BeginClose, StateType, AttemptType, Working,
         Joinable, control, dnsVars, watch, gate, carrier, work
<1>17. CASE ReopenEnds
  BY <1>17, CompleteType
     DEF ReopenEnds, Verify, AttemptFails, BeginClose, StateType, AttemptType, Working,
         Joinable, WatchdogHealthy, control, dnsVars, watch, gate, carrier, work
<1>18. CASE ReopenFails
  BY <1>18, CompleteType
     DEF ReopenFails, AttemptFails, BeginClose, StateType, AttemptType, Working,
         Joinable, control, dnsVars, watch, gate, carrier, work
<1>19. CASE Kernel
  BY <1>19
     DEF Kernel, RenewCommits, Commits, ReopenCommits, CloseCommits, StateType,
         AttemptType, Working, Joinable, control, dnsVars, watch, gate, carrier, work
<1>20. CASE Monitor
  BY <1>20
     DEF Monitor, MonitorBegins, MonitorReceives, MonitorDeadline, Larger,
         MonitorExpires, MonitorStops, MonitorErrs, MonitorCommits, MonitorExits,
         StateType, AttemptType, Working, Joinable, control, dnsVars, watch, gate,
         carrier, work
<1>21. CASE Worker
  BY <1>21
     DEF Worker, CleanupCommits, WorkerStep, CleanupEnds, InTime, Restart,
         PolicyCommits, RebuildEnds, RebuildFails, Working, RebuildPanics, StateType,
         AttemptType, Joinable, control, dnsVars, watch, gate, carrier, work
<1>22. CASE Dns
  BY <1>22
     DEF Dns, AdoptBegins, OnlyDns, AdoptCommits, AdoptFails, DnsDrains, DnsDone,
         StateType, AttemptType, Working, Joinable, control, dnsVars, watch, gate,
         carrier, work
<1>23. CASE PastaDies \/ Crash \/ Tick
  BY <1>23, CompleteType
     DEF PastaDies, Crash, Tick, Less, LeaseLeft, StateType, AttemptType, Working,
         Joinable, control, dnsVars, watch, gate, carrier, work
<1>24. CASE UNCHANGED vars
  BY <1>24
     DEF vars, StateType, AttemptType, Working, Joinable, control, dnsVars, watch, gate,
         carrier, work
<1> QED
  BY <1>1, <1>2, <1>3, <1>4, <1>5, <1>6, <1>7, <1>8, <1>9, <1>10, <1>11, <1>12, <1>13,
     <1>14, <1>15, <1>16, <1>17, <1>18, <1>19, <1>20, <1>21, <1>22, <1>23, <1>24
     DEF Next, Controller

\* Every step of the session and of what surrounds it keeps the type invariant.
LEMMA TypeStep ==
    TypeOK /\ Custody /\ [Next]_vars => TypeOK'
BY TypeParts, StateTypeStep, TableTypeStep, TimeTypeStep, AttemptTypeStep
   DEF TypeOK, StateType, TableType, TimeType, AttemptType

-----------------------------------------------------------------------------
(* The inductive invariant. *)

IInv ==
    /\ TypeOK /\ Custody /\ AttemptIsCurrent /\ Final /\ Tables /\ Permissions /\ Stamps

\* A prepared session (Session::prepare) satisfies the inductive invariant.
LEMMA InitInv == Init => IInv
<1> SUFFICES ASSUME Init PROVE IInv
  OBVIOUS
<1>1. StateType /\ TableType
  BY DEF Init, StateType, TableType
<1>2. TimeType
  BY SessionAssumption DEF Init, TimeType
<1>3. AttemptType
  BY NewType, RecoveryAssumption DEF Init, AttemptType
<1>4. TypeOK
  BY <1>1, <1>2, <1>3, TypeParts
<1>5. Custody /\ AttemptIsCurrent /\ Final /\ Permissions
  BY SessionAssumption
     DEF Init, Custody, AttemptIsCurrent, Final, NoResume, Permissions, DnsDone
<1>6. Tables /\ Stamps
  BY SessionAssumption DEF Init, Tables, Stamps
<1> QED
  BY <1>4, <1>5, <1>6 DEF IInv

\* Custody is kept: the Transport moves to a worker only from an isolated session that
\* holds it closed (poll_isolated), and comes back with the closure standing
\* (finish_rebuild).
LEMMA CustodyStep ==
    TypeOK /\ Custody /\ AttemptIsCurrent /\ [Next]_vars => Custody'
<1> SUFFICES ASSUME TypeOK /\ Custody /\ AttemptIsCurrent, [Next]_vars
             PROVE  Custody'
  OBVIOUS
<1>1. CASE Activate
  BY <1>1
     DEF Activate, BeginRefresh, Heartbeat, CanHeartbeat, Verify, Fail, BeginClose,
         TypeOK, Custody, Working, control, dnsVars, watch, gate, carrier, work
<1>2. CASE PollUp
  BY <1>2
     DEF PollUp, BeginRefresh, Heartbeat, CanHeartbeat, Verify, Fail, BeginClose,
         TypeOK, Custody, Working, control, dnsVars, watch, gate, carrier, work
<1>3. CASE PollDnsFault
  BY <1>3
     DEF PollDnsFault, Verify, Fail, BeginClose, TypeOK, Custody, Working, control,
         dnsVars, watch, gate, carrier, work
<1>4. CASE RefreshEnds
  BY <1>4
     DEF RefreshEnds, Verify, Fail, BeginClose, TypeOK, Custody, Working, control,
         dnsVars, watch, gate, carrier, work
<1>5. CASE RefreshFails
  BY <1>5
     DEF RefreshFails, Fail, BeginClose, TypeOK, Custody, Working, control, dnsVars,
         watch, gate, carrier, work
<1>6. CASE Shutdown
  BY <1>6
     DEF Shutdown, BeginClose, TypeOK, Custody, Working, control, dnsVars, watch, gate,
         carrier, work
<1>7. CASE CloseReturnsOk
  BY <1>7
     DEF CloseReturnsOk, EndClose, DnsAfterClose, Retired, Resumes, TypeOK, Custody,
         Working, control, dnsVars, watch, gate, carrier, work
<1>8. CASE CloseReturnsErr
  BY <1>8
     DEF CloseReturnsErr, EndClose, DnsAfterClose, Retired, Resumes, TypeOK, Custody,
         Working, control, dnsVars, watch, gate, carrier, work
<1>9. CASE StartRebuild
  BY <1>9
     DEF StartRebuild, PollIsolated, DnsDone, TypeOK, Custody, Working, control,
         dnsVars, watch, gate, carrier, work
<1>10. CASE StartRebuildFails
  BY <1>10
     DEF StartRebuildFails, PollIsolated, DnsDone, TypeOK, Custody, Working,
         AttemptIsCurrent, RecoveryAccepts, RecoveryAction, control, dnsVars, watch,
         gate, carrier, work
<1>11. CASE CancelRebuild
  BY <1>11
     DEF CancelRebuild, PollIsolated, DnsDone, TypeOK, Custody, Working, control,
         dnsVars, watch, gate, carrier, work
<1>12. CASE JoinPanicked
  BY <1>12
     DEF JoinPanicked, PollIsolated, DnsDone, TypeOK, Custody, Working, control,
         dnsVars, watch, gate, carrier, work
<1>13. CASE JoinRebuilt
  BY <1>13, SessionAssumption
     DEF JoinRebuilt, PollIsolated, DnsDone, Admissible, TypeOK, Custody, Working,
         control, dnsVars, watch, gate, carrier, work
<1>14. CASE JoinFailed
  BY <1>14
     DEF JoinFailed, PollIsolated, DnsDone, Admissible, AttemptFails, BeginClose,
         TypeOK, Custody, Working, control, dnsVars, watch, gate, carrier, work
<1>15. CASE WatchdogReady
  BY <1>15
     DEF WatchdogReady, Verify, AttemptFails, BeginClose, TypeOK, Custody, Working,
         control, dnsVars, watch, gate, carrier, work
<1>16. CASE WatchdogStartFails
  BY <1>16
     DEF WatchdogStartFails, AttemptFails, BeginClose, TypeOK, Custody, Working,
         control, dnsVars, watch, gate, carrier, work
<1>17. CASE ReopenEnds
  BY <1>17
     DEF ReopenEnds, Verify, AttemptFails, BeginClose, TypeOK, Custody, Working,
         control, dnsVars, watch, gate, carrier, work
<1>18. CASE ReopenFails
  BY <1>18
     DEF ReopenFails, AttemptFails, BeginClose, TypeOK, Custody, Working, control,
         dnsVars, watch, gate, carrier, work
<1>19. CASE Kernel
  BY <1>19
     DEF Kernel, RenewCommits, Commits, ReopenCommits, CloseCommits, TypeOK, Custody,
         Working, control, dnsVars, watch, gate, carrier, work
<1>20. CASE Monitor
  BY <1>20
     DEF Monitor, MonitorBegins, MonitorReceives, MonitorDeadline, Larger,
         MonitorExpires, MonitorStops, MonitorErrs, MonitorCommits, MonitorExits,
         TypeOK, Custody, Working, control, dnsVars, watch, gate, carrier, work
<1>21. CASE Worker
  BY <1>21
     DEF Worker, CleanupCommits, WorkerStep, CleanupEnds, InTime, Restart,
         PolicyCommits, RebuildEnds, RebuildFails, Working, RebuildPanics, TypeOK,
         Custody, control, dnsVars, watch, gate, carrier, work
<1>22. CASE Dns
  BY <1>22
     DEF Dns, AdoptBegins, OnlyDns, AdoptCommits, AdoptFails, DnsDrains, DnsDone,
         TypeOK, Custody, Working, control, dnsVars, watch, gate, carrier, work
<1>23. CASE PastaDies \/ Crash \/ Tick
  BY <1>23
     DEF PastaDies, Crash, Tick, Less, LeaseLeft, TypeOK, Custody, Working, control,
         dnsVars, watch, gate, carrier, work
<1>24. CASE UNCHANGED vars
  BY <1>24
     DEF vars, TypeOK, Custody, Working, control, dnsVars, watch, gate, carrier, work
<1> QED
  BY <1>1, <1>2, <1>3, <1>4, <1>5, <1>6, <1>7, <1>8, <1>9, <1>10, <1>11, <1>12, <1>13,
     <1>14, <1>15, <1>16, <1>17, <1>18, <1>19, <1>20, <1>21, <1>22, <1>23, <1>24
     DEF Next, Controller

\* The attempt a worker was started with stays the one the Recovery is in: only
\* finish_rebuild completes it, and a repeated isolation does not reset it.
LEMMA AttemptStep ==
    TypeOK /\ Custody /\ AttemptIsCurrent /\ [Next]_vars => AttemptIsCurrent'
<1> SUFFICES ASSUME TypeOK /\ Custody /\ AttemptIsCurrent, [Next]_vars
             PROVE  AttemptIsCurrent'
  OBVIOUS
<1>1. CASE Activate
  BY <1>1
     DEF Activate, BeginRefresh, Heartbeat, CanHeartbeat, Verify, Fail, BeginClose,
         TypeOK, Custody, AttemptIsCurrent, RecoveryAccepts, Working, control, dnsVars,
         watch, gate, carrier, work
<1>2. CASE PollUp
  BY <1>2
     DEF PollUp, BeginRefresh, Heartbeat, CanHeartbeat, Verify, Fail, BeginClose,
         TypeOK, Custody, AttemptIsCurrent, RecoveryAccepts, Working, control, dnsVars,
         watch, gate, carrier, work
<1>3. CASE PollDnsFault
  BY <1>3
     DEF PollDnsFault, Verify, Fail, BeginClose, TypeOK, Custody, AttemptIsCurrent,
         RecoveryAccepts, Working, control, dnsVars, watch, gate, carrier, work
<1>4. CASE RefreshEnds
  BY <1>4
     DEF RefreshEnds, Verify, Fail, BeginClose, TypeOK, Custody, AttemptIsCurrent,
         RecoveryAccepts, Working, control, dnsVars, watch, gate, carrier, work
<1>5. CASE RefreshFails
  BY <1>5
     DEF RefreshFails, Fail, BeginClose, TypeOK, Custody, AttemptIsCurrent,
         RecoveryAccepts, Working, control, dnsVars, watch, gate, carrier, work
<1>6. CASE Shutdown
  BY <1>6
     DEF Shutdown, BeginClose, TypeOK, Custody, AttemptIsCurrent, RecoveryAccepts,
         Working, control, dnsVars, watch, gate, carrier, work
<1>7. CASE CloseReturnsOk
  BY <1>7
     DEF CloseReturnsOk, EndClose, DnsAfterClose, Retired, Resumes, TypeOK, Custody,
         AttemptIsCurrent, RecoveryAccepts, Working, RecoveryIsolate, control, dnsVars,
         watch, gate, carrier, work
<1>8. CASE CloseReturnsErr
  BY <1>8
     DEF CloseReturnsErr, EndClose, DnsAfterClose, Retired, Resumes, TypeOK, Custody,
         AttemptIsCurrent, RecoveryAccepts, Working, RecoveryIsolate, control, dnsVars,
         watch, gate, carrier, work
<1>9. CASE StartRebuild
  BY <1>9, PollType
     DEF StartRebuild, PollIsolated, DnsDone, TypeOK, Custody, AttemptIsCurrent,
         RecoveryAccepts, Working, control, dnsVars, watch, gate, carrier, work
<1>10. CASE StartRebuildFails
  BY <1>10
     DEF StartRebuildFails, PollIsolated, DnsDone, TypeOK, Custody, AttemptIsCurrent,
         RecoveryAccepts, Working, RecoveryAction, control, dnsVars, watch, gate,
         carrier, work
<1>11. CASE CancelRebuild
  BY <1>11, PollType
     DEF CancelRebuild, PollIsolated, DnsDone, TypeOK, Custody, AttemptIsCurrent,
         RecoveryAccepts, Working, control, dnsVars, watch, gate, carrier, work
<1>12. CASE JoinPanicked
  BY <1>12
     DEF JoinPanicked, PollIsolated, DnsDone, TypeOK, Custody, AttemptIsCurrent,
         RecoveryAccepts, Working, control, dnsVars, watch, gate, carrier, work
<1>13. CASE JoinRebuilt
  BY <1>13
     DEF JoinRebuilt, PollIsolated, DnsDone, Admissible, TypeOK, Custody,
         AttemptIsCurrent, RecoveryAccepts, Working, control, dnsVars, watch, gate,
         carrier, work
<1>14. CASE JoinFailed
  BY <1>14
     DEF JoinFailed, PollIsolated, DnsDone, Admissible, AttemptFails, BeginClose,
         TypeOK, Custody, AttemptIsCurrent, RecoveryAccepts, Working, control, dnsVars,
         watch, gate, carrier, work
<1>15. CASE WatchdogReady
  BY <1>15
     DEF WatchdogReady, Verify, AttemptFails, BeginClose, TypeOK, Custody,
         AttemptIsCurrent, RecoveryAccepts, Working, control, dnsVars, watch, gate,
         carrier, work
<1>16. CASE WatchdogStartFails
  BY <1>16
     DEF WatchdogStartFails, AttemptFails, BeginClose, TypeOK, Custody,
         AttemptIsCurrent, RecoveryAccepts, Working, control, dnsVars, watch, gate,
         carrier, work
<1>17. CASE ReopenEnds
  BY <1>17
     DEF ReopenEnds, Verify, AttemptFails, BeginClose, TypeOK, Custody,
         AttemptIsCurrent, RecoveryAccepts, Working, control, dnsVars, watch, gate,
         carrier, work
<1>18. CASE ReopenFails
  BY <1>18
     DEF ReopenFails, AttemptFails, BeginClose, TypeOK, Custody, AttemptIsCurrent,
         RecoveryAccepts, Working, control, dnsVars, watch, gate, carrier, work
<1>19. CASE Kernel
  BY <1>19
     DEF Kernel, RenewCommits, Commits, ReopenCommits, CloseCommits, TypeOK, Custody,
         AttemptIsCurrent, RecoveryAccepts, Working, control, dnsVars, watch, gate,
         carrier, work
<1>20. CASE Monitor
  BY <1>20
     DEF Monitor, MonitorBegins, MonitorReceives, MonitorDeadline, Larger,
         MonitorExpires, MonitorStops, MonitorErrs, MonitorCommits, MonitorExits,
         TypeOK, Custody, AttemptIsCurrent, RecoveryAccepts, Working, control, dnsVars,
         watch, gate, carrier, work
<1>21. CASE Worker
  BY <1>21
     DEF Worker, CleanupCommits, WorkerStep, CleanupEnds, InTime, Restart,
         PolicyCommits, RebuildEnds, RebuildFails, Working, RebuildPanics, TypeOK,
         Custody, AttemptIsCurrent, RecoveryAccepts, control, dnsVars, watch, gate,
         carrier, work
<1>22. CASE Dns
  BY <1>22
     DEF Dns, AdoptBegins, OnlyDns, AdoptCommits, AdoptFails, DnsDrains, DnsDone,
         TypeOK, Custody, AttemptIsCurrent, RecoveryAccepts, Working, control, dnsVars,
         watch, gate, carrier, work
<1>23. CASE PastaDies \/ Crash \/ Tick
  BY <1>23, CompleteType
     DEF PastaDies, Crash, Tick, Less, LeaseLeft, TypeOK, Custody, AttemptIsCurrent,
         RecoveryAccepts, Working, control, dnsVars, watch, gate, carrier, work
<1>24. CASE UNCHANGED vars
  BY <1>24
     DEF vars, TypeOK, Custody, AttemptIsCurrent, RecoveryAccepts, Working, control,
         dnsVars, watch, gate, carrier, work
<1> QED
  BY <1>1, <1>2, <1>3, <1>4, <1>5, <1>6, <1>7, <1>8, <1>9, <1>10, <1>11, <1>12, <1>13,
     <1>14, <1>15, <1>16, <1>17, <1>18, <1>19, <1>20, <1>21, <1>22, <1>23, <1>24
     DEF Next, Controller

\* What was given up stays given up: close_until clears automatic first, and fail and
\* finish_rebuild restore it only if it was set before.
LEMMA FinalStep ==
    TypeOK /\ Custody /\ Final /\ [Next]_vars => Final'
<1> SUFFICES ASSUME TypeOK /\ Custody /\ Final, [Next]_vars
             PROVE  Final'
  OBVIOUS
<1>1. CASE Activate
  BY <1>1
     DEF Activate, BeginRefresh, Heartbeat, CanHeartbeat, Verify, Fail, BeginClose,
         TypeOK, Custody, Final, NoResume, Working, control, dnsVars, watch, gate,
         carrier, work
<1>2. CASE PollUp
  BY <1>2
     DEF PollUp, BeginRefresh, Heartbeat, CanHeartbeat, Verify, Fail, BeginClose,
         TypeOK, Custody, Final, NoResume, Working, control, dnsVars, watch, gate,
         carrier, work
<1>3. CASE PollDnsFault
  BY <1>3
     DEF PollDnsFault, Verify, Fail, BeginClose, TypeOK, Custody, Final, NoResume,
         Working, control, dnsVars, watch, gate, carrier, work
<1>4. CASE RefreshEnds
  BY <1>4
     DEF RefreshEnds, Verify, Fail, BeginClose, TypeOK, Custody, Final, NoResume,
         Working, control, dnsVars, watch, gate, carrier, work
<1>5. CASE RefreshFails
  BY <1>5
     DEF RefreshFails, Fail, BeginClose, TypeOK, Custody, Final, NoResume, Working,
         control, dnsVars, watch, gate, carrier, work
<1>6. CASE Shutdown
  BY <1>6
     DEF Shutdown, BeginClose, TypeOK, Custody, Final, NoResume, Working, control,
         dnsVars, watch, gate, carrier, work
<1>7. CASE CloseReturnsOk
  BY <1>7
     DEF CloseReturnsOk, EndClose, DnsAfterClose, Retired, Resumes, TypeOK, Custody,
         Final, NoResume, Working, control, dnsVars, watch, gate, carrier, work
<1>8. CASE CloseReturnsErr
  BY <1>8
     DEF CloseReturnsErr, EndClose, DnsAfterClose, Retired, Resumes, TypeOK, Custody,
         Final, NoResume, Working, control, dnsVars, watch, gate, carrier, work
<1>9. CASE StartRebuild
  BY <1>9
     DEF StartRebuild, PollIsolated, DnsDone, TypeOK, Custody, Final, NoResume, Working,
         control, dnsVars, watch, gate, carrier, work
<1>10. CASE StartRebuildFails
  BY <1>10
     DEF StartRebuildFails, PollIsolated, DnsDone, TypeOK, Custody, Final, NoResume,
         Working, control, dnsVars, watch, gate, carrier, work
<1>11. CASE CancelRebuild
  BY <1>11
     DEF CancelRebuild, PollIsolated, DnsDone, TypeOK, Custody, Final, NoResume,
         Working, control, dnsVars, watch, gate, carrier, work
<1>12. CASE JoinPanicked
  BY <1>12
     DEF JoinPanicked, PollIsolated, DnsDone, TypeOK, Custody, Final, NoResume, Working,
         control, dnsVars, watch, gate, carrier, work
<1>13. CASE JoinRebuilt
  BY <1>13
     DEF JoinRebuilt, PollIsolated, DnsDone, Admissible, TypeOK, Custody, Final,
         NoResume, Working, control, dnsVars, watch, gate, carrier, work
<1>14. CASE JoinFailed
  BY <1>14
     DEF JoinFailed, PollIsolated, DnsDone, Admissible, AttemptFails, BeginClose,
         TypeOK, Custody, Final, NoResume, Working, control, dnsVars, watch, gate,
         carrier, work
<1>15. CASE WatchdogReady
  BY <1>15
     DEF WatchdogReady, Verify, AttemptFails, BeginClose, TypeOK, Custody, Final,
         NoResume, Working, control, dnsVars, watch, gate, carrier, work
<1>16. CASE WatchdogStartFails
  BY <1>16
     DEF WatchdogStartFails, AttemptFails, BeginClose, TypeOK, Custody, Final, NoResume,
         Working, control, dnsVars, watch, gate, carrier, work
<1>17. CASE ReopenEnds
  BY <1>17
     DEF ReopenEnds, Verify, AttemptFails, BeginClose, TypeOK, Custody, Final, NoResume,
         Working, control, dnsVars, watch, gate, carrier, work
<1>18. CASE ReopenFails
  BY <1>18
     DEF ReopenFails, AttemptFails, BeginClose, TypeOK, Custody, Final, NoResume,
         Working, control, dnsVars, watch, gate, carrier, work
<1>19. CASE Kernel
  BY <1>19
     DEF Kernel, RenewCommits, Commits, ReopenCommits, CloseCommits, TypeOK, Custody,
         Final, NoResume, Working, control, dnsVars, watch, gate, carrier, work
<1>20. CASE Monitor
  BY <1>20
     DEF Monitor, MonitorBegins, MonitorReceives, MonitorDeadline, Larger,
         MonitorExpires, MonitorStops, MonitorErrs, MonitorCommits, MonitorExits,
         TypeOK, Custody, Final, NoResume, Working, control, dnsVars, watch, gate,
         carrier, work
<1>21. CASE Worker
  BY <1>21
     DEF Worker, CleanupCommits, WorkerStep, CleanupEnds, InTime, Restart,
         PolicyCommits, RebuildEnds, RebuildFails, Working, RebuildPanics, TypeOK,
         Custody, Final, NoResume, control, dnsVars, watch, gate, carrier, work
<1>22. CASE Dns
  BY <1>22
     DEF Dns, AdoptBegins, OnlyDns, AdoptCommits, AdoptFails, DnsDrains, DnsDone,
         TypeOK, Custody, Final, NoResume, Working, control, dnsVars, watch, gate,
         carrier, work
<1>23. CASE PastaDies \/ Crash \/ Tick
  BY <1>23
     DEF PastaDies, Crash, Tick, Less, LeaseLeft, TypeOK, Custody, Final, NoResume,
         Working, control, dnsVars, watch, gate, carrier, work
<1>24. CASE UNCHANGED vars
  BY <1>24
     DEF vars, TypeOK, Custody, Final, NoResume, Working, control, dnsVars, watch, gate,
         carrier, work
<1> QED
  BY <1>1, <1>2, <1>3, <1>4, <1>5, <1>6, <1>7, <1>8, <1>9, <1>10, <1>11, <1>12, <1>13,
     <1>14, <1>15, <1>16, <1>17, <1>18, <1>19, <1>20, <1>21, <1>22, <1>23, <1>24
     DEF Next, Controller

\* The private tables are those of the watchdog and of the retired ones, until a
\* rebuild has deleted them (Rebuild cleanup).
LEMMA TablesStep ==
    TypeOK /\ Custody /\ Tables /\ [Next]_vars => Tables'
<1> SUFFICES ASSUME TypeOK /\ Custody /\ Tables, [Next]_vars
             PROVE  Tables'
  OBVIOUS
<1>1. CASE Activate
  BY <1>1
     DEF Activate, BeginRefresh, Heartbeat, CanHeartbeat, Verify, Fail, BeginClose,
         TypeOK, Custody, Tables, Working, control, dnsVars, watch, gate, carrier, work
<1>2. CASE PollUp
  BY <1>2
     DEF PollUp, BeginRefresh, Heartbeat, CanHeartbeat, Verify, Fail, BeginClose,
         TypeOK, Custody, Tables, Working, control, dnsVars, watch, gate, carrier, work
<1>3. CASE PollDnsFault
  BY <1>3
     DEF PollDnsFault, Verify, Fail, BeginClose, TypeOK, Custody, Tables, Working,
         control, dnsVars, watch, gate, carrier, work
<1>4. CASE RefreshEnds
  BY <1>4
     DEF RefreshEnds, Verify, Fail, BeginClose, TypeOK, Custody, Tables, Working,
         control, dnsVars, watch, gate, carrier, work
<1>5. CASE RefreshFails
  BY <1>5
     DEF RefreshFails, Fail, BeginClose, TypeOK, Custody, Tables, Working, control,
         dnsVars, watch, gate, carrier, work
<1>6. CASE Shutdown
  BY <1>6
     DEF Shutdown, BeginClose, TypeOK, Custody, Tables, Working, control, dnsVars,
         watch, gate, carrier, work
<1>7. CASE CloseReturnsOk
  BY <1>7
     DEF CloseReturnsOk, EndClose, DnsAfterClose, Retired, Resumes, TypeOK, Custody,
         Tables, Working, control, dnsVars, watch, gate, carrier, work
<1>8. CASE CloseReturnsErr
  BY <1>8
     DEF CloseReturnsErr, EndClose, DnsAfterClose, Retired, Resumes, TypeOK, Custody,
         Tables, Working, control, dnsVars, watch, gate, carrier, work
<1>9. CASE StartRebuild
  BY <1>9
     DEF StartRebuild, PollIsolated, DnsDone, TypeOK, Custody, Tables, Working, control,
         dnsVars, watch, gate, carrier, work
<1>10. CASE StartRebuildFails
  BY <1>10
     DEF StartRebuildFails, PollIsolated, DnsDone, TypeOK, Custody, Tables, Working,
         control, dnsVars, watch, gate, carrier, work
<1>11. CASE CancelRebuild
  BY <1>11
     DEF CancelRebuild, PollIsolated, DnsDone, TypeOK, Custody, Tables, Working,
         control, dnsVars, watch, gate, carrier, work
<1>12. CASE JoinPanicked
  BY <1>12
     DEF JoinPanicked, PollIsolated, DnsDone, TypeOK, Custody, Tables, Working, control,
         dnsVars, watch, gate, carrier, work
<1>13. CASE JoinRebuilt
  BY <1>13, SessionAssumption
     DEF JoinRebuilt, PollIsolated, DnsDone, Admissible, TypeOK, Custody, Tables,
         Working, control, dnsVars, watch, gate, carrier, work
<1>14. CASE JoinFailed
  BY <1>14
     DEF JoinFailed, PollIsolated, DnsDone, Admissible, AttemptFails, BeginClose,
         TypeOK, Custody, Tables, Working, control, dnsVars, watch, gate, carrier, work
<1>15. CASE WatchdogReady
  BY <1>15
     DEF WatchdogReady, Verify, AttemptFails, BeginClose, TypeOK, Custody, Tables,
         Working, control, dnsVars, watch, gate, carrier, work
<1>16. CASE WatchdogStartFails
  BY <1>16
     DEF WatchdogStartFails, AttemptFails, BeginClose, TypeOK, Custody, Tables, Working,
         control, dnsVars, watch, gate, carrier, work
<1>17. CASE ReopenEnds
  BY <1>17
     DEF ReopenEnds, Verify, AttemptFails, BeginClose, TypeOK, Custody, Tables, Working,
         control, dnsVars, watch, gate, carrier, work
<1>18. CASE ReopenFails
  BY <1>18
     DEF ReopenFails, AttemptFails, BeginClose, TypeOK, Custody, Tables, Working,
         control, dnsVars, watch, gate, carrier, work
<1>19. CASE Kernel
  BY <1>19
     DEF Kernel, RenewCommits, Commits, ReopenCommits, CloseCommits, TypeOK, Custody,
         Tables, Working, control, dnsVars, watch, gate, carrier, work
<1>20. CASE Monitor
  BY <1>20, SMTT(30)
     DEF Monitor, MonitorBegins, MonitorReceives, MonitorDeadline, Larger,
         MonitorExpires, MonitorStops, MonitorErrs, MonitorCommits, MonitorExits,
         TypeOK, Custody, Tables, Working, control, dnsVars, watch, gate, carrier, work
<1>21. CASE Worker
  BY <1>21
     DEF Worker, CleanupCommits, WorkerStep, CleanupEnds, InTime, Restart,
         PolicyCommits, RebuildEnds, RebuildFails, Working, RebuildPanics, TypeOK,
         Custody, Tables, control, dnsVars, watch, gate, carrier, work
<1>22. CASE Dns
  BY <1>22
     DEF Dns, AdoptBegins, OnlyDns, AdoptCommits, AdoptFails, DnsDrains, DnsDone,
         TypeOK, Custody, Tables, Working, control, dnsVars, watch, gate, carrier, work
<1>23. CASE PastaDies \/ Crash \/ Tick
  BY <1>23
     DEF PastaDies, Crash, Tick, Less, LeaseLeft, TypeOK, Custody, Tables, Working,
         control, dnsVars, watch, gate, carrier, work
<1>24. CASE UNCHANGED vars
  BY <1>24
     DEF vars, TypeOK, Custody, Tables, Working, control, dnsVars, watch, gate, carrier,
         work
<1> QED
  BY <1>1, <1>2, <1>3, <1>4, <1>5, <1>6, <1>7, <1>8, <1>9, <1>10, <1>11, <1>12, <1>13,
     <1>14, <1>15, <1>16, <1>17, <1>18, <1>19, <1>20, <1>21, <1>22, <1>23, <1>24
     DEF Next, Controller

\* The permissions of a dropped runtime exist only behind the latch: poll_isolated
\* waits for its thread, and the policy table is made again before the reopening.
LEMMA PermissionsStep ==
    TypeOK /\ Custody /\ AttemptIsCurrent /\ Permissions /\ [Next]_vars => Permissions'
<1> SUFFICES ASSUME TypeOK /\ Custody /\ AttemptIsCurrent /\ Permissions, [Next]_vars
             PROVE  Permissions'
  OBVIOUS
<1>1. CASE Activate
  BY <1>1
     DEF Activate, BeginRefresh, Heartbeat, CanHeartbeat, Verify, Fail, BeginClose,
         TypeOK, Custody, Permissions, DnsDone, Working, control, dnsVars, watch, gate,
         carrier, work
<1>2. CASE PollUp
  BY <1>2
     DEF PollUp, BeginRefresh, Heartbeat, CanHeartbeat, Verify, Fail, BeginClose,
         TypeOK, Custody, Permissions, DnsDone, Working, control, dnsVars, watch, gate,
         carrier, work
<1>3. CASE PollDnsFault
  BY <1>3
     DEF PollDnsFault, Verify, Fail, BeginClose, TypeOK, Custody, Permissions, DnsDone,
         Working, control, dnsVars, watch, gate, carrier, work
<1>4. CASE RefreshEnds
  BY <1>4
     DEF RefreshEnds, Verify, Fail, BeginClose, TypeOK, Custody, Permissions, DnsDone,
         Working, control, dnsVars, watch, gate, carrier, work
<1>5. CASE RefreshFails
  BY <1>5
     DEF RefreshFails, Fail, BeginClose, TypeOK, Custody, Permissions, DnsDone, Working,
         control, dnsVars, watch, gate, carrier, work
<1>6. CASE Shutdown
  BY <1>6
     DEF Shutdown, BeginClose, TypeOK, Custody, Permissions, DnsDone, Working, control,
         dnsVars, watch, gate, carrier, work
<1>7. CASE CloseReturnsOk
  BY <1>7
     DEF CloseReturnsOk, EndClose, DnsAfterClose, Retired, Resumes, TypeOK, Custody,
         Permissions, DnsDone, Working, control, dnsVars, watch, gate, carrier, work
<1>8. CASE CloseReturnsErr
  BY <1>8
     DEF CloseReturnsErr, EndClose, DnsAfterClose, Retired, Resumes, TypeOK, Custody,
         Permissions, DnsDone, Working, control, dnsVars, watch, gate, carrier, work
<1>9. CASE StartRebuild
  BY <1>9
     DEF StartRebuild, PollIsolated, DnsDone, TypeOK, Custody, Permissions, Working,
         control, dnsVars, watch, gate, carrier, work
<1>10. CASE StartRebuildFails
  BY <1>10
     DEF StartRebuildFails, PollIsolated, DnsDone, TypeOK, Custody, Permissions,
         Working, AttemptIsCurrent, RecoveryAccepts, RecoveryAction, control, dnsVars,
         watch, gate, carrier, work
<1>11. CASE CancelRebuild
  BY <1>11
     DEF CancelRebuild, PollIsolated, DnsDone, TypeOK, Custody, Permissions, Working,
         control, dnsVars, watch, gate, carrier, work
<1>12. CASE JoinPanicked
  BY <1>12
     DEF JoinPanicked, PollIsolated, DnsDone, TypeOK, Custody, Permissions, Working,
         control, dnsVars, watch, gate, carrier, work
<1>13. CASE JoinRebuilt
  BY <1>13
     DEF JoinRebuilt, PollIsolated, DnsDone, Admissible, TypeOK, Custody, Permissions,
         Working, control, dnsVars, watch, gate, carrier, work
<1>14. CASE JoinFailed
  BY <1>14
     DEF JoinFailed, PollIsolated, DnsDone, Admissible, AttemptFails, BeginClose,
         TypeOK, Custody, Permissions, Working, control, dnsVars, watch, gate, carrier,
         work
<1>15. CASE WatchdogReady
  BY <1>15
     DEF WatchdogReady, Verify, AttemptFails, BeginClose, TypeOK, Custody, Permissions,
         DnsDone, Working, control, dnsVars, watch, gate, carrier, work
<1>16. CASE WatchdogStartFails
  BY <1>16
     DEF WatchdogStartFails, AttemptFails, BeginClose, TypeOK, Custody, Permissions,
         DnsDone, Working, control, dnsVars, watch, gate, carrier, work
<1>17. CASE ReopenEnds
  BY <1>17
     DEF ReopenEnds, Verify, AttemptFails, BeginClose, TypeOK, Custody, Permissions,
         DnsDone, Working, control, dnsVars, watch, gate, carrier, work
<1>18. CASE ReopenFails
  BY <1>18
     DEF ReopenFails, AttemptFails, BeginClose, TypeOK, Custody, Permissions, DnsDone,
         Working, control, dnsVars, watch, gate, carrier, work
<1>19. CASE Kernel
  BY <1>19
     DEF Kernel, RenewCommits, Commits, ReopenCommits, CloseCommits, TypeOK, Custody,
         Permissions, DnsDone, Working, control, dnsVars, watch, gate, carrier, work
<1>20. CASE Monitor
  BY <1>20
     DEF Monitor, MonitorBegins, MonitorReceives, MonitorDeadline, Larger,
         MonitorExpires, MonitorStops, MonitorErrs, MonitorCommits, MonitorExits,
         TypeOK, Custody, Permissions, DnsDone, Working, control, dnsVars, watch, gate,
         carrier, work
<1>21. CASE Worker
  BY <1>21
     DEF Worker, CleanupCommits, WorkerStep, CleanupEnds, InTime, Restart,
         PolicyCommits, RebuildEnds, RebuildFails, Working, RebuildPanics, TypeOK,
         Custody, Permissions, DnsDone, control, dnsVars, watch, gate, carrier, work
<1>22. CASE Dns
  BY <1>22
     DEF Dns, AdoptBegins, OnlyDns, AdoptCommits, AdoptFails, DnsDrains, DnsDone,
         TypeOK, Custody, Permissions, Working, control, dnsVars, watch, gate, carrier,
         work
<1>23. CASE PastaDies \/ Crash \/ Tick
  BY <1>23
     DEF PastaDies, Crash, Tick, Less, LeaseLeft, TypeOK, Custody, Permissions, DnsDone,
         Working, control, dnsVars, watch, gate, carrier, work
<1>24. CASE UNCHANGED vars
  BY <1>24
     DEF vars, TypeOK, Custody, Permissions, DnsDone, Working, control, dnsVars, watch,
         gate, carrier, work
<1> QED
  BY <1>1, <1>2, <1>3, <1>4, <1>5, <1>6, <1>7, <1>8, <1>9, <1>10, <1>11, <1>12, <1>13,
     <1>14, <1>15, <1>16, <1>17, <1>18, <1>19, <1>20, <1>21, <1>22, <1>23, <1>24
     DEF Next, Controller

\* A stamp is as fresh as the time since it was sent: heartbeats are stamped when they
\* are sent (TransitWatchdog::heartbeat), and the monitor counts from the stamp.
LEMMA StampsStep ==
    TypeOK /\ TypeOK' /\ Stamps /\ [Next]_vars => Stamps'
<1> SUFFICES ASSUME TypeOK /\ TypeOK' /\ Stamps, [Next]_vars
             PROVE  Stamps'
  OBVIOUS
<1>a. monLeft \in 0..Timeout /\ Timeout \in Nat
  BY SessionAssumption DEF TypeOK
<1>b. \A i \in DOMAIN hb' : hb'[i] \in 0..Timeout
  <2>1. hb' \in Seq(0..Timeout)
    BY DEF TypeOK
  <2>2. DOMAIN hb' = 1..Len(hb')
    BY <2>1
  <2> QED
    BY <2>1, <2>2, Elements
<1>1. CASE Activate
  <2>1. CASE quiet' = 0 /\ mon' = mon /\ monLeft' = monLeft
    BY <2>1, <1>a, <1>b DEF Stamps
  <2>2. CASE UNCHANGED watch
    BY <2>2 DEF watch, Stamps
  <2> QED
    BY <1>1, <2>1, <2>2 DEF Activate, BeginRefresh, Heartbeat
<1>2. CASE PollUp
  <2>1. CASE quiet' = 0 /\ mon' = mon /\ monLeft' = monLeft
    BY <2>1, <1>a, <1>b DEF Stamps
  <2>2. CASE UNCHANGED watch
    BY <2>2 DEF watch, Stamps
  <2> QED
    BY <1>2, <2>1, <2>2 DEF PollUp, BeginRefresh, Heartbeat
<1>3. CASE PollDnsFault
  BY <1>3, SessionAssumption
     DEF PollDnsFault, Verify, Fail, BeginClose, TypeOK, Stamps, Working, control,
         dnsVars, watch, gate, carrier, work
<1>4. CASE RefreshEnds
  BY <1>4, SessionAssumption
     DEF RefreshEnds, Verify, Fail, BeginClose, TypeOK, Stamps, Working, control,
         dnsVars, watch, gate, carrier, work
<1>5. CASE RefreshFails
  BY <1>5, SessionAssumption
     DEF RefreshFails, Fail, BeginClose, TypeOK, Stamps, Working, control, dnsVars,
         watch, gate, carrier, work
<1>6. CASE Shutdown
  BY <1>6, SessionAssumption
     DEF Shutdown, BeginClose, TypeOK, Stamps, Working, control, dnsVars, watch, gate,
         carrier, work
<1>7. CASE CloseReturnsOk
  BY <1>7, SessionAssumption
     DEF CloseReturnsOk, EndClose, DnsAfterClose, Retired, Resumes, TypeOK, Stamps,
         Working, control, dnsVars, watch, gate, carrier, work
<1>8. CASE CloseReturnsErr
  BY <1>8, SessionAssumption
     DEF CloseReturnsErr, EndClose, DnsAfterClose, Retired, Resumes, TypeOK, Stamps,
         Working, control, dnsVars, watch, gate, carrier, work
<1>9. CASE StartRebuild
  BY <1>9, SessionAssumption
     DEF StartRebuild, PollIsolated, DnsDone, TypeOK, Stamps, Working, control, dnsVars,
         watch, gate, carrier, work
<1>10. CASE StartRebuildFails
  BY <1>10, SessionAssumption
     DEF StartRebuildFails, PollIsolated, DnsDone, TypeOK, Stamps, Working, control,
         dnsVars, watch, gate, carrier, work
<1>11. CASE CancelRebuild
  BY <1>11, SessionAssumption
     DEF CancelRebuild, PollIsolated, DnsDone, TypeOK, Stamps, Working, control,
         dnsVars, watch, gate, carrier, work
<1>12. CASE JoinPanicked
  BY <1>12, SessionAssumption
     DEF JoinPanicked, PollIsolated, DnsDone, TypeOK, Stamps, Working, control, dnsVars,
         watch, gate, carrier, work
<1>13. CASE JoinRebuilt
  BY <1>13, SessionAssumption
     DEF JoinRebuilt, PollIsolated, DnsDone, Admissible, TypeOK, Stamps, Working,
         control, dnsVars, watch, gate, carrier, work
<1>14. CASE JoinFailed
  BY <1>14, SessionAssumption
     DEF JoinFailed, PollIsolated, DnsDone, Admissible, AttemptFails, BeginClose,
         TypeOK, Stamps, Working, control, dnsVars, watch, gate, carrier, work
<1>15. CASE WatchdogReady
  BY <1>15, SessionAssumption
     DEF WatchdogReady, Verify, AttemptFails, BeginClose, TypeOK, Stamps, Working,
         control, dnsVars, watch, gate, carrier, work
<1>16. CASE WatchdogStartFails
  BY <1>16, SessionAssumption
     DEF WatchdogStartFails, AttemptFails, BeginClose, TypeOK, Stamps, Working, control,
         dnsVars, watch, gate, carrier, work
<1>17. CASE ReopenEnds
  BY <1>17, SessionAssumption
     DEF ReopenEnds, Verify, AttemptFails, BeginClose, TypeOK, Stamps, Working, control,
         dnsVars, watch, gate, carrier, work
<1>18. CASE ReopenFails
  BY <1>18, SessionAssumption
     DEF ReopenFails, AttemptFails, BeginClose, TypeOK, Stamps, Working, control,
         dnsVars, watch, gate, carrier, work
<1>19. CASE Kernel
  BY <1>19, SessionAssumption
     DEF Kernel, RenewCommits, Commits, ReopenCommits, CloseCommits, TypeOK, Stamps,
         Working, control, dnsVars, watch, gate, carrier, work
<1>20. CASE MonitorBegins
  BY <1>20, SessionAssumption
     DEF MonitorBegins, TypeOK, Stamps, Working, control, dnsVars, watch, gate, carrier,
         work
<1>21. CASE MonitorReceives
  BY <1>21, SessionAssumption
     DEF MonitorReceives, MonitorDeadline, Larger, TypeOK, Stamps, Working, control,
         dnsVars, watch, gate, carrier, work
<1>22. CASE MonitorExpires
  BY <1>22, SessionAssumption
     DEF MonitorExpires, MonitorStops, TypeOK, Stamps, Working, control, dnsVars, watch,
         gate, carrier, work
<1>23. CASE MonitorErrs
  BY <1>23, SessionAssumption
     DEF MonitorErrs, MonitorStops, TypeOK, Stamps, Working, control, dnsVars, watch,
         gate, carrier, work
<1>24. CASE MonitorCommits
  BY <1>24, SessionAssumption
     DEF MonitorCommits, TypeOK, Stamps, Working, control, dnsVars, watch, gate,
         carrier, work
<1>25. CASE MonitorExits
  BY <1>25, SessionAssumption
     DEF MonitorExits, TypeOK, Stamps, Working, control, dnsVars, watch, gate, carrier,
         work
<1>26. CASE Worker
  BY <1>26, SessionAssumption
     DEF Worker, CleanupCommits, WorkerStep, CleanupEnds, InTime, Restart,
         PolicyCommits, RebuildEnds, RebuildFails, Working, RebuildPanics, TypeOK,
         Stamps, control, dnsVars, watch, gate, carrier, work
<1>27. CASE Dns
  BY <1>27, SessionAssumption
     DEF Dns, AdoptBegins, OnlyDns, AdoptCommits, AdoptFails, DnsDrains, DnsDone,
         TypeOK, Stamps, Working, control, dnsVars, watch, gate, carrier, work
<1>28. CASE PastaDies
  BY <1>28, SessionAssumption
     DEF PastaDies, TypeOK, Stamps, Working, control, dnsVars, watch, gate, carrier,
         work
<1>29. CASE Crash
  BY <1>29, SessionAssumption
     DEF Crash, TypeOK, Stamps, Working, control, dnsVars, watch, gate, carrier, work
<1>30. CASE Tick
  BY <1>30, SessionAssumption
     DEF Tick, Less, LeaseLeft, TypeOK, Stamps, Working, control, dnsVars, watch, gate,
         carrier, work
<1>31. CASE UNCHANGED vars
  BY <1>31
     DEF vars, TypeOK, Stamps, Working, control, dnsVars, watch, gate, carrier, work
<1> QED
  BY <1>1, <1>2, <1>3, <1>4, <1>5, <1>6, <1>7, <1>8, <1>9, <1>10, <1>11, <1>12, <1>13,
     <1>14, <1>15, <1>16, <1>17, <1>18, <1>19, <1>20, <1>21, <1>22, <1>23, <1>24, <1>25,
     <1>26, <1>27, <1>28, <1>29, <1>30, <1>31
     DEF Next, Controller, Monitor

\* Every step keeps the inductive invariant.
LEMMA InvStep == IInv /\ [Next]_vars => IInv'
<1> SUFFICES ASSUME IInv, [Next]_vars PROVE IInv'
  OBVIOUS
<1>1. TypeOK'
  BY TypeStep DEF IInv
<1>2. Custody' /\ AttemptIsCurrent' /\ Final'
  BY CustodyStep, AttemptStep, FinalStep DEF IInv
<1>3. Tables' /\ Permissions'
  BY TablesStep, PermissionsStep DEF IInv
<1>4. Stamps'
  BY <1>1, StampsStep DEF IInv
<1> QED
  BY <1>1, <1>2, <1>3, <1>4 DEF IInv

\* The inductive invariant holds in every behaviour of a session.
THEOREM Invariance == Spec => []IInv
BY InitInv, InvStep, PTL DEF Spec

\* Every variable keeps its type; in particular the heartbeat queue never overflows
\* and the Recovery's failure count indexes the table of delays.
THEOREM TypeCorrect == Spec => []TypeOK
<1>1. IInv => TypeOK
  BY DEF IInv, TypeOK
<1> QED
  BY <1>1, Invariance, PTL

\* A session that reports Isolated has transit latched shut (Session::close_until).
THEOREM IsolationIsClosed == Spec => []IsolatedMeansClosed
<1>1. IInv => IsolatedMeansClosed
  BY DEF IInv, TypeOK, Custody, IsolatedMeansClosed
<1> QED
  BY <1>1, Invariance, PTL

\* A rebuild worker always works behind the confirmed closure.
THEOREM RebuildsBehindTheGuard == Spec => []RebuildBehindGuard
<1>1. IInv => RebuildBehindGuard
  BY DEF IInv, Custody, RebuildBehindGuard
<1> QED
  BY <1>1, Invariance, PTL

\* No renewal or reopening of the controller undoes a closure the watchdog made.
THEOREM WatchdogClosureHolds == Spec => []WatchdogCloseHolds
<1>1. IInv => WatchdogCloseHolds
  BY DEF IInv, Tables, GateOpen, WatchdogCloseHolds
<1> QED
  BY <1>1, Invariance, PTL

\* After a confirmed explicit shutdown transit never opens.
THEOREM ShutdownHolds == Spec => []ShutdownIsFinal
<1>1. IInv => ShutdownIsFinal
  BY DEF IInv, Final, GateOpen, ShutdownIsFinal
<1> QED
  BY <1>1, Invariance, PTL

\* A session that was shut down or became Unsafe never runs again.
THEOREM GivenUpForGood == Spec => []NoResume
<1>1. IInv => NoResume
  BY DEF IInv, Final, NoResume
<1> QED
  BY <1>1, Invariance, PTL

\* Permissions of a replaced DNS runtime never carry traffic.
THEOREM OldPermissionsGone == Spec => []OldGrantsGone
<1>1. IInv => OldGrantsGone
  BY DEF IInv, Permissions, GateOpen, OldGrantsGone
<1> QED
  BY <1>1, Invariance, PTL

\* A worker's attempt is the one the Recovery is in, so its completion is never
\* refused.
THEOREM AttemptsStayCurrent == Spec => []AttemptIsCurrent
<1>1. IInv => AttemptIsCurrent
  BY DEF IInv, AttemptIsCurrent
<1> QED
  BY <1>1, Invariance, PTL

\* poll_isolated's expect("no overlapping recovery") never panics.
THEOREM RecoveriesDoNotOverlap == Spec => []NoOverlappingRecovery
<1>1. IInv => NoOverlappingRecovery
  BY DEF IInv, TypeOK, Custody, Final, NoResume, AttemptIsCurrent, RecoveryAccepts,
         RecoveryAction, NoOverlappingRecovery
<1> QED
  BY <1>1, Invariance, PTL

\* The monitor's deadline is at most one timeout after the last stamp sent.
THEOREM HeartbeatsAreALease == Spec => []HeartbeatLease
<1>1. IInv => HeartbeatLease
  BY DEF IInv, Stamps, HeartbeatLease
<1> QED
  BY <1>1, Invariance, PTL

\* If a new monitor always answers before it can expire, a running session is blocked
\* by no table but its own watchdog's: what is reported as restored is open.
THEOREM RestoredMeansOpen ==
    ASSUME PromptStart
    PROVE  Spec => []RestoredIsOpen
<1>1. IInv => RestoredIsOpen
  BY PromptStart DEF IInv, Custody, Tables, RestoredIsOpen
<1> QED
  BY <1>1, Invariance, PTL

\* The parts of the invariant the contract rests on.
LEMMA ContractFacts ==
    IInv => /\ pc \in {"renew", "reopen"} => over = "no"
            /\ closed \/ (pc = "closing" /\ nft = "committed") => ~GateOpen
            /\ over = "shut" => ~GateOpen
            /\ phase # "none" => guard
BY DEF IInv, TypeOK, Custody, Final, NoResume, GateOpen

\* Every step is one the contract allows, or none.
LEMMA ContractStep ==
    IInv /\ [Next]_vars => [Contract!SessionNext]_(Contract!sessionVars)
<1> SUFFICES ASSUME IInv, [Next]_vars
             PROVE  [Contract!SessionNext]_(Contract!sessionVars)
  OBVIOUS
<1>1. CASE Activate
  BY <1>1, ContractFacts
     DEF Activate, BeginRefresh, Heartbeat, CanHeartbeat, Verify, Fail, BeginClose,
         GateOpen, Contract!SessionNext, Contract!sessionVars, Contract!CallBegins,
         Contract!TransitOpens, Contract!TransitCloses, Contract!EndsRunning,
         Contract!EndsIsolated, Contract!EndsUnsafe, control, dnsVars, watch, gate,
         carrier, work
<1>2. CASE PollUp
  BY <1>2, ContractFacts
     DEF PollUp, BeginRefresh, Heartbeat, CanHeartbeat, Verify, Fail, BeginClose,
         GateOpen, Contract!SessionNext, Contract!sessionVars, Contract!CallBegins,
         Contract!TransitOpens, Contract!TransitCloses, Contract!EndsRunning,
         Contract!EndsIsolated, Contract!EndsUnsafe, control, dnsVars, watch, gate,
         carrier, work
<1>3. CASE PollDnsFault
  BY <1>3, ContractFacts
     DEF PollDnsFault, Verify, Fail, BeginClose, GateOpen, Contract!SessionNext,
         Contract!sessionVars, Contract!CallBegins, Contract!TransitOpens,
         Contract!TransitCloses, Contract!EndsRunning, Contract!EndsIsolated,
         Contract!EndsUnsafe, control, dnsVars, watch, gate, carrier, work
<1>4. CASE RefreshEnds
  BY <1>4, ContractFacts
     DEF RefreshEnds, Verify, Fail, BeginClose, GateOpen, Contract!SessionNext,
         Contract!sessionVars, Contract!CallBegins, Contract!TransitOpens,
         Contract!TransitCloses, Contract!EndsRunning, Contract!EndsIsolated,
         Contract!EndsUnsafe, control, dnsVars, watch, gate, carrier, work
<1>5. CASE RefreshFails
  BY <1>5, ContractFacts
     DEF RefreshFails, Fail, BeginClose, GateOpen, Contract!SessionNext,
         Contract!sessionVars, Contract!CallBegins, Contract!TransitOpens,
         Contract!TransitCloses, Contract!EndsRunning, Contract!EndsIsolated,
         Contract!EndsUnsafe, control, dnsVars, watch, gate, carrier, work
<1>6. CASE Shutdown
  BY <1>6, ContractFacts
     DEF Shutdown, BeginClose, GateOpen, Contract!SessionNext, Contract!sessionVars,
         Contract!CallBegins, Contract!TransitOpens, Contract!TransitCloses,
         Contract!EndsRunning, Contract!EndsIsolated, Contract!EndsUnsafe, control,
         dnsVars, watch, gate, carrier, work
<1>7. CASE CloseReturnsOk
  BY <1>7, ContractFacts
     DEF CloseReturnsOk, EndClose, DnsAfterClose, Retired, Resumes, GateOpen,
         Contract!SessionNext, Contract!sessionVars, Contract!CallBegins,
         Contract!TransitOpens, Contract!TransitCloses, Contract!EndsRunning,
         Contract!EndsIsolated, Contract!EndsUnsafe, control, dnsVars, watch, gate,
         carrier, work
<1>8. CASE CloseReturnsErr
  BY <1>8, ContractFacts
     DEF CloseReturnsErr, EndClose, DnsAfterClose, Retired, Resumes, GateOpen,
         Contract!SessionNext, Contract!sessionVars, Contract!CallBegins,
         Contract!TransitOpens, Contract!TransitCloses, Contract!EndsRunning,
         Contract!EndsIsolated, Contract!EndsUnsafe, control, dnsVars, watch, gate,
         carrier, work
<1>9. CASE StartRebuild
  BY <1>9, ContractFacts
     DEF StartRebuild, PollIsolated, DnsDone, GateOpen, Contract!SessionNext,
         Contract!sessionVars, Contract!CallBegins, Contract!TransitOpens,
         Contract!TransitCloses, Contract!EndsRunning, Contract!EndsIsolated,
         Contract!EndsUnsafe, control, dnsVars, watch, gate, carrier, work
<1>10. CASE StartRebuildFails
  BY <1>10, ContractFacts
     DEF StartRebuildFails, PollIsolated, DnsDone, GateOpen, Contract!SessionNext,
         Contract!sessionVars, Contract!CallBegins, Contract!TransitOpens,
         Contract!TransitCloses, Contract!EndsRunning, Contract!EndsIsolated,
         Contract!EndsUnsafe, control, dnsVars, watch, gate, carrier, work
<1>11. CASE CancelRebuild
  BY <1>11, ContractFacts
     DEF CancelRebuild, PollIsolated, DnsDone, GateOpen, Contract!SessionNext,
         Contract!sessionVars, Contract!CallBegins, Contract!TransitOpens,
         Contract!TransitCloses, Contract!EndsRunning, Contract!EndsIsolated,
         Contract!EndsUnsafe, control, dnsVars, watch, gate, carrier, work
<1>12. CASE JoinPanicked
  BY <1>12, ContractFacts
     DEF JoinPanicked, PollIsolated, DnsDone, GateOpen, Contract!SessionNext,
         Contract!sessionVars, Contract!CallBegins, Contract!TransitOpens,
         Contract!TransitCloses, Contract!EndsRunning, Contract!EndsIsolated,
         Contract!EndsUnsafe, control, dnsVars, watch, gate, carrier, work
<1>13. CASE JoinRebuilt
  BY <1>13, ContractFacts
     DEF JoinRebuilt, PollIsolated, DnsDone, Admissible, GateOpen, Contract!SessionNext,
         Contract!sessionVars, Contract!CallBegins, Contract!TransitOpens,
         Contract!TransitCloses, Contract!EndsRunning, Contract!EndsIsolated,
         Contract!EndsUnsafe, control, dnsVars, watch, gate, carrier, work
<1>14. CASE JoinFailed
  BY <1>14, ContractFacts
     DEF JoinFailed, PollIsolated, DnsDone, Admissible, AttemptFails, BeginClose,
         GateOpen, Contract!SessionNext, Contract!sessionVars, Contract!CallBegins,
         Contract!TransitOpens, Contract!TransitCloses, Contract!EndsRunning,
         Contract!EndsIsolated, Contract!EndsUnsafe, control, dnsVars, watch, gate,
         carrier, work
<1>15. CASE WatchdogReady
  BY <1>15, ContractFacts
     DEF WatchdogReady, Verify, AttemptFails, BeginClose, GateOpen,
         Contract!SessionNext, Contract!sessionVars, Contract!CallBegins,
         Contract!TransitOpens, Contract!TransitCloses, Contract!EndsRunning,
         Contract!EndsIsolated, Contract!EndsUnsafe, control, dnsVars, watch, gate,
         carrier, work
<1>16. CASE WatchdogStartFails
  BY <1>16, ContractFacts
     DEF WatchdogStartFails, AttemptFails, BeginClose, GateOpen, Contract!SessionNext,
         Contract!sessionVars, Contract!CallBegins, Contract!TransitOpens,
         Contract!TransitCloses, Contract!EndsRunning, Contract!EndsIsolated,
         Contract!EndsUnsafe, control, dnsVars, watch, gate, carrier, work
<1>17. CASE ReopenEnds
  BY <1>17, ContractFacts
     DEF ReopenEnds, Verify, AttemptFails, BeginClose, GateOpen, Contract!SessionNext,
         Contract!sessionVars, Contract!CallBegins, Contract!TransitOpens,
         Contract!TransitCloses, Contract!EndsRunning, Contract!EndsIsolated,
         Contract!EndsUnsafe, control, dnsVars, watch, gate, carrier, work
<1>18. CASE ReopenFails
  BY <1>18, ContractFacts
     DEF ReopenFails, AttemptFails, BeginClose, GateOpen, Contract!SessionNext,
         Contract!sessionVars, Contract!CallBegins, Contract!TransitOpens,
         Contract!TransitCloses, Contract!EndsRunning, Contract!EndsIsolated,
         Contract!EndsUnsafe, control, dnsVars, watch, gate, carrier, work
<1>19. CASE Kernel
  BY <1>19, ContractFacts
     DEF Kernel, RenewCommits, Commits, ReopenCommits, CloseCommits, GateOpen,
         Contract!SessionNext, Contract!sessionVars, Contract!CallBegins,
         Contract!TransitOpens, Contract!TransitCloses, Contract!EndsRunning,
         Contract!EndsIsolated, Contract!EndsUnsafe, control, dnsVars, watch, gate,
         carrier, work
<1>20. CASE Monitor
  BY <1>20, ContractFacts
     DEF Monitor, MonitorBegins, MonitorReceives, MonitorDeadline, Larger,
         MonitorExpires, MonitorStops, MonitorErrs, MonitorCommits, MonitorExits,
         GateOpen, Contract!SessionNext, Contract!sessionVars, Contract!CallBegins,
         Contract!TransitOpens, Contract!TransitCloses, Contract!EndsRunning,
         Contract!EndsIsolated, Contract!EndsUnsafe, control, dnsVars, watch, gate,
         carrier, work
<1>21. CASE Worker
  BY <1>21, ContractFacts
     DEF Worker, CleanupCommits, WorkerStep, CleanupEnds, InTime, Restart,
         PolicyCommits, RebuildEnds, RebuildFails, Working, RebuildPanics, GateOpen,
         Contract!SessionNext, Contract!sessionVars, Contract!CallBegins,
         Contract!TransitOpens, Contract!TransitCloses, Contract!EndsRunning,
         Contract!EndsIsolated, Contract!EndsUnsafe, control, dnsVars, watch, gate,
         carrier, work
<1>22. CASE Dns
  BY <1>22, ContractFacts
     DEF Dns, AdoptBegins, OnlyDns, AdoptCommits, AdoptFails, DnsDrains, DnsDone,
         GateOpen, Contract!SessionNext, Contract!sessionVars, Contract!CallBegins,
         Contract!TransitOpens, Contract!TransitCloses, Contract!EndsRunning,
         Contract!EndsIsolated, Contract!EndsUnsafe, control, dnsVars, watch, gate,
         carrier, work
<1>23. CASE PastaDies \/ Crash \/ Tick
  BY <1>23, ContractFacts
     DEF PastaDies, Crash, Tick, Less, LeaseLeft, GateOpen, Contract!SessionNext,
         Contract!sessionVars, Contract!CallBegins, Contract!TransitOpens,
         Contract!TransitCloses, Contract!EndsRunning, Contract!EndsIsolated,
         Contract!EndsUnsafe, control, dnsVars, watch, gate, carrier, work
<1>24. CASE UNCHANGED vars
  BY <1>24
     DEF vars, GateOpen, Contract!SessionNext, Contract!sessionVars,
         Contract!CallBegins, Contract!TransitOpens, Contract!TransitCloses,
         Contract!EndsRunning, Contract!EndsIsolated, Contract!EndsUnsafe, control,
         dnsVars, watch, gate, carrier, work
<1> QED
  BY <1>1, <1>2, <1>3, <1>4, <1>5, <1>6, <1>7, <1>8, <1>9, <1>10, <1>11, <1>12, <1>13,
     <1>14, <1>15, <1>16, <1>17, <1>18, <1>19, <1>20, <1>21, <1>22, <1>23, <1>24
     DEF Next, Controller

\* The session implements its contract, for every value of the constants.
THEOREM SessionKeepsContract == Spec => KeepsContract
<1>1. Init => Contract!SessionInit
  BY DEF Init, Contract!SessionInit, GateOpen
<1> QED
  BY <1>1, ContractStep, Invariance, PTL
     DEF Spec, KeepsContract, Contract!SessionSpec

=============================================================================
