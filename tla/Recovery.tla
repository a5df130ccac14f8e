------------------------------ MODULE Recovery ------------------------------
(***************************************************************************)
(* A Recovery (crates/kakoi-net/src/recovery.rs) and a caller that may use *)
(* its three operations in any order the Session could: observe failures   *)
(* at any time, poll at any time, and report the completion of an attempt  *)
(* it was told to start, late, cancelled or stale ones included.           *)
(*                                                                         *)
(* streak, rest and spent are history: the consecutive failures, the time  *)
(* since the last completion and the time since the last start, as an      *)
(* observer with a clock would measure them.                               *)
(***************************************************************************)
EXTENDS RecoveryTiming, FiniteSets

CONSTANT
    MaxSpan         \* where the observer's clocks stop counting

ASSUME MaxSpanAssumption == MaxSpan \in Nat

VARIABLES
    recovery,       \* the Recovery
    running,        \* the attempts the caller started and has not reported
    streak,         \* consecutive failed completions, up to Len(Delays)
    rest,           \* time since the last completion, up to MaxSpan
    spent           \* time since the last start, up to MaxSpan

vars == <<recovery, running, streak, rest, spent>>

Count(t) == IF t < MaxSpan THEN t + 1 ELSE t

Init ==
    /\ recovery = RecoveryNew
    /\ running = {}
    /\ streak = 0
    /\ rest = MaxSpan
    /\ spent = 0

\* The session closed transit after a failure and reports it (Session::fail).
Isolate ==
    /\ recovery' = RecoveryIsolate(recovery)
    /\ UNCHANGED <<running, streak, rest, spent>>

\* The session polls (Session::poll_isolated) and starts what it is told to.
Poll ==
    LET next == RecoveryPoll(recovery) IN
    /\ recovery' = next
    /\ IF RecoveryAction(recovery) = "Start"
       THEN running' = running \cup {next.generation} /\ spent' = 0
       ELSE UNCHANGED <<running, spent>>
    /\ UNCHANGED <<streak, rest>>

\* A started attempt has ended and is reported (Session::finish_rebuild).
Complete(attempt, succeeded) ==
    /\ attempt \in running
    /\ RecoveryAccepts(recovery, attempt)
    /\ recovery' = RecoveryComplete(recovery, succeeded)
    /\ running' = running \ {attempt}
    /\ streak' = IF RecoverySuccess(recovery, succeeded) THEN 0
                 ELSE IF streak < Len(Delays) THEN streak + 1 ELSE streak
    /\ rest' = 0
    /\ UNCHANGED spent

\* A completion that does not name the running attempt changes nothing.
CompleteStale(attempt) ==
    /\ ~RecoveryAccepts(recovery, attempt)
    /\ UNCHANGED vars

Tick ==
    /\ recovery' = RecoveryAge(recovery)
    /\ rest' = Count(rest)
    /\ spent' = Count(spent)
    /\ UNCHANGED <<running, streak>>

Next ==
    \/ Isolate
    \/ Poll
    \/ \E attempt \in running, succeeded \in BOOLEAN :
          Complete(attempt, succeeded)
    \/ \E attempt \in 0..Generations - 1 : CompleteStale(attempt)
    \/ Tick

Spec == Init /\ [][Next]_vars

-----------------------------------------------------------------------------

TypeOK ==
    /\ recovery \in RecoveryRecord
    /\ running \in SUBSET (0..Generations - 1)
    /\ streak \in 0..Len(Delays)
    /\ rest \in 0..MaxSpan
    /\ spent \in 0..MaxSpan

\* Attempts never overlap: one that was started and has not been reported keeps the
\* Recovery in Working, so a poll cannot start another, not even after the deadline
\* has cancelled it ("expiry alone never makes room for an overlapping task").
NoOverlap ==
    running = IF recovery.state = "Working" THEN {recovery.generation} ELSE {}

\* The wait before the next attempt is the whole delay of the current streak of
\* failures: however often the failure is observed or polled in between, no attempt
\* starts earlier ("repeated failure observations must not reset ... its backoff").
Due == IF streak = 0 THEN 0
       ELSE IF Delays[streak] < MaxSpan THEN Delays[streak] ELSE MaxSpan

BackoffKept ==
    [][recovery.state # "Working" /\ recovery'.state = "Working"
         => rest >= Due]_vars

\* A Recovery becomes healthy only by the success of its current attempt within the
\* attempt's time: a result that comes after the deadline never counts, even when
\* the caller saw it before it polled for the cancellation.
OnlyTimelySuccess ==
    [][recovery.state # "Healthy" /\ recovery'.state = "Healthy"
         => /\ recovery.state = "Working"
            /\ spent < AttemptTimeout]_vars

=============================================================================
