--------------------------- MODULE RecoveryTiming ---------------------------
(***************************************************************************)
(* The retry timing of the filtered network, translated from               *)
(* crates/kakoi-net/src/recovery.rs: pure operators on the value of a      *)
(* Recovery.                                                               *)
(*                                                                         *)
(* An Instant is modelled by the time left until it: `Waiting(at)` is      *)
(* [state |-> "Waiting", left |-> at - now], a deadline that has passed is *)
(* left = 0, and the passing of one unit of time is RecoveryAge.  The      *)
(* generation is a u64 in the code; the numbers are reused cyclically      *)
(* here, with at least two of them, so that a value is finite.  Reuse can  *)
(* only make more attempts look alike than in the code.                    *)
(***************************************************************************)
EXTENDS Naturals, Sequences

CONSTANTS
    AttemptTimeout, \* recovery_attempt_timeout_seconds
    Delays,         \* the waits after the 1st, 2nd ... consecutive failure
    Generations     \* how many generation numbers the model tells apart

ASSUME RecoveryAssumption ==
    /\ AttemptTimeout \in Nat \ {0}
    /\ Delays \in Seq(Nat \ {0})
    /\ Len(Delays) > 0
    /\ Generations \in Nat \ {0, 1}

\* The value of a Recovery: the fields of the struct, the enum State flattened.
RecoveryRecord ==
    [state: {"Healthy", "Waiting", "Working"},
     left: Nat,
     cancelled: BOOLEAN,
     generation: 0..Generations - 1,
     failures: 0..Len(Delays) - 1]

\* Recovery::new
RecoveryNew ==
    [state |-> "Healthy", left |-> 0, cancelled |-> FALSE,
     generation |-> 0, failures |-> 0]

\* The mistake isolate's comment warns of: a repeated observation restarts the wait.
RecoveryIsolateRestarts(r) ==
    [r EXCEPT !.state = "Waiting", !.left = 0, !.cancelled = FALSE]

\* Recovery::isolate: only a healthy one starts to wait, for an instant already due.
RecoveryIsolate(r) ==
    IF r.state = "Healthy"
    THEN [r EXCEPT !.state = "Waiting", !.left = 0, !.cancelled = FALSE]
    ELSE r

\* What Recovery::poll asks the caller to do.
RecoveryAction(r) ==
    CASE r.state = "Waiting" /\ r.left = 0 -> "Start"
      [] r.state = "Working" /\ r.left = 0 /\ ~r.cancelled -> "Cancel"
      [] OTHER -> "Wait"

\* The value Recovery::poll leaves behind.
RecoveryPoll(r) ==
    CASE RecoveryAction(r) = "Start" ->
           [r EXCEPT !.state = "Working", !.left = AttemptTimeout,
                     !.cancelled = FALSE,
                     !.generation = (r.generation + 1) % Generations]
      [] RecoveryAction(r) = "Cancel" -> [r EXCEPT !.cancelled = TRUE]
      [] OTHER -> r

\* A completion is refused unless it names the attempt that is running.
RecoveryAccepts(r, attempt) ==
    r.state = "Working" /\ r.generation = attempt

\* A completion that forgets the deadline and the cancellation.
RecoverySuccessUnchecked(r, succeeded) == succeeded

\* The result of an accepted Recovery::complete: a success counts only in time.
RecoverySuccess(r, succeeded) ==
    succeeded /\ ~r.cancelled /\ r.left > 0

\* The value an accepted Recovery::complete leaves behind.
RecoveryComplete(r, succeeded) ==
    IF RecoverySuccess(r, succeeded)
    THEN [r EXCEPT !.state = "Healthy", !.left = 0, !.cancelled = FALSE,
                   !.failures = 0]
    ELSE [r EXCEPT !.state = "Waiting", !.cancelled = FALSE,
                   !.left = Delays[r.failures + 1],
                   !.failures = IF r.failures + 1 < Len(Delays)
                                THEN r.failures + 1 ELSE Len(Delays) - 1]

\* One unit of time passes.
RecoveryAge(r) ==
    [r EXCEPT !.left = IF r.left > 0 THEN r.left - 1 ELSE 0]

=============================================================================
