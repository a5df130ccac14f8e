--------------------------- MODULE RecoveryProofs ---------------------------
(***************************************************************************)
(* Recovery keeps its backoff and never lets two attempts overlap, for     *)
(* every attempt time, every list of delays and every use by its caller.   *)
(***************************************************************************)
EXTENDS Recovery, TLAPS

\* Recovery::new makes a Recovery.
LEMMA NewType == RecoveryNew \in RecoveryRecord
BY RecoveryAssumption DEF RecoveryNew, RecoveryRecord

\* Recovery::isolate keeps a Recovery one.
LEMMA IsolateType ==
    ASSUME NEW r \in RecoveryRecord
    PROVE  RecoveryIsolate(r) \in RecoveryRecord
BY DEF RecoveryIsolate, RecoveryRecord

\* Recovery::poll asks for one of its three actions.
LEMMA ActionCases ==
    ASSUME NEW r \in RecoveryRecord
    PROVE  \/ /\ RecoveryAction(r) = "Start"
              /\ r.state = "Waiting" /\ r.left = 0
           \/ /\ RecoveryAction(r) = "Cancel"
              /\ r.state = "Working" /\ r.left = 0 /\ ~r.cancelled
           \/ RecoveryAction(r) = "Wait"
BY DEF RecoveryAction, RecoveryRecord

\* The generation a poll starts is one of the numbers told apart.
LEMMA NextGeneration ==
    ASSUME NEW g \in 0..Generations - 1
    PROVE  (g + 1) % Generations \in 0..Generations - 1
BY RecoveryAssumption

\* What Recovery::poll leaves behind when it asks for a new attempt.
LEMMA PollStart ==
    ASSUME NEW r \in RecoveryRecord, RecoveryAction(r) = "Start"
    PROVE  /\ RecoveryPoll(r) \in RecoveryRecord
           /\ RecoveryPoll(r).state = "Working"
           /\ RecoveryPoll(r).left = AttemptTimeout
           /\ RecoveryPoll(r).failures = r.failures
<1>1. r.generation \in 0..Generations - 1
  BY DEF RecoveryRecord
<1>2. (r.generation + 1) % Generations \in 0..Generations - 1
  BY <1>1, NextGeneration
<1>3. RecoveryPoll(r) = [r EXCEPT !.state = "Working", !.left = AttemptTimeout,
                                  !.cancelled = FALSE,
                                  !.generation = (r.generation + 1) % Generations]
  BY DEF RecoveryPoll
<1> QED
  BY <1>2, <1>3, RecoveryAssumption DEF RecoveryRecord

\* What it leaves behind otherwise: at most the cancellation is noted.
LEMMA PollOther ==
    ASSUME NEW r \in RecoveryRecord, RecoveryAction(r) # "Start"
    PROVE  /\ RecoveryPoll(r) \in RecoveryRecord
           /\ RecoveryPoll(r).state = r.state
           /\ RecoveryPoll(r).left = r.left
           /\ RecoveryPoll(r).generation = r.generation
           /\ RecoveryPoll(r).failures = r.failures
<1>1. RecoveryPoll(r) \in {r, [r EXCEPT !.cancelled = TRUE]}
  BY DEF RecoveryPoll
<1> QED
  BY <1>1 DEF RecoveryRecord

\* A timely success makes a Recovery healthy, anything else makes it wait for the
\* delay of its failures so far.
LEMMA CompleteCases ==
    ASSUME NEW r \in RecoveryRecord, NEW succeeded \in BOOLEAN
    PROVE  /\ RecoveryComplete(r, succeeded) \in RecoveryRecord
           /\ RecoveryComplete(r, succeeded).generation = r.generation
           /\ RecoverySuccess(r, succeeded) =>
                /\ RecoveryComplete(r, succeeded).state = "Healthy"
                /\ RecoveryComplete(r, succeeded).failures = 0
           /\ ~RecoverySuccess(r, succeeded) =>
                /\ RecoveryComplete(r, succeeded).state = "Waiting"
                /\ RecoveryComplete(r, succeeded).left = Delays[r.failures + 1]
                /\ RecoveryComplete(r, succeeded).failures =
                     IF r.failures + 1 < Len(Delays)
                     THEN r.failures + 1 ELSE Len(Delays) - 1
<1>1. r.failures \in 0..Len(Delays) - 1
  BY DEF RecoveryRecord
<1>2. Delays[r.failures + 1] \in Nat
  BY <1>1, RecoveryAssumption
<1>3. CASE RecoverySuccess(r, succeeded)
  <2> DEFINE zero == 0
  <2>1. RecoveryComplete(r, succeeded) =
          [r EXCEPT !.state = "Healthy", !.left = zero, !.cancelled = FALSE,
                    !.failures = zero]
    BY <1>3 DEF RecoveryComplete
  <2>2. zero \in Nat /\ zero \in 0..Len(Delays) - 1
    BY RecoveryAssumption
  <2> QED
    <3> HIDE DEF zero
    <3>1. /\ RecoveryComplete(r, succeeded) \in RecoveryRecord
          /\ RecoveryComplete(r, succeeded).generation = r.generation
          /\ RecoveryComplete(r, succeeded).state = "Healthy"
          /\ RecoveryComplete(r, succeeded).failures = zero
      BY <2>1, <2>2 DEF RecoveryRecord
    <3> QED
      BY <1>3, <3>1 DEF zero
<1>4. CASE ~RecoverySuccess(r, succeeded)
  <2> DEFINE count == IF r.failures + 1 < Len(Delays)
                      THEN r.failures + 1 ELSE Len(Delays) - 1
  <2>1. RecoveryComplete(r, succeeded) =
          [r EXCEPT !.state = "Waiting", !.cancelled = FALSE,
                    !.left = Delays[r.failures + 1], !.failures = count]
    BY <1>4 DEF RecoveryComplete
  <2>2. count \in 0..Len(Delays) - 1
    BY <1>1, RecoveryAssumption
  <2> QED
    <3> HIDE DEF count
    <3>1. /\ RecoveryComplete(r, succeeded) \in RecoveryRecord
          /\ RecoveryComplete(r, succeeded).generation = r.generation
          /\ RecoveryComplete(r, succeeded).state = "Waiting"
          /\ RecoveryComplete(r, succeeded).left = Delays[r.failures + 1]
          /\ RecoveryComplete(r, succeeded).failures = count
      BY <1>2, <2>1, <2>2 DEF RecoveryRecord
    <3> QED
      BY <1>4, <3>1 DEF count
<1> QED
  BY <1>3, <1>4

\* Time only shortens what is left.
LEMMA AgeType ==
    ASSUME NEW r \in RecoveryRecord
    PROVE  /\ RecoveryAge(r) \in RecoveryRecord
           /\ RecoveryAge(r).state = r.state
           /\ RecoveryAge(r).generation = r.generation
           /\ RecoveryAge(r).failures = r.failures
           /\ RecoveryAge(r).left = IF r.left > 0 THEN r.left - 1 ELSE 0
BY DEF RecoveryAge, RecoveryRecord

-----------------------------------------------------------------------------

\* One step of the Recovery preserves its types.
LEMMA TypeStep == TypeOK /\ [Next]_vars => TypeOK'
<1> SUFFICES ASSUME TypeOK, [Next]_vars
             PROVE  TypeOK'
  OBVIOUS
<1> USE RecoveryAssumption, MaxSpanAssumption DEF TypeOK
<1>1. CASE Isolate
  BY <1>1, IsolateType DEF Isolate
<1>2. CASE Poll
  <2>1. CASE RecoveryAction(recovery) = "Start"
    <3>1. RecoveryPoll(recovery) \in RecoveryRecord
      BY <2>1, PollStart
    <3>2. RecoveryPoll(recovery).generation \in 0..Generations - 1
      BY <3>1 DEF RecoveryRecord
    <3>3. /\ recovery' = RecoveryPoll(recovery)
          /\ running' = running \cup {RecoveryPoll(recovery).generation}
          /\ spent' = 0 /\ UNCHANGED <<streak, rest>>
      BY <1>2, <2>1 DEF Poll
    <3>4. running' \in SUBSET (0..Generations - 1)
      BY <3>2, <3>3
    <3>5. spent' \in 0..MaxSpan
      BY <3>3
    <3> QED
      BY <3>1, <3>3, <3>4, <3>5
  <2>2. CASE RecoveryAction(recovery) # "Start"
    BY <1>2, <2>2, PollOther DEF Poll
  <2> QED
    BY <2>1, <2>2
<1>3. ASSUME NEW attempt \in running, NEW succeeded \in BOOLEAN,
             Complete(attempt, succeeded)
      PROVE  TypeOK'
  BY <1>3, CompleteCases DEF Complete
<1>4. CASE \E attempt \in 0..Generations - 1 : CompleteStale(attempt)
  BY <1>4 DEF CompleteStale, vars
<1>5. CASE Tick
  BY <1>5, AgeType DEF Tick, Count
<1>6. CASE UNCHANGED vars
  BY <1>6 DEF vars
<1> QED
  BY <1>1, <1>2, <1>3, <1>4, <1>5, <1>6 DEF Next

\* The state of a Recovery and of its caller are of their types, always.
THEOREM TypeCorrect == Spec => []TypeOK
<1>1. Init => TypeOK
  BY NewType, RecoveryAssumption, MaxSpanAssumption DEF Init, TypeOK
<1> QED
  BY <1>1, TypeStep, PTL DEF Spec

-----------------------------------------------------------------------------

\* The clocks of the observer and the deadlines of the Recovery agree: a wait still
\* has to run what is missing of the due delay, and an attempt's time is what is left
\* plus what was spent.  The failure count follows the streak up to the last delay.
Timing ==
    /\ recovery.state = "Healthy" => streak = 0
    /\ recovery.failures = IF streak < Len(Delays) THEN streak ELSE Len(Delays) - 1
    /\ recovery.state = "Waiting" => rest + recovery.left >= Due
    /\ recovery.state = "Working" /\ recovery.left > 0 =>
          spent + recovery.left <= AttemptTimeout

IInv == TypeOK /\ NoOverlap /\ Timing

\* Every delay is a positive number, so the due wait is a number.
LEMMA DueType ==
    ASSUME streak \in 0..Len(Delays)
    PROVE  Due \in Nat /\ (streak = 0 => Due = 0)
                      /\ (streak # 0 => Due <= Delays[streak] /\ Due <= MaxSpan)
BY RecoveryAssumption, MaxSpanAssumption DEF Due

\* One step preserves the agreement of clocks and deadlines.
LEMMA InvStep == IInv /\ [Next]_vars => IInv'
<1> SUFFICES ASSUME IInv, [Next]_vars
             PROVE  IInv'
  OBVIOUS
<1>0. TypeOK'
  BY TypeStep DEF IInv
<1>r. /\ recovery \in RecoveryRecord
      /\ recovery.left \in Nat
      /\ recovery.failures \in 0..Len(Delays) - 1
      /\ streak \in 0..Len(Delays)
      /\ rest \in Nat /\ spent \in Nat
  BY MaxSpanAssumption DEF IInv, TypeOK, RecoveryRecord
<1>d. Due \in Nat /\ (streak = 0 => Due = 0)
                 /\ (streak # 0 => Due <= Delays[streak] /\ Due <= MaxSpan)
  BY <1>r, DueType
<1>1. CASE Isolate
  <2>1. CASE recovery.state = "Healthy"
    <3>1. /\ recovery'.state = "Waiting" /\ recovery'.left = 0
          /\ recovery'.failures = recovery.failures
          /\ recovery'.generation = recovery.generation
      BY <1>1, <1>r, <2>1 DEF Isolate, RecoveryIsolate, RecoveryRecord
    <3>2. UNCHANGED <<running, streak, rest, spent>>
      BY <1>1 DEF Isolate
    <3>3. Due' = Due
      BY <3>2 DEF Due
    <3>4. NoOverlap'
      BY <2>1, <3>1, <3>2 DEF IInv, NoOverlap
    <3>5. Timing'
      BY <1>r, <1>d, <2>1, <3>1, <3>2, <3>3 DEF IInv, Timing
    <3> QED
      BY <1>0, <3>4, <3>5 DEF IInv
  <2>2. CASE recovery.state # "Healthy"
    <3>1. UNCHANGED vars
      BY <1>1, <2>2 DEF Isolate, RecoveryIsolate, vars
    <3> QED
      BY <1>0, <3>1 DEF IInv, NoOverlap, Timing, Due, vars
  <2> QED
    BY <2>1, <2>2
<1>2. CASE Poll
  <2>0. UNCHANGED <<streak, rest>> /\ recovery' = RecoveryPoll(recovery)
    BY <1>2 DEF Poll
  <2>d. Due' = Due
    BY <2>0 DEF Due
  <2>1. CASE RecoveryAction(recovery) = "Start"
    <3>1. /\ recovery'.state = "Working" /\ recovery'.left = AttemptTimeout
          /\ recovery'.failures = recovery.failures
      BY <1>r, <2>0, <2>1, PollStart
    <3>2. recovery.state = "Waiting"
      BY <1>r, <2>1, ActionCases
    <3>3. running' = running \cup {recovery'.generation} /\ spent' = 0
      BY <1>2, <2>1 DEF Poll
    <3>4. NoOverlap'
      BY <3>1, <3>2, <3>3 DEF IInv, NoOverlap
    <3>5. Timing'
      BY <1>r, <2>0, <2>d, <3>1, <3>3, RecoveryAssumption DEF IInv, Timing
    <3> QED
      BY <1>0, <3>4, <3>5 DEF IInv
  <2>2. CASE RecoveryAction(recovery) # "Start"
    <3>1. /\ recovery'.state = recovery.state /\ recovery'.left = recovery.left
          /\ recovery'.generation = recovery.generation
          /\ recovery'.failures = recovery.failures
      BY <1>r, <2>0, <2>2, PollOther
    <3>2. UNCHANGED <<running, spent>>
      BY <1>2, <2>2 DEF Poll
    <3>4. NoOverlap'
      BY <3>1, <3>2 DEF IInv, NoOverlap
    <3>5. Timing'
      BY <1>r, <2>0, <2>d, <3>1, <3>2 DEF IInv, Timing
    <3> QED
      BY <1>0, <3>4, <3>5 DEF IInv
  <2> QED
    BY <2>1, <2>2
<1>3. ASSUME NEW attempt \in running, NEW succeeded \in BOOLEAN,
             Complete(attempt, succeeded)
      PROVE  IInv'
  <2>0. /\ recovery.state = "Working" /\ running' = {} /\ rest' = 0 /\ spent' = spent
        /\ recovery' = RecoveryComplete(recovery, succeeded)
    BY <1>3 DEF Complete, RecoveryAccepts, IInv, NoOverlap
  <2>1. CASE RecoverySuccess(recovery, succeeded)
    <3>1. recovery'.state = "Healthy" /\ recovery'.failures = 0
      BY <1>r, <2>0, <2>1, CompleteCases
    <3>2. streak' = 0
      BY <1>3, <2>1 DEF Complete
    <3>3. NoOverlap'
      BY <2>0, <3>1 DEF NoOverlap
    <3>4. Timing'
      BY <3>1, <3>2, RecoveryAssumption DEF Timing
    <3> QED
      BY <1>0, <3>3, <3>4 DEF IInv
  <2>2. CASE ~RecoverySuccess(recovery, succeeded)
    <3>1. /\ recovery'.state = "Waiting"
          /\ recovery'.left = Delays[recovery.failures + 1]
          /\ recovery'.failures = IF recovery.failures + 1 < Len(Delays)
                                  THEN recovery.failures + 1 ELSE Len(Delays) - 1
      BY <1>r, <2>0, <2>2, CompleteCases
    <3>2. streak' = IF streak < Len(Delays) THEN streak + 1 ELSE streak
      BY <1>3, <2>2 DEF Complete
    <3>3. recovery.failures = IF streak < Len(Delays) THEN streak
                              ELSE Len(Delays) - 1
      BY DEF IInv, Timing
    <3>4. streak' = recovery.failures + 1 /\ streak' \in 1..Len(Delays)
      BY <1>r, <3>2, <3>3, RecoveryAssumption
    <3>5. Due' \in Nat /\ Due' <= recovery'.left
      BY <3>1, <3>4, RecoveryAssumption, MaxSpanAssumption DEF Due
    <3>6. recovery'.left \in Nat
      BY <3>1, <3>4, RecoveryAssumption
    <3>7. recovery'.failures = IF streak' < Len(Delays) THEN streak'
                               ELSE Len(Delays) - 1
      BY <3>1, <3>4
    <3>8. NoOverlap'
      BY <2>0, <3>1 DEF NoOverlap
    <3>9. Timing'
      BY <2>0, <3>1, <3>5, <3>6, <3>7 DEF Timing
    <3> QED
      BY <1>0, <3>8, <3>9 DEF IInv
  <2> QED
    BY <2>1, <2>2
<1>4. CASE \E attempt \in 0..Generations - 1 : CompleteStale(attempt)
  BY <1>0, <1>4 DEF CompleteStale, IInv, NoOverlap, Timing, Due, vars
<1>5. CASE Tick
  <2>0. /\ UNCHANGED <<running, streak>>
        /\ rest' = Count(rest) /\ spent' = Count(spent)
        /\ recovery' = RecoveryAge(recovery)
    BY <1>5 DEF Tick
  <2>1. /\ recovery'.state = recovery.state
        /\ recovery'.generation = recovery.generation
        /\ recovery'.failures = recovery.failures
        /\ recovery'.left = IF recovery.left > 0 THEN recovery.left - 1 ELSE 0
    BY <1>r, <2>0, AgeType
  <2>2. Due' = Due /\ Due <= MaxSpan
    BY <1>d, <2>0, MaxSpanAssumption DEF Due
  <2>3. NoOverlap'
    BY <2>0, <2>1 DEF IInv, NoOverlap
  <2>4. recovery'.state = "Waiting" => rest' + recovery'.left >= Due'
    BY <1>r, <1>d, <2>0, <2>1, <2>2, MaxSpanAssumption DEF IInv, Timing, Count, TypeOK
  <2>5. recovery'.state = "Working" /\ recovery'.left > 0 =>
          spent' + recovery'.left <= AttemptTimeout
    BY <1>r, <2>0, <2>1, RecoveryAssumption, MaxSpanAssumption
       DEF IInv, Timing, Count, TypeOK
  <2>6. Timing'
    BY <2>0, <2>1, <2>4, <2>5 DEF IInv, Timing
  <2> QED
    BY <1>0, <2>3, <2>6 DEF IInv
<1>6. CASE UNCHANGED vars
  BY <1>0, <1>6 DEF IInv, NoOverlap, Timing, Due, vars
<1> QED
  BY <1>1, <1>2, <1>3, <1>4, <1>5, <1>6 DEF Next

\* The inductive invariant holds in every reachable state.
THEOREM Invariance == Spec => []IInv
<1>1. Init => IInv
  <2> SUFFICES ASSUME Init PROVE IInv
    OBVIOUS
  <2>1. TypeOK
    BY NewType, RecoveryAssumption, MaxSpanAssumption DEF Init, TypeOK
  <2>2. NoOverlap /\ Timing
    BY RecoveryAssumption DEF Init, NoOverlap, Timing, RecoveryNew
  <2> QED
    BY <2>1, <2>2 DEF IInv
<1> QED
  BY <1>1, InvStep, PTL DEF Spec

\* No two attempts overlap, whatever the caller observes, polls or reports and when:
\* an attempt that has not been reported is the one the Recovery is working on.
THEOREM AttemptsNeverOverlap == Spec => []NoOverlap
BY Invariance, PTL DEF IInv

\* An attempt starts only after the whole delay of the failures before it.
THEOREM BackoffIsKept == Spec => BackoffKept
<1>1. IInv /\ [Next]_vars =>
        [recovery.state # "Working" /\ recovery'.state = "Working"
           => rest >= Due]_vars
  <2> SUFFICES ASSUME IInv, [Next]_vars, recovery.state # "Working",
                      recovery'.state = "Working"
               PROVE  rest >= Due
    OBVIOUS
  <2>r. recovery \in RecoveryRecord /\ rest \in Nat
    BY MaxSpanAssumption DEF IInv, TypeOK
  <2>1. Poll
    <3>1. CASE Isolate
      BY <2>r, <3>1 DEF Isolate, RecoveryIsolate, RecoveryRecord
    <3>2. ASSUME NEW attempt \in running, NEW succeeded \in BOOLEAN,
                 Complete(attempt, succeeded)
          PROVE  FALSE
      BY <2>r, <3>2, CompleteCases DEF Complete, RecoveryAccepts
    <3>3. CASE Tick
      BY <2>r, <3>3, AgeType DEF Tick
    <3> QED
      BY <3>1, <3>2, <3>3 DEF Next, CompleteStale, vars
  <2>2. RecoveryAction(recovery) = "Start"
    BY <2>r, <2>1, PollOther DEF Poll
  <2>3. recovery.state = "Waiting" /\ recovery.left = 0
    BY <2>r, <2>2, ActionCases
  <2> QED
    BY <2>r, <2>3 DEF IInv, Timing
<1> QED
  BY <1>1, Invariance, PTL DEF Spec, BackoffKept

\* Only a success within the attempt's time makes a Recovery healthy.
THEOREM SuccessIsTimely == Spec => OnlyTimelySuccess
<1>1. IInv /\ [Next]_vars =>
        [recovery.state # "Healthy" /\ recovery'.state = "Healthy"
           => recovery.state = "Working" /\ spent < AttemptTimeout]_vars
  <2> SUFFICES ASSUME IInv, [Next]_vars, recovery.state # "Healthy",
                      recovery'.state = "Healthy"
               PROVE  recovery.state = "Working" /\ spent < AttemptTimeout
    OBVIOUS
  <2>r. recovery \in RecoveryRecord /\ recovery.left \in Nat /\ spent \in Nat
    BY MaxSpanAssumption DEF IInv, TypeOK, RecoveryRecord
  <2>1. PICK attempt \in running, succeeded \in BOOLEAN : Complete(attempt, succeeded)
    <3>1. CASE Isolate
      BY <2>r, <3>1 DEF Isolate, RecoveryIsolate, RecoveryRecord
    <3>2. CASE Poll
      BY <2>r, <3>2, PollStart, PollOther DEF Poll
    <3>3. CASE Tick
      BY <2>r, <3>3, AgeType DEF Tick
    <3> QED
      BY <3>1, <3>2, <3>3 DEF Next, CompleteStale, vars
  <2>2. RecoverySuccess(recovery, succeeded)
    BY <2>r, <2>1, CompleteCases DEF Complete
  <2>3. recovery.state = "Working" /\ recovery.left > 0
    BY <2>1, <2>2 DEF Complete, RecoveryAccepts, RecoverySuccess
  <2> QED
    BY <2>r, <2>3, RecoveryAssumption DEF IInv, Timing
<1> QED
  BY <1>1, Invariance, PTL DEF Spec, OnlyTimelySuccess

=============================================================================
