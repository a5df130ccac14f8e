---------------------------- MODULE LibraryProofs ---------------------------
(***************************************************************************)
(* The handle: its status never goes back and no future that waits for the *)
(* outcome is forgotten, for any number of futures, tasks, threads and     *)
(* callers.  The messages: what arrives is what was sent, for any sizes,   *)
(* limits and capacity of the socket.                                      *)
(***************************************************************************)
EXTENDS Library, Integers, Sequences, FiniteSetTheorems, TLAPS

(* The handle. *)

\* The futures that wait, and those that were polled.
Sleeping == {f \in Futures : future[f] = "pending"}
Begun    == {f \in Futures : future[f] # "new"}

\* The status follows the reaper, and at most one stop is sent.
StatusKept ==
    /\ status \in {"Starting", "Running", "Stopping", "Finished"}
    /\ spawn \in {"starting", "Running", "Stopping", "Finished"}
    /\ settled \in BOOLEAN /\ requested \in BOOLEAN /\ control \in BOOLEAN
    /\ stops \in 0..1 /\ (~requested => stops = 0)
    /\ settler \in {"recv", "main", "wait", "notify", "wake", "done"}
    /\ settled <=> settler \in {"notify", "wake", "done"}
    /\ status = "Finished" <=> settled

\* Each future takes one number, and gives it back with its waker.
NumbersKept ==
    /\ next_waiter \in Nat /\ next_waiter <= Cardinality(Begun)
    /\ registration \in [Futures -> Int] /\ future \in [Futures -> {"new", "pending", "ready", "dropped"}]
    /\ DOMAIN polled = Futures
    /\ \A f \in Futures :
          /\ future[f] = "pending" => registration[f] \in Nat /\ registration[f] < next_waiter
          /\ future[f] # "pending" => registration[f] = -1
    /\ \A f, g \in Sleeping : registration[f] = registration[g] => f = g

\* The waker of every future that waits is registered, about to be called, or was called.
WakersKept ==
    /\ ~settled => /\ waking = {}
                   /\ DOMAIN waiters = {registration[f] : f \in Sleeping}
                   /\ \A f \in Sleeping : waiters[registration[f]] = polled[f]
    /\ settled => \A f \in Sleeping : polled[f] \in waking \cup awake
    /\ settler = "done" => waking = {}

HandleInv == StatusKept /\ NumbersKept /\ WakersKept

\* The steps that touch no future.
LEMMA FuturesStay ==
    ASSUME NumbersKept, UNCHANGED <<next_waiter, registration, future, polled>>
    PROVE  NumbersKept'
<1>1. Sleeping' = Sleeping /\ Begun' = Begun
  BY DEF Sleeping, Begun
<1>. QED
  BY <1>1 DEF NumbersKept

\* What else they leave as it is.
LEMMA WakersStay ==
    ASSUME WakersKept, UNCHANGED <<waiters, registration, future, polled, waking, awake, settled>>,
           settler' = "done" => settler = "done"
    PROVE  WakersKept'
<1>1. Sleeping' = Sleeping
  BY DEF Sleeping
<1>. QED
  BY <1>1 DEF WakersKept

\* A future that is polled before the end takes a number and leaves its waker.
LEMMA PollPending ==
    ASSUME IsFiniteSet(Futures), HandleInv, NEW f \in Futures, NEW t \in Tasks, Handle!Poll(f, t), ~settled
    PROVE  HandleInv'
<1>. DEFINE id == IF registration[f] = -1 THEN next_waiter ELSE registration[f]
<1>. USE DEF HandleInv
<1>0. /\ future[f] \in {"new", "pending"}
      /\ registration' = [registration EXCEPT ![f] = id]
      /\ next_waiter' = IF registration[f] = -1 THEN next_waiter + 1 ELSE next_waiter
      /\ waiters' = [i \in DOMAIN waiters \union {id} |-> IF i = id THEN t ELSE waiters[i]]
      /\ future' = [future EXCEPT ![f] = "pending"]
      /\ polled' = [polled EXCEPT ![f] = t]
      /\ UNCHANGED <<status, settled, requested, control, stops, spawn, settler, waking, awake>>
  BY DEF Handle!Poll, Handle!NoId, Handle!Insert, Handle!shared
<1>1. StatusKept'
  BY <1>0 DEF StatusKept
<1>2. Sleeping' = Sleeping \cup {f} /\ Begun' = Begun \cup {f}
  BY <1>0 DEF Sleeping, Begun, NumbersKept
<1>3. /\ id \in Nat /\ next_waiter' \in Nat /\ id < next_waiter'
      /\ next_waiter <= next_waiter'
      /\ \A g \in Sleeping : g # f => registration[g] # id
  <2>1. CASE future[f] = "new"
    <3>1. registration[f] = -1 /\ next_waiter \in Nat
      BY <2>1 DEF NumbersKept
    <3>2. id = next_waiter /\ next_waiter' = next_waiter + 1
      BY <1>0, <3>1
    <3>3. \A g \in Sleeping : registration[g] \in Nat /\ registration[g] < next_waiter
      BY DEF NumbersKept, Sleeping
    <3>. QED
      BY <3>1, <3>2, <3>3
  <2>2. CASE future[f] = "pending"
    <3>1. registration[f] \in Nat /\ registration[f] < next_waiter /\ next_waiter \in Nat
      BY <2>2 DEF NumbersKept
    <3>2. id = registration[f] /\ next_waiter' = next_waiter
      BY <1>0, <3>1
    <3>3. f \in Sleeping
      BY <2>2 DEF Sleeping
    <3>. QED
      BY <3>1, <3>2, <3>3 DEF NumbersKept
  <2>. QED
    BY <1>0, <2>1, <2>2
<1>4. next_waiter' <= Cardinality(Begun')
  <2>0. IsFiniteSet(Begun) /\ Begun \subseteq Futures
    BY FS_Subset DEF Begun
  <2>1. CASE future[f] = "new"
    <3>1. f \notin Begun /\ next_waiter' = next_waiter + 1
      BY <1>0, <2>1 DEF Begun, NumbersKept
    <3>2. Cardinality(Begun \cup {f}) = Cardinality(Begun) + 1 /\ Cardinality(Begun) \in Nat
      BY <2>0, <3>1, FS_AddElement, FS_CardinalityType
    <3>3. next_waiter + 1 <= Cardinality(Begun) + 1
      BY <3>2 DEF NumbersKept
    <3>. QED
      BY <1>2, <3>1, <3>2, <3>3
  <2>2. CASE future[f] = "pending"
    <3>1. f \in Begun /\ next_waiter' = next_waiter
      BY <1>0, <2>2 DEF Begun, NumbersKept
    <3>2. Begun \cup {f} = Begun
      BY <3>1
    <3>. QED
      BY <1>2, <3>1, <3>2 DEF NumbersKept
  <2>. QED
    BY <1>0, <2>1, <2>2
<1>. HIDE DEF id
<1>5. /\ registration'[f] = id /\ future'[f] = "pending" /\ polled'[f] = t
      /\ \A g \in Futures : g # f => /\ registration'[g] = registration[g]
                                     /\ future'[g] = future[g] /\ polled'[g] = polled[g]
  BY <1>0 DEF NumbersKept
<1>6. \A g \in Sleeping : registration'[g] = IF g = f THEN id ELSE registration[g]
  BY <1>5 DEF Sleeping
<1>7. NumbersKept'
  <2>1. \A g \in Futures :
          /\ future'[g] = "pending" => registration'[g] \in Nat /\ registration'[g] < next_waiter'
          /\ future'[g] # "pending" => registration'[g] = -1
    BY <1>3, <1>5 DEF NumbersKept
  <2>2. \A g, h \in Sleeping' : registration'[g] = registration'[h] => g = h
    BY <1>2, <1>3, <1>5, <1>6 DEF NumbersKept, Sleeping
  <2>3. /\ registration' \in [Futures -> Int] /\ DOMAIN polled' = Futures
        /\ future' \in [Futures -> {"new", "pending", "ready", "dropped"}]
    BY <1>0, <1>3 DEF NumbersKept
  <2>. QED
    BY <1>3, <1>4, <2>1, <2>2, <2>3 DEF NumbersKept
<1>8. WakersKept'
  <2>1. DOMAIN waiters' = {registration'[g] : g \in Sleeping'}
    <3>1. DOMAIN waiters = {registration[g] : g \in Sleeping}
      BY DEF WakersKept
    <3>2. f \in Sleeping => registration[f] = id
      BY DEF Sleeping, NumbersKept, id
    <3>3. DOMAIN waiters' = DOMAIN waiters \cup {id}
      BY <1>0
    <3>. QED
      BY <1>2, <1>5, <1>6, <3>1, <3>2, <3>3
  <2>2. \A g \in Sleeping' : waiters'[registration'[g]] = polled'[g]
    <3>1. waiters'[id] = t
      BY <1>0
    <3>2. ASSUME NEW g \in Sleeping, g # f PROVE waiters'[registration'[g]] = polled'[g]
      <4>1. registration'[g] = registration[g] /\ polled'[g] = polled[g] /\ registration[g] # id
        BY <1>3, <1>5, <3>2 DEF Sleeping
      <4>2. registration[g] \in DOMAIN waiters /\ waiters[registration[g]] = polled[g]
        BY DEF WakersKept
      <4>. QED
        BY <1>0, <4>1, <4>2
    <3>. QED
      BY <1>2, <1>5, <3>1, <3>2
  <2>. QED
    BY <1>0, <2>1, <2>2 DEF WakersKept
<1>. QED
  BY <1>1, <1>7, <1>8

\* A future that is ready or dropped gives its number and its waker back.
LEMMA FutureEnds ==
    ASSUME IsFiniteSet(Futures), HandleInv, NEW f \in Futures, NEW e \in {"ready", "dropped"},
           future[f] \in {"new", "pending"}, future' = [future EXCEPT ![f] = e],
           registration' = [registration EXCEPT ![f] = -1],
           waiters' = [i \in DOMAIN waiters \ {registration[f]} |-> waiters[i]],
           polled' = polled \/ \E t \in Tasks : polled' = [polled EXCEPT ![f] = t],
           ~settled => future[f] = "pending",
           UNCHANGED <<status, settled, requested, control, stops, spawn, settler, waking, awake,
                       next_waiter>>
    PROVE  HandleInv'
<1>. USE DEF HandleInv
<1>1. StatusKept'
  BY DEF StatusKept
<1>2. Sleeping' = Sleeping \ {f} /\ Begun' = Begun \cup {f}
  BY DEF Sleeping, Begun, NumbersKept
<1>3. /\ registration'[f] = -1 /\ future'[f] = e
      /\ \A g \in Futures : g # f => /\ registration'[g] = registration[g]
                                     /\ future'[g] = future[g] /\ polled'[g] = polled[g]
      /\ DOMAIN polled' = Futures
  BY DEF NumbersKept
<1>4. next_waiter <= Cardinality(Begun')
  <2>1. IsFiniteSet(Begun)
    BY FS_Subset DEF Begun
  <2>2. /\ Cardinality(Begun) \in Nat
        /\ Cardinality(Begun \cup {f}) = Cardinality(Begun) \/ Cardinality(Begun \cup {f}) = Cardinality(Begun) + 1
    BY <2>1, FS_AddElement, FS_CardinalityType
  <2>3. next_waiter <= Cardinality(Begun) /\ next_waiter \in Nat
    BY DEF NumbersKept
  <2>. QED
    BY <1>2, <2>2, <2>3
<1>5. NumbersKept'
  <2>1. \A g \in Futures :
          /\ future'[g] = "pending" => registration'[g] \in Nat /\ registration'[g] < next_waiter
          /\ future'[g] # "pending" => registration'[g] = -1
    BY <1>3 DEF NumbersKept
  <2>2. \A g, h \in Sleeping' : registration'[g] = registration'[h] => g = h
    BY <1>2, <1>3 DEF NumbersKept, Sleeping
  <2>3. /\ registration' \in [Futures -> Int]
        /\ future' \in [Futures -> {"new", "pending", "ready", "dropped"}]
    BY DEF NumbersKept
  <2>. QED
    BY <1>3, <1>4, <2>1, <2>2, <2>3 DEF NumbersKept
<1>6. WakersKept'
  <2>1. CASE settled
    BY <1>2, <1>3, <2>1 DEF WakersKept, Sleeping
  <2>2. CASE ~settled
    <3>0. f \in Sleeping
      BY <2>2 DEF Sleeping
    <3>1. DOMAIN waiters = {registration[g] : g \in Sleeping}
      BY <2>2 DEF WakersKept
    <3>2. \A g \in Sleeping' : registration'[g] = registration[g] /\ polled'[g] = polled[g]
                               /\ registration[g] # registration[f]
      BY <1>2, <1>3, <3>0 DEF Sleeping, NumbersKept
    <3>3. DOMAIN waiters' = DOMAIN waiters \ {registration[f]}
      OBVIOUS
    <3>4. DOMAIN waiters' = {registration'[g] : g \in Sleeping'}
      BY <1>2, <3>0, <3>1, <3>2, <3>3
    <3>5. \A g \in Sleeping' : waiters'[registration'[g]] = polled'[g]
      BY <1>2, <2>2, <3>1, <3>2 DEF WakersKept
    <3>. QED
      BY <2>2, <3>4, <3>5 DEF WakersKept
  <2>. QED
    BY <2>1, <2>2 DEF StatusKept
<1>. QED
  BY <1>1, <1>5, <1>6

\* Every step of the handle keeps the invariant.
LEMMA HandleStep ==
    ASSUME IsFiniteSet(Futures), HandleInv, [Handle!Next]_handleVars
    PROVE  HandleInv'
<1>. USE DEF HandleInv
<1>1. CASE Handle!SpawnReturns
  <2>1. /\ status' = IF status = "Starting" THEN "Running" ELSE status
        /\ spawn' = status'
        /\ UNCHANGED <<settled, requested, control, stops, settler, waiters, next_waiter, waking,
                       registration, polled, future, awake>>
    BY <1>1 DEF Handle!SpawnReturns, Handle!mark_running, Handle!waits
  <2>2. StatusKept'
    BY <2>1 DEF StatusKept
  <2>. QED
    BY <2>1, <2>2, FuturesStay, WakersStay
<1>2. ASSUME NEW c \in Callers, Handle!Stop(c)
      PROVE  HandleInv'
  <2>1. UNCHANGED <<settled, control, spawn, settler, waiters, next_waiter, waking, registration,
                    polled, future, awake>>
    BY <1>2 DEF Handle!Stop, Handle!waits
  <2>2. \/ UNCHANGED <<requested, status, stops>>
        \/ /\ status # "Finished" /\ ~requested /\ requested' = TRUE /\ status' = "Stopping"
           /\ stops' = stops \/ stops' = stops + 1
    BY <1>2 DEF Handle!Stop, Handle!Asked
  <2>3. CASE UNCHANGED <<requested, status, stops>>
    BY <2>1, <2>3, FuturesStay, WakersStay DEF StatusKept
  <2>4. CASE ~UNCHANGED <<requested, status, stops>>
    <3>1. /\ status # "Finished" /\ ~requested /\ requested' = TRUE /\ status' = "Stopping"
          /\ stops' = stops \/ stops' = stops + 1
      BY <2>2, <2>4
    <3>2. stops = 0 /\ ~settled
      BY <3>1 DEF StatusKept
    <3>3. stops' \in 0..1
      BY <3>1, <3>2
    <3>4. StatusKept'
      BY <2>1, <3>1, <3>2, <3>3 DEF StatusKept
    <3>. QED
      BY <2>1, <3>4, FuturesStay, WakersStay
  <2>. QED
    BY <2>3, <2>4
<1>3. ASSUME NEW h \in Threads, Handle!WaitBlocks(h)
      PROVE  HandleInv'
  <2>1. UNCHANGED <<status, settled, requested, control, stops, spawn, settler, waiters,
                    next_waiter, waking, registration, polled, future, awake>>
    BY <1>3 DEF Handle!WaitBlocks, Handle!shared, Handle!waits
  <2>2. StatusKept'
    BY <2>1 DEF StatusKept
  <2>. QED
    BY <2>1, <2>2, FuturesStay, WakersStay
<1>4. ASSUME NEW f \in Futures, NEW t \in Tasks, Handle!Poll(f, t)
      PROVE  HandleInv'
  <2>1. CASE settled
    <3>1. /\ future[f] \in {"new", "pending"} /\ future' = [future EXCEPT ![f] = "ready"]
          /\ waiters' = [i \in DOMAIN waiters \ {registration[f]} |-> waiters[i]]
          /\ registration' = [registration EXCEPT ![f] = -1]
          /\ polled' = [polled EXCEPT ![f] = t]
          /\ UNCHANGED <<status, settled, requested, control, stops, spawn, settler, waking,
                         awake, next_waiter>>
      BY <1>4, <2>1 DEF Handle!Poll, Handle!NoId, Handle!shared, Handle!Restrict
    <3>. QED
      BY <2>1, <3>1, FutureEnds
  <2>2. CASE ~settled
    BY <1>4, <2>2, PollPending
  <2>. QED
    BY <2>1, <2>2
<1>5. ASSUME NEW f \in Futures, Handle!DropWait(f)
      PROVE  HandleInv'
  <2>1. /\ future[f] = "pending" /\ future' = [future EXCEPT ![f] = "dropped"]
        /\ waiters' = [i \in DOMAIN waiters \ {registration[f]} |-> waiters[i]]
        /\ registration' = [registration EXCEPT ![f] = -1]
        /\ UNCHANGED <<status, settled, requested, control, stops, spawn, settler, waking,
                       awake, next_waiter, polled>>
    BY <1>5 DEF Handle!DropWait, Handle!NoId, Handle!shared, Handle!Removed, Handle!Restrict
  <2>. QED
    BY <2>1, FutureEnds
<1>6. CASE Handle!ReaperMain \/ Handle!ReaperLetsGo
  <2>1. /\ UNCHANGED <<settled, requested, stops, spawn, waiters, next_waiter, waking,
                       registration, polled, future, awake>>
        /\ settler \in {"recv", "main"} /\ settler' \in {"main", "wait"}
        /\ status' \in {status, "Stopping"} /\ control' \in {control, FALSE}
    BY <1>6 DEF Handle!ReaperMain, Handle!ReaperLetsGo, Handle!waits
  <2>2. StatusKept'
    BY <2>1 DEF StatusKept
  <2>. QED
    BY <2>1, <2>2, FuturesStay, WakersStay
<1>7. CASE Handle!Finish
  <2>1. /\ settler = "wait" /\ settler' = "notify" /\ status' = "Finished" /\ settled' = TRUE
        /\ waking' = {waiters[i] : i \in DOMAIN waiters}
        /\ UNCHANGED <<requested, control, stops, spawn, next_waiter, registration, polled,
                       future, awake>>
    BY <1>7 DEF Handle!Finish, Handle!Range
  <2>2. StatusKept'
    BY <2>1 DEF StatusKept
  <2>3. Sleeping' = Sleeping /\ ~settled
    BY <2>1 DEF Sleeping, StatusKept
  <2>4. \A f \in Sleeping : polled[f] \in waking'
    BY <2>1, <2>3 DEF WakersKept
  <2>5. WakersKept'
    BY <2>1, <2>3, <2>4 DEF WakersKept
  <2>. QED
    BY <2>1, <2>2, <2>5, FuturesStay
<1>8. CASE Handle!Notify
  <2>1. /\ UNCHANGED <<status, settled, requested, control, stops, spawn, waiters, next_waiter,
                       waking, registration, polled, future, awake>>
        /\ settler = "notify" /\ settler' = "wake"
    BY <1>8 DEF Handle!Notify, Handle!waits
  <2>2. StatusKept'
    BY <2>1 DEF StatusKept
  <2>. QED
    BY <2>1, <2>2, FuturesStay, WakersStay
<1>9. CASE Handle!Wake
  <2>1. /\ UNCHANGED <<status, settled, requested, control, stops, spawn, waiters, next_waiter,
                       registration, polled, future>>
        /\ settler = "wake" /\ settler' \in {"wake", "done"}
        /\ waking' \cup awake' = waking \cup awake
        /\ settler' = "done" => waking' = {}
    BY <1>9 DEF Handle!Wake
  <2>2. StatusKept'
    BY <2>1 DEF StatusKept
  <2>3. Sleeping' = Sleeping /\ settled
    BY <2>1 DEF Sleeping, StatusKept
  <2>4. WakersKept'
    BY <2>1, <2>3 DEF WakersKept
  <2>. QED
    BY <2>1, <2>2, <2>4, FuturesStay
<1>10. CASE UNCHANGED handleVars
  <2>1. UNCHANGED <<status, settled, requested, control, stops, spawn, settler, waiters,
                    next_waiter, waking, registration, polled, future, awake>>
    BY <1>10 DEF handleVars
  <2>2. StatusKept'
    BY <2>1 DEF StatusKept
  <2>. QED
    BY <2>1, <2>2, FuturesStay, WakersStay
<1>. QED
  BY <1>1, <1>2, <1>3, <1>4, <1>5, <1>6, <1>7, <1>8, <1>9, <1>10 DEF Handle!Next, Handle!Reaper

\* A new handle has no waiters.
LEMMA HandleInit ==
    ASSUME IsFiniteSet(Futures)
    PROVE  Handle!Init => HandleInv
<1>. SUFFICES ASSUME Handle!Init PROVE HandleInv
  OBVIOUS
<1>1. Sleeping = {} /\ Begun = {}
  BY DEF Handle!Init, Sleeping, Begun
<1>2. Cardinality({}) = 0
  BY FS_EmptySet
<1>3. StatusKept
  <2>1. /\ status = "Starting" /\ settled = FALSE /\ requested = FALSE /\ control = TRUE
        /\ stops = 0 /\ spawn = "starting" /\ settler = "recv"
    BY DEF Handle!Init
  <2>2. stops \in 0..1
    BY <2>1
  <2>. QED
    BY <2>1, <2>2 DEF StatusKept
<1>4. NumbersKept
  BY <1>1, <1>2 DEF Handle!Init, Handle!NoId, NumbersKept
<1>5. WakersKept
  <2>1. DOMAIN <<>> = {}
    OBVIOUS
  <2>. QED
    BY <1>1, <2>1 DEF Handle!Init, WakersKept
<1>. QED
  BY <1>3, <1>4, <1>5 DEF HandleInv

\* The invariant gives what is said of every state.
LEMMA HandleStates ==
    ASSUME IsFiniteSet(Futures)
    PROVE  HandleInv => Handle!TypeOK /\ Handle!WaitersMatch /\ Handle!NoLostWakeup
<1>. SUFFICES ASSUME HandleInv PROVE Handle!TypeOK /\ Handle!WaitersMatch /\ Handle!NoLostWakeup
  OBVIOUS
<1>. USE DEF HandleInv
<1>1. next_waiter <= Cardinality(Futures) /\ next_waiter \in Nat /\ Cardinality(Futures) \in Nat
  <2>1. /\ Cardinality(Begun) <= Cardinality(Futures) /\ IsFiniteSet(Begun)
    BY FS_Subset DEF Begun
  <2>2. Cardinality(Begun) \in Nat /\ Cardinality(Futures) \in Nat
    BY <2>1, FS_CardinalityType
  <2>3. next_waiter <= Cardinality(Begun) /\ next_waiter \in Nat
    BY DEF NumbersKept
  <2>. QED
    BY <2>1, <2>2, <2>3
<1>2. Handle!TypeOK
  <2>1. next_waiter \in 0..Cardinality(Futures)
    BY <1>1
  <2>2. Handle!Cardinality(Futures) = Cardinality(Futures)
    BY Zenon DEF Handle!Cardinality, Cardinality
  <2>. QED
    BY <2>1, <2>2 DEF Handle!TypeOK, StatusKept
<1>3. Handle!WaitersMatch
  BY DEF Handle!WaitersMatch, WakersKept, Sleeping
<1>4. Handle!NoLostWakeup
  BY DEF Handle!NoLostWakeup, WakersKept, StatusKept, Sleeping
<1>. QED
  BY <1>2, <1>3, <1>4

\* No step takes the status back.
LEMMA StatusOnward ==
    ASSUME HandleInv, [Handle!Next]_handleVars
    PROVE  Handle!StatusForward
<1>. DEFINE rank(s) == CASE s = "Starting" -> 0 [] s = "Running" -> 1
                         [] s = "Stopping" -> 2 [] OTHER -> 3
<1>1. \/ status' = status
      \/ status = "Starting" /\ status' = "Running"
      \/ status # "Finished" /\ status' = "Stopping"
      \/ status' = "Finished"
  <2>1. CASE Handle!ReaperMain
    BY <2>1 DEF Handle!ReaperMain, HandleInv, StatusKept
  <2>2. CASE Handle!SpawnReturns
    BY <2>2 DEF Handle!SpawnReturns, Handle!mark_running
  <2>3. ASSUME NEW c \in Callers, Handle!Stop(c)
        PROVE  status' = status \/ (status # "Finished" /\ status' = "Stopping")
    BY <2>3 DEF Handle!Stop
  <2>4. CASE Handle!ReaperLetsGo \/ Handle!Finish \/ Handle!Notify \/ Handle!Wake
    BY <2>4 DEF Handle!ReaperLetsGo, Handle!Finish, Handle!Notify, Handle!Wake
  <2>5. ASSUME NEW h \in Threads, Handle!WaitBlocks(h) PROVE status' = status
    BY <2>5 DEF Handle!WaitBlocks, Handle!shared
  <2>6. ASSUME NEW f \in Futures, Handle!DropWait(f) PROVE status' = status
    BY <2>6 DEF Handle!DropWait, Handle!shared
  <2>7. ASSUME NEW f \in Futures, NEW t \in Tasks, Handle!Poll(f, t) PROVE status' = status
    BY <2>7 DEF Handle!Poll, Handle!shared
  <2>8. CASE UNCHANGED handleVars
    BY <2>8 DEF handleVars
  <2>. QED
    BY <2>1, <2>2, <2>3, <2>4, <2>5, <2>6, <2>7, <2>8 DEF Handle!Next, Handle!Reaper
<1>2. status \in {"Starting", "Running", "Stopping", "Finished"}
  BY DEF HandleInv, StatusKept
<1>. QED
  BY <1>1, <1>2 DEF Handle!StatusForward, Handle!Rank

\* Whatever the futures, tasks, threads and callers and their interleaving with the reaper:
\* the status never goes back, exactly the futures that wait hold a waker, and after the
\* reaper is done none of them sleeps on (finish, Wait::poll, Wait::drop, stop).
THEOREM HandleForgetsNoWaker == Handle!Spec => HandleWakes
<1>0. IsFiniteSet(Futures)
  BY LibraryAssumption
<1>1. ASSUME HandleInv, [Handle!Next]_(Handle!vars)
      PROVE  HandleInv' /\ [Handle!HandleWakes]_handleVars
  <2>0. [Handle!Next]_handleVars
    BY <1>1 DEF Handle!vars, handleVars, Handle!shared, Handle!waits
  <2>1. HandleInv'
    BY <1>0, <1>1, <2>0, HandleStep
  <2>2. (Handle!TypeOK /\ Handle!WaitersMatch /\ Handle!NoLostWakeup)'
    BY <1>0, <2>1, HandleStates, PTL
  <2>3. Handle!StatusForward
    BY <1>1, <2>0, StatusOnward
  <2>. QED
    BY <2>1, <2>2, <2>3 DEF Handle!HandleWakes
<1>. QED
  BY <1>0, <1>1, HandleInit, PTL DEF Handle!Spec, HandleWakes

-----------------------------------------------------------------------------
(* The messages. *)

Pair  == Sizes \X Counts
Datum == [byte : Nat, fds : Nat]

\* The bytes of the m-th of the messages p: the two counts, the first with the descriptors,
\* and the body.
Whole(p, m) == 2 + p[m][1]

Unit(p, m, i) ==
    [byte |-> IF i = 0 THEN p[m][1] ELSE IF i = 1 THEN p[m][2] ELSE m,
     fds  |-> IF i = 0 THEN p[m][2] ELSE 0]

\* Where the messages begin, counted from the first byte that was not received: one after
\* the other.
Laid(at, p) ==
    /\ at \in [1..(Len(p) + 1) -> Int]
    /\ \A m \in 1..Len(p) : at[m + 1] = at[m] + Whole(p, m)
    /\ \A l \in 1..Len(p), m \in 1..(Len(p) + 1) : l < m => at[l] + Whole(p, l) <= at[m]

\* What is in the stream is the bytes of the messages at their places.
Carried(at, p, q) ==
    \A m \in 1..Len(p), i \in Nat :
        i < Whole(p, m) /\ at[m] + i \in 1..Len(q) => q[at[m] + i] = Unit(p, m, i)

\* The receiver is where the next message begins, but for what it has read of it; the sender
\* is where the last one ends, but for what it has to write.
Held(at) ==
    /\ at[Len(arrived) + 1] = 1 - (Len(header) + Len(body))
    /\ at[Len(posted) + 1] >= Len(stream) + 1
    /\ poster \in {"idle", "body"} => at[Len(posted) + 1] = Len(stream) + Len(rest) + 1

\* The types of what the two sides hold.
MessageTypes ==
    /\ posted \in Seq(Pair) /\ stream \in Seq(Datum) /\ rest \in Seq(Nat)
    /\ arrived \in Seq(Pair) /\ header \in Seq(Nat) /\ body \in Seq(Nat)
    /\ Len(stream) <= Capacity /\ Len(posted) <= MaxMessages
    /\ Len(header) <= 2 /\ fds \in Counts \union {0} /\ Len(body) <= MAX_MESSAGE
    /\ poster \in {"idle", "body", "failed", "invalid", "closed"}
    /\ taker \in {"idle", "header", "body", "failed", "invalid", "closed"}

\* Every accepted message is within the limits, and the sender has the end of the last one.
Posting ==
    /\ \A m \in 1..Len(posted) : posted[m][1] <= MAX_MESSAGE /\ posted[m][2] <= MAX_FDS
    /\ poster # "body" => rest = <<>>
    /\ poster = "body" =>
         /\ posted # <<>> /\ rest # <<>> /\ Len(rest) < Whole(posted, Len(posted))
         /\ \A i \in 1..Len(rest) :
               rest[i] = Unit(posted, Len(posted),
                              Whole(posted, Len(posted)) - Len(rest) + i - 1).byte

\* What was received is what was sent, and what the receiver holds is of the next message.
Taking ==
    /\ Len(arrived) <= Len(posted) /\ \A m \in 1..Len(arrived) : arrived[m] = posted[m]
    /\ taker = "idle" => header = <<>> /\ body = <<>>
    /\ taker = "header" => Len(header) = 1 /\ body = <<>>
    /\ taker = "body" =>
         /\ Len(header) = 2 /\ header[2] = posted[Len(arrived) + 1][2]
         /\ Len(body) <= posted[Len(arrived) + 1][1]
         /\ \A i \in 1..Len(body) : body[i] = Len(arrived) + 1
    /\ taker \in {"header", "body"} =>
         /\ Len(arrived) < Len(posted)
         /\ header[1] = posted[Len(arrived) + 1][1] /\ fds = posted[Len(arrived) + 1][2]
    /\ taker = "invalid" => truncated

MessageInv ==
    /\ MessageTypes /\ Posting /\ Taking
    /\ \E at \in [1..(Len(posted) + 1) -> Int] :
          Laid(at, posted) /\ Carried(at, posted, stream) /\ Held(at)

\* Two sequences put together: what is written goes behind what is in the stream.
LEMMA Joined ==
    ASSUME NEW S, NEW a \in Seq(S), NEW b \in Seq(S)
    PROVE  /\ a \o b \in Seq(S) /\ Len(a \o b) = Len(a) + Len(b)
           /\ Len(a) \in Nat /\ Len(b) \in Nat
           /\ \A j \in 1..(Len(a) + Len(b)) :
                 (a \o b)[j] = IF j <= Len(a) THEN a[j] ELSE b[j - Len(a)]
  OBVIOUS

\* A sequence without its beginning: what is read leaves the rest.
LEMMA Cut ==
    ASSUME NEW S, NEW a \in Seq(S), NEW k \in 0..Len(a)
    PROVE  /\ SubSeq(a, k + 1, Len(a)) \in Seq(S) /\ Len(SubSeq(a, k + 1, Len(a))) = Len(a) - k
           /\ \A j \in 1..(Len(a) - k) : SubSeq(a, k + 1, Len(a))[j] = a[j + k]
  OBVIOUS

\* A sequence with one more.
LEMMA Added ==
    ASSUME NEW S, NEW a \in Seq(S), NEW e \in S
    PROVE  /\ Append(a, e) \in Seq(S) /\ Len(Append(a, e)) = Len(a) + 1
           /\ Append(a, e)[Len(a) + 1] = e
           /\ \A j \in 1..Len(a) : Append(a, e)[j] = a[j]
  OBVIOUS

\* A function on the first numbers is a sequence.
LEMMA Listing ==
    ASSUME NEW S, NEW k \in Nat, NEW a \in [1..k -> S]
    PROVE  a \in Seq(S) /\ Len(a) = k
  OBVIOUS

\* A message that was accepted is two numbers.
LEMMA PairFacts ==
    ASSUME NEW p \in Seq(Pair), NEW m \in 1..Len(p)
    PROVE  /\ p[m] \in Pair /\ p[m] = <<p[m][1], p[m][2]>>
           /\ p[m][1] \in Nat /\ p[m][2] \in Counts /\ p[m][2] \in Nat
           /\ Whole(p, m) \in Nat /\ Whole(p, m) >= 2
<1>1. p[m] \in Pair
  OBVIOUS
<1>2. PICK size \in Sizes, count \in Counts : p[m] = <<size, count>>
  BY <1>1 DEF Pair
<1>3. size \in Nat /\ count \in Nat
  BY LibraryAssumption
<1>. QED
  BY <1>1, <1>2, <1>3 DEF Whole

\* Bytes that were received move the places of the others.
LEMMA LaidShift ==
    ASSUME NEW p \in Seq(Pair), NEW at, Laid(at, p), NEW k \in Nat
    PROVE  Laid([m \in 1..(Len(p) + 1) |-> at[m] - k], p)
<1>. DEFINE to == [m \in 1..(Len(p) + 1) |-> at[m] - k]
<1>1. Len(p) \in Nat /\ \A m \in 1..(Len(p) + 1) : at[m] \in Int /\ to[m] = at[m] - k
  BY DEF Laid
<1>2. to \in [1..(Len(p) + 1) -> Int]
  BY <1>1
<1>. HIDE DEF to
<1>3. ASSUME NEW m \in 1..Len(p) PROVE to[m + 1] = to[m] + Whole(p, m)
  <2>1. at[m + 1] = at[m] + Whole(p, m)
    BY DEF Laid
  <2>2. to[m + 1] = at[m + 1] - k /\ to[m] = at[m] - k /\ at[m] \in Int /\ Whole(p, m) \in Nat
    BY <1>1, PairFacts
  <2>. QED
    BY <2>1, <2>2
<1>4. ASSUME NEW l \in 1..Len(p), NEW m \in 1..(Len(p) + 1), l < m
      PROVE  to[l] + Whole(p, l) <= to[m]
  <2>1. at[l] + Whole(p, l) <= at[m]
    BY <1>4 DEF Laid
  <2>2. /\ to[l] = at[l] - k /\ to[m] = at[m] - k /\ at[l] \in Int /\ at[m] \in Int
        /\ Whole(p, l) \in Nat
    BY <1>1, PairFacts
  <2>. QED
    BY <2>1, <2>2
<1>. QED
  BY <1>2, <1>3, <1>4 DEF Laid, to

LEMMA CarriedShift ==
    ASSUME NEW p \in Seq(Pair), NEW q \in Seq(Datum), NEW at, Laid(at, p), Carried(at, p, q),
           NEW k \in 0..Len(q)
    PROVE  Carried([m \in 1..(Len(p) + 1) |-> at[m] - k], p, SubSeq(q, k + 1, Len(q)))
<1>. DEFINE to == [m \in 1..(Len(p) + 1) |-> at[m] - k]
            s  == SubSeq(q, k + 1, Len(q))
<1>1. Len(p) \in Nat /\ \A m \in 1..(Len(p) + 1) : at[m] \in Int /\ to[m] = at[m] - k
  BY DEF Laid
<1>2. Len(q) \in Nat /\ Len(s) = Len(q) - k /\ \A j \in 1..Len(s) : s[j] = q[j + k]
  OBVIOUS
<1>. HIDE DEF to, s
<1>3. ASSUME NEW m \in 1..Len(p), NEW i \in Nat, i < Whole(p, m), to[m] + i \in 1..Len(s)
      PROVE  s[to[m] + i] = Unit(p, m, i)
  <2>0. at[m] \in Int /\ to[m] = at[m] - k
    BY <1>1
  <2>1. at[m] + i \in 1..Len(q) /\ at[m] + i = to[m] + i + k
    <3>1. Len(q) \in Nat /\ Len(s) = Len(q) - k
      BY <1>2
    <3>. QED
      BY <1>3, <2>0, <3>1
  <2>2. q[at[m] + i] = Unit(p, m, i)
    BY <1>3, <2>1 DEF Carried
  <2>. QED
    BY <1>2, <1>3, <2>1, <2>2
<1>. QED
  BY <1>3 DEF Carried, to, s

\* Bytes that are written at their places.
LEMMA CarriedMore ==
    ASSUME NEW p \in Seq(Pair), NEW q \in Seq(Datum), NEW more \in Seq(Datum), NEW at,
           Laid(at, p), Carried(at, p, q),
           \A m \in 1..Len(p), i \in Nat :
               i < Whole(p, m) /\ at[m] + i - Len(q) \in 1..Len(more) =>
                   more[at[m] + i - Len(q)] = Unit(p, m, i)
    PROVE  Carried(at, p, q \o more)
<1>1. Len(p) \in Nat /\ Len(q) \in Nat /\ Len(more) \in Nat
      /\ \A m \in 1..(Len(p) + 1) : at[m] \in Int
  BY DEF Laid
<1>2. /\ Len(q \o more) = Len(q) + Len(more)
      /\ \A j \in 1..(Len(q) + Len(more)) :
            (q \o more)[j] = IF j <= Len(q) THEN q[j] ELSE more[j - Len(q)]
  BY Joined
<1>3. ASSUME NEW m \in 1..Len(p), NEW i \in Nat, i < Whole(p, m),
             at[m] + i \in 1..(Len(q) + Len(more))
      PROVE  (q \o more)[at[m] + i] = Unit(p, m, i)
  <2>0. at[m] \in Int /\ at[m] + i \in Int
    BY <1>1
  <2>1. CASE at[m] + i <= Len(q)
    <3>1. q[at[m] + i] = Unit(p, m, i)
      BY <1>1, <1>3, <2>0, <2>1 DEF Carried
    <3>. QED
      BY <1>2, <1>3, <2>1, <3>1
  <2>2. CASE ~(at[m] + i <= Len(q))
    <3>1. at[m] + i - Len(q) \in 1..Len(more)
      BY <1>1, <1>3, <2>0, <2>2
    <3>2. more[at[m] + i - Len(q)] = Unit(p, m, i)
      BY <1>3, <3>1
    <3>3. (q \o more)[at[m] + i] = more[at[m] + i - Len(q)]
      <4>1. PICK j \in Int : j = at[m] + i
        BY <2>0
      <4>2. (q \o more)[j] = more[j - Len(q)]
        BY <1>2, <1>3, <2>2, <4>1
      <4>3. at[m] + i - Len(q) = j - Len(q)
        BY <1>1, <2>0, <4>1
      <4>. QED
        BY <4>1, <4>2, <4>3
    <3>. QED
      BY <3>2, <3>3
  <2>. QED
    BY <2>1, <2>2
<1>. QED
  BY <1>2, <1>3 DEF Carried

\* The receiver finds the bytes of the next message after those it has read.
LEMMA NextUnits ==
    ASSUME MessageTypes, NEW at, Laid(at, posted), Carried(at, posted, stream), Held(at),
           Len(arrived) < Len(posted), NEW j \in 1..Len(stream),
           Len(header) + Len(body) + j <= Whole(posted, Len(arrived) + 1)
    PROVE  stream[j] = Unit(posted, Len(arrived) + 1, Len(header) + Len(body) + j - 1)
<1>. DEFINE m == Len(arrived) + 1
            i == Len(header) + Len(body) + j - 1
<1>1. /\ Len(arrived) \in Nat /\ Len(posted) \in Nat /\ Len(header) \in Nat /\ Len(body) \in Nat
      /\ Len(stream) \in Nat /\ posted \in Seq(Pair)
  BY DEF MessageTypes
<1>2. m \in 1..Len(posted) /\ i \in Nat /\ at[m] = 1 - (Len(header) + Len(body))
  BY <1>1 DEF Held
<1>3. Whole(posted, m) \in Nat
  BY <1>1, <1>2, PairFacts
<1>4. i < Whole(posted, m) /\ at[m] + i = j
  BY <1>1, <1>2, <1>3
<1>. HIDE DEF m, i
<1>5. stream[at[m] + i] = Unit(posted, m, i)
  BY <1>2, <1>4 DEF Carried
<1>. QED
  BY <1>4, <1>5 DEF m, i

\* Something in the stream belongs to a message that was not received.
LEMMA SomethingNext ==
    ASSUME MessageTypes, Taking, NEW at, Laid(at, posted), Held(at),
           header = <<>>, body = <<>>, stream # <<>>
    PROVE  Len(arrived) < Len(posted)
<1>1. /\ Len(arrived) \in Nat /\ Len(posted) \in Nat /\ Len(arrived) <= Len(posted)
      /\ Len(stream) \in Nat /\ Len(stream) >= 1
  BY DEF MessageTypes, Taking
<1>2. at[Len(arrived) + 1] = 1
  BY DEF Held
<1>3. at[Len(posted) + 1] >= Len(stream) + 1
  BY DEF Held
<1>. QED
  BY <1>1, <1>2, <1>3

\* The sender begins a message (send_watched).
LEMMA SendHeaderStep ==
    ASSUME MessageInv, NEW size \in Sizes, NEW count \in Counts, NEW k \in 1..2,
           Message!SendHeader(size, count, k)
    PROVE  MessageInv'
<1>. DEFINE n     == Len(posted)
            whole == <<size, count>> \o [i \in 1..size |-> n + 1]
            p     == Append(posted, <<size, count>>)
            more  == [i \in 1..k |-> [byte |-> whole[i], fds |-> IF i = 1 THEN count ELSE 0]]
<1>a. PICK at \in [1..(Len(posted) + 1) -> Int] :
         Laid(at, posted) /\ Carried(at, posted, stream) /\ Held(at)
  BY DEF MessageInv
<1>t. /\ posted \in Seq(Pair) /\ stream \in Seq(Datum) /\ n \in Nat /\ Len(stream) \in Nat
      /\ size \in Nat /\ count \in Nat /\ Len(arrived) \in Nat /\ Len(arrived) <= n
  <2>1. size \in Nat /\ count \in Nat
    BY LibraryAssumption
  <2>2. posted \in Seq(Pair) /\ stream \in Seq(Datum) /\ arrived \in Seq(Pair)
    BY DEF MessageInv, MessageTypes
  <2>3. Len(arrived) <= n
    BY DEF MessageInv, Taking
  <2>. QED
    BY <2>1, <2>2, <2>3
<1>1. /\ poster = "idle" /\ n < MaxMessages /\ Len(stream) + k <= Capacity
      /\ size <= MAX_MESSAGE /\ count <= MAX_FDS
      /\ posted' = p /\ stream' = stream \o more /\ rest' = SubSeq(whole, k + 1, Len(whole))
      /\ poster' = IF rest' = <<>> THEN "idle" ELSE "body"
      /\ UNCHANGED <<arrived, header, fds, body, taker, truncated>>
  BY DEF Message!SendHeader, Message!Fits, Message!in
<1>2. /\ p \in Seq(Pair) /\ Len(p) = n + 1 /\ p[n + 1] = <<size, count>>
      /\ p[n + 1][1] = size /\ p[n + 1][2] = count
      /\ \A m \in 1..n : p[m] = posted[m]
  BY <1>t DEF Pair
<1>3. /\ whole \in Seq(Nat) /\ Len(whole) = 2 + size
      /\ whole[1] = size /\ whole[2] = count
      /\ \A i \in 3..(2 + size) : whole[i] = n + 1
  <2>1. <<size, count>> \in Seq(Nat) /\ [i \in 1..size |-> n + 1] \in Seq(Nat)
    BY <1>t
  <2>2. Len(<<size, count>>) = 2 /\ Len([i \in 1..size |-> n + 1]) = size
    BY <1>t
  <2>. QED
    BY <1>t, <2>1, <2>2
<1>. HIDE DEF whole, p
<1>4. \A i \in 1..(2 + size) : whole[i] = Unit(p, n + 1, i - 1).byte
  BY <1>t, <1>2, <1>3 DEF Unit
<1>w. Whole(p, n + 1) = 2 + size /\ \A m \in 1..n : Whole(p, m) = Whole(posted, m)
  BY <1>2 DEF Whole
<1>5. more \in Seq(Datum) /\ Len(more) = k /\ \A i \in 1..k : more[i] = Unit(p, n + 1, i - 1)
  <2>1. \A i \in 1..k : i \in 1..(2 + size) /\ whole[i] \in Nat
    BY <1>t, <1>3
  <2>2. \A i \in 1..k : more[i] = Unit(p, n + 1, i - 1) /\ more[i] \in Datum
    BY <1>t, <1>2, <1>3, <2>1 DEF Unit, Datum
  <2>. QED
    BY <2>2
<1>. HIDE DEF more
<1>e. at[n + 1] = Len(stream) + 1 /\ Len(rest) = 0
  <2>1. rest = <<>>
    BY <1>1 DEF MessageInv, Posting
  <2>. QED
    BY <1>1, <1>a, <1>t, <2>1 DEF Held
<1>6. PICK to \in [1..(n + 2) -> Int] :
        /\ to[n + 2] = Len(stream) + 3 + size
        /\ \A m \in 1..(n + 1) : to[m] = at[m] /\ at[m] \in Int
  <2>. DEFINE to == [m \in 1..(n + 2) |-> IF m = n + 2 THEN Len(stream) + 3 + size ELSE at[m]]
  <2>1. /\ to \in [1..(n + 2) -> Int] /\ to[n + 2] = Len(stream) + 3 + size
        /\ \A m \in 1..(n + 1) : to[m] = at[m] /\ at[m] \in Int
    BY <1>a, <1>t
  <2>. QED
    BY <2>1
<1>l. to[n + 1] = Len(stream) + 1
  <2>1. n + 1 \in 1..(n + 1)
    BY <1>t
  <2>. QED
    BY <1>6, <1>e, <2>1
<1>7. Laid(to, p)
  <2>1. ASSUME NEW m \in 1..(n + 1) PROVE to[m + 1] = to[m] + Whole(p, m)
    <3>1. CASE m = n + 1
      <4>1. to[n + 1] = Len(stream) + 1 /\ n + 1 + 1 = n + 2
        BY <1>l, <1>t
      <4>. QED
        BY <1>6, <1>t, <1>w, <3>1, <4>1
    <3>2. CASE m \in 1..n
      <4>1. at[m + 1] = at[m] + Whole(posted, m)
        BY <1>a, <3>2 DEF Laid
      <4>. QED
        BY <1>6, <1>t, <1>w, <3>2, <4>1
    <3>. QED
      BY <1>t, <3>1, <3>2
  <2>2. ASSUME NEW l \in 1..(n + 1), NEW m \in 1..(n + 2), l < m
        PROVE  to[l] + Whole(p, l) <= to[m]
    <3>1. CASE l = n + 1
      <4>1. to[n + 1] = Len(stream) + 1 /\ m = n + 2
        BY <1>6, <1>t, <1>e, <2>2, <3>1
      <4>. QED
        BY <1>6, <1>t, <1>w, <3>1, <4>1
    <3>2. CASE l \in 1..n /\ m \in 1..(n + 1)
      <4>1. at[l] + Whole(posted, l) <= at[m]
        BY <1>a, <2>2, <3>2 DEF Laid
      <4>. QED
        BY <1>6, <1>t, <1>w, <3>2, <4>1
    <3>3. CASE l \in 1..n /\ m = n + 2
      <4>1. at[l] + Whole(posted, l) <= at[n + 1]
        BY <1>a, <1>t, <3>3 DEF Laid
      <4>2. Whole(posted, l) \in Nat
        BY <1>t, <3>3, PairFacts
      <4>. QED
        BY <1>6, <1>t, <1>e, <1>w, <3>3, <4>1, <4>2
    <3>. QED
      BY <1>t, <3>1, <3>2, <3>3
  <2>. QED
    BY <1>2, <1>6, <2>1, <2>2 DEF Laid
<1>8. Carried(to, p, stream)
  <2>1. ASSUME NEW m \in 1..(n + 1), NEW i \in Nat, i < Whole(p, m), to[m] + i \in 1..Len(stream)
        PROVE  stream[to[m] + i] = Unit(p, m, i)
    <3>1. m \in 1..n
      BY <1>6, <1>t, <1>e, <2>1
    <3>2. stream[at[m] + i] = Unit(posted, m, i)
      BY <1>6, <1>a, <1>w, <2>1, <3>1 DEF Carried
    <3>3. Unit(p, m, i) = Unit(posted, m, i)
      BY <1>2, <3>1 DEF Unit
    <3>. QED
      BY <1>6, <3>1, <3>2, <3>3
  <2>. QED
    BY <1>2, <2>1 DEF Carried
<1>9. Carried(to, p, stream \o more)
  <2>1. ASSUME NEW m \in 1..(n + 1), NEW i \in Nat, i < Whole(p, m),
               to[m] + i - Len(stream) \in 1..k
        PROVE  more[to[m] + i - Len(stream)] = Unit(p, m, i)
    <3>1. CASE m = n + 1
      <4>1. to[m] + i - Len(stream) = i + 1 /\ i + 1 \in 1..k
        <5>1. to[m] + i - Len(stream) = i + 1
          BY <1>l, <1>t, <3>1
        <5>. QED
          BY <2>1, <5>1
      <4>2. more[i + 1] = Unit(p, n + 1, i + 1 - 1) /\ i + 1 - 1 = i
        BY <1>5, <4>1
      <4>. QED
        BY <3>1, <4>1, <4>2
    <3>2. CASE m \in 1..n
      <4>1. at[m] + Whole(posted, m) <= Len(stream) + 1
        BY <1>a, <1>t, <1>e, <3>2 DEF Laid
      <4>2. Whole(posted, m) \in Nat /\ at[m] \in Int
        BY <1>6, <1>t, <3>2, PairFacts
      <4>3. to[m] = at[m] /\ Whole(p, m) = Whole(posted, m)
        BY <1>6, <1>t, <1>w, <3>2
      <4>4. at[m] + i <= Len(stream)
        BY <1>t, <2>1, <4>1, <4>2, <4>3
      <4>. QED
        BY <1>t, <2>1, <4>2, <4>3, <4>4
    <3>. QED
      BY <1>t, <3>1, <3>2
  <2>. QED
    BY <1>2, <1>5, <1>7, <1>8, <1>t, <2>1, CarriedMore
<1>10. /\ rest' \in Seq(Nat) /\ Len(rest') = 2 + size - k
       /\ \A i \in 1..Len(rest') : rest'[i] = whole[k + i]
  <2>1. k \in 0..Len(whole)
    BY <1>3, <1>t
  <2>2. /\ rest' \in Seq(Nat) /\ Len(rest') = Len(whole) - k
        /\ \A i \in 1..(Len(whole) - k) : rest'[i] = whole[i + k]
    <3>1. rest' = SubSeq(whole, k + 1, Len(whole)) /\ whole \in Seq(Nat)
      BY <1>1, <1>3
    <3>. QED
      BY <2>1, <3>1, Cut
  <2>. QED
    BY <1>3, <1>t, <2>2
<1>11. Len(stream') = Len(stream) + k /\ stream' \in Seq(Datum)
  BY <1>1, <1>5, <1>t, Joined
<1>12. Held(to)'
  <2>1. to[Len(arrived) + 1] = 1 - (Len(header) + Len(body))
    BY <1>6, <1>a, <1>t DEF Held
  <2>2. /\ to[n + 2] = Len(stream') + Len(rest') + 1 /\ Len(rest') \in Nat
        /\ Len(stream') \in Nat
    <3>1. to[n + 2] = Len(stream) + 3 + size /\ k \in Nat /\ k <= 2
      BY <1>6
    <3>2. Len(rest') = 2 + size - k /\ Len(stream') = Len(stream) + k
      BY <1>10, <1>11
    <3>3. size \in Nat /\ Len(stream) \in Nat
      BY <1>t
    <3>. QED
      BY <3>1, <3>2, <3>3
  <2>3. Len(posted)' + 1 = n + 2
    BY <1>1, <1>2, <1>t
  <2>4. to[n + 2] >= Len(stream') + 1
    BY <2>2
  <2>. QED
    BY <1>1, <2>1, <2>2, <2>3, <2>4 DEF Held
<1>13. MessageTypes'
  <2>1. poster' \in {"idle", "body", "failed", "invalid", "closed"}
    BY <1>1
  <2>2. Len(stream)' <= Capacity /\ Len(posted)' <= MaxMessages
    BY <1>1, <1>2, <1>11, <1>t, LibraryAssumption
  <2>3. posted' \in Seq(Pair)
    BY <1>1, <1>2
  <2>. QED
    BY <1>1, <1>10, <1>11, <2>1, <2>2, <2>3 DEF MessageInv, MessageTypes
<1>14. Posting'
  <2>1. ASSUME NEW m \in 1..Len(p) PROVE p[m][1] <= MAX_MESSAGE /\ p[m][2] <= MAX_FDS
    <3>1. CASE m = n + 1
      BY <1>1, <1>2, <3>1
    <3>2. CASE m \in 1..n
      BY <1>2, <3>2 DEF MessageInv, Posting
    <3>. QED
      BY <1>2, <1>t, <3>1, <3>2
  <2>2. ASSUME poster' = "body"
        PROVE  /\ p # <<>> /\ rest' # <<>> /\ Len(rest') < Whole(p, n + 1)
               /\ \A i \in 1..Len(rest') :
                     rest'[i] = Unit(p, n + 1, Whole(p, n + 1) - Len(rest') + i - 1).byte
    <3>1. rest' # <<>>
      BY <1>1, <2>2
    <3>2. p # <<>> /\ Len(rest') < Whole(p, n + 1)
      BY <1>2, <1>10, <1>t, <1>w
    <3>3. ASSUME NEW i \in 1..Len(rest')
          PROVE  rest'[i] = Unit(p, n + 1, Whole(p, n + 1) - Len(rest') + i - 1).byte
      <4>1. k + i \in 1..(2 + size) /\ Whole(p, n + 1) - Len(rest') + i - 1 = k + i - 1
        BY <1>10, <1>t, <1>w
      <4>2. rest'[i] = whole[k + i]
        BY <1>10
      <4>3. whole[k + i] = Unit(p, n + 1, k + i - 1).byte
        BY <1>4, <4>1
      <4>. QED
        BY <4>1, <4>2, <4>3
    <3>. QED
      BY <3>1, <3>2, <3>3
  <2>3. poster' # "body" => rest' = <<>>
    BY <1>1
  <2>. QED
    BY <1>1, <1>2, <2>1, <2>2, <2>3 DEF Posting
<1>15. Taking'
  <2>1. /\ Len(arrived) <= Len(p) /\ \A m \in 1..Len(arrived) : arrived[m] = p[m]
        /\ Len(arrived) < n => p[Len(arrived) + 1] = posted[Len(arrived) + 1]
        /\ Len(arrived) < n => Len(arrived) < Len(p)
    <3>1. \A m \in 1..Len(arrived) : arrived[m] = posted[m]
      BY DEF MessageInv, Taking
    <3>2. ASSUME NEW m \in 1..Len(arrived) PROVE arrived[m] = p[m]
      <4>1. m \in 1..n
        BY <1>t
      <4>. QED
        BY <1>2, <3>1, <4>1
    <3>3. Len(arrived) < n => Len(arrived) + 1 \in 1..n
      BY <1>t
    <3>. QED
      BY <1>2, <1>t, <3>2, <3>3
  <2>. QED
    BY <1>1, <2>1 DEF MessageInv, Taking
<1>. QED
  <2>1. to \in [1..(Len(posted') + 1) -> Int]
    BY <1>1, <1>2, <1>6, <1>t
  <2>2. Laid(to, posted') /\ Carried(to, posted', stream')
    BY <1>1, <1>7, <1>9
  <2>. QED
    BY <1>12, <1>13, <1>14, <1>15, <2>1, <2>2 DEF MessageInv

\* The sender goes on with the message (write_all).
LEMMA WriteStep ==
    ASSUME MessageInv, NEW k \in 1..Capacity, Message!Write(k)
    PROVE  MessageInv'
<1>. DEFINE n    == Len(posted)
            last == Whole(posted, n)
            more == [i \in 1..k |-> [byte |-> rest[i], fds |-> 0]]
<1>a. PICK at \in [1..(Len(posted) + 1) -> Int] :
         Laid(at, posted) /\ Carried(at, posted, stream) /\ Held(at)
  BY DEF MessageInv
<1>1. /\ poster = "body" /\ k <= Len(rest) /\ Len(stream) + k <= Capacity
      /\ stream' = stream \o more /\ rest' = SubSeq(rest, k + 1, Len(rest))
      /\ poster' = IF rest' = <<>> THEN "idle" ELSE "body"
      /\ UNCHANGED <<posted, arrived, header, fds, body, taker, truncated>>
  BY DEF Message!Write, Message!in
<1>t. /\ posted \in Seq(Pair) /\ stream \in Seq(Datum) /\ n \in Nat /\ Len(stream) \in Nat
      /\ rest \in Seq(Nat) /\ Len(rest) \in Nat /\ k \in Nat /\ k >= 1
  BY LibraryAssumption DEF MessageInv, MessageTypes
<1>2. /\ n \in 1..n /\ Len(rest) < last
      /\ \A i \in 1..Len(rest) : rest[i] = Unit(posted, n, last - Len(rest) + i - 1).byte
  BY <1>1, <1>t DEF MessageInv, Posting
<1>3. last \in Nat
  BY <1>2, <1>t, PairFacts
<1>e. /\ at[n + 1] = Len(stream) + Len(rest) + 1 /\ at[n + 1] = at[n] + last
      /\ \A m \in 1..(n + 1) : at[m] \in Int
  BY <1>1, <1>2, <1>a, <1>t DEF Held, Laid
<1>4. /\ more \in Seq(Datum) /\ Len(more) = k
      /\ \A i \in 1..k : more[i] = Unit(posted, n, last - Len(rest) + i - 1)
  <2>1. ASSUME NEW i \in 1..k
        PROVE  more[i] = Unit(posted, n, last - Len(rest) + i - 1) /\ more[i] \in Datum
    <3>0. i \in 1..Len(rest)
      BY <1>1, <1>t
    <3>1. i \in 1..Len(rest) /\ last - Len(rest) + i - 1 # 0 /\ rest[i] \in Nat
      BY <1>2, <1>3, <1>t, <3>0
    <3>2. more[i] = [byte |-> rest[i], fds |-> 0]
      OBVIOUS
    <3>3. /\ rest[i] = Unit(posted, n, last - Len(rest) + i - 1).byte
          /\ Unit(posted, n, last - Len(rest) + i - 1).fds = 0
      BY <1>2, <3>1 DEF Unit
    <3>4. Unit(posted, n, last - Len(rest) + i - 1) =
            [byte |-> Unit(posted, n, last - Len(rest) + i - 1).byte,
             fds |-> Unit(posted, n, last - Len(rest) + i - 1).fds]
      BY DEF Unit
    <3>. QED
      BY <3>1, <3>2, <3>3, <3>4 DEF Datum
  <2>. QED
    BY <1>t, <2>1
<1>. HIDE DEF more, last
<1>5. Carried(at, posted, stream \o more)
  <2>1. ASSUME NEW m \in 1..n, NEW i \in Nat, i < Whole(posted, m),
               at[m] + i - Len(stream) \in 1..k
        PROVE  more[at[m] + i - Len(stream)] = Unit(posted, m, i)
    <3>1. CASE m = n
      <4>. DEFINE j == at[m] + i - Len(stream)
      <4>1. j \in 1..k /\ last - Len(rest) + j - 1 = i
        BY <1>e, <1>3, <1>t, <2>1, <3>1
      <4>2. more[j] = Unit(posted, n, last - Len(rest) + j - 1)
        BY <1>4, <4>1
      <4>. QED
        BY <3>1, <4>1, <4>2
    <3>2. CASE m # n
      <4>1. m < n
        BY <1>t, <3>2
      <4>2. at[m] + Whole(posted, m) <= at[n]
        BY <1>2, <1>a, <4>1 DEF Laid
      <4>3. Whole(posted, m) \in Nat /\ at[m] \in Int /\ at[n] \in Int
        <5>1. m \in 1..Len(posted) /\ m \in 1..(n + 1) /\ n \in 1..(n + 1)
          BY <1>2, <1>t
        <5>. QED
          BY <1>e, <1>t, <5>1, PairFacts
      <4>4. at[n] <= Len(stream)
        BY <1>e, <1>2, <1>3, <1>t, <4>3
      <4>. QED
        BY <1>t, <2>1, <4>2, <4>3, <4>4
    <3>. QED
      BY <3>1, <3>2
  <2>. QED
    BY <1>4, <1>a, <1>t, <2>1, CarriedMore
<1>6. /\ rest' \in Seq(Nat) /\ Len(rest') = Len(rest) - k
      /\ \A i \in 1..Len(rest') : rest'[i] = rest[k + i]
  <2>1. k \in 0..Len(rest)
    BY <1>1, <1>t
  <2>2. /\ rest' \in Seq(Nat) /\ Len(rest') = Len(rest) - k
        /\ \A i \in 1..(Len(rest) - k) : rest'[i] = rest[i + k]
    BY <1>1, <1>t, <2>1, Cut
  <2>. QED
    BY <1>t, <2>2
<1>7. Len(stream') = Len(stream) + k /\ stream' \in Seq(Datum)
  BY <1>1, <1>4, <1>t, Joined
<1>8. Held(at)'
  <2>1. at[Len(arrived) + 1] = 1 - (Len(header) + Len(body))
    BY <1>a DEF Held
  <2>2. /\ at[n + 1] = Len(stream') + Len(rest') + 1 /\ Len(rest') \in Nat
        /\ Len(stream') \in Nat
    <3>1. k <= Len(rest)
      BY <1>1
    <3>. QED
      BY <1>e, <1>6, <1>7, <1>t, <3>1
  <2>3. at[n + 1] >= Len(stream') + 1
    BY <2>2
  <2>. QED
    BY <1>1, <2>1, <2>2, <2>3 DEF Held
<1>9. MessageTypes'
  BY <1>1, <1>6, <1>7, <1>t DEF MessageInv, MessageTypes
<1>10. Posting'
  <2>1. ASSUME poster' = "body"
        PROVE  /\ posted # <<>> /\ rest' # <<>> /\ Len(rest') < last
               /\ \A i \in 1..Len(rest') :
                     rest'[i] = Unit(posted, n, last - Len(rest') + i - 1).byte
    <3>1. posted # <<>> /\ rest' # <<>>
      BY <1>1, <2>1 DEF MessageInv, Posting
    <3>2. Len(rest') < last
      BY <1>2, <1>3, <1>6, <1>t
    <3>3. ASSUME NEW i \in 1..Len(rest')
          PROVE  rest'[i] = Unit(posted, n, last - Len(rest') + i - 1).byte
      <4>. DEFINE j == k + i
      <4>1. j \in 1..Len(rest) /\ last - Len(rest') + i - 1 = last - Len(rest) + j - 1
        <5>1. Len(rest') = Len(rest) - k /\ i \in Nat /\ i >= 1 /\ i <= Len(rest) - k
          BY <1>6
        <5>2. Len(rest) \in Nat /\ k \in Nat
          BY <1>t
        <5>. QED
          BY <1>3, <5>1, <5>2
      <4>. HIDE DEF j
      <4>2. rest[j] = Unit(posted, n, last - Len(rest) + j - 1).byte
        BY <1>2, <4>1
      <4>3. rest'[i] = rest[j]
        BY <1>6 DEF j
      <4>. QED
        BY <4>1, <4>2, <4>3
    <3>. QED
      BY <3>1, <3>2, <3>3
  <2>2. poster' # "body" => rest' = <<>>
    BY <1>1
  <2>. QED
    BY <1>1, <2>1, <2>2 DEF MessageInv, Posting, last
<1>11. Taking'
  BY <1>1 DEF MessageInv, Taking
<1>. QED
  <2>1. at \in [1..(Len(posted') + 1) -> Int] /\ Laid(at, posted') /\ Carried(at, posted', stream')
    BY <1>1, <1>5, <1>a
  <2>. QED
    BY <1>8, <1>9, <1>10, <1>11, <2>1 DEF MessageInv

\* A side that is done leaves what was sent as it is; the watches are no part of it.
LEMMA SideEnds ==
    ASSUME MessageInv,
           \/ Message!SenderLost \/ Message!WriteFails \/ Message!SendRefused \/ Message!Close
           \/ Message!ReceiverLost \/ Message!RecvEnds \/ Message!Fires
    PROVE  MessageInv'
<1>a. PICK at \in [1..(Len(posted) + 1) -> Int] :
         Laid(at, posted) /\ Carried(at, posted, stream) /\ Held(at)
  BY DEF MessageInv
<1>1. /\ UNCHANGED <<stream, posted, arrived, header, fds, body, truncated>>
      /\ \/ UNCHANGED <<poster, rest>>
         \/ poster' \in {"failed", "invalid", "closed"} /\ rest' = <<>>
      /\ taker' = taker \/ taker' \in {"failed", "closed"}
  BY DEF Message!SenderLost, Message!WriteFails, Message!SendRefused, Message!Close,
         Message!ReceiverLost, Message!RecvEnds, Message!Fires, Message!out, Message!in,
         MessageInv, Posting
<1>2. MessageTypes'
  <2>1. rest' \in Seq(Nat)
    <3>1. rest \in Seq(Nat) /\ <<>> \in Seq(Nat)
      BY DEF MessageInv, MessageTypes
    <3>. QED
      BY <1>1, <3>1
  <2>2. poster' \in {"idle", "body", "failed", "invalid", "closed"}
    BY <1>1 DEF MessageInv, MessageTypes
  <2>3. taker' \in {"idle", "header", "body", "failed", "invalid", "closed"}
    BY <1>1 DEF MessageInv, MessageTypes
  <2>. QED
    BY <1>1, <2>1, <2>2, <2>3 DEF MessageInv, MessageTypes
<1>3. Posting'
  BY <1>1 DEF MessageInv, Posting
<1>4. Taking'
  BY <1>1 DEF MessageInv, Taking
<1>5. Held(at)'
  BY <1>1, <1>a DEF Held
<1>. QED
  BY <1>1, <1>2, <1>3, <1>4, <1>5, <1>a DEF MessageInv

\* Bytes go from the stream to what the receiver holds (recvmsg, read_exact).
LEMMA ReadPlaces ==
    ASSUME MessageInv, NEW k \in 0..Len(stream), stream' = SubSeq(stream, k + 1, Len(stream)),
           UNCHANGED <<posted, rest, poster, arrived>>,
           Len(header)' + Len(body)' = Len(header) + Len(body) + k
    PROVE  /\ Posting' /\ stream' \in Seq(Datum) /\ Len(stream') = Len(stream) - k
           /\ (\E at \in [1..(Len(posted) + 1) -> Int] :
                  Laid(at, posted) /\ Carried(at, posted, stream) /\ Held(at))'
<1>a. PICK at \in [1..(Len(posted) + 1) -> Int] :
         Laid(at, posted) /\ Carried(at, posted, stream) /\ Held(at)
  BY DEF MessageInv
<1>t. /\ posted \in Seq(Pair) /\ stream \in Seq(Datum) /\ Len(posted) \in Nat
      /\ Len(stream) \in Nat /\ k \in Nat /\ Len(rest) \in Nat
      /\ Len(header) \in Nat /\ Len(body) \in Nat
      /\ Len(arrived) \in Nat /\ Len(arrived) <= Len(posted)
  BY DEF MessageInv, MessageTypes, Taking
<1>1. Posting'
  BY DEF MessageInv, Posting
<1>2. stream' \in Seq(Datum) /\ Len(stream') = Len(stream) - k
  BY <1>t
<1>3. PICK to \in [1..(Len(posted) + 1) -> Int] :
        to = [m \in 1..(Len(posted) + 1) |-> at[m] - k]
  <2>1. ASSUME NEW m \in 1..(Len(posted) + 1) PROVE at[m] - k \in Int
    <3>1. at[m] \in Int
      BY <1>a
    <3>. QED
      BY <1>t, <3>1
  <2>2. [m \in 1..(Len(posted) + 1) |-> at[m] - k] \in [1..(Len(posted) + 1) -> Int]
    BY <2>1
  <2>. QED
    BY <2>2
<1>4. Laid(to, posted)
  BY <1>3, <1>a, <1>t, LaidShift
<1>5. Carried(to, posted, stream')
  BY <1>3, <1>a, <1>t, CarriedShift
<1>6. /\ to[Len(arrived) + 1] = at[Len(arrived) + 1] - k
      /\ to[Len(posted) + 1] = at[Len(posted) + 1] - k
      /\ at[Len(arrived) + 1] \in Int /\ at[Len(posted) + 1] \in Int
  <2>1. Len(arrived) + 1 \in 1..(Len(posted) + 1) /\ Len(posted) + 1 \in 1..(Len(posted) + 1)
    BY <1>t
  <2>. QED
    BY <1>3, <2>1
<1>7. Held(to)'
  <2>1. to[Len(arrived) + 1] = 1 - (Len(header)' + Len(body)')
    <3>1. at[Len(arrived) + 1] = 1 - (Len(header) + Len(body))
      BY <1>a DEF Held
    <3>2. to[Len(arrived) + 1] = 1 - (Len(header) + Len(body) + k)
      BY <1>6, <1>t, <3>1
    <3>. QED
      BY <3>2
  <2>0. /\ at[Len(posted) + 1] >= Len(stream) + 1
        /\ poster \in {"idle", "body"} => at[Len(posted) + 1] = Len(stream) + Len(rest) + 1
    BY <1>a DEF Held
  <2>2. to[Len(posted) + 1] >= Len(stream') + 1
    BY <1>2, <1>6, <1>t, <2>0
  <2>3. poster \in {"idle", "body"} => to[Len(posted) + 1] = Len(stream') + Len(rest) + 1
    BY <1>2, <1>6, <1>t, <2>0
  <2>. QED
    BY <2>1, <2>2, <2>3 DEF Held
<1>. QED
  BY <1>1, <1>2, <1>3, <1>4, <1>5, <1>7

\* The first part of a header, and the descriptors with it (recvmsg).
LEMMA RecvHeaderStep ==
    ASSUME MessageInv, NEW k \in 1..2, Message!RecvHeader(k)
    PROVE  MessageInv'
<1>. DEFINE m == Len(arrived) + 1
<1>a. PICK at \in [1..(Len(posted) + 1) -> Int] :
         Laid(at, posted) /\ Carried(at, posted, stream) /\ Held(at)
  BY DEF MessageInv
<1>1. /\ taker = "idle" /\ k <= Len(stream) /\ header' = [i \in 1..k |-> stream[i].byte]
      /\ stream' = SubSeq(stream, k + 1, Len(stream))
      /\ UNCHANGED <<posted, rest, poster, arrived, body>>
      /\ \/ fds' = stream[1].fds /\ taker' = IF k < 2 THEN "header" ELSE "body"
         \/ fds' = 0 /\ truncated' /\ taker' = "invalid"
  BY DEF Message!RecvHeader, Message!AfterPart, Message!out
<1>2. header = <<>> /\ body = <<>> /\ stream # <<>>
  BY <1>1 DEF MessageInv, Taking
<1>t. /\ posted \in Seq(Pair) /\ stream \in Seq(Datum) /\ Len(stream) \in Nat
      /\ Len(arrived) \in Nat /\ Len(posted) \in Nat /\ Len(header) = 0 /\ Len(body) = 0
  BY <1>2 DEF MessageInv, MessageTypes
<1>3. Len(arrived) < Len(posted) /\ m \in 1..Len(posted)
  <2>1. Len(arrived) < Len(posted)
    BY <1>2, <1>a, SomethingNext DEF MessageInv
  <2>. QED
    BY <1>t, <2>1
<1>4. Whole(posted, m) >= 2 /\ posted[m][1] \in Nat /\ posted[m][2] \in Nat
      /\ posted[m][2] \in Counts /\ Whole(posted, m) \in Nat
  BY <1>3, <1>t, PairFacts
<1>5. ASSUME NEW i \in 1..k PROVE stream[i] = Unit(posted, m, i - 1)
  <2>1. i \in 1..Len(stream) /\ Len(header) + Len(body) + i <= Whole(posted, m)
        /\ Len(header) + Len(body) + i - 1 = i - 1
    <3>1. i \in Nat /\ i >= 1 /\ i <= k /\ k <= 2 /\ k <= Len(stream)
      BY <1>1
    <3>2. i \in 1..Len(stream)
      BY <1>t, <3>1
    <3>3. Len(header) + Len(body) + i = i
      BY <1>t, <3>1
    <3>. QED
      BY <1>4, <3>1, <3>2, <3>3
  <2>2. stream[i] = Unit(posted, m, Len(header) + Len(body) + i - 1)
    BY <1>3, <1>a, <2>1, NextUnits DEF MessageInv
  <2>. QED
    BY <2>1, <2>2
<1>6. stream[1].byte = posted[m][1] /\ stream[1].fds = posted[m][2]
  <2>1. 1 \in 1..k /\ 1 - 1 = 0
    OBVIOUS
  <2>2. stream[1] = Unit(posted, m, 0)
    BY <1>5, <2>1
  <2>. QED
    BY <2>2 DEF Unit
<1>7. k = 2 => stream[2].byte = posted[m][2]
  <2>1. SUFFICES ASSUME k = 2 PROVE stream[2] = Unit(posted, m, 1)
    BY DEF Unit
  <2>2. 2 \in 1..k /\ 2 - 1 = 1
    BY <2>1
  <2>. QED
    BY <1>5, <2>2
<1>8. /\ header' \in Seq(Nat) /\ Len(header)' = k /\ header'[1] = posted[m][1]
      /\ k = 2 => header'[2] = posted[m][2]
  <2>1. ASSUME NEW i \in 1..k PROVE stream[i].byte \in Nat
    <3>1. i \in 1..Len(stream)
      BY <1>1, <1>t
    <3>2. stream[i] \in Datum
      BY <1>t, <3>1
    <3>. QED
      BY <3>2 DEF Datum
  <2>2. header' \in [1..k -> Nat]
    BY <1>1, <2>1
  <2>. QED
    BY <1>1, <1>6, <1>7, <2>2
<1>9. Len(header)' + Len(body)' = Len(header) + Len(body) + k /\ k \in 0..Len(stream)
  BY <1>1, <1>8, <1>t
<1>10. /\ Posting' /\ stream' \in Seq(Datum) /\ Len(stream') = Len(stream) - k
       /\ (\E to \in [1..(Len(posted) + 1) -> Int] :
              Laid(to, posted) /\ Carried(to, posted, stream) /\ Held(to))'
  BY <1>1, <1>9, ReadPlaces
<1>11. MessageTypes'
  <2>1. fds' \in Counts \union {0}
    BY <1>1, <1>4, <1>6
  <2>2. taker' \in {"idle", "header", "body", "failed", "invalid", "closed"}
    BY <1>1
  <2>3. Len(stream') <= Capacity
    BY <1>10, <1>t, LibraryAssumption DEF MessageInv, MessageTypes
  <2>. QED
    BY <1>1, <1>8, <1>10, <2>1, <2>2, <2>3 DEF MessageInv, MessageTypes
<1>12. Taking'
  <2>1. CASE fds' = stream[1].fds /\ taker' = IF k < 2 THEN "header" ELSE "body"
    <3>0. /\ Len(arrived) <= Len(posted) /\ \A l \in 1..Len(arrived) : arrived[l] = posted[l]
          /\ UNCHANGED <<arrived, posted>> /\ body' = <<>> /\ Len(body') = 0
          /\ header'[1] = posted[m][1] /\ fds' = posted[m][2]
      BY <1>1, <1>2, <1>6, <1>8, <2>1 DEF MessageInv, Taking
    <3>1. CASE k = 1
      <4>1. taker' = "header" /\ Len(header') = 1
        BY <1>8, <2>1, <3>1
      <4>. QED
        BY <1>3, <3>0, <4>1 DEF Taking
    <3>2. CASE k = 2
      <4>1. taker' = "body" /\ Len(header') = 2 /\ header'[2] = posted[m][2]
        BY <1>8, <2>1, <3>2
      <4>2. Len(body') <= posted[m][1] /\ \A i \in 1..Len(body') : body'[i] = m
        BY <1>4, <3>0
      <4>. QED
        BY <1>3, <3>0, <4>1, <4>2 DEF Taking
    <3>. QED
      BY <3>1, <3>2
  <2>2. CASE truncated' /\ taker' = "invalid"
    BY <1>1, <2>2 DEF MessageInv, Taking
  <2>. QED
    BY <1>1, <2>1, <2>2
<1>. QED
  BY <1>10, <1>11, <1>12 DEF MessageInv

\* The rest of a header that came in parts (read_exact).
LEMMA ReadHeaderStep ==
    ASSUME MessageInv, Message!ReadHeader
    PROVE  MessageInv'
<1>. DEFINE m == Len(arrived) + 1
<1>a. PICK at \in [1..(Len(posted) + 1) -> Int] :
         Laid(at, posted) /\ Carried(at, posted, stream) /\ Held(at)
  BY DEF MessageInv
<1>1. /\ taker = "header" /\ stream # <<>> /\ header' = Append(header, Head(stream).byte)
      /\ stream' = Tail(stream) /\ taker' = "body"
      /\ UNCHANGED <<posted, rest, poster, arrived, fds, body, truncated>>
  BY DEF Message!ReadHeader, Message!out
<1>2. /\ Len(header) = 1 /\ body = <<>> /\ Len(arrived) < Len(posted)
      /\ header[1] = posted[m][1] /\ fds = posted[m][2]
  BY <1>1 DEF MessageInv, Taking
<1>t. /\ posted \in Seq(Pair) /\ stream \in Seq(Datum) /\ Len(stream) \in Nat
      /\ Len(arrived) \in Nat /\ Len(posted) \in Nat /\ header \in Seq(Nat) /\ Len(body) = 0
      /\ m \in 1..Len(posted) /\ 1 \in 1..Len(stream)
  BY <1>1, <1>2 DEF MessageInv, MessageTypes
<1>3. /\ posted[m][1] \in Nat /\ posted[m][2] \in Nat /\ Whole(posted, m) \in Nat
      /\ Whole(posted, m) >= 2
  BY <1>t, PairFacts
<1>4. Head(stream).byte = posted[m][2] /\ stream[1].byte \in Nat
  <2>1. Len(header) + Len(body) + 1 <= Whole(posted, m) /\ Len(header) + Len(body) + 1 - 1 = 1
    BY <1>2, <1>3, <1>t
  <2>2. stream[1] = Unit(posted, m, Len(header) + Len(body) + 1 - 1)
    BY <1>2, <1>a, <1>t, <2>1, NextUnits DEF MessageInv
  <2>3. stream[1] = Unit(posted, m, 1)
    BY <2>1, <2>2
  <2>4. Head(stream) = stream[1] /\ stream[1] \in Datum
    BY <1>1, <1>t
  <2>. QED
    BY <2>3, <2>4 DEF Unit, Datum
<1>5. header' \in Seq(Nat) /\ Len(header)' = 2 /\ header'[1] = header[1]
      /\ header'[2] = posted[m][2]
  <2>1. header' = Append(header, posted[m][2])
    BY <1>1, <1>4
  <2>2. /\ header' \in Seq(Nat) /\ Len(header') = Len(header) + 1
        /\ header'[Len(header) + 1] = posted[m][2]
        /\ \A j \in 1..Len(header) : header'[j] = header[j]
    BY <1>3, <1>t, <2>1, Added
  <2>. QED
    BY <1>2, <2>2
<1>6. stream' = SubSeq(stream, 1 + 1, Len(stream)) /\ 1 \in 0..Len(stream)
  BY <1>1, <1>t
<1>7. Len(header)' + Len(body)' = Len(header) + Len(body) + 1
  BY <1>1, <1>2, <1>5, <1>t
<1>8. /\ Posting' /\ stream' \in Seq(Datum) /\ Len(stream') = Len(stream) - 1
      /\ (\E to \in [1..(Len(posted) + 1) -> Int] :
             Laid(to, posted) /\ Carried(to, posted, stream) /\ Held(to))'
  BY <1>1, <1>6, <1>7, ReadPlaces
<1>9. MessageTypes'
  <2>1. Len(stream') <= Capacity
    BY <1>8, <1>t, LibraryAssumption DEF MessageInv, MessageTypes
  <2>. QED
    BY <1>1, <1>5, <1>8, <2>1 DEF MessageInv, MessageTypes
<1>10. Taking'
  <2>0. /\ Len(arrived) <= Len(posted) /\ \A l \in 1..Len(arrived) : arrived[l] = posted[l]
    BY DEF MessageInv, Taking
  <2>1. /\ UNCHANGED <<arrived, posted, fds>> /\ taker' = "body" /\ body' = body
        /\ Len(header') = 2 /\ header'[1] = posted[m][1] /\ header'[2] = posted[m][2]
    BY <1>1, <1>2, <1>5
  <2>2. Len(body) <= posted[m][1] /\ \A i \in 1..Len(body) : body[i] = m
    BY <1>3, <1>t
  <2>. QED
    BY <1>2, <2>0, <2>1, <2>2 DEF Taking
<1>. QED
  BY <1>8, <1>9, <1>10 DEF MessageInv

\* A whole header is that of the next message, and is accepted (recv_watched).
LEMMA HeaderAccepted ==
    ASSUME MessageInv, taker = "body"
    PROVE  /\ Message!Accepts(Message!Size, Message!Count)
           /\ Message!Size = posted[Len(arrived) + 1][1]
           /\ Len(arrived) + 1 \in 1..Len(posted) /\ posted[Len(arrived) + 1][1] \in Nat
           /\ fds = posted[Len(arrived) + 1][2]
           /\ posted[Len(arrived) + 1] = <<posted[Len(arrived) + 1][1], fds>>
<1>. DEFINE m == Len(arrived) + 1
<1>1. /\ Len(header) = 2 /\ header[1] = posted[m][1] /\ header[2] = posted[m][2]
      /\ fds = posted[m][2] /\ Len(arrived) < Len(posted)
  BY DEF MessageInv, Taking
<1>2. m \in 1..Len(posted) /\ posted \in Seq(Pair)
  BY <1>1 DEF MessageInv, MessageTypes
<1>3. posted[m] = <<posted[m][1], posted[m][2]>> /\ posted[m][1] \in Nat
  BY <1>2, PairFacts
<1>4. posted[m][1] <= MAX_MESSAGE /\ posted[m][2] <= MAX_FDS
  BY <1>2 DEF MessageInv, Posting
<1>. HIDE DEF m
<1>5. Message!Size = posted[m][1] /\ Message!Count = posted[m][2]
  BY <1>1 DEF Message!Size, Message!Count
<1>6. Message!Accepts(Message!Size, Message!Count)
  BY <1>1, <1>4, <1>5 DEF Message!Accepts, Message!Fits
<1>. QED
  BY <1>1, <1>2, <1>3, <1>5, <1>6 DEF m

\* A part of a body (read_exact).
LEMMA ReadBodyStep ==
    ASSUME MessageInv, NEW k \in 1..Capacity, Message!ReadBody(k)
    PROVE  MessageInv'
<1>. DEFINE m    == Len(arrived) + 1
            more == [i \in 1..k |-> stream[i].byte]
<1>a. PICK at \in [1..(Len(posted) + 1) -> Int] :
         Laid(at, posted) /\ Carried(at, posted, stream) /\ Held(at)
  BY DEF MessageInv
<1>1. /\ taker = "body" /\ k <= Len(stream) /\ k <= Message!Size - Len(body)
      /\ body' = body \o more /\ stream' = SubSeq(stream, k + 1, Len(stream))
      /\ UNCHANGED <<posted, rest, poster, arrived, header, fds, taker, truncated>>
  BY DEF Message!ReadBody, Message!out
<1>2. /\ Message!Size = posted[m][1] /\ m \in 1..Len(posted) /\ posted[m][1] \in Nat
      /\ posted[m][1] <= MAX_MESSAGE
  BY <1>1, HeaderAccepted DEF MessageInv, Posting
<1>t. /\ posted \in Seq(Pair) /\ stream \in Seq(Datum) /\ Len(stream) \in Nat
      /\ Len(arrived) \in Nat /\ Len(posted) \in Nat /\ Len(arrived) < Len(posted)
      /\ body \in Seq(Nat) /\ Len(body) \in Nat /\ k \in Nat /\ Len(header) = 2 /\ m \in Nat
      /\ \A i \in 1..Len(body) : body[i] = m
  BY <1>1, LibraryAssumption DEF MessageInv, MessageTypes, Taking
<1>3. Len(body) + k <= posted[m][1] /\ Whole(posted, m) = 2 + posted[m][1]
  BY <1>1, <1>2, <1>t DEF Whole
<1>4. ASSUME NEW i \in 1..k PROVE stream[i].byte = m
  <2>1. /\ i \in 1..Len(stream) /\ Len(header) + Len(body) + i <= Whole(posted, m)
        /\ Len(header) + Len(body) + i - 1 # 0 /\ Len(header) + Len(body) + i - 1 # 1
    <3>1. k <= Len(stream) /\ i \in Nat /\ i <= k /\ i >= 1
      BY <1>1, <1>t
    <3>2. Len(header) + Len(body) + i = 2 + Len(body) + i
      BY <1>t, <3>1
    <3>3. 2 + Len(body) + i <= Whole(posted, m)
      BY <1>2, <1>3, <1>t, <3>1
    <3>4. i \in 1..Len(stream)
      BY <1>t, <3>1
    <3>5. 2 + Len(body) + i - 1 # 0 /\ 2 + Len(body) + i - 1 # 1
      BY <1>t, <3>1
    <3>. QED
      BY <3>2, <3>3, <3>4, <3>5
  <2>2. stream[i] = Unit(posted, m, Len(header) + Len(body) + i - 1)
    BY <1>a, <1>t, <2>1, NextUnits DEF MessageInv
  <2>. QED
    BY <2>1, <2>2 DEF Unit
<1>5. more \in Seq(Nat) /\ Len(more) = k /\ \A i \in 1..k : more[i] = m
  <2>1. more \in [1..k -> Nat] /\ \A i \in 1..k : more[i] = m
    BY <1>4, <1>t
  <2>. QED
    BY <1>t, <2>1, Listing
<1>. HIDE DEF more
<1>6. /\ body' \in Seq(Nat) /\ Len(body)' = Len(body) + k
      /\ \A i \in 1..Len(body)' : body'[i] = m
  <2>1. /\ body \o more \in Seq(Nat) /\ Len(body \o more) = Len(body) + k
        /\ \A i \in 1..(Len(body) + k) :
              (body \o more)[i] = IF i <= Len(body) THEN body[i] ELSE more[i - Len(body)]
    <3>1. body \in Seq(Nat) /\ more \in Seq(Nat) /\ Len(more) = k
      BY <1>5, <1>t
    <3>. QED
      BY <3>1, Joined
  <2>2. ASSUME NEW i \in 1..(Len(body) + k) PROVE (body \o more)[i] = m
    <3>1. CASE i <= Len(body)
      BY <1>t, <2>1, <3>1
    <3>2. CASE ~(i <= Len(body))
      <4>1. i - Len(body) \in 1..k
        BY <1>t, <3>2
      <4>. QED
        BY <1>5, <2>1, <3>2, <4>1
    <3>. QED
      BY <3>1, <3>2
  <2>. QED
    BY <1>1, <2>1, <2>2
<1>7. Len(header)' + Len(body)' = Len(header) + Len(body) + k /\ k \in 0..Len(stream)
  BY <1>1, <1>6, <1>t
<1>8. /\ Posting' /\ stream' \in Seq(Datum) /\ Len(stream') = Len(stream) - k
      /\ (\E to \in [1..(Len(posted) + 1) -> Int] :
             Laid(to, posted) /\ Carried(to, posted, stream) /\ Held(to))'
  BY <1>1, <1>7, ReadPlaces
<1>9. MessageTypes'
  <2>1. Len(stream') <= Capacity
    BY <1>8, <1>t, LibraryAssumption DEF MessageInv, MessageTypes
  <2>2. Len(body)' <= MAX_MESSAGE
    BY <1>2, <1>3, <1>6, <1>t, LibraryAssumption
  <2>. QED
    BY <1>1, <1>6, <1>8, <2>1, <2>2 DEF MessageInv, MessageTypes
<1>10. Taking'
  BY <1>1, <1>3, <1>6 DEF MessageInv, Taking
<1>. QED
  BY <1>8, <1>9, <1>10 DEF MessageInv

\* A whole body is a message, and the next one follows (recv_watched).
LEMMA DecodeStep ==
    ASSUME MessageInv, Message!Decode
    PROVE  MessageInv'
<1>. DEFINE m == Len(arrived) + 1
<1>a. PICK at \in [1..(Len(posted) + 1) -> Int] :
         Laid(at, posted) /\ Carried(at, posted, stream) /\ Held(at)
  BY DEF MessageInv
<1>0. taker = "body"
  BY DEF Message!Decode
<1>1. /\ Message!Size = posted[m][1] /\ m \in 1..Len(posted) /\ posted[m][1] \in Nat
      /\ posted[m] = <<posted[m][1], fds>>
  BY <1>0, HeaderAccepted
<1>t. /\ posted \in Seq(Pair) /\ arrived \in Seq(Pair) /\ Len(arrived) \in Nat
      /\ Len(posted) \in Nat /\ body \in Seq(Nat) /\ Len(header) = 2
      /\ \A i \in 1..Len(body) : body[i] = m
  BY <1>0 DEF MessageInv, MessageTypes, Taking
<1>2. \A i \in DOMAIN body : body[i] = body[1]
  <2>1. DOMAIN body = 1..Len(body) /\ Len(body) \in Nat
    BY <1>t
  <2>2. ASSUME NEW i \in 1..Len(body) PROVE body[i] = m /\ body[1] = m
    BY <1>t, <2>1
  <2>. QED
    BY <2>1, <2>2
<1>3. /\ Len(body) = posted[m][1] /\ arrived' = Append(arrived, posted[m]) /\ taker' = "idle"
      /\ header' = <<>> /\ fds' = 0 /\ body' = <<>>
      /\ UNCHANGED <<stream, posted, rest, poster, truncated>>
  BY <1>1, <1>2 DEF Message!Decode, Message!out
<1>4. /\ posted[m] \in Pair /\ arrived' \in Seq(Pair) /\ Len(arrived)' = m
      /\ arrived'[m] = posted[m] /\ \A i \in 1..Len(arrived) : arrived'[i] = arrived[i]
  BY <1>1, <1>3, <1>t
<1>5. Held(at)'
  <2>1. at[m] = 1 - (2 + posted[m][1]) /\ at[m + 1] = at[m] + (2 + posted[m][1])
    BY <1>1, <1>3, <1>a, <1>t DEF Held, Laid, Whole
  <2>2. at[m + 1] = 1 - (Len(header)' + Len(body)')
    BY <1>1, <1>3, <2>1
  <2>. QED
    BY <1>3, <1>4, <1>a, <2>2 DEF Held
<1>6. MessageTypes'
  BY <1>3, <1>4, LibraryAssumption DEF MessageInv, MessageTypes
<1>7. Posting'
  BY <1>3 DEF MessageInv, Posting
<1>8. Taking'
  <2>0. \A i \in 1..Len(arrived) : arrived[i] = posted[i]
    BY DEF MessageInv, Taking
  <2>1. m <= Len(posted) /\ \A i \in 1..m : arrived'[i] = posted[i]
    <3>1. ASSUME NEW i \in 1..m PROVE i \in 1..Len(arrived) \/ i = m
      BY <1>t
    <3>. QED
      BY <1>1, <1>4, <1>t, <2>0, <3>1
  <2>. QED
    BY <1>3, <1>4, <2>1 DEF Taking
<1>. QED
  BY <1>3, <1>5, <1>6, <1>7, <1>8, <1>a DEF MessageInv

\* Before anything was sent.
LEMMA MessageStart == Message!Init => MessageInv
<1>. SUFFICES ASSUME Message!Init PROVE MessageInv
  OBVIOUS
<1>1. /\ stream = <<>> /\ posted = <<>> /\ rest = <<>> /\ poster = "idle" /\ arrived = <<>>
      /\ header = <<>> /\ fds = 0 /\ body = <<>> /\ taker = "idle"
  BY DEF Message!Init
<1>2. MessageTypes /\ Posting /\ Taking
  BY <1>1, LibraryAssumption DEF MessageTypes, Posting, Taking
<1>. DEFINE at == [m \in 1..1 |-> 1]
<1>3. at \in [1..(Len(posted) + 1) -> Int] /\ Len(posted) = 0 /\ at[1] = 1
  BY <1>1
<1>. HIDE DEF at
<1>4. Laid(at, posted) /\ Carried(at, posted, stream)
  BY <1>3 DEF Laid, Carried
<1>5. Held(at)
  BY <1>1, <1>3 DEF Held
<1>. QED
  BY <1>2, <1>3, <1>4, <1>5 DEF MessageInv

\* Every step of either side keeps the invariant.
LEMMA MessageStep == MessageInv /\ [Message!Next]_messageVars => MessageInv'
<1>. SUFFICES ASSUME MessageInv, [Message!Next]_messageVars PROVE MessageInv'
  OBVIOUS
<1>1. CASE UNCHANGED messageVars
  BY <1>1 DEF messageVars, MessageInv, MessageTypes, Posting, Taking, Held
<1>2. CASE Message!Send
  BY <1>2, SendHeaderStep, SideEnds DEF Message!Send
<1>3. CASE Message!Refuse
  BY <1>3, HeaderAccepted DEF Message!Refuse
<1>4. CASE Message!Transfer /\ ~Message!Refuse
  BY <1>4, SideEnds, WriteStep, RecvHeaderStep, ReadHeaderStep, ReadBodyStep, DecodeStep
  DEF Message!Transfer
<1>5. CASE Message!Close \/ Message!Fires
  BY <1>5, SideEnds
<1>. QED
  BY <1>1, <1>2, <1>3, <1>4, <1>5 DEF Message!Next, Message!Transfer

\* Whatever the sizes, the limits, the capacity of the socket and the parts it takes and gives,
\* and whenever either side ends: recv_watched returns what send_watched was given, message by
\* message with its descriptors, and refuses one only when the kernel dropped descriptors.
THEOREM MessagesArrive == Message!Spec => []DeliveredAsSent
<1>1. MessageInv => DeliveredAsSent
  <2>. SUFFICES ASSUME MessageInv PROVE DeliveredAsSent
    OBVIOUS
  <2>1. Message!TypeOK
    BY DEF MessageInv, MessageTypes, Message!TypeOK
  <2>2. Len(arrived) <= Len(posted) /\ arrived = SubSeq(posted, 1, Len(arrived))
    <3>1. /\ arrived \in Seq(Pair) /\ posted \in Seq(Pair) /\ Len(arrived) <= Len(posted)
          /\ \A m \in 1..Len(arrived) : arrived[m] = posted[m]
      BY DEF MessageInv, MessageTypes, Taking
    <3>. QED
      BY <3>1
  <2>3. taker = "invalid" => truncated
    BY DEF MessageInv, Taking
  <2>. QED
    BY <2>1, <2>2, <2>3 DEF DeliveredAsSent, Message!DeliveredAsSent
<1>2. MessageInv /\ [Message!Next]_(Message!vars) => MessageInv'
  <2>1. [Message!Next]_(Message!vars) => [Message!Next]_messageVars
    BY DEF Message!vars, messageVars
  <2>. QED
    BY <2>1, MessageStep
<1>. QED
  BY <1>1, <1>2, MessageStart, PTL DEF Message!Spec

=============================================================================
