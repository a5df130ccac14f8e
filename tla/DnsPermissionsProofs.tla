------------------------ MODULE DnsPermissionsProofs ------------------------
(***************************************************************************)
(* The safety of the DNS permissions, for any keys, lifetimes, limits and   *)
(* number of generations, with nft runs that fail and a thread that panics. *)
(*                                                                         *)
(* An attempt is followed through its stages: which sets are its own, when  *)
(* it was planned, what its elements may and must last.                     *)
(***************************************************************************)
EXTENDS DnsPermissions, SequenceTheorems, TLAPS

\* The stages in which sets of the attempt may be in the kernel and are not exposed.
Staging == {"apply", "verified", "discard", "staged", "locked", "drop", "activate"}

\* The stages that follow a staging which ended in time.
InTime == {"staged", "locked", "drop", "activate"}

\* The generation of an attempt is new: neither the chain nor the owner has it, and no later
\* one has a set.
Numbered ==
    /\ chain <= generation /\ owned <= generation
    /\ \A g \in 1..Generations : g > generation => sets[g] = Empty
    /\ pc \in Staging => /\ attempt.generation = generation /\ generation # 0
                         /\ chain # generation /\ owned # generation

\* Every end the owner works with was promised by an answer.
Promises ==
    \A k \in Keys :
        /\ leases[k] <= promised[k] /\ job.grants[k] <= promised[k]
        /\ attempt.leases[k] <= promised[k]
        /\ \A i \in 1..Len(queue) : queue[i].grants[k] <= promised[k]

\* The times of an attempt: planned at until - reserve, no later than now, with a reserve of
\* at most half of what each grant had left then.
Timed ==
    pc \in Staging \cup {"remove"} =>
        /\ attempt.reserve <= attempt.until /\ attempt.until - attempt.reserve <= now
        /\ \A k \in Keys : attempt.timeouts[k] # 0 =>
              attempt.timeouts[k] + attempt.until = attempt.leases[k]
        /\ \A k \in Granted(job) :
              /\ attempt.timeouts[k] # 0 /\ job.grants[k] <= attempt.leases[k]
              /\ 2 * attempt.reserve <= job.grants[k] - (attempt.until - attempt.reserve)

\* What is in the sets of the attempt: elements that started to run after the planning, and,
\* once the staging ended in time, none that outlives its lease.
Elements ==
    pc \in Staging =>
        /\ \A k \in Keys :
              /\ attempt.timeouts[k] = 0 => sets[generation][k] = 0
              /\ sets[generation][k] <= now + attempt.timeouts[k]
              /\ sets[generation] # Empty /\ attempt.timeouts[k] # 0 =>
                    sets[generation][k] >= attempt.until - attempt.reserve + attempt.timeouts[k]
              /\ pc \in InTime => sets[generation][k] <= attempt.leases[k]
        /\ pc \in {"apply", "verified"} => attempt.timeouts # Empty
        /\ pc = "verified" => sets[generation] # Empty
        /\ pc \in InTime => (sets[generation] # Empty <=> attempt.timeouts # Empty)

\* The owner knows the kernel but for the sets it is working on.
Known ==
    ~failed =>
        /\ chain = owned
        /\ pc \in Staging =>
              \A g \in 1..Generations : g # generation => (sets[g] # Empty <=> g = owned)
        /\ pc = "remove" =>
              /\ attempt.generation = owned => owned = 0
              /\ \A g \in 1..Generations :
                    g # attempt.generation => (sets[g] # Empty <=> g = owned)

\* Work goes on only with a usable owner, and an activation only under the settings in force.
Usable ==
    /\ pc # "idle" => ~failed
    /\ pc = "activate" => job.settings = settings

\* After the activation every granted address is in force.
InForce ==
    pc \in {"remove", "check"} =>
        \A k \in Granted(job) :
            /\ chain # 0
            /\ sets[chain][k] >= job.grants[k] - attempt.reserve
            /\ 2 * attempt.reserve <= job.grants[k] - (attempt.until - attempt.reserve)

IInv ==
    /\ TypeOK /\ Numbered /\ Promises /\ Timed /\ Elements /\ Known /\ Usable /\ InForce
    /\ NoOverstay /\ KnownKernel

-----------------------------------------------------------------------------
(* Types. *)

Book    == [Keys -> Nat]
Attempt == [generation : 0..Generations, leases : Book, timeouts : Book, reserve : Nat,
            until : Nat]
Results == {"ok", "query", "enforcement"}

\* The empty book holds an end for no key.
LEMMA EmptyType == Empty \in Book /\ \A k \in Keys : Empty[k] = 0
  BY DEF Empty, Book

\* Neither a candidate nor an attempt: what the thread holds between two of them.
LEMMA NothingType == NoJob \in Candidate /\ NoAttempt \in Attempt
  BY EmptyType, PermissionsAssumption DEF NoJob, NoAttempt, Candidate, Attempt, Book

\* The ends and the rests of leases are times.
LEMMA BookType ==
    ASSUME TypeOK, NEW c \in Candidate, NEW until \in Nat
    PROVE  /\ Record(leases, c) \in Book
           /\ \A book \in Book : Timeouts(book, until) \in Book
<1>1. \A a, b \in Nat : Higher(a, b) \in Nat
  BY DEF Higher
<1>2. Record(leases, c) \in Book
  BY <1>1 DEF Record, TypeOK, Candidate, Book
<1>3. \A book \in Book : Timeouts(book, until) \in Book
  BY DEF Timeouts, Book
<1>. QED
  BY <1>2, <1>3

\* What a reply leaves: one more result and an idle thread.
Replied ==
    /\ results' \in Seq(Results) /\ Len(results') = Len(results) + 1
    /\ faulted' \in BOOLEAN /\ pc' = "idle"
    /\ job' = NoJob /\ attempt' = NoAttempt
    /\ UNCHANGED <<outstanding, stopped, handle>>

\* The permission thread: a result is sent and the thread is idle again.
LEMMA ReplyType ==
    ASSUME TypeOK, NEW answer \in Results, Reply(answer)
    PROVE  Replied
  BY DEF Reply, Replied, TypeOK, Results

\* A refused candidate is answered and leaves the owner usable (adopt).
LEMMA RefuseType == TypeOK /\ Refuse => Replied /\ UNCHANGED <<queue, failed>>
  BY ReplyType DEF Refuse, Results

\* A failed nft run is answered and leaves the owner unusable (dynamic.rs: failed).
LEMMA PoisonType == TypeOK /\ Poison => Replied /\ UNCHANGED queue /\ failed' = TRUE
  BY ReplyType DEF Poison, Results

\* The types of the parts, each of which a step leaves alone or replaces as a whole.
OwnerOK ==
    /\ leases \in Book /\ owned \in 0..Generations
    /\ generation \in 0..Generations /\ failed \in BOOLEAN

KernelOK == sets \in [1..Generations -> Book] /\ chain \in 0..Generations

ThreadOK ==
    /\ pc \in {"idle", "check", "plan", "remove", "apply", "verified", "discard"} \cup InTime
    /\ job \in Candidate /\ attempt \in Attempt

LinkOK ==
    /\ queue \in Seq(Candidate) /\ results \in Seq(Results) /\ outstanding \in Int
    /\ faulted \in BOOLEAN /\ stopped \in BOOLEAN
    /\ handle \in {"live", "ended", "panicked", "joined", "lost"}

TimesOK == now \in Nat /\ settings \in Nat /\ promised \in Book

\* The parts are the type invariant.
LEMMA TypeParts == TypeOK <=> OwnerOK /\ KernelOK /\ ThreadOK /\ LinkOK /\ TimesOK
  BY DEF TypeOK, OwnerOK, KernelOK, ThreadOK, LinkOK, TimesOK, Book, Attempt, Results, InTime

\* A reply keeps the types of the thread and of its channels.
LEMMA RepliedType ==
    ASSUME TypeOK, Replied, UNCHANGED queue
    PROVE  ThreadOK' /\ LinkOK'
<1>1. ThreadOK'
  BY NothingType DEF Replied, ThreadOK
<1>2. LinkOK'
  BY TypeParts DEF Replied, LinkOK
<1>. QED
  BY <1>1, <1>2

\* Every step of the thread, the runtime and the clock keeps the types.
LEMMA TypeStep == TypeOK /\ [Next]_vars => TypeOK'
<1>. SUFFICES ASSUME TypeOK, [Next]_vars
              PROVE  OwnerOK' /\ KernelOK' /\ ThreadOK' /\ LinkOK' /\ TimesOK'
  BY TypeParts, PTL
<1>p. OwnerOK /\ KernelOK /\ ThreadOK /\ LinkOK /\ TimesOK
  BY TypeParts
<1>o. UNCHANGED owner => OwnerOK'
  BY <1>p DEF owner, OwnerOK
<1>k. UNCHANGED kernel => KernelOK'
  BY <1>p DEF kernel, KernelOK
<1>t. UNCHANGED thread => ThreadOK'
  BY <1>p DEF thread, ThreadOK
<1>l. UNCHANGED link => LinkOK'
  BY <1>p DEF link, LinkOK
<1>n. UNCHANGED <<now, settings, promised>> => TimesOK'
  BY <1>p DEF TimesOK
<1>e. <<>> \in Seq(Candidate) /\ <<>> \in Seq(Results)
  OBVIOUS
<1>r. Refuse \/ Poison => Replied /\ ThreadOK' /\ LinkOK' /\ failed' \in BOOLEAN
  BY <1>p, RefuseType, PoisonType, RepliedType DEF OwnerOK
<1>s. UNCHANGED <<leases, owned, generation>> /\ failed' \in BOOLEAN => OwnerOK'
  BY <1>p DEF OwnerOK
<1>g. ASSUME NEW p, Goto(p)
      PROVE  LinkOK' /\ failed' \in BOOLEAN /\ pc' = p
  BY <1>g, <1>l, <1>p DEF Goto, OwnerOK
<1>1. CASE Begin
  <2>1. Head(queue) \in Candidate /\ Tail(queue) \in Seq(Candidate)
    BY <1>1, <1>p DEF Begin, LinkOK
  <2>2. [NoAttempt EXCEPT !.reserve = InitialReserve] \in Attempt
    BY NothingType, PermissionsAssumption DEF Attempt
  <2>3. OwnerOK' /\ KernelOK' /\ TimesOK'
    BY <1>1, <1>o, <1>k, <1>n DEF Begin
  <2>4. ThreadOK' /\ LinkOK'
    <3>1. CASE Replied
      BY <1>1, <1>p, <2>1, <3>1, NothingType DEF Begin, Replied, LinkOK, ThreadOK
    <3>2. CASE ~Replied
      <4>1. /\ job' = Head(queue) /\ pc' \in {"check", "plan"}
            /\ attempt' = [NoAttempt EXCEPT !.reserve = InitialReserve]
            /\ UNCHANGED <<results, outstanding, faulted, stopped, handle>>
        BY <1>1, <3>2, ReplyType DEF Begin, Results
      <4>. QED
        BY <1>1, <1>p, <2>1, <2>2, <4>1 DEF Begin, LinkOK, ThreadOK
    <3>. QED
      BY <3>1, <3>2
  <2>. QED
    BY <2>3, <2>4
<1>2. CASE Plan
  <2>1. KernelOK' /\ TimesOK'
    BY <1>2, <1>k, <1>n DEF Plan
  <2>2. CASE Refuse /\ UNCHANGED generation
    BY <1>2, <2>1, <2>2, <1>r, <1>s DEF Plan
  <2>3. CASE ~(Refuse /\ UNCHANGED generation)
    <3>. DEFINE book == Record(leases, job)
    <3>1. PICK k \in Keys :
            LET reserve == Lower(Room(k), attempt.reserve) IN
            /\ First(k)
            /\ attempt' = [generation |-> generation + 1, leases |-> book,
                           timeouts |-> Timeouts(book, now + reserve),
                           reserve |-> reserve, until |-> now + reserve]
            /\ Goto(IF Timeouts(book, now + reserve) = Empty THEN "staged" ELSE "apply")
            /\ UNCHANGED job
      BY <1>2, <2>3 DEF Plan
    <3>. DEFINE reserve == Lower(Room(k), attempt.reserve)
    <3>2. generation < Generations /\ generation' = generation + 1 /\ job.grants[k] > now
      BY <1>2, <2>3, <3>1 DEF Plan, First
    <3>3. reserve \in Nat
      BY <1>p, <3>2 DEF Lower, Room, ThreadOK, TimesOK, Candidate, Attempt
    <3>4. book \in Book /\ Timeouts(book, now + reserve) \in Book /\ now + reserve \in Nat
      BY <1>p, <3>3, BookType DEF ThreadOK, TimesOK
    <3>5. generation + 1 \in 0..Generations
      BY <1>p, <3>2, PermissionsAssumption DEF OwnerOK
    <3>. HIDE DEF book, reserve
    <3>6. ThreadOK'
      BY <1>p, <3>1, <3>3, <3>4, <3>5, <1>g DEF reserve, ThreadOK, Attempt, InTime
    <3>7. OwnerOK' /\ LinkOK'
      BY <1>2, <1>p, <3>1, <3>2, <3>5, <1>g DEF Plan, OwnerOK
    <3>. QED
      BY <2>1, <3>6, <3>7
  <2>. QED
    BY <2>2, <2>3
<1>3. CASE Commit
  <2>1. [k \in Keys |-> IF attempt.timeouts[k] = 0 THEN 0 ELSE now + attempt.timeouts[k]] \in Book
    BY <1>p DEF ThreadOK, TimesOK, Attempt, Book
  <2>2. KernelOK'
    BY <1>3, <1>p, <2>1 DEF Commit, KernelOK
  <2>. QED
    BY <1>3, <2>2, <1>o, <1>t, <1>l, <1>n DEF Commit
<1>4. CASE Readback \/ StagingFails
  <2>1. OwnerOK' /\ KernelOK' /\ TimesOK'
    BY <1>4, <1>k, <1>n, <1>r, <1>s, <1>g DEF Readback, StagingFails
  <2>2. ThreadOK' /\ LinkOK'
    BY <1>4, <1>p, <1>r, <1>g DEF Readback, StagingFails, ThreadOK
  <2>. QED
    BY <2>1, <2>2
<1>5. CASE StagingTimesOut \/ StagingEnds \/ Lock \/ CheckStaged
  <2>1. OwnerOK' /\ KernelOK' /\ TimesOK' /\ LinkOK'
    BY <1>5, <1>k, <1>n, <1>s, <1>g DEF StagingTimesOut, StagingEnds, Lock, CheckStaged
  <2>2. pc' \in {"discard"} \cup InTime
    BY <1>5, <1>g DEF StagingTimesOut, StagingEnds, Lock, CheckStaged, InTime
  <2>3. ThreadOK'
    BY <1>5, <1>p, <2>2 DEF StagingTimesOut, StagingEnds, Lock, CheckStaged, ThreadOK
  <2>. QED
    BY <2>1, <2>3
<1>6. CASE Discard
  <2>1. KernelOK' /\ TimesOK'
    BY <1>6, <1>p, <1>n, EmptyType DEF Discard, KernelOK
  <2>2. CASE Refuse
    BY <1>6, <2>1, <2>2, <1>r, <1>s DEF Discard
  <2>3. CASE ~Refuse
    <3>1. PICK k \in Keys :
            LET cap == NextReserve(attempt.reserve, IF job.grants[k] > now THEN Room(k) ELSE 0) IN
            /\ Goto("plan") /\ UNCHANGED job
            /\ attempt' = [NoAttempt EXCEPT !.reserve = cap]
      BY <1>6, <2>3 DEF Discard
    <3>. DEFINE room == IF job.grants[k] > now THEN Room(k) ELSE 0
    <3>2. room \in Nat
      BY <1>p DEF Room, ThreadOK, TimesOK, Candidate
    <3>. HIDE DEF room
    <3>3. NextReserve(attempt.reserve, room) \in Nat
      BY <1>p, <3>2 DEF NextReserve, Lower, ThreadOK, Attempt
    <3>4. attempt' \in Attempt
      BY <3>1, <3>3, NothingType DEF room, Attempt
    <3>. QED
      BY <1>6, <1>p, <2>1, <3>1, <3>4, <1>g, <1>s DEF Discard, ThreadOK
  <2>. QED
    BY <2>2, <2>3
<1>7. CASE DropStaged \/ RemovalFails
  <2>1. KernelOK'
    BY <1>7, <1>p, EmptyType DEF DropStaged, RemovalFails, KernelOK
  <2>. QED
    BY <1>7, <2>1, <1>r, <1>s, <1>n DEF DropStaged, RemovalFails
<1>x. Exposed \in 0..Generations
  BY <1>p, PermissionsAssumption DEF Exposed, ThreadOK, Attempt
<1>8. CASE Activate
  <2>1. OwnerOK' /\ KernelOK'
    BY <1>8, <1>p, <1>x, <1>g DEF Activate, OwnerOK, KernelOK, ThreadOK, Attempt
  <2>2. ThreadOK'
    BY <1>8, <1>p, <1>g DEF Activate, OwnerOK, ThreadOK, Attempt
  <2>. QED
    BY <1>8, <2>1, <2>2, <1>n, <1>g DEF Activate
<1>9. CASE ActivateFails
  <2>1. KernelOK'
    BY <1>9, <1>p, <1>x DEF ActivateFails, KernelOK
  <2>. QED
    BY <1>9, <2>1, <1>r, <1>s, <1>n DEF ActivateFails
<1>10. CASE RemovePrevious
  <2>1. KernelOK'
    BY <1>10, <1>p, EmptyType DEF RemovePrevious, KernelOK
  <2>. QED
    BY <1>10, <1>p, <2>1, <1>s, <1>n, <1>g DEF RemovePrevious, ThreadOK
<1>11. CASE Check
  <2>1. Replied
    BY <1>11, ReplyType DEF Check, Results
  <2>. QED
    BY <1>11, <2>1, <1>o, <1>k, <1>n, RepliedType DEF Check
<1>12. CASE ThreadEnds \/ ThreadPanics
  <2>1. LinkOK'
    BY <1>12, <1>p, <1>e DEF ThreadEnds, ThreadPanics, LinkOK
  <2>. QED
    BY <1>12, <2>1, <1>o, <1>k, <1>t, <1>n DEF ThreadEnds, ThreadPanics
<1>13. ASSUME NEW grants \in Grants, Submit(grants)
       PROVE  OwnerOK' /\ KernelOK' /\ ThreadOK' /\ LinkOK' /\ TimesOK'
  <2>1. grants \in Book
    <3>1. PICK granted \in SUBSET Keys, ttl \in Ttls :
            grants = [k \in Keys |-> IF k \in granted THEN now + ttl ELSE 0]
      BY DEF Grants
    <3>. QED
      BY <3>1, <1>p, PermissionsAssumption DEF Book, TimesOK
  <2>2. [grants |-> grants, settings |-> settings, deadline |-> now + ResolutionTimeout]
          \in Candidate
    BY <1>p, <2>1, PermissionsAssumption DEF Candidate, TimesOK, Book
  <2>3. [k \in Keys |-> Higher(promised[k], grants[k])] \in Book
    BY <1>p, <2>1 DEF Higher, TimesOK, Book
  <2>4. LinkOK'
    <3>1. CASE handle = "live"
      BY <1>13, <1>p, <2>2, <3>1 DEF Submit, LinkOK
    <3>2. CASE handle # "live"
      BY <1>13, <1>p, <3>2 DEF Submit, LinkOK
    <3>. QED
      BY <3>1, <3>2
  <2>5. TimesOK'
    BY <1>13, <1>p, <2>3 DEF Submit, TimesOK
  <2>. QED
    BY <1>13, <2>4, <2>5, <1>o, <1>k, <1>t DEF Submit
<1>14. CASE PollDrains \/ PollJoins \/ Stop
  <2>1. PollDrains => LinkOK'
    BY <1>p, <1>e DEF PollDrains, LinkOK
  <2>2. PollJoins => LinkOK'
    <3>1. CASE handle = "panicked" \/ ~stopped
      <4>1. PollJoins => /\ outstanding' = 0 /\ faulted' = TRUE
                         /\ UNCHANGED <<queue, results, stopped>>
        BY <3>1 DEF PollJoins
      <4>2. PollJoins => handle' \in {"lost", "joined"}
        BY DEF PollJoins, Joined
      <4>. QED
        BY <1>p, <4>1, <4>2 DEF LinkOK
    <3>2. CASE ~(handle = "panicked" \/ ~stopped)
      BY <1>p, <3>2 DEF PollJoins, Joined, LinkOK
    <3>. QED
      BY <3>1, <3>2
  <2>3. Stop => LinkOK'
    BY <1>p DEF Stop, LinkOK
  <2>4. LinkOK'
    BY <1>14, <2>1, <2>2, <2>3
  <2>. QED
    BY <1>14, <2>4, <1>o, <1>k, <1>t, <1>n DEF PollDrains, PollJoins, Stop
<1>15. CASE Follow \/ Tick
  <2>1. TimesOK'
    BY <1>15, <1>p DEF Follow, Tick, TimesOK
  <2>. QED
    BY <1>15, <2>1, <1>o, <1>k, <1>t, <1>l DEF Follow, Tick
<1>16. CASE UNCHANGED vars
  BY <1>16, <1>o, <1>k, <1>t, <1>l, <1>n DEF vars
<1>. QED
  BY <1>1, <1>2, <1>3, <1>4, <1>5, <1>6, <1>7, <1>8, <1>9, <1>10, <1>11, <1>12, <1>13, <1>14,
     <1>15, <1>16 DEF Next, Thread

\* The steps of the controller, the end of the thread and the clock: they leave the owner,
\* the kernel and the stage alone.
Outside ==
    \/ ThreadEnds \/ ThreadPanics \/ (\E grants \in Grants : Submit(grants))
    \/ PollDrains \/ PollJoins \/ Stop \/ Follow \/ Tick \/ UNCHANGED vars

\* What is not a step of the thread's work moves only the clock, the queue, what was
\* promised and, without the activation lock, the settings.
LEMMA OutsideStep ==
    ASSUME TypeOK, Outside
    PROVE  /\ UNCHANGED <<owner, kernel, thread>>
           /\ now' \in Nat /\ now <= now'
           /\ \A k \in Keys : promised[k] <= promised'[k]
           /\ settings' = settings \/ ~Holding
<1>1. UNCHANGED <<owner, kernel, thread>>
  BY DEF Outside, ThreadEnds, ThreadPanics, Submit, PollDrains, PollJoins, Stop, Follow, Tick,
         vars
<1>2. now' = now \/ now' = now + 1
  BY DEF Outside, ThreadEnds, ThreadPanics, Submit, PollDrains, PollJoins, Stop, Follow, Tick,
         vars
<1>3. ASSUME NEW grants \in Grants, Submit(grants), NEW k \in Keys
      PROVE  promised[k] <= promised'[k]
  <2>1. PICK granted \in SUBSET Keys, ttl \in Ttls :
          grants = [j \in Keys |-> IF j \in granted THEN now + ttl ELSE 0]
    BY DEF Grants
  <2>2. promised[k] \in Nat
    <3>1. promised \in [Keys -> Nat]
      BY DEF TypeOK
    <3>. QED
      BY <3>1
  <2>3. grants[k] \in Nat
    <3>1. now \in Nat /\ ttl \in Nat
      BY PermissionsAssumption DEF TypeOK
    <3>. QED
      BY <2>1, <3>1
  <2>. QED
    BY <1>3, <2>2, <2>3 DEF Submit, Higher
<1>4. ASSUME NEW k \in Keys
      PROVE  promised[k] <= promised'[k]
  <2>1. promised[k] \in Nat
    BY DEF TypeOK
  <2>. QED
    BY <1>3, <2>1
    DEF Outside, ThreadEnds, ThreadPanics, PollDrains, PollJoins, Stop, Follow, Tick, vars
<1>5. settings' = settings \/ ~Holding
  BY DEF Outside, ThreadEnds, ThreadPanics, Submit, PollDrains, PollJoins, Stop, Follow, Tick,
         vars
<1>. QED
  BY <1>1, <1>2, <1>4, <1>5 DEF TypeOK

-----------------------------------------------------------------------------
(* The generation of an attempt is new. *)

\* A generation is given out once (dynamic.rs: generation), and no set of it outlives the attempt.
LEMMA NumberedStep ==
    ASSUME TypeOK, Numbered, [Next]_vars
    PROVE  Numbered'
<1>t. /\ chain \in 0..Generations /\ owned \in 0..Generations /\ generation \in 0..Generations
      /\ attempt.generation \in 0..Generations /\ Generations \in Nat
      /\ sets \in [1..Generations -> Book]
  BY PermissionsAssumption DEF TypeOK, Book
<1>r. Refuse \/ Poison => pc' = "idle"
  BY DEF Refuse, Poison, Reply
<1>1. CASE Begin
  BY <1>1 DEF Begin, Reply, Numbered, Staging, owner, kernel
<1>2. CASE Plan
  <2>1. CASE Refuse /\ UNCHANGED generation
    BY <1>2, <1>r, <2>1 DEF Plan, Numbered, Staging, kernel
  <2>2. CASE ~(Refuse /\ UNCHANGED generation)
    <3>1. /\ generation < Generations /\ generation' = generation + 1
          /\ attempt'.generation = generation + 1
          /\ UNCHANGED <<chain, owned, sets>>
      BY <1>2, <2>2 DEF Plan, kernel
    <3>. QED
      BY <1>t, <3>1 DEF Numbered
  <2>. QED
    BY <2>1, <2>2
<1>3. CASE Commit \/ Discard \/ DropStaged \/ RemovalFails
  <2>1. \A g \in 1..Generations : g # attempt.generation => sets'[g] = sets[g]
    BY <1>3, <1>t DEF Commit, Discard, DropStaged, RemovalFails
  <2>2. \A g \in 1..Generations : g > generation => sets'[g] = Empty
    BY <1>3, <1>t, <2>1
    DEF Commit, Discard, DropStaged, RemovalFails, Numbered, Staging
  <2>3. UNCHANGED <<chain, owned, generation>>
    BY <1>3 DEF Commit, Discard, DropStaged, RemovalFails, owner
  <2>4. pc' \in {"idle", "plan"} \/ UNCHANGED thread
    BY <1>3, <1>r DEF Commit, Discard, DropStaged, RemovalFails, Goto
  <2>. QED
    BY <2>2, <2>3, <2>4 DEF Numbered, Staging, thread
<1>4. CASE Readback \/ StagingFails \/ StagingTimesOut \/ StagingEnds \/ Lock \/ CheckStaged
  <2>1. UNCHANGED <<chain, owned, generation, sets>>
    BY <1>4
    DEF Readback, StagingFails, StagingTimesOut, StagingEnds, Lock, CheckStaged, kernel
  <2>2. pc' = "idle" \/ (pc \in Staging /\ UNCHANGED attempt)
    BY <1>4, <1>r
    DEF Readback, StagingFails, StagingTimesOut, StagingEnds, Lock, CheckStaged, Staging
  <2>. QED
    BY <2>1, <2>2 DEF Numbered, Staging
<1>5. CASE Activate \/ ActivateFails
  <2>1. /\ chain' \in {chain, Exposed} /\ owned' \in {owned, Exposed}
        /\ UNCHANGED <<generation, sets>> /\ pc' \in {"idle", "remove"} /\ pc = "activate"
    BY <1>5, <1>r DEF Activate, ActivateFails, Goto
  <2>2. Exposed <= generation
    BY <1>t, <2>1 DEF Exposed, Numbered, Staging
  <2>. QED
    BY <2>1, <2>2 DEF Numbered, Staging
<1>6. CASE RemovePrevious
  BY <1>6, <1>t DEF RemovePrevious, Goto, Numbered, Staging
<1>7. CASE Check
  BY <1>7 DEF Check, Reply, Numbered, Staging, owner, kernel
<1>8. CASE Outside
  BY <1>8, OutsideStep DEF Numbered, owner, kernel, thread
<1>. QED
  BY <1>1, <1>2, <1>3, <1>4, <1>5, <1>6, <1>7, <1>8 DEF Next, Thread, Outside

-----------------------------------------------------------------------------
(* Every end was promised. *)

\* No lease and no grant ends later than an answer promised, however often it is renewed.
LEMMA PromisesStep ==
    ASSUME TypeOK, Promises, [Next]_vars
    PROVE  Promises'
<1>. DEFINE Within(book) == \A k \in Keys : book[k] <= promised[k]
            Queued(q)    == \A i \in 1..Len(q) : Within(q[i].grants)
<1>t. /\ promised \in Book /\ leases \in Book /\ job \in Candidate /\ attempt \in Attempt
      /\ queue \in Seq(Candidate) /\ now \in Nat
  BY DEF TypeOK, Book, Attempt
<1>0. Within(leases) /\ Within(job.grants) /\ Within(attempt.leases) /\ Queued(queue)
  BY DEF Promises
<1>q. ASSUME NEW i \in 1..Len(queue), NEW k \in Keys
      PROVE  queue[i].grants[k] \in Nat /\ queue[i].grants[k] <= promised[k]
  <2>1. queue[i] \in Candidate
    BY <1>t
  <2>. QED
    BY <1>0, <2>1 DEF Candidate
<1>e. Within(Empty)
  BY <1>t, EmptyType DEF Book
<1>f. /\ NoJob.grants = Empty /\ NoAttempt.leases = Empty
      /\ \A cap : [NoAttempt EXCEPT !.reserve = cap].leases = Empty
  BY DEF NoJob, NoAttempt
<1>r. Refuse \/ Poison => job' = NoJob /\ attempt' = NoAttempt /\ UNCHANGED queue
  BY DEF Refuse, Poison, Reply
<1>s. SUFFICES ASSUME ~Outside
               PROVE  /\ promised' = promised /\ Within(leases') /\ Within(job'.grants)
                      /\ Within(attempt'.leases) /\ Queued(queue')
  <2>1. CASE Outside
    <3>1. UNCHANGED <<leases, job, attempt>> /\ \A k \in Keys : promised[k] <= promised'[k]
      BY <2>1, OutsideStep DEF owner, thread
    <3>2. \A k \in Keys : promised'[k] \in Nat
      BY TypeStep DEF TypeOK
    <3>3. \A k \in Keys, n \in Nat : n <= promised[k] => n <= promised'[k]
      BY <1>t, <3>1, <3>2 DEF Book
    <3>4. \A k \in Keys : /\ leases[k] \in Nat /\ job.grants[k] \in Nat
                          /\ attempt.leases[k] \in Nat
      BY <1>t DEF Book, Attempt, Candidate
    <3>5. ASSUME NEW i \in 1..Len(queue'), NEW k \in Keys
          PROVE  queue'[i].grants[k] <= promised'[k]
      <4>1. CASE UNCHANGED queue
        <5>1. queue[i].grants[k] \in Nat /\ queue[i].grants[k] <= promised[k]
          BY <1>q, <4>1
        <5>. QED
          BY <3>3, <4>1, <5>1
      <4>2. CASE ThreadPanics
        BY <4>2 DEF ThreadPanics
      <4>3. ASSUME NEW grants \in Grants, Submit(grants), queue' # queue
            PROVE  queue'[i].grants[k] <= promised'[k]
        <5>1. CASE i <= Len(queue)
          <6>1. queue'[i] = queue[i] /\ i \in 1..Len(queue)
            BY <1>t, <4>3, <5>1 DEF Submit
          <6>2. queue[i].grants[k] \in Nat /\ queue[i].grants[k] <= promised[k]
            BY <1>q, <6>1
          <6>. QED
            BY <3>3, <6>1, <6>2
        <5>2. CASE ~(i <= Len(queue))
          <6>1. queue'[i].grants = grants
            BY <1>t, <4>3, <5>2 DEF Submit
          <6>2. PICK granted \in SUBSET Keys, ttl \in Ttls :
                  grants = [j \in Keys |-> IF j \in granted THEN now + ttl ELSE 0]
            BY DEF Grants
          <6>3. grants[k] \in Nat /\ promised[k] \in Nat
            BY <1>t, <6>2, PermissionsAssumption DEF Book
          <6>4. promised'[k] = Higher(promised[k], grants[k])
            BY <4>3 DEF Submit
          <6>. QED
            BY <6>1, <6>3, <6>4 DEF Higher
        <5>. QED
          BY <5>1, <5>2
      <4>. QED
        BY <2>1, <4>1, <4>2, <4>3
        DEF Outside, ThreadEnds, PollDrains, PollJoins, Stop, Follow, Tick, vars, link
    <3>. QED
      BY <1>0, <3>1, <3>3, <3>4, <3>5 DEF Promises
  <2>. QED
    BY <1>s, <2>1 DEF Promises
<1>1. CASE Begin
  <2>1. /\ Head(queue) = queue[1] /\ 1 \in 1..Len(queue) /\ queue' = Tail(queue)
        /\ Len(queue') = Len(queue) - 1
        /\ \A i \in 1..Len(queue') : queue'[i] = queue[i + 1] /\ i + 1 \in 1..Len(queue)
    BY <1>1, <1>t DEF Begin
  <2>2. job'.grants = queue[1].grants \/ job' = NoJob
    BY <1>1, <2>1 DEF Begin, Reply
  <2>3. attempt' = NoAttempt \/ attempt' = [NoAttempt EXCEPT !.reserve = InitialReserve]
    BY <1>1 DEF Begin, Reply
  <2>. QED
    BY <1>1, <1>0, <1>e, <1>f, <2>1, <2>2, <2>3 DEF Begin, owner
<1>2. CASE Plan
  <2>1. ASSUME NEW k \in Keys
        PROVE  Record(leases, job)[k] <= promised[k]
    <3>1. /\ leases[k] \in Nat /\ job.grants[k] \in Nat /\ promised[k] \in Nat
          /\ leases[k] <= promised[k] /\ job.grants[k] <= promised[k]
      BY <1>t, <1>0 DEF Book, Candidate
    <3>. QED
      BY <1>t, <3>1 DEF Record, Higher
  <2>2. /\ UNCHANGED <<leases, promised, queue>>
        /\ \/ UNCHANGED job /\ attempt'.leases = Record(leases, job)
           \/ job' = NoJob /\ attempt' = NoAttempt
    BY <1>2, <1>r DEF Plan, Goto, link
  <2>. QED
    BY <1>0, <1>e, <1>f, <2>1, <2>2
<1>3. CASE \/ Commit \/ Readback \/ StagingFails \/ StagingTimesOut \/ StagingEnds \/ Discard
           \/ Lock \/ CheckStaged \/ DropStaged \/ ActivateFails \/ RemovePrevious
           \/ RemovalFails \/ Check
  <2>1. UNCHANGED <<leases, promised, queue>>
    BY <1>3, <1>r
    DEF Commit, Readback, StagingFails, StagingTimesOut, StagingEnds, Discard, Lock,
        CheckStaged, DropStaged, ActivateFails, RemovePrevious, RemovalFails, Check,
        Goto, link, owner
  <2>2. UNCHANGED job \/ job' = NoJob
    BY <1>3, <1>r
    DEF Commit, Readback, StagingFails, StagingTimesOut, StagingEnds, Discard, Lock,
        CheckStaged, DropStaged, ActivateFails, RemovePrevious, RemovalFails, Check, Reply,
        thread
  <2>3. \/ UNCHANGED attempt \/ attempt' = NoAttempt
        \/ \E cap : attempt' = [NoAttempt EXCEPT !.reserve = cap]
    BY <1>3, <1>r
    DEF Commit, Readback, StagingFails, StagingTimesOut, StagingEnds, Discard, Lock,
        CheckStaged, DropStaged, ActivateFails, RemovePrevious, RemovalFails, Check, Reply,
        thread
  <2>. QED
    BY <1>0, <1>e, <1>f, <2>1, <2>2, <2>3
<1>4. CASE Activate
  BY <1>0, <1>4, <1>t DEF Activate, Goto, link, Attempt
<1>. QED
  BY <1>s, <1>1, <1>2, <1>3, <1>4 DEF Next, Thread, Outside

-----------------------------------------------------------------------------
(* The stages of an attempt. *)

\* The second alternative of Plan, for the grant that ends first.
Planned(k) ==
    LET reserve == Lower(Room(k), attempt.reserve)
        book    == Record(leases, job)
    IN  /\ \A j \in Granted(job) : job.grants[j] > now
        /\ First(k)
        /\ generation < Generations /\ generation' = generation + 1
        /\ attempt' = [generation |-> generation + 1, leases |-> book,
                       timeouts |-> Timeouts(book, now + reserve),
                       reserve |-> reserve, until |-> now + reserve]
        /\ pc' = IF attempt'.timeouts = Empty THEN "staged" ELSE "apply"
        /\ UNCHANGED <<now, job, sets, chain, owned, failed>>

\* A step within an attempt: of its record only the generation may change.
Going ==
    /\ pc \in Staging /\ UNCHANGED <<now, job>>
    /\ attempt'.leases = attempt.leases /\ attempt'.timeouts = attempt.timeouts
    /\ attempt'.reserve = attempt.reserve /\ attempt'.until = attempt.until

\* How a stage with sets in the kernel is reached: from outside, by a plan, or from the
\* stage before it.
LEMMA Stages ==
    ASSUME TypeOK, [Next]_vars, pc' \in Staging \cup {"remove"}
    PROVE  \/ Outside
           \/ pc = "plan" /\ \E k \in Keys : Planned(k)
           \/ Going
<1>r. ~Refuse /\ ~Poison /\ \A answer : ~Reply(answer)
  BY DEF Refuse, Poison, Reply, Staging
<1>t. attempt \in Attempt
  BY DEF TypeOK, Attempt, Book
<1>1. ~Begin /\ ~Discard /\ ~DropStaged /\ ~StagingFails /\ ~ActivateFails /\ ~RemovalFails
      /\ ~Check /\ ~RemovePrevious
  BY <1>r
  DEF Begin, Discard, DropStaged, StagingFails, ActivateFails, RemovalFails, Check,
      RemovePrevious, Goto, Staging
<1>2. CASE Plan
  BY <1>2, <1>r DEF Plan, Planned, Goto, kernel
<1>3. CASE Commit \/ Readback \/ StagingTimesOut \/ StagingEnds \/ Lock \/ CheckStaged
  BY <1>3, <1>r
  DEF Commit, Readback, StagingTimesOut, StagingEnds, Lock, CheckStaged, Going, Staging, thread
<1>4. CASE Activate
  BY <1>4, <1>t DEF Activate, Going, Staging, Attempt
<1>. QED
  BY <1>1, <1>2, <1>3, <1>4 DEF Next, Thread, Outside

\* The arithmetic of a plan: the reserve is at most half of what each grant has left.
LEMMA PlannedTimes ==
    ASSUME TypeOK, NEW k \in Keys, Planned(k)
    PROVE  /\ attempt' \in Attempt
           /\ attempt'.until = now + attempt'.reserve
           /\ \A j \in Keys : attempt'.timeouts[j] # 0 =>
                 attempt'.timeouts[j] + attempt'.until = attempt'.leases[j]
           /\ \A j \in Granted(job) :
                 /\ attempt'.timeouts[j] # 0 /\ job.grants[j] <= attempt'.leases[j]
                 /\ 2 * attempt'.reserve <= job.grants[j] - now
<1>. DEFINE reserve == Lower(Room(k), attempt.reserve)
            book    == Record(leases, job)
<1>t. /\ now \in Nat /\ job \in Candidate /\ attempt \in Attempt /\ leases \in Book
      /\ generation \in 0..Generations
  BY DEF TypeOK, Attempt, Book
<1>1. /\ attempt' = [generation |-> generation + 1, leases |-> book,
                     timeouts |-> Timeouts(book, now + reserve),
                     reserve |-> reserve, until |-> now + reserve]
      /\ generation + 1 \in 0..Generations
  BY <1>t, PermissionsAssumption DEF Planned
<1>2. reserve \in Nat /\ 2 * reserve <= job.grants[k] - now
  <2>1. job.grants[k] \in Nat /\ job.grants[k] > now /\ attempt.reserve \in Nat
    BY <1>t DEF Planned, First, Candidate, Attempt
  <2>2. Room(k) \in Nat /\ 2 * Room(k) <= job.grants[k] - now
    BY <1>t, <2>1 DEF Room
  <2>. QED
    BY <1>t, <2>1, <2>2 DEF Lower
<1>3. book \in Book /\ now + reserve \in Nat /\ Timeouts(book, now + reserve) \in Book
  BY <1>t, <1>2, BookType
<1>4. ASSUME NEW j \in Granted(job)
      PROVE  job.grants[j] <= book[j] /\ 2 * reserve <= job.grants[j] - now
  <2>1. /\ job.grants[j] > now /\ job.grants[k] <= job.grants[j] /\ j \in Keys
        /\ job.grants[j] \in Nat /\ job.grants[k] \in Nat /\ leases[j] \in Nat
    BY <1>t DEF Planned, First, Granted, Candidate, Book
  <2>2. job.grants[j] <= book[j]
    BY <1>t, <2>1 DEF Record, Higher
  <2>. HIDE DEF reserve, book
  <2>. QED
    BY <1>t, <1>2, <2>1, <2>2
<1>. HIDE DEF reserve, book
<1>5. \A j \in Keys : Timeouts(book, now + reserve)[j] # 0 =>
         Timeouts(book, now + reserve)[j] + (now + reserve) = book[j]
  BY <1>3 DEF Timeouts, Book
<1>6. ASSUME NEW j \in Granted(job)
      PROVE  Timeouts(book, now + reserve)[j] # 0
  <2>1. /\ j \in Keys /\ job.grants[j] > now /\ job.grants[j] \in Nat /\ book[j] \in Nat
    BY <1>t, <1>3 DEF Planned, Granted, Candidate, Book
  <2>2. book[j] > now + reserve
    BY <1>t, <1>2, <1>4, <2>1
  <2>. QED
    BY <1>3, <2>1, <2>2 DEF Timeouts
<1>7. attempt' \in Attempt
  BY <1>1, <1>2, <1>3 DEF Attempt
<1>. QED
  BY <1>1, <1>4, <1>5, <1>6, <1>7

\* The times of an attempt stay as they were planned.
LEMMA TimedStep ==
    ASSUME TypeOK, Timed, [Next]_vars
    PROVE  Timed'
<1>. SUFFICES ASSUME pc' \in Staging \cup {"remove"}
              PROVE  Timed'
  BY DEF Timed
<1>t. /\ now \in Nat /\ job \in Candidate /\ attempt \in Attempt
  BY DEF TypeOK, Attempt, Book
<1>1. CASE Outside
  <2>1. UNCHANGED <<pc, job, attempt>> /\ now' \in Nat /\ now <= now'
    BY <1>1, OutsideStep DEF thread
  <2>. QED
    BY <1>t, <2>1 DEF Timed, Granted, Attempt
<1>2. ASSUME NEW k \in Keys, Planned(k)
      PROVE  Timed'
  <2>1. UNCHANGED <<now, job>>
    BY <1>2 DEF Planned
  <2>2. attempt'.reserve \in Nat
    BY <1>2, PlannedTimes DEF Attempt
  <2>. QED
    BY <1>t, <1>2, <2>1, <2>2, PlannedTimes DEF Timed, Granted
<1>3. CASE Going
  BY <1>3 DEF Going, Timed, Granted
<1>. QED
  BY <1>1, <1>2, <1>3, Stages

-----------------------------------------------------------------------------
(* The elements of an attempt. *)

\* The elements of an attempt, from nft's first run to the activation.
LEMMA ElementsStep ==
    ASSUME TypeOK, Numbered, Timed, Elements, [Next]_vars
    PROVE  Elements'
<1>. SUFFICES ASSUME pc' \in Staging
              PROVE  Elements'
  BY DEF Elements
<1>t. /\ now \in Nat /\ attempt \in Attempt /\ sets \in [1..Generations -> Book]
      /\ generation \in 0..Generations /\ Generations \in Nat
  BY PermissionsAssumption DEF TypeOK, Attempt, Book
<1>s. pc \in Staging => /\ generation \in 1..Generations /\ attempt.generation = generation
                        /\ sets[generation] \in Book
  BY <1>t DEF Numbered
<1>f. /\ attempt.until \in Nat /\ attempt.reserve \in Nat
      /\ \A k \in Keys : attempt.timeouts[k] \in Nat /\ attempt.leases[k] \in Nat
  BY <1>t DEF Attempt, Book
<1>1. CASE Outside
  <2>1. UNCHANGED <<pc, job, attempt, sets, generation>> /\ now' \in Nat /\ now <= now'
    BY <1>1, OutsideStep DEF thread, owner, kernel
  <2>2. \A k \in Keys : sets[generation][k] \in Nat
    BY <1>s, <2>1 DEF Book
  <2>. QED
    BY <1>t, <1>f, <2>1, <2>2 DEF Elements
<1>2. ASSUME NEW k \in Keys, Planned(k)
      PROVE  Elements'
  <2>1. generation' \in 1..Generations /\ generation' > generation /\ UNCHANGED <<sets, now>>
    BY <1>2, <1>t DEF Planned
  <2>2. sets'[generation'] = Empty
    BY <2>1 DEF Numbered
  <2>3. /\ attempt' \in Attempt
        /\ pc' = IF attempt'.timeouts = Empty THEN "staged" ELSE "apply"
    BY <1>2, PlannedTimes DEF Planned
  <2>4. \A j \in Keys : /\ attempt'.timeouts[j] \in Nat /\ attempt'.leases[j] \in Nat
                        /\ sets'[generation'][j] = 0
    BY <2>2, <2>3, EmptyType DEF Attempt, Book
  <2>. QED
    BY <1>t, <2>1, <2>2, <2>3, <2>4 DEF Elements, InTime
<1>3. CASE Going
  <2>. USE <1>3 DEF Going
  <2>1. UNCHANGED generation
    BY DEF Next, Thread, Begin, Plan, Commit, Readback, StagingFails, StagingTimesOut,
       StagingEnds, Discard, Lock, CheckStaged, DropStaged, Activate, ActivateFails,
       RemovePrevious, RemovalFails, Check, ThreadEnds, ThreadPanics, Submit, PollDrains,
       PollJoins, Stop, Follow, Tick, owner, vars, Staging
  <2>2. CASE Commit
    <3>1. pc = "apply" /\ UNCHANGED <<pc, attempt, now>>
      BY <2>2 DEF Commit, thread
    <3>2. sets'[generation] = [k \in Keys |-> IF attempt.timeouts[k] = 0 THEN 0
                                              ELSE now + attempt.timeouts[k]]
      BY <2>2, <1>t, <1>s DEF Commit
    <3>3. \A k \in Keys : attempt.timeouts[k] # 0 =>
            now + attempt.timeouts[k] >= attempt.until - attempt.reserve + attempt.timeouts[k]
      BY <1>t, <1>f DEF Timed
    <3>. QED
      BY <1>t, <1>f, <2>1, <3>1, <3>2, <3>3 DEF Elements, InTime
  <2>3. CASE Readback
    <3>1. pc = "apply" /\ pc' \in {"idle", "verified"} /\ UNCHANGED <<sets, attempt>>
          /\ sets[generation] # Empty
      BY <2>3, <1>s DEF Readback, Goto, Poison, Reply, kernel, Staging
    <3>. QED
      BY <2>1, <3>1 DEF Elements, InTime, Staging
  <2>4. CASE StagingTimesOut
    BY <2>1, <2>4 DEF StagingTimesOut, Goto, Elements, InTime, kernel
  <2>5. CASE StagingEnds
    <3>1. /\ pc = "verified" /\ pc' = IF now > attempt.until THEN "discard" ELSE "staged"
          /\ UNCHANGED <<sets, attempt>>
      BY <2>5 DEF StagingEnds, Goto, kernel
    <3>2. \A k \in Keys : pc' = "staged" => sets[generation][k] <= attempt.leases[k]
      <4>1. SUFFICES ASSUME NEW k \in Keys, pc' = "staged"
                     PROVE  sets[generation][k] <= attempt.leases[k]
        OBVIOUS
      <4>2. now <= attempt.until /\ sets[generation][k] \in Nat
        BY <1>t, <1>f, <1>s, <3>1, <4>1 DEF Book
      <4>3. /\ attempt.timeouts[k] = 0 => sets[generation][k] = 0
            /\ sets[generation][k] <= now + attempt.timeouts[k]
            /\ attempt.timeouts[k] # 0 => attempt.timeouts[k] + attempt.until = attempt.leases[k]
        BY DEF Elements, Timed
      <4>. QED
        BY <1>t, <1>f, <4>2, <4>3
    <3>. QED
      BY <2>1, <3>1, <3>2 DEF Elements, InTime
  <2>6. CASE Lock \/ CheckStaged
    BY <2>1, <2>6 DEF Lock, CheckStaged, Goto, Elements, InTime, kernel
  <2>7. ~Begin /\ ~Plan /\ ~RemovePrevious /\ ~Check /\ ~Activate
    BY DEF Begin, Plan, RemovePrevious, Check, Activate, Goto, Staging
  <2>8. ~StagingFails /\ ~Discard /\ ~DropStaged /\ ~ActivateFails /\ ~RemovalFails
    BY DEF StagingFails, Discard, DropStaged, ActivateFails, RemovalFails, Refuse, Poison,
       Reply, Goto, Staging
  <2>. QED
    BY <1>1, <2>2, <2>3, <2>4, <2>5, <2>6, <2>7, <2>8 DEF Next, Thread, Outside
<1>. QED
  BY <1>1, <1>2, <1>3, Stages

-----------------------------------------------------------------------------
(* The owner knows the kernel. *)

\* An unusable owner starts nothing, and what activates was asked under the settings in
\* force: the lock keeps them.
LEMMA UsableStep ==
    ASSUME TypeOK, Usable, [Next]_vars
    PROVE  Usable'
<1>r. Refuse \/ Poison => pc' = "idle"
  BY DEF Refuse, Poison, Reply
<1>1. CASE Outside
  BY <1>1, OutsideStep DEF Usable, thread, owner, Holding
<1>2. CASE Begin
  BY <1>2 DEF Begin, Reply, Refusing, Usable, owner
<1>3. CASE CheckStaged
  BY <1>3 DEF CheckStaged, EnsureLive, Goto, Usable
<1>4. CASE ~Outside /\ ~Begin /\ ~CheckStaged
  <2>1. pc' # "activate" \/ UNCHANGED <<pc, job, settings>>
    BY <1>4, <1>r
    DEF Next, Thread, Outside, Plan, Commit, Readback, StagingFails, StagingTimesOut,
        StagingEnds, Discard, Lock, DropStaged, Activate, ActivateFails, RemovePrevious,
        RemovalFails, Check, Reply, Goto, thread
  <2>2. pc' = "idle" \/ (pc # "idle" /\ UNCHANGED failed)
    BY <1>4, <1>r
    DEF Next, Thread, Outside, Plan, Commit, Readback, StagingFails, StagingTimesOut,
        StagingEnds, Discard, Lock, DropStaged, Activate, ActivateFails, RemovePrevious,
        RemovalFails, Check, Reply, Goto, thread, owner
  <2>. QED
    BY <2>1, <2>2 DEF Usable
<1>. QED
  BY <1>1, <1>2, <1>3, <1>4

\* The owner knows which sets the kernel has, also after an attempt that failed, came late
\* or was dropped.
LEMMA KnownStep ==
    ASSUME TypeOK, Numbered, Elements, Known, KnownKernel, [Next]_vars
    PROVE  Known' /\ KnownKernel'
<1>t. /\ sets \in [1..Generations -> Book] /\ attempt \in Attempt /\ Generations \in Nat
      /\ generation \in 0..Generations /\ owned \in 0..Generations
  BY PermissionsAssumption DEF TypeOK, Attempt, Book
<1>u. TypeOK'
  BY TypeStep
<1>r. /\ Refuse => pc' = "idle" /\ UNCHANGED failed
      /\ Poison => failed'
  BY DEF Refuse, Poison, Reply
<1>1. CASE Outside
  BY <1>1, <1>u, OutsideStep DEF Known, KnownKernel, owner, kernel, thread
<1>2. CASE Begin \/ Check
  BY <1>2, <1>u DEF Begin, Check, Reply, Known, KnownKernel, owner, kernel, Staging
<1>3. CASE Plan
  <2>1. CASE pc' \in Staging
    <3>1. PICK k \in Keys : Planned(k)
      BY <1>3, <2>1, Stages, OutsideStep
      DEF Plan, Going, Staging, Refuse, Reply, Planned, Goto, kernel
    <3>. QED
      BY <1>3, <1>u, <2>1, <3>1 DEF Plan, Planned, Known, KnownKernel, Staging
  <2>2. CASE pc' \notin Staging
    <3>1. Refuse
      BY <1>3, <2>2 DEF Plan, Goto, Staging
    <3>2. pc = "plan" /\ pc' = "idle" /\ UNCHANGED <<failed, owned, sets, chain>>
      BY <1>3, <1>r, <3>1 DEF Plan, kernel
    <3>. QED
      BY <1>u, <3>2 DEF Known, KnownKernel, Staging
  <2>. QED
    BY <2>1, <2>2
<1>4. CASE Commit
  <2>1. /\ pc = "apply" /\ UNCHANGED <<owner, thread, chain>>
        /\ \A g \in 1..Generations : g # generation => sets'[g] = sets[g]
    BY <1>4, <1>t DEF Commit, Numbered, Staging
  <2>. QED
    BY <1>u, <2>1 DEF Known, KnownKernel, owner, thread, Staging
<1>5. CASE Readback \/ StagingTimesOut \/ StagingEnds \/ Lock \/ CheckStaged
  <2>1. UNCHANGED <<owned, generation, chain, sets>>
    BY <1>5 DEF Readback, StagingTimesOut, StagingEnds, Lock, CheckStaged, kernel
  <2>2. failed' \/ (UNCHANGED failed /\ pc \in Staging /\ pc' \in Staging)
    BY <1>5, <1>r
    DEF Readback, StagingTimesOut, StagingEnds, Lock, CheckStaged, Goto, Staging
  <2>. QED
    BY <1>u, <2>1, <2>2 DEF Known, KnownKernel, Staging
<1>6. CASE Discard \/ DropStaged
  <2>1. /\ pc \in Staging /\ UNCHANGED <<owned, generation, chain, failed>>
        /\ pc' \in {"idle", "plan"}
    BY <1>6, <1>r DEF Discard, DropStaged, Goto, Staging
  <2>2. \A g \in 1..Generations : sets'[g] = IF g = generation THEN Empty ELSE sets[g]
    BY <1>6, <1>t, <2>1 DEF Discard, DropStaged, Numbered
  <2>3. owned # generation
    BY <2>1 DEF Numbered
  <2>. QED
    BY <1>u, <2>1, <2>2, <2>3 DEF Known, KnownKernel, Staging
<1>7. CASE Activate
  <2>1. /\ pc = "activate" /\ pc' = "remove" /\ UNCHANGED <<sets, failed, generation>>
        /\ chain' = Exposed /\ owned' = Exposed /\ attempt'.generation = owned
    BY <1>7, <1>t DEF Activate, Goto, Attempt
  <2>2. /\ Exposed \in {0, generation} /\ owned # generation /\ generation \in 1..Generations
        /\ Exposed = generation <=> attempt.timeouts # Empty
    BY <1>t, <2>1 DEF Exposed, Numbered, Staging
  <2>3. sets[generation] # Empty <=> Exposed = generation
    BY <2>1, <2>2 DEF Elements, InTime, Staging
  <2>4. ~failed => \A g \in 1..Generations : g # generation => (sets[g] # Empty <=> g = owned)
    BY <2>1 DEF Known, Staging
  <2>5. Known'
    BY <2>1, <2>2, <2>3, <2>4 DEF Known, Staging
  <2>. QED
    BY <1>u, <2>1, <2>5 DEF KnownKernel
<1>8. CASE RemovePrevious
  <2>1. /\ pc = "remove" /\ pc' = "check" /\ UNCHANGED <<failed, chain, owned>>
        /\ \A g \in 1..Generations : sets'[g] = IF g = attempt.generation THEN Empty ELSE sets[g]
    BY <1>8 DEF RemovePrevious, Goto
  <2>. QED
    BY <1>t, <1>u, <2>1 DEF Known, KnownKernel, Staging
<1>9. CASE StagingFails \/ ActivateFails \/ RemovalFails
  BY <1>9, <1>r, <1>u DEF StagingFails, ActivateFails, RemovalFails, Known, KnownKernel
<1>. QED
  BY <1>1, <1>2, <1>3, <1>4, <1>5, <1>6, <1>7, <1>8, <1>9 DEF Next, Thread, Outside

-----------------------------------------------------------------------------
(* What is in force. *)

\* Only an activation changes what the chain points at.
LEMMA ChainSteps ==
    ASSUME [Next]_vars
    PROVE  chain' = chain \/ Activate \/ ActivateFails
  BY DEF Next, Thread, Begin, Plan, Commit, Readback, StagingFails, StagingTimesOut, StagingEnds,
     Discard, Lock, CheckStaged, DropStaged, RemovePrevious, RemovalFails, Check, ThreadEnds,
     ThreadPanics, Submit, PollDrains, PollJoins, Stop, Follow, Tick, kernel, vars

\* The runs of nft that add or remove sets.
LEMMA SetsSteps ==
    ASSUME [Next]_vars
    PROVE  sets' = sets \/ Commit \/ Discard \/ DropStaged \/ RemovePrevious \/ RemovalFails
  BY DEF Next, Thread, Begin, Plan, Readback, StagingFails, StagingTimesOut, StagingEnds,
     Lock, CheckStaged, Activate, ActivateFails, Check, ThreadEnds,
     ThreadPanics, Submit, PollDrains, PollJoins, Stop, Follow, Tick, kernel, vars

\* Once activated, the granted addresses are in force until the result is sent.
LEMMA InForceStep ==
    ASSUME TypeOK, Numbered, Timed, Elements, Known, Usable, InForce, [Next]_vars
    PROVE  InForce'
<1>t. /\ sets \in [1..Generations -> Book] /\ attempt \in Attempt /\ job \in Candidate
      /\ generation \in 0..Generations /\ chain \in 0..Generations
      /\ now \in Nat /\ Generations \in Nat
  BY PermissionsAssumption DEF TypeOK, Attempt, Book
<1>1. CASE Outside
  BY <1>1, OutsideStep DEF InForce, Granted, kernel, thread
<1>2. CASE Begin
  BY <1>2 DEF Begin, Reply, InForce, Granted
<1>3. CASE Activate
  <2>1. /\ pc = "activate" /\ UNCHANGED <<sets, job>> /\ chain' = Exposed
        /\ attempt'.reserve = attempt.reserve /\ attempt'.until = attempt.until
    BY <1>3, <1>t DEF Activate, Attempt
  <2>2. ASSUME NEW k \in Granted(job)
        PROVE  /\ Exposed # 0
               /\ sets[Exposed][k] >= job.grants[k] - attempt.reserve
               /\ 2 * attempt.reserve <= job.grants[k] - (attempt.until - attempt.reserve)
    <3>1. /\ k \in Keys /\ attempt.timeouts[k] # 0 /\ job.grants[k] <= attempt.leases[k]
          /\ attempt.timeouts[k] + attempt.until = attempt.leases[k]
          /\ 2 * attempt.reserve <= job.grants[k] - (attempt.until - attempt.reserve)
      BY <2>1 DEF Timed, Granted, Staging
    <3>2. attempt.timeouts # Empty
      BY <3>1, EmptyType
    <3>3. /\ Exposed = generation /\ generation \in 1..Generations
          /\ sets[generation] # Empty
      BY <1>t, <2>1, <3>2 DEF Exposed, Numbered, Elements, Staging, InTime
    <3>4. sets[generation][k] >= attempt.until - attempt.reserve + attempt.timeouts[k]
      BY <2>1, <3>1, <3>3 DEF Elements, Staging
    <3>5. /\ sets[generation][k] \in Nat /\ attempt.until \in Nat /\ attempt.reserve \in Nat
          /\ attempt.timeouts[k] \in Nat /\ attempt.leases[k] \in Nat /\ job.grants[k] \in Nat
      BY <1>t, <3>1, <3>3 DEF Book, Attempt, Candidate
    <3>. QED
      BY <3>1, <3>3, <3>4, <3>5
  <2>. QED
    BY <2>1, <2>2 DEF InForce, Granted
<1>4. CASE RemovePrevious
  <2>1. /\ pc = "remove" /\ UNCHANGED <<chain, job, attempt>>
        /\ \A g \in 1..Generations : g # attempt.generation => sets'[g] = sets[g]
    BY <1>4 DEF RemovePrevious
  <2>2. chain # 0 => chain # attempt.generation
    BY <2>1 DEF Known, Usable
  <2>3. chain # 0 => sets'[chain] = sets[chain]
    BY <1>t, <2>1, <2>2
  <2>. QED
    BY <2>1, <2>3 DEF InForce, Granted
<1>5. CASE \/ Plan \/ Commit \/ Readback \/ StagingFails \/ StagingTimesOut \/ StagingEnds
           \/ Discard \/ Lock \/ CheckStaged \/ DropStaged \/ ActivateFails \/ RemovalFails
           \/ Check
  <2>1. pc' \notin {"remove", "check"}
    BY <1>5
    DEF Plan, Commit, Readback, StagingFails, StagingTimesOut, StagingEnds, Discard, Lock,
        CheckStaged, DropStaged, ActivateFails, RemovalFails, Check, Refuse, Poison, Reply,
        Goto, thread
  <2>. QED
    BY <2>1 DEF InForce
<1>. QED
  BY <1>1, <1>2, <1>3, <1>4, <1>5 DEF Next, Thread, Outside

\* No element in force outlives what was promised.
LEMMA OverstayStep ==
    ASSUME TypeOK, Numbered, Promises, Elements, NoOverstay, [Next]_vars
    PROVE  NoOverstay'
<1>t. /\ sets \in [1..Generations -> Book] /\ chain \in 0..Generations /\ promised \in Book
      /\ generation \in 0..Generations /\ attempt \in Attempt /\ Generations \in Nat
  BY PermissionsAssumption DEF TypeOK, Attempt, Book
<1>1. CASE Activate \/ ActivateFails
  <2>1. /\ pc = "activate" /\ UNCHANGED <<sets, promised>> /\ chain' \in {chain, Exposed}
    BY <1>1 DEF Activate, ActivateFails
  <2>2. ASSUME NEW k \in Keys, Exposed # 0
        PROVE  sets[Exposed][k] <= promised[k]
    <3>1. Exposed = generation /\ generation \in 1..Generations
      BY <1>t, <2>1, <2>2 DEF Exposed, Numbered, Staging
    <3>2. sets[generation][k] <= attempt.leases[k] /\ attempt.leases[k] <= promised[k]
      BY <2>1 DEF Elements, Promises, Staging, InTime
    <3>3. /\ sets[generation][k] \in Nat /\ attempt.leases[k] \in Nat /\ promised[k] \in Nat
      BY <1>t, <3>1 DEF Book, Attempt
    <3>. QED
      BY <3>1, <3>2, <3>3
  <2>. QED
    BY <2>1, <2>2 DEF NoOverstay
<1>2. CASE Outside
  <2>1. UNCHANGED <<sets, chain>> /\ \A k \in Keys : promised[k] <= promised'[k]
    BY <1>2, OutsideStep DEF kernel
  <2>2. \A k \in Keys : /\ promised[k] \in Nat /\ promised'[k] \in Nat
                        /\ chain # 0 => sets[chain][k] \in Nat
    <3>1. promised' \in Book
      BY TypeStep DEF Book, TypeOK
    <3>2. chain # 0 => sets[chain] \in Book
      BY <1>t
    <3>. QED
      BY <1>t, <3>1, <3>2 DEF Book
  <2>. QED
    BY <2>1, <2>2 DEF NoOverstay
<1>3. CASE ~Activate /\ ~ActivateFails /\ ~Outside
  <2>1. UNCHANGED <<chain, promised>>
    BY <1>3, ChainSteps
    DEF Next, Thread, Outside, Begin, Plan, Commit, Readback, StagingFails, StagingTimesOut,
        StagingEnds, Discard, Lock, CheckStaged, DropStaged, RemovePrevious, RemovalFails, Check
  <2>2. chain # 0 => sets'[chain] = sets[chain] \/ sets'[chain] = Empty
    <3>1. CASE Commit
      <4>1. attempt.generation # chain
        BY <3>1 DEF Commit, Numbered, Staging
      <4>. QED
        BY <1>t, <3>1, <4>1 DEF Commit
    <3>2. CASE Discard \/ DropStaged \/ RemovalFails
      BY <1>t, <3>2 DEF Discard, DropStaged, RemovalFails
    <3>3. CASE RemovePrevious
      BY <1>t, <3>3 DEF RemovePrevious
    <3>. QED
      BY <3>1, <3>2, <3>3, SetsSteps
  <2>3. \A k \in Keys : promised[k] \in Nat
    BY <1>t DEF Book
  <2>. QED
    BY <2>1, <2>2, <2>3, EmptyType DEF NoOverstay
<1>. QED
  BY <1>1, <1>2, <1>3

-----------------------------------------------------------------------------
(* The theorems. *)

\* A new owner, with an empty kernel and no work, satisfies the invariant.
LEMMA InitIInv == Init => IInv
<1>. SUFFICES ASSUME Init PROVE IInv
  OBVIOUS
<1>1. TypeOK
  <2>1. <<>> \in Seq(Candidate) /\ <<>> \in Seq(Results)
    OBVIOUS
  <2>2. OwnerOK /\ KernelOK
    <3>1. 0 \in 0..Generations
      BY PermissionsAssumption
    <3>2. [g \in 1..Generations |-> Empty] \in [1..Generations -> Book]
      BY EmptyType
    <3>. QED
      BY <3>1, <3>2, EmptyType DEF Init, OwnerOK, KernelOK
  <2>3. ThreadOK
    BY NothingType DEF Init, ThreadOK
  <2>4. LinkOK
    <3>1. faulted \in BOOLEAN /\ stopped \in BOOLEAN
      BY DEF Init
    <3>2. queue = <<>> /\ results = <<>> /\ outstanding = 0 /\ handle = "live"
      BY DEF Init
    <3>. QED
      BY <2>1, <3>1, <3>2 DEF LinkOK
  <2>5. TimesOK
    BY EmptyType DEF Init, TimesOK
  <2>. QED
    BY <2>2, <2>3, <2>4, <2>5, TypeParts
<1>2. Numbered /\ Known /\ NoOverstay
  BY <1>1, PermissionsAssumption DEF Init, Numbered, Known, NoOverstay, Staging
<1>3. KnownKernel
  BY <1>1 DEF Init, KnownKernel
<1>4. Promises
  <2>1. /\ leases = Empty /\ job.grants = Empty /\ attempt.leases = Empty /\ promised = Empty
        /\ Len(queue) = 0
    BY DEF Init, NoJob, NoAttempt
  <2>2. 1..Len(queue) = {}
    BY <2>1
  <2>3. \A k \in Keys : Empty[k] <= Empty[k]
    BY DEF Empty
  <2>. QED
    BY <2>1, <2>2, <2>3 DEF Promises
<1>5. Timed /\ Elements /\ Usable /\ InForce
  BY DEF Init, Timed, Elements, Usable, InForce, Staging
<1>. QED
  BY <1>1, <1>2, <1>3, <1>4, <1>5 DEF IInv

\* All of the above hold in every reachable state, for any constants.
THEOREM PermissionsInvariant == Spec => []IInv
<1>1. IInv /\ [Next]_vars => IInv'
  BY TypeStep, NumberedStep, PromisesStep, TimedStep, ElementsStep, KnownStep, UsableStep,
     InForceStep, OverstayStep DEF IInv
<1>. QED
  BY <1>1, InitIInv, PTL DEF Spec

\* No permission in force outlives the answer that gave it: the staging, its retries, the
\* renewal of old leases and the activation (dynamic.rs, leases.rs) for any number of keys.
THEOREM PermissionsNeverOverstay == Spec => []NoOverstay
<1>1. IInv => NoOverstay
  BY DEF IInv
<1>. QED
  BY <1>1, PermissionsInvariant, PTL

\* A usable owner knows the kernel between two updates: every late, dropped or replaced
\* attempt was removed, whatever nft runs failed (dynamic.rs: discard_sets, remove_sets).
THEOREM OwnerKnowsKernel == Spec => []KnownKernel
<1>1. IInv => KnownKernel
  BY DEF IInv
<1>. QED
  BY <1>1, PermissionsInvariant, PTL

\* Permissions come into force only under the settings of their question, and an answer is
\* delivered only with all of its permissions in force (prepared.rs: ensure_live, adopt).
THEOREM AnswersInForce == Spec => AnswerInForce
<1>. DEFINE Deliver ==
       /\ chain' # chain => job.settings = settings
       /\ results' = Append(results, "ok") =>
            \A k \in Granted(job) :
               /\ chain # 0
               /\ sets[chain][k] >= job.grants[k] - attempt.reserve
               /\ 2 * attempt.reserve <= job.grants[k] - (attempt.until - attempt.reserve)
<1>1. ASSUME IInv, [Next]_vars
      PROVE  Deliver
  <2>1. chain' # chain => job.settings = settings
    BY <1>1, ChainSteps DEF Activate, ActivateFails, IInv, Usable
  <2>2. ASSUME results' = Append(results, "ok")
        PROVE  pc = "check"
    <3>1. results \in Seq(Results)
      BY <1>1 DEF IInv, TypeOK, Results
    <3>2. results' # results /\ results' # <<>>
      BY <2>2, <3>1
    <3>3. \A answer : results' = Append(results, answer) => answer = "ok"
      BY <2>2, <3>1
    <3>4. ~Refuse /\ ~Poison /\ ~Reply("query") /\ ~Reply("enforcement")
      BY <3>3 DEF Refuse, Poison, Reply
    <3>5. ~Begin
      BY <3>2, <3>4 DEF Begin
    <3>6. \A p : ~Goto(p)
      BY <3>2 DEF Goto, link
    <3>7. ~Outside
      BY <3>2
      DEF Outside, ThreadEnds, ThreadPanics, Submit, PollDrains, PollJoins, Stop, Follow, Tick,
          link, vars
    <3>8. ~Commit
      BY <3>2 DEF Commit, link
    <3>. QED
      BY <1>1, <3>4, <3>5, <3>6, <3>7, <3>8
      DEF Next, Thread, Outside, Plan, Readback, StagingFails, StagingTimesOut, StagingEnds,
          Discard, Lock, CheckStaged, DropStaged, Activate, ActivateFails, RemovePrevious,
          RemovalFails, Check
  <2>3. pc = "check" =>
          \A k \in Granted(job) :
             /\ chain # 0
             /\ sets[chain][k] >= job.grants[k] - attempt.reserve
             /\ 2 * attempt.reserve <= job.grants[k] - (attempt.until - attempt.reserve)
    BY <1>1 DEF IInv, InForce
  <2>. QED
    BY <2>1, <2>2, <2>3
<1>2. IInv /\ [Next]_vars => [Deliver]_vars
  BY <1>1
<1>. QED
  BY <1>2, PermissionsInvariant, PTL DEF AnswerInForce, Spec

\* The channel of results has room for every completion (dns_adoption.rs: outstanding): the
\* safety part of WorkEnds, for any capacity.
THEOREM ResultsHaveRoom == Spec => []RoomForResults
<1>. DEFINE Inv == TypeOK /\ RoomForResults
<1>1. Init => Inv
  BY InitIInv, PermissionsAssumption DEF IInv, Init, RoomForResults
<1>2. ASSUME Inv, [Next]_vars
      PROVE  Inv'
  <2>t. /\ queue \in Seq(Candidate) /\ results \in Seq(Results) /\ outstanding \in Int
        /\ Limit \in Nat
    BY <1>2, PermissionsAssumption DEF TypeOK, Results
  <2>u. TypeOK'
    BY <1>2, TypeStep
  <2>l. Len(queue) \in Nat /\ Len(results) \in Nat
    BY <2>t
  <2>r. Refuse \/ Poison => /\ Len(results') = Len(results) + 1 /\ pc' = "idle"
                            /\ UNCHANGED <<queue, outstanding, handle>>
    BY <2>t DEF Refuse, Poison, Reply
  <2>1. CASE handle' # "live"
    BY <2>1, <2>u DEF RoomForResults
  <2>2. CASE Begin
    <3>1. Len(queue') = Len(queue) - 1
      BY <2>2, <2>t DEF Begin
    <3>2. \/ UNCHANGED results /\ pc' # "idle"
          \/ Len(results') = Len(results) + 1 /\ pc' = "idle"
      BY <2>2, <2>t DEF Begin, Reply
    <3>3. UNCHANGED <<outstanding, handle>> /\ pc = "idle" /\ handle = "live"
      BY <2>2 DEF Begin, Reply
    <3>. QED
      BY <1>2, <2>l, <2>t, <2>u, <3>1, <3>2, <3>3 DEF RoomForResults
  <2>3. CASE Check
    <3>1. /\ Len(results') = Len(results) + 1 /\ pc' = "idle" /\ pc = "check"
          /\ UNCHANGED <<queue, outstanding, handle>>
      BY <2>3, <2>t DEF Check, Reply
    <3>. QED
      BY <1>2, <2>l, <2>t, <2>u, <3>1 DEF RoomForResults
  <2>4. CASE \/ Plan \/ Commit \/ Readback \/ StagingFails \/ StagingTimesOut \/ StagingEnds
             \/ Discard \/ Lock \/ CheckStaged \/ DropStaged \/ Activate \/ ActivateFails
             \/ RemovePrevious \/ RemovalFails
    <3>1. pc # "idle" /\ handle = "live"
      BY <2>4
      DEF Plan, Commit, Readback, StagingFails, StagingTimesOut, StagingEnds, Discard, Lock,
          CheckStaged, DropStaged, Activate, ActivateFails, RemovePrevious, RemovalFails
    <3>2. \/ Refuse \/ Poison
          \/ pc' # "idle" /\ UNCHANGED link
      BY <2>4
      DEF Plan, Commit, Readback, StagingFails, StagingTimesOut, StagingEnds, Discard, Lock,
          CheckStaged, DropStaged, Activate, ActivateFails, RemovePrevious, RemovalFails,
          Goto, thread
    <3>. QED
      BY <1>2, <2>l, <2>t, <2>r, <2>u, <3>1, <3>2 DEF RoomForResults, link
  <2>5. ASSUME NEW grants \in Grants, Submit(grants), handle' = "live"
        PROVE  Inv'
    <3>1. /\ Len(queue') = Len(queue) + 1 /\ outstanding' = outstanding + 1
          /\ outstanding # Limit /\ handle = "live" /\ UNCHANGED <<results, pc>>
      BY <2>5, <2>t DEF Submit, Full, thread
    <3>. QED
      BY <1>2, <2>l, <2>t, <2>u, <3>1 DEF RoomForResults
  <2>6. CASE PollDrains
    <3>1. /\ Len(results') = 0 /\ outstanding' = outstanding - Len(results)
          /\ UNCHANGED <<queue, pc, handle>>
      BY <2>6 DEF PollDrains, thread
    <3>. QED
      BY <1>2, <2>l, <2>t, <2>u, <3>1 DEF RoomForResults
  <2>7. CASE Stop \/ Follow \/ Tick \/ UNCHANGED vars
    <3>1. UNCHANGED <<queue, results, pc, outstanding, handle>>
      BY <2>7 DEF Stop, Follow, Tick, vars, thread, link
    <3>. QED
      BY <1>2, <2>u, <3>1 DEF RoomForResults
  <2>8. CASE ThreadEnds \/ ThreadPanics \/ PollJoins
    BY <2>1, <2>8 DEF ThreadEnds, ThreadPanics, PollJoins, Joined
  <2>. QED
    BY <1>2, <2>1, <2>2, <2>3, <2>4, <2>5, <2>6, <2>7, <2>8 DEF Next, Thread
<1>. QED
  BY <1>1, <1>2, PTL DEF Spec

=============================================================================
