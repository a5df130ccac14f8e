--------------------------- MODULE DnsPermissions ---------------------------
(***************************************************************************)
(* The DNS permission thread (crates/kakoi-net/src/dns_adoption.rs), the   *)
(* adoption of one screened answer (dns/prepared.rs) and the two-phase     *)
(* update of the kernel's permissions (dynamic.rs, leases.rs).             *)
(*                                                                         *)
(* The thread takes answers from a bounded queue, stages their addresses   *)
(* in sets that no rule uses, with timeouts relative to a moment by which  *)
(* the staging must have ended, and then exposes the sets in one           *)
(* transaction under the activation lock.  The controller submits, polls,  *)
(* stops, and replaces the settings while it holds the same lock.          *)
(*                                                                         *)
(* A key is a rule with an address.  An element, a lease and a grant are   *)
(* the time at which they end, 0 when there is none.                       *)
(***************************************************************************)
EXTENDS Integers, Sequences

CONSTANTS
    Keys,               \* the (rule, address) pairs
    Ttls,               \* the lifetimes an answer may have
    ResolutionTimeout,  \* the time a resolution is given
    InitialReserve,     \* INITIAL_RESERVE
    Generations,        \* where u64 set generations end
    Settings,           \* the number of settings the controller may go through
    Limit,              \* the adoption capacity
    MaxTime,            \* where the clock stops
    NftFails,           \* whether an nft run may fail
    Panics              \* whether the thread may panic

ASSUME PermissionsAssumption ==
    /\ Ttls \subseteq Nat \ {0}
    /\ {ResolutionTimeout, InitialReserve, Generations, Limit, MaxTime} \subseteq Nat
    /\ {NftFails, Panics} \subseteq BOOLEAN

VARIABLES
    now,
    leases,         \* DynamicPermissions.leases
    owned,          \* DynamicPermissions.sets: the generation of the exposed sets
    generation,     \* DynamicPermissions.generation
    failed,         \* DynamicPermissions.failed
    sets,           \* the kernel's sets: the end of each element of each generation
    chain,          \* the generation whose sets the chain dns_permitted refers to
    pc,             \* what the permission thread is doing
    job,            \* the candidate it is adopting
    attempt,        \* its Attempt, with the reserve and the end of the staging
    queue,          \* candidates sent to the thread
    results,        \* completions not yet received
    outstanding,    \* DnsAdoption.outstanding
    faulted,        \* DnsAdoption.faulted
    stopped,        \* cancellation requested and the sender dropped
    handle,         \* the thread: "live", "ended" or "panicked"; joined: "joined" or "lost"
    settings,       \* the settings in force; older candidates are cancelled
    promised        \* history: the latest end any answer has promised a key

owner  == <<leases, owned, generation, failed>>
kernel == <<sets, chain>>
thread == <<pc, job, attempt>>
link   == <<queue, results, outstanding, faulted, stopped, handle>>
vars   == <<now, owner, kernel, thread, link, settings, promised>>

Lower(a, b)  == IF a < b THEN a ELSE b
Higher(a, b) == IF a < b THEN b ELSE a

Empty   == [k \in Keys |-> 0]
NoJob   == [grants |-> Empty, deadline |-> 0, settings |-> 0]
NoAttempt ==
    [generation |-> 0, leases |-> Empty, timeouts |-> Empty, reserve |-> 0, until |-> 0]

Granted(c) == {k \in Keys : c.grants[k] # 0}

\* PreparedAnswer::ensure_live: neither stopped, late, expired nor of old settings.
EnsureLive(c) ==
    /\ ~stopped
    /\ now < c.deadline
    /\ \A k \in Granted(c) : now < c.grants[k]
    /\ c.settings = settings

Init ==
    /\ now = 0
    /\ leases = Empty /\ owned = 0 /\ generation = 0 /\ failed = FALSE
    /\ sets = [g \in 1..Generations |-> Empty] /\ chain = 0
    /\ pc = "idle" /\ job = NoJob /\ attempt = NoAttempt
    /\ queue = <<>> /\ results = <<>> /\ outstanding = 0
    /\ faulted = FALSE /\ stopped = FALSE /\ handle = "live"
    /\ settings = 0
    /\ promised = Empty

-----------------------------------------------------------------------------
(* The permission thread. *)

\* The completion of the candidate, and the fault it leaves for the next ones.
Reply(answer) ==
    /\ results' = Append(results, answer)
    /\ faulted' = (faulted \/ answer = "enforcement")
    /\ pc' = "idle" /\ job' = NoJob /\ attempt' = NoAttempt
    /\ UNCHANGED <<outstanding, stopped, handle>>

\* adopt_controlled hides an enforcement error that left the owner usable.
Refuse == Reply("query") /\ UNCHANGED <<queue, failed>>
Poison == Reply("enforcement") /\ failed' = TRUE /\ UNCHANGED queue

Goto(p) == pc' = p /\ UNCHANGED <<link, failed>>

\* The thread answers nothing after an enforcement error, nor does the owner.
Refusing == faulted \/ failed

Begin ==
    /\ handle = "live" /\ pc = "idle" /\ queue # <<>>
    /\ LET c == Head(queue) IN
       /\ queue' = Tail(queue)
       /\ \/ Refusing /\ Reply("enforcement")
          \/ ~Refusing /\ ~EnsureLive(c) /\ Reply("query")
          \/ /\ ~Refusing /\ EnsureLive(c)
             /\ job' = c
             /\ pc' = IF Granted(c) = {} THEN "check" ELSE "plan"
             /\ attempt' = [NoAttempt EXCEPT !.reserve = InitialReserve]
             /\ UNCHANGED <<results, outstanding, faulted, stopped, handle>>
    /\ UNCHANGED <<now, owner, kernel, settings, promised>>

\* DynamicPermissions::room when k is the grant that ends first.
First(k) == k \in Granted(job) /\ \A j \in Granted(job) : job.grants[k] <= job.grants[j]
Room(k)  == (job.grants[k] - now) \div 2

\* LeaseBook::record of every grant: drop what has expired, keep the later end.
Record(book, c) ==
    [k \in Keys |-> LET old == IF book[k] > now THEN book[k] ELSE 0 IN
        IF c.grants[k] > now THEN Higher(old, c.grants[k]) ELSE old]

\* The relative timeout of each element: what is left of its lease after the staging.
\* A lease that ends within the staging has no element.
Timeouts(book, until) ==
    [k \in Keys |-> IF book[k] > until THEN book[k] - until ELSE 0]

\* One turn of the loop of stage: an expired grant or an exhausted generation is an
\* error that does not poison the owner.  attempt.reserve holds the cap.
Plan ==
    /\ pc = "plan" /\ handle = "live"
    /\ \/ /\ (\E k \in Granted(job) : job.grants[k] <= now) \/ generation = Generations
          /\ Refuse /\ UNCHANGED generation
       \/ /\ \A k \in Granted(job) : job.grants[k] > now
          /\ generation < Generations
          /\ generation' = generation + 1
          /\ \E k \in Keys : First(k) /\
             LET reserve == Lower(Room(k), attempt.reserve)
                 book    == Record(leases, job) IN
             /\ attempt' = [generation |-> generation + 1, leases |-> book,
                            timeouts |-> Timeouts(book, now + reserve),
                            reserve |-> reserve, until |-> now + reserve]
             /\ Goto(IF Timeouts(book, now + reserve) = Empty THEN "staged" ELSE "apply")
             /\ UNCHANGED job
    /\ UNCHANGED <<now, leases, owned, kernel, settings, promised>>

\* nft commits the staging transaction: every timeout starts to run now.
Commit ==
    /\ pc = "apply" /\ handle = "live" /\ sets[attempt.generation] = Empty
    /\ sets' = [sets EXCEPT ![attempt.generation] =
                  [k \in Keys |-> IF attempt.timeouts[k] = 0 THEN 0
                                  ELSE now + attempt.timeouts[k]]]
    /\ UNCHANGED <<now, owner, chain, thread, link, settings, promised>>

\* An element is in the readback until it expires.
Lapsed(k) == attempt.timeouts[k] # 0 /\ sets[attempt.generation][k] <= now

\* The transaction was acknowledged, and nft::inspect returned the sets.
Readback ==
    /\ pc = "apply" /\ handle = "live" /\ sets[attempt.generation] # Empty
    /\ \/ (\E k \in Keys : Lapsed(k)) /\ Poison
       \/ (\A k \in Keys : ~Lapsed(k)) /\ Goto("verified") /\ UNCHANGED <<job, attempt>>
    /\ UNCHANGED <<now, leases, owned, generation, kernel, settings, promised>>

\* An nft run of the staging failed for another reason than its deadline.
StagingFails ==
    /\ NftFails /\ pc = "apply" /\ handle = "live" /\ Poison
    /\ UNCHANGED <<now, leases, owned, generation, kernel, settings, promised>>

\* A run of nft met the deadline of the staging, and was killed.
StagingTimesOut ==
    /\ pc = "apply" /\ handle = "live" /\ now >= attempt.until
    /\ Goto("discard")
    /\ UNCHANGED <<now, leases, owned, generation, kernel, job, attempt, settings, promised>>

StagingEndsUnchecked ==
    /\ pc = "verified" /\ handle = "live"
    /\ Goto("staged")
    /\ UNCHANGED <<now, leases, owned, generation, kernel, job, attempt, settings, promised>>

\* The last look at the clock: a staging that ended late is discarded.
StagingEnds ==
    /\ pc = "verified" /\ handle = "live"
    /\ Goto(IF now > attempt.until THEN "discard" ELSE "staged")
    /\ UNCHANGED <<now, leases, owned, generation, kernel, job, attempt, settings, promised>>

\* next_reserve, 0 for None: another attempt only helps with a longer reserve.
NextReserve(late, room) == IF room > late THEN Lower(2 * late, room) ELSE 0

\* discard_sets and the next turn of the loop.
Discard ==
    /\ pc = "discard" /\ handle = "live"
    /\ sets' = [sets EXCEPT ![attempt.generation] = Empty]
    /\ \E k \in Keys : First(k) /\
       LET cap == NextReserve(attempt.reserve, IF job.grants[k] > now THEN Room(k) ELSE 0) IN
       IF cap = 0
       THEN Refuse
       ELSE /\ Goto("plan")
            /\ attempt' = [NoAttempt EXCEPT !.reserve = cap]
            /\ UNCHANGED job
    /\ UNCHANGED <<now, leases, owned, generation, chain, settings, promised>>

\* The controller shares the lock only within DnsRuntime::follow.
Holding == pc \in {"locked", "activate", "remove"}

Lock ==
    /\ pc = "staged" /\ handle = "live"
    /\ Goto("locked")
    /\ UNCHANGED <<now, leases, owned, generation, kernel, job, attempt, settings, promised>>

CheckStaged ==
    /\ pc = "locked" /\ handle = "live"
    /\ Goto(IF EnsureLive(job) THEN "activate" ELSE "drop")
    /\ UNCHANGED <<now, leases, owned, generation, kernel, job, attempt, settings, promised>>

\* PreparedGrants::drop of a staging that was not activated.
DropStaged ==
    /\ pc = "drop" /\ handle = "live"
    /\ sets' = [sets EXCEPT ![attempt.generation] = Empty]
    /\ Refuse
    /\ UNCHANGED <<now, leases, owned, generation, chain, settings, promised>>

\* The generation that the chain refers to after the transaction: none without sets.
Exposed == IF attempt.timeouts = Empty THEN 0 ELSE attempt.generation

Activate ==
    /\ pc = "activate" /\ handle = "live"
    /\ chain' = Exposed
    /\ leases' = attempt.leases
    /\ attempt' = [attempt EXCEPT !.generation = owned]     \* what is left to remove
    /\ owned' = Exposed
    /\ Goto("remove")
    /\ UNCHANGED <<now, generation, sets, job, settings, promised>>

ActivateFailsQuietly ==
    /\ NftFails /\ pc = "activate" /\ handle = "live"
    /\ chain' \in {chain, Exposed}
    /\ Refuse
    /\ UNCHANGED <<now, leases, owned, generation, sets, settings, promised>>

\* The transaction failed, or its acknowledgement was lost.
ActivateFails ==
    /\ NftFails /\ pc = "activate" /\ handle = "live"
    /\ chain' \in {chain, Exposed}
    /\ Poison
    /\ UNCHANGED <<now, leases, owned, generation, sets, settings, promised>>

\* remove_sets of the sets that the activation replaced.
RemovePrevious ==
    /\ pc = "remove" /\ handle = "live"
    /\ sets' = [g \in 1..Generations |-> IF g = attempt.generation THEN Empty ELSE sets[g]]
    /\ Goto("check")
    /\ UNCHANGED <<now, leases, owned, generation, chain, job, attempt, settings, promised>>

\* The nft run that removes sets (after a late staging, of a dropped one, or of the
\* replaced ones) fails: the sets may be gone or not.
RemovalFails ==
    /\ NftFails /\ handle = "live"
    /\ \/ pc = "discard"
       \/ pc = "drop" /\ attempt.timeouts # Empty
       \/ pc = "remove" /\ attempt.generation # 0
    /\ \/ UNCHANGED sets
       \/ sets' = [sets EXCEPT ![attempt.generation] = Empty]
    /\ Poison
    /\ UNCHANGED <<now, leases, owned, generation, chain, settings, promised>>

\* The last ensure_live, after the lock was released.
Check ==
    /\ pc = "check" /\ handle = "live"
    /\ Reply(IF EnsureLive(job) THEN "ok" ELSE "query")
    /\ UNCHANGED <<now, owner, kernel, queue, settings, promised>>

\* The sender is gone and the queue is empty: recv fails and the loop ends.
ThreadEnds ==
    /\ handle = "live" /\ pc = "idle" /\ stopped /\ queue = <<>>
    /\ handle' = "ended"
    /\ UNCHANGED <<now, owner, kernel, thread, queue, results, outstanding, faulted, stopped,
                   settings, promised>>

\* A panic drops the candidates in the queue; the results sent stay receivable.
ThreadPanics ==
    /\ Panics /\ handle = "live" /\ pc # "idle"
    /\ handle' = "panicked"
    /\ queue' = <<>>
    /\ UNCHANGED <<now, owner, kernel, thread, results, outstanding, faulted, stopped,
                   settings, promised>>

Thread ==
    \/ Begin \/ Plan \/ Commit \/ Readback \/ StagingFails \/ StagingTimesOut
    \/ StagingEnds \/ Discard \/ Lock \/ CheckStaged \/ DropStaged
    \/ Activate \/ ActivateFails \/ RemovePrevious \/ RemovalFails \/ Check \/ ThreadEnds

-----------------------------------------------------------------------------
(* The controller. *)

\* Queued, active and completed but uncollected work together.
Full == outstanding = Limit

\* DnsAdoption::submit of an answer received now.
Submit(grants) ==
    /\ ~stopped /\ ~faulted /\ ~Full
    /\ IF handle = "live"
       THEN /\ queue' = Append(queue, [grants |-> grants, settings |-> settings,
                                       deadline |-> now + ResolutionTimeout])
            /\ outstanding' = outstanding + 1
            /\ promised' = [k \in Keys |-> Higher(promised[k], grants[k])]
            /\ UNCHANGED faulted
       ELSE /\ faulted' = TRUE      \* the worker disconnected
            /\ UNCHANGED <<queue, outstanding, promised>>
    /\ UNCHANGED <<now, owner, kernel, thread, results, stopped, handle, settings>>

\* DnsAdoption::poll receives what there is, and then joins a thread that has ended by
\* then.  The two are apart: a completion may be sent in between.  (A negative
\* outstanding stands for the huge number that usize wraps to.)
PollDrains ==
    /\ results # <<>> \/ (handle # "live" /\ ~stopped /\ ~faulted)
    /\ results' = <<>>
    /\ outstanding' = outstanding - Len(results)
    /\ faulted' = (faulted \/ (handle # "live" /\ ~stopped))
    /\ UNCHANGED <<now, owner, kernel, thread, queue, stopped, handle, settings, promised>>

Joined == IF handle = "panicked" THEN "lost" ELSE "joined"


PollJoins ==
    /\ handle \in {"ended", "panicked"}
    /\ handle' = Joined
    /\ IF handle = "panicked" \/ ~stopped
       THEN outstanding' = 0 /\ faulted' = TRUE
       ELSE UNCHANGED <<outstanding, faulted>>
    /\ UNCHANGED <<now, owner, kernel, thread, queue, results, stopped, settings, promised>>

Stop ==
    /\ ~stopped
    /\ stopped' = TRUE
    /\ UNCHANGED <<now, owner, kernel, thread, queue, results, outstanding, faulted, handle,
                   settings, promised>>

FollowUnlocked ==
    /\ ~stopped /\ settings < Settings
    /\ settings' = settings + 1
    /\ UNCHANGED <<now, owner, kernel, thread, link, promised>>

\* DnsRuntime::follow adopts new settings, only while it holds the activation lock.
Follow ==
    /\ ~stopped /\ ~Holding /\ settings < Settings
    /\ settings' = settings + 1
    /\ UNCHANGED <<now, owner, kernel, thread, link, promised>>

Tick ==
    /\ now < MaxTime
    /\ now' = now + 1
    /\ UNCHANGED <<owner, kernel, thread, link, settings, promised>>

\* The grants of one answer share one end (chain.rs: permission_deadline).
Grants ==
    {[k \in Keys |-> IF k \in granted THEN now + ttl ELSE 0] :
        granted \in SUBSET Keys, ttl \in Ttls}

Next ==
    \/ Thread
    \/ ThreadPanics
    \/ \E grants \in Grants : Submit(grants)
    \/ PollDrains \/ PollJoins \/ Stop \/ Follow
    \/ Tick

Spec == Init /\ [][Next]_vars

\* A thread that panicked in the activation has poisoned the lock: follow, which comes
\* first in a poll, fails whenever it is due, and the poll of DnsAdoption is not reached.
Poisoned == handle = "panicked" /\ Holding

\* The thread is scheduled, nft runs are bounded by their deadlines, the session polls
\* its runtime until it has finished, and time passes.
FairSpec ==
    /\ Spec
    /\ WF_vars(Thread) /\ WF_vars(Tick)
    /\ WF_vars(~Poisoned /\ PollDrains) /\ WF_vars(~Poisoned /\ PollJoins)

-----------------------------------------------------------------------------

Candidate == [grants : [Keys -> Nat], deadline : Nat, settings : Nat]

TypeOK ==
    /\ now \in Nat
    /\ leases \in [Keys -> Nat] /\ owned \in 0..Generations
    /\ generation \in 0..Generations /\ failed \in BOOLEAN
    /\ sets \in [1..Generations -> [Keys -> Nat]] /\ chain \in 0..Generations
    /\ pc \in {"idle", "plan", "apply", "verified", "discard", "staged", "locked",
               "drop", "activate", "remove", "check"}
    /\ job \in Candidate
    /\ attempt \in [generation : 0..Generations, leases : [Keys -> Nat],
                    timeouts : [Keys -> Nat], reserve : Nat, until : Nat]
    /\ queue \in Seq(Candidate) /\ results \in Seq({"ok", "query", "enforcement"})
    /\ outstanding \in Int
    /\ faulted \in BOOLEAN /\ stopped \in BOOLEAN
    /\ handle \in {"live", "ended", "panicked", "joined", "lost"}
    /\ settings \in Nat
    /\ promised \in [Keys -> Nat]

\* A permission the application can use ends with the answer that gave it, or earlier:
\* however late nft committed the staging, whatever was retried, and however often an
\* old lease was staged again beside a new one ("staging that ends later could outlive
\* an answer, so it is late").
NoOverstay ==
    chain # 0 => \A k \in Keys : sets[chain][k] <= promised[k]

\* While the owner is usable and between two updates, the kernel holds exactly the sets
\* that the owner believes in: no attempt that was late, dropped or replaced has left
\* one behind, and no rule refers to a set that is not the owner's ("the owner stays
\* usable when the kernel state is known").
KnownKernel ==
    /\ TypeOK
    /\ ~failed /\ pc \in {"idle", "plan", "check"} =>
          /\ chain = owned
          /\ \A g \in 1..Generations : sets[g] # Empty <=> g = owned

\* An answer and its permissions go together.  No permission comes into force for a
\* question asked under settings that were replaced meanwhile, not even one that was
\* staged before the change (the activation lock, follow and ensure_live).  An answer
\* reaches the application only with every address it grants in a set that the chain
\* refers to, for at least half of the time that was left when it was staged ("half the
\* time left ... the longest reserve that still leaves the permission a lifetime").
AnswerInForce ==
    [][/\ chain' # chain => job.settings = settings
       /\ results' = Append(results, "ok") =>
            \A k \in Granted(job) :
               /\ chain # 0
               /\ sets[chain][k] >= job.grants[k] - attempt.reserve
               /\ 2 * attempt.reserve <= job.grants[k] - (attempt.until - attempt.reserve)]_vars

\* Queued, active and uncollected work together stay within the capacity that bounds the
\* channel of results, so the thread never blocks on a controller that waits for it.
RoomForResults ==
    handle = "live" =>
        /\ Len(queue) + Len(results) + (IF pc = "idle" THEN 0 ELSE 1) = outstanding
        /\ outstanding <= Limit


\* An nft that does what it is asked, even late, never poisons the owner ("A nearly
\* expired old lease must not turn an unrelated fresh answer into a controller fault").
NeverPoisoned == ~failed

=============================================================================
