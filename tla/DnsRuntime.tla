----------------------------- MODULE DnsRuntime -----------------------------
(***************************************************************************)
(* The controller's side of name resolution: DnsRuntime (dns_runtime.rs),  *)
(* the requests it answers (dns_service.rs, dns/requests.rs, dns/pool.rs), *)
(* the worker threads that resolve (dns_workers.rs) and the permission     *)
(* thread as the runtime sees it (dns_adoption.rs; DnsPermissions has its  *)
(* inside).  All of them are under crates/kakoi-net/src.                   *)
(*                                                                         *)
(* One poll is a sequence of steps: follow the host's settings, collect    *)
(* the adoptions, collect the workers, expire, accept and dispatch.  The   *)
(* other threads and the clock move in between.  A name stands for a whole *)
(* resolution condition (name, type, options).                             *)
(***************************************************************************)
EXTENDS Integers, FiniteSets, Functions

CONSTANTS
    Clients,            \* the requesters
    Names,              \* the questions a rule of the policy allows
    Refused,            \* a question that no rule allows
    MaxId,              \* where resolution ids end
    MaxResolutions,     \* dns_max_concurrent_resolutions
    MaxWaiters,         \* dns_max_waiters_per_resolution
    MaxKept,            \* MAX_CACHED_ANSWERS and MAX_HELD_FAILURES
    Timeout,            \* dns_resolution_timeout_seconds
    FailureHold,        \* dns_failure_cache_seconds
    Ttls,               \* times to live of positive answers
    FollowInterval,     \* FOLLOW_INTERVAL
    MaxChanges,         \* how often the host changes its settings
    Panics              \* whether a worker may panic

ASSUME RuntimeAssumption ==
    /\ {MaxId, MaxResolutions, MaxWaiters, MaxKept, Timeout, FailureHold,
        FollowInterval, MaxChanges} \subseteq Nat
    /\ Ttls \subseteq Nat /\ Refused \notin Names

VARIABLES
    pc,             \* where the poll is
    file,           \* the contents of the host's resolver configuration
    text,           \* Following.text: the contents that were last read
    next,           \* time until Following.next
    generation,     \* DnsRequests.generation, and the workers' cancellation token
    running,        \* DnsRequests.running: id -> [name, generation]
    pool,           \* ResolutionPool.pending: <<name, generation>> -> [id, waiters]
    nextId,         \* ResolutionPool.next_id
    left,           \* time until the deadline of each task
    cache,          \* cached answers: name -> [left, settings]
    held,           \* held failures: name -> time left
    workers,        \* DnsWorkers.workers: id -> [settings, state]
    inflight,       \* DnsRuntime.inflight
    adoption,       \* candidates in DnsAdoption: id -> [settings, state, ttl]
    adopting,       \* DnsRuntime.adopting
    retired,        \* DnsRuntime.retired
    tasks,          \* tasks accepted in this poll and not yet dispatched
    stopping,       \* DnsRuntime.stopping
    faulted,        \* DnsRuntime.faulted
    asked,          \* the question of each client
    client          \* what each client sees

settingsVars == <<file, text, next, generation>>
requestVars  == <<running, pool, nextId, left, cache, held>>
workVars     == <<workers, inflight, adoption, adopting, retired, tasks>>
clientVars   == <<asked, client>>
vars == <<pc, settingsVars, requestVars, workVars, stopping, faulted, clientVars>>

Ids  == 1..MaxId
None == [x \in {} |-> 0]

Put(f, x, v) == [y \in DOMAIN f \cup {x} |-> IF y = x THEN v ELSE f[y]]
Drop(f, xs)  == Restrict(f, DOMAIN f \ xs)

Init ==
    /\ pc = "idle"
    /\ file = 0 /\ text = 0 /\ next = FollowInterval /\ generation = 0
    /\ running = None /\ pool = None /\ nextId = 1
    /\ left = [i \in Ids |-> 0] /\ cache = None /\ held = None
    /\ workers = None /\ inflight = {} /\ adoption = None /\ adopting = {}
    /\ retired = {} /\ tasks = {}
    /\ stopping = FALSE /\ faulted = FALSE
    /\ asked = [c \in Clients |-> Refused] /\ client = [c \in Clients |-> "idle"]

-----------------------------------------------------------------------------
(* Requests. *)

\* An answer names the settings it was found under; Nobody's are current.
Failure(kind) == [kind |-> kind, settings |-> generation, ttl |-> 0]

\* What a waiter of the entry is told: an answer that carries a message signature fits
\* only the client whose own query was sent.
Told(answer, first) ==
    IF answer.kind \in {"ok", "signed"}
    THEN IF answer.kind = "signed" /\ ~first THEN "servfail"
         ELSE IF answer.settings = generation THEN "answer" ELSE "old"
    ELSE IF answer.kind = "denied" THEN "refused" ELSE "servfail"

\* DnsRequests::keep: the time to live counts from the start of the resolution.
Keep(name, i, answer) ==
    LET live == Restrict(cache, {n \in DOMAIN cache : cache[n].left > 0})
        life == answer.ttl - (Timeout - left[i]) IN
    IF answer.kind # "ok" \/ answer.ttl = 0 THEN cache
    ELSE IF Cardinality(DOMAIN live) = MaxKept THEN live
    ELSE Put(live, name, [left |-> IF life > 0 THEN life ELSE 0,
                          settings |-> answer.settings])

\* DnsRequests::hold
Hold(name) ==
    LET live == Restrict(held, {n \in DOMAIN held : held[n] > 0}) IN
    IF FailureHold = 0 THEN held
    ELSE IF Cardinality(DOMAIN live) = MaxKept THEN live
    ELSE Put(live, name, FailureHold)

CompletesLateSilently(i, result, rs, ps) ==
    LET ended == {k \in DOMAIN ps : ps[k].id = i} IN
    /\ running' = Drop(rs, {i}) /\ pool' = Drop(ps, ended)
    /\ client' = [c \in Clients |->
         IF left[i] > 0 /\ \E k \in ended : c \in ps[k].waiters
         THEN Told(result, TRUE) ELSE client[c]]
    /\ UNCHANGED <<cache, held>>

\* DnsRequests::complete over the entries rs and ps: an id that was answered already has
\* nobody waiting.  After the deadline every answer is a failure.
Completes(i, result, rs, ps) ==
    IF i \notin DOMAIN rs
    THEN running' = rs /\ pool' = ps /\ UNCHANGED <<cache, held, client>>
    ELSE LET name    == rs[i].name
             answer  == IF left[i] = 0 THEN Failure("incomplete") ELSE result
             current == rs[i].generation = generation
             ended   == {k \in DOMAIN ps : ps[k].id = i} IN
         /\ running' = Drop(rs, {i})
         /\ pool' = Drop(ps, ended)
         /\ held' = IF current /\ answer.kind = "incomplete" THEN Hold(name) ELSE held
         /\ cache' = IF current /\ answer.kind \in {"ok", "signed"}
                     THEN Keep(name, i, answer) ELSE cache
         /\ client' = [c \in Clients |->
              IF \E k \in ended : c \in ps[k].waiters
              THEN Told(answer, \E k \in ended : c = ps[k].asker) ELSE client[c]]

\* DnsRequests::rekey and ResolutionPool::rekey: the resolution moves under the current
\* settings, unless another one already runs there.  The result is <<running, pool>>.
RekeyedOver(i) ==
    IF i \notin DOMAIN running THEN <<running, pool>>
    ELSE LET now == [name |-> running[i].name, generation |-> generation]
             old == CHOOSE k \in DOMAIN pool : pool[k].id = i IN
         <<Put(running, i, now), Put(Drop(pool, {old}), <<now.name, generation>>, pool[old])>>

Rekeyed(i) ==
    IF i \notin DOMAIN running THEN <<running, pool>>
    ELSE LET now == [name |-> running[i].name, generation |-> generation]
             key == <<now.name, generation>>
             old == CHOOSE k \in DOMAIN pool : pool[k].id = i IN
         IF \E j \in DOMAIN running \ {i} : running[j] = now THEN <<running, pool>>
         ELSE <<Put(running, i, now),
                IF key \in DOMAIN pool THEN pool ELSE Put(Drop(pool, {old}), key, pool[old])>>

DispatchesForgets(i, ws, rs, ps) ==
    /\ workers' = IF left[i] > 0 /\ Cardinality(DOMAIN ws) < MaxResolutions
                  THEN Put(ws, i, [settings |-> generation, state |-> "running"]) ELSE ws
    /\ inflight' = (inflight \ {i}) \cup (DOMAIN workers' \cap {i})
    /\ running' = rs /\ pool' = ps
    /\ UNCHANGED <<cache, held, client>>

\* DnsRuntime::dispatch among the workers ws, for entries rs and ps.
Dispatches(i, ws, rs, ps) ==
    \/ /\ left[i] > 0 /\ Cardinality(DOMAIN ws) < MaxResolutions
       /\ workers' = Put(ws, i, [settings |-> generation, state |-> "running"])
       /\ inflight' = inflight \cup {i}
       /\ running' = rs /\ pool' = ps
       /\ UNCHANGED <<cache, held, client>>
    \/ /\ left[i] = 0 \/ Cardinality(DOMAIN ws) = MaxResolutions
       /\ Completes(i, Failure(IF left[i] = 0 THEN "incomplete" ELSE "overloaded"), rs, ps)
       /\ workers' = ws /\ inflight' = inflight \ {i}

-----------------------------------------------------------------------------
(* DnsRuntime::poll. *)

\* Any error of a poll faults the runtime and stops it.
PollFails ==
    /\ pc' = "idle" /\ stopping' = TRUE /\ faulted' = TRUE
    /\ tasks' = {}

\* The permission thread holds the activation lock.
Activating == \E i \in DOMAIN adoption : adoption[i].state = "locked"

AdoptionFaulted == \E i \in DOMAIN adoption : adoption[i].state = "enforcement"

\* A change of the settings: what the old ones answered or failed is of no use, and what
\* is being asked is asked again.
ReplaceKeepsCache ==
    /\ text' = file
    /\ generation' = generation + 1
    /\ UNCHANGED <<cache, held>>
    /\ retired' = retired \cup inflight \cup adopting

ReplaceForgetsAdopting ==
    /\ text' = file
    /\ generation' = generation + 1
    /\ cache' = None /\ held' = None
    /\ retired' = retired \cup inflight

Replace ==
    /\ text' = file
    /\ generation' = generation + 1
    /\ cache' = None /\ held' = None
    /\ retired' = retired \cup inflight \cup adopting

Finished == stopping /\ workers = None /\ adoption = None

PollsWhileServing == pc = "idle" /\ ~stopping

\* The session polls until the runtime has finished.
Polls == pc = "idle" /\ ~Finished

FollowPutOff == FollowInterval

\* Following.next
FollowNext == IF next = 0 THEN FollowInterval ELSE next

\* follow.  While the permission thread is activating, the whole poll waits.
PollBegins ==
    /\ Polls
    /\ next = 0 => ~Activating
    /\ pc' = "adoptions"
    /\ next' = FollowNext
    /\ IF next = 0 /\ file # text
       THEN Replace
       ELSE UNCHANGED <<text, generation, cache, held, retired>>
    /\ UNCHANGED <<file, running, pool, nextId, left, workers, inflight, adoption, adopting,
                   tasks, stopping, faulted, clientVars>>

AskAgainUnlisted(i, ws) ==
    /\ running' = Rekeyed(i)[1] /\ pool' = Rekeyed(i)[2]
    /\ workers' = Put(ws, i, [settings |-> generation, state |-> "running"])
    /\ inflight' = inflight \ {i}
    /\ UNCHANGED <<cache, held, client>>

\* A question whose settings were replaced is asked again, within the same deadline.
AskAgain(i, ws) ==
    LET moved == Rekeyed(i) IN Dispatches(i, ws, moved[1], moved[2])

CollectAdoption(i) ==
    /\ pc = "adoptions" /\ i \in DOMAIN adoption
    /\ adoption[i].state \in {"ok", "signed", "query", "enforcement"}
    /\ adopting' = adopting \ {i}
    /\ \/ /\ adoption[i].state = "enforcement"
          /\ adoption' = Drop(adoption, {j \in DOMAIN adoption :
                                adoption[j].state \notin {"queued", "locked"}})
          /\ PollFails
          /\ UNCHANGED <<running, pool, cache, held, client, workers, inflight, retired>>
       \/ /\ adoption[i].state # "enforcement"
          /\ adoption' = Drop(adoption, {i})
          /\ retired' = retired \ {i}
          /\ IF stopping
             THEN UNCHANGED <<running, pool, cache, held, client, workers, inflight>>
             ELSE IF i \in retired /\ i \in adopting
             THEN AskAgain(i, workers)
             ELSE /\ Completes(i, IF adoption[i].state = "query"
                                  THEN Failure("incomplete")
                                  ELSE [kind |-> adoption[i].state, ttl |-> adoption[i].ttl,
                                        settings |-> adoption[i].settings],
                               running, pool)
                  /\ UNCHANGED <<workers, inflight>>
          /\ UNCHANGED <<pc, tasks, stopping, faulted>>
    /\ UNCHANGED <<settingsVars, nextId, left, asked>>

AdoptionsCollected ==
    /\ pc = "adoptions"
    /\ \A i \in DOMAIN adoption : adoption[i].state \in {"queued", "locked"}
    /\ pc' = "workers"
    /\ UNCHANGED <<settingsVars, requestVars, workVars, stopping, faulted, clientVars>>

\* The result of a joined worker: an answer of replaced or stopped work is cancelled.
WorkResult(i) ==
    IF workers[i].state \in {"candidate", "signed"}
       /\ (stopping \/ workers[i].settings # generation)
    THEN "cancelled" ELSE workers[i].state

\* A candidate goes to adoption; its permission thread may be faulted or at capacity.
Submits(i, signed) ==
    LET room == Cardinality(DOMAIN adoption) < MaxResolutions IN
    \/ /\ ~AdoptionFaulted /\ room
       /\ \E ttl \in Ttls \cup {0} :
             adoption' = Put(adoption, i, [settings |-> workers[i].settings,
                                state |-> "queued", ttl |-> ttl, signed |-> signed])
       /\ adopting' = IF i \in inflight THEN adopting \cup {i} ELSE adopting
       /\ UNCHANGED <<pc, tasks, stopping, faulted, running, pool, cache, held, client>>
    \/ /\ ~AdoptionFaulted /\ ~room
       /\ Completes(i, Failure("overloaded"), running, pool)
       /\ UNCHANGED <<pc, tasks, stopping, faulted, adoption, adopting>>
    \/ /\ AdoptionFaulted
       /\ PollFails
       /\ UNCHANGED <<running, pool, cache, held, client, adoption, adopting>>

CollectWorker(i) ==
    /\ pc = "workers" /\ i \in DOMAIN workers /\ workers[i].state # "running"
    /\ retired' = retired \ {i}
    /\ LET result == WorkResult(i)
           others == Drop(workers, {i})
           again  == i \in retired /\ i \in inflight /\ ~stopping IN
       \/ /\ again /\ result # "panicked"
          /\ AskAgain(i, others)
          /\ UNCHANGED <<pc, tasks, stopping, faulted, adoption, adopting>>
       \/ /\ ~again \/ result = "panicked"
          /\ workers' = others /\ inflight' = inflight \ {i}
          /\ \/ /\ result = "panicked"
                /\ PollFails
                /\ UNCHANGED <<running, pool, cache, held, client, adoption, adopting>>
             \/ /\ result # "panicked" /\ stopping
                /\ UNCHANGED <<pc, tasks, stopping, faulted, running, pool, cache, held,
                               client, adoption, adopting>>
             \/ ~stopping /\ result \in {"candidate", "signed"} /\ Submits(i, result = "signed")
             \/ /\ ~stopping /\ result \in {"failed", "denied", "cancelled"}
                /\ Completes(i, Failure(IF result = "denied" THEN "denied" ELSE "incomplete"),
                             running, pool)
                /\ UNCHANGED <<pc, tasks, stopping, faulted, adoption, adopting>>
    /\ UNCHANGED <<settingsVars, nextId, left, asked>>

\* admit_new answers nobody once the runtime is stopping.
WorkersCollected ==
    /\ pc = "workers"
    /\ \A i \in DOMAIN workers : workers[i].state = "running"
    /\ pc' = IF stopping THEN "idle" ELSE "expire"
    /\ UNCHANGED <<settingsVars, requestVars, workVars, stopping, faulted, clientVars>>

\* DnsRequests::expire completes the tasks whose deadline has come, one by one.
Expire(i) ==
    /\ pc = "expire" /\ i \in DOMAIN running /\ left[i] = 0
    /\ Completes(i, Failure("incomplete"), running, pool)
    /\ UNCHANGED <<pc, settingsVars, nextId, left, workVars, stopping, faulted, asked>>

\* Then it takes the queries that have arrived, and no later one.
Expired ==
    /\ pc = "expire"
    /\ \A i \in DOMAIN running : left[i] > 0
    /\ pc' = "accept"
    /\ client' = [c \in Clients |-> IF client[c] = "sent" THEN "received" ELSE client[c]]
    /\ UNCHANGED <<settingsVars, requestVars, workVars, stopping, faulted, asked>>

Answer(c, what) ==
    /\ client' = [client EXCEPT ![c] = what]
    /\ UNCHANGED <<running, pool, nextId, left, tasks>>

\* The pool still has an id to give.
Fresh == nextId <= MaxId

\* DnsRequests::accept and ResolutionPool::admit.
Accept(c) ==
    /\ pc = "accept" /\ client[c] = "received"
    /\ LET n   == asked[c]
           key == <<n, generation>> IN
       \/ n \notin Names /\ Answer(c, "refused")
       \/ n \in Names /\ n \in DOMAIN held /\ held[n] > 0 /\ Answer(c, "servfail")
       \/ /\ n \in Names /\ ~(n \in DOMAIN held /\ held[n] > 0)
          /\ n \in DOMAIN cache /\ cache[n].left > 0
          /\ Answer(c, IF cache[n].settings = generation THEN "answer" ELSE "old")
       \/ /\ n \in Names /\ ~(n \in DOMAIN held /\ held[n] > 0)
          /\ ~(n \in DOMAIN cache /\ cache[n].left > 0)
          /\ \/ /\ key \in DOMAIN pool /\ Cardinality(pool[key].waiters) < MaxWaiters
                /\ pool' = [pool EXCEPT ![key].waiters = @ \cup {c}]
                /\ client' = [client EXCEPT ![c] = "waiting"]
                /\ UNCHANGED <<running, nextId, left, tasks>>
             \/ /\ key \in DOMAIN pool /\ Cardinality(pool[key].waiters) = MaxWaiters
                /\ Answer(c, "servfail")
             \/ /\ key \notin DOMAIN pool
                /\ Cardinality(DOMAIN pool) < MaxResolutions /\ Fresh
                /\ pool' = Put(pool, key, [id |-> nextId, waiters |-> {c}, asker |-> c])
                /\ running' = Put(running, nextId, [name |-> n, generation |-> generation])
                /\ left' = [left EXCEPT ![nextId] = Timeout]
                /\ nextId' = nextId + 1
                /\ tasks' = tasks \cup {nextId}
                /\ client' = [client EXCEPT ![c] = "waiting"]
             \/ /\ key \notin DOMAIN pool
                /\ Cardinality(DOMAIN pool) = MaxResolutions \/ ~Fresh
                /\ Answer(c, "servfail")
    /\ UNCHANGED <<pc, settingsVars, cache, held, workers, inflight, adoption, adopting,
                   retired, stopping, faulted, asked>>

Accepted ==
    /\ pc = "accept" /\ \A c \in Clients : client[c] # "received"
    /\ pc' = "dispatch"
    /\ UNCHANGED <<settingsVars, requestVars, workVars, stopping, faulted, clientVars>>

Dispatch(i) ==
    /\ pc = "dispatch" /\ i \in tasks
    /\ tasks' = tasks \ {i}
    /\ Dispatches(i, workers, running, pool)
    /\ UNCHANGED <<pc, settingsVars, nextId, left, adoption, adopting, retired, stopping,
                   faulted, asked>>

PollEnds ==
    /\ pc = "dispatch" /\ tasks = {}
    /\ pc' = "idle"
    /\ UNCHANGED <<settingsVars, requestVars, workVars, stopping, faulted, clientVars>>

Poll ==
    \/ PollBegins \/ AdoptionsCollected \/ WorkersCollected
    \/ Expired \/ Accepted \/ PollEnds
    \/ \E i \in Ids : CollectAdoption(i) \/ CollectWorker(i) \/ Expire(i) \/ Dispatch(i)
    \/ \E c \in Clients : Accept(c)

\* The session closed its transit and stops the runtime.
Stop ==
    /\ pc = "idle" /\ ~stopping
    /\ stopping' = TRUE
    /\ UNCHANGED <<pc, settingsVars, requestVars, workVars, faulted, clientVars>>

-----------------------------------------------------------------------------
(* The other threads, the clients, the host and the clock. *)

\* A worker ends by its deadline or its cancellation at the latest.
WorkerEnds(i, state) ==
    /\ i \in DOMAIN workers /\ workers[i].state = "running"
    /\ workers' = [workers EXCEPT ![i].state = state]
    /\ UNCHANGED <<pc, settingsVars, requestVars, inflight, adoption, adopting, retired, tasks,
                   stopping, faulted, clientVars>>

Adoption(i, state) ==
    /\ adoption' = [adoption EXCEPT ![i].state = state]
    /\ UNCHANGED <<pc, settingsVars, requestVars, workers, inflight, adopting, retired, tasks,
                   stopping, faulted, clientVars>>

\* The permission thread takes one candidate at a time: under the lock it activates only
\* what is still current.  Once stopped it refuses the rest.
Adopts(i) ==
    /\ i \in DOMAIN adoption
    /\ \/ /\ adoption[i].state = "queued" /\ ~Activating
          /\ adoption[i].settings = generation /\ ~stopping
          /\ Adoption(i, "locked")
       \/ adoption[i].state = "queued" /\ Adoption(i, "query")
       \/ adoption[i].state = "locked"
          /\ Adoption(i, IF adoption[i].signed THEN "signed" ELSE "ok")
       \/ adoption[i].state \in {"queued", "locked"} /\ Adoption(i, "enforcement")

Unanswered == {"sent", "received", "waiting"}

Ask(c, n) ==
    /\ client[c] \notin Unanswered
    /\ client' = [client EXCEPT ![c] = "sent"]
    /\ asked' = [asked EXCEPT ![c] = n]
    /\ UNCHANGED <<pc, settingsVars, requestVars, workVars, stopping, faulted>>

HostChanges ==
    /\ file < MaxChanges
    /\ file' = file + 1
    /\ UNCHANGED <<pc, text, next, generation, requestVars, workVars, stopping, faulted,
                   clientVars>>

Less(t) == IF t > 0 THEN t - 1 ELSE 0

Tick ==
    /\ next' = Less(next)
    /\ left' = [i \in Ids |-> Less(left[i])]
    /\ cache' = [n \in DOMAIN cache |-> [cache[n] EXCEPT !.left = Less(@)]]
    /\ held' = [n \in DOMAIN held |-> Less(held[n])]
    /\ UNCHANGED <<pc, file, text, generation, running, pool, nextId, workVars, stopping,
                   faulted, clientVars>>

Next ==
    \/ Poll
    \/ Stop
    \/ \E i \in Ids, state \in {"candidate", "signed", "failed", "denied"} :
          WorkerEnds(i, state)
    \/ \E i \in Ids : Panics /\ WorkerEnds(i, "panicked")
    \/ \E i \in Ids : Adopts(i)
    \/ \E c \in Clients, n \in Names \cup {Refused} : Ask(c, n)
    \/ HostChanges
    \/ Tick

Spec == Init /\ [][Next]_vars

\* The session polls, threads run and end, the clock moves on.
Fairness ==
    /\ WF_vars(Poll) /\ WF_vars(Tick)
    /\ \A i \in Ids : WF_vars(Adopts(i)) /\ WF_vars(WorkerEnds(i, "failed"))

-----------------------------------------------------------------------------
(* Properties. *)

Answers == {"answer", "old", "servfail", "refused"}

TypeOK ==
    /\ pc \in {"idle", "adoptions", "workers", "expire", "accept", "dispatch"}
    /\ {file, text, next, generation} \subseteq Nat /\ nextId \in 1..(MaxId + 1)
    /\ DOMAIN running \subseteq Ids /\ DOMAIN workers \subseteq Ids
    /\ DOMAIN adoption \subseteq Ids /\ inflight \cup adopting \cup tasks \cup retired \subseteq Ids
    /\ \A i \in DOMAIN running : running[i].name \in Names
    /\ \A k \in DOMAIN pool : pool[k].waiters \subseteq Clients
    /\ DOMAIN cache \cup DOMAIN held \subseteq Names
    /\ \A n \in DOMAIN cache : cache[n].left \in Nat
    /\ left \in [Ids -> 0..Timeout]
    /\ asked \in [Clients -> Names \cup {Refused}]
    /\ client \in [Clients -> Answers \cup Unanswered \cup {"idle"}]
    /\ stopping \in BOOLEAN /\ faulted \in BOOLEAN

\* DnsRequests lists its resolutions twice, in running by id and in the pool by key.  Moving
\* a resolution to other settings while a second one of the same name runs never lets the
\* two lists differ.
PoolAgrees ==
    /\ {<<i, running[i].name, running[i].generation>> : i \in DOMAIN running}
         = {<<pool[k].id, k[1], k[2]>> : k \in DOMAIN pool}
    /\ \A k, l \in DOMAIN pool : pool[k].id = pool[l].id => k = l

\* A client that waits is a waiter of exactly one resolution, one of its own question, and
\* nobody else is: it is neither forgotten nor answered twice.
WaitsOnce ==
    \A c \in Clients :
       LET entries == {k \in DOMAIN pool : c \in pool[k].waiters} IN
       /\ client[c] = "waiting" <=> entries # {}
       /\ \A k \in entries : k[1] = asked[c] /\ entries = {k}

\* Once a change of the host's settings was followed, no client is given an answer that
\* was found under the replaced ones, and none is kept for later.
NoOldAnswer ==
    /\ \A c \in Clients : client[c] # "old"
    /\ \A n \in DOMAIN cache : cache[n].left > 0 => cache[n].settings = generation

\* Between polls each resolution somebody waits for is in the hands of one thread, and the
\* runtime's books name the threads that hold it; what runs under replaced settings is
\* marked, so that it is never collected as work of the current ones.
EveryTaskHeld ==
    ~stopping =>
       /\ pc = "idle" =>
             /\ DOMAIN running \subseteq DOMAIN workers \cup DOMAIN adoption
             /\ inflight = DOMAIN workers /\ adopting = DOMAIN adoption
             /\ inflight \cap adopting = {}
             /\ retired \subseteq inflight \cup adopting
       /\ \A i \in DOMAIN workers : workers[i].settings # generation => i \in retired
       /\ \A i \in DOMAIN adoption : adoption[i].settings # generation => i \in retired

\* The books of the requests and of the threads are right, at every step of a poll.
BooksAgree == TypeOK /\ PoolAgrees /\ WaitsOnce /\ EveryTaskHeld

\* While the runtime serves, every query is answered, by an expiry if by nothing else, and
\* a change of the host's settings takes effect, although follow gives way to activations;
\* once it is stopped, its remaining threads are collected.
Serves ==
    Fairness =>
        /\ \A c \in Clients :
              client[c] \in Unanswered ~> (client[c] \in Answers \/ stopping)
        /\ file # text ~> (file = text \/ stopping)
        /\ stopping ~> Finished

=============================================================================
