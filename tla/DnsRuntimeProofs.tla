-------------------------- MODULE DnsRuntimeProofs --------------------------
(***************************************************************************)
(* The books of the DNS runtime, for any number of clients, names,          *)
(* resolutions and settings.                                                *)
(*                                                                         *)
(* The two lists of the requests are followed through the operators that    *)
(* change them (complete, rekey, dispatch); the threads by who holds which  *)
(* id at each step of a poll.                                               *)
(***************************************************************************)
EXTENDS DnsRuntime, TLAPS

Resolving == [name : Names, generation : Nat]
Entry     == [id : Ids, waiters : SUBSET Clients, asker : Clients]
Work      == [settings : Nat,
              state : {"running", "candidate", "signed", "failed", "denied", "panicked"}]
Candidate == [settings : Nat, ttl : Nat, signed : BOOLEAN,
              state : {"queued", "locked", "query", "ok", "signed", "enforcement"}]
Kept      == [left : Nat, settings : Nat]
Views     == Answers \cup Unanswered \cup {"idle"}

\* The requests: running by id and the pool by key list the same resolutions, and who waits
\* for one asked for it and waits for no other.
Listed(rs, ps) ==
    /\ \A i \in DOMAIN rs : i \in Ids /\ rs[i] \in Resolving
    /\ \A k \in DOMAIN ps : ps[k] \in Entry
    /\ \A i \in DOMAIN rs : /\ <<rs[i].name, rs[i].generation>> \in DOMAIN ps
                            /\ ps[<<rs[i].name, rs[i].generation>>].id = i
    /\ \A k \in DOMAIN ps : /\ ps[k].id \in DOMAIN rs
                            /\ k = <<rs[ps[k].id].name, rs[ps[k].id].generation>>

Waits(ps, views, questions) ==
    \A c \in Clients :
        /\ views[c] = "waiting" <=> \E k \in DOMAIN ps : c \in ps[k].waiters
        /\ \A k \in DOMAIN ps : c \in ps[k].waiters =>
              k[1] = questions[c] /\ \A l \in DOMAIN ps : c \in ps[l].waiters => l = k

Requests(rs, ps, views, questions) ==
    Listed(rs, ps) /\ Waits(ps, views, questions) /\ views \in [Clients -> Views]

\* The types of what the parts below do not speak of.
Basics ==
    /\ pc \in {"idle", "adoptions", "workers", "expire", "accept", "dispatch"}
    /\ file \in Nat /\ text \in Nat /\ next \in Nat /\ generation \in Nat
    /\ nextId \in Nat /\ nextId > 0 /\ nextId <= MaxId + 1
    /\ left \in [Ids -> 0..Timeout] /\ asked \in [Clients -> Names \cup {Refused}]
    /\ stopping \in BOOLEAN /\ faulted \in BOOLEAN

\* What the threads hold; an id in use was given out, so that it is not given out again.
Records ==
    /\ \A i \in DOMAIN workers : workers[i] \in Work
    /\ \A i \in DOMAIN adoption : adoption[i] \in Candidate
    /\ \A i \in DOMAIN running \cup DOMAIN workers \cup DOMAIN adoption \cup tasks :
          i \in Ids /\ i < nextId
    /\ inflight \cup adopting \cup retired \subseteq Ids
    /\ pc \notin {"accept", "dispatch"} => tasks = {}

\* At every step of a poll a resolution is with a worker, with the adoption or about to be
\* dispatched, with one of them only, and what runs under replaced settings is retired.
Threads ==
    ~stopping =>
        /\ DOMAIN running \subseteq DOMAIN workers \cup DOMAIN adoption \cup tasks
        /\ inflight = DOMAIN workers /\ adopting = DOMAIN adoption
        /\ DOMAIN workers \cap DOMAIN adoption = {}
        /\ tasks \cap (DOMAIN workers \cup DOMAIN adoption) = {}
        /\ retired \subseteq inflight \cup adopting
        /\ \A i \in DOMAIN workers : workers[i].settings # generation => i \in retired
        /\ \A i \in DOMAIN adoption : adoption[i].settings # generation => i \in retired

\* Nothing of replaced settings is shown to a client or kept for one.
Current(views, kept, failures) ==
    /\ \A c \in Clients : views[c] # "old"
    /\ \A n \in DOMAIN kept :
          n \in Names /\ kept[n] \in Kept /\ (kept[n].left > 0 => kept[n].settings = generation)
    /\ DOMAIN failures \subseteq Names

IInv ==
    /\ Basics /\ Requests(running, pool, client, asked) /\ Current(client, cache, held)
    /\ Records /\ Threads

-----------------------------------------------------------------------------
(* Maps. *)

\* Insertion into a map.
LEMMA PutFacts ==
    ASSUME NEW f, NEW x, NEW v
    PROVE  /\ DOMAIN Put(f, x, v) = DOMAIN f \cup {x} /\ Put(f, x, v)[x] = v
           /\ \A y \in DOMAIN f : y # x => Put(f, x, v)[y] = f[y]
  BY DEF Put

\* Removal from a map.
LEMMA DropFacts ==
    ASSUME NEW f, NEW xs
    PROVE  /\ DOMAIN Drop(f, xs) = DOMAIN f \ xs
           /\ \A y \in DOMAIN f \ xs : Drop(f, xs)[y] = f[y]
  BY DEF Drop, Restrict

-----------------------------------------------------------------------------
(* The requests. *)

\* The invariant says what PoolAgrees and WaitsOnce say.
LEMMA RequestsAgree ==
    ASSUME Requests(running, pool, client, asked)
    PROVE  PoolAgrees /\ WaitsOnce
<1>. USE DEF Requests
<1>1. \A k, l \in DOMAIN pool : pool[k].id = pool[l].id => k = l
  BY DEF Listed
<1>2. ASSUME NEW i \in DOMAIN running
      PROVE  \E k \in DOMAIN pool :
               <<i, running[i].name, running[i].generation>> = <<pool[k].id, k[1], k[2]>>
  <2>. DEFINE k == <<running[i].name, running[i].generation>>
  <2>1. k \in DOMAIN pool /\ pool[k].id = i /\ k[1] = running[i].name /\ k[2] = running[i].generation
    BY DEF Listed
  <2>. QED
    BY <2>1
<1>3. ASSUME NEW k \in DOMAIN pool
      PROVE  \E i \in DOMAIN running :
               <<i, running[i].name, running[i].generation>> = <<pool[k].id, k[1], k[2]>>
  <2>1. pool[k].id \in DOMAIN running
        /\ k = <<running[pool[k].id].name, running[pool[k].id].generation>>
    BY DEF Listed
  <2>. QED
    BY <2>1
<1>4. PoolAgrees
  BY <1>1, <1>2, <1>3 DEF PoolAgrees
<1>5. WaitsOnce
  <2>. SUFFICES ASSUME NEW c \in Clients
                PROVE  LET entries == {k \in DOMAIN pool : c \in pool[k].waiters} IN
                       /\ client[c] = "waiting" <=> entries # {}
                       /\ \A k \in entries : k[1] = asked[c] /\ entries = {k}
    BY DEF WaitsOnce
  <2>. QED
    BY DEF Waits
<1>. QED
  BY <1>4, <1>5

\* A waiter is told an answer, and never an old one if the result is current.
LEMMA ToldAnswers ==
    ASSUME NEW answer, NEW first
    PROVE  /\ Told(answer, first) \in Answers
           /\ (answer.kind \in {"ok", "signed"} => answer.settings = generation)
              => Told(answer, first) # "old"
  BY DEF Told, Answers

\* complete takes one resolution out of both lists and answers its waiters.
LEMMA CompletesRequests ==
    ASSUME NEW rs, NEW ps, NEW i, NEW result, Requests(rs, ps, client, asked),
           Completes(i, result, rs, ps)
    PROVE  /\ Requests(running', pool', client', asked)
           /\ DOMAIN running' = DOMAIN rs \ {i}
<1>. USE DEF Requests
<1>1. CASE i \notin DOMAIN rs
  BY <1>1 DEF Completes
<1>2. CASE i \in DOMAIN rs
  <2>. DEFINE answer == IF left[i] = 0 THEN Failure("incomplete") ELSE result
              ended  == {k \in DOMAIN ps : ps[k].id = i}
              gone   == <<rs[i].name, rs[i].generation>>
  <2>1. /\ running' = Drop(rs, {i}) /\ pool' = Drop(ps, ended)
        /\ client' = [c \in Clients |->
             IF \E k \in ended : c \in ps[k].waiters
             THEN Told(answer, \E k \in ended : c = ps[k].asker) ELSE client[c]]
    BY <1>2 DEF Completes
  <2>2. ended = {gone}
    BY <1>2 DEF Listed
  <2>. HIDE DEF ended, answer
  <2>3. /\ DOMAIN running' = DOMAIN rs \ {i} /\ \A j \in DOMAIN running' : running'[j] = rs[j]
        /\ DOMAIN pool' = DOMAIN ps \ {gone} /\ \A k \in DOMAIN pool' : pool'[k] = ps[k]
    <3>1. /\ DOMAIN Drop(rs, {i}) = DOMAIN rs \ {i}
          /\ \A j \in DOMAIN rs \ {i} : Drop(rs, {i})[j] = rs[j]
      BY DropFacts
    <3>2. /\ DOMAIN Drop(ps, {gone}) = DOMAIN ps \ {gone}
          /\ \A k \in DOMAIN ps \ {gone} : Drop(ps, {gone})[k] = ps[k]
      BY DropFacts
    <3>3. running' = Drop(rs, {i}) /\ pool' = Drop(ps, {gone})
      BY <2>1, <2>2
    <3>. HIDE DEF gone
    <3>. QED
      BY <3>1, <3>2, <3>3
  <2>4. ASSUME NEW c \in Clients
        PROVE  \/ client'[c] = client[c] /\ c \notin ps[gone].waiters
               \/ client'[c] \in Answers /\ gone \in DOMAIN ps /\ c \in ps[gone].waiters
    <3>1. CASE c \in ps[gone].waiters
      <4>1. client'[c] = Told(answer, \E k \in ended : c = ps[k].asker)
        BY <2>1, <2>2, <3>1
      <4>2. gone \in DOMAIN ps
        BY <1>2 DEF Listed
      <4>. QED
        BY <3>1, <4>1, <4>2, ToldAnswers
    <3>2. CASE c \notin ps[gone].waiters
      <4>1. ~\E k \in ended : c \in ps[k].waiters
        BY <2>2, <3>2
      <4>2. client'[c] = client[c]
        BY <2>1, <4>1
      <4>. QED
        BY <3>2, <4>2
    <3>. QED
      BY <3>1, <3>2
  <2>5. client' \in [Clients -> Views]
    BY <2>1, <2>4 DEF Views
  <2>6. Listed(running', pool')
    BY <1>2, <2>3 DEF Listed
  <2>7. Waits(pool', client', asked)
    BY <2>3, <2>4 DEF Waits, Answers
  <2>. QED
    BY <2>3, <2>5, <2>6, <2>7
<1>. QED
  BY <1>1, <1>2

\* Completing work of the current settings, or a failure, shows and keeps nothing old.
LEMMA CompletesCurrent ==
    ASSUME NEW rs, NEW ps, NEW i \in Ids, NEW result, Completes(i, result, rs, ps),
           Current(client, cache, held), left \in [Ids -> 0..Timeout], generation \in Nat,
           result.kind \in {"ok", "signed"} => result.settings = generation /\ result.ttl \in Nat,
           \A j \in DOMAIN rs : rs[j].name \in Names
    PROVE  Current(client', cache', held')
<1>. USE DEF Current
<1>t. Timeout \in Nat
  BY RuntimeAssumption
<1>1. CASE i \notin DOMAIN rs
  <2>1. UNCHANGED <<cache, held, client>>
    BY <1>1 DEF Completes
  <2>. QED
    BY <2>1
<1>2. CASE i \in DOMAIN rs
  <2>. DEFINE answer == IF left[i] = 0 THEN Failure("incomplete") ELSE result
              ended  == {k \in DOMAIN ps : ps[k].id = i}
              name   == rs[i].name
  <2>1. /\ held' = held \/ held' = Hold(name)
        /\ cache' = cache \/ (answer.kind \in {"ok", "signed"} /\ cache' = Keep(name, i, answer))
        /\ client' = [c \in Clients |->
             IF \E k \in ended : c \in ps[k].waiters
             THEN Told(answer, \E k \in ended : c = ps[k].asker) ELSE client[c]]
    BY <1>2 DEF Completes
  <2>2. answer.kind \in {"ok", "signed"} => answer.settings = generation /\ answer.ttl \in Nat
    BY DEF Failure
  <2>3. name \in Names /\ left[i] \in Nat
    BY <1>2, <1>t
  <2>. HIDE DEF answer, name, ended
  <2>4. ASSUME NEW c \in Clients
        PROVE  client'[c] # "old"
    <3>1. CASE \E k \in ended : c \in ps[k].waiters
      <4>1. client'[c] = Told(answer, \E k \in ended : c = ps[k].asker)
        BY <2>1, <3>1
      <4>. QED
        BY <2>2, <4>1, ToldAnswers
    <3>2. CASE ~\E k \in ended : c \in ps[k].waiters
      BY <2>1, <3>2
    <3>. QED
      BY <3>1, <3>2
  <2>5. DOMAIN held' \subseteq Names
    <3>1. DOMAIN Hold(name) \subseteq DOMAIN held \cup {name}
      BY DEF Hold, Put, Restrict
    <3>. QED
      BY <2>1, <2>3, <3>1
  <2>6. ASSUME answer.kind \in {"ok", "signed"}, cache' = Keep(name, i, answer),
               NEW n \in DOMAIN cache'
        PROVE  n \in Names /\ cache'[n] \in Kept /\ (cache'[n].left > 0 => cache'[n].settings = generation)
    <3>. DEFINE live == Restrict(cache, {m \in DOMAIN cache : cache[m].left > 0})
                life == answer.ttl - (Timeout - left[i])
                new  == [left |-> IF life > 0 THEN life ELSE 0, settings |-> answer.settings]
    <3>1. \/ cache' = cache \/ cache' = live \/ cache' = Put(live, name, new)
      BY <2>6 DEF Keep
    <3>2. life \in Int
      BY <1>t, <2>2, <2>3, <2>6
    <3>3. new \in Kept /\ new.settings = generation
      <4>. HIDE DEF life
      <4>. QED
        BY <1>t, <2>2, <2>6, <3>2 DEF Kept
    <3>4. \A m \in DOMAIN live : m \in DOMAIN cache /\ live[m] = cache[m]
      BY DEF Restrict
    <3>. HIDE DEF live, new
    <3>5. \/ n = name /\ cache'[n] = new
          \/ n \in DOMAIN cache /\ cache'[n] = cache[n]
      <4>1. CASE cache' = Put(live, name, new)
        <5>1. DOMAIN Put(live, name, new) = DOMAIN live \cup {name}
          BY PutFacts
        <5>2. Put(live, name, new)[name] = new
          BY DEF Put
        <5>3. n # name => n \in DOMAIN live /\ Put(live, name, new)[n] = live[n]
          BY <2>6, <4>1, <5>1 DEF Put
        <5>. QED
          BY <3>4, <4>1, <5>2, <5>3
      <4>. QED
        BY <2>6, <3>1, <3>4, <4>1
    <3>. QED
      BY <2>3, <3>3, <3>5
  <2>. QED
    BY <2>1, <2>4, <2>5, <2>6
<1>. QED
  BY <1>1, <1>2

\* rekey moves a resolution in both lists, or in neither.
LEMMA RekeyedRequests ==
    ASSUME NEW i, Requests(running, pool, client, asked), generation \in Nat
    PROVE  /\ Requests(Rekeyed(i)[1], Rekeyed(i)[2], client, asked)
           /\ DOMAIN Rekeyed(i)[1] = DOMAIN running
<1>. DEFINE now == [name |-> running[i].name, generation |-> generation]
            key == <<now.name, generation>>
            old == CHOOSE k \in DOMAIN pool : pool[k].id = i
            own == <<running[i].name, running[i].generation>>
<1>1. CASE \/ i \notin DOMAIN running
           \/ \E j \in DOMAIN running \ {i} : running[j] = now
  <2>1. Rekeyed(i) = <<running, pool>>
    BY <1>1 DEF Rekeyed
  <2>. QED
    BY <2>1
<1>2. CASE i \in DOMAIN running /\ ~\E j \in DOMAIN running \ {i} : running[j] = now
  <2>. DEFINE rs == Put(running, i, now)
              ps == IF key \in DOMAIN pool THEN pool ELSE Put(Drop(pool, {old}), key, pool[old])
  <2>1. Rekeyed(i) = <<rs, ps>>
    BY <1>2 DEF Rekeyed
  <2>2. old = own /\ own \in DOMAIN pool /\ pool[own].id = i
    BY <1>2 DEF Requests, Listed
  <2>3. /\ DOMAIN rs = DOMAIN running /\ rs[i] = now
        /\ \A j \in DOMAIN running : j # i => rs[j] = running[j]
    BY <1>2 DEF Put
  <2>4. now \in Resolving /\ key = <<now.name, now.generation>>
    BY <1>2 DEF Requests, Listed, Resolving
  <2>5. /\ DOMAIN ps = (DOMAIN pool \ {own}) \cup {key} /\ ps[key] = pool[own]
        /\ \A k \in DOMAIN pool : k # own => k # key /\ ps[k] = pool[k]
    <3>1. \A k \in DOMAIN pool : k # own => k # key
      <4>. SUFFICES ASSUME NEW k \in DOMAIN pool, k # own, k = key PROVE FALSE
        OBVIOUS
      <4>1. pool[k].id \in DOMAIN running /\ pool[k].id # i
        BY <1>2 DEF Requests, Listed
      <4>2. running[pool[k].id] = now
        BY <4>1 DEF Requests, Listed, Resolving
      <4>. QED
        BY <1>2, <4>1, <4>2
    <3>2. CASE key \in DOMAIN pool
      BY <2>2, <3>1, <3>2
    <3>3. CASE key \notin DOMAIN pool
      <4>1. ps = Put(Drop(pool, {own}), key, pool[own])
        BY <2>2, <3>3
      <4>2. /\ DOMAIN Drop(pool, {own}) = DOMAIN pool \ {own}
            /\ \A k \in DOMAIN pool \ {own} : Drop(pool, {own})[k] = pool[k]
        BY DropFacts
      <4>. HIDE DEF ps, own, key
      <4>. QED
        BY <3>1, <3>3, <4>1, <4>2 DEF Put
    <3>. QED
      BY <3>2, <3>3
  <2>. HIDE DEF rs, ps
  <2>6. Listed(rs, ps)
    <3>0. Listed(running, pool)
      BY DEF Requests
    <3>1. \A j \in DOMAIN rs : j \in Ids /\ rs[j] \in Resolving
      BY <2>3, <2>4, <3>0 DEF Listed
    <3>2. \A k \in DOMAIN ps : ps[k] \in Entry
      BY <2>2, <2>5, <3>0 DEF Listed
    <3>3. ASSUME NEW j \in DOMAIN rs
          PROVE  /\ <<rs[j].name, rs[j].generation>> \in DOMAIN ps
                 /\ ps[<<rs[j].name, rs[j].generation>>].id = j
      <4>1. CASE j = i
        BY <2>2, <2>3, <2>4, <2>5, <4>1
      <4>2. CASE j # i
        <5>. DEFINE k == <<running[j].name, running[j].generation>>
        <5>1. k \in DOMAIN pool /\ pool[k].id = j /\ rs[j] = running[j]
          BY <2>3, <3>0, <4>2 DEF Listed
        <5>2. k # own
          BY <2>2, <4>2, <5>1
        <5>3. k \in DOMAIN ps /\ ps[k] = pool[k]
          BY <2>5, <5>1, <5>2
        <5>. QED
          BY <5>1, <5>3
      <4>. QED
        BY <4>1, <4>2
    <3>4. ASSUME NEW k \in DOMAIN ps
          PROVE  /\ ps[k].id \in DOMAIN rs
                 /\ k = <<rs[ps[k].id].name, rs[ps[k].id].generation>>
      <4>1. CASE k = key
        BY <1>2, <2>2, <2>3, <2>4, <2>5, <4>1
      <4>2. CASE k # key
        <5>1. k \in DOMAIN pool /\ k # own /\ ps[k] = pool[k]
          BY <2>5, <4>2
        <5>2. /\ pool[k].id \in DOMAIN running
              /\ k = <<running[pool[k].id].name, running[pool[k].id].generation>>
          BY <3>0, <5>1 DEF Listed
        <5>3. pool[k].id # i
          BY <5>1, <5>2
        <5>. QED
          BY <2>3, <5>1, <5>2, <5>3
      <4>. QED
        BY <4>1, <4>2
    <3>. QED
      BY <3>1, <3>2, <3>3, <3>4 DEF Listed
  <2>7. Waits(ps, client, asked)
    <3>1. own[1] = key[1]
      OBVIOUS
    <3>. HIDE DEF own, key, now
    <3>. QED
      BY <2>2, <2>5, <3>1 DEF Requests, Waits
  <2>. QED
    BY <2>1, <2>3, <2>6, <2>7 DEF Requests
<1>. QED
  BY <1>1, <1>2

\* dispatch gives the resolution to a worker, or completes it with a failure.
LEMMA DispatchesRequests ==
    ASSUME NEW rs, NEW ps, NEW ws, NEW i \in Ids, Requests(rs, ps, client, asked),
           Current(client, cache, held), left \in [Ids -> 0..Timeout], generation \in Nat,
           Dispatches(i, ws, rs, ps)
    PROVE  /\ Requests(running', pool', client', asked) /\ Current(client', cache', held')
           /\ \/ /\ DOMAIN running' = DOMAIN rs /\ inflight' = inflight \cup {i}
                 /\ workers' = Put(ws, i, [settings |-> generation, state |-> "running"])
              \/ /\ DOMAIN running' = DOMAIN rs \ {i} /\ inflight' = inflight \ {i}
                 /\ workers' = ws
<1>. DEFINE why == Failure(IF left[i] = 0 THEN "incomplete" ELSE "overloaded")
<1>1. CASE /\ workers' = Put(ws, i, [settings |-> generation, state |-> "running"])
           /\ inflight' = inflight \cup {i} /\ running' = rs /\ pool' = ps
           /\ UNCHANGED <<cache, held, client>>
  BY <1>1
<1>2. CASE /\ Completes(i, why, rs, ps) /\ workers' = ws /\ inflight' = inflight \ {i}
  <2>1. why.kind \notin {"ok", "signed"}
    BY DEF Failure
  <2>2. \A j \in DOMAIN rs : rs[j].name \in Names
    BY DEF Requests, Listed, Resolving
  <2>. HIDE DEF why
  <2>3. Requests(running', pool', client', asked) /\ DOMAIN running' = DOMAIN rs \ {i}
    BY <1>2, CompletesRequests
  <2>4. Current(client', cache', held')
    BY <1>2, <2>1, <2>2, CompletesCurrent
  <2>. QED
    BY <1>2, <2>3, <2>4
<1>. QED
  BY <1>1, <1>2 DEF Dispatches

-----------------------------------------------------------------------------
(* The steps. *)

\* A new runtime has no requests and no threads.
LEMMA InitIInv == Init => IInv
<1>. SUFFICES ASSUME Init PROVE IInv
  OBVIOUS
<1>. USE DEF Init
<1>0. DOMAIN None = {}
  BY DEF None
<1>. HIDE DEF None
<1>1. Basics
  <2>1. MaxId \in Nat /\ Timeout \in Nat /\ FollowInterval \in Nat
    BY RuntimeAssumption
  <2>2. left \in [Ids -> 0..Timeout]
    BY <2>1
  <2>3. asked \in [Clients -> Names \cup {Refused}]
    OBVIOUS
  <2>4. file \in Nat /\ text \in Nat /\ next \in Nat /\ generation \in Nat
    BY <2>1
  <2>5. nextId \in Nat /\ nextId > 0 /\ nextId <= MaxId + 1
    BY <2>1
  <2>. QED
    BY <2>2, <2>3, <2>4, <2>5 DEF Basics
<1>2. Requests(running, pool, client, asked)
  BY <1>0 DEF Requests, Listed, Waits, Views
<1>3. Current(client, cache, held)
  BY <1>0 DEF Current
<1>4. Records /\ Threads
  BY <1>0 DEF Records, Threads
<1>. QED
  BY <1>1, <1>2, <1>3, <1>4 DEF IInv

\* The invariant says what the properties say.
LEMMA InvariantParts ==
    ASSUME IInv
    PROVE  BooksAgree /\ NoOldAnswer
<1>. USE DEF IInv
<1>1. PoolAgrees /\ WaitsOnce
  BY RequestsAgree
<1>2. NoOldAnswer
  BY DEF Current, NoOldAnswer
<1>3. EveryTaskHeld
  BY DEF Threads, Records, EveryTaskHeld
<1>4. TypeOK
  <2>1. nextId \in 1..(MaxId + 1)
    BY RuntimeAssumption DEF Basics
  <2>2. /\ DOMAIN running \subseteq Ids /\ DOMAIN workers \subseteq Ids
        /\ DOMAIN adoption \subseteq Ids
        /\ inflight \cup adopting \cup tasks \cup retired \subseteq Ids
    BY DEF Records
  <2>3. /\ \A i \in DOMAIN running : running[i].name \in Names
        /\ \A k \in DOMAIN pool : pool[k].waiters \subseteq Clients
        /\ client \in [Clients -> Answers \cup Unanswered \cup {"idle"}]
    BY DEF Requests, Listed, Resolving, Entry, Views
  <2>4. /\ DOMAIN cache \cup DOMAIN held \subseteq Names
        /\ \A n \in DOMAIN cache : cache[n].left \in Nat
    BY DEF Current, Kept
  <2>. QED
    BY <2>1, <2>2, <2>3, <2>4 DEF Basics, TypeOK
<1>. QED
  BY <1>1, <1>2, <1>3, <1>4 DEF BooksAgree

\* The steps of a poll that only move on: what the requests and the threads hold stays.
LEMMA PassStep ==
    ASSUME IInv,
           \/ AdoptionsCollected \/ WorkersCollected \/ Accepted \/ PollEnds \/ Stop
           \/ HostChanges \/ UNCHANGED vars
    PROVE  IInv'
<1>. USE DEF IInv
<1>. USE DEF AdoptionsCollected, WorkersCollected, Accepted, PollEnds, Stop, HostChanges,
             vars, settingsVars, requestVars, workVars, clientVars
<1>1. /\ UNCHANGED <<text, next, generation, running, pool, nextId, left, cache, held, workers,
                     inflight, adoption, adopting, retired, tasks, faulted, asked, client>>
      /\ file' \in Nat
  BY DEF Basics
<1>s. stopping' \in BOOLEAN /\ (~stopping' => ~stopping)
  BY DEF Basics
<1>2. pc' \in {"idle", "adoptions", "workers", "expire", "accept", "dispatch"}
      /\ (pc' \notin {"accept", "dispatch"} => tasks' = {})
  BY DEF Basics, Records
<1>3. Basics'
  BY <1>1, <1>s, <1>2 DEF Basics
<1>4. Requests(running, pool, client, asked)' /\ Current(client, cache, held)'
  BY <1>1 DEF Current
<1>5. Records' /\ Threads'
  BY <1>1, <1>s, <1>2 DEF Records, Threads
<1>. QED
  BY <1>3, <1>4, <1>5

\* Following a change retires whatever runs and empties what is kept.
LEMMA PollBeginsStep ==
    ASSUME IInv, PollBegins
    PROVE  IInv'
<1>. USE DEF IInv
<1>1. /\ UNCHANGED <<file, running, pool, nextId, left, workers, inflight, adoption, adopting,
                     tasks, stopping, faulted, asked, client>>
      /\ pc' = "adoptions" /\ next' \in Nat /\ tasks = {}
  <2>1. FollowNext \in Nat
    BY RuntimeAssumption DEF FollowNext, Basics
  <2>. QED
    BY <2>1 DEF PollBegins, clientVars, Polls, Records
<1>2. Requests(running, pool, client, asked)'
  BY <1>1 DEF Requests, Listed, Waits
<1>3. CASE next = 0 /\ file # text
  <2>1. /\ text' = file /\ generation' = generation + 1 /\ cache' = None /\ held' = None
        /\ retired' = retired \cup inflight \cup adopting
    BY <1>3 DEF PollBegins, Replace
  <2>2. Basics'
    BY <1>1, <2>1 DEF Basics
  <2>3. Current(client, cache, held)'
    BY <1>1, <2>1 DEF Current, None
  <2>4. Records'
    BY <1>1, <2>1 DEF Records
  <2>5. Threads'
    BY <1>1, <2>1 DEF Threads
  <2>. QED
    BY <1>2, <2>2, <2>3, <2>4, <2>5
<1>4. CASE ~(next = 0 /\ file # text)
  <2>1. UNCHANGED <<text, generation, cache, held, retired>>
    BY <1>4 DEF PollBegins
  <2>2. Basics'
    BY <1>1, <2>1 DEF Basics
  <2>3. Current(client, cache, held)'
    BY <1>1, <2>1 DEF Current
  <2>4. Records' /\ Threads'
    BY <1>1, <2>1 DEF Records, Threads
  <2>. QED
    BY <1>2, <2>2, <2>3, <2>4
<1>. QED
  BY <1>3, <1>4

\* A change of what the clients see that no waiter is concerned by.
LEMMA OthersSee ==
    ASSUME IInv, client' \in [Clients -> Views], UNCHANGED <<running, pool>>,
           \A c \in Clients : \/ client'[c] = client[c] /\ asked'[c] = asked[c]
                              \/ client[c] # "waiting" /\ client'[c] # "waiting"
    PROVE  Requests(running, pool, client, asked)'
<1>1. Listed(running, pool)'
  BY DEF IInv, Requests, Listed
<1>2. Waits(pool, client, asked)'
  <2>. SUFFICES ASSUME NEW c \in Clients
                PROVE  /\ client'[c] = "waiting" <=> \E k \in DOMAIN pool : c \in pool[k].waiters
                       /\ \A k \in DOMAIN pool : c \in pool[k].waiters =>
                            k[1] = asked'[c] /\ \A l \in DOMAIN pool : c \in pool[l].waiters => l = k
    BY DEF Waits
  <2>1. Waits(pool, client, asked)
    BY DEF IInv, Requests
  <2>2. CASE client'[c] = client[c] /\ asked'[c] = asked[c]
    BY <2>1, <2>2 DEF Waits
  <2>3. CASE client[c] # "waiting" /\ client'[c] # "waiting"
    BY <2>1, <2>3 DEF Waits
  <2>. QED
    BY <2>2, <2>3
<1>. QED
  BY <1>1, <1>2 DEF Requests

\* A query arrives and is taken at the next poll (accept): nobody waits for it yet.
LEMMA ClientStep ==
    ASSUME IInv,
           Expired \/ \E c \in Clients, n \in Names \cup {Refused} : Ask(c, n)
    PROVE  IInv'
<1>. USE DEF IInv
<1>1. client \in [Clients -> Views] /\ \A c \in Clients : client[c] # "old"
  BY DEF Requests, Current
<1>2. /\ UNCHANGED <<file, text, next, generation, running, pool, nextId, left, cache, held,
                     workers, inflight, adoption, adopting, retired, tasks, stopping, faulted>>
      /\ (pc' = pc \/ (pc = "expire" /\ pc' = "accept"))
  BY DEF Expired, Ask, settingsVars, requestVars, workVars
<1>3. /\ client' \in [Clients -> Views] /\ asked' \in [Clients -> Names \cup {Refused}]
      /\ \A c \in Clients : client'[c] # "old"
      /\ \A c \in Clients : \/ client'[c] = client[c] /\ asked'[c] = asked[c]
                            \/ client[c] # "waiting" /\ client'[c] # "waiting"
  <2>0. asked \in [Clients -> Names \cup {Refused}]
    BY DEF Basics
  <2>1. CASE Expired
    BY <1>1, <2>0, <2>1 DEF Expired, Views, Unanswered
  <2>2. ASSUME NEW c \in Clients, NEW n \in Names \cup {Refused}, Ask(c, n)
        PROVE  /\ client' \in [Clients -> Views] /\ asked' \in [Clients -> Names \cup {Refused}]
               /\ \A d \in Clients : client'[d] # "old"
               /\ \A d \in Clients : \/ client'[d] = client[d] /\ asked'[d] = asked[d]
                                     \/ client[d] # "waiting" /\ client'[d] # "waiting"
    BY <1>1, <2>0, <2>2 DEF Ask, Views, Unanswered
  <2>. QED
    BY <2>1, <2>2
<1>4. Basics'
  BY <1>2, <1>3 DEF Basics
<1>5. Requests(running, pool, client, asked)'
  BY <1>2, <1>3, OthersSee
<1>6. Current(client, cache, held)'
  BY <1>2, <1>3 DEF Current
<1>7. Records' /\ Threads'
  BY <1>2 DEF Records, Threads
<1>. QED
  BY <1>4, <1>5, <1>6, <1>7

\* Time runs off the deadlines, the cached answers and the held failures.
LEMMA TickStep ==
    ASSUME IInv, Tick
    PROVE  IInv'
<1>. USE DEF IInv
<1>1. UNCHANGED <<pc, file, text, generation, running, pool, nextId, workers, inflight, adoption,
                  adopting, retired, tasks, stopping, faulted, asked, client>>
  BY DEF Tick, workVars, clientVars
<1>2. \A t \in Nat : Less(t) \in Nat /\ Less(t) <= t
  BY DEF Less
<1>3. next' \in Nat
  BY <1>2 DEF Tick, Basics
<1>4. left' \in [Ids -> 0..Timeout]
  <2>1. left' = [i \in Ids |-> Less(left[i])] /\ Timeout \in Nat
    BY RuntimeAssumption DEF Tick
  <2>2. \A i \in Ids : left[i] \in Nat /\ left[i] <= Timeout
    BY <2>1 DEF Basics
  <2>3. \A i \in Ids : Less(left[i]) \in 0..Timeout
    BY <1>2, <2>1, <2>2
  <2>. QED
    BY <2>1, <2>3
<1>5. Basics'
  BY <1>1, <1>3, <1>4 DEF Basics
<1>6. Requests(running, pool, client, asked)'
  BY <1>1
<1>7. Current(client, cache, held)'
  <2>1. /\ cache' = [n \in DOMAIN cache |-> [cache[n] EXCEPT !.left = Less(@)]]
        /\ DOMAIN held' = DOMAIN held
    BY DEF Tick
  <2>2. ASSUME NEW n \in DOMAIN cache
        PROVE  /\ cache'[n] \in Kept /\ n \in Names
               /\ cache'[n].left > 0 => cache'[n].settings = generation
    <3>1. /\ cache[n] \in Kept /\ n \in Names
          /\ cache[n].left > 0 => cache[n].settings = generation
      BY DEF Current
    <3>2. cache'[n] = [left |-> Less(cache[n].left), settings |-> cache[n].settings]
      BY <2>1, <3>1 DEF Kept
    <3>3. cache[n].left \in Nat /\ cache[n].settings \in Nat
      BY <3>1 DEF Kept
    <3>. QED
      BY <1>2, <3>1, <3>2, <3>3 DEF Kept, Less
  <2>. QED
    BY <1>1, <2>1, <2>2 DEF Current
<1>8. Records' /\ Threads'
  BY <1>1 DEF Records, Threads
<1>. QED
  BY <1>5, <1>6, <1>7, <1>8

\* accept answers a query at once, lets it wait with others or starts a resolution.
LEMMA AcceptStep ==
    ASSUME IInv, NEW c \in Clients, Accept(c)
    PROVE  IInv'
<1>. USE DEF IInv
<1>. DEFINE key == <<asked[c], generation>>
<1>0. /\ pc = "accept" /\ client[c] = "received"
      /\ UNCHANGED <<pc, file, text, next, generation, cache, held, workers, inflight, adoption,
                     adopting, retired, stopping, faulted, asked>>
  BY DEF Accept, settingsVars
<1>1. /\ client \in [Clients -> Views] /\ generation \in Nat /\ asked[c] \in Names \cup {Refused}
      /\ Listed(running, pool) /\ Waits(pool, client, asked)
      /\ \A k \in DOMAIN pool : c \notin pool[k].waiters
  BY <1>0 DEF Requests, Basics, Waits
<1>2. CASE \E what \in {"refused", "servfail", "answer"} : Answer(c, what)
  <2>1. PICK what \in {"refused", "servfail", "answer"} : Answer(c, what)
    BY <1>2
  <2>2. /\ UNCHANGED <<running, pool, nextId, left, tasks>>
        /\ client' = [client EXCEPT ![c] = what]
    BY <2>1 DEF Answer
  <2>3. Requests(running, pool, client, asked)'
    BY <1>0, <1>1, <2>2, OthersSee DEF Views, Answers
  <2>4. Current(client, cache, held)'
    BY <1>0, <1>1, <2>2 DEF Current
  <2>5. Basics' /\ Records' /\ Threads'
    BY <1>0, <2>2 DEF Basics, Records, Threads
  <2>. QED
    BY <2>3, <2>4, <2>5
<1>3. CASE /\ key \in DOMAIN pool
           /\ pool' = [pool EXCEPT ![key].waiters = @ \cup {c}]
           /\ client' = [client EXCEPT ![c] = "waiting"]
           /\ UNCHANGED <<running, nextId, left, tasks>>
  <2>1. /\ DOMAIN pool' = DOMAIN pool
        /\ \A k \in DOMAIN pool : k # key => pool'[k] = pool[k]
        /\ pool'[key] = [id |-> pool[key].id, waiters |-> pool[key].waiters \cup {c},
                         asker |-> pool[key].asker]
    BY <1>1, <1>3 DEF Listed, Entry
  <2>2. Listed(running, pool)'
    <3>1. pool'[key] \in Entry /\ pool'[key].id = pool[key].id
      BY <1>1, <1>3, <2>1 DEF Listed, Entry
    <3>. HIDE DEF key
    <3>. QED
      BY <1>1, <1>3, <2>1, <3>1 DEF Listed
  <2>3. Waits(pool, client, asked)'
    <3>0. key[1] = asked[c]
      OBVIOUS
    <3>1. key[1] = asked[c] /\ pool'[key].waiters = pool[key].waiters \cup {c}
      <4>. HIDE DEF key
      <4>. QED
        BY <2>1, <3>0
    <3>2. \A k \in DOMAIN pool : k # key => pool'[k].waiters = pool[k].waiters
      BY <2>1
    <3>3. client'[c] = "waiting" /\ \A d \in Clients : d # c => client'[d] = client[d]
      BY <1>1, <1>3
    <3>. HIDE DEF key
    <3>. SUFFICES ASSUME NEW d \in Clients
                  PROVE  /\ client'[d] = "waiting" <=> \E k \in DOMAIN pool : d \in pool'[k].waiters
                         /\ \A k \in DOMAIN pool : d \in pool'[k].waiters =>
                              /\ k[1] = asked[d]
                              /\ \A l \in DOMAIN pool : d \in pool'[l].waiters => l = k
      BY <1>0, <2>1 DEF Waits
    <3>4. CASE d = c
      BY <1>1, <1>3, <3>1, <3>2, <3>3, <3>4
    <3>5. CASE d # c
      <4>1. \A k \in DOMAIN pool : d \in pool'[k].waiters <=> d \in pool[k].waiters
        BY <3>1, <3>2, <3>5
      <4>. QED
        BY <1>1, <3>3, <3>5, <4>1 DEF Waits
    <3>. QED
      BY <3>4, <3>5
  <2>4. client' \in [Clients -> Views]
    BY <1>1, <1>3 DEF Views, Unanswered
  <2>5. Current(client, cache, held)'
    BY <1>0, <1>1, <1>3 DEF Current
  <2>6. Basics' /\ Records' /\ Threads'
    BY <1>0, <1>3 DEF Basics, Records, Threads
  <2>. QED
    BY <2>2, <2>3, <2>4, <2>5, <2>6 DEF Requests
<1>4. CASE /\ asked[c] \in Names /\ key \notin DOMAIN pool /\ Fresh
           /\ pool' = Put(pool, key, [id |-> nextId, waiters |-> {c}, asker |-> c])
           /\ running' = Put(running, nextId, [name |-> asked[c], generation |-> generation])
           /\ left' = [left EXCEPT ![nextId] = Timeout] /\ nextId' = nextId + 1
           /\ tasks' = tasks \cup {nextId}
           /\ client' = [client EXCEPT ![c] = "waiting"]
  <2>1. /\ nextId \in Ids /\ nextId \in Nat /\ Timeout \in Nat /\ MaxId \in Nat
        /\ nextId <= MaxId
        /\ \A i \in DOMAIN running \cup DOMAIN workers \cup DOMAIN adoption \cup tasks :
              i \in Ids /\ i \in Nat /\ i < nextId
    <3>1. /\ nextId \in Ids /\ nextId \in Nat /\ Timeout \in Nat /\ MaxId \in Nat
          /\ nextId <= MaxId
      BY <1>4, RuntimeAssumption DEF Basics, Ids, Fresh
    <3>2. \A i \in DOMAIN running \cup DOMAIN workers \cup DOMAIN adoption \cup tasks :
             i \in Ids /\ i < nextId
      BY DEF Records
    <3>3. Ids \subseteq Nat
      BY <3>1 DEF Ids
    <3>. QED
      BY <3>1, <3>2, <3>3
  <2>2. nextId \notin DOMAIN running \cup DOMAIN workers \cup DOMAIN adoption \cup tasks
    BY <2>1
  <2>3. /\ DOMAIN pool' = DOMAIN pool \cup {key}
        /\ \A k \in DOMAIN pool : k # key => pool'[k] = pool[k]
        /\ pool'[key] = [id |-> nextId, waiters |-> {c}, asker |-> c]
    BY <1>4 DEF Put
  <2>4. /\ DOMAIN running' = DOMAIN running \cup {nextId}
        /\ \A i \in DOMAIN running : i # nextId => running'[i] = running[i]
        /\ running'[nextId] = [name |-> asked[c], generation |-> generation]
    BY <1>4 DEF Put
  <2>5. Listed(running, pool)'
    <3>1. running'[nextId] \in Resolving /\ pool'[key] \in Entry /\ pool'[key].id = nextId
      <4>1. [name |-> asked[c], generation |-> generation] \in Resolving
        BY <1>1, <1>4 DEF Resolving
      <4>2. [id |-> nextId, waiters |-> {c}, asker |-> c] \in Entry
        BY <2>1 DEF Entry
      <4>. HIDE DEF key
      <4>. QED
        BY <2>3, <2>4, <4>1, <4>2
    <3>2. key = <<running'[nextId].name, running'[nextId].generation>>
      BY <2>4
    <3>. HIDE DEF key
    <3>3. \A i \in DOMAIN running' : i \in Ids /\ running'[i] \in Resolving
      BY <1>1, <2>1, <2>4, <3>1 DEF Listed
    <3>4. \A k \in DOMAIN pool' : pool'[k] \in Entry
      BY <1>1, <2>3, <3>1 DEF Listed
    <3>5. ASSUME NEW i \in DOMAIN running'
          PROVE  /\ <<running'[i].name, running'[i].generation>> \in DOMAIN pool'
                 /\ pool'[<<running'[i].name, running'[i].generation>>].id = i
      <4>1. CASE i = nextId
        BY <2>3, <3>1, <3>2, <4>1
      <4>2. CASE i # nextId
        <5>1. i \in DOMAIN running /\ running'[i] = running[i]
          BY <2>4, <4>2
        <5>2. /\ <<running[i].name, running[i].generation>> \in DOMAIN pool
              /\ pool[<<running[i].name, running[i].generation>>].id = i
          BY <1>1, <5>1 DEF Listed
        <5>. QED
          BY <1>4, <2>3, <5>1, <5>2
      <4>. QED
        BY <4>1, <4>2
    <3>6. ASSUME NEW k \in DOMAIN pool'
          PROVE  /\ pool'[k].id \in DOMAIN running'
                 /\ k = <<running'[pool'[k].id].name, running'[pool'[k].id].generation>>
      <4>1. CASE k = key
        BY <2>4, <3>1, <3>2, <4>1
      <4>2. CASE k # key
        <5>1. k \in DOMAIN pool /\ pool'[k] = pool[k]
          BY <2>3, <4>2
        <5>2. /\ pool[k].id \in DOMAIN running
              /\ k = <<running[pool[k].id].name, running[pool[k].id].generation>>
          BY <1>1, <5>1 DEF Listed
        <5>3. running'[pool[k].id] = running[pool[k].id]
          BY <2>2, <2>4, <5>2
        <5>. QED
          BY <2>4, <5>1, <5>2, <5>3
      <4>. QED
        BY <4>1, <4>2
    <3>. QED
      BY <3>3, <3>4, <3>5, <3>6 DEF Listed
  <2>6. Waits(pool, client, asked)'
    <3>1. key[1] = asked[c] /\ pool'[key].waiters = {c}
      BY <2>3
    <3>2. \A k \in DOMAIN pool : k # key /\ pool'[k].waiters = pool[k].waiters
      BY <1>4, <2>3
    <3>3. client'[c] = "waiting" /\ \A d \in Clients : d # c => client'[d] = client[d]
      BY <1>1, <1>4
    <3>. HIDE DEF key
    <3>. SUFFICES ASSUME NEW d \in Clients
                  PROVE  /\ client'[d] = "waiting" <=> \E k \in DOMAIN pool' : d \in pool'[k].waiters
                         /\ \A k \in DOMAIN pool' : d \in pool'[k].waiters =>
                              /\ k[1] = asked[d]
                              /\ \A l \in DOMAIN pool' : d \in pool'[l].waiters => l = k
      BY <1>0 DEF Waits
    <3>4. CASE d = c
      BY <1>1, <2>3, <3>1, <3>2, <3>3, <3>4
    <3>5. CASE d # c
      <4>1. d \notin pool'[key].waiters
        BY <3>1, <3>5
      <4>2. \A k \in DOMAIN pool : d \in pool'[k].waiters <=> d \in pool[k].waiters
        BY <3>2
      <4>. QED
        BY <1>1, <2>3, <3>3, <3>5, <4>1, <4>2 DEF Waits
    <3>. QED
      BY <3>4, <3>5
  <2>7. client' \in [Clients -> Views]
    BY <1>1, <1>4 DEF Views, Unanswered
  <2>8. Current(client, cache, held)'
    BY <1>0, <1>1, <1>4 DEF Current
  <2>9. left' \in [Ids -> 0..Timeout]
    <3>1. left \in [Ids -> 0..Timeout] /\ Timeout \in 0..Timeout
      BY <2>1 DEF Basics
    <3>. QED
      BY <1>4, <2>1, <3>1
  <2>10. nextId' \in Nat /\ nextId' > 0 /\ nextId' <= MaxId + 1 /\ nextId < nextId'
    <3>1. nextId + 1 \in Nat /\ nextId + 1 > 0 /\ nextId + 1 <= MaxId + 1 /\ nextId < nextId + 1
      BY <2>1
    <3>. QED
      BY <1>4, <3>1
  <2>11. Basics'
    BY <1>0, <2>9, <2>10 DEF Basics
  <2>12. Records'
    <3>1. \A i \in DOMAIN running' \cup DOMAIN workers \cup DOMAIN adoption \cup tasks' :
             i \in Ids /\ i < nextId'
      <4>1. \A i \in DOMAIN running \cup DOMAIN workers \cup DOMAIN adoption \cup tasks :
               i \in Ids /\ i < nextId'
        BY <2>1, <2>10
      <4>2. /\ DOMAIN running' = DOMAIN running \cup {nextId}
            /\ tasks' = tasks \cup {nextId} /\ nextId \in Ids /\ nextId < nextId'
        BY <1>4, <2>1, <2>4, <2>10
      <4>. QED
        BY <4>1, <4>2
    <3>. QED
      BY <1>0, <3>1 DEF Records
  <2>13. Threads'
    BY <1>0, <1>4, <2>2, <2>4 DEF Threads
  <2>. QED
    BY <2>5, <2>6, <2>7, <2>8, <2>11, <2>12, <2>13 DEF Requests
<1>. QED
  <2>1. \A n \in DOMAIN cache : cache[n].left > 0 => cache[n].settings = generation
    BY DEF Current
  <2>. HIDE DEF IInv
  <2>. QED
    BY <1>2, <1>3, <1>4, <2>1 DEF Accept

\* expire takes what is due out of both lists; its thread is collected later.
LEMMA ExpireStep ==
    ASSUME IInv, NEW i \in Ids, Expire(i)
    PROVE  IInv'
<1>. USE DEF IInv
<1>1. /\ UNCHANGED <<pc, file, text, next, generation, nextId, left, workers, inflight, adoption,
                     adopting, retired, tasks, stopping, faulted, asked>>
      /\ Completes(i, Failure("incomplete"), running, pool)
  BY DEF Expire, settingsVars, workVars
<1>2. /\ Failure("incomplete").kind \notin {"ok", "signed"}
      /\ generation \in Nat /\ left \in [Ids -> 0..Timeout]
      /\ \A j \in DOMAIN running : running[j].name \in Names
  BY DEF Failure, Basics, Requests, Listed, Resolving
<1>3. Requests(running', pool', client', asked) /\ DOMAIN running' = DOMAIN running \ {i}
  BY <1>1, CompletesRequests
<1>4. Current(client', cache', held')
  BY <1>1, <1>2, CompletesCurrent
<1>5. Basics' /\ Requests(running, pool, client, asked)' /\ Current(client, cache, held)'
  BY <1>1, <1>3, <1>4 DEF Basics, Current
<1>6. Records' /\ Threads'
  BY <1>1, <1>3 DEF Records, Threads
<1>. QED
  BY <1>5, <1>6

\* A new resolution is given to a worker, or fails at once (dispatch).
LEMMA DispatchStep ==
    ASSUME IInv, NEW i \in Ids, Dispatch(i)
    PROVE  IInv'
<1>. USE DEF IInv
<1>. DEFINE new == [settings |-> generation, state |-> "running"]
<1>1. /\ UNCHANGED <<pc, file, text, next, generation, nextId, left, adoption, adopting, retired,
                     stopping, faulted, asked>>
      /\ pc = "dispatch" /\ i \in tasks /\ tasks' = tasks \ {i}
      /\ Dispatches(i, workers, running, pool)
  BY DEF Dispatch, settingsVars
<1>2. generation \in Nat /\ left \in [Ids -> 0..Timeout] /\ new \in Work /\ new.settings = generation
  BY DEF Basics, Work
<1>3. /\ Requests(running', pool', client', asked) /\ Current(client', cache', held')
      /\ \/ /\ DOMAIN running' = DOMAIN running /\ inflight' = inflight \cup {i}
            /\ workers' = Put(workers, i, new)
         \/ /\ DOMAIN running' = DOMAIN running \ {i} /\ inflight' = inflight \ {i}
            /\ workers' = workers
  BY <1>1, <1>2, DispatchesRequests
<1>. HIDE DEF new
<1>4. Basics' /\ Requests(running, pool, client, asked)' /\ Current(client, cache, held)'
  BY <1>1, <1>3 DEF Basics, Current
<1>5. CASE /\ DOMAIN running' = DOMAIN running /\ inflight' = inflight \cup {i}
           /\ workers' = Put(workers, i, new)
  <2>1. /\ DOMAIN workers' = DOMAIN workers \cup {i} /\ workers'[i] = new
        /\ \A j \in DOMAIN workers : j # i => workers'[j] = workers[j]
    BY <1>5 DEF Put
  <2>2. Records'
    BY <1>1, <1>2, <1>5, <2>1 DEF Records
  <2>3. Threads'
    BY <1>1, <1>2, <1>5, <2>1 DEF Threads
  <2>. QED
    BY <1>4, <2>2, <2>3
<1>6. CASE /\ DOMAIN running' = DOMAIN running \ {i} /\ inflight' = inflight \ {i}
           /\ workers' = workers
  <2>1. Records' /\ Threads'
    BY <1>1, <1>6 DEF Records, Threads
  <2>. QED
    BY <1>4, <2>1
<1>. QED
  BY <1>3, <1>5, <1>6

\* The threads end in any order; a candidate moves only towards its result.
LEMMA ThreadStep ==
    ASSUME IInv, NEW i \in Ids,
           \/ \E state \in {"candidate", "signed", "failed", "denied", "panicked"} :
                 WorkerEnds(i, state)
           \/ Adopts(i)
    PROVE  IInv'
<1>. USE DEF IInv
<1>1. /\ UNCHANGED <<pc, file, text, next, generation, running, pool, nextId, left, cache, held,
                     inflight, adopting, retired, tasks, stopping, faulted, asked, client>>
  BY DEF WorkerEnds, Adopts, Adoption, settingsVars, requestVars, clientVars
<1>2. /\ DOMAIN workers' = DOMAIN workers /\ DOMAIN adoption' = DOMAIN adoption
      /\ \A j \in DOMAIN workers : workers'[j] \in Work /\ workers'[j].settings = workers[j].settings
      /\ \A j \in DOMAIN adoption :
            adoption'[j] \in Candidate /\ adoption'[j].settings = adoption[j].settings
  <2>1. ASSUME NEW state \in {"candidate", "signed", "failed", "denied", "panicked"},
               WorkerEnds(i, state)
        PROVE  /\ DOMAIN workers' = DOMAIN workers /\ adoption' = adoption
               /\ \A j \in DOMAIN workers :
                     workers'[j] \in Work /\ workers'[j].settings = workers[j].settings
    BY <2>1 DEF WorkerEnds, Records, Work
  <2>2. CASE Adopts(i)
    <3>1. PICK state \in {"locked", "query", "ok", "signed", "enforcement"} : Adoption(i, state)
      BY <2>2 DEF Adopts
    <3>2. adoption' = [adoption EXCEPT ![i].state = state] /\ workers' = workers
      BY <3>1 DEF Adoption
    <3>. QED
      BY <3>2 DEF Records, Candidate
  <2>. QED
    BY <2>1, <2>2 DEF Records
<1>3. Basics' /\ Requests(running, pool, client, asked)' /\ Current(client, cache, held)'
  BY <1>1 DEF Basics, Current
<1>4. Records' /\ Threads'
  BY <1>1, <1>2 DEF Records, Threads
<1>. QED
  BY <1>3, <1>4

\* A question that is asked again stays in both lists unless it is answered.
LEMMA AskAgainRequests ==
    ASSUME IInv, NEW ws, NEW i \in Ids, AskAgain(i, ws)
    PROVE  /\ Requests(running', pool', client', asked) /\ Current(client', cache', held')
           /\ \/ /\ DOMAIN running' = DOMAIN running /\ inflight' = inflight \cup {i}
                 /\ workers' = Put(ws, i, [settings |-> generation, state |-> "running"])
              \/ /\ DOMAIN running' = DOMAIN running \ {i} /\ inflight' = inflight \ {i}
                 /\ workers' = ws
<1>. DEFINE rs == Rekeyed(i)[1]
            ps == Rekeyed(i)[2]
<1>1. /\ generation \in Nat /\ left \in [Ids -> 0..Timeout] /\ Current(client, cache, held)
      /\ Requests(running, pool, client, asked)
  BY DEF IInv, Basics
<1>2. Dispatches(i, ws, rs, ps)
  BY DEF AskAgain
<1>3. Requests(rs, ps, client, asked) /\ DOMAIN rs = DOMAIN running
  BY <1>1, RekeyedRequests
<1>. HIDE DEF rs, ps
<1>. QED
  <2>1. /\ Requests(running', pool', client', asked) /\ Current(client', cache', held')
        /\ \/ /\ DOMAIN running' = DOMAIN rs /\ inflight' = inflight \cup {i}
              /\ workers' = Put(ws, i, [settings |-> generation, state |-> "running"])
           \/ /\ DOMAIN running' = DOMAIN rs \ {i} /\ inflight' = inflight \ {i}
              /\ workers' = ws
    BY <1>1, <1>2, <1>3, DispatchesRequests
  <2>. QED
    BY <1>3, <2>1

\* collect_adoptions: a retired candidate is asked again, any other is current.
LEMMA CollectAdoptionStep ==
    ASSUME IInv, NEW i \in Ids, CollectAdoption(i)
    PROVE  IInv'
<1>. USE DEF IInv
<1>. DEFINE new == [settings |-> generation, state |-> "running"]
<1>0. /\ UNCHANGED <<file, text, next, generation, nextId, left, asked>>
      /\ pc = "adoptions" /\ i \in DOMAIN adoption /\ adopting' = adopting \ {i}
      /\ adoption[i].state \in {"ok", "signed", "query", "enforcement"}
      /\ generation \in Nat /\ left \in [Ids -> 0..Timeout] /\ tasks = {}
      /\ new \in Work /\ new.settings = generation /\ adoption[i] \in Candidate
  BY DEF CollectAdoption, settingsVars, Basics, Records, Work
<1>1. CASE adoption[i].state = "enforcement"
  <2>1. /\ adoption' = Drop(adoption, {j \in DOMAIN adoption :
                              adoption[j].state \notin {"queued", "locked"}})
        /\ PollFails
        /\ UNCHANGED <<running, pool, cache, held, client, workers, inflight, retired>>
    BY <1>1 DEF CollectAdoption
  <2>2. \A j \in DOMAIN adoption' : j \in DOMAIN adoption /\ adoption'[j] = adoption[j]
    BY <2>1 DEF Drop, Restrict
  <2>3. pc' = "idle" /\ stopping' = TRUE /\ faulted' = TRUE /\ tasks' = {}
    BY <2>1 DEF PollFails
  <2>4. Basics' /\ Threads'
    BY <1>0, <2>1, <2>3 DEF Basics, Threads
  <2>5. Records'
    BY <1>0, <2>1, <2>2, <2>3 DEF Records
  <2>6. Requests(running, pool, client, asked)' /\ Current(client, cache, held)'
    BY <1>0, <2>1 DEF Current
  <2>. QED
    BY <2>4, <2>5, <2>6
<1>2. CASE adoption[i].state # "enforcement"
  <2>1. /\ adoption' = Drop(adoption, {i}) /\ retired' = retired \ {i}
        /\ UNCHANGED <<pc, tasks, stopping, faulted>>
    BY <1>2 DEF CollectAdoption
  <2>2. /\ DOMAIN adoption' = DOMAIN adoption \ {i}
        /\ \A j \in DOMAIN adoption' : adoption'[j] = adoption[j]
    BY <2>1 DEF Drop, Restrict
  <2>3. Basics'
    BY <1>0, <2>1 DEF Basics
  <2>4. CASE stopping
    <3>1. UNCHANGED <<running, pool, cache, held, client, workers, inflight>>
      BY <1>2, <2>4 DEF CollectAdoption
    <3>2. Requests(running, pool, client, asked)' /\ Current(client, cache, held)'
      BY <1>0, <3>1 DEF Current
    <3>3. Records' /\ Threads'
      BY <1>0, <2>1, <2>2, <2>4, <3>1 DEF Records, Threads
    <3>. QED
      BY <2>3, <3>2, <3>3
  <2>5. CASE ~stopping /\ i \in retired /\ i \in adopting
    <3>1. AskAgain(i, workers)
      BY <1>2, <2>5 DEF CollectAdoption
    <3>2. /\ Requests(running', pool', client', asked) /\ Current(client', cache', held')
          /\ \/ /\ DOMAIN running' = DOMAIN running /\ inflight' = inflight \cup {i}
                /\ workers' = Put(workers, i, new)
             \/ /\ DOMAIN running' = DOMAIN running \ {i} /\ inflight' = inflight \ {i}
                /\ workers' = workers
      BY <3>1, AskAgainRequests
    <3>. HIDE DEF new
    <3>3. Requests(running, pool, client, asked)' /\ Current(client, cache, held)'
      BY <1>0, <3>2 DEF Current
    <3>4. CASE /\ DOMAIN running' = DOMAIN running /\ inflight' = inflight \cup {i}
               /\ workers' = Put(workers, i, new)
      <4>1. /\ DOMAIN workers' = DOMAIN workers \cup {i} /\ workers'[i] = new
            /\ \A j \in DOMAIN workers : j # i => workers'[j] = workers[j]
        BY <3>4 DEF Put
      <4>2. Records'
        BY <1>0, <2>1, <2>2, <3>4, <4>1 DEF Records
      <4>3. Threads'
        BY <1>0, <2>1, <2>2, <3>4, <4>1 DEF Threads
      <4>. QED
        BY <2>3, <3>3, <4>2, <4>3
    <3>5. CASE /\ DOMAIN running' = DOMAIN running \ {i} /\ inflight' = inflight \ {i}
               /\ workers' = workers
      <4>1. Records' /\ Threads'
        BY <1>0, <2>1, <2>2, <2>5, <3>5 DEF Records, Threads
      <4>. QED
        BY <2>3, <3>3, <4>1
    <3>. QED
      BY <3>2, <3>4, <3>5
  <2>6. CASE ~stopping /\ ~(i \in retired /\ i \in adopting)
    <3>. DEFINE result == IF adoption[i].state = "query" THEN Failure("incomplete")
                          ELSE [kind |-> adoption[i].state, ttl |-> adoption[i].ttl,
                                settings |-> adoption[i].settings]
    <3>1. Completes(i, result, running, pool) /\ UNCHANGED <<workers, inflight>>
      BY <1>2, <2>6 DEF CollectAdoption
    <3>2. adoption[i].settings = generation /\ adoption[i].ttl \in Nat
      BY <1>0, <2>6 DEF Threads, Candidate
    <3>3. /\ result.kind \in {"ok", "signed"} => result.settings = generation /\ result.ttl \in Nat
          /\ \A j \in DOMAIN running : running[j].name \in Names
      BY <3>2 DEF Failure, Requests, Listed, Resolving
    <3>. HIDE DEF result
    <3>4. Requests(running', pool', client', asked) /\ DOMAIN running' = DOMAIN running \ {i}
      BY <3>1, CompletesRequests
    <3>5. Current(client', cache', held')
      BY <1>0, <3>1, <3>3, CompletesCurrent
    <3>6. Requests(running, pool, client, asked)' /\ Current(client, cache, held)'
      BY <1>0, <3>4, <3>5 DEF Current
    <3>7. Records' /\ Threads'
      BY <1>0, <2>1, <2>2, <2>6, <3>1, <3>4 DEF Records, Threads
    <3>. QED
      BY <2>3, <3>6, <3>7
  <2>. QED
    BY <2>4, <2>5, <2>6
<1>. QED
  BY <1>1, <1>2

\* collect_workers: a retired worker is asked again; the candidate of any other is current
\* and is handed to the adoption.
LEMMA CollectWorkerStep ==
    ASSUME IInv, NEW i \in Ids, CollectWorker(i)
    PROVE  IInv'
<1>. USE DEF IInv
<1>. DEFINE new    == [settings |-> generation, state |-> "running"]
            others == Drop(workers, {i})
            result == WorkResult(i)
            again  == i \in retired /\ i \in inflight /\ ~stopping
<1>0. /\ UNCHANGED <<file, text, next, generation, nextId, left, asked>>
      /\ pc = "workers" /\ i \in DOMAIN workers /\ retired' = retired \ {i}
      /\ generation \in Nat /\ left \in [Ids -> 0..Timeout] /\ tasks = {}
      /\ new \in Work /\ new.settings = generation /\ workers[i] \in Work
  BY DEF CollectWorker, settingsVars, Basics, Records, Work
<1>1. /\ DOMAIN others = DOMAIN workers \ {i}
      /\ \A j \in DOMAIN others : others[j] = workers[j]
  BY DEF Drop, Restrict
<1>2. \A j \in DOMAIN running : running[j].name \in Names
  BY DEF Requests, Listed, Resolving
<1>. HIDE DEF new, others
<1>3. CASE /\ again /\ AskAgain(i, others)
           /\ UNCHANGED <<pc, tasks, stopping, faulted, adoption, adopting>>
  <2>1. /\ Requests(running', pool', client', asked) /\ Current(client', cache', held')
        /\ \/ /\ DOMAIN running' = DOMAIN running /\ inflight' = inflight \cup {i}
              /\ workers' = Put(others, i, new)
           \/ /\ DOMAIN running' = DOMAIN running \ {i} /\ inflight' = inflight \ {i}
              /\ workers' = others
    BY <1>3, AskAgainRequests DEF new
  <2>2. Basics' /\ Requests(running, pool, client, asked)' /\ Current(client, cache, held)'
    BY <1>0, <1>3, <2>1 DEF Basics, Current
  <2>3. CASE /\ DOMAIN running' = DOMAIN running /\ inflight' = inflight \cup {i}
             /\ workers' = Put(others, i, new)
    <3>1. /\ DOMAIN workers' = DOMAIN workers /\ workers'[i] = new
          /\ \A j \in DOMAIN workers : j # i => workers'[j] = workers[j]
      BY <1>0, <1>1, <2>3 DEF Put
    <3>2. Records' /\ Threads'
      BY <1>0, <1>3, <2>3, <3>1 DEF Records, Threads
    <3>. QED
      BY <2>2, <3>2
  <2>4. CASE /\ DOMAIN running' = DOMAIN running \ {i} /\ inflight' = inflight \ {i}
             /\ workers' = others
    <3>1. Records' /\ Threads'
      BY <1>0, <1>1, <1>3, <2>4 DEF Records, Threads
    <3>. QED
      BY <2>2, <3>1
  <2>. QED
    BY <2>1, <2>3, <2>4
<1>4. ASSUME workers' = others, inflight' = inflight \ {i}, PollFails,
             UNCHANGED <<running, pool, cache, held, client, adoption, adopting>>
      PROVE  IInv'
  <2>1. pc' = "idle" /\ stopping' = TRUE /\ faulted' = TRUE /\ tasks' = {}
    BY <1>4 DEF PollFails
  <2>2. Basics' /\ Requests(running, pool, client, asked)' /\ Current(client, cache, held)'
    BY <1>0, <1>4, <2>1 DEF Basics, Current
  <2>3. Records' /\ Threads'
    BY <1>0, <1>1, <1>4, <2>1 DEF Records, Threads
  <2>. QED
    BY <2>2, <2>3
<1>5. ASSUME workers' = others, inflight' = inflight \ {i}, stopping,
             UNCHANGED <<pc, tasks, stopping, faulted, running, pool, cache, held, client,
                         adoption, adopting>>
      PROVE  IInv'
  <2>1. Basics' /\ Requests(running, pool, client, asked)' /\ Current(client, cache, held)'
    BY <1>0, <1>5 DEF Basics, Current
  <2>2. Records' /\ Threads'
    BY <1>0, <1>1, <1>5 DEF Records, Threads
  <2>. QED
    BY <2>1, <2>2
<1>6. ASSUME workers' = others, inflight' = inflight \ {i},
             NEW kind \in {"incomplete", "denied", "overloaded"},
             Completes(i, Failure(kind), running, pool),
             UNCHANGED <<pc, tasks, stopping, faulted, adoption, adopting>>
      PROVE  IInv'
  <2>1. Failure(kind).kind \notin {"ok", "signed"}
    BY DEF Failure
  <2>2. Requests(running', pool', client', asked) /\ DOMAIN running' = DOMAIN running \ {i}
    BY <1>6, CompletesRequests
  <2>3. Current(client', cache', held')
    BY <1>0, <1>2, <1>6, <2>1, CompletesCurrent
  <2>4. Basics' /\ Requests(running, pool, client, asked)' /\ Current(client, cache, held)'
    BY <1>0, <1>6, <2>2, <2>3 DEF Basics, Current
  <2>5. Records' /\ Threads'
    BY <1>0, <1>1, <1>6, <2>2 DEF Records, Threads
  <2>. QED
    BY <2>4, <2>5
<1>7. ASSUME workers' = others, inflight' = inflight \ {i}, ~stopping,
             result \in {"candidate", "signed"}, NEW ttl \in Ttls \cup {0},
             adoption' = Put(adoption, i, [settings |-> workers[i].settings, state |-> "queued",
                                           ttl |-> ttl, signed |-> result = "signed"]),
             adopting' = IF i \in inflight THEN adopting \cup {i} ELSE adopting,
             UNCHANGED <<pc, tasks, stopping, faulted, running, pool, cache, held, client>>
      PROVE  IInv'
  <2>. DEFINE taken == [settings |-> workers[i].settings, state |-> "queued", ttl |-> ttl,
                        signed |-> result = "signed"]
  <2>1. workers[i].settings = generation
    BY <1>7 DEF WorkResult
  <2>2. taken \in Candidate /\ taken.settings = generation
    <3>1. ttl \in Nat
      BY RuntimeAssumption
    <3>2. (result = "signed") \in BOOLEAN
      OBVIOUS
    <3>. HIDE DEF result
    <3>. QED
      BY <1>0, <2>1, <3>1, <3>2 DEF Candidate
  <2>. HIDE DEF taken
  <2>3. /\ DOMAIN adoption' = DOMAIN adoption \cup {i} /\ adoption'[i] = taken
        /\ \A j \in DOMAIN adoption : j # i => adoption'[j] = adoption[j]
    BY <1>7 DEF Put, taken
  <2>4. Basics' /\ Requests(running, pool, client, asked)' /\ Current(client, cache, held)'
    BY <1>0, <1>7 DEF Basics, Current
  <2>5. i \in inflight /\ adopting' = adopting \cup {i}
    BY <1>0, <1>7 DEF Threads
  <2>6. Records'
    BY <1>0, <1>1, <1>7, <2>2, <2>3, <2>5 DEF Records
  <2>7. Threads'
    BY <1>0, <1>1, <1>7, <2>2, <2>3, <2>5 DEF Threads
  <2>. QED
    BY <2>4, <2>6, <2>7
<1>8. ASSUME workers' = others, inflight' = inflight \ {i}, ~stopping,
             result \in {"candidate", "signed"}, Submits(i, result = "signed")
      PROVE  IInv'
  <2>1. CASE AdoptionFaulted
    BY <1>4, <1>8, <2>1 DEF Submits
  <2>2. CASE ~AdoptionFaulted /\ ~(Cardinality(DOMAIN adoption) < MaxResolutions)
    BY <1>6, <1>8, <2>2 DEF Submits
  <2>3. CASE ~AdoptionFaulted /\ Cardinality(DOMAIN adoption) < MaxResolutions
    BY <1>7, <1>8, <2>3 DEF Submits
  <2>. QED
    BY <2>1, <2>2, <2>3
<1>. QED
  <2>. HIDE DEF IInv, result
  <2>1. \/ /\ again /\ result # "panicked" /\ AskAgain(i, others)
           /\ UNCHANGED <<pc, tasks, stopping, faulted, adoption, adopting>>
        \/ /\ workers' = others /\ inflight' = inflight \ {i}
           /\ \/ /\ PollFails
                 /\ UNCHANGED <<running, pool, cache, held, client, adoption, adopting>>
              \/ /\ stopping
                 /\ UNCHANGED <<pc, tasks, stopping, faulted, running, pool, cache, held,
                                client, adoption, adopting>>
              \/ ~stopping /\ result \in {"candidate", "signed"} /\ Submits(i, result = "signed")
              \/ /\ Completes(i, Failure(IF result = "denied" THEN "denied" ELSE "incomplete"),
                              running, pool)
                 /\ UNCHANGED <<pc, tasks, stopping, faulted, adoption, adopting>>
    BY DEF CollectWorker, others, result
  <2>2. (IF result = "denied" THEN "denied" ELSE "incomplete") \in {"incomplete", "denied", "overloaded"}
    OBVIOUS
  <2>. QED
    BY <1>3, <1>4, <1>5, <1>6, <1>8, <2>1, <2>2

-----------------------------------------------------------------------------
(* The theorems. *)

\* Every step of a poll, a thread, a client, the host or the clock keeps the invariant.
LEMMA StepIInv == IInv /\ [Next]_vars => IInv'
<1>. SUFFICES ASSUME IInv, [Next]_vars PROVE IInv'
  OBVIOUS
<1>1. ASSUME NEW i \in Ids, CollectAdoption(i) \/ CollectWorker(i) \/ Expire(i) \/ Dispatch(i)
      PROVE  IInv'
  BY <1>1, CollectAdoptionStep, CollectWorkerStep, ExpireStep, DispatchStep
<1>2. CASE Poll
  BY <1>1, <1>2, PollBeginsStep, PassStep, ClientStep, AcceptStep DEF Poll
<1>3. ASSUME NEW i \in Ids, NEW state \in {"candidate", "signed", "failed", "denied", "panicked"},
             WorkerEnds(i, state)
      PROVE  IInv'
  BY <1>3, ThreadStep
<1>4. ASSUME NEW i \in Ids, Adopts(i) PROVE IInv'
  BY <1>4, ThreadStep
<1>5. CASE \E c \in Clients, n \in Names \cup {Refused} : Ask(c, n)
  BY <1>5, ClientStep
<1>6. CASE Stop \/ HostChanges \/ UNCHANGED vars
  BY <1>6, PassStep
<1>7. CASE Tick
  BY <1>7, TickStep
<1>. QED
  BY <1>2, <1>3, <1>4, <1>5, <1>6, <1>7 DEF Next

\* The books, the threads and the settings of the DNS runtime, for every interleaving of a
\* poll with the workers, the permission thread, the clock and the host (dns_runtime.rs).
THEOREM RuntimeInvariant == Spec => []IInv
  BY InitIInv, StepIInv, PTL DEF Spec

\* At every step of a poll, whatever the threads, the clock and the host's settings do, the
\* books of the requests and of the threads agree (DnsRequests, ResolutionPool, DnsRuntime):
\* the two lists hold the same resolutions, a client waits for exactly one of its own
\* question, and between polls each resolution is in the hands of one thread.
THEOREM RuntimeBooksAgree == Spec => []BooksAgree
<1>1. IInv => BooksAgree
  BY InvariantParts
<1>. QED
  BY <1>1, RuntimeInvariant, PTL

\* After a change of the settings was followed no client is given an answer of the replaced
\* ones and none is kept (DnsRuntime::follow retires what runs).
THEOREM NeverOldAnswer == Spec => []NoOldAnswer
<1>1. IInv => NoOldAnswer
  BY InvariantParts
<1>. QED
  BY <1>1, RuntimeInvariant, PTL

=============================================================================
