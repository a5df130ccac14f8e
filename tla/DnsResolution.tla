---------------------------- MODULE DnsResolution ----------------------------
(***************************************************************************)
(* One address question from its acceptance to its answer (kakoi-net       *)
(* dns/gate.rs, dns/engine.rs, dns/resolve.rs, dns/chain.rs,               *)
(* dns/screen.rs, resolution.rs, scope.rs), and the answer cache of        *)
(* dns/requests.rs: which rules the question falls under, the alias chain  *)
(* over several replies, which addresses are kept and granted, until when, *)
(* and what the application and the cache are given.                       *)
(*                                                                         *)
(* Time counts ticks, Second of them to a second; a time to live is in     *)
(* seconds.  A reply is [code, tsig, answers, extra] with sets of records  *)
(* [name, type, data, ttl]; what the upstreams send is chosen from         *)
(* Replies, when and whether one of them answers is module DnsExchange.    *)
(***************************************************************************)
EXTENDS Naturals, Sequences, FiniteSets, FiniteSetsExt, Functions

CONSTANTS
    Names, Replies,
    Policy,             \* the allow list: records of Rules
    Reserved,           \* the reserved host names
    Unsupported, HostLoopback, Loopback, Special, LinkLocal,   \* sets of addresses
    Route(_),           \* the host interface an address is routed by
    MaxHops,            \* dns_max_cname_hops
    Grace,              \* dns_zero_ttl_grace_milliseconds, in ticks
    Timeout,            \* dns_resolution_timeout_seconds, in ticks
    Second,             \* ticks to a second
    MaxTime,            \* bound: the clock
    MaxQuestions        \* bound: questions asked

VARIABLES
    now, asked, pc,
    question, started, cancelled,
    chain,              \* AddressChain: [current, names, deadline]
    previous,           \* the replies before this one, as [reply, received]
    pending,            \* the screened answer and its grants on the way to adoption
    answer, grants,     \* what the application got, what was adopted
    cache               \* name -> [records, extra, received, ttl, grants]

vars == <<now, asked, pc, question, started, cancelled, chain, previous, pending, answer,
          grants, cache>>

Never == MaxTime + Timeout + 1000 * Second   \* deadline: None

-----------------------------------------------------------------------------
(* Scope: what an address may be granted. *)

classify(address) ==
    CASE address \in Unsupported -> "Unsupported"
      [] address \in HostLoopback -> "HostLoopback"
      [] address \in Loopback -> "Loopback"
      [] address \in Special -> "Explicit"
      [] OTHER -> "Global"

\* Another rule of the policy names the address for a protocol and port of origin.
Explicit(origin, address) ==
    \E i \in DOMAIN Policy :
        LET rule == Policy[i]
        IN  /\ rule.protocol = origin.protocol /\ rule.ports \intersect origin.ports # {}
            /\ \/ rule.kind = "host" /\ classify(address) = "HostLoopback"
               \/ /\ rule.kind = "address" /\ classify(address) = "Explicit"
                  /\ address \in rule.network
                  /\ address \in LinkLocal => rule.interface # "none"
                  /\ rule.interface \in {"none", Route(address)}

admit_dns(origin, address) ==
    CASE origin.kind # "dns" -> "Denied"
      [] classify(address) = "Global" -> "Dynamic"
      [] classify(address) = "Loopback" -> "ExistingOnly"
      [] classify(address) = "Unsupported" -> "Denied"
      [] OTHER -> IF Explicit(origin, address) THEN "ExistingOnly" ELSE "Denied"

-----------------------------------------------------------------------------
(* The gate. *)

authorized_rules(name) == {i \in DOMAIN Policy : Policy[i].kind = "dns" /\ name \in Policy[i].names}

\* The mutant authorizes the name the aliases led to.
RulesOfTarget == authorized_rules(chain.current)

Rules == authorized_rules(question)

Admission(address) ==
    LET of == {admit_dns(Policy[i], address) : i \in Rules}
    IN  CASE "Dynamic" \in of -> "Dynamic"
          [] "ExistingOnly" \in of -> "ExistingOnly"
          [] OTHER -> "Denied"

-----------------------------------------------------------------------------
(* The alias chain. *)

record_deadline(received, ttl) == received + (IF ttl = 0 THEN Grace ELSE ttl * Second)

earliest_deadline(records, received) == Min({record_deadline(received, r.ttl) : r \in records})

\* The mutant forgets the aliases followed before.
LastDeadline(old, deadline) == deadline

Sooner(old, deadline) == Min({old, deadline})

\* The mutant follows an alias back to a name of the chain.
NeverSeen(c, target) == FALSE

Seen(c, target) == target \in Range(c.names)

\* The mutant allows one more hop.
TooLongByOne(c) == Len(c.names) > MaxHops + 1

TooLong(c) == Len(c.names) > MaxHops

Error(why) == [kind |-> "Error", why |-> why]

\* consume_inner: what a reply says of chain c.
RECURSIVE Walk(_, _, _, _)
Walk(c, reply, received, followed) ==
    LET records   == {r \in reply.answers : r.name = c.current}
        aliases   == {r \in records : r.type = "CNAME"}
        addresses == {r \in records : r.type = "A"}
        target    == (CHOOSE r \in aliases : TRUE).data
    IN  CASE aliases # {} /\ \/ \E r \in aliases : r.data # target
                             \/ \E r \in records : r.type \notin {"CNAME", "RRSIG"} ->
                 Error("ConflictingAlias")
          [] aliases # {} /\ Seen(c, target) -> Error("AliasCycle")
          [] aliases # {} /\ TooLong(c) -> Error("AliasLimit")
          [] aliases # {} ->
                 Walk([current |-> target, names |-> Append(c.names, target),
                       deadline |-> Sooner(c.deadline, earliest_deadline(aliases, received))],
                      reply, received, TRUE)
          [] addresses # {} ->
                 [kind |-> "Complete", chain |-> c, addresses |-> {r.data : r \in addresses},
                  deadline |-> Min({c.deadline, earliest_deadline(addresses, received)})]
          [] OTHER -> [kind |-> IF followed THEN "Follow" ELSE "NoData", chain |-> c,
                       addresses |-> {}, deadline |-> Never]

consume(c, reply, received) ==
    IF reply.code = "NoError" THEN Walk(c, reply, received, FALSE)
    ELSE [kind |-> "NoData", chain |-> c, addresses |-> {}, deadline |-> Never]

age(r, received, at) ==
    LET expiry == received + r.ttl * Second
    IN  [r EXCEPT !.ttl = IF expiry > at THEN (expiry - at) \div Second ELSE 0]

\* assemble, or the reply itself when it is the first.
assemble(last, at) ==
    [last EXCEPT !.answers = last.answers \union
        UNION {{age(r, previous[i].received, at) : r \in previous[i].reply.answers} :
               i \in DOMAIN previous}]

-----------------------------------------------------------------------------
(* Screening. *)

RECURSIVE Terminal(_, _, _)
Terminal(answers, name, steps) ==
    LET aliases == {r \in answers : r.name = name /\ r.type = "CNAME"}
    IN  IF steps = 0 \/ aliases = {} THEN name
        ELSE Terminal(answers, (CHOOSE r \in aliases : TRUE).data, steps - 1)

\* The mutant looks at the addresses of the name alone.
AllExtra(records, retained) == records

PermittedOf(records, retained) == {r \in records : r.type = "A" => r.data \in retained}

\* screen_addresses: the answer the application gets and the addresses to grant.
Screen(reply, candidates, deadline) ==
    LET retained == {a \in candidates : Admission(a) # "Denied"}
        signed   == reply.tsig \/ \E r \in reply.answers \union reply.extra : r.type = "RRSIG"
        shortest == Min({r.ttl : r \in reply.answers})
        terminal == Terminal(reply.answers, question, Cardinality(reply.answers))
        screened == {r \in reply.answers :
                        r.type = "A" => r.name = terminal /\ r.data \in retained}
        extra    == PermittedOf(reply.extra, retained)
        kept     == IF signed THEN reply.answers ELSE screened
    IN  IF retained = {} THEN Error("PolicyDenied")
        ELSE [kind    |-> "Screened",
              answers |-> IF reply.tsig THEN kept ELSE {[r EXCEPT !.ttl = shortest] : r \in kept},
              extra   |-> IF signed THEN reply.extra ELSE extra,
              grants  |-> {[rule |-> i, address |-> a, deadline |-> deadline] :
                              <<i, a>> \in {<<j, b>> \in Rules \X retained :
                                               admit_dns(Policy[j], b) = "Dynamic"}}]

-----------------------------------------------------------------------------
(* The steps. *)

\* An answer, with what the properties ask of it: the addresses found, when the last reply
\* came, and when each record on the way expires.
NoAnswer == [code |-> "none", tsig |-> FALSE, answers |-> {}, extra |-> {}, candidates |-> {},
             received |-> 0, path |-> {}]

Init ==
    /\ now = 0 /\ asked = 0 /\ pc = "idle"
    /\ question = "none" /\ started = 0 /\ cancelled = FALSE
    /\ chain = [current |-> "none", names |-> <<>>, deadline |-> Never] /\ previous = <<>>
    /\ pending = [answer |-> NoAnswer, grants |-> {}] /\ answer = NoAnswer
    /\ grants = {} /\ cache = <<>>

\* How long the whole seconds begun since an answer was kept are.
Begun(since) == (now - since + Second - 1) \div Second

Fresh(name) == name \in DOMAIN cache /\ Begun(cache[name].received) < cache[name].ttl

Minus(records, n) == {[r EXCEPT !.ttl = IF @ > n THEN @ - n ELSE 0] : r \in records}

\* A reserved name is answered by kakoi itself.
reserved_host_response(name) ==
    [NoAnswer EXCEPT !.code = "NoError",
                     !.answers = {[name |-> name, type |-> "A", data |-> a, ttl |-> 300] :
                                     a \in HostLoopback}]

\* accept: a reserved name, a refused one, a cached one, or the start of a resolution.
Accept(name) ==
    /\ pc = "idle" /\ asked < MaxQuestions
    /\ asked' = asked + 1 /\ question' = name /\ started' = now /\ cancelled' = FALSE
    /\ previous' = <<>> /\ chain' = [current |-> name, names |-> <<name>>, deadline |-> Never]
    /\ LET cached == cache[name]
           begun  == Begun(cached.received)
       IN  CASE name \in Reserved ->
                    /\ answer' = reserved_host_response(name)
                    /\ grants' = {} /\ UNCHANGED pc
             [] name \notin Reserved /\ authorized_rules(name) = {} ->
                    /\ answer' = [NoAnswer EXCEPT !.code = "Refused"]
                    /\ grants' = {} /\ UNCHANGED pc
             [] name \notin Reserved /\ authorized_rules(name) # {} /\ Fresh(name) ->
                    /\ answer' = [cached.answer EXCEPT !.answers = Minus(@, begun),
                                                       !.extra = Minus(@, begun),
                                                       !.received = now]
                    /\ grants' = cached.grants /\ UNCHANGED pc
             [] OTHER ->
                    /\ pc' = "lookup" /\ answer' = NoAnswer /\ grants' = {}
    /\ UNCHANGED <<now, pending, cache>>

\* error_response, for whatever failed.
Fail(code) ==
    /\ pc' = "idle" /\ answer' = [NoAnswer EXCEPT !.code = code] /\ grants' = {}
    /\ UNCHANGED <<now, asked, question, started, cancelled, chain, previous, pending, cache>>

Live(at) == at < started + Timeout

\* The exchange gave no reply, or the time is over, or the resolution was cancelled.
LookupFails == pc = "lookup" /\ Fail("ServFail")

\* The last steps of an answer: finish with it, pass it on to adoption, or fail.
Resolved(reply, step) ==
    LET whole == IF previous = <<>> THEN reply ELSE assemble(reply, now)
        path  == UNION {{[deadline |-> record_deadline(previous[i].received, r.ttl), name |-> r.name] :
                            r \in previous[i].reply.answers} : i \in DOMAIN previous}
                 \union {[deadline |-> record_deadline(now, r.ttl), name |-> r.name] : r \in reply.answers}
        made  == [code |-> whole.code, tsig |-> whole.tsig, answers |-> whole.answers,
                  extra |-> whole.extra, candidates |-> step.addresses, received |-> now,
                  path |-> {p \in path : p.name \in Range(step.chain.names)}]
    IN  CASE previous # <<>> /\ reply.tsig -> Fail("ServFail")
          [] ~(previous # <<>> /\ reply.tsig) /\ step.addresses = {} ->
               /\ pc' = "done" /\ pending' = [answer |-> made, grants |-> {}]
               /\ UNCHANGED <<now, asked, question, started, cancelled, chain, previous, answer,
                              grants, cache>>
          [] OTHER ->
               LET s == Screen(whole, step.addresses, step.deadline)
               IN  IF s.kind = "Error" THEN Fail("Refused")
                   ELSE /\ pc' = "adopt"
                        /\ pending' = [answer |-> [made EXCEPT !.answers = s.answers,
                                                               !.extra = s.extra],
                                       grants |-> s.grants]
                        /\ UNCHANGED <<now, asked, question, started, cancelled, chain, previous,
                                       answer, grants, cache>>

\* One turn of resolve_addresses: a reply is received, checked and consumed.
Lookup(reply) ==
    /\ pc = "lookup" /\ ~cancelled /\ Live(now)
    /\ LET step == consume(chain, reply, now)
       IN  CASE step.kind = "Error" -> Fail("ServFail")
             [] step.kind = "Follow" ->
                  IF reply.tsig THEN Fail("ServFail")
                  ELSE /\ previous' = Append(previous, [reply |-> reply, received |-> now])
                       /\ chain' = step.chain
                       /\ UNCHANGED <<now, asked, pc, question, started, cancelled, pending,
                                      answer, grants, cache>>
             [] OTHER -> Resolved(reply, step)

StillGood == Live(now) /\ ~cancelled /\ \A g \in pending.grants : g.deadline > now

\* The first check, then install: the grants are collected.
Collect ==
    /\ pc = "adopt"
    /\ IF StillGood
       THEN /\ grants' = pending.grants /\ pc' = "checked"
            /\ UNCHANGED <<now, asked, question, started, cancelled, chain, previous, pending,
                           answer, cache>>
       ELSE Fail("ServFail")

\* The mutant keeps what it collected for a failed answer.
KeepGrants == grants

ClearGrants == {}

\* The second check: an answer that became SERVFAIL adopts nothing.
Recheck ==
    /\ pc = "checked"
    /\ IF StillGood THEN pc' = "done" /\ UNCHANGED <<answer, grants>>
       ELSE pc' = "idle" /\ answer' = [NoAnswer EXCEPT !.code = "ServFail"] /\ grants' = ClearGrants
    /\ UNCHANGED <<now, asked, question, started, cancelled, chain, previous, pending, cache>>

\* The mutant counts the answer's lifetime from when it is kept.
FromNow == now

KeptFrom == started

\* keep
Keep(a) ==
    LET ttls == {r.ttl : r \in a.answers}
    IN  IF a.code # "NoError" \/ a.tsig \/ ttls = {} THEN cache
        ELSE IF Min(ttls) = 0 THEN cache
        ELSE [n \in DOMAIN cache \union {question} |->
                IF n = question
                THEN [answer |-> a, received |-> KeptFrom, ttl |-> Min(ttls), grants |-> grants]
                ELSE cache[n]]

\* complete: the answer goes to the application and is kept.
Complete ==
    /\ pc = "done"
    /\ IF Live(now)
       THEN /\ answer' = pending.answer /\ cache' = Keep(pending.answer)
            /\ pc' = "idle" /\ UNCHANGED <<now, asked, question, started, cancelled, chain, previous,
                                           pending, grants>>
       ELSE Fail("ServFail")

Cancel ==
    /\ pc \in {"lookup", "adopt", "checked"} /\ ~cancelled /\ cancelled' = TRUE
    /\ UNCHANGED <<now, asked, pc, question, started, chain, previous, pending, answer, grants, cache>>

Tick ==
    /\ now < MaxTime /\ now' = now + 1
    /\ UNCHANGED <<asked, pc, question, started, cancelled, chain, previous, pending, answer,
                   grants, cache>>

Next ==
    \/ \E name \in Names : Accept(name)
    \/ \E reply \in Replies : Lookup(reply)
    \/ LookupFails \/ Collect \/ Recheck \/ Complete \/ Cancel \/ Tick

Spec == Init /\ [][Next]_vars

-----------------------------------------------------------------------------
(* Properties. *)

TypeOK ==
    /\ now \in 0 .. MaxTime /\ asked \in 0 .. MaxQuestions
    /\ pc \in {"idle", "lookup", "adopt", "checked", "done"}
    /\ Len(chain.names) <= MaxHops + 1 /\ Len(previous) <= MaxHops
    /\ answer.code \in {"none", "NoError", "NXDomain", "Refused", "ServFail"}
    /\ \A g \in grants : g.rule \in DOMAIN Policy

\* No name is asked or followed twice, so the walk over aliases ends (CnameChain::follow).
NoNameTwice == \A i, j \in DOMAIN chain.names : chain.names[i] = chain.names[j] => i = j

\* In an answer without signatures that has an address of the name, every address of every
\* section is granted to the application or open to it by another rule; nothing else is shown
\* (screen_addresses, admit_dns).
ShownIsPermitted ==
    (answer.code = "NoError" /\ answer.candidates # {} /\ ~answer.tsig
        /\ \A r \in answer.answers \union answer.extra : r.type # "RRSIG") =>
      \A r \in answer.answers \union answer.extra : r.type = "A" =>
          /\ r.data \in answer.candidates
          /\ \/ \E g \in grants : g.address = r.data
             \/ \E i \in DOMAIN Policy : question \in Policy[i].names
                                         /\ admit_dns(Policy[i], r.data) = "ExistingOnly"

\* A grant belongs to a rule that names the question asked, never to one that names what an
\* alias leads to, and is for an address of the wide network (authorized_rules, admit_dns).
GrantedByQuestion ==
    \A g \in grants : /\ Policy[g.rule].kind = "dns" /\ question \in Policy[g.rule].names
                      /\ classify(g.address) = "Global"

\* A grant ends no later than any alias and any address on the way to it, over all replies
\* ("the earliest to expire of the CNAMEs on the path and the final addresses").
GrantWithinPath == pc = "idle" => \A g \in grants, p \in answer.path : g.deadline <= p.deadline

\* What the application is told to keep ends no later than the grants, counted from when the
\* last reply came or from when the cache answers; so too for a cached answer whatever time
\* passed since (screen_addresses aligns the times to live, age and cached round them down).
HeldWithinGrant ==
    (pc = "idle" /\ ~answer.tsig) => \A g \in grants, r \in answer.answers :
        answer.received + r.ttl * Second <= g.deadline

\* An answer that failed leaves nothing to adopt (prepare_sharing).
FailedAdoptsNothing == (pc = "idle" /\ answer.code # "NoError") => grants = {}

\* What is granted and shown is what the rules for the question allow.
Authorized ==
    TypeOK /\ NoNameTwice /\ ShownIsPermitted /\ GrantedByQuestion /\ FailedAdoptsNothing

\* No grant outlives the records it rests on, and no answer outlives its grants.
WithinLifetimes == GrantWithinPath /\ HeldWithinGrant
=============================================================================
