-------------------------------- MODULE MCDns --------------------------------
(***************************************************************************)
(* The parts of the DNS service beside one another: the runtime (extended) *)
(* with the front of connections, the exchange with the upstreams and the  *)
(* resolution of one question.  They share no state, so a behaviour moves  *)
(* one of them, the one `part' names, and the states of the parts add up.  *)
(*                                                                         *)
(* The resolution knows names a to d, one address of each scope, rules for *)
(* a, b and c, an address rule and a host rule.                            *)
(***************************************************************************)
EXTENDS DnsRuntime, TLC

CONSTANTS Peers, Replies, Policy, Route(_)

VARIABLES
    part,
    phase, peers, order, connection, steps, query, quiet, idle, lost,
    now, cancelled, tls, whole, index, at, transport, until, queries, read, reply, received,
    result, log, late,
    clock, questions, stage, question, started, abandoned, chain, previous, pending, answer,
    grants, known

frontVars      == <<phase, peers, order, connection, steps, query, quiet, idle, lost>>
exchangeVars   == <<now, cancelled, tls, whole, index, at, transport, until, queries, read,
                    reply, received, result, log, late>>
resolutionVars == <<clock, questions, stage, question, started, abandoned, chain, previous,
                    pending, answer, grants, known>>

Front == INSTANCE DnsFront WITH
    MaxId <- 3, MaxConnections <- 2, IoTimeout <- 2, Timeout <- 2, StepsPerPoll <- 1,
    FrameParts <- 2, ReplyParts <- 2, PollGap <- 1, pc <- phase, nextId <- connection

Exchange == INSTANCE DnsExchange WITH
    ServerTimeout <- 2, Timeout <- 5, MaxQueries <- 4, Wholes <- BOOLEAN, pc <- at

Resolution == INSTANCE DnsResolution WITH
    Names <- {"a", "d", "h"}, Reserved <- {"h"}, Unsupported <- {"multicast"},
    HostLoopback <- {"host"}, Loopback <- {"loopback"}, Special <- {"private", "link"},
    LinkLocal <- {"link"}, MaxHops <- 2, Grace <- 1, Timeout <- 4, Second <- 2, MaxTime <- 4,
    MaxQuestions <- 2,
    now <- clock, asked <- questions, pc <- stage, cancelled <- abandoned, cache <- known

MCInit ==
    /\ part \in {"runtime", "front", "exchange", "resolution"}
    /\ part = "exchange" \/ (tls = FALSE /\ whole = FALSE)
    /\ Init /\ Front!Init /\ Exchange!Init /\ Resolution!Init

MCNext ==
    \/ part = "runtime" /\ Next /\ UNCHANGED <<part, frontVars, exchangeVars, resolutionVars>>
    \/ part = "front" /\ Front!Next /\ UNCHANGED <<part, vars, exchangeVars, resolutionVars>>
    \/ part = "exchange" /\ Exchange!Next /\ UNCHANGED <<part, vars, frontVars, resolutionVars>>
    \/ part = "resolution" /\ Resolution!Next /\ UNCHANGED <<part, vars, frontVars, exchangeVars>>

MCSpec == MCInit /\ [][MCNext]_<<part, vars, frontVars, exchangeVars, resolutionVars>>

MCSymmetry == Permutations(Clients)

-----------------------------------------------------------------------------
\* DnsFront: no answer is lost, no two queries of a connection are mixed.
FrontKeepsAnswers == [][Front!FrontKeepsAnswers]_frontVars

\* DnsExchange: the candidates, the allowance and the deadlines are kept to.
ExchangeInOrder == [][Exchange!ExchangeInOrder]_exchangeVars

\* DnsResolution: what is granted and shown is what the rules for the question allow.
Authorized == part = "resolution" => Resolution!Authorized

\* DnsResolution: no grant outlives its records, no answer outlives its grants.
WithinLifetimes == part = "resolution" => Resolution!WithinLifetimes

-----------------------------------------------------------------------------
MCPeers == <<"p", "q", "p", "r">>

A(name, data, ttl) == [name |-> name, type |-> "A", data |-> data, ttl |-> ttl]
C(name, data, ttl) == [name |-> name, type |-> "CNAME", data |-> data, ttl |-> ttl]
S(name, ttl)       == [name |-> name, type |-> "RRSIG", data |-> "s", ttl |-> ttl]

Plain(answers) == [code |-> "NoError", tsig |-> FALSE, answers |-> answers, extra |-> {}]

MCReplies ==
    {Plain({}), Plain({C("a", "b", 2)}), Plain({C("b", "c", 1)}), Plain({C("b", "a", 1)}), Plain({C("c", "d", 1)}),
     Plain({C("b", "c", 0)}), Plain({C("a", "b", 1), C("a", "c", 1)}),
     Plain({C("a", "b", 3), A("b", "public", 2), A("b", "multicast", 1)}),
     Plain({A("a", "public", 3), A("a", "private", 2), A("b", "other", 1)}),
     Plain({A("b", "public", 3), S("b", 3), A("b", "link", 1)}),
     Plain({A("c", "public", 2)}), Plain({A("c", "link", 1)}), Plain({A("c", "loopback", 0)}),
     [Plain({A("a", "public", 2), A("a", "host", 2)}) EXCEPT !.extra = {A("z", "other", 3)}],
     [Plain({A("a", "public", 1), A("a", "other", 3)}) EXCEPT !.tsig = TRUE],
     [Plain({C("a", "b", 2)}) EXCEPT !.tsig = TRUE],
     [Plain({A("c", "public", 2)}) EXCEPT !.tsig = TRUE],
     [Plain({}) EXCEPT !.code = "NXDomain"]}

Dns(names, ports) == [kind |-> "dns", names |-> names, network |-> {}, interface |-> "none",
                      protocol |-> "tcp", ports |-> ports]
Net(network, interface) == [kind |-> "address", names |-> {}, network |-> network,
                            interface |-> interface, protocol |-> "tcp", ports |-> {443}]

MCPolicy ==
    <<Dns({"a"}, {443}), Dns({"a", "b"}, {80}), Dns({"c"}, {22}), Net({"private"}, "none"),
      Net({"link"}, "eth1"),
      [kind |-> "host", names |-> {}, network |-> {}, interface |-> "none",
       protocol |-> "tcp", ports |-> {80}]>>

MCRoute(address) == IF address = "link" THEN "eth0" ELSE "none"
==============================================================================
