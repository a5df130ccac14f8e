------------------------------ MODULE MCLibrary ------------------------------
(***************************************************************************)
(* The parts of the library beside one another: the events of a run, the   *)
(* handle and the messages (extended), and the execution itself.  A        *)
(* behaviour moves the part that `part' names, so the states of the parts  *)
(* add up.                                                                 *)
(***************************************************************************)
EXTENDS Events, Library, TLC

VARIABLES
    part,
    caller, owner, stop, startError, reaper, kept, received, outcome,
    at, exit, signal, reason, stopping, ownerLost, controlLost, wmain, cleanup, diagnosed,
    initReady, failed, filtered, net, helpers,
    init, imain, ireason, istopping, ikilled, icontrolLost, asked, released,
    main, others, natural, toWorker, toCaller, result, acked, toInit, fromInit, cut, bwrap,
    observed

executionVars == <<caller, owner, stop, startError, reaper, kept, received, outcome,
                   at, exit, signal, reason, stopping, ownerLost, controlLost, wmain, cleanup,
                   diagnosed, initReady, failed, filtered, net, helpers,
                   init, imain, ireason, istopping, ikilled, icontrolLost, asked, released,
                   main, others, natural, toWorker, toCaller, result, acked, toInit, fromInit,
                   cut, bwrap, observed>>

Run == INSTANCE Execution WITH
    MaxOthers <- 1, Faults <- {"caller", "worker", "bwrap"}, Filters <- BOOLEAN, seen <- observed

MCInit ==
    /\ part \in {"events", "handle", "messages", "execution"}
    /\ part = "execution" \/ filtered = FALSE
    /\ Init /\ Handle!Init /\ Message!Init /\ Run!Init

MCNext ==
    \/ part = "events" /\ Next /\ UNCHANGED <<part, handleVars, messageVars, executionVars>>
    \/ part = "handle" /\ Handle!Next /\ UNCHANGED <<part, vars, messageVars, executionVars>>
    \/ part = "messages" /\ Message!Next /\ UNCHANGED <<part, vars, handleVars, executionVars>>
    \/ part = "execution" /\ Run!Next /\ UNCHANGED <<part, vars, handleVars, messageVars>>

MCSpec == MCInit /\ [][MCNext]_<<part, vars, handleVars, messageVars, executionVars>>

MCSymmetry == Permutations(Receivers)

-----------------------------------------------------------------------------
\* Execution: what a run reports is so.
HonestReport == Run!HonestReport

\* Execution: the command starts alone, the network is cut before anything is asked to end.
OrderKept == [][Run!OrderKept]_executionVars
==============================================================================
