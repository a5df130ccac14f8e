------------------------- MODULE SupervisionProofs --------------------------
(***************************************************************************)
(* The safety of the end of a run, for every grace and any number of       *)
(* processes.                                                              *)
(***************************************************************************)
EXTENDS Supervision, TLAPS

\* A closure is for good; a request exists only behind one, there is only one, and none is
\* sent while the closure is under way.  The grace needs the request.
Requests ==
    /\ over = "shut" => ~open
    /\ toInit # <<>> => over = "shut"
    /\ asked => over = "shut"
    /\ Len(toInit) <= 1
    /\ asked => toInit = <<>>
    /\ asked \/ toInit # <<>> => closed /\ at # "closing"
    /\ at = "closing" /\ why # "end" => closed
    /\ grace # -1 => asked
    /\ forced => asked \/ orphaned

\* A result is how the main command ended, wherever it is: with the first process, on its
\* way, known to run, or bwrap's code.
Truth ==
    /\ main \in {"none", "alive"} <=> ended = "none"
    /\ result # "none" => result = ended /\ main = "gone"
    /\ main = "gone" /\ init # "exited" => result # "none"
    /\ \A i \in 1..Len(toRun) : toRun[i] # "interrupted" => toRun[i] = result
    /\ known # "none" => known = result
    /\ bwrap \in Results => bwrap = result

\* What the end of the loop rests on.
Ends ==
    /\ init = "new" => main = "none" /\ others = 0
    /\ init \in {"top", "wait"} => main # "none"
    /\ init = "exited" => main # "alive" /\ others = 0
    /\ init = "exited" /\ bwrap = "up" => result # "none"
    /\ bwrap # "up" => init = "exited"
    /\ over = "unsafe" => fault
    /\ closed => over # "no" \/ at = "closing"
    /\ at \in {"settle", "done"} => bwrap # "up" /\ over # "no"
    /\ terminated => term
    /\ at = "done" => code = ExitCode(IF known = "none" THEN Fallback ELSE known)
    /\ at = "closing" => why # "none" /\ (why = "end" => bwrap # "up")

IInv == TypeOK /\ Requests /\ Truth /\ Ends

-----------------------------------------------------------------------------
\* The type invariant in parts, each small enough for one leaf.
SessionType ==
    /\ state \in {"Running", "Isolated", "Unsafe"} /\ over \in {"no", "shut", "unsafe"}
    /\ open \in BOOLEAN /\ busy \in BOOLEAN

LoopType ==
    /\ alive \in BOOLEAN /\ term \in BOOLEAN /\ interrupt \in BOOLEAN
    /\ at \in {"poll", "polling", "request", "closing", "recv", "reap", "settle", "done"}
    /\ why \in {"none", "terminate", "main", "end"}
    /\ terminated \in BOOLEAN /\ fault \in BOOLEAN /\ closed \in BOOLEAN
    /\ killed \in BOOLEAN

ResultType ==
    /\ known \in Results \cup {"none"} /\ result \in Results \cup {"none"}
    /\ ended \in Results \cup {"none"}
    /\ code \in Results \cup {"none", "refused", "125", "143"}
    /\ toInit \in Seq({"T", "G"}) /\ toRun \in Seq(Results \cup {"interrupted"})
    /\ bwrap \in Results \cup {"up", "signal", "refused", "125"}

FirstType ==
    /\ init \in {"new", "top", "wait", "exited"} /\ grace \in -1..Grace
    /\ forced \in BOOLEAN /\ orphaned \in BOOLEAN /\ asked \in BOOLEAN
    /\ main \in {"none", "alive", "zombie", "gone"} /\ others \in 0..MaxOthers

\* The parts are the whole.
LEMMA TypeParts == TypeOK <=> SessionType /\ LoopType /\ ResultType /\ FirstType
  BY DEF TypeOK, SessionType, LoopType, ResultType, FirstType

\* Every step keeps the types of the session.
LEMMA SessionTypeStep ==
    ASSUME SessionType, [Next]_vars
    PROVE  SessionType'
<1>. USE SupervisionAssumption DEF SessionType, sessionVars, loop, first, processes, outside
<1>1. CASE SessionWorks
  BY <1>1 DEF SessionWorks, TransitOpens, TransitCloses
<1>2. CASE PollBegins
  BY <1>2 DEF PollBegins, CallBegins
<1>3. CASE PollReturns
  BY <1>3 DEF PollReturns, EndsRunning, EndsIsolated, EndsUnsafe, UnsafeStops
<1>4. CASE Request
  BY <1>4 DEF Request, CallBegins
<1>5. CASE BlockConfirmed
  BY <1>5 DEF BlockConfirmed, EndsIsolated, AfterBlock, Ask
<1>6. CASE BlockFailed
  BY <1>6 DEF BlockFailed, EndsUnsafe, AfterBlock
<1>7. CASE Receive
  BY <1>7 DEF Receive, CallBegins
<1>8. CASE ReceiveNothing
  BY <1>8 DEF ReceiveNothing
<1>9. CASE Reap
  BY <1>9 DEF Reap, CallBegins
<1>10. CASE ReapFails
  BY <1>10 DEF ReapFails
<1>11. CASE SettlePolls
  BY <1>11 DEF SettlePolls, CallBegins, EndsIsolated, EndsUnsafe
<1>12. CASE Return
  BY <1>12 DEF Return
<1>13. CASE StartFails
  BY <1>13 DEF StartFails
<1>14. CASE Spawn
  BY <1>14 DEF Spawn
<1>15. CASE FirstExits
  BY <1>15 DEF FirstExits, Reaped, Finishes, Childless
<1>16. CASE FirstTurns
  BY <1>16 DEF FirstTurns, Reaped, Finishes, Childless, GraceOver, Broadcast
<1>17. CASE FirstWakes
  BY <1>17 DEF FirstWakes, Interrupts, Abandoned, Begins, Broadcast
<1>18. CASE BwrapEnds
  BY <1>18 DEF BwrapEnds
<1>19. CASE BwrapDies
  BY <1>19 DEF BwrapDies
<1>20. CASE MainEnds
  BY <1>20 DEF MainEnds
<1>21. CASE Fork
  BY <1>21 DEF Fork
<1>22. CASE OtherEnds
  BY <1>22 DEF OtherEnds
<1>23. CASE Terminate
  BY <1>23 DEF Terminate
<1>24. CASE Interrupt
  BY <1>24 DEF Interrupt
<1>25. CASE Tick
  BY <1>25 DEF Tick
<1>26. CASE Crash
  BY <1>26 DEF Crash
<1>27. CASE UNCHANGED vars
  BY <1>27 DEF vars
<1>. QED
  BY <1>1, <1>2, <1>3, <1>4, <1>5, <1>6, <1>7, <1>8, <1>9, <1>10, <1>11, <1>12, <1>13, <1>14, <1>15, <1>16, <1>17, <1>18, <1>19, <1>20, <1>21, <1>22, <1>23, <1>24, <1>25, <1>26, <1>27 DEF Next, Loop, First

\* Every step keeps the types of the loop.
LEMMA LoopTypeStep ==
    ASSUME SessionType, LoopType, Ends, [Next]_vars
    PROVE  LoopType'
<1>. USE SupervisionAssumption DEF LoopType, Ends, sessionVars, loop, first, processes, outside
<1>1. CASE SessionWorks
  BY <1>1 DEF SessionWorks, TransitOpens, TransitCloses
<1>2. CASE PollBegins
  BY <1>2 DEF PollBegins, CallBegins
<1>3. CASE PollReturns
  BY <1>3 DEF PollReturns, EndsRunning, EndsIsolated, EndsUnsafe, UnsafeStops
<1>4. CASE Request
  BY <1>4 DEF Request, CallBegins
<1>5. CASE BlockConfirmed
  <2>1. why \in {"terminate", "main", "end"}
    BY <1>5 DEF BlockConfirmed
  <2>2. AfterBlock \in {"recv", "poll"} \/ (why = "end" /\ AfterBlock = "settle")
    BY <2>1 DEF AfterBlock
  <2>. QED
    BY <1>5, <2>1, <2>2 DEF BlockConfirmed, EndsIsolated, Ask
<1>6. CASE BlockFailed
  <2>1. why \in {"terminate", "main", "end"}
    BY <1>6 DEF BlockFailed
  <2>2. AfterBlock \in {"recv", "poll"} \/ (why = "end" /\ AfterBlock = "settle")
    BY <2>1 DEF AfterBlock
  <2>. QED
    BY <1>6, <2>1, <2>2 DEF BlockFailed, EndsUnsafe
<1>7. CASE Receive
  BY <1>7 DEF Receive, CallBegins
<1>8. CASE ReceiveNothing
  BY <1>8 DEF ReceiveNothing
<1>9. CASE Reap
  BY <1>9 DEF Reap, CallBegins
<1>10. CASE ReapFails
  BY <1>10 DEF ReapFails
<1>11. CASE SettlePolls
  BY <1>11 DEF SettlePolls, CallBegins, EndsIsolated, EndsUnsafe
<1>12. CASE Return
  BY <1>12 DEF Return
<1>13. CASE StartFails
  BY <1>13 DEF StartFails
<1>14. CASE Spawn
  BY <1>14 DEF Spawn
<1>15. CASE FirstExits
  BY <1>15 DEF FirstExits, Reaped, Finishes, Childless
<1>16. CASE FirstTurns
  BY <1>16 DEF FirstTurns, Reaped, Finishes, Childless, GraceOver, Broadcast
<1>17. CASE FirstWakes
  BY <1>17 DEF FirstWakes, Interrupts, Abandoned, Begins, Broadcast
<1>18. CASE BwrapEnds
  BY <1>18 DEF BwrapEnds
<1>19. CASE BwrapDies
  BY <1>19 DEF BwrapDies
<1>20. CASE MainEnds
  BY <1>20 DEF MainEnds
<1>21. CASE Fork
  BY <1>21 DEF Fork
<1>22. CASE OtherEnds
  BY <1>22 DEF OtherEnds
<1>23. CASE Terminate
  BY <1>23 DEF Terminate
<1>24. CASE Interrupt
  BY <1>24 DEF Interrupt
<1>25. CASE Tick
  BY <1>25 DEF Tick
<1>26. CASE Crash
  BY <1>26 DEF Crash
<1>27. CASE UNCHANGED vars
  BY <1>27 DEF vars
<1>. QED
  BY <1>1, <1>2, <1>3, <1>4, <1>5, <1>6, <1>7, <1>8, <1>9, <1>10, <1>11, <1>12, <1>13, <1>14, <1>15, <1>16, <1>17, <1>18, <1>19, <1>20, <1>21, <1>22, <1>23, <1>24, <1>25, <1>26, <1>27 DEF Next, Loop, First

\* Every step keeps the types of the results.
LEMMA ResultTypeStep ==
    ASSUME ResultType, Truth, Ends, [Next]_vars
    PROVE  ResultType'
<1>. USE SupervisionAssumption DEF ResultType, Truth, Ends, Results, ExitCode, Fallback, sessionVars, loop, first, processes, outside
<1>1. CASE SessionWorks
  BY <1>1 DEF SessionWorks, TransitOpens, TransitCloses
<1>2. CASE PollBegins
  BY <1>2 DEF PollBegins, CallBegins
<1>3. CASE PollReturns
  BY <1>3 DEF PollReturns, EndsRunning, EndsIsolated, EndsUnsafe, UnsafeStops
<1>4. CASE Request
  BY <1>4 DEF Request, CallBegins
<1>5. CASE BlockConfirmed
  BY <1>5 DEF BlockConfirmed, EndsIsolated, AfterBlock, Ask
<1>6. CASE BlockFailed
  BY <1>6 DEF BlockFailed, EndsUnsafe, AfterBlock
<1>7. CASE Receive
  BY <1>7 DEF Receive, CallBegins
<1>8. CASE ReceiveNothing
  BY <1>8 DEF ReceiveNothing
<1>9. CASE Reap
  BY <1>9 DEF Reap, CallBegins
<1>10. CASE ReapFails
  BY <1>10 DEF ReapFails
<1>11. CASE SettlePolls
  BY <1>11 DEF SettlePolls, CallBegins, EndsIsolated, EndsUnsafe
<1>12. CASE Return
  BY <1>12 DEF Return
<1>13. CASE StartFails
  BY <1>13 DEF StartFails
<1>14. CASE Spawn
  <2>1. Append(toRun, "unstarted") \in Seq(Results \cup {"interrupted"})
    OBVIOUS
  <2>. QED
    BY <1>14, <2>1 DEF Spawn
<1>15. CASE FirstExits
  BY <1>15 DEF FirstExits, Reaped, Finishes, Childless
<1>16. CASE FirstTurns
  BY <1>16 DEF FirstTurns, Reaped, Finishes, Childless, GraceOver, Broadcast
<1>17. CASE FirstWakes
  BY <1>17 DEF FirstWakes, Interrupts, Abandoned, Begins, Broadcast
<1>18. CASE BwrapEnds
  BY <1>18 DEF BwrapEnds
<1>19. CASE BwrapDies
  BY <1>19 DEF BwrapDies
<1>20. CASE MainEnds
  BY <1>20 DEF MainEnds
<1>21. CASE Fork
  BY <1>21 DEF Fork
<1>22. CASE OtherEnds
  BY <1>22 DEF OtherEnds
<1>23. CASE Terminate
  BY <1>23 DEF Terminate
<1>24. CASE Interrupt
  BY <1>24 DEF Interrupt
<1>25. CASE Tick
  BY <1>25 DEF Tick
<1>26. CASE Crash
  BY <1>26 DEF Crash
<1>27. CASE UNCHANGED vars
  BY <1>27 DEF vars
<1>. QED
  BY <1>1, <1>2, <1>3, <1>4, <1>5, <1>6, <1>7, <1>8, <1>9, <1>10, <1>11, <1>12, <1>13, <1>14, <1>15, <1>16, <1>17, <1>18, <1>19, <1>20, <1>21, <1>22, <1>23, <1>24, <1>25, <1>26, <1>27 DEF Next, Loop, First

\* Every step keeps the types of the first process and the others.
LEMMA FirstTypeStep ==
    ASSUME FirstType, [Next]_vars
    PROVE  FirstType'
<1>. USE SupervisionAssumption DEF FirstType, sessionVars, loop, first, processes, outside
<1>1. CASE SessionWorks
  BY <1>1 DEF SessionWorks, TransitOpens, TransitCloses
<1>2. CASE PollBegins
  BY <1>2 DEF PollBegins, CallBegins
<1>3. CASE PollReturns
  BY <1>3 DEF PollReturns, EndsRunning, EndsIsolated, EndsUnsafe, UnsafeStops
<1>4. CASE Request
  BY <1>4 DEF Request, CallBegins
<1>5. CASE BlockConfirmed
  BY <1>5 DEF BlockConfirmed, EndsIsolated, AfterBlock, Ask
<1>6. CASE BlockFailed
  BY <1>6 DEF BlockFailed, EndsUnsafe, AfterBlock
<1>7. CASE Receive
  BY <1>7 DEF Receive, CallBegins
<1>8. CASE ReceiveNothing
  BY <1>8 DEF ReceiveNothing
<1>9. CASE Reap
  BY <1>9 DEF Reap, CallBegins
<1>10. CASE ReapFails
  BY <1>10 DEF ReapFails
<1>11. CASE SettlePolls
  BY <1>11 DEF SettlePolls, CallBegins, EndsIsolated, EndsUnsafe
<1>12. CASE Return
  BY <1>12 DEF Return
<1>13. CASE StartFails
  BY <1>13 DEF StartFails
<1>14. CASE Spawn
  BY <1>14 DEF Spawn
<1>15. CASE FirstExits
  BY <1>15 DEF FirstExits, Reaped, Finishes, Childless
<1>16. CASE FirstTurns
  BY <1>16 DEF FirstTurns, Reaped, Finishes, Childless, GraceOver, Broadcast
<1>17. CASE FirstWakes
  BY <1>17 DEF FirstWakes, Interrupts, Abandoned, Begins, Broadcast
<1>18. CASE BwrapEnds
  BY <1>18 DEF BwrapEnds
<1>19. CASE BwrapDies
  BY <1>19 DEF BwrapDies
<1>20. CASE MainEnds
  BY <1>20 DEF MainEnds
<1>21. CASE Fork
  BY <1>21 DEF Fork
<1>22. CASE OtherEnds
  BY <1>22 DEF OtherEnds
<1>23. CASE Terminate
  BY <1>23 DEF Terminate
<1>24. CASE Interrupt
  BY <1>24 DEF Interrupt
<1>25. CASE Tick
  BY <1>25 DEF Tick
<1>26. CASE Crash
  BY <1>26 DEF Crash
<1>27. CASE UNCHANGED vars
  BY <1>27 DEF vars
<1>. QED
  BY <1>1, <1>2, <1>3, <1>4, <1>5, <1>6, <1>7, <1>8, <1>9, <1>10, <1>11, <1>12, <1>13, <1>14, <1>15, <1>16, <1>17, <1>18, <1>19, <1>20, <1>21, <1>22, <1>23, <1>24, <1>25, <1>26, <1>27 DEF Next, Loop, First

\* Every step keeps a request behind a confirmed closure.
LEMMA RequestsStep ==
    ASSUME TypeOK, Requests, Ends, [Next]_vars
    PROVE  Requests'
<1>. USE SupervisionAssumption DEF TypeOK, Requests, Ends, Results, sessionVars, loop, first, processes, outside
<1>1. CASE SessionWorks
  BY <1>1 DEF SessionWorks, TransitOpens, TransitCloses
<1>2. CASE PollBegins
  BY <1>2 DEF PollBegins, CallBegins
<1>3. CASE PollReturns
  BY <1>3 DEF PollReturns, EndsRunning, EndsIsolated, EndsUnsafe, UnsafeStops
<1>4. CASE Request
  BY <1>4 DEF Request, CallBegins
<1>5. CASE BlockConfirmed
  <2>1. why \in {"terminate", "main", "end"}
    BY <1>5 DEF BlockConfirmed
  <2>2. AfterBlock \in {"recv", "poll"} \/ (why = "end" /\ AfterBlock = "settle")
    BY <2>1 DEF AfterBlock
  <2>. QED
    BY <1>5, <2>1, <2>2 DEF BlockConfirmed, EndsIsolated, Ask
<1>6. CASE BlockFailed
  <2>1. why \in {"terminate", "main", "end"}
    BY <1>6 DEF BlockFailed
  <2>2. AfterBlock \in {"recv", "poll"} \/ (why = "end" /\ AfterBlock = "settle")
    BY <2>1 DEF AfterBlock
  <2>. QED
    BY <1>6, <2>1, <2>2 DEF BlockFailed, EndsUnsafe
<1>7. CASE Receive
  BY <1>7 DEF Receive, CallBegins
<1>8. CASE ReceiveNothing
  BY <1>8 DEF ReceiveNothing
<1>9. CASE Reap
  BY <1>9 DEF Reap, CallBegins
<1>10. CASE ReapFails
  BY <1>10 DEF ReapFails
<1>11. CASE SettlePolls
  BY <1>11 DEF SettlePolls, CallBegins, EndsIsolated, EndsUnsafe
<1>12. CASE Return
  BY <1>12 DEF Return
<1>13. CASE StartFails
  BY <1>13 DEF StartFails
<1>14. CASE Spawn
  BY <1>14 DEF Spawn
<1>15. CASE FirstExits
  BY <1>15 DEF FirstExits, Reaped, Finishes, Childless
<1>16. CASE FirstTurns
  BY <1>16 DEF FirstTurns, Reaped, Finishes, Childless, GraceOver, Broadcast
<1>17. CASE FirstWakes
  BY <1>17 DEF FirstWakes, Interrupts, Abandoned, Begins, Broadcast
<1>18. CASE BwrapEnds
  BY <1>18 DEF BwrapEnds
<1>19. CASE BwrapDies
  BY <1>19 DEF BwrapDies
<1>20. CASE MainEnds
  BY <1>20 DEF MainEnds
<1>21. CASE Fork
  BY <1>21 DEF Fork
<1>22. CASE OtherEnds
  BY <1>22 DEF OtherEnds
<1>23. CASE Terminate
  BY <1>23 DEF Terminate
<1>24. CASE Interrupt
  BY <1>24 DEF Interrupt
<1>25. CASE Tick
  BY <1>25 DEF Tick
<1>26. CASE Crash
  BY <1>26 DEF Crash
<1>27. CASE UNCHANGED vars
  BY <1>27 DEF vars
<1>. QED
  BY <1>1, <1>2, <1>3, <1>4, <1>5, <1>6, <1>7, <1>8, <1>9, <1>10, <1>11, <1>12, <1>13, <1>14, <1>15, <1>16, <1>17, <1>18, <1>19, <1>20, <1>21, <1>22, <1>23, <1>24, <1>25, <1>26, <1>27 DEF Next, Loop, First

\* Every step keeps the results what they are.
LEMMA TruthStep ==
    ASSUME TypeOK, Truth, Ends, [Next]_vars
    PROVE  Truth'
<1>. USE SupervisionAssumption DEF TypeOK, Truth, Ends, Results, sessionVars, loop, first, processes, outside
<1>1. CASE SessionWorks
  BY <1>1 DEF SessionWorks, TransitOpens, TransitCloses
<1>2. CASE PollBegins
  BY <1>2 DEF PollBegins, CallBegins
<1>3. CASE PollReturns
  BY <1>3 DEF PollReturns, EndsRunning, EndsIsolated, EndsUnsafe, UnsafeStops
<1>4. CASE Request
  BY <1>4 DEF Request, CallBegins
<1>5. CASE BlockConfirmed
  BY <1>5 DEF BlockConfirmed, EndsIsolated, AfterBlock, Ask
<1>6. CASE BlockFailed
  BY <1>6 DEF BlockFailed, EndsUnsafe, AfterBlock
<1>7. CASE Receive
  BY <1>7 DEF Receive, CallBegins
<1>8. CASE ReceiveNothing
  BY <1>8 DEF ReceiveNothing
<1>9. CASE Reap
  BY <1>9 DEF Reap, CallBegins
<1>10. CASE ReapFails
  BY <1>10 DEF ReapFails
<1>11. CASE SettlePolls
  BY <1>11 DEF SettlePolls, CallBegins, EndsIsolated, EndsUnsafe
<1>12. CASE Return
  BY <1>12 DEF Return
<1>13. CASE StartFails
  BY <1>13 DEF StartFails
<1>14. CASE Spawn
  BY <1>14 DEF Spawn
<1>15. CASE FirstExits
  BY <1>15 DEF FirstExits, Reaped, Finishes, Childless
<1>16. CASE FirstTurns
  BY <1>16 DEF FirstTurns, Reaped, Finishes, Childless, GraceOver, Broadcast
<1>17. CASE FirstWakes
  BY <1>17 DEF FirstWakes, Interrupts, Abandoned, Begins, Broadcast
<1>18. CASE BwrapEnds
  BY <1>18 DEF BwrapEnds
<1>19. CASE BwrapDies
  BY <1>19 DEF BwrapDies
<1>20. CASE MainEnds
  BY <1>20 DEF MainEnds
<1>21. CASE Fork
  BY <1>21 DEF Fork
<1>22. CASE OtherEnds
  BY <1>22 DEF OtherEnds
<1>23. CASE Terminate
  BY <1>23 DEF Terminate
<1>24. CASE Interrupt
  BY <1>24 DEF Interrupt
<1>25. CASE Tick
  BY <1>25 DEF Tick
<1>26. CASE Crash
  BY <1>26 DEF Crash
<1>27. CASE UNCHANGED vars
  BY <1>27 DEF vars
<1>. QED
  BY <1>1, <1>2, <1>3, <1>4, <1>5, <1>6, <1>7, <1>8, <1>9, <1>10, <1>11, <1>12, <1>13, <1>14, <1>15, <1>16, <1>17, <1>18, <1>19, <1>20, <1>21, <1>22, <1>23, <1>24, <1>25, <1>26, <1>27 DEF Next, Loop, First

\* Every step keeps what the end rests on.
LEMMA EndsStep ==
    ASSUME TypeOK, Truth, Ends, [Next]_vars
    PROVE  Ends'
<1>. USE SupervisionAssumption DEF TypeOK, Truth, Ends, Results, ExitCode, Fallback, sessionVars, loop, first, processes, outside
<1>1. CASE SessionWorks
  BY <1>1 DEF SessionWorks, TransitOpens, TransitCloses
<1>2. CASE PollBegins
  BY <1>2 DEF PollBegins, CallBegins
<1>3. CASE PollReturns
  BY <1>3 DEF PollReturns, EndsRunning, EndsIsolated, EndsUnsafe, UnsafeStops
<1>4. CASE Request
  BY <1>4 DEF Request, CallBegins
<1>5. CASE BlockConfirmed
  <2>1. why \in {"terminate", "main", "end"}
    BY <1>5 DEF BlockConfirmed
  <2>2. AfterBlock \in {"recv", "poll"} \/ (why = "end" /\ AfterBlock = "settle")
    BY <2>1 DEF AfterBlock
  <2>. QED
    BY <1>5, <2>1, <2>2 DEF BlockConfirmed, EndsIsolated, Ask
<1>6. CASE BlockFailed
  <2>1. why \in {"terminate", "main", "end"}
    BY <1>6 DEF BlockFailed
  <2>2. AfterBlock \in {"recv", "poll"} \/ (why = "end" /\ AfterBlock = "settle")
    BY <2>1 DEF AfterBlock
  <2>. QED
    BY <1>6, <2>1, <2>2 DEF BlockFailed, EndsUnsafe
<1>7. CASE Receive
  BY <1>7 DEF Receive, CallBegins
<1>8. CASE ReceiveNothing
  BY <1>8 DEF ReceiveNothing
<1>9. CASE Reap
  BY <1>9 DEF Reap, CallBegins
<1>10. CASE ReapFails
  BY <1>10 DEF ReapFails
<1>11. CASE SettlePolls
  BY <1>11 DEF SettlePolls, CallBegins, EndsIsolated, EndsUnsafe
<1>12. CASE Return
  BY <1>12 DEF Return
<1>13. CASE StartFails
  BY <1>13 DEF StartFails
<1>14. CASE Spawn
  BY <1>14 DEF Spawn
<1>15. CASE FirstExits
  BY <1>15 DEF FirstExits, Reaped, Finishes, Childless
<1>16. CASE FirstTurns
  BY <1>16 DEF FirstTurns, Reaped, Finishes, Childless, GraceOver, Broadcast
<1>17. CASE FirstWakes
  BY <1>17 DEF FirstWakes, Interrupts, Abandoned, Begins, Broadcast
<1>18. CASE BwrapEnds
  BY <1>18 DEF BwrapEnds
<1>19. CASE BwrapDies
  BY <1>19 DEF BwrapDies
<1>20. CASE MainEnds
  BY <1>20 DEF MainEnds
<1>21. CASE Fork
  BY <1>21 DEF Fork
<1>22. CASE OtherEnds
  BY <1>22 DEF OtherEnds
<1>23. CASE Terminate
  BY <1>23 DEF Terminate
<1>24. CASE Interrupt
  BY <1>24 DEF Interrupt
<1>25. CASE Tick
  BY <1>25 DEF Tick
<1>26. CASE Crash
  BY <1>26 DEF Crash
<1>27. CASE UNCHANGED vars
  BY <1>27 DEF vars, ExitCode, Fallback
<1>. QED
  BY <1>1, <1>2, <1>3, <1>4, <1>5, <1>6, <1>7, <1>8, <1>9, <1>10, <1>11, <1>12, <1>13, <1>14, <1>15, <1>16, <1>17, <1>18, <1>19, <1>20, <1>21, <1>22, <1>23, <1>24, <1>25, <1>26, <1>27 DEF Next, Loop, First

\* The initial state.
LEMMA InitIInv == Init => IInv
<1>. SUFFICES ASSUME Init PROVE IInv
  OBVIOUS
<1>1. TypeOK
  <2>1. SessionType /\ LoopType
    BY DEF Init, SessionType, LoopType
  <2>2. ResultType
    BY DEF Init, ResultType, Results
  <2>3. FirstType
    <3>1. -1 \in -1..Grace /\ 0 \in 0..MaxOthers
      BY SupervisionAssumption
    <3>. QED
      BY <3>1 DEF Init, FirstType
  <2>. QED
    BY <2>1, <2>2, <2>3, TypeParts
<1>2. Requests
  BY DEF Init, Requests
<1>3. Truth
  BY DEF Init, Truth, Results
<1>4. Ends
  BY DEF Init, Ends
<1>. QED
  BY <1>1, <1>2, <1>3, <1>4 DEF IInv

\* The inductive invariant holds in every reachable state.
THEOREM Invariance == Spec => []IInv
<1>1. Init => IInv
  BY InitIInv
<1>2. IInv /\ [Next]_vars => IInv'
  <2>. SUFFICES ASSUME IInv, [Next]_vars PROVE IInv'
    OBVIOUS
  <2>1. TypeOK /\ Requests /\ Truth /\ Ends
    BY DEF IInv
  <2>2. SessionType /\ LoopType /\ ResultType /\ FirstType
    BY <2>1, TypeParts
  <2>3. SessionType' /\ LoopType' /\ ResultType' /\ FirstType'
    BY <2>1, <2>2, SessionTypeStep, LoopTypeStep, ResultTypeStep, FirstTypeStep
  <2>4. TypeOK'
    BY <2>3 DEF TypeOK, SessionType, LoopType, ResultType, FirstType
  <2>5. Requests' /\ Truth' /\ Ends'
    BY <2>1, RequestsStep, TruthStep, EndsStep
  <2>. QED
    BY <2>4, <2>5 DEF IInv
<1>. QED
  BY <1>1, <1>2, PTL DEF Spec

\* The types of run, Application, the first process and its processes.
THEOREM TypeCorrect == Spec => []TypeOK
<1>1. IInv => TypeOK
  BY DEF IInv
<1>. QED
  BY <1>1, Invariance, PTL

\* run blocks the network before any process is asked to end (block).
THEOREM BlocksFirst == Spec => []BlockedBeforeAsked
<1>1. IInv => BlockedBeforeAsked
  BY DEF IInv, BlockedBeforeAsked, Requests
<1>. QED
  BY <1>1, Invariance, PTL

\* terminate and begin_grace between them are sent at most once.
THEOREM AsksOnce == Spec => []OneRequest
<1>1. IInv => OneRequest
  BY DEF IInv, OneRequest, Requests
<1>. QED
  BY <1>1, Invariance, PTL

\* The first process forces only after the request, or without a controller.
THEOREM AsksBeforeForcing == Spec => []ForcedAfterAsked
<1>1. IInv => ForcedAfterAsked
  BY DEF IInv, ForcedAfterAsked, Requests
<1>. QED
  BY <1>1, Invariance, PTL

\* run returns with nothing left and the network blocked, or with 125.
THEOREM ReturnsBlocked == Spec => []FinishedBlocked
<1>1. IInv => FinishedBlocked
  BY DEF IInv, FinishedBlocked, Ends, TypeOK, ExitCode, Fallback
<1>. QED
  BY <1>1, Invariance, PTL

\* The code run returns is the command's own result, 143 on request, and 125 on a fault.
THEOREM ReturnsTheTruth == Spec => []HonestCode
<1>1. IInv => HonestCode
  BY DEF IInv, HonestCode, Truth, Ends, TypeOK, ExitCode, Fallback, Results
<1>. QED
  BY <1>1, Invariance, PTL

=============================================================================
