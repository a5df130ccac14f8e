--------------------------- MODULE Notifications ---------------------------
(***************************************************************************)
(* The notifications of a session, crates/kakoi-net/src/notification.rs,   *)
(* and the process that writes them to standard error, output.rs.  The     *)
(* queue is bounded in number and in bytes; what it omits is summed up     *)
(* with the current state.  One line at a time is with the writer, which   *)
(* may block, fail or die.                                                 *)
(*                                                                         *)
(* A notification is its number, a line and a length; a summary stands for *)
(* all notifications up to its number.                                     *)
(***************************************************************************)
EXTENDS Integers, Sequences, SequencesExt

CONSTANTS
    Lines,          \* the lines of the session's state
    Sizes,          \* lengths of lines
    MaxNotices,     \* MAX_NOTICES
    MaxBytes,       \* MAX_BYTES
    MaxPushed,      \* the notifications of a behaviour
    MaxFaults       \* how often the writer may fail

ASSUME NotificationsAssumption ==
    /\ {MaxNotices, MaxBytes, MaxPushed, MaxFaults} \subseteq Nat /\ Sizes \subseteq Nat \ {0}
    /\ \A size \in Sizes : 2 * size <= MaxBytes
    /\ MaxNotices >= 2

VARIABLES
    queue, current, bytes, omitted, inFlight,   \* Notifications
    busy, reaped,                               \* NotificationWriter
    wire,           \* the line the writer was sent, or Nothing
    reply,          \* its acknowledgement: "none", "written" or "failed"
    alive,          \* the writer process
    pushed,         \* history: notifications so far
    told,           \* history: the last notification a written line accounts for
    shown,          \* history: the state that was written last
    popped,         \* history: notifications popped, and those summed up as lost
    refused         \* history: lines the writer did not take or lost

notes  == <<queue, current, bytes, omitted, inFlight>>
writer == <<busy, reaped, wire, reply, alive>>
vars   == <<notes, writer, pushed, told, shown, popped, refused>>

Nothing == [n |-> 0, line |-> "none", state |-> 0, size |-> 0, summary |-> FALSE]

Init ==
    /\ queue = <<>> /\ current = Nothing /\ bytes = 0 /\ omitted = 0 /\ inFlight = 0
    /\ busy = FALSE /\ reaped = FALSE /\ wire = Nothing /\ reply = "none" /\ alive = TRUE
    /\ pushed = 0 /\ told = 0 /\ shown = 0
    /\ popped = [plain |-> 0, lost |-> 0] /\ refused = 0

-----------------------------------------------------------------------------

Pending(q) == Len(q) + (IF inFlight = 0 THEN 0 ELSE 1)

Total(q) == FoldLeft(LAMBDA sum, note : sum + note.size, 0, q)

\* Notifications::push drops from the front what exceeds a bound.
FitsAlone(q) == Len(q) <= MaxNotices /\ Total(q) <= MaxBytes
Fits(q) == Pending(q) <= MaxNotices /\ Total(q) + inFlight <= MaxBytes

Kept(q) == SubSeq(q, 1 + CHOOSE k \in 0..Len(q) :
    /\ Fits(SubSeq(q, k + 1, Len(q)))
    /\ \A j \in 0..(k - 1) : ~Fits(SubSeq(q, j + 1, Len(q))), Len(q))

Push(note) ==
    LET all  == Append(queue, note)
        kept == Kept(all) IN
    /\ queue' = kept
    /\ bytes' = Total(kept)
    /\ omitted' = omitted + Len(all) - Len(kept)
    /\ pushed' = pushed + 1
    /\ UNCHANGED <<inFlight, writer, told, shown, popped, refused>>

Note(line, state, size) ==
    [n |-> pushed + 1, line |-> line, state |-> state, size |-> size, summary |-> FALSE]

\* The same state for the same reason is not repeated.
Update(line, size) ==
    /\ pushed < MaxPushed /\ current.line # line
    /\ current' = Note(line, pushed + 1, size)
    /\ Push(current')

\* A notice comes while a session has a state, and does not replace it.
Notice(size) ==
    /\ pushed < MaxPushed /\ current # Nothing
    /\ Push(Note("notice", 0, size))
    /\ UNCHANGED current

ProgressStuck ==
    IF ~alive THEN IF busy THEN "lost" ELSE "closed"
    ELSE IF ~busy \/ reply = "written" THEN "ready" ELSE "busy"

\* NotificationWriter::poll
Progress ==
    IF ~alive THEN IF busy THEN "lost" ELSE "closed"
    ELSE IF ~busy THEN "ready"
    ELSE CASE reply = "none" -> "busy" [] reply = "written" -> "ready"
           [] reply = "failed" -> "lost"

\* What flush_to adds to the omissions when the writer lost its line.
LostLineForgotten == 0
LostLine == IF Progress = "lost" /\ current # Nothing THEN 1 ELSE 0

\* pop_record: after an omission the summary, which takes the backlog with it.
PoppedLine(losses, size) ==
    IF losses = 0 THEN Head(queue)
    ELSE [current EXCEPT !.n = pushed, !.size = size, !.summary = TRUE]

Backlog(losses)     == IF losses = 0 THEN Tail(queue) ELSE <<>>

BytesLeft(line, losses) == IF losses = 0 THEN bytes - line.size ELSE 0

\* The count of a summary: what was omitted and the backlog.
LostButOne(losses) == losses + Len(queue) - 1
Lost(losses) == losses + Len(queue)

Pop(line, losses) ==
    /\ queue' = Backlog(losses)
    /\ bytes' = BytesLeft(line, losses)
    /\ popped' = IF losses = 0 THEN [popped EXCEPT !.plain = @ + 1]
                 ELSE [popped EXCEPT !.lost = @ + Lost(losses)]

\* NotificationWriter::send
Send(line) ==
    \/ alive /\ wire' = line /\ inFlight' = line.size /\ busy' = TRUE /\ omitted' = 0
    \/ /\ ~alive \/ refused < MaxFaults
       /\ wire' = Nothing /\ inFlight' = 0 /\ busy' = FALSE /\ omitted' = 1

\* Notifications::flush_to
Flush ==
    /\ Progress \in {"ready", "lost"}
    /\ reaped' = ~alive
    /\ reply' = "none"
    /\ LET losses == omitted + LostLine IN
       \/ /\ losses > 0 \/ queue # <<>>
          /\ \E size \in Sizes :
                LET line == PoppedLine(losses, size) IN Send(line) /\ Pop(line, losses)
          /\ refused' = refused + LostLine + omitted'
       \/ /\ losses = 0 /\ queue = <<>>
          /\ busy' = FALSE /\ inFlight' = 0 /\ wire' = Nothing
          /\ UNCHANGED <<queue, bytes, omitted, popped, refused>>
    /\ UNCHANGED <<current, alive, pushed, told, shown>>

-----------------------------------------------------------------------------
(* The writer process. *)

WriterWrites ==
    /\ alive /\ wire # Nothing /\ reply = "none"
    /\ reply' = "written"
    /\ told' = wire.n
    /\ shown' = IF wire.state # 0 THEN wire.state ELSE shown
    /\ UNCHANGED <<notes, busy, reaped, wire, alive, pushed, popped, refused>>

\* Standard error refuses the line, or takes only a part of it.
WriterFails ==
    /\ refused < MaxFaults /\ alive /\ wire # Nothing /\ reply = "none"
    /\ reply' = "failed"
    /\ UNCHANGED <<notes, busy, reaped, wire, alive, pushed, told, shown, popped, refused>>

WriterDies ==
    /\ refused < MaxFaults /\ alive
    /\ alive' = FALSE
    /\ UNCHANGED <<notes, busy, reaped, wire, reply, pushed, told, shown, popped, refused>>

Next ==
    \/ \E line \in Lines, size \in Sizes : Update(line, size)
    \/ \E size \in Sizes : Notice(size)
    \/ Flush \/ WriterWrites \/ WriterFails \/ WriterDies

Spec == Init /\ [][Next]_vars

\* The session flushes at every turn, and standard error takes lines in the end.
Fairness == WF_vars(Flush) /\ WF_vars(WriterWrites)

-----------------------------------------------------------------------------

NoteOK(note) ==
    /\ note.n \in 0..pushed /\ note.state \in 0..pushed /\ note.size \in Sizes \cup {0}
    /\ note.line \in Lines \cup {"none", "notice"} /\ note.summary \in BOOLEAN

TypeOK ==
    /\ \A i \in 1..Len(queue) : NoteOK(queue[i])
    /\ NoteOK(current) /\ NoteOK(wire)
    /\ {bytes, omitted, inFlight, pushed, told, shown} \subseteq Nat
    /\ {busy, reaped, alive} \subseteq BOOLEAN /\ reply \in {"none", "written", "failed"}
    /\ popped \in [plain : Nat, lost : Nat] /\ refused \in Nat

\* What is queued and what is with the writer stay within both bounds together, whatever
\* was sent in between (REQ-144), and the count of bytes is that of the queue.
BoundsKept ==
    /\ Pending(queue) <= MaxNotices /\ bytes + inFlight <= MaxBytes
    /\ bytes = Total(queue)

\* Every notification is popped, summed up as lost, waiting, or counted as omitted: none
\* is counted twice and none escapes the count.
Conserved == pushed + refused = popped.plain + popped.lost + omitted + Len(queue)

\* The current state is not forgotten: until it is written it waits, is with the writer,
\* or an omission is left to be told together with it.
StateNotForgotten ==
    \/ current = Nothing \/ shown = current.state \/ omitted # 0
    \/ wire.state = current.state /\ wire # Nothing
    \/ \E i \in 1..Len(queue) : queue[i].state = current.state

\* The books of the notifications are right.
NoticesKept == TypeOK /\ BoundsKept /\ Conserved /\ StateNotForgotten

\* The reader is not misled: a line is written after all its predecessors are accounted for
\* (a summary accounts for everything before it), the state that is written never goes back
\* to an older one, also after omissions ("showing old state changes after the latest state
\* would misleadingly appear to reverse the recovery"), and while the writer works the
\* current state comes to be seen.
StateShown ==
    /\ [][told' # told => wire.summary \/ told' = told + 1]_vars
    /\ [][shown' >= shown]_vars
    /\ Fairness => \A s \in 1..MaxPushed :
          current.state = s ~> (shown = s \/ current.state # s \/ ~alive)

=============================================================================
