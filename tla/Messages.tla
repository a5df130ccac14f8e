------------------------------- MODULE Messages -------------------------------
(***************************************************************************)
(* The messages between the processes of a run (kakoi-runtime/src/ipc.rs): *)
(* a header with the length of the body and the number of descriptors, the *)
(* descriptors in the ancillary data of the header's first part, then the  *)
(* body, over a stream socket that takes and gives any part of what it is  *)
(* asked for.  Either side watches descriptors that end the transfer.      *)
(*                                                                         *)
(* A byte of the stream is [byte, fds]; the header is two bytes here, the  *)
(* two counts; every byte of a body is its message's number.  A side whose *)
(* transfer failed is done with the socket: every caller drops it.         *)
(***************************************************************************)
EXTENDS Naturals, Sequences

CONSTANTS
    Sizes,          \* the body lengths a message may have
    Counts,         \* the numbers of descriptors it may have
    MAX_MESSAGE, MAX_FDS,
    MaxMessages,    \* bound: messages sent
    Capacity        \* bound: bytes the socket holds

VARIABLES
    stream,     \* what was sent and not received
    sent,       \* the messages send_watched accepted, in order
    left,       \* what the sender still has to write of the last one
    received,   \* the messages recv_watched returned
    header, fds, body,  \* what recv_watched has read of the next one
    sender, receiver,   \* "idle", "header" (receiver only), "body", or how it ended
    watch,      \* what the watches show: "quiet", "lost" or "signal"
    truncated   \* the kernel dropped descriptors (MSG_CTRUNC)

vars == <<stream, sent, left, received, header, fds, body, sender, receiver, watch, truncated>>
out  == <<sent, left, sender>>
in   == <<received, header, fds, body, receiver, truncated>>

Init ==
    /\ stream = <<>> /\ sent = <<>> /\ left = <<>> /\ sender = "idle" /\ watch = "quiet"
    /\ received = <<>> /\ header = <<>> /\ fds = 0 /\ body = <<>>
    /\ receiver = "idle" /\ truncated = FALSE

Over(side) == side \in {"failed", "invalid", "closed"}

-----------------------------------------------------------------------------
(* ready: a watch comes before the socket. *)

\* The mutant polls the socket alone.
QuietAlways == TRUE

Quiet == watch = "quiet"

SenderLost ==
    /\ sender = "body" /\ ~Quiet
    /\ sender' = "failed" /\ left' = <<>> /\ UNCHANGED <<stream, sent, in, watch>>

ReceiverLost ==
    /\ ~Over(receiver) /\ ~Quiet
    /\ receiver' = "failed"
    /\ UNCHANGED <<stream, out, received, header, fds, body, truncated, watch>>

-----------------------------------------------------------------------------
(* The sender. *)

\* The mutant sets no limit.
FitsAlways(size, count) == TRUE

Fits(size, count) == size <= MAX_MESSAGE /\ count <= MAX_FDS

\* send_watched up to the first part of the header: k bytes of it, with the descriptors.
SendHeader(size, count, k) ==
    LET whole == <<size, count>> \o [i \in 1 .. size |-> Len(sent) + 1]
    IN  /\ sender = "idle" /\ Len(sent) < MaxMessages /\ Quiet /\ ~Over(receiver)
        /\ Fits(size, count) /\ Len(stream) + k <= Capacity
        /\ sent' = Append(sent, <<size, count>>)
        /\ stream' = stream \o [i \in 1 .. k |-> [byte |-> whole[i],
                                                  fds |-> IF i = 1 THEN count ELSE 0]]
        /\ left' = SubSeq(whole, k + 1, Len(whole))
        /\ sender' = IF left' = <<>> THEN "idle" ELSE "body"
        /\ UNCHANGED <<in, watch>>

\* A message over a limit is refused before anything is sent.
SendRefused ==
    /\ sender = "idle" /\ Len(sent) < MaxMessages
    /\ \E size \in Sizes, count \in Counts : ~Fits(size, count)
    /\ sender' = "invalid" /\ UNCHANGED <<stream, sent, left, in, watch>>

\* write_all, one send.
Write(k) ==
    /\ sender = "body" /\ Quiet /\ ~Over(receiver)
    /\ k <= Len(left) /\ Len(stream) + k <= Capacity
    /\ stream' = stream \o [i \in 1 .. k |-> [byte |-> left[i], fds |-> 0]]
    /\ left' = SubSeq(left, k + 1, Len(left))
    /\ sender' = IF left' = <<>> THEN "idle" ELSE "body"
    /\ UNCHANGED <<sent, in, watch>>

\* The peer is gone: the send fails.
WriteFails ==
    /\ sender = "body" /\ Over(receiver)
    /\ sender' = "failed" /\ left' = <<>> /\ UNCHANGED <<stream, sent, in, watch>>

Close == sender = "idle" /\ sender' = "closed" /\ UNCHANGED <<stream, sent, left, in, watch>>

-----------------------------------------------------------------------------
(* The receiver. *)

\* The mutant goes on to the body whatever recvmsg gave of the header.
OnePart(k) == "body"

AfterPart(k) == IF k < 2 THEN "header" ELSE "body"

\* recvmsg: k bytes of the header with the descriptors that came with them.
RecvHeader(k) ==
    /\ receiver = "idle" /\ Quiet /\ k <= Len(stream)
    /\ header' = [i \in 1 .. k |-> stream[i].byte]
    /\ \E lose \in BOOLEAN :
         /\ lose => stream[1].fds > 0
         /\ fds' = IF lose THEN 0 ELSE stream[1].fds
         /\ truncated' = lose /\ receiver' = IF lose THEN "invalid" ELSE AfterPart(k)
    /\ stream' = SubSeq(stream, k + 1, Len(stream))
    /\ UNCHANGED <<out, received, body, watch>>

\* read_exact of the rest of the header.
ReadHeader ==
    /\ receiver = "header" /\ Quiet /\ stream # <<>>
    /\ header' = Append(header, Head(stream).byte) /\ stream' = Tail(stream)
    /\ receiver' = "body" /\ UNCHANGED <<out, received, fds, body, truncated, watch>>

Accepts(size, count) == Fits(size, count) /\ count = fds

Size  == header[1]
Count == IF Len(header) = 2 THEN header[2] ELSE 0

Refuse ==
    /\ receiver = "body" /\ body = <<>> /\ ~Accepts(Size, Count)
    /\ receiver' = "invalid"
    /\ UNCHANGED <<stream, out, received, header, fds, body, truncated, watch>>

\* read_exact of the body, one recv.
ReadBody(k) ==
    /\ receiver = "body" /\ Quiet /\ Accepts(Size, Count)
    /\ k <= Len(stream) /\ k <= Size - Len(body)
    /\ body' = body \o [i \in 1 .. k |-> stream[i].byte]
    /\ stream' = SubSeq(stream, k + 1, Len(stream))
    /\ UNCHANGED <<out, received, header, fds, receiver, truncated, watch>>

\* The body is whole: the message is decoded, or is no message.
Decode ==
    /\ receiver = "body" /\ Accepts(Size, Count) /\ Len(body) = Size
    /\ IF \A i \in DOMAIN body : body[i] = body[1]
       THEN received' = Append(received, <<Size, fds>>) /\ receiver' = "idle"
       ELSE receiver' = "invalid" /\ UNCHANGED received
    /\ header' = <<>> /\ fds' = 0 /\ body' = <<>>
    /\ UNCHANGED <<stream, out, truncated, watch>>

\* The mutant takes the end of the stream before what is left in it.
EndedEarly == Over(sender)

Ended == Over(sender) /\ stream = <<>>

\* The sender's end is closed and everything was read: the end of the stream.
RecvEnds ==
    /\ Ended /\ Quiet
    /\ \/ receiver \in {"idle", "header"}
       \/ receiver = "body" /\ Accepts(Size, Count) /\ Len(body) < Size
    /\ receiver' = "closed"
    /\ UNCHANGED <<stream, out, received, header, fds, body, truncated, watch>>

-----------------------------------------------------------------------------

Fires == watch = "quiet" /\ watch' \in {"lost", "signal"} /\ UNCHANGED <<stream, out, in>>

Send == \/ \E size \in Sizes, count \in Counts, k \in 1 .. 2 : SendHeader(size, count, k)
        \/ SendRefused

Transfer ==
    \/ SenderLost \/ WriteFails \/ \E k \in 1 .. Capacity : Write(k)
    \/ ReceiverLost \/ ReadHeader \/ Refuse \/ Decode \/ RecvEnds
    \/ \E k \in 1 .. 2 : RecvHeader(k)
    \/ \E k \in 1 .. Capacity : ReadBody(k)

Next == Send \/ Transfer \/ Close \/ Fires

Spec == Init /\ [][Next]_vars

\* Both sides go on with a transfer they began.
Fairness == WF_vars(Transfer)

-----------------------------------------------------------------------------
(* Properties. *)

TypeOK ==
    /\ Len(stream) <= Capacity /\ Len(sent) <= MaxMessages
    /\ Len(header) <= 2 /\ fds \in Counts \union {0} /\ Len(body) <= MAX_MESSAGE
    /\ sender \in {"idle", "body", "failed", "invalid", "closed"}
    /\ receiver \in {"idle", "header", "body", "failed", "invalid", "closed"}

\* What recv_watched returns is what send_watched was given, message by message, with that
\* message's own descriptors, however the stream was cut; and a message the sender accepted is
\* refused only when the kernel dropped descriptors (send_watched, recv_watched).
DeliveredAsSent ==
    /\ TypeOK
    /\ Len(received) <= Len(sent) /\ received = SubSeq(sent, 1, Len(received))
    /\ receiver = "invalid" => truncated

\* A transfer ends once a watch fires, whatever the peer does (ready); with no watch fired and
\* no descriptor dropped, what was begun arrives.
TransferEnds ==
    Fairness =>
        /\ watch # "quiet" ~> Over(receiver) /\ sender # "body"
        /\ \A n \in 1 .. MaxMessages :
              Len(sent) >= n ~> (Len(received) >= n \/ watch # "quiet" \/ truncated)
==============================================================================
