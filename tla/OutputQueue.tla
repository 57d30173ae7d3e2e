---------------------------- MODULE OutputQueue ----------------------------
(***************************************************************************)
(* The way of the bytes of one client: Server::sendToClient, the output    *)
(* queue of Client, the send() of handleWritable and the last flush of     *)
(* reapDisconnected, against a kernel buffer that takes as much as it      *)
(* likes and a peer that reads when it likes.                              *)
(*                                                                         *)
(* A byte is <<i, kind>>: it belongs to the i-th line handed over, or to   *)
(* the ERROR line, number 0; kind tells payload, CR and LF.                *)
(***************************************************************************)
EXTENDS Integers, Sequences

CONSTANTS
    MaxPayload,   \* MAX_PAYLOAD_LEN
    MaxQueue,     \* MAX_OUTPUT_QUEUE
    ErrorSize,    \* length of "ERROR :<reason>"
    Kernel,       \* size of the socket's send buffer
    Sizes,        \* lengths of the lines handed over
    Budget        \* bound: lines handed over

ASSUME OutputAssumption ==
    /\ MaxPayload \in Nat /\ MaxQueue \in Nat /\ ErrorSize \in Nat
    /\ Kernel \in Nat /\ Budget \in Nat
    /\ Sizes \subseteq Nat

VARIABLES
    queue,      \* _outputBuffer
    wire,       \* the bytes the kernel took
    taken,      \* how many of them the peer read
    accepted,   \* the bytes queueOutput accepted
    handed,     \* lines handed to sendToClient
    marked,     \* _disconnecting
    open,       \* the descriptor is open and the client exists
    reset       \* the peer went away: every send() fails

vars == <<queue, wire, taken, accepted, handed, marked, open, reset>>

Byte == (0 .. Budget) \X {"payload", "cr", "lf"}

Room == Kernel - (Len(wire) - taken)

Init ==
    /\ queue = <<>> /\ wire = <<>> /\ taken = 0
    /\ accepted = <<>> /\ handed = 0
    /\ marked = FALSE /\ open = TRUE /\ reset = FALSE

-----------------------------------------------------------------------------

Payload(i, size) == [b \in 1 .. size |-> <<i, "payload">>]
CRLF(i) == << <<i, "cr">>, <<i, "lf">> >>

\* Mutant: the CRLF is appended first and truncated with the line.
TruncateLast(i, size) ==
    SubSeq(Payload(i, size) \o CRLF(i), 1,
           IF size <= MaxPayload THEN size + 2 ELSE MaxPayload + 2)

\* The bytes of line i: cut to MaxPayload, then terminated.
Framed(i, size) ==
    Payload(i, IF size > MaxPayload THEN MaxPayload ELSE size) \o CRLF(i)

Fits(q, data) == Len(q) + Len(data) <= MaxQueue

\* queueOutput when it does not refuse.
Accept(data) ==
    /\ queue' = queue \o data
    /\ accepted' = accepted \o data

\* disconnectClient: the mark, then ERROR if it fits.
Disconnect ==
    /\ marked' = TRUE
    /\ LET error == Framed(0, ErrorSize)
       IN  IF ~marked /\ Fits(queue, error) THEN Accept(error)
                                            ELSE UNCHANGED <<queue, accepted>>

\* Mutant: a refused line is forgotten.
Forget == UNCHANGED <<queue, accepted, marked>>

\* What sendToClient does with a line that does not fit.
Refuse == Disconnect

\* sendToClient, from any handler, to a client marked or not.
SendToClient(size) ==
    /\ open
    /\ handed < Budget
    /\ handed' = handed + 1
    /\ LET data == Framed(handed', size)
       IN  \/ Fits(queue, data) /\ Accept(data) /\ UNCHANGED marked
           \/ ~Fits(queue, data) /\ Refuse
    /\ UNCHANGED <<wire, taken, open, reset>>

\* QUIT, an error of recv(), POLLHUP: disconnectClient for another cause.
DisconnectClient ==
    /\ open
    /\ ~marked
    /\ Disconnect
    /\ UNCHANGED <<wire, taken, handed, open, reset>>

-----------------------------------------------------------------------------

\* Mutant: what was offered to send() is dropped, not what it took.
ConsumeAll(n) == queue' = <<>>

ConsumeOutput(n) == queue' = SubSeq(queue, n + 1, Len(queue))

\* Mutant: once something was sent the rest is taken for sent.
PendingUntilFirstSend == queue # <<>> /\ wire = <<>>

HasPendingOutput == queue # <<>>

\* send() takes the first n bytes offered.
Sent(n) ==
    /\ wire' = wire \o SubSeq(queue, 1, n)
    /\ ConsumeOutput(n)

\* handleWritable: POLLOUT is armed because something is queued.
HandleWritable ==
    /\ open
    /\ HasPendingOutput
    /\ ~reset
    /\ \E n \in 1 .. Len(queue) : n <= Room /\ Sent(n)
    /\ UNCHANGED <<taken, accepted, handed, marked, open, reset>>

\* handleWritable when send() fails.
WriteFails ==
    /\ open
    /\ HasPendingOutput
    /\ reset
    /\ Disconnect
    /\ UNCHANGED <<wire, taken, handed, open, reset>>

\* Mutant: the close waits until everything is out.
Flushed == queue = <<>> /\ UNCHANGED <<queue, wire>>

\* The flush of reapDisconnected: one send(), whatever comes of it.
Flush ==
    IF ~HasPendingOutput \/ reset \/ Room = 0
    THEN UNCHANGED <<queue, wire>>
    ELSE \E n \in 1 .. Len(queue) : n <= Room /\ Sent(n)

\* reapDisconnected at the end of the iteration.
Reap ==
    /\ open
    /\ marked
    /\ Flush
    /\ open' = FALSE
    /\ UNCHANGED <<taken, accepted, handed, marked, reset>>

\* The environment: the peer reads some, or goes away.
PeerReads ==
    /\ ~reset
    /\ \E n \in taken + 1 .. Len(wire) : taken' = n
    /\ UNCHANGED <<queue, wire, accepted, handed, marked, open, reset>>

PeerResets ==
    /\ ~reset
    /\ reset' = TRUE
    /\ UNCHANGED <<queue, wire, taken, accepted, handed, marked, open>>

Next ==
    \/ \E size \in Sizes : SendToClient(size)
    \/ DisconnectClient
    \/ HandleWritable \/ WriteFails \/ Reap
    \/ PeerReads \/ PeerResets

Spec == Init /\ [][Next]_vars

\* The loop comes round: POLLOUT is level-triggered and stays armed while
\* something is queued, and every iteration ends with a reap.  The peer owes
\* nothing.
FairSpec == Spec /\ WF_vars(HandleWritable \/ WriteFails) /\ WF_vars(Reap)

-----------------------------------------------------------------------------

Stream == wire \o queue

TypeOK ==
    /\ queue \in Seq(Byte) /\ wire \in Seq(Byte) /\ accepted \in Seq(Byte)
    /\ taken \in 0 .. Len(wire)
    /\ handed \in 0 .. Budget
    /\ marked \in BOOLEAN /\ open \in BOOLEAN /\ reset \in BOOLEAN

\* The cap is hard: the queue never holds more than MaxQueue bytes, not even
\* between two lines of one burst (Client.cpp:429).
WithinCap == Len(queue) <= MaxQueue

\* What went out and what waits are together exactly what was accepted, in that
\* order: a send() that takes part of a line loses, repeats and swaps nothing.
NothingLost == Stream = accepted

\* Whatever the lengths handed over, the stream is whole lines of at most 512
\* bytes, each ending in CR LF: no line is cut by the truncation of the next, or
\* glued to it.
WholeLines ==
    LET s == Stream
        Lf(p) == s[p][2] = "lf"
    IN  /\ s # <<>> => Lf(Len(s))
        /\ \A p \in 1 .. Len(s) : Lf(p) => p > 1 /\ s[p - 1] = <<s[p][1], "cr">>
        /\ \A p, q \in 1 .. Len(s) :
              p <= q /\ (\A m \in p .. q - 1 : ~Lf(m))
                  => s[p][1] = s[q][1] /\ q - p < MaxPayload + 2

\* A client that is not being dropped misses no line: every line handed over for
\* it was accepted.  A refusal is never silent.
LiveMissesNothing ==
    ~marked => \A i \in 1 .. handed :
                   \E p \in 1 .. Len(accepted) : accepted[p] = <<i, "lf">>

\* The two sides of a refusal: lines are refused, so that the queue stays within
\* its cap, and whoever is refused one is dropped.
QueueIsHonest == WithinCap /\ LiveMissesNothing

\* For a peer that keeps reading, and for as long as it is neither dropped nor
\* gone, all that was accepted leaves: POLLOUT is armed whenever there is
\* something to write.
AllGetsOut ==
    []<>(taken = Len(wire)) =>
        \A n \in 1 .. Budget * (MaxPayload + 2) :
            Len(accepted) >= n ~> (Len(wire) >= n \/ marked \/ reset)

\* A client that was marked is closed, whether or not it reads: the flush is one
\* attempt and waits for nobody.
ClosesAnyway == marked ~> ~open
=============================================================================
