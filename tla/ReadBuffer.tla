----------------------------- MODULE ReadBuffer -----------------------------
(***************************************************************************)
(* The way of the bytes one client sends: recv() in handleReadable, the    *)
(* read buffer of Client and the loop that takes lines out of it.  TCP     *)
(* cuts the stream where it likes; what is executed must not depend on it. *)
(*                                                                         *)
(* The bytes are those the framing tells apart, payload "x", and "q" for a *)
(* payload such that the line <<"q">> is a QUIT.                           *)
(***************************************************************************)
EXTENDS Integers, Sequences, FiniteSets

CONSTANTS
    MaxBuffer,    \* MAX_READ_BUFFER
    MaxPayload,   \* MAX_PAYLOAD_LEN
    Chunk,        \* RECV_CHUNK
    MaxStream     \* bound: bytes received

Byte == {"x", "q", "lf", "cr", "nul"}

\* What one recv() may return.
Chunks == UNION {[1 .. n -> Byte] : n \in 1 .. Chunk}

\* Limits.hpp has MAX_READ_BUFFER = RECV_CHUNK = 4096.
ASSUME ReadAssumption ==
    /\ MaxBuffer \in Nat /\ MaxPayload \in Nat
    /\ Chunk \in Nat /\ Chunk <= MaxBuffer + 1
    /\ MaxStream \in Nat

VARIABLES
    stream,     \* all that was received from the client
    buf,        \* _readBuffer
    draining,   \* inside the loop of handleReadable
    lines,      \* the lines handed to handleLine
    marked      \* why _disconnecting is set, or "no"

vars == <<stream, buf, draining, lines, marked>>

Init ==
    /\ stream = <<>> /\ buf = <<>> /\ draining = FALSE
    /\ lines = <<>> /\ marked = "no"

HasLine(b) == \E p \in 1 .. Len(b) : b[p] = "lf"

\* Mutant: the size is tested before the append.
TooLongBefore(b) == Len(b) > MaxBuffer + Chunk /\ ~HasLine(b)

\* What appendToReadBuffer refuses, after appending.
TooLong(b) == Len(b) > MaxBuffer /\ ~HasLine(b)

IsPayload(byte) == byte \notin {"nul", "cr", "lf"}

Cut(s) == IF Len(s) > MaxPayload THEN SubSeq(s, 1, MaxPayload) ELSE s

\* remove_if and erase: what is payload stays, in order.
Stripped(s) ==
    LET Kept[n \in 0 .. Len(s)] ==
            IF n = 0 THEN <<>>
            ELSE IF IsPayload(s[n]) THEN Append(Kept[n - 1], s[n]) ELSE Kept[n - 1]
    IN  Kept[Len(s)]

\* Mutant: cleaned first, cut after.
CutLast(s) == Cut(Stripped(s))

\* extractCommand on the bytes before a LF: drop one CR, cut, then clean.
Extracted(s) ==
    LET body == IF s # <<>> /\ s[Len(s)] = "cr" THEN SubSeq(s, 1, Len(s) - 1) ELSE s
    IN  Stripped(Cut(body))

\* One recv() of at most Chunk bytes.
Recv ==
    /\ ~draining
    /\ marked = "no"
    /\ \E data \in Chunks :
          /\ Len(stream) + Len(data) <= MaxStream
          /\ stream' = stream \o data
          /\ buf' = buf \o data
    /\ IF TooLong(buf')
       THEN marked' = "flood" /\ UNCHANGED draining
       ELSE draining' = TRUE /\ UNCHANGED marked
    /\ UNCHANGED lines

\* recv() returns 0.
PeerCloses ==
    /\ ~draining
    /\ marked = "no"
    /\ marked' = "closed"
    /\ UNCHANGED <<stream, buf, draining, lines>>

\* Mutant: the loop does not look at the mark.
DrainsOn == draining

\* The condition of the loop, but for the line itself.
MayDrain == draining /\ marked = "no"

\* One turn of the loop: extractCommand and handleLine.  QUIT marks its client;
\* any other line may, a full output queue or a wrong password being enough.
HandleLine ==
    /\ MayDrain
    /\ \E p \in 1 .. Len(buf) :
          /\ buf[p] = "lf" /\ ~HasLine(SubSeq(buf, 1, p - 1))
          /\ lines' = Append(lines, Extracted(SubSeq(buf, 1, p - 1)))
          /\ buf' = SubSeq(buf, p + 1, Len(buf))
    /\ IF lines'[Len(lines')] = <<"q">> THEN marked' = "quit"
                                        ELSE marked' \in {marked, "other"}
    /\ UNCHANGED <<stream, draining>>

\* The end of the loop.
Stop ==
    /\ draining
    /\ ~(MayDrain /\ HasLine(buf))
    /\ draining' = FALSE
    /\ UNCHANGED <<stream, buf, lines, marked>>

\* The client is dropped by the line of another one, or its socket fails.
MarkedElsewhere ==
    /\ ~draining
    /\ marked = "no"
    /\ marked' = "other"
    /\ UNCHANGED <<stream, buf, draining, lines>>

\* What is left of a marked client is the reap.
Dropped ==
    /\ ~draining
    /\ marked # "no"
    /\ UNCHANGED vars

Next == Recv \/ PeerCloses \/ HandleLine \/ Stop \/ MarkedElsewhere \/ Dropped

Spec == Init /\ [][Next]_vars

-----------------------------------------------------------------------------
(* What should be executed, by the stream s alone.                         *)

LineFeeds(s, upto) == {p \in 1 .. upto : s[p] = "lf"}

\* The position after the last line feed before p.
LineStart(s, p) ==
    1 + CHOOSE q \in 0 .. p - 1 :
            /\ q = 0 \/ s[q] = "lf"
            /\ \A m \in q + 1 .. p - 1 : s[m] # "lf"

\* Of the line that the line feed at p ends, the first MaxPayload bytes.
ReferenceBytes(s, p) ==
    LET from == LineStart(s, p)
    IN  SubSeq(s, from, IF p - from > MaxPayload THEN from + MaxPayload - 1 ELSE p - 1)

\* line has the payload of bytes: the one that is r-th among the payload comes
\* r-th, and there is nothing else.
IsPayloadOf(line, bytes) ==
    LET kept == {m \in 1 .. Len(bytes) : bytes[m] \notin {"nul", "cr"}}
    IN  /\ Len(line) = Cardinality(kept)
        /\ \A m \in kept : line[Cardinality(kept \cap (1 .. m))] = bytes[m]

\* What follows the last line feed.
Unfinished(s) == SubSeq(s, LineStart(s, Len(s) + 1), Len(s))

\* However the stream is cut into packets, the n-th line executed is the one the
\* n-th line feed ends, and between two packets nothing complete is waiting and
\* nothing incomplete is lost.
CutsDoNotMatter ==
    /\ \A p \in LineFeeds(stream, Len(stream)) :
          LET n == Cardinality(LineFeeds(stream, p))
          IN  n <= Len(lines) => IsPayloadOf(lines[n], ReferenceBytes(stream, p))
    /\ ~draining /\ marked = "no" =>
          /\ Len(lines) = Cardinality(LineFeeds(stream, Len(stream)))
          /\ buf = Unfinished(stream)

\* After QUIT, nothing that came in the same packet is executed.
QuitIsLast == \A n \in 1 .. Len(lines) - 1 : lines[n] # <<"q">>

\* The buffer peaks at MAX_READ_BUFFER + RECV_CHUNK; between two packets it is
\* within MAX_READ_BUFFER and holds no complete line (Client.cpp:277-284).
BufferIsCapped ==
    /\ Len(buf) <= MaxBuffer + Chunk
    /\ ~draining /\ marked = "no" => Len(buf) <= MaxBuffer /\ ~HasLine(buf)

\* Floods are cut, so that the buffer is bounded, and nothing else is: only a
\* client with more than MAX_READ_BUFFER bytes of unfinished line is dropped for
\* it, and pipelining any number of finished lines is no flood.
OnlyFloodsAreCut ==
    BufferIsCapped /\ (marked = "flood" => Len(Unfinished(stream)) > MaxBuffer)
=============================================================================
