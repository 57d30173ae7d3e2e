---------------------------- MODULE OutputProofs ----------------------------
(***************************************************************************)
(* Theorems about OutputQueue, for every length of line and every size of  *)
(* queue and of kernel buffer: the cap, the order of the bytes, and that   *)
(* no refusal is silent.                                                   *)
(***************************************************************************)
EXTENDS OutputQueue, SequenceTheorems, TLAPS

\* The last element of a concatenation is that of its second part.
LEMMA LastOfConcat ==
    ASSUME NEW S, NEW s \in Seq(S), NEW t \in Seq(S), Len(t) = 2
    PROVE  /\ s \o t \in Seq(S)
           /\ Len(s \o t) = Len(s) + 2
           /\ (s \o t)[Len(s) + 2] = t[2]
<1>1. Len(s) \in Nat OBVIOUS
<1>2. s \o t \in Seq(S) /\ Len(s \o t) = Len(s) + 2
  <2>1. s \o t \in Seq(S) BY ConcatProperties
  <2>2. Len(s \o t) = Len(s) + Len(t) BY ConcatProperties
  <2> QED BY <2>1, <2>2
<1>3. \A k : k = Len(s) + 2 => (s \o t)[k] = t[2]
  <2> SUFFICES ASSUME NEW k, k = Len(s) + 2 PROVE (s \o t)[k] = t[2]
    OBVIOUS
  <2>1. k \in 1 .. Len(s) + Len(t) /\ ~(k <= Len(s)) /\ k - Len(s) = 2
    BY <1>1
  <2>2. \A m \in 1 .. Len(s) + Len(t) :
            (s \o t)[m] = IF m <= Len(s) THEN s[m] ELSE t[m - Len(s)]
    BY ConcatProperties
  <2>3. (s \o t)[k] = IF k <= Len(s) THEN s[k] ELSE t[k - Len(s)]
    BY <2>1, <2>2, Zenon
  <2> QED BY <2>1, <2>3, Zenon
<1> QED BY <1>2, <1>3, Zenon

\* A frame is a sequence of bytes that ends with the LF of its line.
LEMMA FramedType ==
    ASSUME NEW i \in 0 .. Budget, NEW size \in Nat
    PROVE  /\ Framed(i, size) \in Seq(Byte)
           /\ Len(Framed(i, size)) > 0
           /\ Framed(i, size)[Len(Framed(i, size))] = <<i, "lf">>
<1> DEFINE n == IF size > MaxPayload THEN MaxPayload ELSE size
<1>1. n \in Nat BY OutputAssumption
<1> HIDE DEF n
<1>2. Payload(i, n) \in Seq(Byte)
  <2>1. Payload(i, n) \in [1 .. n -> Byte] BY DEF Payload, Byte
  <2> QED BY <1>1, <2>1
<1>3. CRLF(i) \in Seq(Byte) /\ Len(CRLF(i)) = 2 /\ CRLF(i)[2] = <<i, "lf">>
  BY DEF CRLF, Byte
<1>4. Framed(i, size) = Payload(i, n) \o CRLF(i) BY DEF Framed, n
<1>5. \A s, t \in Seq(Byte) : Len(t) = 2 =>
          /\ s \o t \in Seq(Byte)
          /\ Len(s \o t) > 0
          /\ (s \o t)[Len(s \o t)] = t[2]
  <2> SUFFICES ASSUME NEW s \in Seq(Byte), NEW t \in Seq(Byte), Len(t) = 2
               PROVE  /\ s \o t \in Seq(Byte)
                      /\ Len(s \o t) > 0
                      /\ (s \o t)[Len(s \o t)] = t[2]
    OBVIOUS
  <2>1. Len(s) \in Nat OBVIOUS
  <2> QED BY <2>1, LastOfConcat
<1> QED BY <1>2, <1>3, <1>4, <1>5, Zenon

\* Concatenation is associative.
LEMMA Regroup ==
    ASSUME NEW S, NEW s \in Seq(S), NEW t \in Seq(S), NEW u \in Seq(S)
    PROVE  (s \o t) \o u = s \o (t \o u)
BY ConcatAssociative

LEMMA RegroupBytes ==
    \A s, t, u \in Seq(Byte) : (s \o t) \o u = s \o (t \o u)
BY Regroup

\* Moving the first n bytes of q behind w changes nothing in w \o q.
LEMMA MovePrefix ==
    ASSUME NEW w \in Seq(Byte), NEW q \in Seq(Byte), NEW n \in 1 .. Len(q)
    PROVE  /\ SubSeq(q, 1, n) \in Seq(Byte)
           /\ SubSeq(q, n + 1, Len(q)) \in Seq(Byte)
           /\ Len(SubSeq(q, n + 1, Len(q))) = Len(q) - n
           /\ (w \o SubSeq(q, 1, n)) \o SubSeq(q, n + 1, Len(q)) = w \o q
<1>1. /\ SubSeq(q, 1, n) \in Seq(Byte)
      /\ SubSeq(q, n + 1, Len(q)) \in Seq(Byte)
      /\ Len(SubSeq(q, n + 1, Len(q))) = Len(q) - n
  OBVIOUS
<1>2. SubSeq(q, 1, n) \o SubSeq(q, n + 1, Len(q)) = q
  <2>1. SubSeq(q, 1, n) \o SubSeq(q, n + 1, Len(q)) = SubSeq(q, 1, Len(q))
    BY ConcatAdjacentSubSeq
  <2> QED BY <2>1, SubSeqFull
<1>3. \A a, b \in Seq(Byte) : a \o b = q => (w \o a) \o b = w \o q
  <2> SUFFICES ASSUME NEW a \in Seq(Byte), NEW b \in Seq(Byte), a \o b = q
               PROVE  (w \o a) \o b = w \o q
    OBVIOUS
  <2>1. (w \o a) \o b = w \o (a \o b) BY RegroupBytes
  <2> QED BY <2>1
<1> QED BY <1>1, <1>2, <1>3, Zenon

\* What is appended to accepted: earlier bytes stay, the last one is data's.
LEMMA AppendBytes ==
    ASSUME NEW s \in Seq(Byte), NEW t \in Seq(Byte)
    PROVE  /\ s \o t \in Seq(Byte)
           /\ Len(s \o t) = Len(s) + Len(t)
           /\ \A p \in 1 .. Len(s) : p \in 1 .. Len(s \o t) /\ (s \o t)[p] = s[p]
           /\ Len(t) > 0 => /\ Len(s \o t) \in 1 .. Len(s \o t)
                            /\ (s \o t)[Len(s \o t)] = t[Len(t)]
<1>1. Len(s) \in Nat /\ Len(t) \in Nat OBVIOUS
<1>2. s \o t \in Seq(Byte) /\ Len(s \o t) = Len(s) + Len(t)
  BY ConcatProperties
<1>3. \A m \in 1 .. Len(s) + Len(t) :
          (s \o t)[m] = IF m <= Len(s) THEN s[m] ELSE t[m - Len(s)]
  BY ConcatProperties
<1>4. \A p \in 1 .. Len(s) : p \in 1 .. Len(s \o t) /\ (s \o t)[p] = s[p]
  <2> TAKE p \in 1 .. Len(s)
  <2>1. p \in 1 .. Len(s) + Len(t) /\ p <= Len(s) BY <1>1
  <2>2. (s \o t)[p] = s[p] BY <2>1, <1>3, Zenon
  <2> QED BY <2>1, <2>2, <1>2, Zenon
<1>5. ASSUME Len(t) > 0
      PROVE  /\ Len(s \o t) \in 1 .. Len(s \o t)
             /\ (s \o t)[Len(s \o t)] = t[Len(t)]
  <2>1. \A k : k = Len(s) + Len(t) =>
            /\ k \in 1 .. k
            /\ (s \o t)[k] = t[Len(t)]
    <3> SUFFICES ASSUME NEW k, k = Len(s) + Len(t)
                 PROVE  k \in 1 .. k /\ (s \o t)[k] = t[Len(t)]
      OBVIOUS
    <3>1. /\ k \in 1 .. Len(s) + Len(t) /\ k \in 1 .. k
          /\ ~(k <= Len(s)) /\ k - Len(s) = Len(t)
      BY <1>1, <1>5
    <3>2. (s \o t)[k] = IF k <= Len(s) THEN s[k] ELSE t[k - Len(s)]
      BY <3>1, <1>3, Zenon
    <3> QED BY <3>1, <3>2, Zenon
  <2> QED BY <2>1, <1>2, Zenon
<1> QED BY <1>2, <1>4, <1>5

IInv == TypeOK /\ WithinCap /\ NothingLost /\ LiveMissesNothing

\* Accepting a line that fits keeps all that does not look at marked and handed.
LEMMA AcceptStep ==
    ASSUME IInv, NEW data \in Seq(Byte), Fits(queue, data), Accept(data), wire' = wire
    PROVE  /\ queue' \in Seq(Byte) /\ accepted' \in Seq(Byte)
           /\ Len(queue') <= MaxQueue
           /\ NothingLost'
           /\ \A p \in 1 .. Len(accepted) :
                  p \in 1 .. Len(accepted') /\ accepted'[p] = accepted[p]
           /\ Len(data) > 0 => /\ Len(accepted') \in 1 .. Len(accepted')
                               /\ accepted'[Len(accepted')] = data[Len(data)]
<1>1. queue \in Seq(Byte) /\ wire \in Seq(Byte) /\ accepted \in Seq(Byte)
  BY DEF IInv, TypeOK
<1>2. queue' = queue \o data /\ accepted' = accepted \o data BY DEF Accept
<1>3. queue \o data \in Seq(Byte) /\ Len(queue \o data) <= MaxQueue
  <2>1. Len(queue \o data) = Len(queue) + Len(data) BY <1>1, AppendBytes
  <2>2. Len(queue) + Len(data) <= MaxQueue BY DEF Fits
  <2>3. queue \o data \in Seq(Byte) BY <1>1, AppendBytes
  <2> QED BY <2>1, <2>2, <2>3
<1>4. NothingLost'
  <2>1. wire \o queue = accepted BY DEF IInv, NothingLost, Stream
  <2>2. (wire \o queue) \o data = wire \o (queue \o data) BY <1>1, RegroupBytes
  <2>3. wire' \o queue' = accepted' BY <2>1, <2>2, <1>2, Zenon
  <2> QED BY <2>3 DEF NothingLost, Stream
<1>5. /\ accepted \o data \in Seq(Byte)
      /\ \A p \in 1 .. Len(accepted) :
             p \in 1 .. Len(accepted \o data) /\ (accepted \o data)[p] = accepted[p]
      /\ Len(data) > 0 => /\ Len(accepted \o data) \in 1 .. Len(accepted \o data)
                          /\ (accepted \o data)[Len(accepted \o data)] = data[Len(data)]
  BY <1>1, AppendBytes
<1> QED BY <1>2, <1>3, <1>4, <1>5, Zenon

\* A send() keeps the stream.
LEMMA SentStep ==
    ASSUME IInv, NEW n \in 1 .. Len(queue), Sent(n), accepted' = accepted
    PROVE  /\ queue' \in Seq(Byte) /\ wire' \in Seq(Byte)
           /\ Len(queue') <= MaxQueue
           /\ Len(wire) <= Len(wire')
           /\ NothingLost'
<1>1. queue \in Seq(Byte) /\ wire \in Seq(Byte) BY DEF IInv, TypeOK
<1>2. /\ wire' = wire \o SubSeq(queue, 1, n)
      /\ queue' = SubSeq(queue, n + 1, Len(queue))
  BY DEF Sent, ConsumeOutput
<1>3. /\ SubSeq(queue, 1, n) \in Seq(Byte)
      /\ queue' \in Seq(Byte)
      /\ Len(queue') = Len(queue) - n
      /\ wire' \o queue' = wire \o queue
  BY <1>1, <1>2, MovePrefix
<1>4. wire' \in Seq(Byte) /\ Len(wire) <= Len(wire')
  <2>1. /\ wire \o SubSeq(queue, 1, n) \in Seq(Byte)
        /\ Len(wire \o SubSeq(queue, 1, n)) = Len(wire) + Len(SubSeq(queue, 1, n))
    BY <1>1, <1>3, AppendBytes
  <2>2. Len(SubSeq(queue, 1, n)) \in Nat /\ Len(wire) \in Nat BY <1>1, <1>3
  <2> QED BY <2>1, <2>2, <1>2
<1>5. Len(queue') <= MaxQueue
  <2>1. Len(queue) <= MaxQueue /\ Len(queue) \in Nat
    BY <1>1 DEF IInv, WithinCap
  <2> QED BY <2>1, <1>3, OutputAssumption
<1>6. NothingLost' BY <1>3 DEF IInv, NothingLost, Stream
<1> QED BY <1>1, <1>3, <1>4, <1>5, <1>6

\* disconnectClient keeps the invariant, ERROR queued or not.
LEMMA DisconnectStep ==
    ASSUME IInv, Disconnect, UNCHANGED <<wire, taken, open, reset>>,
           handed' \in 0 .. Budget
    PROVE  IInv'
<1>1. marked' = TRUE BY DEF Disconnect
<1>2. LiveMissesNothing' BY <1>1 DEF LiveMissesNothing
<1>3. /\ wire' \in Seq(Byte) /\ taken' \in 0 .. Len(wire')
      /\ marked' \in BOOLEAN /\ open' \in BOOLEAN /\ reset' \in BOOLEAN
  BY <1>1 DEF IInv, TypeOK
<1>4. queue' \in Seq(Byte) /\ accepted' \in Seq(Byte) /\ WithinCap' /\ NothingLost'
  <2>1. CASE Fits(queue, Framed(0, ErrorSize)) /\ Accept(Framed(0, ErrorSize))
    <3> 0 \in 0 .. Budget /\ ErrorSize \in Nat BY OutputAssumption
    <3>1. Framed(0, ErrorSize) \in Seq(Byte) BY FramedType
    <3> QED BY <2>1, <3>1, AcceptStep DEF WithinCap
  <2>2. CASE UNCHANGED <<queue, accepted>>
    BY <2>2 DEF IInv, TypeOK, WithinCap, NothingLost, Stream
  <2> QED BY <2>1, <2>2 DEF Disconnect
<1> QED BY <1>2, <1>3, <1>4 DEF IInv, TypeOK

LEMMA InitIInv == Init => IInv
<1> SUFFICES ASSUME Init PROVE IInv OBVIOUS
<1>1. TypeOK
  <2>1. <<>> \in Seq(Byte) /\ Len(<<>>) = 0 BY EmptySeq
  <2>2. 0 \in 0 .. Budget BY OutputAssumption
  <2>3. 0 \in 0 .. Len(<<>>) BY <2>1
  <2> QED BY <2>1, <2>2, <2>3, Zenon DEF Init, TypeOK
<1>2. WithinCap BY OutputAssumption DEF Init, WithinCap
<1>3. NothingLost BY DEF Init, NothingLost, Stream
<1>4. LiveMissesNothing BY DEF Init, LiveMissesNothing
<1> QED BY <1>1, <1>2, <1>3, <1>4 DEF IInv

LEMMA NextIInv == IInv /\ [Next]_vars => IInv'
<1> SUFFICES ASSUME IInv, [Next]_vars PROVE IInv' OBVIOUS
<1>1. ASSUME NEW size \in Sizes, SendToClient(size) PROVE IInv'
  <2> DEFINE data == Framed(handed', size)
  <2>1. /\ handed' = handed + 1 /\ handed \in 0 .. Budget /\ handed' \in 0 .. Budget
        /\ UNCHANGED <<wire, taken, open, reset>>
    BY <1>1, OutputAssumption DEF SendToClient, IInv, TypeOK
  <2>2. data \in Seq(Byte) /\ Len(data) > 0 /\ data[Len(data)] = <<handed', "lf">>
    BY <2>1, FramedType, OutputAssumption
  <2>3. CASE Fits(queue, data) /\ Accept(data) /\ UNCHANGED marked
    <3> HIDE DEF data
    <3>1. /\ queue' \in Seq(Byte) /\ accepted' \in Seq(Byte)
          /\ Len(queue') <= MaxQueue
          /\ NothingLost'
          /\ \A p \in 1 .. Len(accepted) :
                 p \in 1 .. Len(accepted') /\ accepted'[p] = accepted[p]
          /\ Len(accepted') \in 1 .. Len(accepted')
          /\ accepted'[Len(accepted')] = <<handed', "lf">>
      BY <2>1, <2>2, <2>3, AcceptStep
    <3>2. TypeOK' BY <2>1, <2>3, <3>1 DEF IInv, TypeOK
    <3>3. LiveMissesNothing'
      <4> SUFFICES ASSUME ~marked', NEW i \in 1 .. handed'
                   PROVE  \E p \in 1 .. Len(accepted') : accepted'[p] = <<i, "lf">>
        BY DEF LiveMissesNothing
      <4>1. CASE i = handed' BY <4>1, <3>1, Zenon
      <4>2. CASE i # handed'
        <5>1. i \in 1 .. handed BY <4>2, <2>1
        <5>2. ~marked BY <2>3
        <5>3. PICK p \in 1 .. Len(accepted) : accepted[p] = <<i, "lf">>
          BY <5>1, <5>2 DEF IInv, LiveMissesNothing
        <5> QED BY <5>3, <3>1, Zenon
      <4> QED BY <4>1, <4>2
    <3> QED BY <3>1, <3>2, <3>3 DEF IInv, WithinCap
  <2>4. CASE Refuse
    BY <2>1, <2>4, DisconnectStep DEF Refuse
  <2> QED BY <1>1, <2>3, <2>4 DEF SendToClient
<1>2. ASSUME DisconnectClient PROVE IInv'
  BY <1>2, DisconnectStep DEF DisconnectClient, IInv, TypeOK
<1>3. ASSUME WriteFails PROVE IInv'
  BY <1>3, DisconnectStep DEF WriteFails, IInv, TypeOK
<1>4. ASSUME NEW n \in 1 .. Len(queue), Sent(n),
             UNCHANGED <<taken, accepted, handed, marked, reset>>, open' \in BOOLEAN
      PROVE  IInv'
  <2>1. /\ queue' \in Seq(Byte) /\ wire' \in Seq(Byte)
        /\ Len(queue') <= MaxQueue
        /\ Len(wire) <= Len(wire')
        /\ NothingLost'
    BY <1>4, SentStep
  <2>2. Len(wire) \in Nat /\ Len(wire') \in Nat /\ taken \in 0 .. Len(wire)
    BY <2>1 DEF IInv, TypeOK
  <2>3. taken' \in 0 .. Len(wire') BY <2>1, <2>2, <1>4
  <2>4. TypeOK' BY <1>4, <2>1, <2>3 DEF IInv, TypeOK
  <2>5. LiveMissesNothing' BY <1>4 DEF IInv, LiveMissesNothing
  <2> QED BY <2>1, <2>4, <2>5 DEF IInv, WithinCap
<1>5. ASSUME HandleWritable PROVE IInv'
  <2>1. open' \in BOOLEAN BY <1>5 DEF HandleWritable, IInv, TypeOK
  <2> QED BY <1>4, <1>5, <2>1 DEF HandleWritable
<1>6. ASSUME Reap PROVE IInv'
  <2>1. CASE UNCHANGED <<queue, wire>>
    BY <1>6, <2>1 DEF Reap, IInv, TypeOK, WithinCap, NothingLost, Stream, LiveMissesNothing
  <2>2. CASE \E n \in 1 .. Len(queue) : Sent(n)
    BY <1>4, <1>6, <2>2 DEF Reap
  <2> QED BY <1>6, <2>1, <2>2 DEF Reap, Flush
<1>7. ASSUME PeerReads PROVE IInv'
  <2>1. taken' \in 0 .. Len(wire) BY <1>7 DEF PeerReads, IInv, TypeOK
  <2> QED BY <1>7, <2>1 DEF PeerReads, IInv, TypeOK, WithinCap, NothingLost, Stream,
                            LiveMissesNothing
<1>8. ASSUME PeerResets PROVE IInv'
  BY <1>8 DEF PeerResets, IInv, TypeOK, WithinCap, NothingLost, Stream, LiveMissesNothing
<1>9. CASE UNCHANGED vars
  BY <1>9 DEF vars, IInv, TypeOK, WithinCap, NothingLost, Stream, LiveMissesNothing
<1> QED BY <1>1, <1>2, <1>3, <1>5, <1>6, <1>7, <1>8, <1>9 DEF Next

LEMMA Invariance == Spec => []IInv
BY InitIInv, NextIInv, PTL DEF Spec

\* The queue of a client never holds more than MaxQueue bytes (queueOutput).
THEOREM QueueIsCapped == Spec => []WithinCap
<1>1. IInv => WithinCap BY DEF IInv
<1> QED BY <1>1, Invariance, PTL

\* Wire and queue are together what was accepted, in that order, however
\* send() cuts it (handleWritable, consumeOutput).
THEOREM StreamIsKept == Spec => []NothingLost
<1>1. IInv => NothingLost BY DEF IInv
<1> QED BY <1>1, Invariance, PTL

\* A client misses a line only once it is marked (sendToClient).
THEOREM RefusalsAreNotSilent == Spec => []LiveMissesNothing
<1>1. IInv => LiveMissesNothing BY DEF IInv
<1> QED BY <1>1, Invariance, PTL

\* Both at once: what bounds the queue never leaves a live client a line short.
THEOREM QueueStaysHonest == Spec => []QueueIsHonest
BY QueueIsCapped, RefusalsAreNotSilent, PTL DEF QueueIsHonest

\* The variables keep their types.
THEOREM OutputIsTyped == Spec => []TypeOK
<1>1. IInv => TypeOK BY DEF IInv
<1> QED BY <1>1, Invariance, PTL

-----------------------------------------------------------------------------
(* Lines are whole.                                                        *)

Ends(s, p) == s[p][2] = "lf"

\* WholeLines, of any sequence of bytes.
Whole(s) ==
    /\ s # <<>> => Ends(s, Len(s))
    /\ \A p \in 1 .. Len(s) : Ends(s, p) => p > 1 /\ s[p - 1] = <<s[p][1], "cr">>
    /\ \A p, q \in 1 .. Len(s) :
          p <= q /\ (\A m \in p .. q - 1 : ~Ends(s, m))
              => s[p][1] = s[q][1] /\ q - p < MaxPayload + 2

\* One line: the bytes of number i, CR and LF at the end and nowhere else.
IsLine(t, i) ==
    /\ t \in Seq(Byte)
    /\ Len(t) >= 2 /\ Len(t) <= MaxPayload + 2
    /\ t[Len(t)] = <<i, "lf">>
    /\ t[Len(t) - 1] = <<i, "cr">>
    /\ \A p \in 1 .. Len(t) : t[p][1] = i /\ (Ends(t, p) => p = Len(t))

\* What sendToClient hands over is one line, whatever its length was.
LEMMA FramedIsLine ==
    ASSUME NEW i \in 0 .. Budget, NEW size \in Nat
    PROVE  IsLine(Framed(i, size), i)
<1> DEFINE n == IF size > MaxPayload THEN MaxPayload ELSE size
           b == Payload(i, n)
           c == CRLF(i)
           t == Framed(i, size)
<1>1. n \in Nat /\ n <= MaxPayload
  BY OutputAssumption
<1>2. t = b \o c
  BY DEF Framed
<1> HIDE DEF n
<1>3. b \in Seq(Byte) /\ Len(b) = n /\ \A p \in 1 .. n : b[p] = <<i, "payload">>
  <2>1. b \in [1 .. n -> Byte] /\ \A p \in 1 .. n : b[p] = <<i, "payload">>
    BY DEF Payload, Byte
  <2> QED BY <1>1, <2>1
<1>4. c \in Seq(Byte) /\ Len(c) = 2 /\ c[1] = <<i, "cr">> /\ c[2] = <<i, "lf">>
  BY DEF CRLF, Byte
<1> HIDE DEF b, c, t
<1>5. t \in Seq(Byte) /\ Len(t) = n + 2
  <2>1. b \o c \in Seq(Byte) /\ Len(b \o c) = Len(b) + Len(c)
    BY <1>3, <1>4, ConcatProperties
  <2> QED BY <1>2, <1>3, <1>4, <2>1
<1>6. \A m \in 1 .. n + 2 : t[m] = IF m <= n THEN b[m] ELSE c[m - n]
  <2>1. \A m \in 1 .. Len(b) + Len(c) :
            (b \o c)[m] = IF m <= Len(b) THEN b[m] ELSE c[m - Len(b)]
    BY <1>3, <1>4, ConcatProperties
  <2> QED BY <1>2, <1>3, <1>4, <2>1
<1>7. \A m \in 1 .. n : t[m] = <<i, "payload">>
  <2> TAKE m \in 1 .. n
  <2>1. m \in 1 .. n + 2 /\ m <= n
    BY <1>1
  <2> QED BY <1>3, <1>6, <2>1
<1>8. t[n + 1] = <<i, "cr">> /\ t[n + 2] = <<i, "lf">>
  <2>1. /\ n + 1 \in 1 .. n + 2 /\ ~(n + 1 <= n) /\ (n + 1) - n = 1
        /\ n + 2 \in 1 .. n + 2 /\ ~(n + 2 <= n) /\ (n + 2) - n = 2
    BY <1>1
  <2> QED BY <1>4, <1>6, <2>1
<1>9. \A p \in 1 .. n + 2 : p \in 1 .. n \/ p = n + 1 \/ p = n + 2
  BY <1>1
<1>10. \A p \in 1 .. n + 2 : t[p][1] = i /\ (t[p][2] = "lf" => p = n + 2)
  <2> TAKE p \in 1 .. n + 2
  <2>1. \/ t[p] = <<i, "payload">>
        \/ t[p] = <<i, "cr">>
        \/ p = n + 2 /\ t[p] = <<i, "lf">>
    BY <1>7, <1>8, <1>9
  <2> QED BY <2>1
<1>11. (n + 2) - 1 = n + 1 /\ n + 2 >= 2 /\ n + 2 <= MaxPayload + 2
  BY <1>1, OutputAssumption
<1>12. IsLine(t, i)
  BY <1>5, <1>8, <1>10, <1>11 DEF IsLine, Ends
<1> QED BY <1>12 DEF t

\* Whole lines and one more are whole lines.
LEMMA WholeConcat ==
    ASSUME NEW s \in Seq(Byte), Whole(s), NEW t, NEW i, IsLine(t, i)
    PROVE  Whole(s \o t)
<1> DEFINE n == Len(s)
           k == Len(t)
           u == s \o t
<1>1. n \in Nat /\ k \in Nat /\ k >= 2 /\ k <= MaxPayload + 2 /\ t \in Seq(Byte)
  BY DEF IsLine
<1>2. u \in Seq(Byte) /\ Len(u) = n + k
  BY <1>1, ConcatProperties
<1>3. \A m \in 1 .. n + k : u[m] = IF m <= n THEN s[m] ELSE t[m - n]
  BY <1>1, ConcatProperties
<1>4. MaxPayload \in Nat
  BY OutputAssumption
<1>5. /\ t[k] = <<i, "lf">> /\ t[k - 1] = <<i, "cr">>
      /\ \A p \in 1 .. k : t[p][1] = i /\ (t[p][2] = "lf" => p = k)
  BY DEF IsLine, Ends
<1>6. /\ s # <<>> => s[n][2] = "lf"
      /\ \A p \in 1 .. n : s[p][2] = "lf" => p > 1 /\ s[p - 1] = <<s[p][1], "cr">>
      /\ \A p, q \in 1 .. n :
            p <= q /\ (\A m \in p .. q - 1 : s[m][2] # "lf")
                => s[p][1] = s[q][1] /\ q - p < MaxPayload + 2
  BY DEF Whole, Ends
<1>7. n > 0 => s # <<>>
  BY EmptySeq
<1> HIDE DEF n, k, u
<1>8. \A m \in 1 .. n : u[m] = s[m]
  BY <1>1, <1>3
<1>9. \A m \in n + 1 .. n + k : u[m] = t[m - n] /\ m - n \in 1 .. k
  BY <1>1, <1>3
<1>10. u[n + k][2] = "lf"
  <2>1. n + k \in n + 1 .. n + k /\ (n + k) - n = k
    BY <1>1
  <2>2. u[n + k] = t[k]
    BY <1>9, <2>1
  <2> QED BY <1>5, <2>2
<1>11. ASSUME NEW p \in 1 .. n + k, u[p][2] = "lf"
       PROVE  p > 1 /\ u[p - 1] = <<u[p][1], "cr">>
  <2>1. CASE p \in 1 .. n
    <3>1. s[p][2] = "lf" /\ p > 1 /\ s[p - 1] = <<s[p][1], "cr">>
      BY <1>6, <1>8, <1>11, <2>1
    <3>2. p - 1 \in 1 .. n
      BY <1>1, <2>1, <3>1
    <3> QED BY <1>8, <2>1, <3>1, <3>2
  <2>2. CASE p \in n + 1 .. n + k
    <3>1. p - n = k
      BY <1>5, <1>9, <1>11, <2>2
    <3>2. p = n + k /\ p > 1 /\ p - 1 \in n + 1 .. n + k /\ (p - 1) - n = k - 1
      BY <1>1, <2>2, <3>1
    <3>3. u[p] = t[k] /\ u[p - 1] = t[k - 1]
      BY <1>9, <2>2, <3>1, <3>2
    <3>4. u[p][1] = i
      BY <1>5, <3>3
    <3> QED BY <1>5, <3>2, <3>3, <3>4
  <2> QED BY <1>1, <2>1, <2>2
<1>12. ASSUME NEW p \in 1 .. n + k, NEW q \in 1 .. n + k, p <= q,
              \A m \in p .. q - 1 : u[m][2] # "lf"
       PROVE  u[p][1] = u[q][1] /\ q - p < MaxPayload + 2
  <2>1. CASE q \in 1 .. n
    <3>1. p \in 1 .. n /\ \A m \in p .. q - 1 : m \in 1 .. n
      BY <1>1, <1>12, <2>1
    <3>2. \A m \in p .. q - 1 : s[m][2] # "lf"
      BY <1>8, <1>12, <3>1
    <3> QED BY <1>6, <1>8, <1>12, <2>1, <3>1, <3>2
  <2>2. CASE p \in 1 .. n /\ q \in n + 1 .. n + k
    <3>1. n \in p .. q - 1 /\ n \in 1 .. n /\ n > 0
      BY <1>1, <2>2
    <3>2. u[n][2] = "lf"
      BY <1>6, <1>7, <1>8, <3>1
    <3> QED BY <1>12, <3>1, <3>2
  <2>3. CASE p \in n + 1 .. n + k /\ q \in n + 1 .. n + k
    <3>1. u[p][1] = i /\ u[q][1] = i
      BY <1>5, <1>9, <2>3
    <3>2. q - p < MaxPayload + 2
      BY <1>1, <1>4, <2>3
    <3> QED BY <3>1, <3>2
  <2> QED BY <1>1, <1>12, <2>1, <2>2, <2>3
<1>13. Whole(u)
  BY <1>2, <1>10, <1>11, <1>12 DEF Whole, Ends
<1> QED BY <1>13 DEF u

\* accepted only ever grows by one line.
LEMMA AcceptedGrows ==
    ASSUME IInv, [Next]_vars
    PROVE  \/ accepted' = accepted
           \/ \E i \in 0 .. Budget, size \in Nat : accepted' = accepted \o Framed(i, size)
<1> DEFINE Grown == \E i \in 0 .. Budget, size \in Nat : accepted' = accepted \o Framed(i, size)
<1>1. 0 \in 0 .. Budget /\ ErrorSize \in Nat
  BY OutputAssumption
<1>2. Disconnect => accepted' = accepted \/ Grown
  BY <1>1 DEF Disconnect, Accept
<1>3. ASSUME NEW size \in Sizes, SendToClient(size) PROVE accepted' = accepted \/ Grown
  <2>1. handed' \in 0 .. Budget /\ size \in Nat
    BY <1>3, OutputAssumption DEF SendToClient, IInv, TypeOK
  <2>2. Accept(Framed(handed', size)) => Grown
    BY <2>1 DEF Accept
  <2> QED BY <1>2, <1>3, <2>2 DEF SendToClient, Refuse
<1> HIDE DEF Grown
<1>4. DisconnectClient \/ WriteFails => accepted' = accepted \/ Grown
  BY <1>2 DEF DisconnectClient, WriteFails
<1>5. HandleWritable \/ Reap \/ PeerReads \/ PeerResets \/ UNCHANGED vars => accepted' = accepted
  BY DEF HandleWritable, Reap, PeerReads, PeerResets, vars
<1>6. accepted' = accepted \/ Grown
  BY <1>3, <1>4, <1>5 DEF Next
<1> QED BY <1>6 DEF Grown

\* Whatever the lengths handed over, what waits and what went out are whole lines
\* of at most MaxPayload + 2 bytes that end in CR LF (sendToClient, which cuts
\* before it terminates, and queueOutput, which takes a line or none of it).
THEOREM LinesStayWhole == Spec => []WholeLines
<1>1. Init => Whole(accepted)
  <2>1. Len(<<>>) = 0
    OBVIOUS
  <2> QED BY <2>1 DEF Init, Whole
<1>2. IInv /\ Whole(accepted) /\ [Next]_vars => Whole(accepted)'
  <2> SUFFICES ASSUME IInv, Whole(accepted), [Next]_vars PROVE Whole(accepted')
    BY DEF Whole, Ends
  <2>1. CASE accepted' = accepted
    BY <2>1
  <2>2. ASSUME NEW i \in 0 .. Budget, NEW size \in Nat, accepted' = accepted \o Framed(i, size)
        PROVE  Whole(accepted')
    <3>1. accepted \in Seq(Byte)
      BY DEF IInv, TypeOK
    <3>2. Whole(accepted \o Framed(i, size))
      BY <3>1, FramedIsLine, WholeConcat
    <3> QED BY <2>2, <3>2
  <2> QED BY <2>1, <2>2, AcceptedGrows
<1>3. IInv /\ Whole(accepted) => WholeLines
  BY DEF IInv, NothingLost, Whole, Ends, WholeLines
<1> QED BY <1>1, <1>2, <1>3, Invariance, PTL DEF Spec
=============================================================================
