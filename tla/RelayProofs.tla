----------------------------- MODULE RelayProofs -----------------------------
(***************************************************************************)
(* Proofs about Relay: the recursion of sends unwinds, and the end of a    *)
(* client is told with one reason, for any number of clients and channels  *)
(* and any cap.                                                            *)
(***************************************************************************)
EXTENDS Relay, FiniteSetTheorems, SequenceTheorems, TLAPS

Kinds == {"talk", "join", "quit", "error"}
Whys  == {NoReason, "quit", "SendQ exceeded"}
Lines == [kind : Kinds, from : Clients, why : Whys]
FrameType == [line : Lines, to : SUBSET Clients]
Ends  == {"quit", "error"}

\* The state outside the sends.
Typed ==
    /\ rooms \in [RoomNames -> [members : SUBSET Clients]]
    /\ \A k \in RoomNames : rooms[k].members \cap gone = {}
    /\ stream \in [Clients -> Seq(Lines)]
    /\ marked \in SUBSET Clients /\ gone \in SUBSET Clients
    /\ marked \cap gone = {}
    /\ reason \in [Clients -> Whys]
    /\ stack \in Seq(FrameType)

\* A frame about the end of a client is about a marked one, with the reason on
\* record, and no frame is for a client that no longer exists.
FrameOK(f) ==
    /\ f.to \cap gone = {}
    /\ f.line.kind \in Ends => f.line.from \in marked /\ f.line.why = reason[f.line.from]
    /\ f.line.kind = "error" => f.to \subseteq {f.line.from}

FramesOK == \A i \in 1 .. Len(stack) : FrameOK(stack[i])

\* Only the first frame of the stack is a command's.
Nested == \A i \in 1 .. Len(stack) : i > 1 => stack[i].line.kind \in Ends

\* Each end in progress has its frames once.
Distinct == \A i, j \in 1 .. Len(stack) :
                stack[i].line = stack[j].line /\ stack[i].line.kind \in Ends => i = j

Deep == Len(stack) <= 1 + 2 * Cardinality(marked)

HeardOK(p, line) ==
    /\ line.kind \in Ends => line.from \in marked \cup gone /\ line.why = reason[line.from]
    /\ line.kind = "error" => line.from = p

StreamsOK == \A p \in Clients : \A i \in 1 .. Len(stream[p]) : HeardOK(p, stream[p][i])

IInv == Typed /\ FramesOK /\ Nested /\ Distinct /\ Deep /\ StreamsOK

-----------------------------------------------------------------------------
(* Sequences and peers.                                                    *)

\* What Without does to the frames: the top one loses r.
LEMMA WithoutFacts ==
    ASSUME stack \in Seq(FrameType), stack # <<>>, NEW r
    PROVE  /\ Without(r) \in Seq(FrameType)
           /\ Len(Without(r)) = Len(stack)
           /\ \A i \in 1 .. Len(stack) :
                /\ Without(r)[i].line = stack[i].line
                /\ Without(r)[i].to = IF i = Len(stack) THEN stack[i].to \ {r} ELSE stack[i].to
<1> DEFINE f == Frame(Top.line, Top.to \ {r})
           n == Len(stack) - 1
<1>1. n \in Nat /\ Len(stack) = n + 1 /\ \A i \in 1 .. n : i \in 1 .. Len(stack) /\ stack[i] \in FrameType
  OBVIOUS
<1>2. Top = stack[Len(stack)] /\ Top \in FrameType
  BY DEF Top
<1>3. f \in FrameType /\ f.line = Top.line /\ f.to = Top.to \ {r}
  BY <1>2 DEF Frame, FrameType
<1>4. Without(r) = Append(SubSeq(stack, 1, n), f)
  BY DEF Without, Rest
<1> HIDE DEF f, n
<1>5. SubSeq(stack, 1, n) \in Seq(FrameType) /\ Len(SubSeq(stack, 1, n)) = n
      /\ \A i \in 1 .. n : SubSeq(stack, 1, n)[i] = stack[i]
  BY <1>1
<1>6. /\ Without(r) \in Seq(FrameType) /\ Len(Without(r)) = n + 1
      /\ Without(r)[n + 1] = f /\ \A i \in 1 .. n : Without(r)[i] = stack[i]
  BY <1>1, <1>3, <1>4, <1>5
<1>7. \A i \in 1 .. Len(stack) : IF i = Len(stack) THEN Without(r)[i] = f ELSE Without(r)[i] = stack[i]
  BY <1>1, <1>6
<1> QED BY <1>1, <1>2, <1>3, <1>6, <1>7

\* Two frames on top of others.
LEMMA PushFacts ==
    ASSUME NEW s \in Seq(FrameType), NEW e \in FrameType, NEW q \in FrameType
    PROVE  /\ s \o <<e, q>> \in Seq(FrameType)
           /\ Len(s \o <<e, q>>) = Len(s) + 2
           /\ \A i \in 1 .. Len(s) : (s \o <<e, q>>)[i] = s[i]
           /\ (s \o <<e, q>>)[Len(s) + 1] = e
           /\ (s \o <<e, q>>)[Len(s) + 2] = q
<1>1. ASSUME NEW t \in Seq(FrameType), Len(t) = 2
      PROVE  /\ s \o t \in Seq(FrameType)
             /\ Len(s \o t) = Len(s) + 2
             /\ \A i \in 1 .. Len(s) : (s \o t)[i] = s[i]
             /\ (s \o t)[Len(s) + 1] = t[1]
             /\ (s \o t)[Len(s) + 2] = t[2]
  <2>1. Len(s) \in Nat
    OBVIOUS
  <2>2. s \o t \in Seq(FrameType) /\ Len(s \o t) = Len(s) + Len(t)
    BY ConcatProperties
  <2>3. \A m \in 1 .. Len(s) + Len(t) :
            (s \o t)[m] = IF m <= Len(s) THEN s[m] ELSE t[m - Len(s)]
    BY ConcatProperties
  <2>4. \A i \in 1 .. Len(s) : i \in 1 .. Len(s) + Len(t) /\ i <= Len(s)
    BY <2>1, <1>1
  <2>5. \A i \in 1 .. Len(s) : (s \o t)[i] = s[i]
    BY <2>3, <2>4, Zenon
  <2>6. \A k : k = Len(s) + 1 => k \in 1 .. Len(s) + Len(t) /\ ~(k <= Len(s)) /\ k - Len(s) = 1
    BY <2>1, <1>1
  <2>7. \A k : k = Len(s) + 2 => k \in 1 .. Len(s) + Len(t) /\ ~(k <= Len(s)) /\ k - Len(s) = 2
    BY <2>1, <1>1
  <2>8. \A k : k = Len(s) + 1 => (s \o t)[k] = t[1]
    BY <2>3, <2>6, Zenon
  <2>9. \A k : k = Len(s) + 2 => (s \o t)[k] = t[2]
    BY <2>3, <2>7, Zenon
  <2> QED BY <2>2, <2>5, <2>8, <2>9, <1>1
<1>2. <<e, q>> \in Seq(FrameType) /\ Len(<<e, q>>) = 2 /\ <<e, q>>[1] = e /\ <<e, q>>[2] = q
  OBVIOUS
<1> QED BY <1>1, <1>2, Zenon

\* The peers of a client exist.
LEMMA PeersExist ==
    ASSUME Typed, NEW c \in Clients
    PROVE  Peers(c, rooms) \subseteq Clients \ gone /\ c \notin Peers(c, rooms)
<1>1. \A k \in RoomNames : rooms[k].members \subseteq Clients \ gone
  BY DEF Typed
<1>2. DOMAIN rooms = RoomNames
  BY DEF Typed
<1>3. ASSUME NEW p \in Peers(c, rooms)
      PROVE  p \in Clients \ gone /\ p # c
  <2>1. PICK k \in DOMAIN rooms : p \in rooms[k].members /\ p # c
    BY <1>3 DEF Peers
  <2> QED BY <1>1, <1>2, <2>1
<1> QED BY <1>3

\* The frames that disconnectClient pushes.
LEMMA FrameTypes ==
    ASSUME Typed, NEW c \in Clients, NEW why \in Whys
    PROVE  Error(c, why) \in FrameType /\ Quit(c, why) \in FrameType
           /\ Error(c, why).line = Line("error", c, why) /\ Error(c, why).to = {c}
           /\ Quit(c, why).line = Line("quit", c, why) /\ Quit(c, why).to = Peers(c, rooms)
           /\ Line("error", c, why) \in Lines /\ Line("quit", c, why) \in Lines
BY PeersExist DEF Error, Quit, Frame, Line, FrameType, Lines, Kinds

-----------------------------------------------------------------------------
(* The steps.                                                              *)

\* With nothing on the stack and nobody marked the invariant is about types.
LEMMA InitEstablishes == Init => IInv
<1> SUFFICES ASSUME Init PROVE IInv
  OBVIOUS
<1>1. Typed
  <2>1. rooms \in [RoomNames -> [members : SUBSET Clients]]
    BY DEF Init
  <2>2. stream \in [Clients -> Seq(Lines)] /\ reason \in [Clients -> Whys]
    BY DEF Init, Whys
  <2> QED BY <2>1, <2>2 DEF Init, Typed
<1>2. stack = <<>> /\ marked = {}
  BY DEF Init
<1>3. FramesOK /\ Nested /\ Distinct
  BY <1>2 DEF FramesOK, Nested, Distinct
<1>4. Deep
  BY <1>2, FS_EmptySet DEF Deep
<1>5. StreamsOK
  BY DEF Init, StreamsOK
<1> QED BY <1>1, <1>3, <1>4, <1>5 DEF IInv

\* A command puts one frame on the empty stack.
LEMMA CommandStep ==
    ASSUME IInv, NEW f \in FrameType, f.to \cap gone = {}, f.line.kind \in {"talk", "join"},
           stack' = <<f>>, UNCHANGED <<marked, gone, reason, stream>>,
           rooms' \in [RoomNames -> [members : SUBSET Clients]],
           \A k \in RoomNames : rooms'[k].members \cap gone = {}
    PROVE  IInv'
<1>1. stack' \in Seq(FrameType) /\ Len(stack') = 1 /\ stack'[1] = f
  OBVIOUS
<1>2. Typed'
  BY <1>1 DEF IInv, Typed
<1>3. \A i \in 1 .. Len(stack') : i = 1
  BY <1>1
<1>4. FramesOK' /\ Nested' /\ Distinct'
  BY <1>1, <1>3 DEF FramesOK, FrameOK, Nested, Distinct, Ends
<1>5. Deep'
  <2>1. IsFiniteSet(marked)
    BY RelayAssumption, FS_Subset DEF IInv, Typed
  <2>2. Cardinality(marked) \in Nat
    BY <2>1, FS_CardinalityType
  <2> QED BY <1>1, <2>2 DEF Deep
<1>6. StreamsOK'
  BY DEF IInv, StreamsOK, HeardOK
<1> QED BY <1>2, <1>4, <1>5, <1>6 DEF IInv

\* The lines about the end of c that are on the stack when c is not marked: none.
LEMMA NoFrameYet ==
    ASSUME IInv, NEW c \in Clients, c \notin marked, NEW i \in 1 .. Len(stack)
    PROVE  stack[i].line.kind \in Ends => stack[i].line.from # c
BY DEF IInv, FramesOK, FrameOK

\* Two frames of disconnectClient(c, why) on a stack s of the shape of the old one.
LEMMA DisconnectStep ==
    ASSUME IInv, NEW c \in Clients, c \notin marked, c \notin gone, NEW why \in Whys,
           NEW s \in Seq(FrameType), Len(s) = Len(stack),
           \A i \in 1 .. Len(s) : s[i].line = stack[i].line /\ s[i].to \subseteq stack[i].to,
           MarkDisconnecting(c, why), stack' = s \o Frames(c, why),
           UNCHANGED <<rooms, gone, stream>>
    PROVE  IInv'
<1> DEFINE e == Error(c, why)
           q == Quit(c, why)
<1>1. /\ e \in FrameType /\ q \in FrameType
      /\ e.line = Line("error", c, why) /\ e.to = {c}
      /\ q.line = Line("quit", c, why) /\ q.to = Peers(c, rooms)
  BY FrameTypes DEF IInv
<1>2. /\ e.line.kind = "error" /\ e.line.from = c /\ e.line.why = why
      /\ q.line.kind = "quit" /\ q.line.from = c /\ q.line.why = why
  BY <1>1 DEF Line
<1>3. Peers(c, rooms) \subseteq Clients \ gone
  BY PeersExist DEF IInv
<1>4. Frames(c, why) = <<e, q>>
  BY DEF Frames
<1> HIDE DEF e, q
<1>5. /\ stack' \in Seq(FrameType)
      /\ Len(stack') = Len(stack) + 2
      /\ \A i \in 1 .. Len(s) : stack'[i] = s[i]
      /\ stack'[Len(stack) + 1] = e
      /\ stack'[Len(stack) + 2] = q
  BY <1>1, <1>4, PushFacts
<1>6. Len(stack) \in Nat
  BY DEF IInv, Typed
<1>7. /\ marked' = marked \cup {c} /\ gone' = gone
      /\ reason \in [Clients -> Whys] /\ marked \subseteq Clients
      /\ reason' = [reason EXCEPT ![c] = why]
  BY DEF MarkDisconnecting, IInv, Typed
<1>8. reason' \in [Clients -> Whys] /\ reason'[c] = why
      /\ \A d \in Clients : d # c => reason'[d] = reason[d]
  BY <1>7
<1>9. Typed'
  BY <1>5, <1>7, <1>8 DEF IInv, Typed
<1>10. \A i \in 1 .. Len(stack') : i \in 1 .. Len(stack) \/ i = Len(stack) + 1 \/ i = Len(stack) + 2
  BY <1>5, <1>6
<1>11. ASSUME NEW i \in 1 .. Len(stack)
       PROVE  /\ stack'[i].line = stack[i].line
              /\ stack'[i].to \subseteq stack[i].to
  BY <1>5
<1>12. FramesOK'
  <2> SUFFICES ASSUME NEW i \in 1 .. Len(stack') PROVE FrameOK(stack[i])'
    BY DEF FramesOK
  <2>1. CASE i \in 1 .. Len(stack)
    <3>1. FrameOK(stack[i])
      BY <2>1 DEF IInv, FramesOK
    <3>2. stack[i].line.kind \in Ends => stack[i].line.from # c
      BY <2>1, NoFrameYet
    <3>3. stack[i].line.kind \in Ends =>
              stack[i].line.from \in marked' /\ stack[i].line.why = reason'[stack[i].line.from]
      BY <3>1, <3>2, <1>7, <1>8 DEF FrameOK
    <3> QED BY <2>1, <3>1, <3>3, <1>7, <1>11 DEF FrameOK
  <2>2. CASE i = Len(stack) + 1
    BY <2>2, <1>1, <1>2, <1>5, <1>7, <1>8 DEF FrameOK
  <2>3. CASE i = Len(stack) + 2
    BY <2>3, <1>1, <1>2, <1>3, <1>5, <1>7, <1>8 DEF FrameOK
  <2> QED BY <2>1, <2>2, <2>3, <1>10
<1>13. Nested'
  <2> SUFFICES ASSUME NEW i \in 1 .. Len(stack'), i > 1 PROVE stack'[i].line.kind \in Ends
    BY DEF Nested
  <2>1. CASE i \in 1 .. Len(stack)
    BY <2>1, <1>11 DEF IInv, Nested
  <2>2. CASE i = Len(stack) + 1
    BY <2>2, <1>2, <1>5 DEF Ends
  <2>3. CASE i = Len(stack) + 2
    BY <2>3, <1>2, <1>5 DEF Ends
  <2> QED BY <2>1, <2>2, <2>3, <1>10
<1>14. Distinct'
  <2> SUFFICES ASSUME NEW i \in 1 .. Len(stack'), NEW j \in 1 .. Len(stack'),
                      stack'[i].line = stack'[j].line, stack'[i].line.kind \in Ends
               PROVE  i = j
    BY DEF Distinct
  <2>1. \A m \in 1 .. Len(stack) : stack'[m].line.kind \in Ends => stack'[m].line.from # c
    BY <1>11, NoFrameYet
  <2>2. stack'[Len(stack) + 1].line = e.line /\ stack'[Len(stack) + 2].line = q.line
    BY <1>5
  <2>3. CASE i \in 1 .. Len(stack) /\ j \in 1 .. Len(stack)
    BY <2>3, <1>11 DEF IInv, Distinct
  <2>4. CASE i \in 1 .. Len(stack) /\ j \notin 1 .. Len(stack)
    BY <2>1, <2>2, <2>4, <1>2, <1>10
  <2>5. CASE i \notin 1 .. Len(stack) /\ j \in 1 .. Len(stack)
    BY <2>1, <2>2, <2>5, <1>2, <1>10
  <2>6. CASE i \notin 1 .. Len(stack) /\ j \notin 1 .. Len(stack)
    BY <2>2, <2>6, <1>2, <1>10
  <2> QED BY <2>3, <2>4, <2>5, <2>6
<1>15. Deep'
  <2>1. IsFiniteSet(marked)
    BY RelayAssumption, FS_Subset DEF IInv, Typed
  <2>2. Cardinality(marked) \in Nat
    BY <2>1, FS_CardinalityType
  <2>3. Cardinality(marked') = Cardinality(marked) + 1
    BY <2>1, <1>7, FS_AddElement
  <2> QED BY <2>2, <2>3, <1>5, <1>6 DEF Deep, IInv
<1>16. StreamsOK'
  <2> SUFFICES ASSUME NEW p \in Clients, NEW i \in 1 .. Len(stream[p])
               PROVE  HeardOK(p, stream[p][i])'
    BY DEF StreamsOK
  <2>1. HeardOK(p, stream[p][i])
    BY DEF IInv, StreamsOK
  <2>2. stream[p][i] \in Lines
    BY DEF IInv, Typed
  <2>3. stream[p][i].from \in Clients
    BY <2>2 DEF Lines
  <2>4. stream[p][i].kind \in Ends => stream[p][i].from # c
    BY <2>1 DEF HeardOK
  <2> QED BY <2>1, <2>3, <2>4, <1>7, <1>8 DEF HeardOK
<1> QED BY <1>9, <1>12, <1>13, <1>14, <1>15, <1>16 DEF IInv

\* A step of the loop on top: its frame loses a recipient.
LEMMA ShrinkStep ==
    ASSUME IInv, stack # <<>>, NEW r, stack' = Without(r),
           UNCHANGED <<rooms, gone, marked, reason>>
    PROVE  stack' \in Seq(FrameType) /\ FramesOK' /\ Nested' /\ Distinct' /\ Deep'
<1>1. /\ stack' \in Seq(FrameType) /\ Len(stack') = Len(stack)
      /\ \A i \in 1 .. Len(stack) : /\ stack'[i].line = stack[i].line
                                    /\ stack'[i].to \subseteq stack[i].to
  BY WithoutFacts DEF IInv, Typed
<1>2. FramesOK'
  <2> SUFFICES ASSUME NEW i \in 1 .. Len(stack) PROVE FrameOK(stack[i])'
    BY <1>1 DEF FramesOK
  <2>1. FrameOK(stack[i])
    BY DEF IInv, FramesOK
  <2> QED BY <1>1, <2>1 DEF FrameOK
<1>3. Nested' /\ Distinct'
  BY <1>1 DEF IInv, Nested, Distinct
<1>4. Deep'
  BY <1>1 DEF IInv, Deep
<1> QED BY <1>1, <1>2, <1>3, <1>4

\* The frame on top, when there is one.
LEMMA TopFacts ==
    ASSUME IInv, stack # <<>>
    PROVE  /\ Len(stack) \in 1 .. Len(stack) /\ Top = stack[Len(stack)]
           /\ Top \in FrameType /\ Top.line \in Lines /\ FrameOK(Top)
<1>1. Len(stack) \in 1 .. Len(stack)
  BY DEF IInv, Typed
<1>2. Top = stack[Len(stack)] /\ stack[Len(stack)] \in FrameType
  BY <1>1 DEF IInv, Typed, Top
<1>3. FrameOK(stack[Len(stack)])
  BY <1>1 DEF IInv, FramesOK
<1>4. Top.line \in Lines
  BY <1>2 DEF FrameType
<1> QED BY <1>1, <1>2, <1>3, <1>4, Zenon

LEMMA ReturnStep == IInv /\ Return => IInv'
<1> SUFFICES ASSUME IInv, Return PROVE IInv'
  OBVIOUS
<1> DEFINE n == Len(stack) - 1
<1>1. n \in Nat /\ n <= Len(stack) /\ \A i \in 1 .. n : i \in 1 .. Len(stack) /\ stack[i] \in FrameType
  BY DEF IInv, Typed, Return
<1>2. stack' = SubSeq(stack, 1, n)
  BY DEF Return, Rest
<1> HIDE DEF n
<1>3. /\ stack' \in Seq(FrameType) /\ Len(stack') = n
      /\ \A i \in 1 .. n : stack'[i] = stack[i]
  BY <1>1, <1>2
<1>4. Typed'
  BY <1>3 DEF IInv, Typed, Return, queues, marks
<1>5. marked' = marked /\ gone' = gone /\ reason' = reason /\ stream' = stream
  BY DEF Return, queues, marks
<1>6. FramesOK' /\ Nested' /\ Distinct'
  BY <1>1, <1>3, <1>5 DEF IInv, FramesOK, FrameOK, Nested, Distinct
<1>7. Deep'
  <2>1. IsFiniteSet(marked)
    BY RelayAssumption, FS_Subset DEF IInv, Typed
  <2>2. Cardinality(marked) \in Nat /\ Len(stack) \in Nat
    BY <2>1, FS_CardinalityType DEF IInv, Typed
  <2> QED BY <2>2, <1>1, <1>3, <1>5 DEF IInv, Deep
<1>8. StreamsOK'
  BY <1>5 DEF IInv, StreamsOK, HeardOK
<1> QED BY <1>4, <1>6, <1>7, <1>8 DEF IInv

LEMMA SkipStep == ASSUME IInv, NEW r \in Clients, Skip(r) PROVE IInv'
<1>1. stack' \in Seq(FrameType) /\ FramesOK' /\ Nested' /\ Distinct' /\ Deep'
  BY ShrinkStep DEF Skip, marks
<1>2. Typed' /\ StreamsOK'
  BY <1>1 DEF Skip, marks, queues, IInv, Typed, StreamsOK, HeardOK
<1> QED BY <1>1, <1>2 DEF IInv

LEMMA DeliverStep == ASSUME IInv, NEW r \in Clients, Deliver(r) PROVE IInv'
<1>1. stack' \in Seq(FrameType) /\ FramesOK' /\ Nested' /\ Distinct' /\ Deep'
  BY ShrinkStep DEF Deliver, marks
<1>2. Top.line \in Lines /\ FrameOK(Top) /\ r \in Top.to
  BY TopFacts DEF Deliver
<1>3. stream \in [Clients -> Seq(Lines)] /\ stream' = [stream EXCEPT ![r] = Append(@, Top.line)]
  BY DEF IInv, Typed, Deliver
<1>4. stream[r] \in Seq(Lines) /\ stream'[r] = Append(stream[r], Top.line)
      /\ \A p \in Clients : p # r => stream'[p] = stream[p]
  BY <1>3
<1>5. /\ Append(stream[r], Top.line) \in Seq(Lines)
      /\ \A i \in 1 .. Len(Append(stream[r], Top.line)) :
            \/ i \in 1 .. Len(stream[r]) /\ Append(stream[r], Top.line)[i] = stream[r][i]
            \/ Append(stream[r], Top.line)[i] = Top.line
  BY <1>2, <1>4
<1>6. stream' \in [Clients -> Seq(Lines)]
  BY <1>3, <1>4, <1>5
<1>7. Typed'
  BY <1>1, <1>6 DEF Deliver, marks, IInv, Typed
<1>8. marked' = marked /\ gone' = gone /\ reason' = reason
  BY DEF Deliver, marks
<1>9. HeardOK(r, Top.line)
  BY <1>2 DEF FrameOK, HeardOK
<1>10. StreamsOK'
  <2> SUFFICES ASSUME NEW p \in Clients, NEW i \in 1 .. Len(stream'[p]), NEW line, line = stream'[p][i]
               PROVE  HeardOK(p, line)
    BY <1>8 DEF StreamsOK, HeardOK
  <2>1. CASE p = r
    BY <2>1, <1>4, <1>5, <1>9 DEF IInv, StreamsOK
  <2>2. CASE p # r
    BY <2>2, <1>4 DEF IInv, StreamsOK
  <2> QED BY <2>1, <2>2
<1> QED BY <1>1, <1>7, <1>10 DEF IInv

LEMMA RefuseStep == ASSUME IInv, NEW r \in Clients, Refuse(r) PROVE IInv'
<1>1. r \notin marked /\ r \notin gone
  BY TopFacts DEF Refuse, FrameOK
<1>2. stack # <<>> /\ stack \in Seq(FrameType)
  BY DEF Refuse, IInv, Typed
<1>3. /\ Without(r) \in Seq(FrameType)
      /\ Len(Without(r)) = Len(stack)
      /\ \A i \in 1 .. Len(stack) : /\ Without(r)[i].line = stack[i].line
                                    /\ Without(r)[i].to \subseteq stack[i].to
  BY <1>2, WithoutFacts
<1>4. "SendQ exceeded" \in Whys
  BY DEF Whys
<1>5. /\ MarkDisconnecting(r, "SendQ exceeded")
      /\ stack' = Without(r) \o Frames(r, "SendQ exceeded")
      /\ UNCHANGED <<rooms, gone, stream>>
  BY DEF Refuse, queues
<1> QED BY <1>1, <1>3, <1>4, <1>5, DisconnectStep

LEMMA LeaveStep == ASSUME IInv, NEW c \in Clients, Leave(c) PROVE IInv'
<1>1. c \notin marked /\ c \notin gone /\ stack = <<>>
  BY DEF Leave, Alive
<1>2. stack \in Seq(FrameType)
  BY DEF IInv, Typed
<1>3. "quit" \in Whys
  BY DEF Whys
<1>4. stack \o Frames(c, "quit") = Frames(c, "quit")
  BY <1>1 DEF Frames
<1>5. MarkDisconnecting(c, "quit") /\ stack' = stack \o Frames(c, "quit")
      /\ UNCHANGED <<rooms, gone, stream>>
  BY <1>4 DEF Leave, queues
<1> QED BY <1>1, <1>2, <1>3, <1>5, DisconnectStep

LEMMA TalkStep == ASSUME IInv, NEW c \in Clients, NEW k \in RoomNames, Talk(c, k) PROVE IInv'
<1> DEFINE f == Frame(Line("talk", c, NoReason), rooms[k].members \ {c})
<1>1. f \in FrameType /\ f.to \cap gone = {} /\ f.line.kind = "talk"
  BY DEF IInv, Typed, Frame, Line, FrameType, Lines, Kinds, Whys
<1>2. stack' = <<f>> /\ UNCHANGED <<rooms, marked, gone, reason, stream>>
  BY DEF Talk, Command, queues, marks
<1> HIDE DEF f
<1>3. rooms' \in [RoomNames -> [members : SUBSET Clients]]
      /\ \A j \in RoomNames : rooms'[j].members \cap gone = {}
  BY <1>2 DEF IInv, Typed
<1> QED BY <1>1, <1>2, <1>3, CommandStep

LEMMA JoinStep == ASSUME IInv, NEW c \in Clients, NEW k \in RoomNames, Join(c, k) PROVE IInv'
<1> DEFINE f == Frame(Line("join", c, NoReason), rooms'[k].members)
<1>1. rooms' = [rooms EXCEPT ![k].members = @ \cup {c}] /\ c \notin gone
  BY DEF Join, Command, Alive
<1>2. rooms' \in [RoomNames -> [members : SUBSET Clients]]
      /\ \A j \in RoomNames : rooms'[j].members \cap gone = {}
  BY <1>1 DEF IInv, Typed
<1>3. f \in FrameType /\ f.to \cap gone = {} /\ f.line.kind = "join"
  BY <1>2 DEF Frame, Line, FrameType, Lines, Kinds, Whys
<1>4. stack' = <<f>> /\ UNCHANGED <<marked, gone, reason, stream>>
  BY DEF Join, Command, queues, marks
<1> HIDE DEF f
<1> QED BY <1>2, <1>3, <1>4, CommandStep

LEMMA ReapStep == IInv /\ Reap => IInv'
<1> SUFFICES ASSUME IInv, Reap PROVE IInv'
  OBVIOUS
<1>1. stack' = <<>> /\ marked' = {} /\ gone' = gone \cup marked
      /\ reason' = reason /\ stream' = stream
      /\ rooms' = [k \in RoomNames |-> [members |-> rooms[k].members \ marked]]
  BY DEF Reap
<1>2. Typed'
  BY <1>1 DEF IInv, Typed
<1>3. FramesOK' /\ Nested' /\ Distinct'
  BY <1>1 DEF FramesOK, Nested, Distinct
<1>4. Deep'
  BY <1>1, FS_EmptySet DEF Deep
<1>5. StreamsOK'
  BY <1>1 DEF IInv, StreamsOK, HeardOK
<1> QED BY <1>2, <1>3, <1>4, <1>5 DEF IInv

\* Nothing the invariant reads changes.
LEMMA QuietStep ==
    ASSUME IInv, UNCHANGED <<rooms, stream, marked, gone, reason, stack>> PROVE IInv'
BY DEF IInv, Typed, FramesOK, FrameOK, Nested, Distinct, Deep, StreamsOK, HeardOK

LEMMA StepPreserves == IInv /\ [Next]_vars => IInv'
<1> SUFFICES ASSUME IInv, [Next]_vars PROVE IInv'
  OBVIOUS
<1>1. CASE Return
  BY <1>1, ReturnStep
<1>2. ASSUME NEW r \in Clients, Deliver(r) PROVE IInv'
  BY <1>2, DeliverStep
<1>3. ASSUME NEW r \in Clients, Skip(r) PROVE IInv'
  BY <1>3, SkipStep
<1>4. ASSUME NEW r \in Clients, Refuse(r) PROVE IInv'
  BY <1>4, RefuseStep
<1>5. ASSUME NEW c \in Clients, Leave(c) PROVE IInv'
  BY <1>5, LeaveStep
<1>6. ASSUME NEW c \in Clients, Writable(c) PROVE IInv'
  BY <1>6, QuietStep DEF Writable, marks
<1>7. ASSUME NEW c \in Clients, NEW k \in RoomNames, Talk(c, k) PROVE IInv'
  BY <1>7, TalkStep
<1>8. ASSUME NEW c \in Clients, NEW k \in RoomNames, Join(c, k) PROVE IInv'
  BY <1>8, JoinStep
<1>9. CASE Reap
  BY <1>9, ReapStep
<1>10. CASE UNCHANGED vars
  BY <1>10, QuietStep DEF vars, queues, marks
<1>11. CASE Terminating
  BY <1>10, <1>11 DEF Terminating
<1> QED BY <1>1, <1>2, <1>3, <1>4, <1>5, <1>6, <1>7, <1>8, <1>9, <1>10, <1>11 DEF Next, SendStep

-----------------------------------------------------------------------------

\* However sends and disconnects nest, each client is being disconnected once at
\* a time, and the call stack is no deeper than twice the marked clients: the
\* recursion of sendToClient and disconnectClient ends.
THEOREM SendsUnwind == Spec => []UnwindsOnce
<1>1. IInv => UnwindsOnce
  BY DEF IInv, Typed, FramesOK, FrameOK, Nested, Distinct, Deep, UnwindsOnce, Ends
<1> QED BY <1>1, InitEstablishes, StepPreserves, PTL DEF Spec

\* Everybody who hears of the end of a client, and that client itself, hears the
\* reason it was first marked with.
THEOREM OneReasonIsTold == Spec => []OneReason
<1>1. IInv => OneReason
  <2> SUFFICES ASSUME IInv, NEW p \in Clients, NEW line \in LinesOf(p)
               PROVE  /\ line.kind \in {"quit", "error"} =>
                            line.from \in marked \cup gone /\ line.why = reason[line.from]
                      /\ line.kind = "error" => line.from = p
    BY DEF OneReason
  <2>1. stream[p] \in Seq(Lines)
    BY DEF IInv, Typed
  <2>2. DOMAIN stream[p] = 1 .. Len(stream[p])
    BY <2>1
  <2>3. PICK i \in 1 .. Len(stream[p]) : line = stream[p][i]
    BY <2>2 DEF LinesOf
  <2> QED BY <2>3 DEF IInv, StreamsOK, HeardOK, Ends
<1> QED BY <1>1, InitEstablishes, StepPreserves, PTL DEF Spec

-----------------------------------------------------------------------------
(* Who hears a QUIT.                                                       *)

\* The stack s has a QUIT of c still to be sent to p.
PendingIn(s, p, c) ==
    \E i \in 1 .. Len(s) : s[i].line.kind = "quit" /\ s[i].line.from = c /\ p \in s[i].to

Pending(p, c) == PendingIn(stack, p, c)

NotYet == \A c, p \in Clients : Pending(p, c) => QuitsHeard(p, c) = {}
Once   == \A c, p \in Clients : \A i, j \in QuitsHeard(p, c) : i = j
Told   == \A c, p \in Clients :
            c \in marked \cup gone /\ p \in witness[c] \cap Alive =>
                QuitsHeard(p, c) # {} \/ Pending(p, c)

HInv == IInv /\ witness \in [Clients -> SUBSET Clients] /\ NotYet /\ Once /\ Told

\* Nobody has heard of the end of a client that has not ended.
LEMMA NoQuitYet ==
    ASSUME IInv, NEW c \in Clients, c \notin marked \cup gone, NEW p \in Clients
    PROVE  QuitsHeard(p, c) = {} /\ ~Pending(p, c)
<1>1. stream[p] \in Seq(Lines)
  BY DEF IInv, Typed
<1>2. DOMAIN stream[p] = 1 .. Len(stream[p])
  BY <1>1
<1>3. QuitsHeard(p, c) = {}
  BY <1>2 DEF QuitsHeard, IInv, StreamsOK, HeardOK, Ends
<1>4. ~Pending(p, c)
  BY DEF Pending, PendingIn, IInv, FramesOK, FrameOK, Ends
<1> QED BY <1>3, <1>4

LEMMA PendingLoop ==
    ASSUME IInv, stack # <<>>, NEW r, stack' = Without(r), NEW p \in Clients, NEW c \in Clients
    PROVE  /\ Pending(p, c)' => Pending(p, c)
           /\ Pending(p, c) /\ p # r => Pending(p, c)'
           /\ Pending(p, c) /\ ~(Top.line.kind = "quit" /\ Top.line.from = c) => Pending(p, c)'
           /\ p = r /\ Top.line.kind = "quit" /\ Top.line.from = c => ~Pending(p, c)'
<1>1. /\ Len(stack') = Len(stack)
      /\ \A i \in 1 .. Len(stack) :
            /\ stack'[i].line = stack[i].line
            /\ stack'[i].to = IF i = Len(stack) THEN stack[i].to \ {r} ELSE stack[i].to
  BY WithoutFacts DEF IInv, Typed
<1>2. Top = stack[Len(stack)] /\ Len(stack) \in 1 .. Len(stack) /\ Top.line \in Lines
  BY TopFacts
<1>3. Pending(p, c)' => Pending(p, c)
  BY <1>1 DEF Pending, PendingIn
<1>4. Pending(p, c) /\ p # r => Pending(p, c)'
  BY <1>1 DEF Pending, PendingIn
<1>5. Pending(p, c) /\ ~(Top.line.kind = "quit" /\ Top.line.from = c) => Pending(p, c)'
  BY <1>1, <1>2 DEF Pending, PendingIn
<1>6. ASSUME p = r, Top.line.kind = "quit", Top.line.from = c, NEW i \in 1 .. Len(stack),
             stack[i].line.kind = "quit", stack[i].line.from = c
      PROVE  i = Len(stack)
  <2>1. stack[i].line.why = Top.line.why
    BY <1>2, <1>6 DEF IInv, FramesOK, FrameOK, Ends
  <2>2. stack[i].line \in Lines
    <3>1. stack[i] \in FrameType
      BY DEF IInv, Typed
    <3> QED BY <3>1 DEF FrameType
  <2>3. stack[i].line = stack[Len(stack)].line
    <3>1. \A u, v \in Lines : u.kind = v.kind /\ u.from = v.from /\ u.why = v.why => u = v
      BY DEF Lines
    <3>2. Top.line = stack[Len(stack)].line
      BY <1>2
    <3> QED BY <1>2, <1>6, <2>1, <2>2, <3>1, <3>2
  <2> QED BY <1>2, <1>6, <2>3 DEF IInv, Distinct, Ends
<1>7. p = r /\ Top.line.kind = "quit" /\ Top.line.from = c => ~Pending(p, c)'
  BY <1>1, <1>6 DEF Pending, PendingIn
<1> QED BY <1>3, <1>4, <1>5, <1>7

\* Steps that leave streams and marks alone, and lose no pending QUIT of a client
\* that is alive.
LEMMA HearNothing ==
    ASSUME HInv, IInv', UNCHANGED <<stream, witness>>,
           marked' \cup gone' = marked \cup gone,
           \A p, c \in Clients : Pending(p, c)' => Pending(p, c),
           \A p, c \in Clients : Pending(p, c) /\ p \in Alive => Pending(p, c)'
    PROVE  HInv'
<1>1. \A p, c \in Clients : QuitsHeard(p, c)' = QuitsHeard(p, c)
  BY DEF QuitsHeard
<1>2. NotYet' /\ Once'
  BY <1>1 DEF HInv, NotYet, Once
<1>3. Alive' = Alive
  BY DEF Alive
<1>4. Told'
  BY <1>1, <1>3 DEF HInv, Told
<1> QED BY <1>2, <1>4 DEF HInv

\* disconnectClient(c): its QUIT is on the stack for each of its peers.
LEMMA HearOfNew ==
    ASSUME HInv, IInv', NEW c \in Clients, c \notin marked \cup gone,
           marked' = marked \cup {c}, UNCHANGED <<gone, stream>>,
           witness' = [witness EXCEPT ![c] = Peers(c, rooms)],
           \A p, d \in Clients : Pending(p, d)' => Pending(p, d) \/ (d = c /\ p \in Peers(c, rooms)),
           \A p, d \in Clients : Pending(p, d) /\ p # c => Pending(p, d)',
           \A p \in Peers(c, rooms) : Pending(p, c)'
    PROVE  HInv'
<1>1. \A p, d \in Clients : QuitsHeard(p, d)' = QuitsHeard(p, d)
  BY DEF QuitsHeard
<1>2. \A p \in Clients : QuitsHeard(p, c) = {}
  BY NoQuitYet DEF HInv
<1>3. NotYet' /\ Once'
  BY <1>1, <1>2 DEF HInv, NotYet, Once
<1>4. Peers(c, rooms) \subseteq Clients
  BY PeersExist DEF HInv, IInv
<1>5. witness' \in [Clients -> SUBSET Clients] /\ witness'[c] = Peers(c, rooms)
      /\ \A d \in Clients : d # c => witness'[d] = witness[d]
  BY <1>4 DEF HInv
<1>6. Alive' = Alive \ {c}
  BY DEF Alive
<1>7. Told'
  <2> SUFFICES ASSUME NEW d \in Clients, NEW p \in Clients,
                      d \in marked' \cup gone', p \in witness'[d] \cap Alive'
               PROVE  QuitsHeard(p, d) # {} \/ Pending(p, d)'
    BY <1>1 DEF Told
  <2>1. CASE d = c
    BY <2>1, <1>5
  <2>2. CASE d # c
    BY <2>2, <1>5, <1>6 DEF HInv, Told
  <2> QED BY <2>1, <2>2
<1> QED BY <1>3, <1>5, <1>7 DEF HInv

\* The frames that two pushes add to what was pending.
LEMMA PendingPush ==
    ASSUME IInv, NEW c \in Clients, NEW why \in Whys, NEW s \in Seq(FrameType),
           stack' = s \o Frames(c, why), NEW p \in Clients, NEW d \in Clients
    PROVE  Pending(p, d)' <=>
            \/ PendingIn(s, p, d)
            \/ d = c /\ p \in Peers(c, rooms)
<1> DEFINE e == Error(c, why)
           q == Quit(c, why)
<1>1. /\ e \in FrameType /\ q \in FrameType
      /\ e.line.kind = "error" /\ q.line.kind = "quit" /\ q.line.from = c /\ q.to = Peers(c, rooms)
  <2>1. /\ e \in FrameType /\ q \in FrameType
        /\ e.line = Line("error", c, why) /\ q.line = Line("quit", c, why)
        /\ q.to = Peers(c, rooms)
    BY FrameTypes DEF IInv
  <2> QED BY <2>1 DEF Line
<1>2. Frames(c, why) = <<e, q>>
  BY DEF Frames
<1> HIDE DEF e, q
<1>3. /\ Len(stack') = Len(s) + 2
      /\ \A i \in 1 .. Len(s) : stack'[i] = s[i]
      /\ stack'[Len(s) + 1] = e
      /\ stack'[Len(s) + 2] = q
  BY <1>1, <1>2, PushFacts
<1>4. Len(s) \in Nat
  OBVIOUS
<1>5. /\ \A i \in 1 .. Len(stack') : i \in 1 .. Len(s) \/ i = Len(s) + 1 \/ i = Len(s) + 2
      /\ \A i \in 1 .. Len(s) : i \in 1 .. Len(stack')
      /\ Len(s) + 2 \in 1 .. Len(stack')
  BY <1>3, <1>4
<1>6. Pending(p, d)' =>
            \/ PendingIn(s, p, d)
            \/ d = c /\ p \in Peers(c, rooms)
  BY <1>1, <1>3, <1>5 DEF Pending, PendingIn
<1>7. PendingIn(s, p, d) => Pending(p, d)'
  BY <1>3, <1>5 DEF Pending, PendingIn
<1>8. d = c /\ p \in Peers(c, rooms) => Pending(p, d)'
  BY <1>1, <1>3, <1>5 DEF Pending, PendingIn
<1> QED BY <1>6, <1>7, <1>8

-----------------------------------------------------------------------------

LEMMA HearDeliver == ASSUME HInv, NEW r \in Clients, Deliver(r), IInv' PROVE HInv'
<1> DEFINE line == Top.line
<1>1. /\ stack # <<>> /\ stack' = Without(r) /\ r \in Top.to
      /\ stream' = [stream EXCEPT ![r] = Append(@, line)]
      /\ UNCHANGED <<marked, gone, witness>>
  BY DEF Deliver, marks
<1>2. line \in Lines /\ Top = stack[Len(stack)] /\ Len(stack) \in 1 .. Len(stack)
  BY <1>1, TopFacts DEF HInv
<1>3. stream \in [Clients -> Seq(Lines)]
  BY DEF HInv, IInv, Typed
<1> HIDE DEF line
<1>4. \A p \in Clients : p # r => stream'[p] = stream[p]
  BY <1>1, <1>3
<1>5. stream[r] \in Seq(Lines) /\ stream'[r] = Append(stream[r], line)
  BY <1>1, <1>3
<1>6. /\ DOMAIN stream[r] = 1 .. Len(stream[r]) /\ Len(stream[r]) \in Nat
      /\ DOMAIN Append(stream[r], line) = 1 .. (Len(stream[r]) + 1)
      /\ \A i \in 1 .. Len(stream[r]) : Append(stream[r], line)[i] = stream[r][i]
      /\ Append(stream[r], line)[Len(stream[r]) + 1] = line
  BY <1>2, <1>5
<1>7. \A c \in Clients : \A i \in QuitsHeard(r, c)' :
            i \in QuitsHeard(r, c) \/ (i = Len(stream[r]) + 1 /\ line.kind = "quit" /\ line.from = c)
  BY <1>5, <1>6 DEF QuitsHeard
<1>8. \A c \in Clients : QuitsHeard(r, c) \subseteq QuitsHeard(r, c)'
  BY <1>5, <1>6 DEF QuitsHeard
<1>9. \A c \in Clients : line.kind = "quit" /\ line.from = c => QuitsHeard(r, c)' # {}
  BY <1>5, <1>6 DEF QuitsHeard
<1>10. \A c, p \in Clients : p # r => QuitsHeard(p, c)' = QuitsHeard(p, c)
  BY <1>4 DEF QuitsHeard
<1>11. \A c \in Clients : line.kind = "quit" /\ line.from = c => Pending(r, c)
  BY <1>1, <1>2 DEF Pending, PendingIn, line
<1>12. ASSUME NEW p \in Clients, NEW c \in Clients
       PROVE  /\ Pending(p, c)' => Pending(p, c)
              /\ Pending(p, c) /\ p # r => Pending(p, c)'
              /\ Pending(p, c) /\ ~(line.kind = "quit" /\ line.from = c) => Pending(p, c)'
              /\ p = r /\ line.kind = "quit" /\ line.from = c => ~Pending(p, c)'
  BY <1>1, PendingLoop DEF HInv, line
<1>13. NotYet'
  <2> SUFFICES ASSUME NEW c \in Clients, NEW p \in Clients, Pending(p, c)'
               PROVE  QuitsHeard(p, c)' = {}
    BY DEF NotYet
  <2>1. QuitsHeard(p, c) = {}
    BY <1>12 DEF HInv, NotYet
  <2>2. CASE p # r
    BY <2>1, <2>2, <1>10
  <2>3. CASE p = r
    BY <2>1, <2>3, <1>7, <1>12
  <2> QED BY <2>2, <2>3
<1>14. Once'
  <2> SUFFICES ASSUME NEW c \in Clients, NEW p \in Clients,
                      NEW i \in QuitsHeard(p, c)', NEW j \in QuitsHeard(p, c)'
               PROVE  i = j
    BY DEF Once
  <2>1. CASE p # r
    BY <2>1, <1>10 DEF HInv, Once
  <2>2. CASE p = r /\ line.kind = "quit" /\ line.from = c
    <3>1. QuitsHeard(r, c) = {}
      BY <2>2, <1>11 DEF HInv, NotYet
    <3> QED BY <2>2, <3>1, <1>7
  <2>3. CASE p = r /\ ~(line.kind = "quit" /\ line.from = c)
    BY <2>3, <1>7 DEF HInv, Once
  <2> QED BY <2>1, <2>2, <2>3
<1>15. Told'
  <2> SUFFICES ASSUME NEW c \in Clients, NEW p \in Clients,
                      c \in marked \cup gone, p \in witness[c] \cap Alive
               PROVE  QuitsHeard(p, c)' # {} \/ Pending(p, c)'
    BY <1>1 DEF Told, Alive
  <2>1. QuitsHeard(p, c) # {} \/ Pending(p, c)
    BY DEF HInv, Told
  <2>2. CASE QuitsHeard(p, c) # {}
    BY <2>2, <1>8, <1>10
  <2>3. CASE Pending(p, c)
    BY <2>3, <1>9, <1>12
  <2> QED BY <2>1, <2>2, <2>3
<1> QED BY <1>1, <1>13, <1>14, <1>15 DEF HInv

LEMMA HearSkip == ASSUME HInv, NEW r \in Clients, Skip(r), IInv' PROVE HInv'
<1>1. /\ stack # <<>> /\ stack' = Without(r) /\ r \in marked
      /\ UNCHANGED <<marked, gone, witness, stream>>
  BY DEF Skip, marks, queues
<1>2. ASSUME NEW p \in Clients, NEW c \in Clients
      PROVE  /\ Pending(p, c)' => Pending(p, c)
             /\ Pending(p, c) /\ p # r => Pending(p, c)'
  BY <1>1, PendingLoop DEF HInv
<1>3. r \notin Alive
  BY <1>1 DEF Alive
<1> QED BY <1>1, <1>2, <1>3, HearNothing

LEMMA HearRefuse == ASSUME HInv, NEW r \in Clients, Refuse(r), IInv' PROVE HInv'
<1>1. r \notin marked /\ r \notin gone /\ stack # <<>>
  BY TopFacts DEF Refuse, FrameOK, HInv
<1>2. "SendQ exceeded" \in Whys
  BY DEF Whys
<1>3. /\ marked' = marked \cup {r} /\ UNCHANGED <<gone, stream>>
      /\ witness' = [witness EXCEPT ![r] = Peers(r, rooms)]
      /\ stack' = Without(r) \o Frames(r, "SendQ exceeded")
  BY DEF Refuse, queues, MarkDisconnecting
<1>4. stack \in Seq(FrameType)
  BY DEF HInv, IInv, Typed
<1>5. /\ Without(r) \in Seq(FrameType)
      /\ Len(Without(r)) = Len(stack)
      /\ \A i \in 1 .. Len(stack) : /\ Without(r)[i].line = stack[i].line
                                    /\ Without(r)[i].to \subseteq stack[i].to
                                    /\ stack[i].to \subseteq Without(r)[i].to \cup {r}
  BY <1>1, <1>4, WithoutFacts
<1>6. ASSUME NEW p \in Clients, NEW d \in Clients
      PROVE  Pending(p, d)' <=>
                \/ PendingIn(Without(r), p, d)
                \/ d = r /\ p \in Peers(r, rooms)
  BY <1>2, <1>3, <1>5, PendingPush, Zenon DEF HInv
<1>7. \A p, d \in Clients : Pending(p, d)' => Pending(p, d) \/ (d = r /\ p \in Peers(r, rooms))
  <2> SUFFICES ASSUME NEW p \in Clients, NEW d \in Clients, PendingIn(Without(r), p, d)
               PROVE  Pending(p, d)
    BY <1>6, Zenon
  <2>1. PICK i \in 1 .. Len(Without(r)) :
            /\ Without(r)[i].line.kind = "quit" /\ Without(r)[i].line.from = d
            /\ p \in Without(r)[i].to
    BY Zenon DEF PendingIn
  <2>2. i \in 1 .. Len(stack)
    BY <1>5
  <2>3. stack[i].line.kind = "quit" /\ stack[i].line.from = d /\ p \in stack[i].to
    BY <1>5, <2>1, <2>2
  <2> QED BY <2>2, <2>3, Zenon DEF Pending, PendingIn
<1>8. \A p, d \in Clients : Pending(p, d) /\ p # r => Pending(p, d)'
  <2> SUFFICES ASSUME NEW p \in Clients, NEW d \in Clients, Pending(p, d), p # r
               PROVE  PendingIn(Without(r), p, d)
    BY <1>6, Zenon
  <2>1. PICK i \in 1 .. Len(stack) :
            stack[i].line.kind = "quit" /\ stack[i].line.from = d /\ p \in stack[i].to
    BY Zenon DEF Pending, PendingIn
  <2>2. i \in 1 .. Len(Without(r))
    BY <1>5
  <2>3. /\ Without(r)[i].line.kind = "quit" /\ Without(r)[i].line.from = d
        /\ p \in Without(r)[i].to
    BY <1>5, <2>1
  <2> QED BY <2>2, <2>3, Zenon DEF PendingIn
<1>9. \A p \in Peers(r, rooms) : Pending(p, r)'
  BY <1>6, PeersExist DEF HInv, IInv
<1> QED BY <1>1, <1>3, <1>7, <1>8, <1>9, HearOfNew

LEMMA HearLeave == ASSUME HInv, NEW c \in Clients, Leave(c), IInv' PROVE HInv'
<1>1. c \notin marked /\ c \notin gone /\ stack = <<>>
  BY DEF Leave, Alive
<1>2. "quit" \in Whys /\ <<>> \in Seq(FrameType) /\ Len(<<>>) = 0
  BY DEF Whys
<1>3. <<>> \o Frames(c, "quit") = Frames(c, "quit")
  BY DEF Frames
<1>4. /\ marked' = marked \cup {c} /\ UNCHANGED <<gone, stream>>
      /\ witness' = [witness EXCEPT ![c] = Peers(c, rooms)]
      /\ stack' = <<>> \o Frames(c, "quit")
  BY <1>3 DEF Leave, queues, MarkDisconnecting
<1>5. ASSUME NEW p \in Clients, NEW d \in Clients
      PROVE  Pending(p, d)' <=>
                \/ PendingIn(<<>>, p, d)
                \/ d = c /\ p \in Peers(c, rooms)
  BY <1>2, <1>4, PendingPush, Zenon DEF HInv
<1>6. \A p, d \in Clients : Pending(p, d)' <=> d = c /\ p \in Peers(c, rooms)
  BY <1>2, <1>5 DEF PendingIn
<1>7. \A p, d \in Clients : ~Pending(p, d)
  BY <1>1, <1>2 DEF Pending, PendingIn
<1>8. \A p \in Peers(c, rooms) : Pending(p, c)'
  BY <1>6, PeersExist DEF HInv, IInv
<1> QED BY <1>1, <1>4, <1>6, <1>7, <1>8, HearOfNew

LEMMA HearReturn == ASSUME HInv, Return, IInv' PROVE HInv'
<1> DEFINE n == Len(stack) - 1
<1>1. n \in Nat /\ Len(stack) = n + 1 /\ \A i \in 1 .. n : i \in 1 .. Len(stack) /\ stack[i] \in FrameType
  BY DEF HInv, IInv, Typed, Return
<1>2. stack' = SubSeq(stack, 1, n) /\ Top.to = {} /\ UNCHANGED <<stream, witness, marked, gone>>
  BY DEF Return, Rest, queues, marks
<1> HIDE DEF n
<1>3. Len(stack') = n /\ \A i \in 1 .. n : stack'[i] = stack[i]
  BY <1>1, <1>2
<1>4. stack[n + 1].to = {}
  BY <1>1, <1>2 DEF Top
<1>5. \A i \in 1 .. Len(stack) : i \in 1 .. n \/ i = n + 1
  BY <1>1
<1>6. \A p, c \in Clients : Pending(p, c)' => Pending(p, c)
  BY <1>1, <1>3 DEF Pending, PendingIn
<1>7. \A p, c \in Clients : Pending(p, c) => Pending(p, c)'
  BY <1>3, <1>4, <1>5 DEF Pending, PendingIn
<1> QED BY <1>2, <1>6, <1>7, HearNothing

\* A command's own frame is no QUIT.
LEMMA HearCommand ==
    ASSUME HInv, IInv', stack = <<>>, NEW f, f.line.kind \in {"talk", "join"}, stack' = <<f>>,
           UNCHANGED <<stream, witness, marked, gone>>
    PROVE  HInv'
<1>1. Len(<<>>) = 0 /\ Len(<<f>>) = 1 /\ <<f>>[1] = f
  OBVIOUS
<1>2. \A i \in 1 .. Len(<<f>>) : i = 1
  BY <1>1
<1>3. \A p, c \in Clients : ~Pending(p, c)
  BY <1>1 DEF Pending, PendingIn
<1>4. \A p, c \in Clients : ~Pending(p, c)'
  BY <1>1, <1>2 DEF Pending, PendingIn
<1> QED BY <1>3, <1>4, HearNothing

LEMMA HearQuiet ==
    ASSUME HInv, IInv', UNCHANGED <<stream, witness, stack>>, marked' \cup gone' = marked \cup gone
    PROVE  HInv'
<1>1. \A p, c \in Clients : Pending(p, c)' <=> Pending(p, c)
  BY DEF Pending, PendingIn
<1> QED BY <1>1, HearNothing

LEMMA HearStep == HInv /\ [Next]_vars => HInv'
<1> SUFFICES ASSUME HInv, [Next]_vars PROVE HInv'
  OBVIOUS
<1>0. IInv'
  BY StepPreserves DEF HInv
<1>1. CASE Return
  BY <1>0, <1>1, HearReturn
<1>2. ASSUME NEW r \in Clients, Deliver(r) PROVE HInv'
  BY <1>0, <1>2, HearDeliver
<1>3. ASSUME NEW r \in Clients, Skip(r) PROVE HInv'
  BY <1>0, <1>3, HearSkip
<1>4. ASSUME NEW r \in Clients, Refuse(r) PROVE HInv'
  BY <1>0, <1>4, HearRefuse
<1>5. ASSUME NEW c \in Clients, Leave(c) PROVE HInv'
  BY <1>0, <1>5, HearLeave
<1>6. ASSUME NEW c \in Clients, Writable(c) PROVE HInv'
  BY <1>0, <1>6, HearQuiet DEF Writable, marks
<1>7. ASSUME NEW c \in Clients, NEW k \in RoomNames, Talk(c, k) PROVE HInv'
  <2> DEFINE f == Frame(Line("talk", c, NoReason), rooms[k].members \ {c})
  <2>1. stack = <<>> /\ stack' = <<f>> /\ UNCHANGED <<stream, witness, marked, gone>>
    BY <1>7 DEF Talk, Command, queues, marks
  <2>2. f.line.kind = "talk"
    BY DEF Frame, Line
  <2> QED BY <1>0, <2>1, <2>2, HearCommand
<1>8. ASSUME NEW c \in Clients, NEW k \in RoomNames, Join(c, k) PROVE HInv'
  <2> DEFINE f == Frame(Line("join", c, NoReason), rooms'[k].members)
  <2>1. stack = <<>> /\ stack' = <<f>> /\ UNCHANGED <<stream, witness, marked, gone>>
    BY <1>8 DEF Join, Command, queues, marks
  <2>2. f.line.kind = "join"
    BY DEF Frame, Line
  <2> QED BY <1>0, <2>1, <2>2, HearCommand
<1>9. CASE Reap
  <2>1. UNCHANGED <<stream, witness, stack>> /\ marked' \cup gone' = marked \cup gone
    BY <1>9 DEF Reap
  <2> QED BY <1>0, <2>1, HearQuiet
<1>10. CASE UNCHANGED vars
  BY <1>0, <1>10, HearQuiet DEF vars, queues, marks
<1>11. CASE Terminating
  BY <1>10, <1>11 DEF Terminating
<1> QED BY <1>1, <1>2, <1>3, <1>4, <1>5, <1>6, <1>7, <1>8, <1>9, <1>10, <1>11 DEF Next, SendStep

\* A client is told of a peer's end at most once, however many channels they share
\* and however the sends nest, and when they are done every peer that is not being
\* dropped itself has been told.
THEOREM QuitsAreHeardOnce == Spec => []QuitHeardOnce
<1>1. Init => HInv
  <2> SUFFICES ASSUME Init PROVE HInv
    OBVIOUS
  <2>1. \A c, p \in Clients : QuitsHeard(p, c) = {}
    BY DEF Init, QuitsHeard
  <2>2. marked = {} /\ gone = {} /\ witness \in [Clients -> SUBSET Clients]
    BY DEF Init
  <2> QED BY <2>1, <2>2, InitEstablishes DEF HInv, NotYet, Once, Told
<1>2. HInv => QuitHeardOnce
  <2> SUFFICES ASSUME HInv PROVE QuitHeardOnce
    OBVIOUS
  <2>1. Len(<<>>) = 0
    OBVIOUS
  <2>2. stack = <<>> => \A p, c \in Clients : ~Pending(p, c)
    BY <2>1 DEF Pending, PendingIn
  <2> QED BY <2>2 DEF HInv, Once, Told, QuitHeardOnce
<1> QED BY <1>1, <1>2, HearStep, PTL DEF Spec

-----------------------------------------------------------------------------
(* Whom a send marks.                                                      *)

\* Those the send in progress has marked so far.
Fallen == marked \ call.before

\* A client the send may still get to: its recipient, a peer of one it has
\* marked, or one that is marked anyway.
InReach(r) == r \in marked \/ r \in call.to \/ \E d \in Fallen : r \in Peers(d, rooms)

StackInReach == \A i \in 1 .. Len(stack) : \A r \in stack[i].to : InReach(r)

MInv ==
    /\ IInv
    /\ call.before \subseteq marked \cup gone
    /\ StackInReach
    /\ Fallen \in Overflows(call.to, rooms, Clients \ call.before)

\* One more client, in reach of the others, can be marked with them.
LEMMA OverflowsGrow ==
    ASSUME NEW R, NEW chans, NEW able, NEW D \in Overflows(R, chans, able),
           NEW r \in able, r \notin D,
           r \in R \/ \E d \in D : r \in Peers(d, chans)
    PROVE  D \cup {r} \in Overflows(R, chans, able)
<1>1. D \in SUBSET able
      /\ \A T \in SUBSET D :
            T # {} /\ T \cap R = {} => \E d \in D \ T : Peers(d, chans) \cap T # {}
  BY DEF Overflows
<1>2. ASSUME NEW T \in SUBSET (D \cup {r}), T # {}, T \cap R = {}
      PROVE  \E d \in (D \cup {r}) \ T : Peers(d, chans) \cap T # {}
  <2>1. CASE r \notin T
    BY <1>1, <1>2, <2>1
  <2>2. CASE T = {r}
    <3>1. PICK d \in D : r \in Peers(d, chans)
      BY <1>2, <2>2
    <3> QED BY <2>2, <3>1
  <2>3. CASE r \in T /\ T # {r}
    <3> DEFINE U == T \ {r}
    <3>1. U \in SUBSET D /\ U # {} /\ U \cap R = {}
      BY <1>2, <2>3
    <3>2. PICK d \in D \ U : Peers(d, chans) \cap U # {}
      BY <1>1, <3>1
    <3> QED BY <3>2
  <2> QED BY <2>1, <2>2, <2>3
<1> QED BY <1>1, <1>2 DEF Overflows

\* Before anybody is marked, the result so far is the empty one.
LEMMA NobodyFallen == \A R, chans, able : {} \in Overflows(R, chans, able)
BY DEF Overflows

\* Steps inside a send that mark nobody.
LEMMA MatchShrink ==
    ASSUME MInv, IInv', UNCHANGED <<rooms, marked, gone, call>>,
           Len(stack') <= Len(stack),
           \A i \in 1 .. Len(stack') : stack'[i].to \subseteq stack[i].to
    PROVE  MInv'
<1>1. Len(stack) \in Nat /\ Len(stack') \in Nat
  BY DEF MInv, IInv, Typed
<1>2. StackInReach'
  <2> SUFFICES ASSUME NEW i \in 1 .. Len(stack'), NEW r \in stack'[i].to PROVE InReach(r)'
    BY DEF StackInReach
  <2>1. i \in 1 .. Len(stack) /\ r \in stack[i].to
    BY <1>1
  <2>2. InReach(r)
    BY <2>1 DEF MInv, StackInReach
  <2> QED BY <2>2 DEF InReach, Fallen
<1> QED BY <1>2 DEF MInv, Fallen

LEMMA MatchReturn == ASSUME MInv, Return, IInv' PROVE MInv'
<1> DEFINE n == Len(stack) - 1
<1>1. n \in Nat /\ Len(stack) = n + 1 /\ \A i \in 1 .. n : i \in 1 .. Len(stack) /\ stack[i] \in FrameType
  BY DEF MInv, IInv, Typed, Return
<1>2. stack' = SubSeq(stack, 1, n) /\ UNCHANGED <<rooms, marked, gone, call>>
  BY DEF Return, Rest, marks
<1> HIDE DEF n
<1>3. Len(stack') = n /\ \A i \in 1 .. n : stack'[i] = stack[i]
  BY <1>1, <1>2
<1>4. Len(stack') <= Len(stack) /\ \A i \in 1 .. Len(stack') : stack'[i].to \subseteq stack[i].to
  BY <1>1, <1>3
<1> QED BY <1>2, <1>4, MatchShrink

\* Deliver and Skip.
LEMMA MatchLoop ==
    ASSUME MInv, IInv', stack # <<>>, NEW r, stack' = Without(r),
           UNCHANGED <<rooms, marked, gone, call>>
    PROVE  MInv'
<1>1. /\ Len(stack') = Len(stack)
      /\ \A i \in 1 .. Len(stack) :
            stack'[i].to = IF i = Len(stack) THEN stack[i].to \ {r} ELSE stack[i].to
  BY WithoutFacts DEF MInv, IInv, Typed
<1>2. Len(stack') <= Len(stack)
  BY <1>1 DEF MInv, IInv, Typed
<1> QED BY <1>1, <1>2, MatchShrink

LEMMA MatchRefuse == ASSUME MInv, NEW r \in Clients, Refuse(r), IInv' PROVE MInv'
<1>1. /\ stack # <<>> /\ stack \in Seq(FrameType) /\ Typed
      /\ marked' = marked \cup {r} /\ UNCHANGED <<rooms, gone, call>>
      /\ stack' = Without(r) \o <<Error(r, "SendQ exceeded"), Quit(r, "SendQ exceeded")>>
  BY DEF MInv, IInv, Typed, Refuse, MarkDisconnecting, Frames
<1>2. r \in Top.to /\ r \notin marked /\ r \notin gone
  BY TopFacts DEF Refuse, FrameOK, MInv
<1>3. InReach(r)
  <2>1. Len(stack) \in 1 .. Len(stack) /\ Top = stack[Len(stack)]
    BY TopFacts DEF MInv, Refuse
  <2> QED BY <1>2, <2>1 DEF MInv, StackInReach
<1>4. r \notin call.before /\ Fallen' = Fallen \cup {r} /\ r \notin Fallen
  BY <1>1, <1>2 DEF MInv, Fallen
<1>5. Fallen' \in Overflows(call.to, rooms, Clients \ call.before)
  <2>1. r \in call.to \/ \E d \in Fallen : r \in Peers(d, rooms)
    BY <1>2, <1>3 DEF InReach
  <2>2. Fallen \in Overflows(call.to, rooms, Clients \ call.before)
    BY DEF MInv
  <2> QED BY <1>4, <2>1, <2>2, OverflowsGrow
<1>6. \A p : InReach(p) => InReach(p)'
  BY <1>1, <1>4 DEF InReach
<1>7. /\ Without(r) \in Seq(FrameType) /\ Len(Without(r)) = Len(stack)
      /\ \A i \in 1 .. Len(stack) : Without(r)[i].to \subseteq stack[i].to
  BY <1>1, WithoutFacts
<1> DEFINE e == Error(r, "SendQ exceeded")
           q == Quit(r, "SendQ exceeded")
<1>8. e \in FrameType /\ q \in FrameType /\ e.to = {r} /\ q.to = Peers(r, rooms)
  BY <1>1, FrameTypes DEF Whys
<1> HIDE DEF e, q
<1>9. /\ Len(stack') = Len(stack) + 2
      /\ \A i \in 1 .. Len(stack) : stack'[i] = Without(r)[i]
      /\ stack'[Len(stack) + 1] = e /\ stack'[Len(stack) + 2] = q
  <2>1. stack' = Without(r) \o <<e, q>>
    BY <1>1 DEF e, q
  <2>2. PICK s \in Seq(FrameType) : s = Without(r)
    BY <1>7
  <2>3. /\ Len(s \o <<e, q>>) = Len(s) + 2
        /\ \A i \in 1 .. Len(s) : (s \o <<e, q>>)[i] = s[i]
        /\ (s \o <<e, q>>)[Len(s) + 1] = e
        /\ (s \o <<e, q>>)[Len(s) + 2] = q
    BY <1>8, PushFacts
  <2>4. stack' = s \o <<e, q>> /\ Len(s) = Len(stack)
    BY <1>7, <2>1, <2>2
  <2> QED BY <2>2, <2>3, <2>4
<1>10. StackInReach'
  <2> SUFFICES ASSUME NEW i \in 1 .. Len(stack'), NEW p \in stack'[i].to PROVE InReach(p)'
    BY DEF StackInReach
  <2>1. Len(stack) \in Nat
    BY DEF MInv, IInv, Typed
  <2>2. i \in 1 .. Len(stack) \/ i = Len(stack) + 1 \/ i = Len(stack) + 2
    BY <1>9, <2>1
  <2>3. CASE i \in 1 .. Len(stack)
    <3>1. p \in stack[i].to
      BY <1>7, <1>9, <2>3
    <3> QED BY <1>6, <2>3, <3>1 DEF MInv, StackInReach
  <2>4. CASE i = Len(stack) + 1
    <3>1. p = r
      BY <1>8, <1>9, <2>4
    <3> QED BY <1>1, <3>1 DEF InReach
  <2>5. CASE i = Len(stack) + 2
    <3>1. p \in Peers(r, rooms)'
      BY <1>1, <1>8, <1>9, <2>5
    <3> QED BY <1>4, <3>1 DEF InReach
  <2> QED BY <2>2, <2>3, <2>4, <2>5
<1> QED BY <1>1, <1>5, <1>10 DEF MInv

\* A new call starts with nobody marked by it.
LEMMA MatchStart ==
    ASSUME IInv', call'.before \subseteq marked' \cup gone', marked' \subseteq call'.before,
           \A i \in 1 .. Len(stack') : stack'[i].to \subseteq marked' \cup call'.to
    PROVE  MInv'
<1>1. Fallen' = {}
  BY DEF Fallen
<1>2. Fallen' \in Overflows(call'.to, rooms', Clients \ call'.before)
  BY <1>1, NobodyFallen
<1>3. StackInReach'
  BY DEF StackInReach, InReach
<1> QED BY <1>2, <1>3 DEF MInv

LEMMA MatchCommand ==
    ASSUME MInv, IInv', NEW f, NEW R, f.to = R, stack' = <<f>>, UNCHANGED <<marked, gone>>,
           call' = [to |-> R, before |-> marked \cup gone]
    PROVE  MInv'
<1>1. Len(<<f>>) = 1 /\ <<f>>[1] = f
  OBVIOUS
<1>2. \A i \in 1 .. Len(<<f>>) : i = 1
  BY <1>1
<1> QED BY <1>1, <1>2, MatchStart

LEMMA MatchLeave == ASSUME MInv, NEW c \in Clients, Leave(c), IInv' PROVE MInv'
<1>1. /\ stack' = <<Error(c, "quit"), Quit(c, "quit")>>
      /\ marked' = marked \cup {c} /\ gone' = gone
      /\ call' = [to |-> Peers(c, rooms), before |-> marked \cup gone \cup {c}]
  BY DEF Leave, MarkDisconnecting, Frames
<1>2. Error(c, "quit").to = {c} /\ Quit(c, "quit").to = Peers(c, rooms)
  BY FrameTypes DEF MInv, IInv, Whys
<1>3. \A e, q : \A i \in 1 .. Len(<<e, q>>) : <<e, q>>[i] \in {e, q}
  OBVIOUS
<1>4. \A i \in 1 .. Len(stack') : stack'[i].to = {c} \/ stack'[i].to = Peers(c, rooms)
  <2>1. \A i \in 1 .. Len(stack') : stack'[i] \in {Error(c, "quit"), Quit(c, "quit")}
    BY <1>1, <1>3, Zenon
  <2> QED BY <1>2, <2>1
<1>5. \A i \in 1 .. Len(stack') : stack'[i].to \subseteq marked' \cup call'.to
  BY <1>1, <1>4
<1> QED BY <1>1, <1>5, MatchStart

LEMMA MatchQuiet ==
    ASSUME MInv, IInv', UNCHANGED <<rooms, marked, gone, stack, call>> PROVE MInv'
BY DEF MInv, StackInReach, InReach, Fallen

LEMMA MatchStep == MInv /\ [Next]_vars => MInv'
<1> SUFFICES ASSUME MInv, [Next]_vars PROVE MInv'
  OBVIOUS
<1>0. IInv'
  BY StepPreserves DEF MInv
<1>1. CASE Return
  BY <1>0, <1>1, MatchReturn
<1>2. ASSUME NEW r \in Clients, Deliver(r) \/ Skip(r) PROVE MInv'
  BY <1>0, <1>2, MatchLoop DEF Deliver, Skip, marks
<1>3. ASSUME NEW r \in Clients, Refuse(r) PROVE MInv'
  BY <1>0, <1>3, MatchRefuse
<1>4. ASSUME NEW c \in Clients, Leave(c) PROVE MInv'
  BY <1>0, <1>4, MatchLeave
<1>5. ASSUME NEW c \in Clients, Writable(c) PROVE MInv'
  BY <1>0, <1>5, MatchQuiet DEF Writable, marks
<1>6. ASSUME NEW c \in Clients, NEW k \in RoomNames, Talk(c, k) PROVE MInv'
  <2> DEFINE R == rooms[k].members \ {c}
             f == Frame(Line("talk", c, NoReason), R)
  <2>1. stack' = <<f>> /\ call' = [to |-> R, before |-> marked \cup gone]
        /\ UNCHANGED <<marked, gone>>
    BY <1>6 DEF Talk, Command, marks
  <2>2. f.to = R
    BY DEF Frame
  <2> QED BY <1>0, <2>1, <2>2, MatchCommand
<1>7. ASSUME NEW c \in Clients, NEW k \in RoomNames, Join(c, k) PROVE MInv'
  <2> DEFINE R == rooms'[k].members
             f == Frame(Line("join", c, NoReason), R)
  <2>1. stack' = <<f>> /\ call' = [to |-> R, before |-> marked \cup gone]
        /\ UNCHANGED <<marked, gone>>
    BY <1>7 DEF Join, Command, marks
  <2>2. f.to = R
    BY DEF Frame
  <2> QED BY <1>0, <2>1, <2>2, MatchCommand
<1>8. CASE Reap
  <2>1. stack' = <<>> /\ marked' = {} /\ call' = [to |-> {}, before |-> {}]
    BY <1>8 DEF Reap
  <2>2. Len(stack') = 0
    BY <2>1
  <2> QED BY <1>0, <2>1, <2>2, MatchStart
<1>9. CASE UNCHANGED vars
  BY <1>0, <1>9, MatchQuiet DEF vars, marks
<1>10. CASE Terminating
  BY <1>9, <1>10 DEF Terminating
<1> QED BY <1>1, <1>2, <1>3, <1>4, <1>5, <1>6, <1>7, <1>8, <1>9, <1>10 DEF Next, SendStep

\* However many queues overflow one into the other, the clients that one send of
\* the small steps has marked when it is done are a result that the one-step
\* operator Overflows allows, on which every handler of module Server relies.
THEOREM SmallStepsMatchOverflows == Spec => []MatchesOverflows
<1>1. Init => MInv
  <2> SUFFICES ASSUME Init PROVE MInv
    OBVIOUS
  <2>1. marked = {} /\ gone = {} /\ stack = <<>> /\ call.before = {}
    BY DEF Init
  <2>2. Len(stack) = 0 /\ Fallen = {}
    BY <2>1 DEF Fallen
  <2> QED BY <2>1, <2>2, InitEstablishes, NobodyFallen DEF MInv, StackInReach
<1>2. MInv => MatchesOverflows
  BY DEF MInv, MatchesOverflows, Fallen
<1> QED BY <1>1, <1>2, MatchStep, PTL DEF Spec
=============================================================================
