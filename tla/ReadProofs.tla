----------------------------- MODULE ReadProofs -----------------------------
(***************************************************************************)
(* Theorems about ReadBuffer, for every size of buffer and of packet with  *)
(* RECV_CHUNK <= MAX_READ_BUFFER + 1: the bounds on the buffer, that       *)
(* nothing runs after QUIT, and that what runs depends on the stream alone *)
(* and not on the packets it came in.                                      *)
(***************************************************************************)
EXTENDS ReadBuffer, SequenceTheorems, Induction

\* What extractCommand can return.
Extractable == {Extracted(s) : s \in Seq(Byte)}

Typed ==
    /\ buf \in Seq(Byte)
    /\ draining \in BOOLEAN
    /\ lines \in Seq(Extractable)

\* Inside the loop, a buffer beyond the cap has its line feeds in the packet that
\* came last: what follows the first of them is shorter than a packet.
Drainable ==
    draining /\ marked = "no" =>
        /\ Len(buf) <= MaxBuffer + Chunk
        /\ Len(buf) <= MaxBuffer \/
               (HasLine(buf) /\ \A p \in 1 .. Len(buf) : buf[p] = "lf" => Len(buf) - p < Chunk)

NoQuitYet == marked = "no" => \A n \in 1 .. Len(lines) : lines[n] # <<"q">>

IInv == Typed /\ BufferIsCapped /\ Drainable /\ QuitIsLast /\ NoQuitYet

\* The bytes of a concatenation.
LEMMA ConcatBytes ==
    ASSUME NEW s \in Seq(Byte), NEW t \in Seq(Byte)
    PROVE  /\ s \o t \in Seq(Byte)
           /\ Len(s \o t) = Len(s) + Len(t)
           /\ \A p \in 1 .. Len(s) : (s \o t)[p] = s[p]
<1>1. Len(s) \in Nat /\ Len(t) \in Nat OBVIOUS
<1>2. s \o t \in Seq(Byte) /\ Len(s \o t) = Len(s) + Len(t)
  BY ConcatProperties
<1>3. \A m \in 1 .. Len(s) + Len(t) :
          (s \o t)[m] = IF m <= Len(s) THEN s[m] ELSE t[m - Len(s)]
  BY ConcatProperties
<1>4. \A p \in 1 .. Len(s) : (s \o t)[p] = s[p]
  <2> TAKE p \in 1 .. Len(s)
  <2>1. p \in 1 .. Len(s) + Len(t) /\ p <= Len(s) BY <1>1
  <2> QED BY <2>1, <1>3, Zenon
<1> QED BY <1>2, <1>4

\* What is left after the line that ends at p.
LEMMA RestBytes ==
    ASSUME NEW s \in Seq(Byte), NEW p \in 1 .. Len(s)
    PROVE  /\ SubSeq(s, 1, p - 1) \in Seq(Byte)
           /\ SubSeq(s, p + 1, Len(s)) \in Seq(Byte)
           /\ Len(SubSeq(s, p + 1, Len(s))) = Len(s) - p
OBVIOUS

\* The first n bytes.
LEMMA PrefixBytes ==
    ASSUME NEW s \in Seq(Byte), NEW n \in 0 .. Len(s)
    PROVE  /\ SubSeq(s, 1, n) \in Seq(Byte)
           /\ Len(SubSeq(s, 1, n)) = n
           /\ \A m \in 1 .. n : SubSeq(s, 1, n)[m] = s[m]
OBVIOUS

LEMMA InitIInv == Init => IInv
<1> SUFFICES ASSUME Init PROVE IInv OBVIOUS
<1>1. <<>> \in Seq(Byte) /\ <<>> \in Seq(Extractable) /\ Len(<<>>) = 0 BY EmptySeq
<1>2. Typed BY <1>1 DEF Init, Typed
<1>3. BufferIsCapped BY ReadAssumption DEF Init, BufferIsCapped, HasLine
<1>4. Drainable BY DEF Init, Drainable
<1>5. QuitIsLast /\ NoQuitYet BY DEF Init, QuitIsLast, NoQuitYet
<1> QED BY <1>2, <1>3, <1>4, <1>5 DEF IInv

\* A packet arrives at a buffer that is at rest.
LEMMA RecvStep == IInv /\ Recv => IInv'
<1> SUFFICES ASSUME IInv, Recv PROVE IInv' OBVIOUS
<1>1. PICK data \in Chunks : buf' = buf \o data BY DEF Recv
<1>2. /\ ~draining /\ marked = "no" /\ UNCHANGED lines
      /\ \/ TooLong(buf') /\ marked' = "flood" /\ draining' = draining
         \/ ~TooLong(buf') /\ marked' = marked /\ draining' = TRUE
  BY DEF Recv
<1>3. data \in Seq(Byte) /\ Len(data) \in Nat /\ Len(data) <= Chunk
  <2>1. PICK n \in 1 .. Chunk : data \in [1 .. n -> Byte] BY DEF Chunks
  <2> QED BY <2>1, ReadAssumption
<1>4. /\ buf \in Seq(Byte) /\ Len(buf) \in Nat
      /\ Len(buf) <= MaxBuffer /\ ~HasLine(buf)
  BY <1>2 DEF IInv, Typed, BufferIsCapped
<1>5. /\ buf' \in Seq(Byte)
      /\ Len(buf') = Len(buf) + Len(data)
      /\ \A p \in 1 .. Len(buf) : buf'[p] # "lf"
  BY <1>1, <1>3, <1>4, ConcatBytes DEF HasLine
<1>6. Len(buf') <= MaxBuffer + Chunk BY <1>3, <1>4, <1>5, ReadAssumption
<1>7. Typed' BY <1>2, <1>5 DEF IInv, Typed
<1>8. BufferIsCapped' BY <1>2, <1>6 DEF BufferIsCapped
<1>9. Drainable'
  <2> SUFFICES ASSUME draining', marked' = "no", ~(Len(buf') <= MaxBuffer)
               PROVE  /\ HasLine(buf')
                      /\ \A p \in 1 .. Len(buf') : buf'[p] = "lf" => Len(buf') - p < Chunk
    BY <1>6 DEF Drainable
  <2>1. HasLine(buf')
    <3>1. ~TooLong(buf') BY <1>2
    <3>2. Len(buf') > MaxBuffer BY <1>3, <1>4, <1>5, ReadAssumption
    <3> QED BY <3>1, <3>2 DEF TooLong
  <2>2. ASSUME NEW p \in 1 .. Len(buf'), buf'[p] = "lf" PROVE Len(buf') - p < Chunk
    <3>1. p \notin 1 .. Len(buf) BY <2>2, <1>5
    <3>2. p > Len(buf) BY <3>1, <1>3, <1>4, <1>5
    <3> QED BY <3>2, <1>3, <1>4, <1>5, ReadAssumption
  <2> QED BY <2>1, <2>2
<1>10. QuitIsLast' /\ NoQuitYet' BY <1>2 DEF IInv, QuitIsLast, NoQuitYet
<1> QED BY <1>7, <1>8, <1>9, <1>10 DEF IInv

\* One line is taken out and executed.
LEMMA HandleLineStep == IInv /\ HandleLine => IInv'
<1> SUFFICES ASSUME IInv, HandleLine PROVE IInv' OBVIOUS
<1>1. PICK p \in 1 .. Len(buf) :
          /\ buf[p] = "lf" /\ ~HasLine(SubSeq(buf, 1, p - 1))
          /\ lines' = Append(lines, Extracted(SubSeq(buf, 1, p - 1)))
          /\ buf' = SubSeq(buf, p + 1, Len(buf))
  BY DEF HandleLine
<1>2. draining /\ marked = "no" /\ draining' = TRUE BY DEF HandleLine, MayDrain, IInv, Typed
<1>3. buf \in Seq(Byte) /\ Len(buf) \in Nat BY DEF IInv, Typed
<1>4. buf' \in Seq(Byte) /\ Len(buf') = Len(buf) - p BY <1>1, <1>3, RestBytes
<1>5. Len(buf') <= MaxBuffer
  <2>1. Len(buf) <= MaxBuffer \/ Len(buf) - p < Chunk
    BY <1>1, <1>2 DEF IInv, Drainable
  <2> QED BY <2>1, <1>3, <1>4, ReadAssumption
<1>6. PICK line \in Extractable : lines' = Append(lines, line)
  <2>1. SubSeq(buf, 1, p - 1) \in Seq(Byte) BY <1>3, RestBytes
  <2> QED BY <1>1, <2>1 DEF Extractable
<1>7. /\ lines' \in Seq(Extractable)
      /\ Len(lines') = Len(lines) + 1 /\ Len(lines) \in Nat
      /\ lines'[Len(lines')] = line
      /\ \A n \in 1 .. Len(lines) : lines'[n] = lines[n]
  BY <1>6, AppendProperties DEF IInv, Typed
<1>8. Typed' BY <1>2, <1>4, <1>7 DEF Typed
<1>9. BufferIsCapped' /\ Drainable'
  BY <1>2, <1>4, <1>5, ReadAssumption DEF BufferIsCapped, Drainable
<1>10. \A n \in 1 .. Len(lines) : lines'[n] # <<"q">>
  BY <1>2, <1>7 DEF IInv, NoQuitYet
<1>11. QuitIsLast'
  <2>1. Len(lines') - 1 = Len(lines) BY <1>7
  <2> QED BY <2>1, <1>10 DEF QuitIsLast
<1>12. NoQuitYet'
  <2> SUFFICES ASSUME marked' = "no", NEW n \in 1 .. Len(lines') PROVE lines'[n] # <<"q">>
    BY DEF NoQuitYet
  <2>1. lines'[Len(lines')] # <<"q">> BY DEF HandleLine
  <2>2. n = Len(lines') \/ n \in 1 .. Len(lines) BY <1>7
  <2> QED BY <2>1, <2>2, <1>10
<1> QED BY <1>8, <1>9, <1>11, <1>12 DEF IInv

LEMMA NextIInv == IInv /\ [Next]_vars => IInv'
<1> SUFFICES ASSUME IInv, [Next]_vars PROVE IInv' OBVIOUS
<1>1. CASE Recv BY <1>1, RecvStep
<1>2. CASE HandleLine BY <1>2, HandleLineStep
<1>3. CASE Stop
  <2>1. UNCHANGED <<stream, buf, lines, marked>> /\ draining' = FALSE /\ draining
        /\ ~(marked = "no" /\ HasLine(buf))
    BY <1>3 DEF Stop, MayDrain
  <2>2. Len(buf) <= MaxBuffer \/ marked # "no" BY <2>1 DEF IInv, Drainable
  <2> QED BY <2>1, <2>2 DEF IInv, Typed, BufferIsCapped, Drainable, QuitIsLast, NoQuitYet
<1>4. CASE PeerCloses \/ MarkedElsewhere
  BY <1>4 DEF PeerCloses, MarkedElsewhere, IInv, Typed, BufferIsCapped, Drainable,
              QuitIsLast, NoQuitYet
<1>5. CASE UNCHANGED vars
  BY <1>5 DEF vars, IInv, Typed, BufferIsCapped, Drainable, QuitIsLast, NoQuitYet
<1>6. CASE Dropped BY <1>5, <1>6 DEF Dropped
<1> QED BY <1>1, <1>2, <1>3, <1>4, <1>5, <1>6 DEF Next

LEMMA Invariance == Spec => []IInv
BY InitIInv, NextIInv, PTL DEF Spec

\* The read buffer never exceeds MAX_READ_BUFFER + RECV_CHUNK, nor
\* MAX_READ_BUFFER between two packets (appendToReadBuffer).
THEOREM ReadBufferIsCapped == Spec => []BufferIsCapped
<1>1. IInv => BufferIsCapped BY DEF IInv
<1> QED BY <1>1, Invariance, PTL

\* No line is executed after a QUIT (the loop of handleReadable).
THEOREM NothingRunsAfterQuit == Spec => []QuitIsLast
<1>1. IInv => QuitIsLast BY DEF IInv
<1> QED BY <1>1, Invariance, PTL

-----------------------------------------------------------------------------
(* Cleaning a line.                                                        *)

\* The positions whose byte the cleaning keeps.
KeptIn(u, n) == {m \in 1 .. n : IsPayload(u[m])}

LEMMA KeptCount ==
    ASSUME NEW u \in Seq(Byte), NEW n \in Nat
    PROVE  /\ IsFiniteSet(KeptIn(u, n)) /\ Cardinality(KeptIn(u, n)) \in Nat
           /\ KeptIn(u, 0) = {} /\ Cardinality(KeptIn(u, 0)) = 0
           /\ KeptIn(u, n + 1) = IF IsPayload(u[n + 1]) THEN KeptIn(u, n) \cup {n + 1}
                                                        ELSE KeptIn(u, n)
           /\ Cardinality(KeptIn(u, n + 1)) =
                 IF IsPayload(u[n + 1]) THEN Cardinality(KeptIn(u, n)) + 1
                                        ELSE Cardinality(KeptIn(u, n))
<1>1. IsFiniteSet(KeptIn(u, n))
  <2>1. IsFiniteSet(1 .. n) BY FS_Interval
  <2> QED BY <2>1, FS_Subset DEF KeptIn
<1>2. KeptIn(u, 0) = {} BY DEF KeptIn
<1>3. KeptIn(u, n + 1) = IF IsPayload(u[n + 1]) THEN KeptIn(u, n) \cup {n + 1}
                                                ELSE KeptIn(u, n)
  BY DEF KeptIn
<1>4. n + 1 \notin KeptIn(u, n) BY DEF KeptIn
<1>5. Cardinality(KeptIn(u, n)) \in Nat BY <1>1, FS_CardinalityType
<1>6. Cardinality(KeptIn(u, 0)) = 0 BY <1>2, FS_EmptySet
<1>7. Cardinality(KeptIn(u, n) \cup {n + 1}) = Cardinality(KeptIn(u, n)) + 1
  BY <1>1, <1>4, FS_AddElement
<1> QED BY <1>1, <1>2, <1>3, <1>5, <1>6, <1>7

\* remove_if keeps what is payload: how a line is cleaned up to its n-th byte.
LEMMA StrippedUnrolls ==
    ASSUME NEW u \in Seq(Byte)
    PROVE  \E K \in [0 .. Len(u) -> Seq(Byte)] :
               /\ Stripped(u) = K[Len(u)]
               /\ K[0] = <<>>
               /\ \A n \in 1 .. Len(u) :
                     K[n] = IF IsPayload(u[n]) THEN Append(K[n - 1], u[n]) ELSE K[n - 1]
<1> DEFINE N == Len(u)
           G == [q \in Seq(Byte) \X (1 .. N) |->
                    IF IsPayload(u[q[2]]) THEN Append(q[1], u[q[2]]) ELSE q[1]]
           Kept == CHOOSE K : K = [n \in 0 .. N |->
                      IF n = 0 THEN <<>>
                      ELSE IF IsPayload(u[n]) THEN Append(K[n - 1], u[n]) ELSE K[n - 1]]
<1>1. N \in Nat /\ \A n \in 1 .. N : u[n] \in Byte
  OBVIOUS
<1>2. <<>> \in Seq(Byte) BY EmptySeq
<1>3. G \in [Seq(Byte) \X (1 .. N) -> Seq(Byte)]
  BY <1>1
<1>4. \A w \in Seq(Byte), n \in 1 .. N :
          G[<<w, n>>] = IF IsPayload(u[n]) THEN Append(w, u[n]) ELSE w
  OBVIOUS
<1> HIDE DEF G, N
<1>5. PICK f \in [0 .. N -> Seq(Byte)] :
          f[0] = <<>> /\ \A n \in 1 .. N : f[n] = G[<<f[n - 1], n>>]
  <2> DEFINE V == Seq(Byte)
             b == <<>>
  <2>1. b \in V /\ G \in [V \X (1 .. N) -> V] BY <1>2, <1>3
  <2> HIDE DEF V, b
  <2>2. \E f \in [0 .. N -> V] : Follows(f, N, b, G)
    BY <2>1, <1>1, RecursionExists
  <2> QED BY <2>2 DEF V, b, Follows
<1>6. \A n \in 1 .. N : G[<<f[n - 1], n>>] =
          IF IsPayload(u[n]) THEN Append(f[n - 1], u[n]) ELSE f[n - 1]
  <2> TAKE n \in 1 .. N
  <2>1. n - 1 \in 0 .. N BY <1>1
  <2>2. f[n - 1] \in Seq(Byte) BY <2>1
  <2> QED BY <2>2, <1>4
<1>7. f = [n \in 0 .. N |->
              IF n = 0 THEN <<>>
              ELSE IF IsPayload(u[n]) THEN Append(f[n - 1], u[n]) ELSE f[n - 1]]
  <2>1. \A n \in 0 .. N : f[n] =
              IF n = 0 THEN <<>>
              ELSE IF IsPayload(u[n]) THEN Append(f[n - 1], u[n]) ELSE f[n - 1]
    <3> TAKE n \in 0 .. N
    <3>1. n # 0 => n \in 1 .. N BY <1>1
    <3> QED BY <3>1, <1>5, <1>6
  <2> QED BY <2>1
<1>8. Kept = [n \in 0 .. N |->
                 IF n = 0 THEN <<>>
                 ELSE IF IsPayload(u[n]) THEN Append(Kept[n - 1], u[n]) ELSE Kept[n - 1]]
  BY <1>7
<1>9. Stripped(u) = Kept[N] BY DEF Stripped, N
<1> HIDE DEF Kept
<1>10. \A n \in 0 .. N : Kept[n] =
           IF n = 0 THEN <<>>
           ELSE IF IsPayload(u[n]) THEN Append(Kept[n - 1], u[n]) ELSE Kept[n - 1]
  BY <1>8, Zenon
<1>11. Kept[0] = <<>>
  <2>1. 0 \in 0 .. N BY <1>1
  <2> QED BY <2>1, <1>10, Zenon
<1>12. \A n \in 1 .. N : Kept[n] =
           IF IsPayload(u[n]) THEN Append(Kept[n - 1], u[n]) ELSE Kept[n - 1]
  <2> TAKE n \in 1 .. N
  <2>1. n \in 0 .. N /\ n # 0 BY <1>1
  <2> QED BY <2>1, <1>10
<1>13. Kept \in [0 .. N -> Seq(Byte)]
  <2> DEFINE T == {n \in Nat : n <= N => Kept[n] \in Seq(Byte)}
  <2>1. 0 \in T BY <1>2, <1>11
  <2>2. ASSUME NEW n \in 0 .. N - 1, n \in T PROVE n + 1 \in T
    <3>1. Kept[n] \in Seq(Byte) BY <1>1, <2>2
    <3>2. n + 1 \in 1 .. N /\ (n + 1) - 1 = n BY <1>1
    <3>3. Kept[n + 1] = IF IsPayload(u[n + 1]) THEN Append(Kept[n], u[n + 1]) ELSE Kept[n]
      BY <1>12, <3>2, Zenon
    <3>4. Append(Kept[n], u[n + 1]) \in Seq(Byte)
      BY <3>1, <3>2, <1>1, AppendProperties
    <3>5. Kept[n + 1] \in Seq(Byte) BY <3>1, <3>3, <3>4
    <3> QED BY <3>5, <1>1
  <2> HIDE DEF T
  <2>3. \A n \in 0 .. N : n \in T BY <2>1, <2>2, <1>1, BoundedInduction
  <2>4. \A n \in 0 .. N : Kept[n] \in Seq(Byte) BY <2>3, <1>1 DEF T
  <2> QED BY <2>4, <1>8
<1> QED BY <1>9, <1>13, <1>11, <1>12 DEF N

\* Of a line without line feed, cleaning leaves the payload and nothing else.
LEMMA StrippedIsPayload ==
    ASSUME NEW u \in Seq(Byte), \A m \in 1 .. Len(u) : u[m] # "lf"
    PROVE  IsPayloadOf(Stripped(u), u)
<1>1. PICK K \in [0 .. Len(u) -> Seq(Byte)] :
          /\ Stripped(u) = K[Len(u)]
          /\ K[0] = <<>>
          /\ \A n \in 1 .. Len(u) :
                K[n] = IF IsPayload(u[n]) THEN Append(K[n - 1], u[n]) ELSE K[n - 1]
  BY StrippedUnrolls
<1> DEFINE Good(n) ==
        /\ Len(K[n]) = Cardinality(KeptIn(u, n))
        /\ \A m \in KeptIn(u, n) : K[n][Cardinality(KeptIn(u, m))] = u[m]
           T == {n \in Nat : n <= Len(u) => Good(n)}
<1>2. Len(u) \in Nat /\ \A n \in 1 .. Len(u) : u[n] \in Byte OBVIOUS
<1>3. 0 \in T
  BY <1>1, KeptCount
<1>4. ASSUME NEW n \in 0 .. Len(u) - 1, n \in T PROVE n + 1 \in T
  <2>1. Good(n) BY <1>2, <1>4
  <2>2. n + 1 \in 1 .. Len(u) /\ (n + 1) - 1 = n /\ n \in 0 .. Len(u) BY <1>2
  <2>3. PICK w \in Seq(Byte) : w = K[n] BY <2>2
  <2>4. K[n + 1] = IF IsPayload(u[n + 1]) THEN Append(w, u[n + 1]) ELSE w
    BY <1>1, <2>2, <2>3
  <2>5. CASE ~IsPayload(u[n + 1])
    <3>1. n \in Nat BY <1>2
    <3>2. KeptIn(u, n + 1) = KeptIn(u, n) BY <3>1, <2>5, KeptCount
    <3>3. K[n + 1] = K[n] BY <2>3, <2>4, <2>5
    <3> QED BY <3>1, <3>2, <3>3, <2>1
  <2>6. CASE IsPayload(u[n + 1])
    <3>1. /\ KeptIn(u, n + 1) = KeptIn(u, n) \cup {n + 1}
          /\ Cardinality(KeptIn(u, n + 1)) = Cardinality(KeptIn(u, n)) + 1
      BY <2>6, KeptCount
    <3>2. u[n + 1] \in Byte BY <1>2, <2>2
    <3>3. PICK v : v = Append(w, u[n + 1]) OBVIOUS
    <3>4. /\ Len(v) = Len(w) + 1 /\ v[Len(w) + 1] = u[n + 1]
          /\ \A j \in 1 .. Len(w) : v[j] = w[j]
      BY <3>2, <3>3, AppendProperties
    <3>5. K[n + 1] = v BY <2>4, <2>6, <3>3
    <3>6. Len(w) = Cardinality(KeptIn(u, n)) BY <2>1, <2>3
    <3>7. ASSUME NEW m \in KeptIn(u, n) PROVE v[Cardinality(KeptIn(u, m))] = u[m]
      <4>1. w[Cardinality(KeptIn(u, m))] = u[m] BY <2>1, <2>3
      <4>2. m \in 1 .. n /\ m \in KeptIn(u, m) /\ KeptIn(u, m) \subseteq KeptIn(u, n)
        BY <3>7 DEF KeptIn
      <4>3. IsFiniteSet(KeptIn(u, n)) /\ IsFiniteSet(KeptIn(u, m)) BY <4>2, KeptCount
      <4>4. Cardinality(KeptIn(u, m)) <= Cardinality(KeptIn(u, n))
        BY <4>2, <4>3, FS_Subset
      <4>5. Cardinality(KeptIn(u, m)) \in Nat /\ Cardinality(KeptIn(u, m)) # 0
        BY <4>2, <4>3, FS_CardinalityType, FS_EmptySet
      <4>6. Cardinality(KeptIn(u, m)) \in 1 .. Len(w) BY <4>4, <4>5, <3>6
      <4> QED BY <4>1, <4>6, <3>4
    <3>8. v[Cardinality(KeptIn(u, n + 1))] = u[n + 1] BY <3>1, <3>4, <3>6
    <3>9. \A m \in KeptIn(u, n + 1) : v[Cardinality(KeptIn(u, m))] = u[m]
      BY <3>1, <3>7, <3>8
    <3>10. Len(v) = Cardinality(KeptIn(u, n + 1)) BY <3>1, <3>4, <3>6
    <3> QED BY <3>5, <3>9, <3>10
  <2> QED BY <2>5, <2>6
<1> HIDE DEF T
<1>5. \A n \in 0 .. Len(u) : n \in T BY <1>2, <1>3, <1>4, BoundedInduction
<1>6. Good(Len(u)) BY <1>2, <1>5 DEF T
<1>7. {m \in 1 .. Len(u) : u[m] \notin {"nul", "cr"}} = KeptIn(u, Len(u))
  BY DEF KeptIn, IsPayload
<1>8. \A m \in KeptIn(u, Len(u)) : KeptIn(u, Len(u)) \cap (1 .. m) = KeptIn(u, m)
  BY DEF KeptIn
<1> QED BY <1>1, <1>6, <1>7, <1>8 DEF IsPayloadOf

\* extractCommand yields the payload of the first MaxPayload bytes of the line:
\* the CR it drops is no payload.
LEMMA ExtractedIsPayload ==
    ASSUME NEW s \in Seq(Byte), \A m \in 1 .. Len(s) : s[m] # "lf"
    PROVE  IsPayloadOf(Extracted(s), Cut(s))
<1> DEFINE body == IF s # <<>> /\ s[Len(s)] = "cr" THEN SubSeq(s, 1, Len(s) - 1) ELSE s
<1>1. Len(s) \in Nat /\ MaxPayload \in Nat BY ReadAssumption
<1>2. Extracted(s) = Stripped(Cut(body)) BY DEF Extracted
<1>3. ASSUME NEW t \in Seq(Byte), \A m \in 1 .. Len(t) : t[m] # "lf"
      PROVE  Cut(t) \in Seq(Byte) /\ IsPayloadOf(Stripped(Cut(t)), Cut(t))
  <2>1. /\ Cut(t) \in Seq(Byte)
        /\ \A m \in 1 .. Len(Cut(t)) : Cut(t)[m] # "lf"
    <3>1. CASE Len(t) > MaxPayload
      <4>1. /\ SubSeq(t, 1, MaxPayload) \in Seq(Byte)
            /\ Len(SubSeq(t, 1, MaxPayload)) = MaxPayload
            /\ \A m \in 1 .. MaxPayload : SubSeq(t, 1, MaxPayload)[m] = t[m]
        BY <1>1, <3>1
      <4> QED BY <4>1, <3>1, <1>3, <1>1 DEF Cut
    <3>2. CASE ~(Len(t) > MaxPayload) BY <3>2, <1>3 DEF Cut
    <3> QED BY <3>1, <3>2
  <2> QED BY <2>1, StrippedIsPayload
<1>4. CASE body = s BY <1>2, <1>3, <1>4
<1>5. CASE body # s
  <2>1. s # <<>> /\ s[Len(s)] = "cr" /\ Len(s) # 0 BY <1>5
  <2>2. /\ body = SubSeq(s, 1, Len(s) - 1)
        /\ body \in Seq(Byte) /\ Len(body) = Len(s) - 1
        /\ \A m \in 1 .. Len(body) : body[m] = s[m]
    <3>1. body = SubSeq(s, 1, Len(s) - 1) BY <2>1
    <3> HIDE DEF body
    <3>2. Len(s) - 1 \in 0 .. Len(s) BY <1>1, <2>1
    <3> QED BY <3>1, <3>2, PrefixBytes
  <2> HIDE DEF body
  <2>3. \A m \in 1 .. Len(body) : body[m] # "lf" BY <1>1, <2>1, <2>2
  <2>4. IsPayloadOf(Stripped(Cut(body)), Cut(body)) BY <1>3, <2>2, <2>3
  <2>5. CASE Len(s) > MaxPayload
    <3>1. Cut(body) = Cut(s)
      <4>1. CASE Len(body) > MaxPayload
        <5>1. SubSeq(body, 1, MaxPayload) = SubSeq(s, 1, MaxPayload)
          BY <1>1, <2>2, <4>1
        <5> QED BY <5>1, <2>5, <4>1 DEF Cut
      <4>2. CASE ~(Len(body) > MaxPayload)
        <5>1. Len(s) - 1 = MaxPayload BY <1>1, <2>2, <2>5, <4>2
        <5> QED BY <5>1, <2>2, <2>5, <4>2 DEF Cut
      <4> QED BY <4>1, <4>2
    <3> QED BY <1>2, <2>4, <3>1 DEF body
  <2>6. CASE ~(Len(s) > MaxPayload)
    <3>1. Cut(body) = body /\ Cut(s) = s BY <1>1, <2>2, <2>6 DEF Cut
    <3>2. {m \in 1 .. Len(body) : body[m] \notin {"nul", "cr"}}
            = {m \in 1 .. Len(s) : s[m] \notin {"nul", "cr"}}
      BY <1>1, <2>1, <2>2
    <3>3. \A m \in {n \in 1 .. Len(s) : s[n] \notin {"nul", "cr"}} : body[m] = s[m]
      BY <1>1, <2>1, <2>2
    <3>4. IsPayloadOf(Stripped(Cut(body)), s)
      BY <2>4, <3>1, <3>2, <3>3 DEF IsPayloadOf
    <3> QED BY <1>2, <3>1, <3>4 DEF body
  <2> QED BY <2>5, <2>6
<1> QED BY <1>4, <1>5

-----------------------------------------------------------------------------
(* Where the lines of a stream are.                                        *)

\* q is the last line feed before p, or 0.
LastFeed(s, p, q) ==
    /\ q \in 0 .. p - 1
    /\ q = 0 \/ s[q] = "lf"
    /\ \A m \in q + 1 .. p - 1 : s[m] # "lf"

LEMMA LineStartIs ==
    ASSUME NEW s, NEW p \in Nat \ {0}, NEW q, LastFeed(s, p, q)
    PROVE  LineStart(s, p) = q + 1
<1> DEFINE r == CHOOSE x \in 0 .. p - 1 :
                    /\ x = 0 \/ s[x] = "lf"
                    /\ \A m \in x + 1 .. p - 1 : s[m] # "lf"
<1>1. LastFeed(s, p, r) BY DEF LastFeed
<1>2. LineStart(s, p) = 1 + r BY DEF LineStart
<1> HIDE DEF r
<1>3. ~(r < q)
  <2> SUFFICES ASSUME r < q PROVE FALSE OBVIOUS
  <2>1. q \in r + 1 .. p - 1 /\ q # 0 BY <1>1 DEF LastFeed
  <2> QED BY <2>1, <1>1 DEF LastFeed
<1>4. ~(q < r)
  <2> SUFFICES ASSUME q < r PROVE FALSE OBVIOUS
  <2>1. r \in q + 1 .. p - 1 /\ r # 0 BY <1>1 DEF LastFeed
  <2> QED BY <2>1, <1>1 DEF LastFeed
<1> QED BY <1>1, <1>2, <1>3, <1>4 DEF LastFeed

LEMMA LastFeedExists ==
    ASSUME NEW s, NEW p \in Nat \ {0}
    PROVE  \E q : LastFeed(s, p, q)
<1> DEFINE T == {d \in 0 .. p - 1 : p - 1 - d = 0 \/ s[p - 1 - d] = "lf"}
<1>1. p - 1 \in T OBVIOUS
<1>2. T \in SUBSET Nat OBVIOUS
<1>3. PICK d \in T : \A m \in T : d <= m BY <1>1, <1>2, LeastNatural
<1>4. ASSUME NEW m \in (p - 1 - d) + 1 .. p - 1 PROVE s[m] # "lf"
  <2>1. p - 1 - m \in 0 .. p - 1 /\ p - 1 - (p - 1 - m) = m /\ p - 1 - m < d
    BY <1>3, <1>4
  <2>2. p - 1 - m \notin T BY <2>1, <1>3
  <2> QED BY <2>1, <2>2
<1>5. LastFeed(s, p, p - 1 - d) BY <1>3, <1>4 DEF LastFeed
<1> QED BY <1>5

\* What is said of the lines that a stream has does not change when it grows.
LEMMA LinesStay ==
    ASSUME NEW s \in Seq(Byte), NEW t \in Seq(Byte), Len(s) <= Len(t),
           \A m \in 1 .. Len(s) : t[m] = s[m],
           NEW p \in 0 .. Len(s)
    PROVE  /\ LineFeeds(t, p) = LineFeeds(s, p)
           /\ p # 0 => ReferenceBytes(t, p) = ReferenceBytes(s, p)
<1>1. Len(s) \in Nat /\ Len(t) \in Nat /\ MaxPayload \in Nat BY ReadAssumption
<1>2. \A m \in 1 .. p : t[m] = s[m] BY <1>1
<1>3. LineFeeds(t, p) = LineFeeds(s, p) BY <1>2 DEF LineFeeds
<1>4. ASSUME p # 0 PROVE ReferenceBytes(t, p) = ReferenceBytes(s, p)
  <2>1. p \in Nat \ {0} BY <1>4, <1>1
  <2>2. PICK q : LastFeed(s, p, q) BY <2>1, LastFeedExists
  <2>3. q \in 0 .. p - 1 BY <2>2 DEF LastFeed
  <2>4. LastFeed(t, p, q)
    <3>1. q = 0 \/ t[q] = "lf"
      <4>1. q # 0 => q \in 1 .. p BY <2>1, <2>3
      <4> QED BY <4>1, <1>2, <2>2 DEF LastFeed
    <3>2. ASSUME NEW m \in q + 1 .. p - 1 PROVE t[m] # "lf"
      <4>1. m \in 1 .. p BY <2>1, <2>3
      <4> QED BY <4>1, <1>2, <2>2 DEF LastFeed
    <3> QED BY <2>3, <3>1, <3>2 DEF LastFeed
  <2>5. LineStart(s, p) = q + 1 /\ LineStart(t, p) = q + 1
    BY <2>1, <2>2, <2>4, LineStartIs
  <2> DEFINE to == IF p - (q + 1) > MaxPayload THEN (q + 1) + MaxPayload - 1 ELSE p - 1
  <2>6. to \in q .. p - 1 BY <2>1, <2>3, <1>1
  <2>7. ReferenceBytes(s, p) = SubSeq(s, q + 1, to) /\ ReferenceBytes(t, p) = SubSeq(t, q + 1, to)
    BY <2>5 DEF ReferenceBytes
  <2> HIDE DEF to
  <2>8. SubSeq(s, q + 1, to) = SubSeq(t, q + 1, to)
    <3>1. \A m \in q + 1 .. to : t[m] = s[m]
      <4> TAKE m \in q + 1 .. to
      <4>1. m \in 1 .. p BY <2>1, <2>3, <2>6
      <4> QED BY <4>1, <1>2
    <3>2. q + 1 >= 1 /\ to <= Len(s) /\ to <= Len(t) /\ q \in Nat /\ to \in Nat
      BY <2>1, <2>3, <2>6, <1>1
    <3> QED BY <3>1, <3>2
  <2> QED BY <2>7, <2>8
<1> QED BY <1>3, <1>4

LEMMA LineFeedCount ==
    ASSUME NEW s, NEW n \in Nat
    PROVE  /\ IsFiniteSet(LineFeeds(s, n)) /\ Cardinality(LineFeeds(s, n)) \in Nat
           /\ \A p \in LineFeeds(s, n) :
                 LineFeeds(s, p) \subseteq LineFeeds(s, n)
                 /\ Cardinality(LineFeeds(s, p)) \in 1 .. Cardinality(LineFeeds(s, n))
<1>1. \A k \in Nat : IsFiniteSet(LineFeeds(s, k)) /\ Cardinality(LineFeeds(s, k)) \in Nat
  <2> TAKE k \in Nat
  <2>1. IsFiniteSet(1 .. k) BY FS_Interval
  <2>2. IsFiniteSet(LineFeeds(s, k)) BY <2>1, FS_Subset DEF LineFeeds
  <2> QED BY <2>2, FS_CardinalityType
<1>2. ASSUME NEW p \in LineFeeds(s, n)
      PROVE  LineFeeds(s, p) \subseteq LineFeeds(s, n)
             /\ Cardinality(LineFeeds(s, p)) \in 1 .. Cardinality(LineFeeds(s, n))
  <2>1. p \in Nat /\ p \in LineFeeds(s, p) /\ LineFeeds(s, p) \subseteq LineFeeds(s, n)
    BY DEF LineFeeds
  <2>2. Cardinality(LineFeeds(s, p)) <= Cardinality(LineFeeds(s, n))
    BY <2>1, <1>1, FS_Subset
  <2>3. Cardinality(LineFeeds(s, p)) # 0 BY <2>1, <1>1, FS_EmptySet
  <2>4. Cardinality(LineFeeds(s, p)) \in Nat /\ Cardinality(LineFeeds(s, n)) \in Nat
    BY <2>1, <1>1
  <2> QED BY <2>1, <2>2, <2>3, <2>4
<1> QED BY <1>1, <1>2

-----------------------------------------------------------------------------
(* The stream, the buffer and the lines.                                   *)

\* How many bytes of the stream have been taken out of the buffer.
Done == Len(stream) - Len(buf)

\* The buffer is the end of the stream.
BufferIsTail ==
    /\ stream \in Seq(Byte)
    /\ Done \in 0 .. Len(stream)
    /\ \A m \in 1 .. Len(buf) : buf[m] = stream[Done + m]
    /\ Done = 0 \/ stream[Done] = "lf"

\* The lines executed are those of the rest, one by one.
LinesAreThose ==
    /\ Len(lines) = Cardinality(LineFeeds(stream, Done))
    /\ \A p \in LineFeeds(stream, Done) :
          IsPayloadOf(lines[Cardinality(LineFeeds(stream, p))], ReferenceBytes(stream, p))

FloodIsUnfinished == marked = "flood" => Len(buf) > MaxBuffer /\ ~HasLine(buf)

SInv == IInv /\ BufferIsTail /\ LinesAreThose /\ FloodIsUnfinished

LEMMA InitSInv == Init => SInv
<1> SUFFICES ASSUME Init PROVE SInv OBVIOUS
<1>1. <<>> \in Seq(Byte) /\ Len(<<>>) = 0 BY EmptySeq
<1>2. Done = 0 /\ LineFeeds(stream, Done) = {} BY <1>1 DEF Init, Done, LineFeeds
<1>3. BufferIsTail BY <1>1, <1>2 DEF Init, BufferIsTail
<1>4. LinesAreThose BY <1>1, <1>2, FS_EmptySet DEF Init, LinesAreThose
<1>5. FloodIsUnfinished BY DEF Init, FloodIsUnfinished
<1> QED BY <1>3, <1>4, <1>5, InitIInv DEF SInv

LEMMA RecvStream == SInv /\ Recv => SInv'
<1> SUFFICES ASSUME SInv, Recv PROVE SInv' OBVIOUS
<1>1. PICK data \in Chunks : stream' = stream \o data /\ buf' = buf \o data
  BY DEF Recv
<1>2. data \in Seq(Byte)
  <2>1. PICK n \in 1 .. Chunk : data \in [1 .. n -> Byte] BY DEF Chunks
  <2> QED BY <2>1, ReadAssumption
<1>3. buf \in Seq(Byte) /\ stream \in Seq(Byte) BY DEF SInv, IInv, Typed, BufferIsTail
<1>4. Len(data) \in Nat /\ Len(buf) \in Nat /\ Len(stream) \in Nat BY <1>2, <1>3
<1>5. /\ stream' \in Seq(Byte)
      /\ Len(stream') = Len(stream) + Len(data)
      /\ \A m \in 1 .. Len(stream') :
            stream'[m] = IF m <= Len(stream) THEN stream[m] ELSE data[m - Len(stream)]
  BY <1>1, <1>2, <1>3, ConcatProperties
<1>6. /\ Len(buf') = Len(buf) + Len(data)
      /\ \A m \in 1 .. Len(buf') :
            buf'[m] = IF m <= Len(buf) THEN buf[m] ELSE data[m - Len(buf)]
  BY <1>1, <1>2, <1>3, ConcatProperties
<1>7. Done' = Done /\ Done \in 0 .. Len(stream)
  BY <1>4, <1>5, <1>6 DEF Done, SInv, BufferIsTail
<1>8. \A m \in 1 .. Len(stream) : stream'[m] = stream[m] BY <1>4, <1>5
<1>9. BufferIsTail'
  <2>1. ASSUME NEW m \in 1 .. Len(buf') PROVE buf'[m] = stream'[Done' + m]
    <3>1. Done + Len(buf) = Len(stream) BY <1>4 DEF Done
    <3>2. Done + m \in 1 .. Len(stream') BY <1>4, <1>5, <1>6, <1>7, <3>1, <2>1
    <3>3. CASE m <= Len(buf)
      <4>1. m \in 1 .. Len(buf) /\ Done + m <= Len(stream) BY <1>4, <1>7, <3>1, <3>3, <2>1
      <4>2. buf[m] = stream[Done + m] BY <4>1 DEF SInv, BufferIsTail
      <4>3. buf'[m] = buf[m] BY <1>6, <3>3
      <4>4. stream'[Done + m] = stream[Done + m] BY <1>5, <3>2, <4>1
      <4> QED BY <4>2, <4>3, <4>4, <1>7
    <3>4. CASE ~(m <= Len(buf))
      <4>1. ~(Done + m <= Len(stream)) /\ (Done + m) - Len(stream) = m - Len(buf)
        BY <1>4, <1>7, <3>1, <3>4, <2>1
      <4>2. buf'[m] = data[m - Len(buf)] BY <1>6, <3>4
      <4>3. stream'[Done + m] = data[(Done + m) - Len(stream)] BY <1>5, <3>2, <4>1
      <4> QED BY <4>1, <4>2, <4>3, <1>7
    <3> QED BY <3>3, <3>4
  <2>2. Done' = 0 \/ stream'[Done'] = "lf"
    <3>1. Done # 0 => Done \in 1 .. Len(stream) BY <1>4, <1>7
    <3> QED BY <3>1, <1>7, <1>8 DEF SInv, BufferIsTail
  <2>3. Done' \in 0 .. Len(stream') BY <1>4, <1>5, <1>7
  <2> QED BY <1>5, <2>1, <2>2, <2>3 DEF BufferIsTail
<1>10. LinesAreThose'
  <2>1. Len(stream) <= Len(stream') BY <1>4, <1>5
  <2>2. PICK t \in Seq(Byte) : t = stream' BY <1>5
  <2>3. \A p \in 0 .. Len(stream) :
           /\ LineFeeds(t, p) = LineFeeds(stream, p)
           /\ p # 0 => ReferenceBytes(t, p) = ReferenceBytes(stream, p)
    BY <2>1, <2>2, <1>3, <1>8, LinesStay
  <2>4. LineFeeds(t, Done) = LineFeeds(stream, Done) BY <2>3, <1>7
  <2>5. UNCHANGED lines BY DEF Recv
  <2>6. \A p \in LineFeeds(stream, Done) :
           IsPayloadOf(lines[Cardinality(LineFeeds(t, p))], ReferenceBytes(t, p))
    <3> TAKE p \in LineFeeds(stream, Done)
    <3>1. p \in 0 .. Len(stream) /\ p # 0 BY <1>4, <1>7 DEF LineFeeds
    <3> QED BY <3>1, <2>3 DEF SInv, LinesAreThose
  <2>7. Len(lines) = Cardinality(LineFeeds(t, Done)) BY <2>4 DEF SInv, LinesAreThose
  <2> QED BY <2>2, <2>4, <2>5, <2>6, <2>7, <1>7 DEF LinesAreThose
<1>11. FloodIsUnfinished'
  <2>1. marked = "no" /\ (TooLong(buf') \/ marked' = marked) BY DEF Recv
  <2> QED BY <2>1 DEF FloodIsUnfinished, TooLong
<1> QED BY <1>9, <1>10, <1>11, RecvStep DEF SInv

LEMMA HandleLineStream == SInv /\ HandleLine => SInv'
<1> SUFFICES ASSUME SInv, HandleLine PROVE SInv' OBVIOUS
<1>1. PICK p \in 1 .. Len(buf) :
          /\ buf[p] = "lf" /\ ~HasLine(SubSeq(buf, 1, p - 1))
          /\ lines' = Append(lines, Extracted(SubSeq(buf, 1, p - 1)))
          /\ buf' = SubSeq(buf, p + 1, Len(buf))
  BY DEF HandleLine
<1>2. stream' = stream /\ marked = "no" /\ marked' \in {"no", "quit", "other"}
  BY DEF HandleLine, MayDrain
<1>3. buf \in Seq(Byte) /\ stream \in Seq(Byte) BY DEF SInv, IInv, Typed, BufferIsTail
<1>4. Len(buf) \in Nat /\ Len(stream) \in Nat BY <1>3
<1>5. Done \in Nat /\ Done + Len(buf) = Len(stream) BY <1>4 DEF Done, SInv, BufferIsTail
<1>6. PICK q \in 1 .. Len(stream) : q = Done + p BY <1>4, <1>5
<1>7. Len(buf') = Len(buf) - p BY <1>1, <1>3, RestBytes
<1>8. Done' = q BY <1>2, <1>4, <1>6, <1>7 DEF Done
<1>9. \A m \in 1 .. Len(buf) : buf[m] = stream[Done + m] BY DEF SInv, BufferIsTail
<1>10. stream[q] = "lf" BY <1>1, <1>6, <1>9
<1>11. PICK s \in Seq(Byte) : /\ s = SubSeq(buf, 1, p - 1)
                              /\ Len(s) = p - 1
                              /\ \A m \in 1 .. p - 1 : s[m] = buf[m]
  <2>1. p - 1 \in 0 .. Len(buf) BY <1>4
  <2> QED BY <2>1, <1>3, PrefixBytes
<1>12. \A m \in 1 .. p - 1 : s[m] # "lf" BY <1>1, <1>11 DEF HasLine
<1>13. \A m \in Done + 1 .. q - 1 : stream[m] # "lf"
  <2> TAKE m \in Done + 1 .. q - 1
  <2>1. m - Done \in 1 .. p - 1 /\ m - Done \in 1 .. Len(buf) /\ Done + (m - Done) = m
    BY <1>4, <1>5, <1>6
  <2>2. stream[m] = buf[m - Done] BY <2>1, <1>9
  <2> QED BY <2>1, <2>2, <1>11, <1>12
<1>14. LastFeed(stream, q, Done)
  BY <1>5, <1>6, <1>13 DEF LastFeed, SInv, BufferIsTail
<1>15. BufferIsTail'
  <2>1. \A m \in 1 .. Len(buf) - p : SubSeq(buf, p + 1, Len(buf))[m] = buf[p + m]
    BY <1>1, <1>3, <1>4
  <2>2. \A m \in 1 .. Len(buf') : buf'[m] = stream'[Done' + m]
    <3> TAKE m \in 1 .. Len(buf')
    <3>1. m \in 1 .. Len(buf) - p /\ p + m \in 1 .. Len(buf) /\ Done + (p + m) = q + m
      BY <1>4, <1>5, <1>6, <1>7
    <3>2. buf'[m] = buf[p + m] BY <2>1, <3>1, <1>1
    <3>3. buf[p + m] = stream[Done + (p + m)] BY <3>1, <1>9
    <3> QED BY <3>1, <3>2, <3>3, <1>2, <1>8
  <2>3. Done' \in 0 .. Len(stream') BY <1>2, <1>6, <1>8
  <2> QED BY <2>2, <2>3, <1>2, <1>3, <1>8, <1>10 DEF BufferIsTail
<1>16. LineFeeds(stream, q) = LineFeeds(stream, Done) \cup {q}
       /\ q \notin LineFeeds(stream, Done)
  <2>1. \A m \in 1 .. q : m \in 1 .. Done \/ m \in Done + 1 .. q - 1 \/ m = q
    BY <1>5, <1>6
  <2>2. q \in 1 .. q /\ 1 .. Done \subseteq 1 .. q /\ ~(q \in 1 .. Done) BY <1>1, <1>5, <1>6
  <2> QED BY <2>1, <2>2, <1>10, <1>13 DEF LineFeeds
<1>17. Cardinality(LineFeeds(stream, q)) = Len(lines) + 1
  <2>1. IsFiniteSet(LineFeeds(stream, Done)) BY <1>5, LineFeedCount
  <2>2. Cardinality(LineFeeds(stream, Done) \cup {q})
          = Cardinality(LineFeeds(stream, Done)) + 1
    BY <2>1, <1>16, FS_AddElement
  <2> QED BY <2>2, <1>16 DEF SInv, LinesAreThose
<1>18. ReferenceBytes(stream, q) = Cut(s)
  <2>1. q \in Nat \ {0} BY <1>6
  <2>2. LineStart(stream, q) = Done + 1 BY <2>1, <1>14, LineStartIs
  <2>3. \A n \in 0 .. p - 1 : SubSeq(stream, Done + 1, Done + n) = SubSeq(s, 1, n)
    <3> TAKE n \in 0 .. p - 1
    <3>1. \A m \in 1 .. n : s[m] = stream[Done + m]
      <4> TAKE m \in 1 .. n
      <4>1. m \in 1 .. p - 1 /\ m \in 1 .. Len(buf) BY <1>4
      <4> QED BY <4>1, <1>9, <1>11
    <3>2. Done + n <= Len(stream) /\ n <= Len(s) BY <1>4, <1>5, <1>11
    <3>3. /\ Len(SubSeq(stream, Done + 1, Done + n)) = n
          /\ \A m \in 1 .. n : SubSeq(stream, Done + 1, Done + n)[m] = stream[Done + m]
          /\ SubSeq(stream, Done + 1, Done + n) \in Seq(Byte)
      BY <3>2, <1>3, <1>4, <1>5
    <3>4. /\ Len(SubSeq(s, 1, n)) = n
          /\ \A m \in 1 .. n : SubSeq(s, 1, n)[m] = s[m]
          /\ SubSeq(s, 1, n) \in Seq(Byte)
      BY <3>2, <1>11
    <3> QED BY <3>1, <3>3, <3>4
  <2>4. q - (Done + 1) = p - 1 /\ (Done + 1) + MaxPayload - 1 = Done + MaxPayload
        /\ q - 1 = Done + (p - 1)
    BY <1>5, <1>6, ReadAssumption
  <2>5. CASE p - 1 > MaxPayload
    <3>1. MaxPayload \in 0 .. p - 1 BY <2>5, ReadAssumption
    <3>2. ReferenceBytes(stream, q) = SubSeq(stream, Done + 1, Done + MaxPayload)
      BY <2>2, <2>4, <2>5 DEF ReferenceBytes
    <3> QED BY <3>1, <3>2, <2>3, <2>5, <1>11 DEF Cut
  <2>6. CASE ~(p - 1 > MaxPayload)
    <3>1. ReferenceBytes(stream, q) = SubSeq(stream, Done + 1, Done + (p - 1))
      BY <2>2, <2>4, <2>6 DEF ReferenceBytes
    <3>2. p - 1 \in 0 .. p - 1 /\ SubSeq(s, 1, p - 1) = s BY <1>4, <1>11
    <3> QED BY <3>1, <3>2, <2>3, <2>6, <1>11 DEF Cut
  <2> QED BY <2>5, <2>6
<1>19. IsPayloadOf(Extracted(s), ReferenceBytes(stream, q))
  BY <1>11, <1>12, <1>18, ExtractedIsPayload
<1>20. /\ Len(lines) \in Nat
       /\ Len(lines') = Len(lines) + 1
       /\ lines'[Len(lines) + 1] = Extracted(s)
       /\ \A n \in 1 .. Len(lines) : lines'[n] = lines[n]
  <2>1. Extracted(s) \in Extractable BY DEF Extractable
  <2>2. lines' = Append(lines, Extracted(s)) BY <1>1, <1>11
  <2>3. lines \in Seq(Extractable) BY DEF SInv, IInv, Typed
  <2> QED BY <2>1, <2>2, <2>3, AppendProperties
<1>21. LinesAreThose'
  <2>1. ASSUME NEW r \in LineFeeds(stream, Done)
        PROVE  IsPayloadOf(lines'[Cardinality(LineFeeds(stream, r))], ReferenceBytes(stream, r))
    <3>1. Cardinality(LineFeeds(stream, r)) \in 1 .. Cardinality(LineFeeds(stream, Done))
      BY <1>5, <2>1, LineFeedCount
    <3>2. Cardinality(LineFeeds(stream, r)) \in 1 .. Len(lines)
      BY <3>1 DEF SInv, LinesAreThose
    <3> QED BY <3>2, <1>20 DEF SInv, LinesAreThose
  <2>2. IsPayloadOf(lines'[Cardinality(LineFeeds(stream, q))], ReferenceBytes(stream, q))
    BY <1>17, <1>19, <1>20
  <2>3. \A r \in LineFeeds(stream, q) :
           IsPayloadOf(lines'[Cardinality(LineFeeds(stream, r))], ReferenceBytes(stream, r))
    BY <2>1, <2>2, <1>16
  <2> QED BY <2>3, <1>2, <1>8, <1>17, <1>20 DEF LinesAreThose
<1>22. FloodIsUnfinished' BY <1>2 DEF FloodIsUnfinished
<1> QED BY <1>15, <1>21, <1>22, HandleLineStep DEF SInv

LEMMA NextSInv == SInv /\ [Next]_vars => SInv'
<1> SUFFICES ASSUME SInv, [Next]_vars PROVE SInv' OBVIOUS
<1>1. CASE Recv BY <1>1, RecvStream
<1>2. CASE HandleLine BY <1>2, HandleLineStream
<1>3. CASE Stop \/ PeerCloses \/ MarkedElsewhere \/ Dropped \/ UNCHANGED vars
  <2>1. UNCHANGED <<stream, buf, lines>> /\ (marked' = marked \/ marked' \in {"closed", "other"})
    BY <1>3 DEF Stop, PeerCloses, MarkedElsewhere, Dropped, vars
  <2>2. IInv' BY NextIInv DEF SInv
  <2> QED BY <2>1, <2>2 DEF SInv, BufferIsTail, Done, LinesAreThose, FloodIsUnfinished
<1> QED BY <1>1, <1>2, <1>3 DEF Next

LEMMA StreamInvariance == Spec => []SInv
BY InitSInv, NextSInv, PTL DEF Spec

\* When no complete line is left, what the buffer holds is the unfinished line.
LEMMA RestIsUnfinished == SInv /\ ~HasLine(buf) =>
    /\ buf = Unfinished(stream)
    /\ LineFeeds(stream, Len(stream)) = LineFeeds(stream, Done)
<1> SUFFICES ASSUME SInv, ~HasLine(buf)
             PROVE  /\ buf = Unfinished(stream)
                    /\ LineFeeds(stream, Len(stream)) = LineFeeds(stream, Done)
  OBVIOUS
<1>1. buf \in Seq(Byte) /\ stream \in Seq(Byte) BY DEF SInv, IInv, Typed, BufferIsTail
<1>2. Len(buf) \in Nat /\ Len(stream) \in Nat BY <1>1
<1>3. Done \in Nat /\ Done + Len(buf) = Len(stream) BY <1>2 DEF Done, SInv, BufferIsTail
<1>4. \A m \in 1 .. Len(buf) : buf[m] = stream[Done + m] BY DEF SInv, BufferIsTail
<1>5. \A m \in Done + 1 .. Len(stream) : stream[m] # "lf"
  <2> TAKE m \in Done + 1 .. Len(stream)
  <2>1. m - Done \in 1 .. Len(buf) /\ Done + (m - Done) = m BY <1>2, <1>3
  <2> QED BY <2>1, <1>4 DEF HasLine
<1>6. LastFeed(stream, Len(stream) + 1, Done)
  BY <1>2, <1>3, <1>5 DEF LastFeed, SInv, BufferIsTail
<1>7. LineStart(stream, Len(stream) + 1) = Done + 1
  <2>1. Len(stream) + 1 \in Nat \ {0} BY <1>2
  <2> QED BY <2>1, <1>6, LineStartIs
<1>8. buf = SubSeq(stream, Done + 1, Len(stream))
  <2>1. /\ Len(SubSeq(stream, Done + 1, Len(stream))) = Len(buf)
        /\ \A m \in 1 .. Len(buf) : SubSeq(stream, Done + 1, Len(stream))[m] = stream[Done + m]
        /\ SubSeq(stream, Done + 1, Len(stream)) \in Seq(Byte)
    BY <1>1, <1>2, <1>3
  <2>2. PICK t \in Seq(Byte) : t = SubSeq(stream, Done + 1, Len(stream)) BY <2>1
  <2>3. Len(t) = Len(buf) /\ \A m \in 1 .. Len(buf) : t[m] = buf[m] BY <2>1, <2>2, <1>4
  <2>4. t = buf BY <2>3, <1>1
  <2> QED BY <2>2, <2>4
<1>9. LineFeeds(stream, Len(stream)) = LineFeeds(stream, Done)
  <2>1. \A m \in 1 .. Len(stream) : m \in 1 .. Done \/ m \in Done + 1 .. Len(stream)
    BY <1>2, <1>3
  <2>2. 1 .. Done \subseteq 1 .. Len(stream) BY <1>2, <1>3
  <2> QED BY <2>1, <2>2, <1>5 DEF LineFeeds
<1> QED BY <1>7, <1>8, <1>9 DEF Unfinished

\* What is executed depends on the bytes a client sends and not on how TCP cuts
\* them: every line is executed once, in order, with the payload of its first
\* MAX_PAYLOAD_LEN bytes, and between two packets nothing is lost or left waiting
\* (appendToReadBuffer, extractCommand and the loop of handleReadable).
THEOREM PacketsDoNotMatter == Spec => []CutsDoNotMatter
<1>1. SInv => CutsDoNotMatter
  <2> SUFFICES ASSUME SInv PROVE CutsDoNotMatter OBVIOUS
  <2>1. Len(stream) \in Nat /\ Done \in Nat /\ Done <= Len(stream)
    BY DEF SInv, BufferIsTail
  <2>2. ASSUME NEW p \in LineFeeds(stream, Len(stream)),
               Cardinality(LineFeeds(stream, p)) <= Len(lines)
        PROVE  IsPayloadOf(lines[Cardinality(LineFeeds(stream, p))], ReferenceBytes(stream, p))
    <3>1. CASE p \in LineFeeds(stream, Done) BY <3>1 DEF SInv, LinesAreThose
    <3>2. CASE p \notin LineFeeds(stream, Done)
      <4>1. /\ p \in Nat
            /\ LineFeeds(stream, Done) \subseteq LineFeeds(stream, p)
            /\ p \in LineFeeds(stream, p)
        BY <2>1, <3>2 DEF LineFeeds
      <4>2. IsFiniteSet(LineFeeds(stream, p)) /\ IsFiniteSet(LineFeeds(stream, Done))
            /\ Cardinality(LineFeeds(stream, p)) \in Nat
            /\ Cardinality(LineFeeds(stream, Done)) \in Nat
        BY <2>1, <4>1, LineFeedCount
      <4>3. Cardinality(LineFeeds(stream, Done)) < Cardinality(LineFeeds(stream, p))
        <5>1. LineFeeds(stream, Done) # LineFeeds(stream, p) BY <4>1, <3>2
        <5> QED BY <4>1, <4>2, <5>1, FS_Subset
      <4>4. Len(lines) = Cardinality(LineFeeds(stream, Done)) BY DEF SInv, LinesAreThose
      <4> QED BY <2>2, <4>2, <4>3, <4>4
    <3> QED BY <3>1, <3>2
  <2>3. ASSUME ~draining, marked = "no"
        PROVE  /\ Len(lines) = Cardinality(LineFeeds(stream, Len(stream)))
               /\ buf = Unfinished(stream)
    <3>1. ~HasLine(buf) BY <2>3 DEF SInv, IInv, BufferIsCapped
    <3> QED BY <3>1, RestIsUnfinished DEF SInv, LinesAreThose
  <2> QED BY <2>2, <2>3 DEF CutsDoNotMatter
<1> QED BY <1>1, StreamInvariance, PTL

\* A client is dropped for flooding only when the line it has not finished is
\* longer than MAX_READ_BUFFER, however many finished lines came before it
\* (appendToReadBuffer).
THEOREM FinishedLinesAreNoFlood == Spec => []OnlyFloodsAreCut
<1>1. SInv => OnlyFloodsAreCut
  <2> SUFFICES ASSUME SInv, marked = "flood" PROVE Len(Unfinished(stream)) > MaxBuffer
    BY DEF OnlyFloodsAreCut, SInv, IInv
  <2>1. Len(buf) > MaxBuffer /\ ~HasLine(buf) BY DEF SInv, FloodIsUnfinished
  <2> QED BY <2>1, RestIsUnfinished
<1> QED BY <1>1, StreamInvariance, PTL
=============================================================================
