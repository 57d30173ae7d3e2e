--------------------------- MODULE ModeLineProofs ---------------------------
(***************************************************************************)
(* Theorems about ModeLine, for every set of members, numbers, commands    *)
(* and rooms, for every parser and every measure of texts: announcements   *)
(* and answers are read as what they were written for, except those that   *)
(* the properties themselves except.                                       *)
(***************************************************************************)
EXTENDS ModeLine, SequenceTheorems, Induction

Parameter == UNION {Range(p) : p \in Params}

Text == Parameter \cup Range(Member) \cup DOMAIN Number \cup {Empty}

FlagChar == {"+", "-", "i", "t", "k", "l", "o", "z"}

KeySet == {NoKey} \cup Text

LimitSet == {NoLimit} \cup {Number[w] : w \in {v \in DOMAIN Number : Number[v] > 0}}

Modes == [i : BOOLEAN, t : BOOLEAN, key : KeySet, limit : LimitSet, ops : SUBSET Range(Member)]

Reader == [modes : Modes, add : BOOLEAN, words : Seq(Text)]

-----------------------------------------------------------------------------
(* One flag.                                                               *)

LEMMA AppliedTyped ==
    ASSUME NEW m \in Modes, NEW flag \in {"i", "t", "k", "l", "o"}, NEW add \in BOOLEAN,
           NEW param \in Text,
           Applies(flag, add, param)
    PROVE  Applied(m, flag, add, param) \in Modes
<1>1. CASE flag = "i" BY <1>1 DEF Applied, Modes
<1>2. CASE flag = "t" BY <1>2 DEF Applied, Modes
<1>3. CASE flag = "k" BY <1>3 DEF Applied, Modes, KeySet
<1>4. CASE flag = "l"
  <2>1. Applied(m, flag, add, param)
          = [m EXCEPT !.limit = IF add THEN Number[param] ELSE NoLimit]
    BY <1>4 DEF Applied
  <2>2. (IF add THEN Number[param] ELSE NoLimit)
          \in {NoLimit} \cup {Number[w] : w \in {v \in DOMAIN Number : Number[v] > 0}}
    <3>1. CASE add
      <4>1. param \in DOMAIN Number /\ Number[param] > 0
        BY <1>4, <3>1 DEF Applies
      <4> QED BY <4>1, <3>1
    <3> QED BY <3>1
  <2> QED BY <2>1, <2>2 DEF Modes, LimitSet
<1>5. CASE flag = "o"
  <2>1. Applied(m, flag, add, param)
          = [m EXCEPT !.ops = IF add THEN m.ops \cup {Member[param]}
                                     ELSE m.ops \ {Member[param]}]
    BY <1>5 DEF Applied, Modes
  <2>2. Member[param] \in Range(Member)
    <3>1. param \in DOMAIN Member BY <1>5 DEF Applies
    <3> QED BY <3>1 DEF Range
  <2> QED BY <2>1, <2>2 DEF Modes
<1> QED BY <1>1, <1>2, <1>3, <1>4, <1>5

LEMMA ReadFlagTyped ==
    ASSUME NEW s \in Reader, NEW flag \in FlagChar
    PROVE  ReadFlag(s, flag) \in Reader
<1> DEFINE needs == flag = "o" \/ (s.add /\ flag \in {"k", "l"})
           param == IF needs THEN Head(s.words) ELSE Empty
           after == IF needs THEN Tail(s.words) ELSE s.words
<1>1. s.modes \in Modes /\ s.add \in BOOLEAN /\ s.words \in Seq(Text) BY DEF Reader
<1>2. CASE flag \in {"+", "-"} BY <1>2 DEF ReadFlag, Reader
<1>3. CASE flag \notin {"+", "-"} /\ needs /\ s.words = <<>> BY <1>3 DEF ReadFlag
<1>4. CASE flag \notin {"+", "-"} /\ ~(needs /\ s.words = <<>>)
  <2>1. after \in Seq(Text) BY <1>1, <1>4
  <2>2. param \in Text
    <3>1. needs => Head(s.words) \in Text BY <1>1, <1>4
    <3> QED BY <3>1 DEF Text
  <2>4. \/ ReadFlag(s, flag) = [s EXCEPT !.words = after]
        \/ Applies(flag, s.add, param)
           /\ ReadFlag(s, flag) = [s EXCEPT !.words = after,
                                            !.modes = Applied(s.modes, flag, s.add, param)]
    BY <1>4 DEF ReadFlag
  <2> HIDE DEF needs, param, after
  <2>5. CASE ReadFlag(s, flag) = [s EXCEPT !.words = after] BY <2>1, <2>5 DEF Reader
  <2>6. CASE /\ Applies(flag, s.add, param)
             /\ ReadFlag(s, flag) = [s EXCEPT !.words = after,
                                              !.modes = Applied(s.modes, flag, s.add, param)]
    <3>1. flag \in {"i", "t", "k", "l", "o"} BY <2>6 DEF Applies
    <3>2. Applied(s.modes, flag, s.add, param) \in Modes
      BY <3>1, <2>2, <2>6, <1>1, AppliedTyped
    <3> QED BY <3>2, <2>1, <2>6 DEF Reader
  <2> QED BY <2>4, <2>5, <2>6
<1> QED BY <1>2, <1>3, <1>4

\* param is what flag is applied with.
Proper(flag, add, param) ==
    /\ flag \in {"i", "t", "k", "l", "o"} /\ add \in BOOLEAN /\ param \in Text
    /\ ~NeedsParam(flag, add) => param = Empty
    /\ Applies(flag, add, param)

\* What a line says of it.
Said(flag, add, param) == IF NeedsParam(flag, add) THEN <<Announced(flag, param)>> ELSE <<>>

LEMMA SaidTyped ==
    ASSUME NEW flag, NEW add, NEW param, Proper(flag, add, param)
    PROVE  /\ flag = "o" => /\ param \in DOMAIN Member
                            /\ Member[param] \in Range(Member)
                            /\ Member[param] \in DOMAIN Member
                            /\ Member[Member[param]] = Member[param]
           /\ Announced(flag, param) \in Text
           /\ Said(flag, add, param) \in Seq(Text)
<1>1. ASSUME flag = "o"
      PROVE  /\ param \in DOMAIN Member
             /\ Member[param] \in Range(Member)
             /\ Member[param] \in DOMAIN Member
             /\ Member[Member[param]] = Member[param]
  <2>1. param \in DOMAIN Member BY <1>1 DEF Applies, Proper
  <2>2. Member[param] \in Range(Member) BY <2>1 DEF Range
  <2> QED BY <2>1, <2>2, ModeLineAssumption
<1>2. Announced(flag, param) \in Text BY <1>1 DEF Announced, Proper, Text
<1>3. PICK v \in Text : v = Announced(flag, param) BY <1>2
<1>4. <<v>> \in Seq(Text) /\ <<>> \in Seq(Text) BY EmptySeq
<1>5. Said(flag, add, param) \in Seq(Text) BY <1>3, <1>4 DEF Said
<1> QED BY <1>1, <1>2, <1>5

\* A reader with the modes m and the words all before it applies flag with param
\* and goes on to the words behind.
Takes(m, flag, add, param, all, behind) ==
    ReadFlag([modes |-> m, add |-> add, words |-> all], flag)
        = [modes |-> Applied(m, flag, add, param), add |-> add, words |-> behind]

\* The reader takes an announced flag for what it was to the server.
LEMMA ReadsAnnounced ==
    ASSUME NEW m \in Modes, NEW flag, NEW add, NEW param, Proper(flag, add, param),
           NEW extra \in Seq(Text),
           NEW told, told = Said(flag, add, param),
           NEW r, r = told \o extra
    PROVE  Takes(m, flag, add, param, r, extra)
<1> DEFINE s == [modes |-> m, add |-> add, words |-> r]
<1> USE DEF Proper
<1>1. CASE ~NeedsParam(flag, add)
  <2>1. told = <<>> /\ flag # "o" /\ ~(add /\ flag \in {"k", "l"})
    BY <1>1 DEF Said, NeedsParam
  <2>2. told \o extra = extra BY <2>1
  <2>3. s = [modes |-> m, add |-> add, words |-> extra] BY <2>2
  <2>4. param = Empty BY <1>1
  <2> HIDE DEF s
  <2>5. ReadFlag(s, flag) = [s EXCEPT !.words = extra, !.modes = Applied(m, flag, add, Empty)]
    BY <2>1, <2>3, <2>4 DEF ReadFlag
  <2>6. ReadFlag(s, flag) = [modes |-> Applied(m, flag, add, param), add |-> add, words |-> extra]
    BY <2>3, <2>4, <2>5
  <2> QED BY <2>3, <2>6, <2>2 DEF Takes
<1>2. CASE NeedsParam(flag, add)
  <2>1. PICK v \in Text : v = Announced(flag, param) BY SaidTyped
  <2>2. /\ told = <<v>> /\ Applies(flag, add, v)
        /\ Applied(m, flag, add, v) = Applied(m, flag, add, param)
        /\ flag = "o" => v \in Range(Member)
    <3>1. told = <<v>> BY <1>2, <2>1 DEF Said
    <3>2. CASE flag # "o" BY <2>1, <3>1, <3>2 DEF Announced
    <3>3. CASE flag = "o"
      <4>1. v = Member[param] BY <2>1, <3>3 DEF Announced
      <4>2. v \in Range(Member) /\ v \in DOMAIN Member /\ Member[v] = v
        BY <3>3, <4>1, SaidTyped
      <4>3. Applies(flag, add, v) BY <3>3, <4>2 DEF Applies
      <4>4. Applied(m, flag, add, v) = Applied(m, flag, add, param)
        BY <3>3, <4>1, <4>2 DEF Applied
      <4> QED BY <3>1, <4>2, <4>3, <4>4
    <3> QED BY <3>2, <3>3
  <2> DEFINE words == <<v>> \o extra
  <2>3. words # <<>> /\ Head(words) = v /\ Tail(words) = extra
    BY HeadTailAppend
  <2>4. s = [modes |-> m, add |-> add, words |-> words] BY <2>2
  <2>5. words = r BY <2>2
  <2> HIDE DEF words, s
  <2>6. flag = "o" \/ (add /\ flag \in {"k", "l"}) BY <1>2 DEF NeedsParam
  <2>7. ReadFlag(s, flag) = [s EXCEPT !.words = extra, !.modes = Applied(m, flag, add, v)]
    BY <2>2, <2>3, <2>4, <2>6 DEF ReadFlag
  <2>8. ReadFlag(s, flag) = [modes |-> Applied(m, flag, add, param), add |-> add, words |-> extra]
    BY <2>2, <2>4, <2>7
  <2> QED BY <2>4, <2>5, <2>8 DEF Takes
<1> QED BY <1>1, <1>2

-----------------------------------------------------------------------------
(* A line of flags.                                                        *)

\* Reading a line is reading its flags one after the other.
LEMMA ReadUnrolls ==
    ASSUME NEW s \in Reader, NEW flags \in Seq(FlagChar)
    PROVE  \E A \in [0 .. Len(flags) -> Reader] :
               /\ A[0] = s
               /\ \A n \in 1 .. Len(flags) : A[n] = ReadFlag(A[n - 1], flags[n])
               /\ Read(s, flags) = A[Len(flags)]
<1> DEFINE N == Len(flags)
           G == [q \in Reader \X (1 .. N) |-> ReadFlag(q[1], flags[q[2]])]
           After == CHOOSE A : A = [n \in 0 .. N |->
                        IF n = 0 THEN s ELSE ReadFlag(A[n - 1], flags[n])]
<1>1. N \in Nat /\ \A n \in 1 .. N : flags[n] \in FlagChar
  OBVIOUS
<1>2. \A v \in Reader, n \in 1 .. N : G[<<v, n>>] = ReadFlag(v, flags[n])
  OBVIOUS
<1>3. \A v \in Reader, n \in 1 .. N : ReadFlag(v, flags[n]) \in Reader
  BY <1>1, ReadFlagTyped
<1>4. G \in [Reader \X (1 .. N) -> Reader] BY <1>3
<1>5. Read(s, flags) = After[N] BY DEF Read
<1> HIDE DEF G, N
<1>6. PICK A \in [0 .. N -> Reader] : Follows(A, N, s, G)
  BY <1>1, <1>4, RecursionExists
<1>7. A[0] = s /\ \A n \in 1 .. N : A[n] = ReadFlag(A[n - 1], flags[n])
  <2>1. \A n \in 1 .. N : n - 1 \in 0 .. N BY <1>1
  <2> QED BY <1>2, <1>6, <2>1 DEF Follows
<1>8. After = [n \in 0 .. N |-> IF n = 0 THEN s ELSE ReadFlag(After[n - 1], flags[n])]
  <2>1. \A n \in 0 .. N : A[n] = IF n = 0 THEN s ELSE ReadFlag(A[n - 1], flags[n])
    <3> TAKE n \in 0 .. N
    <3>1. n # 0 => n \in 1 .. N BY <1>1
    <3> QED BY <1>7, <3>1
  <2>2. A = [n \in 0 .. N |-> IF n = 0 THEN s ELSE ReadFlag(A[n - 1], flags[n])]
    BY <2>1
  <2> QED BY <2>2
<1> HIDE DEF After
<1>9. After[0] = s /\ \A n \in 1 .. N : After[n] = ReadFlag(After[n - 1], flags[n])
  <2>1. \A n \in 0 .. N : After[n] = IF n = 0 THEN s ELSE ReadFlag(After[n - 1], flags[n])
    BY <1>8, Zenon
  <2>2. 0 \in 0 .. N /\ \A n \in 1 .. N : n \in 0 .. N /\ n # 0 BY <1>1
  <2> QED BY <2>1, <2>2
<1>10. \A n \in 0 .. N : After[n] \in Reader
  <2> DEFINE T == {n \in 0 .. N : After[n] \in Reader}
  <2>1. 0 \in T BY <1>1, <1>9
  <2>2. ASSUME NEW n \in 0 .. N - 1, n \in T PROVE n + 1 \in T
    <3>1. n + 1 \in 1 .. N /\ (n + 1) - 1 = n /\ n + 1 \in 0 .. N BY <1>1
    <3>2. After[n + 1] = ReadFlag(After[n], flags[n + 1]) BY <3>1, <1>9
    <3>3. After[n + 1] \in Reader BY <2>2, <3>1, <3>2, <1>3
    <3> QED BY <3>1, <3>3
  <2> HIDE DEF T
  <2>3. \A n \in 0 .. N : n \in T BY <1>1, <2>1, <2>2, BoundedInduction
  <2> QED BY <2>3 DEF T
<1>11. After \in [0 .. N -> Reader] BY <1>8, <1>10
<1> QED BY <1>5, <1>9, <1>11 DEF N

LEMMA ReadNothing == ASSUME NEW s \in Reader PROVE Read(s, <<>>) = s
<1>1. PICK none \in Seq(FlagChar) : none = <<>> /\ Len(none) = 0 BY EmptySeq
<1>2. PICK A \in [0 .. Len(none) -> Reader] : A[0] = s /\ Read(s, none) = A[Len(none)]
  BY ReadUnrolls
<1> QED BY <1>1, <1>2

\* One flag more is read last.
LEMMA ReadOneMore ==
    ASSUME NEW s \in Reader, NEW flags \in Seq(FlagChar), NEW flag \in FlagChar
    PROVE  /\ Append(flags, flag) \in Seq(FlagChar)
           /\ Read(s, flags) \in Reader
           /\ Read(s, Append(flags, flag)) = ReadFlag(Read(s, flags), flag)
<1>1. PICK longer \in Seq(FlagChar) : longer = Append(flags, flag) BY AppendProperties
<1>2. /\ Len(flags) \in Nat /\ Len(longer) = Len(flags) + 1
      /\ longer[Len(flags) + 1] = flag
      /\ \A n \in 1 .. Len(flags) : longer[n] = flags[n]
  BY <1>1, AppendProperties
<1>3. PICK A \in [0 .. Len(flags) -> Reader] :
          /\ A[0] = s
          /\ \A n \in 1 .. Len(flags) : A[n] = ReadFlag(A[n - 1], flags[n])
          /\ Read(s, flags) = A[Len(flags)]
  BY ReadUnrolls
<1>4. PICK B \in [0 .. Len(longer) -> Reader] :
          /\ B[0] = s
          /\ \A n \in 1 .. Len(longer) : B[n] = ReadFlag(B[n - 1], longer[n])
          /\ Read(s, longer) = B[Len(longer)]
  BY ReadUnrolls
<1>5. \A n \in 0 .. Len(flags) : n \in {k \in Nat : A[k] = B[k]}
  <2> DEFINE T == {k \in Nat : A[k] = B[k]}
  <2>1. 0 \in T BY <1>3, <1>4
  <2>2. ASSUME NEW n \in 0 .. Len(flags) - 1, n \in T PROVE n + 1 \in T
    <3>1. /\ n + 1 \in 1 .. Len(flags) /\ n + 1 \in 1 .. Len(longer)
          /\ (n + 1) - 1 = n /\ n + 1 \in Nat
      BY <1>2
    <3>2. A[n + 1] = ReadFlag(A[n], flags[n + 1]) BY <3>1, <1>3
    <3>3. B[n + 1] = ReadFlag(B[n], longer[n + 1]) BY <3>1, <1>4
    <3>4. A[n] = B[n] /\ longer[n + 1] = flags[n + 1] BY <2>2, <3>1, <1>2
    <3> QED BY <3>1, <3>2, <3>3, <3>4
  <2> HIDE DEF T
  <2>3. \A n \in 0 .. Len(flags) : n \in T BY <1>2, <2>1, <2>2, BoundedInduction
  <2> QED BY <2>3 DEF T
<1>6. B[Len(flags) + 1] = ReadFlag(B[Len(flags)], longer[Len(flags) + 1])
  <2>1. Len(flags) + 1 \in 1 .. Len(longer) /\ (Len(flags) + 1) - 1 = Len(flags) BY <1>2
  <2> QED BY <2>1, <1>4
<1>7. Len(flags) \in 0 .. Len(flags) BY <1>2
<1>8. B[Len(flags)] = A[Len(flags)] BY <1>5, <1>7
<1>9. Read(s, flags) \in Reader BY <1>3, <1>7
<1> QED BY <1>1, <1>2, <1>3, <1>4, <1>6, <1>8, <1>9

-----------------------------------------------------------------------------
(* What a command has announced.                                           *)

Accumulator == [flags : Seq(FlagChar), params : Seq(Text), sign : {"none", "+", "-"}]

\* The line d, with more words behind its own, leads from the modes v to m and
\* leaves the reader with those words and with the sign that was written last.
Tells(v, m, d) ==
    \A extra \in Seq(Text) :
        Read([modes |-> v, add |-> TRUE, words |-> d.params \o extra], d.flags)
            = [modes |-> m, add |-> d.sign # "-", words |-> extra]

LEMMA NothingTells == ASSUME NEW m \in Modes PROVE Nothing \in Accumulator /\ Tells(m, m, Nothing)
<1>1. <<>> \in Seq(FlagChar) /\ <<>> \in Seq(Text) BY EmptySeq
<1>2. Nothing \in Accumulator BY <1>1 DEF Nothing, Accumulator
<1>3. Tells(m, m, Nothing)
  <2> SUFFICES ASSUME NEW extra \in Seq(Text)
               PROVE  Read([modes |-> m, add |-> TRUE, words |-> Nothing.params \o extra],
                           Nothing.flags)
                        = [modes |-> m, add |-> Nothing.sign # "-", words |-> extra]
    BY DEF Tells
  <2>1. Nothing.params = <<>> /\ Nothing.flags = <<>> /\ Nothing.sign = "none" BY DEF Nothing
  <2>2. <<>> \o extra = extra OBVIOUS
  <2>3. [modes |-> m, add |-> TRUE, words |-> extra] \in Reader BY DEF Reader
  <2>4. Read([modes |-> m, add |-> TRUE, words |-> extra], <<>>)
          = [modes |-> m, add |-> TRUE, words |-> extra]
    BY <2>3, ReadNothing
  <2> QED BY <2>1, <2>2, <2>4
<1> QED BY <1>2, <1>3

\* Adding a flag appends what is said of it, unless that is the empty text.
LEMMA AddTyped ==
    ASSUME NEW d \in Accumulator,
           NEW flag, NEW add, NEW param, Proper(flag, add, param)
    PROVE  /\ Add(d, add, flag, Announced(flag, param)) \in Accumulator
           /\ (NeedsParam(flag, add) => Announced(flag, param) # Empty) =>
                 Add(d, add, flag, Announced(flag, param)).params = d.params \o Said(flag, add, param)
<1> DEFINE wanted == IF add THEN "+" ELSE "-"
           e == Add(d, add, flag, Announced(flag, param))
           mid == IF d.sign = wanted THEN d.flags ELSE Append(d.flags, wanted)
<1>1. PICK v \in Text : v = Announced(flag, param) BY SaidTyped
<1>2. d.flags \in Seq(FlagChar) /\ d.params \in Seq(Text) /\ d.sign \in {"none", "+", "-"}
  BY DEF Accumulator
<1>3. wanted \in FlagChar /\ flag \in FlagChar /\ wanted \in {"none", "+", "-"}
  BY DEF FlagChar, Proper
<1>4. mid \in Seq(FlagChar) BY <1>2, <1>3, AppendProperties
<1>5. mid = d.flags \o (IF d.sign = wanted THEN <<>> ELSE <<wanted>>)
  <2>1. d.flags \o <<>> = d.flags BY <1>2
  <2>2. d.flags \o <<wanted>> = Append(d.flags, wanted) BY <1>2, <1>3, AppendIsConcat
  <2> QED BY <2>1, <2>2
<1>6. PICK all \in Seq(FlagChar) : all = Append(mid, flag) BY <1>3, <1>4, AppendProperties
<1>7. mid \o <<flag>> = all BY <1>3, <1>4, <1>6, AppendIsConcat
<1>8. PICK more \in Seq(Text) : more = IF v = Empty THEN d.params ELSE Append(d.params, v)
  BY <1>1, <1>2, AppendProperties
<1>9. e = [flags |-> all, params |-> more, sign |-> wanted]
  BY <1>1, <1>5, <1>7, <1>8 DEF Add
<1>10. e \in Accumulator BY <1>3, <1>9 DEF Accumulator
<1>11. ASSUME NeedsParam(flag, add) => v # Empty
       PROVE  more = d.params \o Said(flag, add, param)
  <2>1. CASE NeedsParam(flag, add)
    <3>1. more = Append(d.params, v) BY <1>8, <1>11, <2>1
    <3>2. Append(d.params, v) = d.params \o <<v>> BY <1>1, <1>2, AppendIsConcat
    <3> QED BY <1>1, <2>1, <3>1, <3>2 DEF Said
  <2>2. CASE ~NeedsParam(flag, add)
    <3>1. v = Empty BY <1>1, <2>2 DEF Announced, NeedsParam, Proper
    <3>2. d.params \o <<>> = d.params BY <1>2
    <3> QED BY <1>8, <2>2, <3>1, <3>2 DEF Said
  <2> QED BY <2>1, <2>2
<1> QED BY <1>1, <1>9, <1>10, <1>11

LEMMA AddTells ==
    ASSUME NEW v \in Modes, NEW m \in Modes, NEW d \in Accumulator, Tells(v, m, d),
           NEW flag, NEW add, NEW param, Proper(flag, add, param),
           NeedsParam(flag, add) => Announced(flag, param) # Empty,
           NEW e, e = Add(d, add, flag, Announced(flag, param))
    PROVE  Tells(v, Applied(m, flag, add, param), e)
<1> DEFINE wanted == IF add THEN "+" ELSE "-"
           mid == IF d.sign = wanted THEN d.flags ELSE Append(d.flags, wanted)
<1>1. PICK told \in Seq(Text) : told = Said(flag, add, param) BY SaidTyped
<1>2. d.flags \in Seq(FlagChar) /\ d.params \in Seq(Text) /\ d.sign \in {"none", "+", "-"}
  BY DEF Accumulator
<1>3. wanted \in FlagChar /\ flag \in FlagChar
  BY DEF FlagChar, Proper
<1>4. mid \in Seq(FlagChar) BY <1>2, <1>3, AppendProperties
<1>5. mid = d.flags \o (IF d.sign = wanted THEN <<>> ELSE <<wanted>>)
  <2>1. d.flags \o <<>> = d.flags BY <1>2
  <2>2. d.flags \o <<wanted>> = Append(d.flags, wanted) BY <1>2, <1>3, AppendIsConcat
  <2> QED BY <2>1, <2>2
<1>6. PICK all \in Seq(FlagChar) : all = Append(mid, flag) BY <1>3, <1>4, AppendProperties
<1>7. mid \o <<flag>> = all BY <1>3, <1>4, <1>6, AppendIsConcat
<1>8. e.flags = all /\ e.sign = wanted BY <1>5, <1>7 DEF Add
<1>9. e.params = d.params \o told BY <1>1, AddTyped
<1>12. wanted # "-" <=> add OBVIOUS
<1>14. add \in BOOLEAN BY DEF Proper
<1> HIDE DEF mid
<1> SUFFICES ASSUME NEW extra \in Seq(Text)
             PROVE  Read([modes |-> v, add |-> TRUE, words |-> e.params \o extra], e.flags)
                      = [modes |-> Applied(m, flag, add, param), add |-> e.sign # "-",
                         words |-> extra]
  BY DEF Tells
<1>21. PICK r \in Seq(Text) : r = told \o extra BY ConcatProperties
<1>22. (d.params \o told) \o extra = d.params \o r
  <2>1. PICK before \in Seq(Text) : before = d.params BY <1>2
  <2>2. (before \o told) \o extra = before \o (told \o extra)
    BY ConcatAssociative
  <2> QED BY <1>21, <2>1, <2>2
<1>23. d.params \o r \in Seq(Text) BY <1>2, ConcatProperties
<1> DEFINE start == [modes |-> v, add |-> TRUE, words |-> d.params \o r]
<1>24. start \in Reader BY <1>23 DEF Reader
<1>25. Read(start, d.flags) = [modes |-> m, add |-> d.sign # "-", words |-> r]
  BY DEF Tells
<1> HIDE DEF start
<1>26. Read(start, mid) = [modes |-> m, add |-> add, words |-> r]
  <2>1. CASE d.sign = wanted
    <3>1. mid = d.flags BY <2>1 DEF mid
    <3>2. (d.sign # "-") = add BY <2>1, <1>12, <1>14
    <3> QED BY <1>25, <3>1, <3>2
  <2>2. CASE d.sign # wanted
    <3>1. mid = Append(d.flags, wanted) BY <2>2 DEF mid
    <3>2. Read(start, mid) = ReadFlag(Read(start, d.flags), wanted)
      BY <3>1, <1>24, <1>2, <1>3, ReadOneMore
    <3>3. ReadFlag([modes |-> m, add |-> d.sign # "-", words |-> r], wanted)
            = [modes |-> m, add |-> add, words |-> r]
      BY <1>14 DEF ReadFlag
    <3> QED BY <1>25, <3>2, <3>3
  <2> QED BY <2>1, <2>2
<1>27. Read(start, all) = ReadFlag([modes |-> m, add |-> add, words |-> r], flag)
  BY <1>3, <1>4, <1>6, <1>24, <1>26, ReadOneMore
<1>28. ReadFlag([modes |-> m, add |-> add, words |-> r], flag)
        = [modes |-> Applied(m, flag, add, param), add |-> add, words |-> extra]
  <2>1. Takes(m, flag, add, param, r, extra) BY <1>1, <1>21, ReadsAnnounced
  <2> QED BY <2>1 DEF Takes
<1>29. [modes |-> v, add |-> TRUE, words |-> e.params \o extra] = start
  BY <1>9, <1>22 DEF start
<1>30. (e.sign # "-") = add BY <1>8, <1>12, <1>14
<1> QED BY <1>8, <1>27, <1>28, <1>29, <1>30

-----------------------------------------------------------------------------
(* The invariant.                                                          *)

\* A line that is not cut, of texts that are one word each, arrives as it is.
LEMMA WholeArrives ==
    ASSUME NEW line, NEW room, NEW m,
           Fits(line, room), Range(line.params) \subseteq Plain
    PROVE  Heard(m, line, room) = Replay(m, line.flags, line.params)
BY DEF Heard, Cut, WordsOf

\* Inside a command the line so far tells what has been done, if its texts are one
\* word each; outside of one nobody who heard it has anything left to learn.
MInv ==
    /\ modes \in Modes
    /\ adding \in BOOLEAN /\ whole \in BOOLEAN
    /\ rest \in Seq(Text)
    /\ done \in Accumulator
    /\ busy => view \in Modes
    /\ busy /\ whole => Tells(view, modes, done) /\ Range(done.params) \subseteq Plain
    /\ ~busy /\ whole => view = modes

LEMMA InitMInv == Init => MInv
<1> SUFFICES ASSUME Init PROVE MInv OBVIOUS
<1>1. NoModes \in Modes BY DEF NoModes, Modes, KeySet, LimitSet
<1>2. <<>> \in Seq(Text) BY EmptySeq
<1>3. Nothing \in Accumulator BY <1>1, NothingTells
<1> QED BY <1>1, <1>2, <1>3 DEF Init, MInv

LEMMA BeginStep == MInv /\ Begin => MInv'
<1> SUFFICES ASSUME MInv, Begin PROVE MInv' OBVIOUS
<1>1. /\ busy' = TRUE /\ adding' = TRUE /\ done' = Nothing /\ rest' \in Params
      /\ view' = modes /\ whole' = TRUE /\ modes' = modes
  BY DEF Begin
<1>2. modes \in Modes BY DEF MInv
<1>3. Nothing \in Accumulator /\ Tells(modes, modes, Nothing) BY <1>2, NothingTells
<1>4. rest' \in Seq(Text)
  <2>1. Params \subseteq Seq(Parameter) BY ModeLineAssumption DEF Parameter
  <2>2. PICK r \in Seq(Parameter) : r = rest' BY <1>1, <2>1
  <2>3. Parameter \subseteq Text BY DEF Text
  <2>4. r \in Seq(Text) BY <2>3
  <2> QED BY <2>2, <2>4
<1>5. Tells(view', modes', done') BY <1>1, <1>3
<1>6. Range(done'.params) \subseteq Plain BY <1>1 DEF Nothing, Range
<1> QED BY <1>1, <1>2, <1>3, <1>4, <1>5, <1>6 DEF MInv

LEMMA RangeConcat ==
    ASSUME NEW S, NEW s \in Seq(S), NEW r \in Seq(S), NEW P, NEW u, u = s \o r,
           Range(s) \subseteq P, Range(r) \subseteq P
    PROVE  Range(u) \subseteq P
BY ConcatProperties DEF Range

LEMMA FlagStep ==
    ASSUME MInv, NEW flag \in {"i", "t", "k", "l", "o", "z"}, Flag(flag)
    PROVE  MInv'
<1>1. busy /\ UNCHANGED <<view, busy, adding>> BY DEF Flag
<1>2. CASE NeedsParam(flag, adding) /\ rest = <<>>
  <2>1. UNCHANGED <<modes, whole, rest, done>> BY <1>2 DEF Flag
  <2> QED BY <1>1, <2>1 DEF MInv
<1>3. CASE ~(NeedsParam(flag, adding) /\ rest = <<>>)
  <2> DEFINE needs == NeedsParam(flag, adding)
             param == IF needs THEN Head(rest) ELSE Empty
  <2>1. /\ rest' = IF needs THEN Tail(rest) ELSE rest
        /\ \/ /\ Applies(flag, adding, param)
              /\ modes' = Applied(modes, flag, adding, param)
              /\ done' = Add(done, adding, flag, Announced(flag, param))
              /\ whole' = (whole /\ (needs => Announced(flag, param) \in Plain))
           \/ UNCHANGED <<modes, whole, done>>
    BY <1>3 DEF Flag
  <2>2. rest' \in Seq(Text) /\ param \in Text
    <3>1. rest \in Seq(Text) BY DEF MInv
    <3>2. rest # <<>> => Tail(rest) \in Seq(Text) /\ Head(rest) \in Text
      BY <3>1, HeadTailProperties
    <3> QED BY <1>3, <2>1, <3>1, <3>2 DEF Text
  <2>3. ~needs => param = Empty OBVIOUS
  <2> HIDE DEF param
  <2>4. CASE UNCHANGED <<modes, whole, done>> BY <1>1, <2>2, <2>4 DEF MInv
  <2>5. CASE /\ Applies(flag, adding, param)
             /\ modes' = Applied(modes, flag, adding, param)
             /\ done' = Add(done, adding, flag, Announced(flag, param))
             /\ whole' = (whole /\ (needs => Announced(flag, param) \in Plain))
    <3>1. flag \in {"i", "t", "k", "l", "o"} BY <2>5 DEF Applies
    <3>2. /\ view \in Modes /\ modes \in Modes /\ done \in Accumulator /\ adding \in BOOLEAN
      BY <1>1 DEF MInv
    <3>3. Proper(flag, adding, param) BY <2>2, <2>3, <2>5, <3>1, <3>2 DEF Proper
    <3>4. modes' \in Modes BY <2>2, <2>5, <3>1, <3>2, AppliedTyped
    <3>5. done' \in Accumulator BY <2>5, <3>2, <3>3, AddTyped
    <3>6. whole' \in BOOLEAN BY <2>5
    <3>7. ASSUME whole'
          PROVE  Tells(view, modes', done') /\ Range(done'.params) \subseteq Plain
      <4>1. /\ Tells(view, modes, done) /\ Range(done.params) \subseteq Plain
            /\ needs => Announced(flag, param) \in Plain
        BY <1>1, <2>5, <3>7 DEF MInv
      <4>2. needs => Announced(flag, param) # Empty BY <4>1, ModeLineAssumption
      <4>3. Tells(view, modes', done') BY <2>5, <3>2, <3>3, <4>1, <4>2, AddTells
      <4>4. done'.params = done.params \o Said(flag, adding, param)
        BY <2>5, <3>2, <3>3, <4>2, AddTyped
      <4>5. PICK told \in Seq(Text) : told = Said(flag, adding, param) BY <3>3, SaidTyped
      <4>6. Range(told) \subseteq Plain
        <5>1. CASE needs
          <6>1. PICK v \in Plain : v = Announced(flag, param) BY <4>1, <5>1
          <6>2. told = <<v>> BY <4>5, <5>1, <6>1 DEF Said
          <6> QED BY <6>2 DEF Range
        <5>2. CASE ~needs BY <4>5, <5>2 DEF Said, Range
        <5> QED BY <5>1, <5>2
      <4>7. PICK before \in Seq(Text) : before = done.params BY <3>2 DEF Accumulator
      <4>8. Range(before \o told) \subseteq Plain BY <4>1, <4>6, <4>7, RangeConcat
      <4> QED BY <4>3, <4>4, <4>5, <4>7, <4>8
    <3>8. /\ busy' /\ view' \in Modes /\ adding' \in BOOLEAN
          /\ whole' => Tells(view', modes', done') /\ Range(done'.params) \subseteq Plain
      BY <1>1, <3>2, <3>7
    <3> QED BY <2>2, <3>4, <3>5, <3>6, <3>8 DEF MInv
  <2> QED BY <2>1, <2>4, <2>5
<1> QED BY <1>2, <1>3

LEMMA EndStep == ASSUME MInv, NEW room, End(room) PROVE MInv'
<1>1. /\ busy /\ busy' = FALSE /\ modes' = modes /\ adding' = TRUE /\ rest' = <<>>
      /\ done' = Nothing /\ whole' = (whole /\ Fits(done, room))
      /\ view' = IF done.flags = <<>> THEN view ELSE Heard(view, done, room)
  BY DEF End
<1>2. modes \in Modes /\ view \in Modes /\ done \in Accumulator BY <1>1 DEF MInv
<1>3. Nothing \in Accumulator BY <1>2, NothingTells
<1>4. PICK none \in Seq(Text) : none = <<>> BY EmptySeq
<1>5. done.params \in Seq(Text) /\ done.params \o none = done.params
  BY <1>2, <1>4 DEF Accumulator
<1>6. ASSUME whole' PROVE view' = modes
  <2> DEFINE start == [modes |-> view, add |-> TRUE, words |-> done.params]
  <2>1. Tells(view, modes, done) /\ Range(done.params) \subseteq Plain /\ Fits(done, room)
    BY <1>1, <1>6 DEF MInv
  <2>2. Read([modes |-> view, add |-> TRUE, words |-> done.params \o none], done.flags)
          = [modes |-> modes, add |-> done.sign # "-", words |-> none]
    BY <2>1 DEF Tells
  <2>3. Read(start, done.flags) = [modes |-> modes, add |-> done.sign # "-", words |-> none]
    BY <1>5, <2>2
  <2>4. Heard(view, done, room) = Replay(view, done.flags, done.params) BY <2>1, WholeArrives
  <2>5. Heard(view, done, room) = modes BY <2>3, <2>4 DEF Replay
  <2>6. CASE done.flags = <<>>
    <3>1. start \in Reader BY <1>2, <1>5 DEF Reader
    <3>2. Read(start, done.flags) = start BY <3>1, <2>6, ReadNothing
    <3>3. view = modes BY <2>3, <3>2
    <3> QED BY <1>1, <2>6, <3>3
  <2>7. CASE done.flags # <<>> BY <1>1, <2>5, <2>7
  <2> QED BY <2>6, <2>7
<1>7. <<>> \in Seq(Text) BY EmptySeq
<1>8. whole' \in BOOLEAN BY <1>1 DEF MInv, Fits
<1> QED BY <1>1, <1>2, <1>3, <1>6, <1>7, <1>8 DEF MInv

LEMMA NextMInv == MInv /\ [Next]_vars => MInv'
<1> SUFFICES ASSUME MInv, [Next]_vars PROVE MInv' OBVIOUS
<1>1. CASE Begin BY <1>1, BeginStep
<1>2. ASSUME NEW room \in Rooms, End(room) PROVE MInv' BY <1>2, EndStep
<1>3. ASSUME NEW add \in BOOLEAN, Sign(add) PROVE MInv'
  BY <1>3 DEF Sign, MInv, Tells
<1>4. ASSUME NEW flag \in {"i", "t", "k", "l", "o", "z"}, Flag(flag) PROVE MInv'
  BY <1>4, FlagStep
<1>5. CASE UNCHANGED vars BY <1>5 DEF vars, MInv, Tells
<1> QED BY <1>1, <1>2, <1>3, <1>4, <1>5 DEF Next

LEMMA Invariance == Spec => []MInv
BY InitMInv, NextMInv, PTL DEF Spec

\* Whatever letters, signs and parameters a MODE command has, applied, refused or
\* unknown, the line announced for it leads a client that knew the modes to the
\* modes of the channel, whenever the texts in it are one word each and the line is
\* not cut (applyModeChanges and ModeAccumulator::add).
THEOREM AnnouncementsAreExact == Spec => []AnnouncementsReplay
<1>1. MInv => AnnouncementsReplay BY DEF MInv, AnnouncementsReplay
<1> QED BY <1>1, Invariance, PTL

-----------------------------------------------------------------------------
(* The answer to a query.                                                  *)

\* The reader of the answer, between two of its letters.
At(m, words) == [modes |-> m, add |-> TRUE, words |-> words]

If(shown, seq) == IF shown THEN seq ELSE <<>>

AppliedIf(shown, m, flag, param) == IF shown THEN Applied(m, flag, TRUE, param) ELSE m

\* With the flags so far the reader s has come to the modes m and the words all.
HasRead(s, flags, m, all) ==
    /\ flags \in Seq(FlagChar) /\ m \in Modes /\ all \in Seq(Text)
    /\ Read(s, flags) = At(m, all)

Optional(flag, shown, param) ==
    flag \in {"i", "t", "k", "l"} /\ (shown => Proper(flag, TRUE, param))

\* A letter of the answer is there if there is something to say; it is read with
\* its word.
LEMMA ReadsOptional ==
    ASSUME NEW s \in Reader, NEW flags, NEW m, NEW all, HasRead(s, flags, m, all),
           NEW flag, NEW shown, NEW param, Optional(flag, shown, param),
           NEW text, text = IF shown THEN Said(flag, TRUE, param) ELSE <<>>,
           NEW behind \in Seq(Text), all = text \o behind,
           NEW more, more = flags \o If(shown, <<flag>>),
           NEW m2, m2 = AppliedIf(shown, m, flag, param)
    PROVE  HasRead(s, more, m2, behind)
<1> USE DEF HasRead, Optional
<1>1. CASE shown
  <2>1. flag \in FlagChar BY DEF FlagChar
  <2>2. PICK longer \in Seq(FlagChar) : longer = Append(flags, flag)
    BY <2>1, AppendProperties
  <2>3. more = longer
    <3>1. flags \o <<flag>> = longer BY <2>1, <2>2, AppendIsConcat
    <3> QED BY <3>1, <1>1 DEF If
  <2>4. Read(s, longer) = ReadFlag(Read(s, flags), flag) BY <2>1, <2>2, ReadOneMore
  <2>5. Proper(flag, TRUE, param) BY <1>1
  <2>6. text = Said(flag, TRUE, param) BY <1>1
  <2>7. Takes(m, flag, TRUE, param, all, behind) BY <2>5, <2>6, ReadsAnnounced
  <2>8. Applied(m, flag, TRUE, param) \in Modes BY <2>5, AppliedTyped DEF Proper
  <2>9. Read(s, longer) = At(Applied(m, flag, TRUE, param), behind)
    BY <2>4, <2>7 DEF At, Takes
  <2> QED BY <1>1, <2>3, <2>8, <2>9 DEF AppliedIf
<1>2. CASE ~shown
  <2>1. flags \o <<>> = flags /\ <<>> \o behind = behind OBVIOUS
  <2>2. all = behind /\ more = flags BY <1>2, <2>1 DEF If
  <2> QED BY <1>2, <2>2 DEF AppliedIf
<1> QED BY <1>1, <1>2

LEMMA WithoutOps ==
    ASSUME NEW m \in Modes
    PROVE  [m EXCEPT !.ops = {}]
             = [i |-> m.i, t |-> m.t, key |-> m.key, limit |-> m.limit, ops |-> {}]
<1> DEFINE O == SUBSET Range(Member)
<1>1. m \in [i : BOOLEAN, t : BOOLEAN, key : KeySet, limit : LimitSet, ops : O]
  BY DEF Modes
<1> HIDE DEF O
<1> QED BY <1>1

LEMMA QueryIsRead ==
    ASSUME NEW m \in Modes
    PROVE  Replay(NoModes, ModeFlagsOf(m), ModeTexts(m)) = [m EXCEPT !.ops = {}]
<1> DEFINE hasKey == m.key # NoKey
           hasLimit == m.limit # NoLimit
           limit == Printed(m.limit)
<1>1. m.i \in BOOLEAN /\ m.t \in BOOLEAN /\ m.key \in KeySet /\ m.limit \in LimitSet
  BY DEF Modes
<1>2. hasKey => m.key \in Text BY <1>1 DEF KeySet
<1>3. hasLimit => limit \in Text /\ limit \in DOMAIN Number /\ Number[limit] = m.limit /\ m.limit > 0
  <2> SUFFICES ASSUME hasLimit
               PROVE  limit \in Text /\ limit \in DOMAIN Number
                      /\ Number[limit] = m.limit /\ m.limit > 0
    OBVIOUS
  <2>1. PICK w \in DOMAIN Number : Number[w] = m.limit /\ Number[w] > 0
    BY <1>1 DEF LimitSet
  <2>2. limit \in DOMAIN Number /\ Number[limit] = m.limit BY <2>1, ModeLineAssumption
  <2> QED BY <2>1, <2>2 DEF Text
<1>4. Optional("i", m.i, Empty) /\ Optional("t", m.t, Empty)
  BY DEF Optional, Proper, NeedsParam, Applies, Text
<1>5. Optional("k", hasKey, m.key) BY <1>2 DEF Optional, Proper, NeedsParam, Applies
<1>6. Optional("l", hasLimit, limit) BY <1>3 DEF Optional, Proper, NeedsParam, Applies
<1>7. /\ Said("i", TRUE, Empty) = <<>> /\ Said("t", TRUE, Empty) = <<>>
      /\ Said("k", TRUE, m.key) = <<m.key>> /\ Said("l", TRUE, limit) = <<limit>>
  BY DEF Said, NeedsParam, Announced
<1>8. PICK none \in Seq(Text) : none = <<>> BY EmptySeq
<1>9. PICK last \in Seq(Text) : last = LimitTexts(m)
  <2>1. CASE hasLimit
    <3>1. PICK v \in Text : v = limit BY <1>3, <2>1
    <3>2. <<v>> \in Seq(Text) OBVIOUS
    <3> QED BY <2>1, <3>1, <3>2 DEF LimitTexts
  <2>2. CASE ~hasLimit BY <1>8, <2>2 DEF LimitTexts
  <2> QED BY <2>1, <2>2
<1>10. PICK first \in Seq(Text) : first = KeyTexts(m)
  <2>1. CASE hasKey
    <3>1. PICK v \in Text : v = m.key BY <1>2, <2>1
    <3>2. <<v>> \in Seq(Text) OBVIOUS
    <3> QED BY <2>1, <3>1, <3>2 DEF KeyTexts
  <2>2. CASE ~hasKey BY <1>8, <2>2 DEF KeyTexts
  <2> QED BY <2>1, <2>2
<1>11. PICK all \in Seq(Text) : all = first \o last BY ConcatProperties
<1>12. ModeTexts(m) = all BY <1>9, <1>10, <1>11 DEF ModeTexts
<1>13. NoModes \in Modes BY DEF NoModes, Modes, KeySet, LimitSet
<1>14. PICK s \in Reader : s = At(NoModes, all) BY <1>13 DEF At, Reader
<1>15. PICK F1 \in Seq(FlagChar) : F1 = <<"+">> /\ HasRead(s, F1, NoModes, all)
  <2>1. PICK blank \in Seq(FlagChar) : blank = <<>> BY EmptySeq
  <2>2. "+" \in FlagChar BY DEF FlagChar
  <2>3. PICK F \in Seq(FlagChar) : F = Append(blank, "+") BY <2>2, AppendProperties
  <2>4. Read(s, F) = ReadFlag(Read(s, blank), "+") BY <2>2, <2>3, ReadOneMore
  <2>5. Read(s, blank) = s BY <2>1, ReadNothing
  <2>6. ReadFlag(At(NoModes, all), "+") = At(NoModes, all) BY DEF ReadFlag, At
  <2>7. F = <<"+">> BY <2>1, <2>3
  <2> QED BY <2>4, <2>5, <2>6, <2>7, <1>13, <1>14 DEF HasRead
<1> DEFINE text(shown, seq) == IF shown THEN seq ELSE <<>>
<1>16. PICK T1 : T1 = text(m.i, Said("i", TRUE, Empty)) OBVIOUS
<1>17. PICK T2 : T2 = text(m.t, Said("t", TRUE, Empty)) OBVIOUS
<1>18. PICK T3 : T3 = text(hasKey, Said("k", TRUE, m.key)) OBVIOUS
<1>19. PICK T4 : T4 = text(hasLimit, Said("l", TRUE, limit)) OBVIOUS
<1>20. all = T1 \o all /\ all = T2 \o all
  <2>1. <<>> \o all = all OBVIOUS
  <2> QED BY <1>7, <1>16, <1>17, <2>1
<1>21. all = T3 \o last BY <1>7, <1>10, <1>11, <1>18 DEF KeyTexts
<1>22. last = T4 \o none
  <2>1. last \o <<>> = last OBVIOUS
  <2> QED BY <1>7, <1>8, <1>9, <1>19, <2>1 DEF LimitTexts
<1>23. PICK F2, M2 : F2 = F1 \o If(m.i, <<"i">>) /\ M2 = AppliedIf(m.i, NoModes, "i", Empty)
  OBVIOUS
<1>24. PICK F3, M3 : F3 = F2 \o If(m.t, <<"t">>) /\ M3 = AppliedIf(m.t, M2, "t", Empty)
  OBVIOUS
<1>25. PICK F4, M4 : F4 = F3 \o If(hasKey, <<"k">>) /\ M4 = AppliedIf(hasKey, M3, "k", m.key)
  OBVIOUS
<1>26. PICK F5, M5 : F5 = F4 \o If(hasLimit, <<"l">>)
                     /\ M5 = AppliedIf(hasLimit, M4, "l", limit)
  OBVIOUS
<1>27. ModeFlagsOf(m) = F5
  <2>1. If(hasKey, <<"k">>) = (IF m.key = NoKey THEN <<>> ELSE <<"k">>) BY DEF If
  <2>2. If(hasLimit, <<"l">>) = (IF m.limit = NoLimit THEN <<>> ELSE <<"l">>) BY DEF If
  <2> QED BY <2>1, <2>2, <1>15, <1>23, <1>24, <1>25, <1>26 DEF ModeFlagsOf, If
<1> DEFINE R(i, t, key, l) == [i |-> i, t |-> t, key |-> key, limit |-> l, ops |-> {}]
<1>28. M2 = R(m.i, FALSE, NoKey, NoLimit)
  BY <1>1, <1>23 DEF AppliedIf, Applied, NoModes
<1>29. M3 = R(m.i, m.t, NoKey, NoLimit) BY <1>1, <1>24, <1>28 DEF AppliedIf, Applied
<1>30. M4 = R(m.i, m.t, m.key, NoLimit) BY <1>25, <1>29 DEF AppliedIf, Applied
<1>31. M5 = R(m.i, m.t, m.key, m.limit) BY <1>3, <1>26, <1>30 DEF AppliedIf, Applied
<1>32. [m EXCEPT !.ops = {}] = R(m.i, m.t, m.key, m.limit)
  <2>1. [m EXCEPT !.ops = {}]
          = [i |-> m.i, t |-> m.t, key |-> m.key, limit |-> m.limit, ops |-> {}]
    BY WithoutOps
  <2> QED BY <2>1
<1> HIDE DEF hasKey, hasLimit, limit, R
<1>33. HasRead(s, F2, M2, all) BY <1>4, <1>15, <1>16, <1>20, <1>23, ReadsOptional
<1>34. HasRead(s, F3, M3, all) BY <1>4, <1>17, <1>20, <1>24, <1>33, ReadsOptional
<1>35. HasRead(s, F4, M4, last) BY <1>5, <1>18, <1>21, <1>25, <1>34, ReadsOptional
<1>36. HasRead(s, F5, M5, none) BY <1>6, <1>19, <1>22, <1>26, <1>35, ReadsOptional
<1>37. Replay(NoModes, ModeFlagsOf(m), ModeTexts(m)) = Read(s, F5).modes
  BY <1>12, <1>14, <1>27 DEF Replay, At
<1> QED BY <1>31, <1>32, <1>36, <1>37 DEF At, HasRead

\* What MODE #channel answers gives its reader the modes of the channel, the key
\* and the limit each under its own letter, whenever the key is one word and the
\* line is not cut (Channel::modeString).
THEOREM QueriesAreExact == Spec => []QueryReplays
<1>1. MInv => QueryReplays
  <2> SUFFICES ASSUME MInv, NEW room \in Rooms,
                      Range(ModeTexts(modes)) \subseteq Plain, Fits(ModeString(modes), room)
               PROVE  Heard(NoModes, ModeString(modes), room) = [modes EXCEPT !.ops = {}]
    BY DEF QueryReplays
  <2>1. PICK line : line = ModeString(modes) OBVIOUS
  <2>2. line.flags = ModeFlagsOf(modes) /\ line.params = ModeTexts(modes)
    BY <2>1 DEF ModeString
  <2>3. Heard(NoModes, line, room) = Replay(NoModes, line.flags, line.params)
    BY <2>1, <2>2, WholeArrives
  <2>4. modes \in Modes BY DEF MInv
  <2> QED BY <2>1, <2>2, <2>3, <2>4, QueryIsRead
<1> QED BY <1>1, Invariance, PTL
=============================================================================
