----------------------------- MODULE TextProofs -----------------------------
(***************************************************************************)
(* Theorems about TextInput, for strings of any length over any set of     *)
(* characters.                                                             *)
(***************************************************************************)
EXTENDS TextInput, SequenceTheorems, Induction

Bytes == Seq(Char)

TInv == text \in Bytes /\ alphabet \in DOMAIN Inputs

LEMMA Invariance == Spec => []TInv
<1>1. Init => TInv BY EmptySeq DEF Init, TInv, Bytes
<1>2. TInv /\ [Next]_vars => TInv'
  <2> SUFFICES ASSUME TInv, [Next]_vars PROVE TInv' OBVIOUS
  <2>1. CASE Type
    <3>1. PICK c \in alphabet : text' = Append(text, c) /\ alphabet' = alphabet
      BY <2>1 DEF Type
    <3>2. c \in Char BY InputsAssumption DEF TInv
    <3> QED BY <3>1, <3>2, AppendProperties DEF TInv, Bytes
  <2>2. CASE Clear BY <2>2, EmptySeq DEF Clear, TInv, Bytes
  <2>3. CASE UNCHANGED vars BY <2>3 DEF vars, TInv
  <2> QED BY <2>1, <2>2, <2>3 DEF Next
<1> QED BY <1>1, <1>2, PTL DEF Spec

-----------------------------------------------------------------------------
(* Case folding.                                                           *)

LEMMA LowerByRfc ==
    ASSUME NEW c \in Char, NEW d \in Char
    PROVE  ToIrcLowerChar(c) = ToIrcLowerChar(d) <=> SameByRfc(c, d)
<1>1. <<c, d>> \in CasePairs <=> \/ c \in 65 .. 90 /\ d = c + 32
                                 \/ c = 91 /\ d = 123
                                 \/ c = 92 /\ d = 124
                                 \/ c = 93 /\ d = 125
                                 \/ c = 126 /\ d = 94
  BY DEF CasePairs
<1>2. <<d, c>> \in CasePairs <=> \/ d \in 65 .. 90 /\ c = d + 32
                                 \/ d = 91 /\ c = 123
                                 \/ d = 92 /\ c = 124
                                 \/ d = 93 /\ c = 125
                                 \/ d = 126 /\ c = 94
  BY DEF CasePairs
<1> QED BY <1>1, <1>2 DEF ToIrcLowerChar, SameByRfc, Char

LEMMA SubSeqFacts ==
    ASSUME NEW T, NEW s \in Seq(T), NEW m \in 1 .. Len(s) + 1, NEW n \in m - 1 .. Len(s)
    PROVE  /\ SubSeq(s, m, n) \in Seq(T)
           /\ Len(SubSeq(s, m, n)) = n - m + 1
           /\ \A i \in 1 .. n - m + 1 : SubSeq(s, m, n)[i] = s[m + i - 1]
<1>1. Len(s) \in Nat OBVIOUS
<1>2. m \in Int /\ n \in Int /\ m >= 1 /\ n <= Len(s) /\ m <= n + 1 BY <1>1
<1> QED BY <1>1, <1>2

LEMMA AppendFacts ==
    ASSUME NEW T, NEW s \in Seq(T), NEW e \in T
    PROVE  /\ s \o <<e>> \in Seq(T)
           /\ Len(s \o <<e>>) = Len(s) + 1
           /\ (s \o <<e>>)[Len(s) + 1] = e
           /\ \A i \in 1 .. Len(s) : (s \o <<e>>)[i] = s[i]
OBVIOUS

LEMMA ConcatFacts ==
    ASSUME NEW T, NEW s \in Seq(T), NEW r \in Seq(T), NEW u, u = s \o r
    PROVE  /\ u \in Seq(T) /\ Len(u) = Len(s) + Len(r)
           /\ \A i \in 1 .. Len(s) : u[i] = s[i]
           /\ \A i \in 1 .. Len(r) : u[Len(s) + i] = r[i]
<1>1. Len(s) \in Nat /\ Len(r) \in Nat OBVIOUS
<1>2. u \in Seq(T) /\ Len(u) = Len(s) + Len(r) BY ConcatProperties
<1>3. \A i \in 1 .. Len(s) + Len(r) : u[i] = IF i <= Len(s) THEN s[i] ELSE r[i - Len(s)]
  BY ConcatProperties
<1>4. \A i \in 1 .. Len(s) : u[i] = s[i]
  <2> TAKE i \in 1 .. Len(s)
  <2>1. i \in 1 .. Len(s) + Len(r) /\ i <= Len(s) BY <1>1
  <2> QED BY <2>1, <1>3
<1>5. \A i \in 1 .. Len(r) : u[Len(s) + i] = r[i]
  <2> TAKE i \in 1 .. Len(r)
  <2>1. /\ Len(s) + i \in 1 .. Len(s) + Len(r) /\ ~(Len(s) + i <= Len(s))
        /\ (Len(s) + i) - Len(s) = i
    BY <1>1
  <2> QED BY <2>1, <1>3
<1> QED BY <1>2, <1>4, <1>5

LEMMA FrontFacts ==
    ASSUME NEW T, NEW s \in Seq(T), s # <<>>
    PROVE  \E n \in Nat : /\ Len(s) = n + 1
                          /\ Front(s) \in Seq(T)
                          /\ Len(Front(s)) = n
                          /\ \A i \in 1 .. n : Front(s)[i] = s[i]
                          /\ Last(s) = s[n + 1] /\ Last(s) \in T
<1>1. Len(s) \in Nat /\ Len(s) # 0 OBVIOUS
<1>2. PICK n \in Nat : Len(s) = n + 1
  <2>1. PICK k \in Nat : k = Len(s) BY <1>1
  <2>2. k # 0 BY <1>1, <2>1
  <2>3. k - 1 \in Nat /\ k = (k - 1) + 1 BY <2>2
  <2> QED BY <2>1, <2>3
<1>3. 1 \in 1 .. Len(s) + 1 /\ n \in 1 - 1 .. Len(s) BY <1>2
<1>4. /\ SubSeq(s, 1, n) \in Seq(T) /\ Len(SubSeq(s, 1, n)) = n - 1 + 1
      /\ \A i \in 1 .. n - 1 + 1 : SubSeq(s, 1, n)[i] = s[1 + i - 1]
  BY <1>3, SubSeqFacts
<1>5. Len(s) - 1 = n BY <1>2
<1>6. Front(s) = SubSeq(s, 1, n) BY <1>5 DEF Front
<1>7. Last(s) = s[n + 1] /\ s[n + 1] \in T BY <1>2 DEF Last
<1> QED BY <1>2, <1>4, <1>6, <1>7

\* Two strings that agree but in their last character fold alike if those do.
LEMMA FoldLast ==
    ASSUME NEW s \in Bytes, s # <<>>, NEW c \in Char
    PROVE  /\ EqualsIgnoreCase(s, Front(s) \o <<c>>) <=> SameByRfc(Last(s), c)
           /\ (ToIrcLower(s) = ToIrcLower(Front(s) \o <<c>>)) <=> SameByRfc(Last(s), c)
<1>1. PICK n \in Nat : /\ Len(s) = n + 1
                       /\ Front(s) \in Seq(Char)
                       /\ Len(Front(s)) = n
                       /\ \A i \in 1 .. n : Front(s)[i] = s[i]
                       /\ Last(s) = s[n + 1] /\ Last(s) \in Char
  BY FrontFacts DEF Bytes
<1>2. PICK f \in Seq(Char) : f = Front(s) BY <1>1
<1>3. /\ f \o <<c>> \in Seq(Char) /\ Len(f \o <<c>>) = Len(f) + 1
      /\ (f \o <<c>>)[Len(f) + 1] = c
      /\ \A i \in 1 .. Len(f) : (f \o <<c>>)[i] = f[i]
  BY AppendFacts
<1>4. PICK t : t = f \o <<c>> OBVIOUS
<1>5. Len(t) = n + 1 /\ t[n + 1] = c /\ t \in Seq(Char) BY <1>1, <1>2, <1>3, <1>4
<1>6. \A i \in 1 .. n : t[i] = s[i] BY <1>1, <1>2, <1>3, <1>4
<1>7. DOMAIN s = 1 .. n + 1 /\ DOMAIN t = 1 .. n + 1 BY <1>1, <1>5 DEF Bytes
<1>8. ToIrcLowerChar(s[n + 1]) = ToIrcLowerChar(t[n + 1]) <=> SameByRfc(Last(s), c)
  BY <1>1, <1>5, LowerByRfc
<1>9. \A i \in 1 .. n : ToIrcLowerChar(s[i]) = ToIrcLowerChar(t[i]) BY <1>6
<1>10. (\A i \in 1 .. n + 1 : ToIrcLowerChar(s[i]) = ToIrcLowerChar(t[i]))
         <=> SameByRfc(Last(s), c)
  <2>1. \A i \in 1 .. n + 1 : i \in 1 .. n \/ i = n + 1 OBVIOUS
  <2>2. n + 1 \in 1 .. n + 1 OBVIOUS
  <2> QED BY <2>1, <2>2, <1>8, <1>9
<1>11. EqualsIgnoreCase(s, t) <=> SameByRfc(Last(s), c)
  BY <1>1, <1>5, <1>7, <1>10 DEF EqualsIgnoreCase
<1>12. (ToIrcLower(s) = ToIrcLower(t))
        <=> \A i \in 1 .. n + 1 : ToIrcLowerChar(s[i]) = ToIrcLowerChar(t[i])
  <2>1. /\ ToIrcLower(s) = [i \in 1 .. n + 1 |-> ToIrcLowerChar(s[i])]
        /\ ToIrcLower(t) = [i \in 1 .. n + 1 |-> ToIrcLowerChar(t[i])]
    BY <1>7 DEF ToIrcLower
  <2> QED BY <2>1
<1>13. Front(s) \o <<c>> = t BY <1>2, <1>4
<1> QED BY <1>10, <1>11, <1>12, <1>13

\* Two names are one exactly when RFC 1459 says so, for the comparison and for the
\* key of the channel table alike (toIrcLowerChar, equalsIgnoreCase).
THEOREM FoldingIsByRfc == Spec => []FoldsByRfc
<1>1. TInv => FoldsByRfc
  <2> SUFFICES ASSUME TInv, NEW c \in alphabet,
                      NEW other, other = IF text = <<>> THEN <<>> ELSE Front(text) \o <<c>>,
                      NEW same, same = (text = <<>> \/ SameByRfc(Last(text), c))
               PROVE  /\ EqualsIgnoreCase(text, other) <=> same
                      /\ (ToIrcLower(text) = ToIrcLower(other)) <=> same
    BY DEF FoldsByRfc
  <2>1. c \in Char BY InputsAssumption DEF TInv
  <2>2. CASE text = <<>> BY <2>2 DEF EqualsIgnoreCase
  <2>3. CASE text # <<>> BY <2>1, <2>3, FoldLast DEF TInv
  <2> QED BY <2>2, <2>3
<1> QED BY <1>1, Invariance, PTL

-----------------------------------------------------------------------------
(* Finding a character.                                                    *)

LEMMA MinFacts ==
    ASSUME NEW S \in SUBSET Nat, S # {}
    PROVE  Min(S) \in S /\ \A m \in S : Min(S) <= m
<1>1. \E n \in S : \A m \in S : n <= m BY LeastNatural
<1> QED BY <1>1 DEF Min

\* p is the first position from i on that is in the set, or the end.
FirstFrom(p, s, i, Hits) ==
    /\ p \in i .. Len(s) + 1
    /\ p <= Len(s) => p \in Hits
    /\ \A j \in i .. p - 1 : j \notin Hits

LEMMA FirstExists ==
    ASSUME NEW s \in Bytes, NEW i \in 1 .. Len(s) + 1, NEW Hits,
           NEW p, p = Min((Hits \cap (i .. Len(s))) \cup {Len(s) + 1})
    PROVE  FirstFrom(p, s, i, Hits)
<1> DEFINE S == (Hits \cap (i .. Len(s))) \cup {Len(s) + 1}
           n == Len(s)
<1>1. n \in Nat /\ i \in Nat /\ i <= n + 1 /\ 1 <= i BY DEF Bytes
<1>2. S \in SUBSET Nat /\ S # {} BY <1>1
<1>3. p \in S /\ \A m \in S : p <= m BY <1>2, MinFacts
<1>4. p \in i .. n + 1 /\ (p <= n => p \in Hits) BY <1>1, <1>3
<1>5. \A j \in i .. p - 1 : j \notin Hits
  <2> SUFFICES ASSUME NEW j \in i .. p - 1, j \in Hits PROVE FALSE OBVIOUS
  <2>1. j \in i .. n BY <1>1, <1>4
  <2>2. j \in S BY <2>1
  <2>3. p <= j BY <2>2, <1>3
  <2> QED BY <1>4, <2>1, <2>3
<1> QED BY <1>4, <1>5 DEF FirstFrom

LEMMA FirstIsUnique ==
    ASSUME NEW s \in Bytes, NEW i \in 1 .. Len(s) + 1, NEW Hits,
           NEW p, FirstFrom(p, s, i, Hits), NEW q, FirstFrom(q, s, i, Hits)
    PROVE  p = q
<1> DEFINE n == Len(s)
<1>1. n \in Nat BY DEF Bytes
<1>2. /\ p \in i .. n + 1 /\ (p <= n => p \in Hits) /\ \A j \in i .. p - 1 : j \notin Hits
      /\ q \in i .. n + 1 /\ (q <= n => q \in Hits) /\ \A j \in i .. q - 1 : j \notin Hits
  BY DEF FirstFrom
<1> HIDE DEF n
<1>3. i \in Nat /\ p \in Nat /\ q \in Nat BY <1>1, <1>2
<1>4. p < q => FALSE
  <2> SUFFICES ASSUME p < q PROVE FALSE OBVIOUS
  <2>1. p <= n /\ p \in i .. q - 1 BY <1>1, <1>2, <1>3
  <2> QED BY <2>1, <1>2
<1>5. q < p => FALSE
  <2> SUFFICES ASSUME q < p PROVE FALSE OBVIOUS
  <2>1. q <= n /\ q \in i .. p - 1 BY <1>1, <1>2, <1>3
  <2> QED BY <2>1, <1>2
<1> QED BY <1>3, <1>4, <1>5

\* Where c is in s, and where something else than a space is.
At(s, c) == {j \in 1 .. Len(s) : s[j] = c}
NoSpaceAt(s) == {j \in 1 .. Len(s) : s[j] # SPACE}

\* What find and the skipping of spaces return.
LEMMA FindIsFirst ==
    ASSUME NEW s \in Bytes, NEW c, NEW i \in 1 .. Len(s) + 1
    PROVE  /\ FirstFrom(Find(s, c, i), s, i, At(s, c))
           /\ FirstFrom(SkipSpaces(s, i), s, i, NoSpaceAt(s))
<1>1. Len(s) \in Nat BY DEF Bytes
<1>2. At(s, c) \cap (i .. Len(s)) = {j \in i .. Len(s) : s[j] = c} BY <1>1 DEF At
<1>3. NoSpaceAt(s) \cap (i .. Len(s)) = {j \in i .. Len(s) : s[j] # SPACE}
  BY <1>1 DEF NoSpaceAt
<1>4. /\ Find(s, c, i) = Min((At(s, c) \cap (i .. Len(s))) \cup {Len(s) + 1})
      /\ SkipSpaces(s, i) = Min((NoSpaceAt(s) \cap (i .. Len(s))) \cup {Len(s) + 1})
  BY <1>2, <1>3 DEF Find, SkipSpaces
<1>5. PICK H : H = At(s, c) OBVIOUS
<1>6. PICK p : p = Find(s, c, i) OBVIOUS
<1>7. FirstFrom(p, s, i, H) BY <1>4, <1>5, <1>6, FirstExists
<1>8. PICK K : K = NoSpaceAt(s) OBVIOUS
<1>9. PICK q : q = SkipSpaces(s, i) OBVIOUS
<1>10. FirstFrom(q, s, i, K) BY <1>4, <1>8, <1>9, FirstExists
<1> QED BY <1>5, <1>6, <1>7, <1>8, <1>9, <1>10

LEMMA FindFacts ==
    ASSUME NEW s \in Bytes, NEW c, NEW i \in 1 .. Len(s) + 1
    PROVE  /\ Find(s, c, i) \in i .. Len(s) + 1
           /\ Find(s, c, i) <= Len(s) => s[Find(s, c, i)] = c
           /\ \A j \in i .. Find(s, c, i) - 1 : s[j] # c
<1>1. Len(s) \in Nat BY DEF Bytes
<1>2. PICK p : p = Find(s, c, i) OBVIOUS
<1>3. FirstFrom(p, s, i, At(s, c)) BY <1>2, FindIsFirst
<1>4. /\ p \in i .. Len(s) + 1 /\ (p <= Len(s) => p \in At(s, c))
      /\ \A j \in i .. p - 1 : j \notin At(s, c)
  BY <1>3 DEF FirstFrom
<1>5. \A j \in i .. p - 1 : j \in 1 .. Len(s) BY <1>1, <1>4
<1> QED BY <1>2, <1>4, <1>5 DEF At

LEMMA SkipFacts ==
    ASSUME NEW s \in Bytes, NEW i \in 1 .. Len(s) + 1
    PROVE  /\ SkipSpaces(s, i) \in i .. Len(s) + 1
           /\ SkipSpaces(s, i) <= Len(s) => s[SkipSpaces(s, i)] # SPACE
           /\ \A j \in i .. SkipSpaces(s, i) - 1 : s[j] = SPACE
<1>1. Len(s) \in Nat BY DEF Bytes
<1>2. PICK p : p = SkipSpaces(s, i) OBVIOUS
<1>3. FirstFrom(p, s, i, NoSpaceAt(s)) BY <1>2, FindIsFirst
<1>4. /\ p \in i .. Len(s) + 1 /\ (p <= Len(s) => p \in NoSpaceAt(s))
      /\ \A j \in i .. p - 1 : j \notin NoSpaceAt(s)
  BY <1>3 DEF FirstFrom
<1>5. \A j \in i .. p - 1 : j \in 1 .. Len(s) BY <1>1, <1>4
<1> QED BY <1>2, <1>4, <1>5 DEF NoSpaceAt

\* The first one is found wherever it is.
LEMMA FindIs ==
    ASSUME NEW s \in Bytes, NEW c, NEW i \in 1 .. Len(s) + 1, NEW p \in i .. Len(s) + 1,
           p <= Len(s) => s[p] = c, \A j \in i .. p - 1 : s[j] # c
    PROVE  Find(s, c, i) = p
<1>1. Len(s) \in Nat BY DEF Bytes
<1>2. PICK q : q = Find(s, c, i) OBVIOUS
<1>3. PICK H : H = At(s, c) OBVIOUS
<1>4. FirstFrom(q, s, i, H) BY <1>2, <1>3, FindIsFirst
<1>5. FirstFrom(p, s, i, H)
  <2>1. p <= Len(s) => p \in 1 .. Len(s) BY <1>1
  <2> QED BY <2>1, <1>3 DEF FirstFrom, At
<1>6. p = q BY <1>4, <1>5, FirstIsUnique
<1> QED BY <1>2, <1>6

LEMMA SkipIs ==
    ASSUME NEW s \in Bytes, NEW i \in 1 .. Len(s) + 1, NEW p \in i .. Len(s) + 1,
           p <= Len(s) => s[p] # SPACE, \A j \in i .. p - 1 : s[j] = SPACE
    PROVE  SkipSpaces(s, i) = p
<1>1. Len(s) \in Nat BY DEF Bytes
<1>2. PICK q : q = SkipSpaces(s, i) OBVIOUS
<1>3. PICK H : H = NoSpaceAt(s) OBVIOUS
<1>4. FirstFrom(q, s, i, H) BY <1>2, <1>3, FindIsFirst
<1>5. FirstFrom(p, s, i, H)
  <2>1. p <= Len(s) => p \in 1 .. Len(s) BY <1>1
  <2> QED BY <2>1, <1>3 DEF FirstFrom, NoSpaceAt
<1>6. p = q BY <1>4, <1>5, FirstIsUnique
<1> QED BY <1>2, <1>6

-----------------------------------------------------------------------------
(* Splitting.                                                              *)

\* The field that starts at i.
Field(s, d, i) == SubSeq(s, i, Find(s, d, i) - 1)

\* F gives the fields from each position on.
SplitsInto(F, s, d) ==
    \A i \in 1 .. Len(s) + 1 :
        F[i] = IF Find(s, d, i) > Len(s) THEN <<Field(s, d, i)>>
               ELSE <<Field(s, d, i)>> \o F[Find(s, d, i) + 1]

LEMMA FieldFacts ==
    ASSUME NEW s \in Bytes, NEW d, NEW i \in 1 .. Len(s) + 1
    PROVE  /\ Field(s, d, i) \in Bytes
           /\ Len(Field(s, d, i)) = Find(s, d, i) - i
           /\ \A j \in 1 .. Find(s, d, i) - i : /\ Field(s, d, i)[j] = s[i + j - 1]
                                                /\ Field(s, d, i)[j] # d
<1>1. Len(s) \in Nat BY DEF Bytes
<1>2. PICK n \in i - 1 .. Len(s) : n = Find(s, d, i) - 1
  <2>1. Find(s, d, i) \in i .. Len(s) + 1 BY FindFacts
  <2>2. Find(s, d, i) - 1 \in i - 1 .. Len(s) BY <2>1, <1>1
  <2> QED BY <2>2
<1>3. /\ SubSeq(s, i, n) \in Seq(Char) /\ Len(SubSeq(s, i, n)) = n - i + 1
      /\ \A j \in 1 .. n - i + 1 : SubSeq(s, i, n)[j] = s[i + j - 1]
  BY SubSeqFacts DEF Bytes
<1>4. PICK p \in i .. Len(s) + 1 : p = Find(s, d, i) BY FindFacts
<1>5. n = p - 1 /\ n - i + 1 = p - i BY <1>1, <1>2, <1>4
<1>6. \A j \in i .. p - 1 : s[j] # d BY <1>4, FindFacts
<1>7. \A j \in 1 .. p - i : i + j - 1 \in i .. p - 1 BY <1>1, <1>4
<1>8. Field(s, d, i) = SubSeq(s, i, n) BY <1>2 DEF Field
<1> QED BY <1>3, <1>4, <1>5, <1>6, <1>7, <1>8 DEF Bytes

LEMMA SplitUnrolls ==
    ASSUME NEW s \in Bytes, NEW d
    PROVE  \E F : SplitsInto(F, s, d) /\ Split(s, d) = F[1]
<1> DEFINE N == Len(s) + 1
           D == 1 .. N
           V == Seq(Bytes)
           next == [i \in D |-> Find(s, d, i) + 1]
           b == [i \in D |-> <<Field(s, d, i)>>]
           G == [q \in D \X V |-> <<Field(s, d, q[1])>> \o q[2]]
           rank == [i \in D |-> N - i]
           F == CHOOSE F : F = [i \in D |->
                   IF Find(s, d, i) > Len(s) THEN <<Field(s, d, i)>>
                   ELSE <<Field(s, d, i)>> \o F[Find(s, d, i) + 1]]
<1>1. Len(s) \in Nat /\ N \in Nat BY DEF Bytes
<1>2. \A i \in D : /\ Field(s, d, i) \in Bytes
                   /\ Find(s, d, i) \in i .. N
  BY FieldFacts, FindFacts
<1>3. Split(s, d) = F[1] BY DEF Split, Field
<1>4. \A i \in D : next[i] \in D <=> Find(s, d, i) <= Len(s) BY <1>1, <1>2
<1>5. rank \in [D -> 0 .. N] BY <1>1
<1>6. \A i \in D : next[i] \in D => rank[next[i]] < rank[i] BY <1>1, <1>2
<1>7. b \in [D -> V]
  <2>1. \A i \in D : <<Field(s, d, i)>> \in V BY <1>2
  <2> QED BY <2>1
<1>8. G \in [D \X V -> V]
  <2>1. \A i \in D : <<Field(s, d, i)>> \in V BY <1>2
  <2>2. \A i \in D, r \in V : <<Field(s, d, i)>> \o r \in V BY <2>1, ConcatProperties
  <2> QED BY <2>2
<1>9. \A i \in D, r \in V : G[<<i, r>>] = <<Field(s, d, i)>> \o r OBVIOUS
<1>10. \A i \in D : b[i] = <<Field(s, d, i)>> /\ next[i] = Find(s, d, i) + 1 OBVIOUS
<1> HIDE DEF D, V, next, b, G, rank
<1>11. PICK f \in [D -> V] : Descends(f, D, b, next, G)
  <2>1. PICK M \in Nat : M = N BY <1>1
  <2>2. rank \in [D -> 0 .. M] BY <2>1, <1>5
  <2> HIDE DEF N
  <2> QED BY <2>2, <1>6, <1>7, <1>8, DescentExists
<1>12. \A i \in D : f[i] = IF Find(s, d, i) > Len(s) THEN <<Field(s, d, i)>>
                           ELSE <<Field(s, d, i)>> \o f[Find(s, d, i) + 1]
  <2> TAKE i \in D
  <2>1. f[i] = IF next[i] \in D THEN G[<<i, f[next[i]]>>] ELSE b[i]
    BY <1>11 DEF Descends, Descent
  <2>2. CASE next[i] \notin D
    <3>1. Find(s, d, i) > Len(s) BY <2>2, <1>1, <1>2, <1>4
    <3> QED BY <3>1, <2>1, <2>2, <1>10
  <2>3. CASE next[i] \in D
    <3>1. ~(Find(s, d, i) > Len(s)) BY <2>3, <1>1, <1>2, <1>4
    <3>2. f[next[i]] \in V BY <2>3, <1>11
    <3> QED BY <3>1, <3>2, <2>1, <2>3, <1>9, <1>10
  <2> QED BY <2>2, <2>3
<1>13. F = [i \in D |-> IF Find(s, d, i) > Len(s) THEN <<Field(s, d, i)>>
                        ELSE <<Field(s, d, i)>> \o F[Find(s, d, i) + 1]]
  <2>1. f = [i \in D |-> IF Find(s, d, i) > Len(s) THEN <<Field(s, d, i)>>
                         ELSE <<Field(s, d, i)>> \o f[Find(s, d, i) + 1]]
    BY <1>12
  <2> QED BY <2>1
<1> HIDE DEF F
<1>14. \A i \in D : F[i] = IF Find(s, d, i) > Len(s) THEN <<Field(s, d, i)>>
                           ELSE <<Field(s, d, i)>> \o F[Find(s, d, i) + 1]
  BY <1>13, Zenon
<1>15. SplitsInto(F, s, d) BY <1>14 DEF SplitsInto, D
<1> QED BY <1>3, <1>15

LEMMA SplitTyped ==
    ASSUME NEW s \in Bytes, NEW d, NEW F, SplitsInto(F, s, d)
    PROVE  \A i \in 1 .. Len(s) + 1 : F[i] \in Seq(Bytes) /\ Len(F[i]) >= 1
<1> DEFINE N == Len(s) + 1
           S == {i \in 1 .. N : F[i] \in Seq(Bytes) /\ Len(F[i]) >= 1}
<1>1. Len(s) \in Nat /\ N \in Nat BY DEF Bytes
<1>2. ASSUME NEW i \in 1 .. N, \A j \in i + 1 .. N : j \in S PROVE i \in S
  <2>1. PICK p \in i .. N : p = Find(s, d, i) BY FindFacts
  <2>2. PICK w \in Bytes : w = Field(s, d, i) BY FieldFacts
  <2>3. F[i] = IF p > Len(s) THEN <<w>> ELSE <<w>> \o F[p + 1]
    BY <2>1, <2>2 DEF SplitsInto
  <2>4. CASE p > Len(s)
    <3>1. PICK v : v = <<w>> OBVIOUS
    <3>2. v \in Seq(Bytes) /\ Len(v) >= 1 BY <3>1
    <3>3. F[i] = v BY <2>3, <2>4, <3>1
    <3> QED BY <3>2, <3>3
  <2>5. CASE ~(p > Len(s))
    <3>1. p + 1 \in i + 1 .. N BY <2>1, <2>5, <1>1
    <3>2. PICK r \in Seq(Bytes) : r = F[p + 1] BY <3>1, <1>2
    <3>3. F[i] = <<w>> \o r BY <2>3, <2>5, <3>2
    <3>4. <<w>> \in Seq(Bytes) /\ Len(<<w>>) = 1 OBVIOUS
    <3>5. <<w>> \o r \in Seq(Bytes) /\ Len(<<w>> \o r) = 1 + Len(r) BY <3>4, ConcatProperties
    <3>6. Len(r) \in Nat OBVIOUS
    <3>7. PICK v : v = <<w>> \o r OBVIOUS
    <3>8. v \in Seq(Bytes) /\ Len(v) >= 1 BY <3>5, <3>6, <3>7
    <3>9. F[i] = v BY <3>3, <3>7
    <3> QED BY <3>8, <3>9
  <2> QED BY <2>4, <2>5
<1> HIDE DEF S, N
<1>3. \A i \in 1 .. N : i \in S BY <1>1, <1>2, DownwardInduction
<1> QED BY <1>3 DEF S, N

\* J joins the fields from each one on.
Joins(J, fields) ==
    \A i \in 1 .. Len(fields) :
        J[i] = IF i < Len(fields) THEN (fields[i] \o <<COMMA>>) \o J[i + 1] ELSE fields[i]

LEMMA JoinedUnrolls ==
    ASSUME NEW fields \in Seq(Bytes)
    PROVE  \E J : Joins(J, fields) /\ Joined(fields) = J[1]
<1> DEFINE N == Len(fields)
           D == 1 .. N
           next == [i \in D |-> i + 1]
           G == [q \in D \X Bytes |-> (fields[q[1]] \o <<COMMA>>) \o q[2]]
           b == [i \in D |-> fields[i]]
           rank == [i \in D |-> N - i]
           J == CHOOSE J : J = [i \in D |-> IF i < N THEN (fields[i] \o <<COMMA>>) \o J[i + 1]
                                            ELSE fields[i]]
<1>1. N \in Nat /\ \A i \in D : fields[i] \in Bytes OBVIOUS
<1>2. Joined(fields) = J[1] BY DEF Joined
<1>3. <<COMMA>> \in Bytes BY DEF Bytes, Char, COMMA
<1>4. \A i \in D, r \in Bytes : (fields[i] \o <<COMMA>>) \o r \in Bytes
  BY <1>1, <1>3, ConcatProperties DEF Bytes
<1>5. G \in [D \X Bytes -> Bytes] BY <1>4
<1>6. b \in [D -> Bytes] BY <1>1
<1>7. rank \in [D -> 0 .. N] BY <1>1
<1>8. \A i \in D : (next[i] \in D <=> i < N) /\ (next[i] \in D => rank[next[i]] < rank[i])
  BY <1>1
<1>9. /\ \A i \in D, r \in Bytes : G[<<i, r>>] = (fields[i] \o <<COMMA>>) \o r
      /\ \A i \in D : b[i] = fields[i] /\ next[i] = i + 1
  OBVIOUS
<1> HIDE DEF N, D, next, G, b, rank
<1>10. PICK f \in [D -> Bytes] : Descends(f, D, b, next, G)
  BY <1>1, <1>5, <1>6, <1>7, <1>8, DescentExists
<1>11. \A i \in D : f[i] = IF i < N THEN (fields[i] \o <<COMMA>>) \o f[i + 1] ELSE fields[i]
  <2> TAKE i \in D
  <2>1. f[i] = IF next[i] \in D THEN G[<<i, f[next[i]]>>] ELSE b[i]
    BY <1>10 DEF Descends, Descent
  <2>2. next[i] \in D => f[next[i]] \in Bytes BY <1>10
  <2>3. CASE next[i] \in D
    <3>1. PICK r \in Bytes : r = f[next[i]] BY <2>2, <2>3
    <3>2. f[i] = (fields[i] \o <<COMMA>>) \o r BY <2>1, <2>3, <3>1, <1>9
    <3>3. r = f[i + 1] /\ i < N BY <3>1, <2>3, <1>8, <1>9
    <3> QED BY <3>2, <3>3
  <2>4. CASE next[i] \notin D
    <3>1. ~(i < N) BY <2>4, <1>8
    <3>2. f[i] = fields[i] BY <2>1, <2>4, <1>9
    <3> QED BY <3>1, <3>2
  <2> QED BY <2>3, <2>4
<1>12. J = [i \in D |-> IF i < N THEN (fields[i] \o <<COMMA>>) \o J[i + 1] ELSE fields[i]]
  <2>1. f = [i \in D |-> IF i < N THEN (fields[i] \o <<COMMA>>) \o f[i + 1] ELSE fields[i]]
    BY <1>11
  <2> QED BY <2>1
<1> HIDE DEF J
<1>13. \A i \in D : J[i] = IF i < N THEN (fields[i] \o <<COMMA>>) \o J[i + 1] ELSE fields[i]
  BY <1>12, Zenon
<1>14. Joins(J, fields) BY <1>13 DEF Joins, D, N
<1> QED BY <1>2, <1>14

DelimsFrom(s, d, i) == {j \in i .. Len(s) : s[j] = d}

\* One field more than delimiters.
LEMMA FieldsCount ==
    ASSUME NEW s \in Bytes, NEW d, NEW F, SplitsInto(F, s, d)
    PROVE  \A i \in 1 .. Len(s) + 1 : Len(F[i]) = 1 + Cardinality(DelimsFrom(s, d, i))
<1> DEFINE N == Len(s) + 1
           S == {i \in 1 .. N : Len(F[i]) = 1 + Cardinality(DelimsFrom(s, d, i))}
<1>1. Len(s) \in Nat /\ N \in Nat BY DEF Bytes
<1>2. ASSUME NEW i \in 1 .. N, \A j \in i + 1 .. N : j \in S PROVE i \in S
  <2>1. PICK p \in i .. N : p = Find(s, d, i) BY FindFacts
  <2>2. PICK w \in Bytes : w = Field(s, d, i) BY FieldFacts
  <2>3. F[i] = IF p > Len(s) THEN <<w>> ELSE <<w>> \o F[p + 1]
    BY <2>1, <2>2 DEF SplitsInto
  <2>4. (p <= Len(s) => s[p] = d) /\ \A j \in i .. p - 1 : s[j] # d BY <2>1, FindFacts
  <2>5. CASE p > Len(s)
    <3>1. DelimsFrom(s, d, i) = {} BY <2>1, <2>4, <2>5, <1>1 DEF DelimsFrom
    <3>2. Cardinality(DelimsFrom(s, d, i)) = 0 BY <3>1, FS_EmptySet
    <3>3. PICK v : v = <<w>> OBVIOUS
    <3>4. Len(v) = 1 BY <3>3
    <3>5. F[i] = v BY <2>3, <2>5, <3>3
    <3> QED BY <3>2, <3>4, <3>5
  <2>6. CASE ~(p > Len(s))
    <3>1. p + 1 \in i + 1 .. N /\ p + 1 \in 1 .. N BY <2>1, <2>6, <1>1
    <3>2. F[p + 1] \in Seq(Bytes) BY <3>1, SplitTyped
    <3>3. PICK r \in Seq(Bytes) : r = F[p + 1] BY <3>2
    <3>4. PICK D : D = DelimsFrom(s, d, p + 1) OBVIOUS
    <3>5. Len(r) = 1 + Cardinality(D) BY <3>1, <3>3, <3>4, <1>2
    <3>6. DelimsFrom(s, d, i) = D \cup {p} /\ p \notin D
      BY <2>1, <2>4, <2>6, <3>4, <1>1 DEF DelimsFrom
    <3>7. IsFiniteSet(D)
      <4>1. IsFiniteSet(p + 1 .. Len(s)) BY <3>1, <1>1, FS_Interval
      <4>2. D \subseteq p + 1 .. Len(s) BY <3>4 DEF DelimsFrom
      <4> QED BY <4>1, <4>2, FS_Subset
    <3>8. Cardinality(D \cup {p}) = Cardinality(D) + 1 /\ Cardinality(D) \in Nat
      BY <3>6, <3>7, FS_AddElement, FS_CardinalityType
    <3>9. <<w>> \in Seq(Bytes) /\ Len(<<w>>) = 1 OBVIOUS
    <3>10. Len(<<w>> \o r) = 1 + Len(r) BY <3>9, ConcatProperties
    <3>11. PICK v : v = <<w>> \o r OBVIOUS
    <3>12. F[i] = v BY <2>3, <2>6, <3>3, <3>11
    <3>13. Len(v) = 1 + (Cardinality(D) + 1) BY <3>5, <3>8, <3>10, <3>11
    <3> QED BY <3>6, <3>8, <3>12, <3>13
  <2> QED BY <2>5, <2>6
<1> HIDE DEF S, N
<1>3. \A i \in 1 .. N : i \in S BY <1>1, <1>2, DownwardInduction
<1> QED BY <1>3 DEF S, N

\* No field holds the delimiter.
LEMMA FieldsAreClean ==
    ASSUME NEW s \in Bytes, NEW d, NEW F, SplitsInto(F, s, d)
    PROVE  \A i \in 1 .. Len(s) + 1 : \A k \in DOMAIN F[i] : d \notin ToSet(F[i][k])
<1> DEFINE N == Len(s) + 1
           S == {i \in 1 .. N : \A k \in DOMAIN F[i] : d \notin ToSet(F[i][k])}
<1>1. Len(s) \in Nat /\ N \in Nat BY DEF Bytes
<1>2. ASSUME NEW i \in 1 .. N, \A j \in i + 1 .. N : j \in S PROVE i \in S
  <2>1. PICK p \in i .. N : p = Find(s, d, i) BY FindFacts
  <2>2. PICK w \in Bytes : w = Field(s, d, i) BY FieldFacts
  <2>3. F[i] = IF p > Len(s) THEN <<w>> ELSE <<w>> \o F[p + 1]
    BY <2>1, <2>2 DEF SplitsInto
  <2>4. d \notin ToSet(w)
    <3>1. Len(w) = p - i /\ \A j \in 1 .. p - i : w[j] # d BY <2>1, <2>2, FieldFacts
    <3>2. DOMAIN w = 1 .. Len(w) BY DEF Bytes
    <3> QED BY <3>1, <3>2 DEF ToSet
  <2>5. CASE p > Len(s)
    <3>1. PICK v : v = <<w>> OBVIOUS
    <3>2. DOMAIN v = {1} /\ v[1] = w BY <3>1
    <3>3. F[i] = v BY <2>3, <2>5, <3>1
    <3> QED BY <2>4, <3>2, <3>3
  <2>6. CASE ~(p > Len(s))
    <3>1. p + 1 \in i + 1 .. N /\ p + 1 \in 1 .. N BY <2>1, <2>6, <1>1
    <3>2. F[p + 1] \in Seq(Bytes) BY <3>1, SplitTyped
    <3>3. PICK r \in Seq(Bytes) : r = F[p + 1] BY <3>2
    <3>4. \A k \in DOMAIN r : d \notin ToSet(r[k]) BY <3>1, <3>3, <1>2
    <3>5. PICK v : v = <<w>> \o r OBVIOUS
    <3>6. F[i] = v BY <2>3, <2>6, <3>3, <3>5
    <3>7. \A k \in DOMAIN v : v[k] = w \/ \E m \in DOMAIN r : v[k] = r[m]
      BY <3>5
    <3> QED BY <2>4, <3>4, <3>6, <3>7
  <2> QED BY <2>5, <2>6
<1> HIDE DEF S, N
<1>3. \A i \in 1 .. N : i \in S BY <1>1, <1>2, DownwardInduction
<1> QED BY <1>3 DEF S, N

LEMMA JoinWhole ==
    ASSUME NEW s \in Bytes, NEW i \in 1 .. Len(s) + 1, NEW p \in i .. Len(s), s[p] = COMMA
    PROVE  (SubSeq(s, i, p - 1) \o <<COMMA>>) \o SubSeq(s, p + 1, Len(s)) = SubSeq(s, i, Len(s))
<1>1. Len(s) \in Nat BY DEF Bytes
<1>2. i \in 1 .. Len(s) /\ p \in i .. Len(s) BY <1>1
<1>3. SubSeq(s, i, p) = SubSeq(s, i, p - 1) \o <<s[p]>>
  BY <1>2, SubSeqRecursiveSecond DEF Bytes
<1>4. i \in 1 .. Len(s) + 1 /\ p \in i - 1 .. Len(s) /\ Len(s) \in p .. Len(s) BY <1>1, <1>2
<1>5. SubSeq(s, i, p) \o SubSeq(s, p + 1, Len(s)) = SubSeq(s, i, Len(s))
  BY <1>4, ConcatAdjacentSubSeq DEF Bytes
<1> QED BY <1>3, <1>5

JoinsFrom(J, F, fields, s) ==
    \A i \in 1 .. Len(s) + 1, pre \in Seq(Bytes) :
        fields = pre \o F[i] => J[Len(pre) + 1] = SubSeq(s, i, Len(s))

\* Joining the fields from i on gives the string from i on, whatever is joined
\* before them.
LEMMA FieldsJoin ==
    ASSUME NEW s \in Bytes, NEW F, SplitsInto(F, s, COMMA),
           NEW fields \in Seq(Bytes), NEW J, Joins(J, fields)
    PROVE  JoinsFrom(J, F, fields, s)
<1> DEFINE N == Len(s) + 1
           S == {i \in 1 .. N : \A pre \in Seq(Bytes) :
                    fields = pre \o F[i] => J[Len(pre) + 1] = SubSeq(s, i, Len(s))}
<1>1. Len(s) \in Nat /\ N \in Nat BY DEF Bytes
<1>2. ASSUME NEW i \in 1 .. N, \A j \in i + 1 .. N : j \in S PROVE i \in S
  <2> SUFFICES ASSUME NEW pre \in Seq(Bytes), fields = pre \o F[i]
               PROVE  J[Len(pre) + 1] = SubSeq(s, i, Len(s))
    OBVIOUS
  <2>1. PICK p \in i .. N : p = Find(s, COMMA, i) BY FindFacts
  <2>2. PICK w \in Bytes : w = Field(s, COMMA, i) BY FieldFacts
  <2>3. F[i] = IF p > Len(s) THEN <<w>> ELSE <<w>> \o F[p + 1]
    BY <2>1, <2>2 DEF SplitsInto
  <2>4. w = SubSeq(s, i, p - 1) BY <2>1, <2>2 DEF Field
  <2>5. PICK k \in Nat : k = Len(pre) + 1 OBVIOUS
  <2>6. PICK one \in Seq(Bytes) : one = <<w>>
    <3>1. <<w>> \in Seq(Bytes) OBVIOUS
    <3> QED BY <3>1
  <2>7. Len(one) = 1 /\ one[1] = w BY <2>6
  <2>8. CASE p > Len(s)
    <3>1. fields = pre \o one BY <2>3, <2>6, <2>8
    <3>2. Len(fields) = k /\ fields[k] = w
      <4>1. /\ Len(fields) = Len(pre) + Len(one)
            /\ \A j \in 1 .. Len(one) : fields[Len(pre) + j] = one[j]
        BY <3>1, ConcatFacts
      <4>2. fields[Len(pre) + 1] = one[1] BY <4>1, <2>7
      <4> QED BY <4>1, <4>2, <2>5, <2>7
    <3>3. k \in 1 .. Len(fields) BY <3>2, <2>5
    <3>4. J[k] = w BY <3>2, <3>3 DEF Joins
    <3>5. p - 1 = Len(s) BY <2>1, <2>8, <1>1
    <3> QED BY <3>4, <3>5, <2>4, <2>5
  <2>9. CASE ~(p > Len(s))
    <3>1. p + 1 \in i + 1 .. N /\ p + 1 \in 1 .. N /\ p \in i .. Len(s)
      BY <2>1, <2>9, <1>1
    <3>2. F[p + 1] \in Seq(Bytes) /\ Len(F[p + 1]) >= 1 BY <3>1, SplitTyped
    <3>3. PICK r \in Seq(Bytes) : r = F[p + 1] BY <3>2
    <3>4. fields = pre \o (one \o r) BY <2>3, <2>6, <2>9, <3>3
    <3>5. fields = (pre \o one) \o r
      <4>1. (pre \o one) \o r = pre \o (one \o r) BY ConcatAssociative
      <4> QED BY <3>4, <4>1
    <3>6. PICK fore \in Seq(Bytes) : fore = pre \o one BY ConcatProperties
    <3>7. Len(fore) = k /\ fore[k] = w
      <4>1. /\ Len(fore) = Len(pre) + Len(one)
            /\ \A j \in 1 .. Len(one) : fore[Len(pre) + j] = one[j]
        BY <3>6, ConcatFacts
      <4>2. fore[Len(pre) + 1] = one[1] BY <4>1, <2>7
      <4> QED BY <4>1, <4>2, <2>5, <2>7
    <3>8. fields = fore \o r BY <3>5, <3>6
    <3>9. J[k + 1] = SubSeq(s, p + 1, Len(s)) BY <3>1, <3>3, <3>7, <3>8, <1>2
    <3>10. Len(r) \in Nat /\ Len(r) >= 1 BY <3>2, <3>3
    <3>11. Len(fields) = k + Len(r)
      <4>1. Len(fields) = Len(fore) + Len(r) BY <3>8, ConcatFacts
      <4> QED BY <4>1, <3>7
    <3>12. fields[k] = w
      <4>1. \A j \in 1 .. Len(fore) : fields[j] = fore[j] BY <3>8, ConcatFacts
      <4>2. k \in 1 .. Len(fore) BY <3>7, <2>5
      <4> QED BY <4>1, <4>2, <3>7
    <3>13. k \in 1 .. Len(fields) /\ k < Len(fields) BY <3>10, <3>11, <2>5
    <3>14. J[k] = (w \o <<COMMA>>) \o J[k + 1] BY <3>12, <3>13 DEF Joins
    <3>15. s[p] = COMMA BY <2>1, <3>1, FindFacts
    <3>16. (SubSeq(s, i, p - 1) \o <<COMMA>>) \o SubSeq(s, p + 1, Len(s))
             = SubSeq(s, i, Len(s))
      BY <3>1, <3>15, JoinWhole
    <3> QED BY <3>9, <3>14, <3>16, <2>4, <2>5
  <2> QED BY <2>8, <2>9
<1> HIDE DEF S, N
<1>3. \A i \in 1 .. N : i \in S BY <1>1, <1>2, DownwardInduction
<1> QED BY <1>3 DEF S, N, JoinsFrom

\* The fields of a list stay aligned: one more than its commas, none with a comma,
\* and joined they are the list (split, which parses channel and key lists).
THEOREM SplittingIsExact == Spec => []SplitInverts
<1>1. TInv => SplitInverts
  <2> SUFFICES ASSUME TInv PROVE SplitInverts OBVIOUS
  <2>1. text \in Bytes BY DEF TInv
  <2>2. Len(text) \in Nat /\ DOMAIN text = 1 .. Len(text) BY <2>1 DEF Bytes
  <2>3. PICK F : SplitsInto(F, text, COMMA) /\ Split(text, COMMA) = F[1]
    BY <2>1, SplitUnrolls
  <2>4. 1 \in 1 .. Len(text) + 1 BY <2>2
  <2>5. F[1] \in Seq(Bytes) BY <2>1, <2>3, <2>4, SplitTyped
  <2>6. Len(F[1]) = 1 + Cardinality(DelimsFrom(text, COMMA, 1))
    BY <2>1, <2>3, <2>4, FieldsCount
  <2>7. DelimsFrom(text, COMMA, 1) = {i \in DOMAIN text : text[i] = COMMA}
    BY <2>2 DEF DelimsFrom
  <2>8. \A k \in DOMAIN F[1] : COMMA \notin ToSet(F[1][k])
    BY <2>1, <2>3, <2>4, FieldsAreClean
  <2>9. PICK fields \in Seq(Bytes) : fields = F[1] BY <2>5
  <2>10. PICK J : Joins(J, fields) /\ Joined(fields) = J[1] BY JoinedUnrolls
  <2>11. PICK pre \in Seq(Bytes) : pre = <<>> BY EmptySeq
  <2>12. fields = pre \o F[1] /\ Len(pre) + 1 = 1 BY <2>9, <2>11, ConcatEmptySeq
  <2>13. J[Len(pre) + 1] = SubSeq(text, 1, Len(text))
    <3>1. PICK s \in Bytes : s = text BY <2>1
    <3>2. SplitsInto(F, s, COMMA) /\ Joins(J, fields) BY <3>1, <2>3, <2>10
    <3>3. JoinsFrom(J, F, fields, s) BY <3>2, FieldsJoin
    <3> QED BY <3>1, <3>3, <2>4, <2>12 DEF JoinsFrom
  <2>14. SubSeq(text, 1, Len(text)) = text BY <2>1, SubSeqFull DEF Bytes
  <2>15. Joined(F[1]) = text BY <2>9, <2>10, <2>12, <2>13, <2>14
  <2> QED BY <2>3, <2>6, <2>7, <2>8, <2>15 DEF SplitInverts
<1> QED BY <1>1, Invariance, PTL

-----------------------------------------------------------------------------
(* Parsing.                                                                *)

\* Where the parameter after the one at i starts.
NextWord(line, i) == SkipSpaces(line, Find(line, SPACE, i))

Marked(line, i) == i <= Len(line) /\ line[i] = COLON

\* P gives the parameters from each position on.
ParsesInto(P, line) ==
    \A i \in 1 .. Len(line) + 1 :
        P[i] = IF i > Len(line) THEN <<>>
               ELSE IF line[i] = COLON THEN <<From(line, i + 1)>>
               ELSE <<Field(line, SPACE, i)>> \o P[NextWord(line, i)]

LEMMA NextWordFacts ==
    ASSUME NEW line \in Bytes, NEW i \in 1 .. Len(line)
    PROVE  NextWord(line, i) \in i + 1 .. Len(line) + 1
<1>1. PICK n \in Nat : n = Len(line) BY DEF Bytes
<1>2. i \in 1 .. n + 1 /\ i \in 1 .. Len(line) + 1 BY <1>1
<1>3. PICK p \in i .. n + 1 : p = Find(line, SPACE, i) BY <1>1, <1>2, FindFacts
<1>4. p \in 1 .. Len(line) + 1 BY <1>1, <1>2, <1>3
<1>5. PICK q \in p .. n + 1 : q = SkipSpaces(line, p) BY <1>1, <1>4, SkipFacts
<1>6. p <= n => line[p] = SPACE BY <1>1, <1>2, <1>3, FindFacts
<1>7. q <= n => line[q] # SPACE BY <1>1, <1>4, <1>5, SkipFacts
<1>8. i <= n BY <1>1
<1>9. q # i
  <2>1. i \in Nat /\ p \in Nat /\ q \in Nat /\ i <= p /\ p <= q BY <1>2, <1>3, <1>5
  <2>2. q = i => p = q /\ p <= n BY <2>1, <1>8
  <2> QED BY <2>2, <1>6, <1>7
<1>10. q \in i + 1 .. n + 1 BY <1>2, <1>3, <1>5, <1>8, <1>9
<1> QED BY <1>1, <1>3, <1>5, <1>10 DEF NextWord

LEMMA FromFacts ==
    ASSUME NEW s \in Bytes, NEW i \in 1 .. Len(s) + 1
    PROVE  /\ From(s, i) \in Bytes /\ Len(From(s, i)) = Len(s) - i + 1
           /\ \A j \in 1 .. Len(s) - i + 1 : From(s, i)[j] = s[i + j - 1]
<1>1. PICK n \in Nat : n = Len(s) BY DEF Bytes
<1>2. n \in i - 1 .. Len(s) BY <1>1
<1>3. /\ SubSeq(s, i, n) \in Seq(Char) /\ Len(SubSeq(s, i, n)) = n - i + 1
      /\ \A j \in 1 .. n - i + 1 : SubSeq(s, i, n)[j] = s[i + j - 1]
  BY <1>2, SubSeqFacts DEF Bytes
<1>4. From(s, i) = SubSeq(s, i, n) BY <1>1 DEF From
<1> QED BY <1>1, <1>3, <1>4 DEF Bytes

LEMMA ParamsUnroll ==
    ASSUME NEW line \in Bytes
    PROVE  \E P : /\ ParsesInto(P, line)
                  /\ \A start \in 1 .. Len(line) + 1 :
                        ParamsFrom(line, start) = P[SkipSpaces(line, start)]
<1> DEFINE N == Len(line) + 1
           D == 1 .. N
           V == Seq(Bytes)
           last(i) == i > Len(line) \/ line[i] = COLON
           next == [i \in D |-> IF last(i) THEN 0 ELSE NextWord(line, i)]
           b == [i \in D |-> IF i > Len(line) \/ ~last(i) THEN <<>> ELSE <<From(line, i + 1)>>]
           G == [q \in D \X V |-> <<Field(line, SPACE, q[1])>> \o q[2]]
           rank == [i \in D |-> N - i]
           P == CHOOSE P : P = [i \in D |->
                   IF i > Len(line) THEN <<>>
                   ELSE IF line[i] = COLON THEN <<From(line, i + 1)>>
                   ELSE <<Field(line, SPACE, i)>> \o P[NextWord(line, i)]]
<1>1. Len(line) \in Nat /\ N \in Nat BY DEF Bytes
<1>2. \A start : ParamsFrom(line, start) = P[SkipSpaces(line, start)]
  BY DEF ParamsFrom, Field, NextWord
<1>3. \A i \in D : ~last(i) => i \in 1 .. Len(line) /\ NextWord(line, i) \in i + 1 .. N
  <2> SUFFICES ASSUME NEW i \in D, ~last(i)
               PROVE  i \in 1 .. Len(line) /\ NextWord(line, i) \in i + 1 .. N
    OBVIOUS
  <2>1. i \in 1 .. Len(line) BY <1>1
  <2> QED BY <2>1, NextWordFacts
<1>4. \A i \in D : next[i] \in D <=> ~last(i)
  <2> TAKE i \in D
  <2>1. CASE last(i) BY <2>1, <1>1
  <2>2. CASE ~last(i)
    <3>1. NextWord(line, i) \in i + 1 .. N BY <2>2, <1>3
    <3>2. NextWord(line, i) \in D BY <3>1, <1>1
    <3>3. next[i] = NextWord(line, i) BY <2>2
    <3> QED BY <3>2, <3>3, <2>2
  <2> QED BY <2>1, <2>2
<1>5. rank \in [D -> 0 .. N] BY <1>1
<1>6. \A i \in D : next[i] \in D => rank[next[i]] < rank[i]
  <2> SUFFICES ASSUME NEW i \in D, next[i] \in D PROVE rank[next[i]] < rank[i] OBVIOUS
  <2>1. ~last(i) BY <1>4
  <2>2. PICK w : w = NextWord(line, i) OBVIOUS
  <2>3. w \in i + 1 .. N BY <2>1, <2>2, <1>3
  <2>4. next[i] = w BY <2>1, <2>2
  <2>5. w \in D BY <2>4
  <2>6. rank[w] = N - w /\ rank[i] = N - i BY <2>5
  <2> QED BY <2>3, <2>4, <2>6, <1>1
<1>7. b \in [D -> V]
  <2>1. \A i \in D : ~(i > Len(line)) => i + 1 \in 1 .. Len(line) + 1 BY <1>1
  <2>2. \A i \in D : ~(i > Len(line)) => From(line, i + 1) \in Bytes BY <2>1, FromFacts
  <2>3. \A i \in D : ~(i > Len(line)) => <<From(line, i + 1)>> \in V BY <2>2
  <2>4. <<>> \in V BY EmptySeq
  <2> QED BY <2>3, <2>4
<1>8. \A i \in D : Field(line, SPACE, i) \in Bytes BY FieldFacts
<1>9. G \in [D \X V -> V]
  <2>1. \A i \in D : <<Field(line, SPACE, i)>> \in V BY <1>8
  <2>2. \A i \in D, r \in V : <<Field(line, SPACE, i)>> \o r \in V BY <2>1, ConcatProperties
  <2> QED BY <2>2
<1>10. \A i \in D, r \in V : G[<<i, r>>] = <<Field(line, SPACE, i)>> \o r OBVIOUS
<1>11. /\ \A i \in D : i > Len(line) => b[i] = <<>>
       /\ \A i \in D : ~(i > Len(line)) /\ line[i] = COLON => b[i] = <<From(line, i + 1)>>
       /\ \A i \in D : ~last(i) => next[i] = NextWord(line, i)
  OBVIOUS
<1> HIDE DEF D, V, next, b, G, rank
<1>12. PICK f \in [D -> V] : Descends(f, D, b, next, G)
  <2>1. PICK M \in Nat : M = N BY <1>1
  <2>2. rank \in [D -> 0 .. M] BY <2>1, <1>5
  <2> HIDE DEF N
  <2> QED BY <2>2, <1>6, <1>7, <1>9, DescentExists
<1>13. \A i \in D : f[i] = IF i > Len(line) THEN <<>>
                           ELSE IF line[i] = COLON THEN <<From(line, i + 1)>>
                           ELSE <<Field(line, SPACE, i)>> \o f[NextWord(line, i)]
  <2> TAKE i \in D
  <2>1. f[i] = IF next[i] \in D THEN G[<<i, f[next[i]]>>] ELSE b[i]
    BY <1>12 DEF Descends, Descent
  <2>2. CASE last(i) BY <2>1, <2>2, <1>4, <1>11
  <2>3. CASE ~last(i)
    <3>1. next[i] \in D /\ next[i] = NextWord(line, i) BY <2>3, <1>4, <1>11
    <3>2. f[next[i]] \in V BY <3>1, <1>12
    <3>3. PICK r \in V : r = f[NextWord(line, i)] BY <3>1, <3>2
    <3>4. f[i] = <<Field(line, SPACE, i)>> \o r BY <2>1, <3>1, <3>3, <1>10
    <3> QED BY <3>3, <3>4, <2>3
  <2> QED BY <2>2, <2>3
<1>14. P = [i \in D |-> IF i > Len(line) THEN <<>>
                        ELSE IF line[i] = COLON THEN <<From(line, i + 1)>>
                        ELSE <<Field(line, SPACE, i)>> \o P[NextWord(line, i)]]
  <2>1. f = [i \in D |-> IF i > Len(line) THEN <<>>
                         ELSE IF line[i] = COLON THEN <<From(line, i + 1)>>
                         ELSE <<Field(line, SPACE, i)>> \o f[NextWord(line, i)]]
    BY <1>13
  <2> QED BY <2>1
<1> HIDE DEF P
<1>15. \A i \in D : P[i] = IF i > Len(line) THEN <<>>
                           ELSE IF line[i] = COLON THEN <<From(line, i + 1)>>
                           ELSE <<Field(line, SPACE, i)>> \o P[NextWord(line, i)]
  BY <1>14, Zenon
<1>16. ParsesInto(P, line) BY <1>15 DEF ParsesInto, D
<1> QED BY <1>2, <1>16

\* The word from i to p - 1 ends at p, and the next one starts at q.
WordFromTo(u, i, p, q) ==
    /\ 1 <= i /\ i <= p /\ q = p + 1 /\ q <= Len(u)
    /\ u[p] = SPACE /\ u[q] # SPACE
    /\ \A j \in i .. p - 1 : u[j] # SPACE

LEMMA Pairs ==
    ASSUME NEW T, NEW a \in T, NEW b \in T, NEW c \in T
    PROVE  <<a>> \o <<b>> = <<a, b>> /\ <<a>> \o <<b, c>> = <<a, b, c>>
<1>1. <<a>> \in Seq(T) /\ <<b>> \in Seq(T) /\ <<b, c>> \in Seq(T)
      /\ <<a, b>> \in Seq(T) /\ <<a, b, c>> \in Seq(T)
  OBVIOUS
<1>2. PICK s \in Seq(T) : s = <<a>> BY <1>1
<1>3. PICK r \in Seq(T) : r = <<b>> BY <1>1
<1>4. PICK t \in Seq(T) : t = <<b, c>> BY <1>1
<1>5. PICK x \in Seq(T) : x = <<a, b>> BY <1>1
<1>6. PICK y \in Seq(T) : y = <<a, b, c>> BY <1>1
<1>7. PICK u : u = s \o r OBVIOUS
<1>8. PICK v : v = s \o t OBVIOUS
<1>9. /\ u \in Seq(T) /\ Len(u) = Len(s) + Len(r)
      /\ \A i \in 1 .. Len(s) : u[i] = s[i]
      /\ \A i \in 1 .. Len(r) : u[Len(s) + i] = r[i]
  BY <1>7, ConcatFacts
<1>10. /\ v \in Seq(T) /\ Len(v) = Len(s) + Len(t)
       /\ \A i \in 1 .. Len(s) : v[i] = s[i]
       /\ \A i \in 1 .. Len(t) : v[Len(s) + i] = t[i]
  BY <1>8, ConcatFacts
<1>11. Len(s) = 1 /\ s[1] = a /\ Len(r) = 1 /\ r[1] = b /\ Len(t) = 2 /\ t[1] = b /\ t[2] = c
  BY <1>2, <1>3, <1>4
<1>12. Len(u) = 2 /\ u[1] = a /\ u[2] = b BY <1>9, <1>11
<1>13. Len(v) = 3 /\ v[1] = a /\ v[2] = b /\ v[3] = c BY <1>10, <1>11
<1>14. Len(x) = 2 /\ x[1] = a /\ x[2] = b BY <1>5
<1>15. Len(y) = 3 /\ y[1] = a /\ y[2] = b /\ y[3] = c BY <1>6
<1>16. u = x
  <2>1. \A i \in 1 .. Len(u) : i = 1 \/ i = 2 BY <1>12
  <2> QED BY <2>1, <1>9, <1>12, <1>14, SeqEqual
<1>17. v = y
  <2>1. \A i \in 1 .. Len(v) : i = 1 \/ i = 2 \/ i = 3 BY <1>13
  <2> QED BY <2>1, <1>10, <1>13, <1>15, SeqEqual
<1> QED BY <1>2, <1>3, <1>4, <1>5, <1>6, <1>7, <1>8, <1>16, <1>17

LEMMA WordAt ==
    ASSUME NEW u \in Bytes, NEW i \in Nat, NEW p \in Nat, NEW q \in Nat, WordFromTo(u, i, p, q)
    PROVE  /\ Find(u, SPACE, i) = p /\ SkipSpaces(u, p) = q
           /\ NextWord(u, i) = q
<1>1. PICK n \in Nat : n = Len(u) BY DEF Bytes
<1>2. /\ 1 <= i /\ i <= p /\ q = p + 1 /\ q <= n
      /\ u[p] = SPACE /\ u[q] # SPACE
      /\ \A j \in i .. p - 1 : u[j] # SPACE
  BY <1>1 DEF WordFromTo
<1>3. i \in 1 .. Len(u) + 1 /\ p \in i .. Len(u) + 1 BY <1>1, <1>2
<1>4. Find(u, SPACE, i) = p BY <1>2, <1>3, FindIs
<1>5. p \in 1 .. Len(u) + 1 /\ q \in p .. Len(u) + 1 /\ \A j \in p .. q - 1 : j = p
  BY <1>1, <1>2
<1>6. SkipSpaces(u, p) = q BY <1>2, <1>5, SkipIs
<1> QED BY <1>4, <1>6 DEF NextWord

LEMMA ShortSubSeq ==
    ASSUME NEW u \in Bytes, NEW i \in Nat, NEW j \in Nat, 1 <= i, j <= Len(u)
    PROVE  /\ j = i => SubSeq(u, i, j) = <<u[i]>>
           /\ j = i + 1 => SubSeq(u, i, j) = <<u[i], u[j]>>
           /\ j = i + 2 => SubSeq(u, i, j) = <<u[i], u[i + 1], u[j]>>
<1> SUFFICES ASSUME i <= j
             PROVE  /\ j = i => SubSeq(u, i, j) = <<u[i]>>
                    /\ j = i + 1 => SubSeq(u, i, j) = <<u[i], u[j]>>
                    /\ j = i + 2 => SubSeq(u, i, j) = <<u[i], u[i + 1], u[j]>>
  OBVIOUS
<1>1. Len(u) \in Nat BY DEF Bytes
<1>2. i \in 1 .. Len(u) + 1 /\ j \in i - 1 .. Len(u) BY <1>1
<1>3. PICK v : v = SubSeq(u, i, j) OBVIOUS
<1>4. /\ v \in Seq(Char) /\ Len(v) = j - i + 1
      /\ \A k \in 1 .. j - i + 1 : v[k] = u[i + k - 1]
  BY <1>2, <1>3, SubSeqFacts DEF Bytes
<1>5. j = i => v = <<u[i]>>
  <2> SUFFICES ASSUME j = i PROVE v = <<u[i]>> OBVIOUS
  <2>1. Len(v) = 1 /\ 1 \in 1 .. j - i + 1 /\ i + 1 - 1 = i BY <1>4
  <2>2. v[1] = u[i] BY <2>1, <1>4
  <2> QED BY <2>1, <2>2, <1>4
<1>6. j = i + 1 => v = <<u[i], u[j]>>
  <2> SUFFICES ASSUME j = i + 1 PROVE v = <<u[i], u[j]>> OBVIOUS
  <2>1. Len(v) = 2 /\ 1 \in 1 .. j - i + 1 /\ i + 1 - 1 = i
        /\ 2 \in 1 .. j - i + 1 /\ i + 2 - 1 = j
    BY <1>4
  <2>2. v[1] = u[i] /\ v[2] = u[j] BY <2>1, <1>4
  <2> QED BY <2>1, <2>2, <1>4
<1>7. j = i + 2 => v = <<u[i], u[i + 1], u[j]>>
  <2> SUFFICES ASSUME j = i + 2 PROVE v = <<u[i], u[i + 1], u[j]>> OBVIOUS
  <2>1. Len(v) = 3 /\ 1 \in 1 .. j - i + 1 /\ i + 1 - 1 = i
        /\ 2 \in 1 .. j - i + 1 /\ i + 2 - 1 = i + 1
        /\ 3 \in 1 .. j - i + 1 /\ i + 3 - 1 = j
    BY <1>4
  <2>2. v[1] = u[i] /\ v[2] = u[i + 1] /\ v[3] = u[j] BY <2>1, <1>4
  <2> QED BY <2>1, <2>2, <1>4
<1> QED BY <1>3, <1>5, <1>6, <1>7

IsMiddle(P, u, i, p, q) == P[i] = <<SubSeq(u, i, p - 1)>> \o P[q]

\* A parameter that is a word, and one that a colon marks.
LEMMA ParamAt ==
    ASSUME NEW u \in Bytes, NEW P, ParsesInto(P, u), NEW i \in Nat, NEW p \in Nat, NEW q \in Nat,
           WordFromTo(u, i, p, q), u[i] # COLON
    PROVE  IsMiddle(P, u, i, p, q)
<1>1. PICK n \in Nat : n = Len(u) BY DEF Bytes
<1>2. 1 <= i /\ i <= n BY <1>1 DEF WordFromTo
<1>3. i \in 1 .. Len(u) + 1 /\ ~(i > Len(u)) BY <1>1, <1>2
<1>4. P[i] = IF i > Len(u) THEN <<>>
             ELSE IF u[i] = COLON THEN <<From(u, i + 1)>>
             ELSE <<Field(u, SPACE, i)>> \o P[NextWord(u, i)]
  BY <1>3 DEF ParsesInto
<1>5. Find(u, SPACE, i) = p /\ NextWord(u, i) = q BY WordAt
<1> QED BY <1>3, <1>4, <1>5 DEF Field, IsMiddle

LEMMA TrailingAt ==
    ASSUME NEW u \in Bytes, NEW P, ParsesInto(P, u), NEW i \in Nat, 1 <= i, i <= Len(u),
           u[i] = COLON, NEW rest, rest = From(u, i + 1)
    PROVE  P[i] = <<rest>>
<1>1. PICK n \in Nat : n = Len(u) BY DEF Bytes
<1>2. i \in 1 .. Len(u) + 1 /\ ~(i > Len(u)) BY <1>1
<1>3. P[i] = IF i > Len(u) THEN <<>>
             ELSE IF u[i] = COLON THEN <<From(u, i + 1)>>
             ELSE <<Field(u, SPACE, i)>> \o P[NextWord(u, i)]
  BY <1>2 DEF ParsesInto
<1> QED BY <1>2, <1>3

\* D gives the decimal digits of every int.
Prints(D) ==
    \A m \in 0 .. INT_MAX :
        D[m] = (IF m < 10 THEN <<>> ELSE D[m \div 10]) \o <<48 + (m % 10)>>

LEMMA Digits ==
    ASSUME NEW m \in Nat
    PROVE  /\ m % 10 \in 0 .. 9 /\ m \div 10 \in Nat
           /\ m = 10 * (m \div 10) + (m % 10)
           /\ m < 10 => m % 10 = m
           /\ m >= 10 => m \div 10 < m /\ m \div 10 >= 1
OBVIOUS

LEMMA IntToStringUnrolls ==
    \E D : /\ Prints(D)
           /\ \A m \in 0 .. INT_MAX : D[m] \in Bytes
           /\ \A n : IntToString(n) = IF n < 0 THEN <<DASH>> \o D[-n] ELSE D[n]
<1> DEFINE I == 0 .. INT_MAX
           next == [m \in I |-> IF m < 10 THEN -1 ELSE m \div 10]
           b == [m \in I |-> <<>> \o <<48 + (m % 10)>>]
           G == [q \in I \X Bytes |-> q[2] \o <<48 + (q[1] % 10)>>]
           rank == [m \in I |-> m]
           D == CHOOSE D : D = [m \in I |->
                   (IF m < 10 THEN <<>> ELSE D[m \div 10]) \o <<48 + (m % 10)>>]
<1>1. INT_MAX \in Nat BY TextAssumption
<1>2. \A n : IntToString(n) = IF n < 0 THEN <<DASH>> \o D[-n] ELSE D[n] BY DEF IntToString
<1>3. \A m \in I : <<48 + (m % 10)>> \in Bytes
  <2> TAKE m \in I
  <2>1. m % 10 \in 0 .. 9 BY <1>1, Digits
  <2>2. 48 + (m % 10) \in Char BY <2>1 DEF Char
  <2> QED BY <2>2 DEF Bytes
<1>4. G \in [I \X Bytes -> Bytes]
  <2>1. \A m \in I, r \in Bytes : r \o <<48 + (m % 10)>> \in Bytes
    BY <1>3, ConcatProperties DEF Bytes
  <2> QED BY <2>1
<1>5. b \in [I -> Bytes]
  <2>1. <<>> \in Bytes BY EmptySeq DEF Bytes
  <2>2. \A m \in I : <<>> \o <<48 + (m % 10)>> \in Bytes
    BY <1>3, <2>1, ConcatProperties DEF Bytes
  <2> QED BY <2>2
<1>6. rank \in [I -> 0 .. INT_MAX] OBVIOUS
<1>7. \A m \in I : (next[m] \in I <=> ~(m < 10)) /\ (next[m] \in I => rank[next[m]] < rank[m])
  <2> TAKE m \in I
  <2>1. m \in Nat BY <1>1
  <2>2. CASE m < 10
    <3>1. next[m] = -1 BY <2>2
    <3> QED BY <3>1, <2>2
  <2>3. CASE ~(m < 10)
    <3>1. PICK k : k = m \div 10 OBVIOUS
    <3>2. k \in Nat /\ k < m BY <2>1, <2>3, <3>1, Digits
    <3>3. k \in I /\ next[m] = k BY <2>1, <2>3, <3>1, <3>2, <1>1
    <3>4. rank[k] = k /\ rank[m] = m BY <3>3
    <3> QED BY <2>3, <3>2, <3>3, <3>4
  <2> QED BY <2>2, <2>3
<1>8. /\ \A m \in I, r \in Bytes : G[<<m, r>>] = r \o <<48 + (m % 10)>>
      /\ \A m \in I : b[m] = <<>> \o <<48 + (m % 10)>>
      /\ \A m \in I : ~(m < 10) => next[m] = m \div 10
  OBVIOUS
<1> HIDE DEF I, next, b, G, rank
<1>9. PICK f \in [I -> Bytes] : Descends(f, I, b, next, G)
  BY <1>1, <1>4, <1>5, <1>6, <1>7, DescentExists
<1>10. \A m \in I : f[m] = (IF m < 10 THEN <<>> ELSE f[m \div 10]) \o <<48 + (m % 10)>>
  <2> TAKE m \in I
  <2>1. f[m] = IF next[m] \in I THEN G[<<m, f[next[m]]>>] ELSE b[m]
    BY <1>9 DEF Descends, Descent
  <2>2. CASE m < 10 BY <2>1, <2>2, <1>7, <1>8
  <2>3. CASE ~(m < 10)
    <3>1. next[m] \in I /\ next[m] = m \div 10 BY <2>3, <1>7, <1>8
    <3>2. PICK r \in Bytes : r = f[m \div 10] BY <3>1, <1>9
    <3>3. f[m] = r \o <<48 + (m % 10)>> BY <2>1, <3>1, <3>2, <1>8
    <3> QED BY <2>3, <3>2, <3>3
  <2> QED BY <2>2, <2>3
<1>11. D = [m \in I |-> (IF m < 10 THEN <<>> ELSE D[m \div 10]) \o <<48 + (m % 10)>>]
  <2>1. f = [m \in I |-> (IF m < 10 THEN <<>> ELSE f[m \div 10]) \o <<48 + (m % 10)>>]
    BY <1>10
  <2> QED BY <2>1
<1> HIDE DEF D
<1>12. \A m \in I : D[m] = (IF m < 10 THEN <<>> ELSE D[m \div 10]) \o <<48 + (m % 10)>>
  BY <1>11, Zenon
<1>13. Prints(D) BY <1>12 DEF Prints, I
<1>14. \A m \in I : D[m] \in Bytes
  <2> DEFINE S == {m \in Nat : m \in I => D[m] \in Bytes}
  <2>1. ASSUME NEW m \in Nat, \A k \in Nat : k < m => k \in S PROVE m \in S
    <3> SUFFICES ASSUME m \in I PROVE D[m] \in Bytes OBVIOUS
    <3>1. PICK r \in Bytes : r = IF m < 10 THEN <<>> ELSE D[m \div 10]
      <4>1. CASE m < 10 BY <4>1, EmptySeq DEF Bytes
      <4>2. CASE ~(m < 10)
        <5>1. PICK k \in Nat : k = m \div 10 /\ k < m BY <4>2, Digits
        <5>2. k \in I BY <5>1, <1>1 DEF I
        <5>3. D[k] \in Bytes BY <5>1, <5>2, <2>1
        <5> QED BY <4>2, <5>1, <5>3
      <4> QED BY <4>1, <4>2
    <3>2. D[m] = r \o <<48 + (m % 10)>> BY <3>1, <1>12
    <3> QED BY <3>2, <1>3, ConcatProperties DEF Bytes
  <2> HIDE DEF S
  <2>2. \A m \in Nat : m \in S BY <2>1, StrongInduction
  <2>3. \A m \in I : m \in Nat BY <1>1 DEF I
  <2> QED BY <2>2, <2>3 DEF S
<1> QED BY <1>2, <1>13, <1>14 DEF I

\* u is ":x T #x :" and s.
SaidLine(u, s) ==
    /\ Len(u) >= 9 /\ From(u, 10) = s
    /\ u[1] = 58 /\ u[2] = 120 /\ u[3] = 32 /\ u[4] = 84 /\ u[5] = 32
    /\ u[6] = 35 /\ u[7] = 120 /\ u[8] = 32 /\ u[9] = 58

LEMMA SaidShape ==
    ASSUME NEW s \in Bytes, NEW u \in Bytes, SaidLine(u, s)
    PROVE  ParseMessage(u) = [command |-> <<84>>, params |-> <<(<<35, 120>>), s>>]
<1>1. PICK n \in Nat : n = Len(u) /\ n >= 9 BY DEF SaidLine, Bytes
<1>2. /\ u[1] = 58 /\ u[2] = 120 /\ u[3] = 32 /\ u[4] = 84 /\ u[5] = 32
      /\ u[6] = 35 /\ u[7] = 120 /\ u[8] = 32 /\ u[9] = 58
  BY DEF SaidLine
<1>3. WordFromTo(u, 1, 3, 4)
  <2>1. \A j \in 1 .. 3 - 1 : j = 1 \/ j = 2 OBVIOUS
  <2> QED BY <1>1, <1>2, <2>1 DEF WordFromTo, SPACE
<1>4. WordFromTo(u, 4, 5, 6)
  <2>1. \A j \in 4 .. 5 - 1 : j = 4 OBVIOUS
  <2> QED BY <1>1, <1>2, <2>1 DEF WordFromTo, SPACE
<1>5. WordFromTo(u, 6, 8, 9)
  <2>1. \A j \in 6 .. 8 - 1 : j = 6 \/ j = 7 OBVIOUS
  <2> QED BY <1>1, <1>2, <2>1 DEF WordFromTo, SPACE
<1>6. /\ Find(u, SPACE, 1) = 3 /\ SkipSpaces(u, 3) = 4
      /\ Find(u, SPACE, 4) = 5 /\ SkipSpaces(u, 5) = 6
  <2>1. 1 \in Nat /\ 3 \in Nat /\ 4 \in Nat /\ 5 \in Nat /\ 6 \in Nat OBVIOUS
  <2> QED BY <2>1, <1>3, <1>4, WordAt
<1>7. PICK P : ParsesInto(P, u) /\ \A start \in 1 .. Len(u) + 1 :
                                      ParamsFrom(u, start) = P[SkipSpaces(u, start)]
  BY ParamsUnroll
<1>8. P[9] = <<s>>
  <2>1. 9 \in Nat /\ 1 <= 9 /\ 9 <= Len(u) /\ u[9] = COLON BY <1>1, <1>2 DEF COLON
  <2>2. s = From(u, 9 + 1) BY DEF SaidLine
  <2> QED BY <2>1, <2>2, <1>7, TrailingAt
<1>9. SubSeq(u, 6, 7) = <<35, 120>> /\ SubSeq(u, 4, 4) = <<84>>
  <2>1. 6 \in Nat /\ 7 \in Nat /\ 4 \in Nat /\ 1 <= 6 /\ 7 <= Len(u) /\ 7 = 6 + 1
        /\ 1 <= 4 /\ 4 <= Len(u)
    BY <1>1
  <2>2. SubSeq(u, 6, 7) = <<u[6], u[7]>> /\ SubSeq(u, 4, 4) = <<u[4]>>
    BY <2>1, ShortSubSeq
  <2> QED BY <2>2, <1>2
<1>10. P[6] = <<(<<35, 120>>)>> \o <<s>>
  <2>1. 6 \in Nat /\ 8 \in Nat /\ 9 \in Nat /\ u[6] # COLON BY <1>2 DEF COLON
  <2>2. ParsesInto(P, u) BY <1>7
  <2>3. IsMiddle(P, u, 6, 8, 9) BY <2>1, <2>2, <1>5, ParamAt
  <2>4. 8 - 1 = 7 OBVIOUS
  <2> QED BY <2>3, <2>4, <1>8, <1>9 DEF IsMiddle
<1>11. <<(<<35, 120>>)>> \o <<s>> = <<(<<35, 120>>), s>>
  <2>1. <<35, 120>> \in Bytes BY DEF Bytes, Char
  <2> QED BY <2>1, Pairs
<1>12. ParamsFrom(u, 5) = <<(<<35, 120>>), s>>
  <2>1. 5 \in 1 .. Len(u) + 1 BY <1>1
  <2>2. ParamsFrom(u, 5) = P[6] BY <2>1, <1>6, <1>7
  <2> QED BY <2>2, <1>10, <1>11
<1>13. u # <<>> /\ u[1] = COLON BY <1>1, <1>2 DEF COLON
<1>14. 5 - 1 = 4 OBVIOUS
<1> QED BY <1>6, <1>9, <1>12, <1>13, <1>14 DEF ParseMessage

\* u is s and r after it.
Continues(u, s, r) ==
    /\ u \in Bytes /\ Len(u) = Len(s) + Len(r)
    /\ \A i \in 1 .. Len(s) : u[i] = s[i]
    /\ \A i \in 1 .. Len(r) : u[Len(s) + i] = r[i]

LEMMA Continuing == ASSUME NEW s \in Bytes, NEW r \in Bytes PROVE Continues(s \o r, s, r)
<1>1. PICK u : u = s \o r OBVIOUS
<1>2. /\ u \in Seq(Char) /\ Len(u) = Len(s) + Len(r)
      /\ \A i \in 1 .. Len(s) : u[i] = s[i]
      /\ \A i \in 1 .. Len(r) : u[Len(s) + i] = r[i]
  BY <1>1, ConcatFacts DEF Bytes
<1> QED BY <1>1, <1>2 DEF Continues, Bytes

\* What follows the head of a line is what was put there.
LEMMA HeadFacts ==
    ASSUME NEW h \in Bytes, NEW s \in Bytes, NEW u, Continues(u, h, s), NEW m, m = Len(h) + 1
    PROVE  From(u, m) = s
<1>1. Len(h) \in Nat /\ Len(s) \in Nat BY DEF Bytes
<1>2. /\ u \in Bytes /\ Len(u) = Len(h) + Len(s)
      /\ \A i \in 1 .. Len(s) : u[Len(h) + i] = s[i]
  BY DEF Continues
<1>3. m \in 1 .. Len(u) + 1 BY <1>1, <1>2
<1>4. PICK v : v = From(u, m) OBVIOUS
<1>5. /\ v \in Bytes /\ Len(v) = Len(u) - m + 1
      /\ \A j \in 1 .. Len(u) - m + 1 : v[j] = u[m + j - 1]
  BY <1>2, <1>3, <1>4, FromFacts
<1>6. Len(v) = Len(s) /\ Len(u) - m + 1 = Len(s) BY <1>1, <1>2, <1>5
<1>7. \A j \in 1 .. Len(s) : v[j] = s[j]
  <2> TAKE j \in 1 .. Len(s)
  <2>1. m + j - 1 = Len(h) + j BY <1>1
  <2>2. v[j] = u[Len(h) + j] BY <2>1, <1>5, <1>6
  <2> QED BY <2>2, <1>2
<1>8. v = s BY <1>5, <1>6, <1>7, SeqEqual DEF Bytes
<1> QED BY <1>4, <1>8

OneMore(u, s, c) ==
    /\ u \in Bytes /\ Len(u) = Len(s) + 1 /\ u[Len(s) + 1] = c
    /\ \A i \in 1 .. Len(s) : u[i] = s[i]

LEMMA Adding == ASSUME NEW s \in Bytes, NEW c \in Char PROVE OneMore(s \o <<c>>, s, c)
<1>1. s \in Seq(Char) BY DEF Bytes
<1>2. /\ s \o <<c>> \in Seq(Char) /\ Len(s \o <<c>>) = Len(s) + 1
      /\ (s \o <<c>>)[Len(s) + 1] = c
      /\ \A i \in 1 .. Len(s) : (s \o <<c>>)[i] = s[i]
  BY <1>1, AppendFacts
<1> QED BY <1>2 DEF OneMore, Bytes

\* " #x :" without its first space, and what follows it.
LEMMA RoomArgs ==
    \E r \in Bytes : /\ Len(r) = 4 /\ r[1] = 35 /\ r[2] = 120 /\ r[3] = 32 /\ r[4] = 58
                     /\ \A s \in Bytes : TrailingArgs(<<HASH, 120>>, s) = r \o s
<1>1. PICK a \in Bytes : a = <<HASH, 120>>
  <2>1. <<HASH, 120>> \in Bytes BY DEF Bytes, Char, HASH
  <2> QED BY <2>1
<1>2. PICK b \in Bytes : b = <<SPACE, COLON>>
  <2>1. <<SPACE, COLON>> \in Bytes BY DEF Bytes, Char, SPACE, COLON
  <2> QED BY <2>1
<1>3. Len(a) = 2 /\ a[1] = 35 /\ a[2] = 120 BY <1>1 DEF HASH
<1>4. Len(b) = 2 /\ b[1] = 32 /\ b[2] = 58 BY <1>2 DEF SPACE, COLON
<1>5. PICK r : r = a \o b OBVIOUS
<1>6. /\ r \in Bytes /\ Len(r) = Len(a) + Len(b)
      /\ \A i \in 1 .. Len(a) : r[i] = a[i]
      /\ \A i \in 1 .. Len(b) : r[Len(a) + i] = b[i]
  BY <1>5, ConcatFacts DEF Bytes
<1>7. r[2 + 1] = 32 /\ r[2 + 2] = 58 BY <1>3, <1>4, <1>6
<1>8. Len(r) = 4 /\ r[1] = 35 /\ r[2] = 120 /\ r[3] = 32 /\ r[4] = 58
  BY <1>3, <1>4, <1>6, <1>7
<1>9. \A s \in Bytes : TrailingArgs(<<HASH, 120>>, s) = r \o s
  BY <1>1, <1>2, <1>5 DEF TrailingArgs
<1> QED BY <1>6, <1>8, <1>9

\* The line that relays s is of that shape.
LEMMA SaidIsSo ==
    ASSUME NEW s \in Bytes
    PROVE  \E u \in Bytes : /\ u = FromClient(<<120>>, <<84>>, TrailingArgs(<<HASH, 120>>, s))
                            /\ SaidLine(u, s)
<1>1. PICK r \in Bytes : /\ Len(r) = 4 /\ r[1] = 35 /\ r[2] = 120 /\ r[3] = 32 /\ r[4] = 58
                         /\ TrailingArgs(<<HASH, 120>>, s) = r \o s
  BY RoomArgs
<1>2. PICK a \in Bytes : a = <<COLON>>
  <2>1. <<COLON>> \in Bytes BY DEF Bytes, Char, COLON
  <2> QED BY <2>1
<1>3. Len(a) = 1 /\ a[1] = 58 BY <1>2 DEF COLON
<1>4. 120 \in Char /\ 32 \in Char /\ 84 \in Char BY DEF Char
<1>5. PICK b : b = a \o <<120>> OBVIOUS
<1>6. b \in Bytes /\ Len(b) = 2 /\ b[1] = 58 /\ b[2] = 120 
  <2>1. OneMore(b, a, 120) BY <1>4, <1>5, Adding
  <2> QED BY <2>1, <1>3 DEF OneMore
<1>7. PICK c : c = b \o <<32>> OBVIOUS
<1>8. c \in Bytes /\ Len(c) = 3 /\ c[1] = 58 /\ c[2] = 120 /\ c[3] = 32
  <2>1. OneMore(c, b, 32) BY <1>4, <1>6, <1>7, Adding
  <2> QED BY <2>1, <1>6 DEF OneMore
<1>9. PICK d : d = c \o <<84>> OBVIOUS
<1>10. d \in Bytes /\ Len(d) = 4 /\ d[1] = 58 /\ d[2] = 120 /\ d[3] = 32 /\ d[4] = 84
  <2>1. OneMore(d, c, 84) BY <1>4, <1>8, <1>9, Adding
  <2> QED BY <2>1, <1>8 DEF OneMore
<1>11. PICK e : e = d \o <<32>> OBVIOUS
<1>12. e \in Bytes /\ Len(e) = 5 /\ e[1] = 58 /\ e[2] = 120 /\ e[3] = 32 /\ e[4] = 84 /\ e[5] = 32
  <2>1. OneMore(e, d, 32) BY <1>4, <1>10, <1>11, Adding
  <2> QED BY <2>1, <1>10 DEF OneMore
<1>13. PICK h : h = e \o r OBVIOUS
<1>14. /\ h \in Bytes /\ Len(h) = Len(e) + Len(r)
       /\ \A i \in 1 .. Len(e) : h[i] = e[i]
       /\ \A i \in 1 .. Len(r) : h[Len(e) + i] = r[i]
  <2>1. Continues(h, e, r) BY <1>12, <1>13, Continuing
  <2> QED BY <2>1 DEF Continues
<1>15. h[5 + 1] = 35 /\ h[5 + 2] = 120 /\ h[5 + 3] = 32 /\ h[5 + 4] = 58
  BY <1>1, <1>12, <1>14
<1>16. /\ Len(h) = 9 /\ h[1] = 58 /\ h[2] = 120 /\ h[3] = 32 /\ h[4] = 84 /\ h[5] = 32
       /\ h[6] = 35 /\ h[7] = 120 /\ h[8] = 32 /\ h[9] = 58
  BY <1>1, <1>12, <1>14, <1>15
<1>17. PICK u : u = h \o s OBVIOUS
<1>18. Continues(u, h, s) BY <1>14, <1>17, Continuing
<1>19. SaidLine(u, s)
  <2>1. Len(u) = Len(h) + Len(s) /\ Len(s) \in Nat /\ \A i \in 1 .. Len(h) : u[i] = h[i]
    BY <1>18 DEF Continues, Bytes
  <2>2. /\ u[1] = 58 /\ u[2] = 120 /\ u[3] = 32 /\ u[4] = 84 /\ u[5] = 32
        /\ u[6] = 35 /\ u[7] = 120 /\ u[8] = 32 /\ u[9] = 58
    BY <1>16, <2>1
  <2>3. 10 = Len(h) + 1 BY <1>16
  <2>4. From(u, 10) = s BY <1>14, <1>18, <2>3, HeadFacts
  <2> QED BY <1>16, <2>1, <2>2, <2>4 DEF SaidLine
<1>20. u = FromClient(<<120>>, <<84>>, TrailingArgs(<<HASH, 120>>, s))
  <2>1. PICK args : args = r \o s OBVIOUS
  <2>2. args \in Bytes /\ Len(args) # 0
    <3>1. args \in Bytes /\ Len(args) = Len(r) + Len(s) BY <2>1, Continuing DEF Continues
    <3> QED BY <3>1, <1>1 DEF Bytes
  <2>3. args # <<>> BY <2>2
  <2>4. FromClient(<<120>>, <<84>>, args) = e \o args
    BY <2>3, <1>2, <1>5, <1>7, <1>9, <1>11 DEF FromClient, WithArgs, SPACE
  <2>5. (e \o r) \o s = e \o (r \o s)
    <3>1. PICK g \in Seq(Char) : g = e BY <1>12 DEF Bytes
    <3>2. (g \o r) \o s = g \o (r \o s) BY ConcatAssociative DEF Bytes
    <3> QED BY <3>1, <3>2
  <2> QED BY <2>1, <2>4, <2>5, <1>1, <1>13, <1>17
<1> QED BY <1>18, <1>19, <1>20 DEF Continues

\* The three digits of code 7.
LEMMA SevenIsThreeDigits ==
    \E f \in Bytes : f = FormatCode(7) /\ Len(f) = 3 /\ f[1] = 48 /\ f[2] = 48 /\ f[3] = 55
<1>1. PICK D : /\ Prints(D) /\ \A m \in 0 .. INT_MAX : D[m] \in Bytes
               /\ \A n : IntToString(n) = IF n < 0 THEN <<DASH>> \o D[-n] ELSE D[n]
  BY IntToStringUnrolls
<1>2. 7 \in 0 .. INT_MAX BY TextAssumption
<1>3. D[7] = <<>> \o <<48 + (7 % 10)>>
  <2>1. \A m \in 0 .. INT_MAX :
            D[m] = (IF m < 10 THEN <<>> ELSE D[m \div 10]) \o <<48 + (m % 10)>>
    BY <1>1 DEF Prints
  <2>2. D[7] = (IF 7 < 10 THEN <<>> ELSE D[7 \div 10]) \o <<48 + (7 % 10)>> BY <1>2, <2>1
  <2> QED BY <2>2
<1>4. 48 + (7 % 10) = 55
  <2>1. 7 % 10 = 7 BY Digits
  <2> QED BY <2>1
<1>5. PICK d \in Bytes : d = <<55>>
  <2>1. <<55>> \in Bytes BY DEF Bytes, Char
  <2> QED BY <2>1
<1>6. IntToString(7) = d
  <2>1. <<>> \o d = d BY ConcatEmptySeq DEF Bytes
  <2> QED BY <2>1, <1>1, <1>3, <1>4, <1>5
<1>7. Len(d) = 1 /\ d[1] = 55 BY <1>5
<1>8. PICK z \in Bytes : z = [i \in 1 .. 2 |-> 48]
  <2>1. [i \in 1 .. 2 |-> 48] \in Bytes BY DEF Bytes, Char
  <2> QED BY <2>1
<1>9. Len(z) = 2 /\ z[1] = 48 /\ z[2] = 48 BY <1>8
<1>10. PICK f : f = z \o d OBVIOUS
<1>11. Continues(f, z, d) BY <1>10, Continuing
<1>12. f \in Bytes /\ Len(f) = 3 /\ f[1] = 48 /\ f[2] = 48 /\ f[2 + 1] = 55
  BY <1>7, <1>9, <1>11 DEF Continues
<1>13. f = FormatCode(7)
  <2>1. 3 - Len(IntToString(7)) = 2
    <3>1. Len(IntToString(7)) = 1 BY <1>6, <1>7
    <3>2. PICK n \in Nat : n = Len(IntToString(7)) BY <3>1
    <3>3. n = 1 BY <3>1, <3>2
    <3>4. 3 - n = 2 BY <3>3
    <3> QED BY <3>2, <3>4
  <2>2. FormatCode(7) = [i \in 1 .. 2 |-> 48] \o d BY <1>6, <2>1 DEF FormatCode
  <2> QED BY <2>2, <1>8, <1>10
<1> QED BY <1>12, <1>13

\* u is ":x 007 x #x :" and s.
ShownLine(u, s) ==
    /\ Len(u) >= 13 /\ From(u, 14) = s
    /\ u[1] = 58 /\ u[2] = 120 /\ u[3] = 32 /\ u[4] = 48 /\ u[5] = 48 /\ u[6] = 55
    /\ u[7] = 32 /\ u[8] = 120 /\ u[9] = 32
    /\ u[10] = 35 /\ u[11] = 120 /\ u[12] = 32 /\ u[13] = 58

LEMMA ShownShape ==
    ASSUME NEW s \in Bytes, NEW u \in Bytes, ShownLine(u, s)
    PROVE  ParseMessage(u) = [command |-> <<48, 48, 55>>,
                              params |-> <<(<<120>>), (<<35, 120>>), s>>]
<1>1. PICK n \in Nat : n = Len(u) /\ n >= 13 BY DEF ShownLine, Bytes
<1>2. /\ u[1] = 58 /\ u[2] = 120 /\ u[3] = 32 /\ u[4] = 48 /\ u[5] = 48 /\ u[6] = 55
      /\ u[7] = 32 /\ u[8] = 120 /\ u[9] = 32
      /\ u[10] = 35 /\ u[11] = 120 /\ u[12] = 32 /\ u[13] = 58
  BY DEF ShownLine
<1>3. WordFromTo(u, 1, 3, 4)
  <2>1. \A j \in 1 .. 3 - 1 : j = 1 \/ j = 2 OBVIOUS
  <2> QED BY <1>1, <1>2, <2>1 DEF WordFromTo, SPACE
<1>4. WordFromTo(u, 4, 7, 8)
  <2>1. \A j \in 4 .. 7 - 1 : j = 4 \/ j = 5 \/ j = 6 OBVIOUS
  <2> QED BY <1>1, <1>2, <2>1 DEF WordFromTo, SPACE
<1>5. WordFromTo(u, 8, 9, 10)
  <2>1. \A j \in 8 .. 9 - 1 : j = 8 OBVIOUS
  <2> QED BY <1>1, <1>2, <2>1 DEF WordFromTo, SPACE
<1>6. WordFromTo(u, 10, 12, 13)
  <2>1. \A j \in 10 .. 12 - 1 : j = 10 \/ j = 11 OBVIOUS
  <2> QED BY <1>1, <1>2, <2>1 DEF WordFromTo, SPACE
<1>7. /\ Find(u, SPACE, 1) = 3 /\ SkipSpaces(u, 3) = 4
      /\ Find(u, SPACE, 4) = 7 /\ SkipSpaces(u, 7) = 8
  <2>1. 1 \in Nat /\ 3 \in Nat /\ 4 \in Nat /\ 7 \in Nat /\ 8 \in Nat OBVIOUS
  <2> QED BY <2>1, <1>3, <1>4, WordAt
<1>8. PICK P : ParsesInto(P, u) /\ \A start \in 1 .. Len(u) + 1 :
                                      ParamsFrom(u, start) = P[SkipSpaces(u, start)]
  BY ParamsUnroll
<1>9. ParsesInto(P, u) BY <1>8
<1>10. P[13] = <<s>>
  <2>1. 13 \in Nat /\ 1 <= 13 /\ 13 <= Len(u) /\ u[13] = COLON BY <1>1, <1>2 DEF COLON
  <2>2. s = From(u, 13 + 1) BY DEF ShownLine
  <2> QED BY <2>1, <2>2, <1>9, TrailingAt
<1>11. /\ SubSeq(u, 4, 6) = <<48, 48, 55>> /\ SubSeq(u, 8, 8) = <<120>>
       /\ SubSeq(u, 10, 11) = <<35, 120>>
  <2>1. 4 \in Nat /\ 6 \in Nat /\ 8 \in Nat /\ 10 \in Nat /\ 11 \in Nat OBVIOUS
  <2>2. 1 <= 4 /\ 6 <= Len(u) /\ 6 = 4 + 2 /\ 1 <= 8 /\ 8 <= Len(u)
        /\ 1 <= 10 /\ 11 <= Len(u) /\ 11 = 10 + 1
    BY <1>1
  <2>3. SubSeq(u, 4, 6) = <<u[4], u[4 + 1], u[6]>> BY <2>1, <2>2, ShortSubSeq
  <2>4. SubSeq(u, 8, 8) = <<u[8]>> BY <2>1, <2>2, ShortSubSeq
  <2>5. SubSeq(u, 10, 11) = <<u[10], u[11]>> BY <2>1, <2>2, ShortSubSeq
  <2>6. u[4 + 1] = 48 BY <1>2
  <2> QED BY <2>3, <2>4, <2>5, <2>6, <1>2
<1>12. P[10] = <<(<<35, 120>>)>> \o P[13]
  <2>1. 10 \in Nat /\ 12 \in Nat /\ 13 \in Nat /\ u[10] # COLON BY <1>2 DEF COLON
  <2>2. IsMiddle(P, u, 10, 12, 13) BY <2>1, <1>6, <1>9, ParamAt
  <2>3. 12 - 1 = 11 OBVIOUS
  <2> QED BY <2>2, <2>3, <1>11 DEF IsMiddle
<1>13. P[8] = <<(<<120>>)>> \o P[10]
  <2>1. 8 \in Nat /\ 9 \in Nat /\ 10 \in Nat /\ u[8] # COLON BY <1>2 DEF COLON
  <2>2. IsMiddle(P, u, 8, 9, 10) BY <2>1, <1>5, <1>9, ParamAt
  <2>3. 9 - 1 = 8 OBVIOUS
  <2> QED BY <2>2, <2>3, <1>11 DEF IsMiddle
<1>14. P[8] = <<(<<120>>), (<<35, 120>>), s>>
  <2>1. <<35, 120>> \in Bytes /\ <<120>> \in Bytes BY DEF Bytes, Char
  <2>2. P[10] = <<(<<35, 120>>), s>> BY <2>1, <1>10, <1>12, Pairs
  <2>3. <<(<<120>>)>> \o <<(<<35, 120>>), s>> = <<(<<120>>), (<<35, 120>>), s>>
    <3>1. PICK x \in Bytes, y \in Bytes : x = <<120>> /\ y = <<35, 120>> BY <2>1
    <3>2. <<x>> \o <<y, s>> = <<x, y, s>> BY Pairs
    <3> QED BY <3>1, <3>2
  <2> QED BY <2>2, <2>3, <1>13
<1>15. ParamsFrom(u, 7) = <<(<<120>>), (<<35, 120>>), s>>
  <2>1. 7 \in 1 .. Len(u) + 1 BY <1>1
  <2>2. ParamsFrom(u, 7) = P[8] BY <2>1, <1>7, <1>8
  <2> QED BY <2>2, <1>14
<1>16. u # <<>> /\ u[1] = COLON BY <1>1, <1>2 DEF COLON
<1>17. 7 - 1 = 6 OBVIOUS
<1> QED BY <1>7, <1>11, <1>15, <1>16, <1>17 DEF ParseMessage

\* The numeric that shows s is of that shape.
LEMMA ShownIsSo ==
    ASSUME NEW s \in Bytes
    PROVE  \E u \in Bytes :
              /\ u = Numeric(<<120>>, 7, <<120>>, TrailingArgs(<<HASH, 120>>, s))
              /\ ShownLine(u, s)
<1>1. PICK r \in Bytes : /\ Len(r) = 4 /\ r[1] = 35 /\ r[2] = 120 /\ r[3] = 32 /\ r[4] = 58
                         /\ TrailingArgs(<<HASH, 120>>, s) = r \o s
  BY RoomArgs
<1>2. PICK a \in Bytes : a = <<COLON>>
  <2>1. <<COLON>> \in Bytes BY DEF Bytes, Char, COLON
  <2> QED BY <2>1
<1>3. Len(a) = 1 /\ a[1] = 58 BY <1>2 DEF COLON
<1>4. 120 \in Char /\ 32 \in Char BY DEF Char
<1>5. PICK b : b = a \o <<120>> OBVIOUS
<1>6. b \in Bytes /\ Len(b) = 2 /\ b[1] = 58 /\ b[2] = 120
  <2>1. OneMore(b, a, 120) BY <1>4, <1>5, Adding
  <2> QED BY <2>1, <1>3 DEF OneMore
<1>7. PICK c : c = b \o <<32>> OBVIOUS
<1>8. c \in Bytes /\ Len(c) = 3 /\ c[1] = 58 /\ c[2] = 120 /\ c[3] = 32
  <2>1. OneMore(c, b, 32) BY <1>4, <1>6, <1>7, Adding
  <2> QED BY <2>1, <1>6 DEF OneMore
<1>9. PICK f \in Bytes : /\ f = FormatCode(7)
                         /\ Len(f) = 3 /\ f[1] = 48 /\ f[2] = 48 /\ f[3] = 55
  BY SevenIsThreeDigits
<1>10. PICK d : d = c \o f OBVIOUS
<1>11. /\ d \in Bytes /\ Len(d) = 6 /\ d[1] = 58 /\ d[2] = 120 /\ d[3] = 32
       /\ d[4] = 48 /\ d[5] = 48 /\ d[6] = 55
  <2>1. Continues(d, c, f) BY <1>8, <1>10, Continuing
  <2>2. d[3 + 1] = 48 /\ d[3 + 2] = 48 /\ d[3 + 3] = 55 BY <2>1, <1>8, <1>9 DEF Continues
  <2>3. d \in Bytes /\ Len(d) = 6
    <3>1. d \in Bytes /\ Len(d) = Len(c) + Len(f) BY <2>1 DEF Continues
    <3>2. Len(c) = 3 /\ Len(f) = 3 BY <1>8, <1>9
    <3>3. 3 + 3 = 6 OBVIOUS
    <3> QED BY <3>1, <3>2, <3>3
  <2>4. d[1] = 58 /\ d[2] = 120 /\ d[3] = 32 BY <2>1, <1>8 DEF Continues
  <2>5. d[4] = 48 /\ d[5] = 48 /\ d[6] = 55 BY <2>2
  <2> QED BY <2>3, <2>4, <2>5
<1>12. PICK e : e = d \o <<32>> OBVIOUS
<1>13. /\ e \in Bytes /\ Len(e) = 7 /\ e[1] = 58 /\ e[2] = 120 /\ e[3] = 32
       /\ e[4] = 48 /\ e[5] = 48 /\ e[6] = 55 /\ e[7] = 32
  <2>1. OneMore(e, d, 32) BY <1>4, <1>11, <1>12, Adding
  <2> QED BY <2>1, <1>11 DEF OneMore
<1>14. PICK g : g = e \o <<120>> OBVIOUS
<1>15. /\ g \in Bytes /\ Len(g) = 8 /\ g[1] = 58 /\ g[2] = 120 /\ g[3] = 32
       /\ g[4] = 48 /\ g[5] = 48 /\ g[6] = 55 /\ g[7] = 32 /\ g[8] = 120
  <2>1. OneMore(g, e, 120) BY <1>4, <1>13, <1>14, Adding
  <2> QED BY <2>1, <1>13 DEF OneMore
<1>16. PICK k : k = g \o <<32>> OBVIOUS
<1>17. /\ k \in Bytes /\ Len(k) = 9 /\ k[1] = 58 /\ k[2] = 120 /\ k[3] = 32
       /\ k[4] = 48 /\ k[5] = 48 /\ k[6] = 55 /\ k[7] = 32 /\ k[8] = 120 /\ k[9] = 32
  <2>1. OneMore(k, g, 32) BY <1>4, <1>15, <1>16, Adding
  <2> QED BY <2>1, <1>15 DEF OneMore
<1>18. PICK h : h = k \o r OBVIOUS
<1>19. /\ h \in Bytes /\ Len(h) = 13 /\ h[1] = 58 /\ h[2] = 120 /\ h[3] = 32
       /\ h[4] = 48 /\ h[5] = 48 /\ h[6] = 55 /\ h[7] = 32 /\ h[8] = 120 /\ h[9] = 32
       /\ h[10] = 35 /\ h[11] = 120 /\ h[12] = 32 /\ h[13] = 58
  <2>1. Continues(h, k, r) BY <1>17, <1>18, Continuing
  <2>2. h[9 + 1] = 35 /\ h[9 + 2] = 120 /\ h[9 + 3] = 32 /\ h[9 + 4] = 58
    BY <2>1, <1>1, <1>17 DEF Continues
  <2> QED BY <2>1, <2>2, <1>1, <1>17 DEF Continues
<1>20. PICK u : u = h \o s OBVIOUS
<1>21. Continues(u, h, s) BY <1>19, <1>20, Continuing
<1>22. ShownLine(u, s)
  <2>1. Len(u) = Len(h) + Len(s) /\ Len(s) \in Nat /\ \A i \in 1 .. Len(h) : u[i] = h[i]
    BY <1>21 DEF Continues, Bytes
  <2>2. 14 = Len(h) + 1 BY <1>19
  <2>3. PICK head \in Bytes : head = h BY <1>19
  <2>4. PICK m \in Nat : m = 14 OBVIOUS
  <2>5. Continues(u, head, s) /\ m = Len(head) + 1 BY <1>21, <2>2, <2>3, <2>4
  <2>6. From(u, m) = s BY <2>5, HeadFacts
  <2> QED BY <1>19, <2>1, <2>4, <2>6 DEF ShownLine
<1>23. u = Numeric(<<120>>, 7, <<120>>, TrailingArgs(<<HASH, 120>>, s))
  <2>1. PICK args : args = r \o s OBVIOUS
  <2>2. args \in Bytes /\ Len(args) # 0
    <3>1. args \in Bytes /\ Len(args) = Len(r) + Len(s) BY <2>1, Continuing DEF Continues
    <3> QED BY <3>1, <1>1 DEF Bytes
  <2>3. args # <<>> BY <2>2
  <2>4. Numeric(<<120>>, 7, <<120>>, args) = k \o args
    BY <2>3, <1>2, <1>5, <1>7, <1>9, <1>10, <1>12, <1>14, <1>16 DEF Numeric, WithArgs, SPACE
  <2>5. (k \o r) \o s = k \o (r \o s)
    <3>1. PICK q \in Seq(Char) : q = k BY <1>17 DEF Bytes
    <3>2. (q \o r) \o s = q \o (r \o s) BY ConcatAssociative DEF Bytes
    <3> QED BY <3>1, <3>2
  <2> QED BY <2>1, <2>4, <2>5, <1>1, <1>18, <1>20
<1> QED BY <1>21, <1>22, <1>23 DEF Continues

\* What is said is what the readers' parser finds, in the relayed line and in the
\* numeric that shows it later (fromClient, numeric, parseMessage).
THEOREM SpeechIsRelayedAsSaid == Spec => []RelayedAsSaid
<1>1. TInv => RelayedAsSaid
  <2> SUFFICES ASSUME TInv PROVE RelayedAsSaid OBVIOUS
  <2>1. PICK s \in Bytes : s = text BY DEF TInv
  <2>2. PICK u \in Bytes : /\ u = FromClient(<<120>>, <<84>>, TrailingArgs(<<HASH, 120>>, s))
                           /\ SaidLine(u, s)
    BY SaidIsSo
  <2>3. PICK v \in Bytes :
            /\ v = Numeric(<<120>>, 7, <<120>>, TrailingArgs(<<HASH, 120>>, s))
            /\ ShownLine(v, s)
    BY ShownIsSo
  <2>4. ParseMessage(u) = [command |-> <<84>>, params |-> <<(<<35, 120>>), s>>]
    BY <2>2, SaidShape
  <2>5. ParseMessage(v) = [command |-> <<48, 48, 55>>,
                           params |-> <<(<<120>>), (<<35, 120>>), s>>]
    BY <2>3, ShownShape
  <2>6. <<HASH, 120>> = <<35, 120>> BY DEF HASH
  <2> QED BY <2>1, <2>2, <2>3, <2>4, <2>5, <2>6 DEF RelayedAsSaid
<1> QED BY <1>1, Invariance, PTL

-----------------------------------------------------------------------------
(* Names.                                                                  *)

LEMMA LowerFacts ==
    ASSUME NEW s \in Bytes
    PROVE  /\ Len(ToIrcLower(s)) = Len(s)
           /\ \A i \in 1 .. Len(s) : ToIrcLower(s)[i] = ToIrcLowerChar(s[i])
<1>1. DOMAIN s = 1 .. Len(s) /\ Len(s) \in Nat BY DEF Bytes
<1>2. PICK n \in Nat : n = Len(s) BY <1>1
<1>3. ToIrcLower(s) = [i \in 1 .. n |-> ToIrcLowerChar(s[i])] BY <1>1, <1>2 DEF ToIrcLower
<1> QED BY <1>2, <1>3

LEMMA NicknameIsPlain ==
    ASSUME NEW s \in Bytes, IsValidNickname(s)
    PROVE  /\ s[1] \notin Digit \cup {HASH, COLON, DASH}
           /\ ToSet(s) \cap {SPACE, COMMA, COLON, 33, 64, 126} = {}
           /\ IsValidNickname(ToIrcLower(s))
<1>1. DOMAIN s = 1 .. Len(s) /\ Len(s) \in Nat BY DEF Bytes
<1>2. /\ Len(s) \in 1 .. MAX_NICKNAME_LEN
      /\ s[1] \in Letter \cup Special
      /\ \A i \in 2 .. Len(s) : s[i] \in Letter \cup Digit \cup Special \cup {DASH}
  BY DEF IsValidNickname
<1>3. 1 \in 1 .. Len(s) /\ \A i \in 1 .. Len(s) : i = 1 \/ i \in 2 .. Len(s) BY <1>1, <1>2
<1>4. \A i \in 1 .. Len(s) : s[i] \in Letter \cup Digit \cup Special \cup {DASH} BY <1>2, <1>3
<1>5. s[1] \notin Digit \cup {HASH, COLON, DASH}
  <2>1. \A c \in Letter \cup Special : c \notin Digit \cup {HASH, COLON, DASH}
    BY DEF Letter, Special, Digit, HASH, COLON, DASH
  <2> QED BY <2>1, <1>2
<1>6. \A c \in Letter \cup Digit \cup Special \cup {DASH} :
          c \notin {SPACE, COMMA, COLON, 33, 64, 126}
  BY DEF Letter, Special, Digit, SPACE, COMMA, COLON, DASH
<1>7. ToSet(s) \cap {SPACE, COMMA, COLON, 33, 64, 126} = {}
  BY <1>1, <1>4, <1>6 DEF ToSet
<1>8. /\ \A c \in Letter \cup Special : ToIrcLowerChar(c) \in Letter \cup Special
      /\ \A c \in Letter \cup Digit \cup Special \cup {DASH} :
            ToIrcLowerChar(c) \in Letter \cup Digit \cup Special \cup {DASH}
  BY DEF Letter, Special, Digit, DASH, ToIrcLowerChar
<1>9. PICK t : t = ToIrcLower(s) OBVIOUS
<1>10. Len(t) = Len(s) /\ \A i \in 1 .. Len(s) : t[i] = ToIrcLowerChar(s[i])
  BY <1>9, LowerFacts
<1>11. IsValidNickname(t)
  <2>1. t[1] \in Letter \cup Special BY <1>2, <1>3, <1>8, <1>10
  <2>2. \A i \in 2 .. Len(t) : t[i] \in Letter \cup Digit \cup Special \cup {DASH}
    <3> TAKE i \in 2 .. Len(t)
    <3>1. i \in 1 .. Len(s) /\ i \in 2 .. Len(s) BY <1>1, <1>10
    <3> QED BY <3>1, <1>2, <1>8, <1>10
  <2> QED BY <2>1, <2>2, <1>2, <1>10 DEF IsValidNickname
<1> QED BY <1>5, <1>7, <1>9, <1>11

\* A string without the delimiter is its own only field.
LEMMA SplitNothing ==
    ASSUME NEW s \in Bytes, NEW d, \A i \in 1 .. Len(s) : s[i] # d
    PROVE  Split(s, d) = <<s>>
<1>1. Len(s) \in Nat BY DEF Bytes
<1>2. PICK F : SplitsInto(F, s, d) /\ Split(s, d) = F[1] BY SplitUnrolls
<1>3. PICK p \in 1 .. Len(s) + 1 : p = Len(s) + 1 BY <1>1
<1>4. Find(s, d, 1) = p
  <2>1. 1 \in 1 .. Len(s) + 1 /\ (p <= Len(s) => s[p] = d) BY <1>1, <1>3
  <2>2. \A j \in 1 .. p - 1 : s[j] # d BY <1>1, <1>3
  <2> QED BY <2>1, <2>2, FindIs
<1>5. p > Len(s) /\ p - 1 = Len(s) BY <1>1, <1>3
<1>6. Field(s, d, 1) = s
  <2>1. SubSeq(s, 1, Len(s)) = s BY SubSeqFull DEF Bytes
  <2> QED BY <2>1, <1>4, <1>5 DEF Field
<1>7. 1 \in 1 .. Len(s) + 1 BY <1>1
<1>8. F[1] = IF Find(s, d, 1) > Len(s) THEN <<Field(s, d, 1)>>
             ELSE <<Field(s, d, 1)>> \o F[Find(s, d, 1) + 1]
  BY <1>2, <1>7 DEF SplitsInto
<1> QED BY <1>2, <1>4, <1>5, <1>6, <1>8

\* A word after a command of one letter is its one parameter.
LEMMA OneParameter ==
    ASSUME NEW s \in Bytes, Len(s) # 0, s[1] # COLON, \A i \in 1 .. Len(s) : s[i] # SPACE
    PROVE  ParseMessage(<<74, SPACE>> \o s).params = <<s>>
<1>1. PICK k \in Nat : k = Len(s) /\ k >= 1 BY DEF Bytes
<1>2. PICK h \in Bytes : h = <<74, SPACE>>
  <2>1. <<74, SPACE>> \in Bytes BY DEF Bytes, Char, SPACE
  <2> QED BY <2>1
<1>3. Len(h) = 2 /\ h[1] = 74 /\ h[2] = SPACE BY <1>2
<1>4. PICK u \in Bytes : u = h \o s BY Continuing DEF Continues
<1>5. Continues(u, h, s) BY <1>4, Continuing
<1>6. /\ u \in Bytes /\ Len(u) = 2 + k /\ u[1] = 74 /\ u[2] = SPACE
      /\ \A i \in 1 .. k : u[2 + i] = s[i]
  BY <1>1, <1>3, <1>5 DEF Continues
<1>7. PICK n \in Nat : n = Len(u) /\ n = 2 + k BY <1>1, <1>6
<1>8. \A j \in 3 .. n : u[j] # SPACE
  <2> TAKE j \in 3 .. n
  <2>1. j - 2 \in 1 .. k /\ 2 + (j - 2) = j BY <1>7
  <2>2. u[2 + (j - 2)] = s[j - 2] /\ s[j - 2] # SPACE BY <2>1, <1>1, <1>6
  <2> QED BY <2>1, <2>2
<1>9. u[3] # COLON /\ u[3] # SPACE
  <2>1. u[2 + 1] = s[1] BY <1>1, <1>6
  <2>2. 3 \in 3 .. n BY <1>1, <1>7
  <2> QED BY <2>1, <2>2, <1>8
<1>10. WordFromTo(u, 1, 2, 3)
  <2>1. \A j \in 1 .. 2 - 1 : j = 1 OBVIOUS
  <2>2. 3 <= Len(u) BY <1>1, <1>7
  <2> QED BY <2>1, <2>2, <1>6, <1>9 DEF WordFromTo, SPACE
<1>11. Find(u, SPACE, 1) = 2 /\ SkipSpaces(u, 2) = 3
  <2>1. 1 \in Nat /\ 2 \in Nat /\ 3 \in Nat OBVIOUS
  <2> QED BY <2>1, <1>6, <1>10, WordAt
<1>12. SkipSpaces(u, 1) = 1
  <2>1. PICK i \in 1 .. Len(u) + 1 : i = 1 BY <1>7
  <2>2. i \in i .. Len(u) + 1 /\ (i <= Len(u) => u[i] # SPACE)
        /\ \A j \in i .. i - 1 : u[j] = SPACE
    BY <2>1, <1>6, <1>7 DEF SPACE
  <2>3. SkipSpaces(u, i) = i BY <2>1, <2>2, <1>6, SkipIs
  <2> QED BY <2>1, <2>3
<1>13. PICK p \in Nat : p = n + 1 BY <1>7
<1>14. Find(u, SPACE, 3) = p /\ SkipSpaces(u, p) = p
  <2>1. PICK i \in 1 .. Len(u) + 1 : i = 3 BY <1>1, <1>7
  <2>2. p \in i .. Len(u) + 1 /\ (p <= Len(u) => u[p] = SPACE)
        /\ \A j \in i .. p - 1 : u[j] # SPACE
    BY <2>1, <1>1, <1>7, <1>8, <1>13
  <2>3. Find(u, SPACE, i) = p
    <3>1. PICK q \in i .. Len(u) + 1 : q = p BY <2>2
    <3>2. (q <= Len(u) => u[q] = SPACE) /\ \A j \in i .. q - 1 : u[j] # SPACE BY <2>2, <3>1
    <3>3. Find(u, SPACE, i) = q BY <3>2, FindIs
    <3> QED BY <3>1, <3>3
  <2>4. p \in 1 .. Len(u) + 1 /\ p \in p .. Len(u) + 1 /\ (p <= Len(u) => u[p] # SPACE)
        /\ \A j \in p .. p - 1 : u[j] = SPACE
    BY <1>1, <1>7, <1>13
  <2>5. SkipSpaces(u, p) = p BY <2>4, <1>6, SkipIs
  <2> QED BY <2>1, <2>3, <2>5
<1>15. PICK P : ParsesInto(P, u) /\ \A start \in 1 .. Len(u) + 1 :
                                      ParamsFrom(u, start) = P[SkipSpaces(u, start)]
  BY <1>6, ParamsUnroll
<1>16. P[p] = <<>>
  <2>1. p \in 1 .. Len(u) + 1 /\ p > Len(u) BY <1>1, <1>7, <1>13
  <2> QED BY <2>1, <1>15 DEF ParsesInto
<1>17. P[3] = <<SubSeq(u, 3, p - 1)>> \o P[p]
  <2>1. 3 \in 1 .. Len(u) + 1 /\ ~(3 > Len(u)) BY <1>1, <1>7
  <2>2. P[3] = IF 3 > Len(u) THEN <<>>
               ELSE IF u[3] = COLON THEN <<From(u, 3 + 1)>>
               ELSE <<Field(u, SPACE, 3)>> \o P[NextWord(u, 3)]
    BY <2>1, <1>15 DEF ParsesInto
  <2>3. Field(u, SPACE, 3) = SubSeq(u, 3, p - 1) /\ NextWord(u, 3) = p
    BY <1>14 DEF Field, NextWord
  <2> QED BY <2>1, <2>2, <2>3, <1>9
<1>18. SubSeq(u, 3, p - 1) = s
  <2>1. PICK m \in Nat : m = 3 OBVIOUS
  <2>2. m = Len(h) + 1 BY <2>1, <1>3
  <2>3. From(u, m) = s BY <2>2, <1>5, HeadFacts
  <2>4. p - 1 = Len(u) BY <1>7, <1>13
  <2> QED BY <2>1, <2>3, <2>4 DEF From
<1>19. <<s>> \o <<>> = <<s>>
  <2>1. <<s>> \in Seq(Bytes) OBVIOUS
  <2> QED BY <2>1, ConcatEmptySeq
<1>20. ParamsFrom(u, 2) = <<s>>
  <2>1. 2 \in 1 .. Len(u) + 1 BY <1>7
  <2> QED BY <2>1, <1>11, <1>15, <1>16, <1>17, <1>18, <1>19
<1>21. u[1] # COLON BY <1>6 DEF COLON
<1>22. ParseMessage(u).params = <<s>> BY <1>11, <1>12, <1>20, <1>21 DEF ParseMessage
<1> QED BY <1>2, <1>4, <1>22

LEMMA ChannelNameIsPlain ==
    ASSUME NEW s \in Bytes, IsValidChannelName(s)
    PROVE  /\ ParseMessage(<<74, SPACE>> \o s).params = <<s>>
           /\ Split(s, COMMA) = <<s>>
           /\ IsValidChannelName(ToIrcLower(s))
<1>1. DOMAIN s = 1 .. Len(s) /\ Len(s) \in Nat BY DEF Bytes
<1> DEFINE Bad == {SPACE, COMMA, COLON, 0, 7, 10, 13}
<1>2. /\ Len(s) \in 2 .. MAX_CHANNEL_LEN /\ s[1] = HASH
      /\ \A i \in 2 .. Len(s) : s[i] \notin Bad
  BY DEF IsValidChannelName
<1>3. /\ 1 \in 1 .. Len(s) /\ Len(s) # 0
      /\ \A i \in 1 .. Len(s) : i = 1 \/ i \in 2 .. Len(s)
  BY <1>1, <1>2
<1>4. HASH \notin Bad BY DEF HASH, SPACE, COMMA, COLON
<1>5. \A i \in 1 .. Len(s) : s[i] \notin Bad BY <1>2, <1>3, <1>4
<1>6. ParseMessage(<<74, SPACE>> \o s).params = <<s>>
  <2>1. Len(s) # 0 /\ s[1] # COLON /\ \A i \in 1 .. Len(s) : s[i] # SPACE BY <1>3, <1>5
  <2> QED BY <2>1, OneParameter
<1>7. Split(s, COMMA) = <<s>>
  <2>1. \A i \in 1 .. Len(s) : s[i] # COMMA BY <1>5
  <2> QED BY <2>1, SplitNothing
<1>8. \A c \in Char : c \notin Bad => ToIrcLowerChar(c) \notin Bad
  BY DEF ToIrcLowerChar, SPACE, COMMA, COLON, Char
<1>9. PICK t : t = ToIrcLower(s) OBVIOUS
<1>10. Len(t) = Len(s) /\ \A i \in 1 .. Len(s) : t[i] = ToIrcLowerChar(s[i])
  BY <1>9, LowerFacts
<1>11. \A i \in 1 .. Len(s) : s[i] \in Char BY DEF Bytes
<1>12. IsValidChannelName(t)
  <2>1. t[1] = HASH
    <3>1. t[1] = ToIrcLowerChar(HASH) BY <1>2, <1>3, <1>10
    <3>2. ToIrcLowerChar(HASH) = HASH BY DEF ToIrcLowerChar, HASH
    <3> QED BY <3>1, <3>2
  <2>2. \A i \in 2 .. Len(t) : t[i] \notin Bad
    <3> TAKE i \in 2 .. Len(t)
    <3>1. i \in 1 .. Len(s) BY <1>1, <1>10
    <3>2. t[i] = ToIrcLowerChar(s[i]) BY <3>1, <1>10
    <3> QED BY <3>1, <3>2, <1>5, <1>8, <1>11
  <2> QED BY <2>1, <2>2, <1>2, <1>10 DEF IsValidChannelName
<1> QED BY <1>6, <1>7, <1>9, <1>12

\* A name that can be entered can be typed, listed and folded (isValidNickname,
\* isValidChannelName with parseMessage, split and toIrcLower).
THEOREM NamesSurvive == Spec => []NamesSurviveTheWire
<1>1. TInv => NamesSurviveTheWire
  <2> SUFFICES ASSUME TInv PROVE NamesSurviveTheWire OBVIOUS
  <2>1. PICK s \in Bytes : s = text BY DEF TInv
  <2>2. IsValidChannelName(s) => /\ ParseMessage(<<74, SPACE>> \o s).params = <<s>>
                                 /\ Split(s, COMMA) = <<s>>
                                 /\ IsValidChannelName(ToIrcLower(s))
    BY ChannelNameIsPlain
  <2>3. IsValidNickname(s) => /\ s[1] \notin Digit \cup {HASH, COLON, DASH}
                              /\ ToSet(s) \cap {SPACE, COMMA, COLON, 33, 64, 126} = {}
                              /\ IsValidNickname(ToIrcLower(s))
    BY NicknameIsPlain
  <2> QED BY <2>1, <2>2, <2>3 DEF NamesSurviveTheWire
<1> QED BY <1>1, Invariance, PTL


-----------------------------------------------------------------------------
(* Numbers.  Both the loop of parseInt and the positional value are known  *)
(* by what a last character adds to them; the rest follows by induction on *)
(* the length.                                                             *)

Readings == [ok : BOOLEAN, out : 0 .. INT_MAX, top : 0 .. INT_MAX]

Fresh == [ok |-> TRUE, out |-> 0, top |-> 0]

LEMMA RoomIsRoom ==
    ASSUME NEW v \in Nat, NEW d \in 0 .. 9
    PROVE  RoomFor(v, d) <=> 10 * v + d <= INT_MAX
<1>1. INT_MAX \in Nat /\ INT_MAX >= 9 BY TextAssumption
<1>2. PICK n \in Nat : n = INT_MAX - d BY <1>1
<1>3. v <= n \div 10 <=> 10 * v <= n OBVIOUS
<1> QED BY <1>1, <1>2, <1>3 DEF RoomFor

LEMMA TakeDigitFacts ==
    ASSUME NEW v \in Readings, NEW c \in Char
    PROVE  /\ TakeDigit(v, c) \in Readings
           /\ TakeDigit(v, c).ok <=> v.ok /\ c \in Digit /\ 10 * v.out + (c - 48) <= INT_MAX
           /\ TakeDigit(v, c).ok => TakeDigit(v, c).out = 10 * v.out + (c - 48)
<1>1. INT_MAX \in Nat BY TextAssumption
<1>2. v.ok \in BOOLEAN /\ v.out \in 0 .. INT_MAX /\ v.top \in 0 .. INT_MAX /\ v.out \in Nat
  BY <1>1 DEF Readings
<1>3. c \in Digit => /\ c - 48 \in 0 .. 9
                     /\ RoomFor(v.out, c - 48) <=> 10 * v.out + (c - 48) <= INT_MAX
  <2> SUFFICES ASSUME c \in Digit
               PROVE  /\ c - 48 \in 0 .. 9
                      /\ RoomFor(v.out, c - 48) <=> 10 * v.out + (c - 48) <= INT_MAX
    OBVIOUS
  <2>1. c - 48 \in 0 .. 9 BY DEF Digit, Char
  <2> QED BY <2>1, <1>2, RoomIsRoom
<1>4. CASE v.ok /\ c \in Digit /\ RoomFor(v.out, c - 48)
  <2>1. PICK n : n = v.out * 10 + (c - 48) OBVIOUS
  <2>2. TakeDigit(v, c) = [ok |-> TRUE, out |-> n, top |-> n] BY <1>4, <2>1 DEF TakeDigit
  <2>3. n \in 0 .. INT_MAX /\ n = 10 * v.out + (c - 48) BY <1>1, <1>2, <1>3, <1>4, <2>1
  <2> QED BY <1>3, <1>4, <2>2, <2>3 DEF Readings
<1>5. CASE ~v.ok \/ c \notin Digit \/ ~RoomFor(v.out, c - 48)
  <2>1. TakeDigit(v, c) = [ok |-> FALSE, out |-> 0, top |-> v.top]
    BY <1>5 DEF TakeDigit, NotANumber
  <2>2. 0 \in 0 .. INT_MAX BY <1>1
  <2> QED BY <1>2, <1>3, <1>5, <2>1, <2>2 DEF Readings
<1> QED BY <1>4, <1>5

\* A is the loop of parseInt over s.
Accumulates(A, s) == A[0] = Fresh /\ \A n \in 1 .. Len(s) : A[n] = TakeDigit(A[n - 1], s[n])

LEMMA AccumulateUnrolls ==
    ASSUME NEW s \in Bytes
    PROVE  \E A \in [0 .. Len(s) -> Readings] : Accumulates(A, s) /\ Accumulate(s) = A[Len(s)]
<1> DEFINE N == Len(s)
           G == [q \in Readings \X (1 .. N) |-> TakeDigit(q[1], s[q[2]])]
           After == CHOOSE A : A = [n \in 0 .. N |->
                        IF n = 0 THEN [ok |-> TRUE, out |-> 0, top |-> 0]
                        ELSE TakeDigit(A[n - 1], s[n])]
<1>1. N \in Nat /\ \A n \in 1 .. N : s[n] \in Char BY DEF Bytes
<1>2. Fresh \in Readings BY TextAssumption DEF Fresh, Readings
<1>3. G \in [Readings \X (1 .. N) -> Readings]
  <2>1. \A v \in Readings, n \in 1 .. N : TakeDigit(v, s[n]) \in Readings
    BY <1>1, TakeDigitFacts
  <2> QED BY <2>1
<1>4. \A v \in Readings, n \in 1 .. N : G[<<v, n>>] = TakeDigit(v, s[n]) OBVIOUS
<1>5. Accumulate(s) = After[N] BY DEF Accumulate
<1> HIDE DEF G, N
<1>6. PICK f \in [0 .. N -> Readings] : Follows(f, N, Fresh, G)
  <2> DEFINE b == Fresh
             V == Readings
  <2>1. b \in V /\ G \in [V \X (1 .. N) -> V] BY <1>2, <1>3
  <2> HIDE DEF V, b
  <2>2. \E f \in [0 .. N -> V] : Follows(f, N, b, G) BY <2>1, <1>1, RecursionExists
  <2> QED BY <2>2 DEF V, b
<1>7. \A n \in 0 .. N : f[n] = IF n = 0 THEN [ok |-> TRUE, out |-> 0, top |-> 0]
                               ELSE TakeDigit(f[n - 1], s[n])
  <2> TAKE n \in 0 .. N
  <2>1. CASE n = 0 BY <2>1, <1>6 DEF Follows, Fresh
  <2>2. CASE n # 0
    <3>1. n \in 1 .. N /\ n - 1 \in 0 .. N BY <1>1, <2>2
    <3>2. f[n - 1] \in Readings BY <3>1, <1>6
    <3>3. f[n] = G[<<f[n - 1], n>>] BY <3>1, <1>6 DEF Follows
    <3> QED BY <2>2, <3>1, <3>2, <3>3, <1>4
  <2> QED BY <2>1, <2>2
<1>8. After = [n \in 0 .. N |-> IF n = 0 THEN [ok |-> TRUE, out |-> 0, top |-> 0]
                                ELSE TakeDigit(After[n - 1], s[n])]
  <2>1. f = [n \in 0 .. N |-> IF n = 0 THEN [ok |-> TRUE, out |-> 0, top |-> 0]
                              ELSE TakeDigit(f[n - 1], s[n])]
    BY <1>6, <1>7
  <2> QED BY <2>1 DEF N
<1> HIDE DEF After
<1>9. \A n \in 0 .. N : After[n] = IF n = 0 THEN [ok |-> TRUE, out |-> 0, top |-> 0]
                                   ELSE TakeDigit(After[n - 1], s[n])
  BY <1>8, Zenon
<1>10. After[0] = Fresh
  <2>1. 0 \in 0 .. N BY <1>1
  <2> QED BY <2>1, <1>9, Zenon DEF Fresh
<1>11. \A n \in 1 .. N : After[n] = TakeDigit(After[n - 1], s[n])
  <2> TAKE n \in 1 .. N
  <2>1. n \in 0 .. N /\ n # 0 BY <1>1
  <2> QED BY <2>1, <1>9, Zenon
<1> DEFINE S == {n \in 0 .. N : After[n] \in Readings}
<1>12. \A n \in 0 .. N : n \in S
  <2>1. 0 \in S BY <1>1, <1>2, <1>10
  <2>2. ASSUME NEW n \in 0 .. N - 1, n \in S PROVE n + 1 \in S
    <3>1. n + 1 \in 1 .. N /\ n + 1 \in 0 .. N /\ (n + 1) - 1 = n BY <1>1
    <3>2. After[n] \in Readings BY <2>2
    <3>3. After[n + 1] = TakeDigit(After[n], s[n + 1]) BY <3>1, <1>11
    <3>4. After[n + 1] \in Readings BY <3>1, <3>2, <3>3, <1>1, TakeDigitFacts
    <3> QED BY <3>1, <3>4
  <2> HIDE DEF S
  <2> QED BY <2>1, <2>2, <1>1, BoundedInduction
<1>13. After \in [0 .. N -> Readings]
  <2>1. \A n \in 0 .. N : After[n] \in Readings BY <1>12
  <2> QED BY <2>1, <1>8
<1>14. Accumulates(After, s) BY <1>10, <1>11 DEF Accumulates, N
<1> QED BY <1>5, <1>13, <1>14 DEF N


LEMMA AccumulateNothing == ASSUME NEW s \in Bytes, Len(s) = 0 PROVE Accumulate(s) = Fresh
BY AccumulateUnrolls DEF Accumulates

\* One more character is one more turn of the loop.
LEMMA AccumulateOneMore ==
    ASSUME NEW s \in Bytes, NEW c \in Char, NEW u, OneMore(u, s, c)
    PROVE  Accumulate(s) \in Readings /\ Accumulate(u) = TakeDigit(Accumulate(s), c)
<1>1. PICK N \in Nat : N = Len(s) BY DEF Bytes
<1>2. /\ u \in Bytes /\ Len(u) = N + 1 /\ u[N + 1] = c
      /\ \A i \in 1 .. N : u[i] = s[i]
  BY <1>1 DEF OneMore
<1>3. PICK A \in [0 .. N -> Readings] :
          /\ A[0] = Fresh /\ \A n \in 1 .. N : A[n] = TakeDigit(A[n - 1], s[n])
          /\ Accumulate(s) = A[N]
  BY <1>1, AccumulateUnrolls DEF Accumulates
<1>4. PICK B : /\ B[0] = Fresh /\ \A n \in 1 .. N + 1 : B[n] = TakeDigit(B[n - 1], u[n])
               /\ Accumulate(u) = B[N + 1]
  BY <1>2, AccumulateUnrolls DEF Accumulates
<1> DEFINE S == {n \in 0 .. N : A[n] = B[n]}
<1>5. \A n \in 0 .. N : n \in S
  <2>1. 0 \in S BY <1>3, <1>4
  <2>2. ASSUME NEW n \in 0 .. N - 1, n \in S PROVE n + 1 \in S
    <3>1. n + 1 \in 1 .. N /\ n + 1 \in 1 .. N + 1 /\ n + 1 \in 0 .. N /\ (n + 1) - 1 = n OBVIOUS
    <3>2. A[n + 1] = TakeDigit(A[n], s[n + 1]) BY <3>1, <1>3
    <3>3. B[n + 1] = TakeDigit(B[n], u[n + 1]) BY <3>1, <1>4
    <3>4. u[n + 1] = s[n + 1] BY <3>1, <1>2
    <3> QED BY <2>2, <3>1, <3>2, <3>3, <3>4
  <2> HIDE DEF S
  <2> QED BY <2>1, <2>2, BoundedInduction
<1>6. A[N] = B[N] BY <1>5
<1>7. B[N + 1] = TakeDigit(B[N], c)
  <2>1. N + 1 \in 1 .. N + 1 /\ (N + 1) - 1 = N OBVIOUS
  <2> QED BY <2>1, <1>2, <1>4
<1>8. N \in 0 .. N OBVIOUS
<1> QED BY <1>3, <1>4, <1>6, <1>7, <1>8

\* P has the powers of ten, L the values of the last digits of s.
Weighs(P, L, s) ==
    /\ P[0] = 1 /\ \A n \in 1 .. Len(s) : P[n] = 10 * P[n - 1]
    /\ L[0] = 0
    /\ \A n \in 1 .. Len(s) : L[n] = (s[Len(s) - (n - 1)] - 48) * P[n - 1] + L[n - 1]

LEMMA ValueUnrolls ==
    ASSUME NEW s \in Bytes
    PROVE  \E P \in [0 .. Len(s) -> Int], L \in [0 .. Len(s) -> Int] :
               Weighs(P, L, s) /\ Value(s) = L[Len(s)]
<1> DEFINE N == Len(s)
           Tens == [q \in Int \X (1 .. N) |-> 10 * q[1]]
           Power == CHOOSE P : P = [n \in 0 .. N |-> IF n = 0 THEN 1 ELSE 10 * P[n - 1]]
           Adds == [q \in Int \X (1 .. N) |->
                        (s[N - (q[2] - 1)] - 48) * Power[q[2] - 1] + q[1]]
           Low == CHOOSE L : L = [n \in 0 .. N |->
                      IF n = 0 THEN 0 ELSE (s[N - (n - 1)] - 48) * Power[n - 1] + L[n - 1]]
<1>1. N \in Nat /\ \A n \in 1 .. N : s[n] \in Int
  <2>1. N \in Nat /\ \A n \in 1 .. N : s[n] \in Char BY DEF Bytes
  <2>2. \A c \in Char : c \in Int BY DEF Char
  <2> HIDE DEF N
  <2> QED BY <2>1, <2>2, Zenon
<1>2. Value(s) = Low[N] BY DEF Value
<1>3. Tens \in [Int \X (1 .. N) -> Int] OBVIOUS
<1>4. \A v \in Int, n \in 1 .. N : Tens[<<v, n>>] = 10 * v OBVIOUS
<1> HIDE DEF Tens, N
<1>5. PICK p \in [0 .. N -> Int] : Follows(p, N, 1, Tens)
  <2> DEFINE b == 1
             V == Int
  <2>1. b \in V /\ Tens \in [V \X (1 .. N) -> V] BY <1>3
  <2> HIDE DEF V, b
  <2>2. \E f \in [0 .. N -> V] : Follows(f, N, b, Tens) BY <2>1, <1>1, RecursionExists
  <2> QED BY <2>2 DEF V, b
<1>6. \A n \in 1 .. N : n - 1 \in 0 .. N /\ N - (n - 1) \in 1 .. N /\ n \in 0 .. N BY <1>1
<1>7. \A n \in 0 .. N : p[n] = IF n = 0 THEN 1 ELSE 10 * p[n - 1]
  <2> TAKE n \in 0 .. N
  <2>1. CASE n = 0 BY <2>1, <1>5 DEF Follows
  <2>2. CASE n # 0
    <3>1. n \in 1 .. N BY <1>1, <2>2
    <3>2. p[n - 1] \in Int BY <3>1, <1>5, <1>6
    <3>3. p[n] = Tens[<<p[n - 1], n>>] BY <3>1, <1>5 DEF Follows
    <3> QED BY <2>2, <3>1, <3>2, <3>3, <1>4
  <2> QED BY <2>1, <2>2
<1>8. Power = [n \in 0 .. N |-> IF n = 0 THEN 1 ELSE 10 * Power[n - 1]]
  <2>1. p = [n \in 0 .. N |-> IF n = 0 THEN 1 ELSE 10 * p[n - 1]] BY <1>5, <1>7
  <2> QED BY <2>1 DEF N
<1> HIDE DEF Power
<1>9. \A n \in 0 .. N : Power[n] = IF n = 0 THEN 1 ELSE 10 * Power[n - 1]
  BY <1>8, Zenon
<1> DEFINE S == {n \in 0 .. N : Power[n] \in Int}
<1>10. \A n \in 0 .. N : n \in S
  <2>1. 0 \in S BY <1>1, <1>9
  <2>2. ASSUME NEW n \in 0 .. N - 1, n \in S PROVE n + 1 \in S
    <3>1. n + 1 \in 0 .. N /\ n + 1 # 0 /\ (n + 1) - 1 = n BY <1>1
    <3>2. Power[n + 1] = 10 * Power[n] BY <3>1, <1>9
    <3> QED BY <2>2, <3>1, <3>2
  <2> HIDE DEF S
  <2> QED BY <2>1, <2>2, <1>1, BoundedInduction
<1>11. Power \in [0 .. N -> Int]
  <2>1. \A n \in 0 .. N : Power[n] \in Int BY <1>10
  <2> QED BY <2>1, <1>8
<1>12. Adds \in [Int \X (1 .. N) -> Int]
  <2>1. \A v \in Int, n \in 1 .. N : (s[N - (n - 1)] - 48) * Power[n - 1] + v \in Int
    <3> TAKE v \in Int, n \in 1 .. N
    <3>1. s[N - (n - 1)] \in Int /\ Power[n - 1] \in Int BY <1>1, <1>6, <1>11
    <3> QED BY <3>1
  <2> QED BY <2>1
<1>13. \A v \in Int, n \in 1 .. N :
           Adds[<<v, n>>] = (s[N - (n - 1)] - 48) * Power[n - 1] + v
  OBVIOUS
<1> HIDE DEF Adds
<1>14. PICK f \in [0 .. N -> Int] : Follows(f, N, 0, Adds)
  <2> DEFINE b == 0
             V == Int
  <2>1. b \in V /\ Adds \in [V \X (1 .. N) -> V] BY <1>12
  <2> HIDE DEF V, b
  <2>2. \E f \in [0 .. N -> V] : Follows(f, N, b, Adds) BY <2>1, <1>1, RecursionExists
  <2> QED BY <2>2 DEF V, b
<1>15. \A n \in 0 .. N :
           f[n] = IF n = 0 THEN 0 ELSE (s[N - (n - 1)] - 48) * Power[n - 1] + f[n - 1]
  <2> TAKE n \in 0 .. N
  <2>1. CASE n = 0 BY <2>1, <1>14 DEF Follows
  <2>2. CASE n # 0
    <3>1. n \in 1 .. N BY <1>1, <2>2
    <3>2. f[n - 1] \in Int BY <3>1, <1>6, <1>14
    <3>3. f[n] = Adds[<<f[n - 1], n>>] BY <3>1, <1>14 DEF Follows
    <3>4. Adds[<<f[n - 1], n>>] = (s[N - (n - 1)] - 48) * Power[n - 1] + f[n - 1]
      BY <3>1, <3>2, <1>13
    <3> QED BY <2>2, <3>3, <3>4
  <2> QED BY <2>1, <2>2
<1>16. Low = [n \in 0 .. N |->
                 IF n = 0 THEN 0 ELSE (s[N - (n - 1)] - 48) * Power[n - 1] + Low[n - 1]]
  <2>1. f = [n \in 0 .. N |->
                IF n = 0 THEN 0 ELSE (s[N - (n - 1)] - 48) * Power[n - 1] + f[n - 1]]
    BY <1>14, <1>15
  <2> QED BY <2>1
<1> HIDE DEF Low
<1>17. \A n \in 0 .. N : Low[n] =
           IF n = 0 THEN 0 ELSE (s[N - (n - 1)] - 48) * Power[n - 1] + Low[n - 1]
  BY <1>16, Zenon
<1> DEFINE T == {n \in 0 .. N : Low[n] \in Int}
<1>18. \A n \in 0 .. N : n \in T
  <2>1. 0 \in T BY <1>1, <1>17
  <2>2. ASSUME NEW n \in 0 .. N - 1, n \in T PROVE n + 1 \in T
    <3>1. n + 1 \in 0 .. N /\ n + 1 # 0 /\ (n + 1) - 1 = n /\ n + 1 \in 1 .. N
          /\ N - n \in 1 .. N /\ n \in 0 .. N
      BY <1>1
    <3>2. Low[n + 1] = (s[N - ((n + 1) - 1)] - 48) * Power[(n + 1) - 1] + Low[(n + 1) - 1]
      BY <3>1, <1>17
    <3>3. Low[n + 1] = (s[N - n] - 48) * Power[n] + Low[n] BY <3>1, <3>2
    <3>4. s[N - n] \in Int /\ Power[n] \in Int /\ Low[n] \in Int BY <3>1, <1>1, <1>11, <2>2
    <3> QED BY <3>1, <3>3, <3>4
  <2> HIDE DEF T
  <2> QED BY <2>1, <2>2, <1>1, BoundedInduction
<1>19. Low \in [0 .. N -> Int]
  <2>1. \A n \in 0 .. N : Low[n] \in Int BY <1>18
  <2> QED BY <2>1, <1>16
<1>20. Weighs(Power, Low, s)
  <2>1. 0 \in 0 .. N BY <1>1
  <2>2. Power[0] = 1 /\ Low[0] = 0 BY <2>1, <1>9, <1>17
  <2>3. \A n \in 1 .. N : n \in 0 .. N /\ n # 0 BY <1>6
  <2>4. \A n \in 1 .. N : Power[n] = 10 * Power[n - 1] BY <2>3, <1>9
  <2>5. \A n \in 1 .. N : Low[n] = (s[N - (n - 1)] - 48) * Power[n - 1] + Low[n - 1]
    BY <2>3, <1>17
  <2> QED BY <2>2, <2>4, <2>5 DEF Weighs, N
<1> QED BY <1>2, <1>11, <1>19, <1>20 DEF N

\* A digit at the end is worth itself, the digits before it ten times more than before.
LEMMA ValueOneMore ==
    ASSUME NEW s \in Bytes, NEW c \in Char, NEW u, OneMore(u, s, c)
    PROVE  Value(s) \in Int /\ Value(u) = 10 * Value(s) + (c - 48)
<1>1. PICK N \in Nat : N = Len(s) BY DEF Bytes
<1>2. /\ u \in Bytes /\ Len(u) = N + 1 /\ u[N + 1] = c
      /\ \A i \in 1 .. N : u[i] = s[i]
  BY <1>1 DEF OneMore
<1>3. PICK P \in [0 .. N -> Int], L \in [0 .. N -> Int] :
          /\ P[0] = 1 /\ \A n \in 1 .. N : P[n] = 10 * P[n - 1]
          /\ L[0] = 0
          /\ \A n \in 1 .. N : L[n] = (s[N - (n - 1)] - 48) * P[n - 1] + L[n - 1]
          /\ Value(s) = L[N]
  BY <1>1, ValueUnrolls DEF Weighs
<1>4. PICK Q \in [0 .. N + 1 -> Int], M \in [0 .. N + 1 -> Int] :
          /\ Q[0] = 1 /\ \A n \in 1 .. N + 1 : Q[n] = 10 * Q[n - 1]
          /\ M[0] = 0
          /\ \A n \in 1 .. N + 1 : M[n] = (u[(N + 1) - (n - 1)] - 48) * Q[n - 1] + M[n - 1]
          /\ Value(u) = M[N + 1]
  <2>1. PICK K \in Nat : K = Len(u) /\ K = N + 1 BY <1>2
  <2>2. \E Q \in [0 .. K -> Int], M \in [0 .. K -> Int] : Weighs(Q, M, u) /\ Value(u) = M[K]
    BY <2>1, <1>2, ValueUnrolls
  <2>3. PICK Q \in [0 .. K -> Int], M \in [0 .. K -> Int] :
            Weighs(Q, M, u) /\ Value(u) = M[K]
    BY <2>2
  <2>4. /\ Q[0] = 1 /\ \A n \in 1 .. K : Q[n] = 10 * Q[n - 1]
        /\ M[0] = 0
        /\ \A n \in 1 .. K : M[n] = (u[K - (n - 1)] - 48) * Q[n - 1] + M[n - 1]
    BY <2>1, <2>3 DEF Weighs
  <2> QED BY <2>1, <2>3, <2>4
<1> DEFINE S == {n \in 0 .. N : /\ Q[n] = P[n] /\ Q[n + 1] = 10 * P[n]
                                /\ M[n + 1] = 10 * L[n] + (c - 48)}
<1>5. c \in Int BY DEF Char
<1>6. 0 \in S
  <2>1. 1 \in 1 .. N + 1 /\ 1 - 1 = 0 /\ 0 \in 0 .. N /\ (N + 1) - 0 = N + 1 OBVIOUS
  <2>2. Q[1] = 10 * Q[1 - 1] /\ M[1] = (u[(N + 1) - (1 - 1)] - 48) * Q[1 - 1] + M[1 - 1]
    BY <2>1, <1>4
  <2>3. M[1] = (c - 48) * 1 + 0 BY <2>1, <2>2, <1>2, <1>4
  <2>4. M[1] = 10 * 0 + (c - 48) BY <2>3, <1>5
  <2>5. 0 + 1 = 1 OBVIOUS
  <2> QED BY <2>1, <2>2, <2>4, <2>5, <1>3, <1>4
<1>7. ASSUME NEW n \in 0 .. N - 1, n \in S PROVE n + 1 \in S
  <2> DEFINE k == n + 1
  <2>1. /\ k \in 1 .. N /\ k \in 0 .. N /\ k + 1 \in 1 .. N + 1 /\ k - 1 = n
        /\ (k + 1) - 1 = k /\ n \in 0 .. N /\ N - n \in 1 .. N /\ (N + 1) - k = N - n
    OBVIOUS
  <2>2. PICK d \in Int : d = s[N - n] - 48 /\ u[N - n] = s[N - n]
    <3>1. PICK b \in Char : b = s[N - n] BY <2>1, <1>1 DEF Bytes
    <3>2. u[N - n] = s[N - n] BY <2>1, <1>2
    <3>3. b - 48 \in Int BY DEF Char
    <3> QED BY <3>1, <3>2, <3>3
  <2>3. PICK p \in Int : p = P[n] BY <2>1, <1>3
  <2>4. PICK l \in Int : l = L[n] BY <2>1, <1>3
  <2>5. P[k] = 10 * p /\ L[k] = d * p + l
    <3>1. P[k] = 10 * P[k - 1] /\ L[k] = (s[N - (k - 1)] - 48) * P[k - 1] + L[k - 1]
      BY <2>1, <1>3
    <3> QED BY <3>1, <2>1, <2>2, <2>3, <2>4
  <2>6. Q[k] = 10 * p /\ M[k] = 10 * l + (c - 48) BY <1>7, <2>3, <2>4
  <2>7. Q[k + 1] = 10 * (10 * p) /\ M[k + 1] = d * (10 * p) + (10 * l + (c - 48))
    <3>1. /\ Q[k + 1] = 10 * Q[(k + 1) - 1]
          /\ M[k + 1] = (u[(N + 1) - ((k + 1) - 1)] - 48) * Q[(k + 1) - 1] + M[(k + 1) - 1]
      BY <2>1, <1>4
    <3>2. M[k + 1] = (u[N - n] - 48) * Q[k] + M[k] BY <3>1, <2>1
    <3> QED BY <3>1, <3>2, <2>1, <2>2, <2>6
  <2>8. d * (10 * p) + (10 * l + (c - 48)) = 10 * (d * p + l) + (c - 48)
    <3>1. PICK e \in Int : e = d * p OBVIOUS
    <3>2. d * (10 * p) = 10 * e BY <3>1
    <3> QED BY <3>1, <3>2, <1>5
  <2> HIDE DEF k
  <2>9. k \in S BY <2>1, <2>5, <2>6, <2>7, <2>8
  <2> QED BY <2>9 DEF k
<1> HIDE DEF S
<1>8. \A n \in 0 .. N : n \in S BY <1>6, <1>7, BoundedInduction
<1>9. N \in 0 .. N OBVIOUS
<1>10. M[N + 1] = 10 * L[N] + (c - 48) BY <1>8, <1>9 DEF S
<1> QED BY <1>3, <1>4, <1>9, <1>10


AllDigits(s) == \A i \in 1 .. Len(s) : s[i] \in Digit

\* What parseInt's loop makes of s.
Exact(s) ==
    /\ Accumulate(s) \in Readings
    /\ AllDigits(s) => Value(s) \in Nat
    /\ Accumulate(s).ok <=> AllDigits(s) /\ Value(s) <= INT_MAX
    /\ Accumulate(s).ok => Accumulate(s).out = Value(s)

LEMMA LastAdded ==
    ASSUME NEW s \in Bytes, NEW n \in Nat, Len(s) = n + 1
    PROVE  \E t \in Bytes, c \in Char : Len(t) = n /\ OneMore(s, t, c)
<1>1. s \in Seq(Char) /\ s # <<>> BY DEF Bytes
<1>2. PICK k \in Nat : /\ Len(s) = k + 1 /\ Front(s) \in Seq(Char) /\ Len(Front(s)) = k
                       /\ \A i \in 1 .. k : Front(s)[i] = s[i]
                       /\ Last(s) = s[k + 1] /\ Last(s) \in Char
  BY <1>1, FrontFacts
<1>3. k = n BY <1>2
<1>4. PICK t \in Bytes : t = Front(s) BY <1>2 DEF Bytes
<1>5. PICK c \in Char : c = Last(s) BY <1>2
<1>6. OneMore(s, t, c) BY <1>2, <1>4, <1>5 DEF OneMore
<1> QED BY <1>2, <1>3, <1>4, <1>6

LEMMA ValueNothing == ASSUME NEW s \in Bytes, Len(s) = 0 PROVE Value(s) = 0
BY ValueUnrolls DEF Weighs

LEMMA LoopIsExact == \A s \in Bytes : Exact(s)
<1> DEFINE S == {n \in Nat : \A s \in Bytes : Len(s) = n => Exact(s)}
<1>1. INT_MAX \in Nat BY TextAssumption
<1>2. 0 \in S
  <2> SUFFICES ASSUME NEW s \in Bytes, Len(s) = 0 PROVE Exact(s) OBVIOUS
  <2>1. Accumulate(s) = [ok |-> TRUE, out |-> 0, top |-> 0]
    BY AccumulateNothing DEF Fresh
  <2>2. Value(s) = 0 BY ValueNothing
  <2>3. Accumulate(s) \in Readings BY <1>1, <2>1 DEF Readings
  <2>4. AllDigits(s) BY DEF AllDigits
  <2> QED BY <1>1, <2>1, <2>2, <2>3, <2>4 DEF Exact
<1>3. ASSUME NEW n \in Nat, n \in S PROVE n + 1 \in S
  <2> SUFFICES ASSUME NEW s \in Bytes, Len(s) = n + 1 PROVE Exact(s) OBVIOUS
  <2>1. PICK t \in Bytes, c \in Char : Len(t) = n /\ OneMore(s, t, c) BY LastAdded
  <2>2. Exact(t) BY <1>3, <2>1
  <2>3. PICK v \in Int : v = Value(t) /\ Value(s) = 10 * v + (c - 48) BY <2>1, ValueOneMore
  <2>4. PICK a \in Readings : a = Accumulate(t) /\ Accumulate(s) = TakeDigit(a, c)
    BY <2>1, AccumulateOneMore
  <2>5. /\ TakeDigit(a, c) \in Readings
        /\ TakeDigit(a, c).ok <=> a.ok /\ c \in Digit /\ 10 * a.out + (c - 48) <= INT_MAX
        /\ TakeDigit(a, c).ok => TakeDigit(a, c).out = 10 * a.out + (c - 48)
    BY TakeDigitFacts
  <2>6. AllDigits(s) <=> AllDigits(t) /\ c \in Digit
    <3>1. /\ Len(s) = n + 1 /\ s[n + 1] = c /\ Len(t) = n
          /\ \A i \in 1 .. n : s[i] = t[i]
      BY <2>1 DEF OneMore
    <3>2. \A i \in 1 .. n + 1 : i = n + 1 \/ i \in 1 .. n OBVIOUS
    <3>3. n + 1 \in 1 .. n + 1 /\ \A i \in 1 .. n : i \in 1 .. n + 1 OBVIOUS
    <3> QED BY <3>1, <3>2, <3>3 DEF AllDigits
  <2>7. /\ AllDigits(t) => v \in Nat
        /\ a.ok <=> AllDigits(t) /\ v <= INT_MAX
        /\ a.ok => a.out = v
    BY <2>2, <2>3, <2>4 DEF Exact
  <2>8. c \in Digit => c - 48 \in 0 .. 9 BY DEF Digit, Char
  <2>9. CASE AllDigits(t) /\ c \in Digit
    <3>1. PICK d \in 0 .. 9 : d = c - 48 BY <2>8, <2>9
    <3>2. v \in Nat /\ 10 * v + d \in Nat BY <2>7, <2>9
    <3>3. v > INT_MAX => 10 * v + d > INT_MAX BY <1>1, <3>2
    <3>4. Value(s) = 10 * v + d /\ AllDigits(s) BY <2>3, <2>6, <2>9, <3>1
    <3>5. PICK b \in Readings : b = TakeDigit(a, c) /\ b = Accumulate(s) BY <2>4, <2>5
    <3>6. CASE a.ok
      <4>1. a.out = v BY <2>7, <3>6
      <4>2. 10 * a.out + (c - 48) = 10 * v + d BY <3>1, <4>1
      <4>3. /\ b.ok <=> 10 * v + d <= INT_MAX
            /\ b.ok => b.out = 10 * v + d
        BY <2>5, <2>9, <3>5, <3>6, <4>2
      <4> QED BY <3>2, <3>4, <3>5, <4>3 DEF Exact
    <3>7. CASE ~a.ok
      <4>1. ~b.ok BY <2>5, <3>5, <3>7
      <4>2. 10 * v + d > INT_MAX BY <1>1, <2>7, <2>9, <3>2, <3>3, <3>7
      <4>3. ~(10 * v + d <= INT_MAX) BY <1>1, <3>2, <4>2
      <4> QED BY <3>2, <3>4, <3>5, <4>1, <4>3 DEF Exact
    <3> QED BY <3>6, <3>7
  <2>10. CASE ~(AllDigits(t) /\ c \in Digit)
    BY <2>3, <2>4, <2>5, <2>6, <2>7, <2>10 DEF Exact
  <2> QED BY <2>9, <2>10
<1> HIDE DEF S
<1>4. \A n \in Nat : n \in S BY <1>2, <1>3, SetInduction
<1>5. \A s \in Bytes : Len(s) \in Nat BY DEF Bytes
<1> QED BY <1>4, <1>5 DEF S

\* The loop reads m from u.
Reads(u, m) == Accumulate(u).ok /\ Accumulate(u).out = m

LEMMA ReadsMore ==
    ASSUME NEW w \in Bytes, NEW k \in Nat, NEW d \in 0 .. 9, Reads(w, k),
           10 * k + d <= INT_MAX, NEW c, c = 48 + d
    PROVE  Reads(w \o <<c>>, 10 * k + d)
<1>1. c \in Char /\ c \in Digit /\ c - 48 = d BY DEF Char, Digit
<1>2. PICK u : u = w \o <<c>> OBVIOUS
<1>3. OneMore(u, w, c) BY <1>1, <1>2, Adding
<1>4. PICK a \in Readings : a = Accumulate(w) /\ Accumulate(u) = TakeDigit(a, c)
  BY <1>1, <1>3, AccumulateOneMore
<1>5. a.ok /\ a.out = k BY <1>4 DEF Reads
<1>6. /\ TakeDigit(a, c).ok <=> a.ok /\ c \in Digit /\ 10 * a.out + (c - 48) <= INT_MAX
      /\ TakeDigit(a, c).ok => TakeDigit(a, c).out = 10 * a.out + (c - 48)
  BY <1>1, TakeDigitFacts
<1>7. 10 * a.out + (c - 48) = 10 * k + d BY <1>1, <1>5
<1> QED BY <1>1, <1>2, <1>4, <1>5, <1>6, <1>7 DEF Reads

\* After nothing, or zeros, the digits printed of m are read as m.
LEMMA DigitsReadBack ==
    ASSUME NEW D, Prints(D), \A m \in 0 .. INT_MAX : D[m] \in Bytes,
           NEW z \in Bytes, Reads(z, 0)
    PROVE  \A m \in 0 .. INT_MAX : Reads(z \o D[m], m)
<1> DEFINE S == {m \in Nat : m <= INT_MAX => Reads(z \o D[m], m)}
<1>1. INT_MAX \in Nat BY TextAssumption
<1>2. ASSUME NEW m \in Nat, \A k \in Nat : k < m => k \in S PROVE m \in S
  <2> SUFFICES ASSUME m <= INT_MAX PROVE Reads(z \o D[m], m) OBVIOUS
  <2>1. m \in 0 .. INT_MAX BY <1>1
  <2>2. D[m] = (IF m < 10 THEN <<>> ELSE D[m \div 10]) \o <<48 + (m % 10)>>
    BY <2>1 DEF Prints
  <2>3. PICK d \in 0 .. 9 : d = m % 10 BY Digits
  <2>4. PICK c \in Char : c = 48 + d
    <3>1. 48 + d \in Char BY DEF Char
    <3> QED BY <3>1
  <2>5. PICK e \in Bytes : e = <<c>>
    <3>1. <<c>> \in Bytes BY DEF Bytes
    <3> QED BY <3>1
  <2>6. CASE m < 10
    <3>1. D[m] = e
      <4>1. D[m] = <<>> \o e BY <2>2, <2>3, <2>4, <2>5, <2>6
      <4>2. <<>> \o e = e BY ConcatEmptySeq DEF Bytes
      <4> QED BY <4>1, <4>2
    <3>2. d = m /\ 0 \in Nat /\ 10 * 0 + d = m /\ 10 * 0 + d <= INT_MAX
      BY <2>3, <2>6, Digits
    <3>3. Reads(z \o <<c>>, 10 * 0 + d) BY <2>4, <3>2, ReadsMore
    <3> QED BY <2>5, <3>1, <3>2, <3>3
  <2>7. CASE ~(m < 10)
    <3>1. PICK k \in Nat : k = m \div 10 /\ k < m /\ m = 10 * k + d BY <2>3, <2>7, Digits
    <3>2. k \in S /\ k <= INT_MAX /\ k \in 0 .. INT_MAX BY <1>1, <1>2, <3>1
    <3>3. Reads(z \o D[k], k) BY <3>2
    <3>4. PICK g \in Bytes : g = D[k] BY <3>2
    <3>5. D[m] = g \o e BY <2>2, <2>3, <2>4, <2>5, <2>7, <3>1, <3>4
    <3>6. PICK w \in Bytes : w = z \o g
      <4>1. z \o g \in Bytes BY ConcatProperties DEF Bytes
      <4> QED BY <4>1
    <3>7. z \o (g \o e) = w \o e BY <3>6, ConcatAssociative DEF Bytes
    <3>8. Reads(w \o <<c>>, 10 * k + d)
      <4>1. Reads(w, k) /\ 10 * k + d <= INT_MAX BY <3>1, <3>3, <3>4, <3>6
      <4> QED BY <4>1, <2>4, ReadsMore
    <3> QED BY <2>5, <3>1, <3>5, <3>7, <3>8
  <2> QED BY <2>6, <2>7
<1> HIDE DEF S
<1>3. \A m \in Nat : m \in S BY <1>2, StrongInduction
<1>4. \A m \in 0 .. INT_MAX : m \in Nat /\ m <= INT_MAX BY <1>1
<1> QED BY <1>3, <1>4 DEF S


Printed(D) ==
    /\ Prints(D) /\ \A m \in 0 .. INT_MAX : D[m] \in Bytes
    /\ \A n : IntToString(n) = IF n < 0 THEN <<DASH>> \o D[-n] ELSE D[n]

\* What is printed of m is not empty and starts with a digit; a code has at most
\* three digits.
LEMMA PrintedShape ==
    ASSUME NEW D, Printed(D), NEW m \in 0 .. INT_MAX
    PROVE  /\ D[m] # <<>> /\ D[m][1] \in Digit
           /\ m < 1000 => Len(D[m]) = IF m < 10 THEN 1 ELSE IF m < 100 THEN 2 ELSE 3
<1> DEFINE Shape(u, k) == /\ Len(u) >= 1 /\ u[1] \in Digit
                          /\ k < 1000 => Len(u) = IF k < 10 THEN 1 ELSE IF k < 100 THEN 2 ELSE 3
           S == {k \in Nat : k <= INT_MAX => Shape(D[k], k)}
<1>1. INT_MAX \in Nat BY TextAssumption
<1>2. ASSUME NEW n \in Nat, \A k \in Nat : k < n => k \in S PROVE n \in S
  <2> SUFFICES ASSUME n <= INT_MAX PROVE Shape(D[n], n) OBVIOUS
  <2>1. n \in 0 .. INT_MAX BY <1>1
  <2>2. D[n] = (IF n < 10 THEN <<>> ELSE D[n \div 10]) \o <<48 + (n % 10)>>
    BY <2>1 DEF Prints, Printed
  <2>3. PICK d \in 0 .. 9 : d = n % 10 BY Digits
  <2>4. PICK c \in Char : c = 48 + d /\ c \in Digit
    <3>1. 48 + d \in Char /\ 48 + d \in Digit BY DEF Char, Digit
    <3> QED BY <3>1
  <2>5. PICK e \in Bytes : e = <<c>>
    <3>1. <<c>> \in Bytes BY DEF Bytes
    <3> QED BY <3>1
  <2>6. Len(e) = 1 /\ e[1] = c BY <2>5
  <2>7. PICK u \in Bytes : u = D[n] BY <2>1 DEF Printed
  <2>8. CASE n < 10
    <3>1. u = <<>> \o e BY <2>2, <2>3, <2>4, <2>5, <2>7, <2>8
    <3>2. <<>> \o e = e BY ConcatEmptySeq DEF Bytes
    <3>3. Len(u) = 1 /\ u[1] \in Digit BY <2>4, <2>6, <3>1, <3>2
    <3> QED BY <2>7, <2>8, <3>3
  <2>9. CASE ~(n < 10)
    <3>1. PICK k \in Nat : k = n \div 10 /\ k < n /\ k >= 1 /\ n = 10 * k + d
      BY <2>3, <2>9, Digits
    <3>2. k \in S /\ k <= INT_MAX /\ k \in 0 .. INT_MAX BY <1>1, <1>2, <3>1
    <3>3. PICK g \in Bytes : g = D[k] BY <3>2 DEF Printed
    <3>4. u = g \o e BY <2>2, <2>3, <2>4, <2>5, <2>7, <2>9, <3>1, <3>3
    <3>5. /\ Len(u) = Len(g) + Len(e) /\ \A i \in 1 .. Len(g) : u[i] = g[i]
      BY <3>4, Continuing DEF Continues
    <3>6. PICK l \in Nat : l = Len(g) BY DEF Bytes
    <3>7. /\ l >= 1 /\ g[1] \in Digit
          /\ k < 1000 => l = IF k < 10 THEN 1 ELSE IF k < 100 THEN 2 ELSE 3
      BY <3>2, <3>3, <3>6
    <3>8. Len(u) = l + 1 BY <2>6, <3>5, <3>6
    <3>9. u[1] \in Digit
      <4>1. 1 \in 1 .. Len(g) BY <3>6, <3>7
      <4> QED BY <4>1, <3>5, <3>7
    <3>10. n < 1000 => k < 100 /\ (n < 100 <=> k < 10) BY <3>1
    <3>11. n < 1000 => l + 1 = IF n < 100 THEN 2 ELSE 3 BY <3>7, <3>10
    <3> QED BY <2>7, <2>9, <3>6, <3>7, <3>8, <3>9, <3>11
  <2> QED BY <2>8, <2>9
<1> HIDE DEF S
<1>3. \A n \in Nat : n \in S BY <1>2, StrongInduction
<1>4. m \in Nat /\ m <= INT_MAX BY <1>1
<1>5. Shape(D[m], m) BY <1>3, <1>4 DEF S
<1>6. PICK u \in Bytes : u = D[m] BY DEF Printed
<1>7. Len(u) >= 1 => u # <<>> OBVIOUS
<1> QED BY <1>5, <1>6, <1>7

\* parseInt on digits, with or without a dash before them.
LEMMA ParsesDigits ==
    ASSUME NEW u \in Bytes, u # <<>>, u[1] \in Digit, NEW m, Reads(u, m)
    PROVE  ParseInt(u).ok /\ ParseInt(u).out = m
<1>1. u[1] \notin {43, DASH} /\ u[1] # DASH BY DEF Digit, DASH
<1>2. ParseInt(u) = Accumulate(u) BY <1>1 DEF ParseInt
<1> QED BY <1>2 DEF Reads

LEMMA ParsesNegative ==
    ASSUME NEW u \in Bytes, u # <<>>, NEW m, Reads(u, m)
    PROVE  ParseInt(<<DASH>> \o u).ok /\ ParseInt(<<DASH>> \o u).out = -m
<1>1. PICK d \in Bytes : d = <<DASH>>
  <2>1. <<DASH>> \in Bytes BY DEF Bytes, Char, DASH
  <2> QED BY <2>1
<1>2. Len(d) = 1 /\ d[1] = DASH BY <1>1
<1>3. PICK w : w = d \o u OBVIOUS
<1>4. Continues(w, d, u) BY <1>3, Continuing
<1>5. PICK n \in Nat : n = Len(u) BY DEF Bytes
<1>6. w \in Bytes /\ Len(w) = 1 + n /\ w[1] = DASH BY <1>2, <1>4, <1>5 DEF Continues
<1>7. w # <<>> BY <1>6
<1>8. Tail(w) = u
  <2>1. From(w, 2) = u
    <3>1. 2 = Len(d) + 1 BY <1>2
    <3> QED BY <3>1, <1>4, HeadFacts
  <2>2. Tail(w) = SubSeq(w, 2, Len(w))
    <3>1. w \in Seq(Char) BY <1>6 DEF Bytes
    <3> QED BY <3>1, <1>7, TailIsSubSeq
  <2> QED BY <2>1, <2>2 DEF From
<1>9. PICK a \in Readings : a = Accumulate(u) BY LoopIsExact DEF Exact
<1>10. a.ok /\ a.out = m BY <1>9 DEF Reads
<1>11. ParseInt(w) = [a EXCEPT !.out = -@] BY <1>6, <1>7, <1>8, <1>9, <1>10 DEF ParseInt
<1>12. ParseInt(w).ok /\ ParseInt(w).out = -m BY <1>10, <1>11 DEF Readings
<1> QED BY <1>1, <1>3, <1>12


\* What is printed of any int is read back (toString, parseInt).
LEMMA PrintedIsRead ==
    ASSUME NEW D, Printed(D), NEW m \in 0 .. INT_MAX
    PROVE  /\ ParseInt(IntToString(m)).ok /\ ParseInt(IntToString(m)).out = m
           /\ m # 0 => ParseInt(IntToString(-m)).ok /\ ParseInt(IntToString(-m)).out = -m
<1>1. INT_MAX \in Nat BY TextAssumption
<1>2. PICK u \in Bytes : u = D[m] BY DEF Printed
<1>3. u # <<>> /\ u[1] \in Digit BY <1>2, PrintedShape
<1>4. Reads(u, m)
  <2>1. PICK z \in Bytes : z = <<>> BY EmptySeq DEF Bytes
  <2>2. Accumulate(z) = Fresh
    <3>1. Len(z) = 0 BY <2>1
    <3> QED BY <3>1, AccumulateNothing
  <2>3. Reads(z, 0) BY <2>2 DEF Reads, Fresh
  <2>4. Reads(z \o D[m], m) BY <2>3, DigitsReadBack DEF Printed
  <2>5. z \o u = u BY <2>1, ConcatEmptySeq DEF Bytes
  <2> QED BY <1>2, <2>4, <2>5
<1>5. IntToString(m) = u
  <2>1. ~(m < 0) BY <1>1
  <2>2. IntToString(m) = IF m < 0 THEN <<DASH>> \o D[-m] ELSE D[m] BY DEF Printed
  <2> QED BY <1>2, <2>1, <2>2
<1>6. ASSUME m # 0 PROVE IntToString(-m) = <<DASH>> \o u
  <2>1. -m < 0 /\ -(-m) = m BY <1>1, <1>6
  <2>2. PICK n : n = -m OBVIOUS
  <2>3. IntToString(n) = IF n < 0 THEN <<DASH>> \o D[-n] ELSE D[n] BY DEF Printed
  <2> QED BY <1>2, <2>1, <2>2, <2>3
<1> QED BY <1>3, <1>4, <1>5, <1>6, ParsesDigits, ParsesNegative

\* The zeros before a code.
LEMMA Zeros ==
    ASSUME NEW k \in 0 .. 2
    PROVE  \E z \in Bytes : z = [i \in 1 .. k |-> 48] /\ Len(z) = k /\ Reads(z, 0)
                            /\ \A i \in 1 .. k : z[i] = 48
<1> DEFINE Z(n) == [i \in 1 .. n |-> 48]
<1>1. \A n \in 0 .. 2 : Z(n) \in Bytes /\ Len(Z(n)) = n /\ \A i \in 1 .. n : Z(n)[i] = 48
  BY DEF Bytes, Char
<1>2. Reads(Z(0), 0)
  <2>1. PICK z \in Bytes : z = Z(0) /\ Len(z) = 0 BY <1>1
  <2> QED BY <2>1, AccumulateNothing DEF Reads, Fresh
<1>3. ASSUME NEW n \in 0 .. 1, Reads(Z(n), 0) PROVE Reads(Z(n + 1), 0)
  <2>1. n \in 0 .. 2 /\ n + 1 \in 0 .. 2 /\ n \in Nat OBVIOUS
  <2>2. PICK z \in Bytes : z = Z(n) /\ Len(z) = n /\ \A i \in 1 .. n : z[i] = 48
    BY <1>1, <2>1
  <2>3. PICK y \in Bytes : y = Z(n + 1) /\ Len(y) = n + 1 /\ \A i \in 1 .. n + 1 : y[i] = 48
    BY <1>1, <2>1
  <2>4. PICK c \in Char : c = 48
    <3>1. 48 \in Char BY DEF Char
    <3> QED BY <3>1
  <2>5. PICK u : u = z \o <<c>> OBVIOUS
  <2>6. /\ u \in Bytes /\ Len(u) = n + 1 /\ u[n + 1] = 48
        /\ \A i \in 1 .. n : u[i] = 48
    BY <2>2, <2>4, <2>5, Adding DEF OneMore
  <2>7. u = y
    <3>1. \A i \in 1 .. n + 1 : u[i] = y[i]
      <4>1. \A i \in 1 .. n + 1 : i = n + 1 \/ i \in 1 .. n OBVIOUS
      <4> QED BY <4>1, <2>3, <2>6
    <3> QED BY <3>1, <2>3, <2>6, SeqEqual DEF Bytes
  <2>8. Reads(z \o <<c>>, 10 * 0 + 0)
    <3>1. 0 \in Nat /\ 0 \in 0 .. 9 /\ 10 * 0 + 0 <= INT_MAX /\ c = 48 + 0
      BY <2>4, TextAssumption
    <3>2. Reads(z, 0) BY <1>3, <2>2
    <3> QED BY <3>1, <3>2, ReadsMore
  <2>9. 10 * 0 + 0 = 0 OBVIOUS
  <2> QED BY <2>3, <2>5, <2>7, <2>8, <2>9
<1>4. Reads(Z(1), 0)
  <2>1. 0 \in 0 .. 1 /\ 0 + 1 = 1 OBVIOUS
  <2> HIDE DEF Z
  <2> QED BY <2>1, <1>2, <1>3
<1>5. Reads(Z(2), 0)
  <2>1. 1 \in 0 .. 1 /\ 1 + 1 = 2 OBVIOUS
  <2> HIDE DEF Z
  <2> QED BY <2>1, <1>4, <1>3
<1>6. Reads(Z(k), 0)
  <2>1. k = 0 \/ k = 1 \/ k = 2 OBVIOUS
  <2> HIDE DEF Z
  <2> QED BY <2>1, <1>2, <1>4, <1>5
<1> QED BY <1>1, <1>6

\* Every code has three digits and is read back.
LEMMA CodesAreThreeDigits ==
    ASSUME NEW D, Printed(D), NEW m \in 0 .. INT_MAX, m \in 1 .. 999
    PROVE  Len(FormatCode(m)) = 3 /\ ParseInt(FormatCode(m)).out = m
<1>1. INT_MAX \in Nat /\ m \in Nat BY TextAssumption
<1>2. PICK u \in Bytes : u = D[m] BY DEF Printed
<1>3. u # <<>> /\ u[1] \in Digit /\ Len(u) = IF m < 10 THEN 1 ELSE IF m < 100 THEN 2 ELSE 3
  <2>1. m < 1000 BY <1>1
  <2> QED BY <1>2, <2>1, PrintedShape
<1>4. IntToString(m) = u
  <2>1. ~(m < 0) BY <1>1
  <2>2. IntToString(m) = IF m < 0 THEN <<DASH>> \o D[-m] ELSE D[m] BY DEF Printed
  <2> QED BY <1>2, <2>1, <2>2
<1>5. PICK l \in 1 .. 3 : l = Len(u) BY <1>1, <1>3
<1>6. PICK k \in 0 .. 2 : k = 3 - l OBVIOUS
<1>7. PICK z \in Bytes : /\ z = [i \in 1 .. k |-> 48] /\ Len(z) = k /\ Reads(z, 0)
                         /\ \A i \in 1 .. k : z[i] = 48
  BY Zeros
<1>8. FormatCode(m) = z \o u BY <1>4, <1>5, <1>6, <1>7 DEF FormatCode
<1>9. PICK f : f = z \o u OBVIOUS
<1>10. /\ f \in Bytes /\ Len(f) = Len(z) + Len(u)
       /\ \A i \in 1 .. Len(z) : f[i] = z[i]
       /\ \A i \in 1 .. Len(u) : f[Len(z) + i] = u[i]
  BY <1>9, Continuing DEF Continues
<1>11. Len(f) = 3
  <2>1. k + l = 3 BY <1>6
  <2> QED BY <2>1, <1>5, <1>7, <1>10
<1>12. f # <<>> BY <1>11
<1>13. f[1] \in Digit
  <2>1. CASE k = 0
    <3>1. 1 \in 1 .. l /\ 0 + 1 = 1 OBVIOUS
    <3> QED BY <3>1, <2>1, <1>3, <1>5, <1>7, <1>10
  <2>2. CASE k # 0
    <3>1. 1 \in 1 .. k BY <2>2
    <3>2. f[1] = 48 BY <3>1, <1>7, <1>10
    <3> QED BY <3>2 DEF Digit
  <2> QED BY <2>1, <2>2
<1>14. Reads(f, m) BY <1>2, <1>7, <1>9, DigitsReadBack DEF Printed
<1> QED BY <1>8, <1>9, <1>10, <1>11, <1>12, <1>13, <1>14, ParsesDigits

\* A number is taken exactly when it is an int, without overflow on the way, and is
\* printed as it was read (parseInt, toString, formatCode).
THEOREM NumbersAreTaken == Spec => []NumbersAreExact
<1>1. TInv => NumbersAreExact
  <2> SUFFICES ASSUME TInv PROVE NumbersAreExact OBVIOUS
  <2>1. INT_MAX \in Nat BY TextAssumption
  <2>2. PICK s \in Bytes : s = text BY DEF TInv
  <2>3. PICK u \in Bytes : u = Magnitude(s)
    <3>1. Tail(s) \in Bytes \/ s = <<>> BY HeadTailProperties DEF Bytes
    <3> QED BY <3>1 DEF Magnitude
  <2>4. PICK a \in Readings : a = Accumulate(u) BY LoopIsExact DEF Exact
  <2>5. /\ AllDigits(u) => Value(u) \in Nat
        /\ a.ok <=> AllDigits(u) /\ Value(u) <= INT_MAX
        /\ a.ok => a.out = Value(u)
    BY <2>4, LoopIsExact DEF Exact
  <2>6. a.ok \in BOOLEAN /\ a.out \in 0 .. INT_MAX /\ a.top \in 0 .. INT_MAX
    BY DEF Readings
  <2>7. AllDigits(u) <=> ToSet(u) \subseteq Digit
    <3>1. DOMAIN u = 1 .. Len(u) BY DEF Bytes
    <3> QED BY <3>1 DEF AllDigits, ToSet
  <2>8. ParseInt(s) = IF u = <<>> THEN NotANumber(0)
                      ELSE IF a.ok /\ s[1] = DASH THEN [a EXCEPT !.out = -@] ELSE a
    BY <2>3, <2>4 DEF ParseInt, Magnitude
  <2>9. PICK n : n = ParseInt(s) OBVIOUS
  <2>10. /\ n.ok <=> u # <<>> /\ a.ok
         /\ n.ok => n.out = IF s[1] = DASH THEN -a.out ELSE a.out
         /\ n.top <= INT_MAX
    <3>1. CASE u = <<>>
      <4>1. n = [ok |-> FALSE, out |-> 0, top |-> 0] BY <2>8, <2>9, <3>1 DEF NotANumber
      <4> QED BY <2>1, <3>1, <4>1
    <3>2. CASE u # <<>> /\ a.ok /\ s[1] = DASH
      <4>1. n = [a EXCEPT !.out = -@] BY <2>8, <2>9, <3>2
      <4>2. n.ok = a.ok /\ n.out = -a.out /\ n.top = a.top BY <4>1 DEF Readings
      <4> QED BY <2>1, <2>6, <3>2, <4>2
    <3>3. CASE u # <<>> /\ ~(a.ok /\ s[1] = DASH)
      <4>1. n = a BY <2>8, <2>9, <3>3
      <4> QED BY <2>1, <2>6, <3>3, <4>1
    <3> QED BY <3>1, <3>2, <3>3
  <2>11. n.ok => ReadsBack(n.out)
    <3> SUFFICES ASSUME n.ok PROVE ReadsBack(n.out) OBVIOUS
    <3>1. PICK D : Printed(D) BY IntToStringUnrolls DEF Printed
    <3>2. PICK m \in 0 .. INT_MAX : m = a.out BY <2>6
    <3>3. n.out = m \/ n.out = -m BY <2>10, <3>2
    <3>4. /\ ParseInt(IntToString(m)).ok /\ ParseInt(IntToString(m)).out = m
          /\ m # 0 => ParseInt(IntToString(-m)).ok /\ ParseInt(IntToString(-m)).out = -m
      BY <3>1, PrintedIsRead
    <3>5. m \in 1 .. 999 => Len(FormatCode(m)) = 3 /\ ParseInt(FormatCode(m)).out = m
      BY <3>1, CodesAreThreeDigits
    <3>6. ReadsBack(m) BY <3>4, <3>5 DEF ReadsBack
    <3>7. ASSUME m # 0 PROVE ReadsBack(-m)
      <4>1. -m \notin 1 .. 999 BY <2>1
      <4> QED BY <3>4, <3>7, <4>1 DEF ReadsBack
    <3>8. m = 0 => -m = m
      <4>1. PICK k \in Int : k = m BY <2>1
      <4>2. k <= 0 /\ k >= 0 => -k = k OBVIOUS
      <4>3. m = 0 => k <= 0 /\ k >= 0 BY <4>1
      <4> QED BY <4>1, <4>2, <4>3
    <3> QED BY <3>3, <3>6, <3>7, <3>8
  <2> QED BY <2>2, <2>3, <2>5, <2>7, <2>9, <2>10, <2>11 DEF NumbersAreExact
<1> QED BY <1>1, Invariance, PTL


-----------------------------------------------------------------------------
(* The member list.                                                        *)

\* What NAMES puts in a line: no space in it, and it fits alone.
IsWord(e) ==
    /\ e \in Bytes /\ Len(e) >= 1
    /\ \A i \in 1 .. Len(e) : e[i] # SPACE
    /\ HeadLen + Len(e) <= MAX_PAYLOAD_LEN

LEMMA NicknameIsWord ==
    ASSUME NEW e \in Bytes, IsValidNickname(e)
    PROVE  /\ Len(e) \in 1 .. MAX_NICKNAME_LEN
           /\ \A i \in 1 .. Len(e) : e[i] # SPACE
<1>1. DOMAIN e = 1 .. Len(e) BY DEF Bytes
<1>2. ToSet(e) \cap {SPACE, COMMA, COLON, 33, 64, 126} = {} BY NicknameIsPlain
<1>3. \A i \in 1 .. Len(e) : e[i] \in ToSet(e) BY <1>1 DEF ToSet
<1>4. \A i \in 1 .. Len(e) : e[i] # SPACE BY <1>2, <1>3
<1>5. Len(e) \in 1 .. MAX_NICKNAME_LEN BY DEF IsValidNickname
<1> QED BY <1>4, <1>5

LEMMA EntryIsWord == ASSUME NEW e \in Bytes, IsEntry(e) PROVE IsWord(e)
<1>1. /\ MAX_NICKNAME_LEN \in Nat /\ HeadLen \in Nat /\ MAX_PAYLOAD_LEN \in Nat
      /\ HeadLen + 1 + MAX_NICKNAME_LEN <= MAX_PAYLOAD_LEN
  BY TextAssumption
<1>2. PICK n \in Nat : n = Len(e) BY DEF Bytes
<1>3. CASE IsValidNickname(e)
  <2>1. n \in 1 .. MAX_NICKNAME_LEN BY <1>2, <1>3, NicknameIsWord
  <2>2. HeadLen + n <= MAX_PAYLOAD_LEN BY <1>1, <2>1
  <2>3. \A i \in 1 .. Len(e) : e[i] # SPACE BY <1>3, NicknameIsWord
  <2> QED BY <1>1, <1>2, <2>1, <2>2, <2>3 DEF IsWord
<1>4. CASE e # <<>> /\ Head(e) = 64 /\ IsValidNickname(Tail(e))
  <2>1. PICK t \in Bytes : /\ t = Tail(e) /\ Len(t) = n - 1
                           /\ \A i \in 1 .. Len(t) : t[i] = e[i + 1]
    <3>1. e \in Seq(Char) /\ e # <<>> BY <1>4 DEF Bytes
    <3>2. /\ Tail(e) \in Seq(Char) /\ Len(Tail(e)) = Len(e) - 1
          /\ \A i \in 1 .. Len(Tail(e)) : Tail(e)[i] = e[i + 1]
      BY <3>1, HeadTailProperties
    <3>3. PICK t : t = Tail(e) OBVIOUS
    <3> QED BY <1>2, <3>2, <3>3 DEF Bytes
  <2>2. Len(t) \in 1 .. MAX_NICKNAME_LEN /\ \A i \in 1 .. Len(t) : t[i] # SPACE
    BY <1>4, <2>1, NicknameIsWord
  <2>3. n - 1 \in 1 .. MAX_NICKNAME_LEN BY <2>1, <2>2
  <2>4. n >= 1 /\ HeadLen + n <= MAX_PAYLOAD_LEN BY <1>1, <2>3
  <2>5. e[1] = 64 BY <1>4 DEF Head
  <2>6. \A i \in 1 .. n : e[i] # SPACE
    <3> TAKE i \in 1 .. n
    <3>1. CASE i = 1 BY <2>5, <3>1 DEF SPACE
    <3>2. CASE i # 1
      <4>1. i - 1 \in 1 .. Len(t) /\ (i - 1) + 1 = i BY <2>1, <3>2
      <4> QED BY <4>1, <2>1, <2>2
    <3> QED BY <3>1, <3>2
  <2> QED BY <1>2, <2>4, <2>6 DEF IsWord
<1> QED BY <1>3, <1>4 DEF IsEntry

\* u is s, a space, and e.
Spaced(u, s, e) ==
    /\ u \in Bytes /\ Len(u) = Len(s) + 1 + Len(e)
    /\ \A i \in 1 .. Len(s) : u[i] = s[i]
    /\ u[Len(s) + 1] = SPACE
    /\ From(u, Len(s) + 2) = e

LEMMA Spacing ==
    ASSUME NEW s \in Bytes, NEW e \in Bytes
    PROVE  Spaced((s \o <<SPACE>>) \o e, s, e)
<1>1. PICK c \in Char : c = SPACE
  <2>1. SPACE \in Char BY DEF Char, SPACE
  <2> QED BY <2>1
<1>2. PICK h : h = s \o <<c>> OBVIOUS
<1>3. /\ h \in Bytes /\ Len(h) = Len(s) + 1 /\ h[Len(s) + 1] = c
      /\ \A i \in 1 .. Len(s) : h[i] = s[i]
  BY <1>2, Adding DEF OneMore
<1>4. PICK u : u = h \o e OBVIOUS
<1>5. PICK n \in Nat : n = Len(s) BY DEF Bytes
<1>6. Continues(u, h, e) BY <1>3, <1>4, Continuing
<1>7. /\ u \in Bytes /\ Len(u) = Len(h) + Len(e)
      /\ \A i \in 1 .. Len(h) : u[i] = h[i]
  BY <1>6 DEF Continues
<1>8. Len(u) = n + 1 + Len(e) BY <1>3, <1>5, <1>7
<1>9. \A i \in 1 .. n : u[i] = s[i]
  <2>1. \A i \in 1 .. n : i \in 1 .. n + 1 OBVIOUS
  <2> QED BY <2>1, <1>3, <1>5, <1>7
<1>10. u[n + 1] = SPACE
  <2>1. n + 1 \in 1 .. n + 1 OBVIOUS
  <2> QED BY <2>1, <1>1, <1>3, <1>5, <1>7
<1>11. From(u, n + 2) = e
  <2>1. PICK m \in Nat : m = n + 2 OBVIOUS
  <2>2. m = Len(h) + 1 BY <2>1, <1>3, <1>5
  <2> QED BY <2>1, <2>2, <1>3, <1>6, HeadFacts
<1> QED BY <1>1, <1>2, <1>4, <1>5, <1>7, <1>8, <1>9, <1>10, <1>11 DEF Spaced

MoreFields(F, H, s, e) == \A i \in 1 .. Len(s) + 1 : F[i] = H[i] \o <<e>>

\* A word after a space is one more field.
LEMMA FieldsMore ==
    ASSUME NEW s \in Bytes, NEW e \in Bytes, \A i \in 1 .. Len(e) : e[i] # SPACE,
           NEW u \in Bytes, Spaced(u, s, e),
           NEW F, SplitsInto(F, u, SPACE), NEW H, SplitsInto(H, s, SPACE)
    PROVE  MoreFields(F, H, s, e)
<1>1. PICK n \in Nat : n = Len(s) BY DEF Bytes
<1>2. PICK k \in Nat : k = Len(e) BY DEF Bytes
<1>3. /\ Len(u) = n + 1 + k /\ u[n + 1] = SPACE /\ From(u, n + 2) = e
      /\ \A i \in 1 .. n : u[i] = s[i]
  BY <1>1, <1>2 DEF Spaced
<1>4. PICK N \in Nat : N = n + 1 OBVIOUS
<1> DEFINE S == {i \in 1 .. N : F[i] = H[i] \o <<e>>}
<1>5. F[n + 2] = <<e>>
  <2>1. n + 2 \in 1 .. Len(u) + 1 BY <1>3
  <2>2. PICK m \in 1 .. Len(u) + 1 : m = n + 2 BY <2>1
  <2>3. PICK p \in m .. Len(u) + 1 : p = Len(u) + 1 BY <1>3, <2>2
  <2>4. \A j \in m .. p - 1 : u[j] # SPACE
    <3> TAKE j \in m .. p - 1
    <3>1. j - m + 1 \in 1 .. k /\ j - m + 1 \in 1 .. Len(u) - m + 1
          /\ m + (j - m + 1) - 1 = j
      BY <1>3, <2>2, <2>3
    <3>2. From(u, m)[j - m + 1] = u[m + (j - m + 1) - 1] BY <3>1, FromFacts
    <3>3. e[j - m + 1] = u[j] BY <3>1, <3>2, <1>3, <2>2
    <3> QED BY <3>1, <3>3, <1>2
  <2>5. p <= Len(u) => u[p] = SPACE BY <1>3, <2>3
  <2>6. Find(u, SPACE, m) = p BY <2>4, <2>5, FindIs
  <2>7. F[m] = IF Find(u, SPACE, m) > Len(u) THEN <<Field(u, SPACE, m)>>
               ELSE <<Field(u, SPACE, m)>> \o F[Find(u, SPACE, m) + 1]
    BY DEF SplitsInto
  <2>8. p > Len(u) /\ p - 1 = Len(u) BY <1>3, <2>3
  <2>9. Field(u, SPACE, m) = e BY <1>3, <2>2, <2>6, <2>8 DEF Field, From
  <2> QED BY <2>2, <2>6, <2>7, <2>8, <2>9
<1>6. ASSUME NEW i \in 1 .. N, \A j \in i + 1 .. N : j \in S PROVE i \in S
  <2>1. i \in 1 .. Len(s) + 1 /\ i \in 1 .. Len(u) + 1 BY <1>1, <1>3, <1>4
  <2>2. PICK p \in i .. N : /\ p = Find(s, SPACE, i) /\ (p <= n => s[p] = SPACE)
                            /\ \A j \in i .. p - 1 : s[j] # SPACE
    BY <2>1, <1>1, <1>4, FindFacts
  <2>3. Find(u, SPACE, i) = p
    <3>1. p \in i .. Len(u) + 1 BY <1>3, <1>4, <2>2
    <3>2. u[p] = SPACE
      <4>1. CASE p <= n
        <5>1. p \in 1 .. n BY <1>4, <2>2, <4>1
        <5> QED BY <5>1, <4>1, <1>3, <2>2
      <4>2. CASE ~(p <= n)
        <5>1. p = n + 1 BY <1>4, <2>2, <4>2
        <5> QED BY <5>1, <1>3
      <4> QED BY <4>1, <4>2
    <3>3. \A j \in i .. p - 1 : u[j] # SPACE
      <4> TAKE j \in i .. p - 1
      <4>1. j \in 1 .. n BY <1>4, <2>2
      <4> QED BY <4>1, <1>3, <2>2
    <3> QED BY <3>1, <3>2, <3>3, <2>1, FindIs
  <2>4. PICK w \in Bytes : w = Field(s, SPACE, i) BY <2>1, FieldFacts
  <2>5. Field(u, SPACE, i) = w
    <3>1. PICK v \in Bytes : v = Field(u, SPACE, i) BY <2>1, FieldFacts
    <3>2. Len(v) = p - i /\ \A j \in 1 .. p - i : v[j] = u[i + j - 1]
      <4>1. /\ Len(Field(u, SPACE, i)) = Find(u, SPACE, i) - i
            /\ \A j \in 1 .. Find(u, SPACE, i) - i : Field(u, SPACE, i)[j] = u[i + j - 1]
        BY <2>1, FieldFacts
      <4> QED BY <4>1, <2>3, <3>1
    <3>3. Len(w) = p - i /\ \A j \in 1 .. p - i : w[j] = s[i + j - 1]
      BY <2>1, <2>2, <2>4, FieldFacts
    <3>4. \A j \in 1 .. p - i : v[j] = w[j]
      <4> TAKE j \in 1 .. p - i
      <4>1. i + j - 1 \in 1 .. n BY <1>4, <2>2
      <4> QED BY <4>1, <3>2, <3>3, <1>3
    <3>5. v = w BY <3>2, <3>3, <3>4, SeqEqual DEF Bytes
    <3> QED BY <3>1, <3>5
  <2>6. F[i] = <<w>> \o F[p + 1]
    <3>1. F[i] = IF Find(u, SPACE, i) > Len(u) THEN <<Field(u, SPACE, i)>>
                 ELSE <<Field(u, SPACE, i)>> \o F[Find(u, SPACE, i) + 1]
      BY <2>1 DEF SplitsInto
    <3>2. ~(p > Len(u)) BY <1>3, <1>4, <2>2
    <3> QED BY <3>1, <3>2, <2>3, <2>5
  <2>7. H[i] = IF p > n THEN <<w>> ELSE <<w>> \o H[p + 1]
    BY <1>1, <2>1, <2>2, <2>4 DEF SplitsInto
  <2>8. PICK one \in Seq(Bytes) : one = <<w>>
    <3>1. <<w>> \in Seq(Bytes) OBVIOUS
    <3> QED BY <3>1
  <2>9. PICK last \in Seq(Bytes) : last = <<e>>
    <3>1. <<e>> \in Seq(Bytes) OBVIOUS
    <3> QED BY <3>1
  <2>10. CASE p > n
    <3>1. p + 1 = n + 2 BY <1>4, <2>2, <2>10
    <3> QED BY <3>1, <1>5, <2>6, <2>7, <2>8, <2>9, <2>10
  <2>11. CASE ~(p > n)
    <3>1. p + 1 \in i + 1 .. N /\ p + 1 \in 1 .. Len(s) + 1 BY <1>1, <1>4, <2>2, <2>11
    <3>2. F[p + 1] = H[p + 1] \o <<e>> BY <3>1, <1>6
    <3>3. PICK r \in Seq(Bytes) : r = H[p + 1] BY <3>1, SplitTyped
    <3>4. one \o (r \o last) = (one \o r) \o last BY ConcatAssociative
    <3> QED BY <3>2, <3>3, <3>4, <2>6, <2>7, <2>8, <2>9, <2>11
  <2> QED BY <2>10, <2>11
<1> HIDE DEF S
<1>7. \A i \in 1 .. N : i \in S BY <1>6, DownwardInduction
<1> QED BY <1>1, <1>4, <1>7 DEF S, MoreFields

LEMMA SplitMore ==
    ASSUME NEW s \in Bytes, NEW e \in Bytes, \A i \in 1 .. Len(e) : e[i] # SPACE,
           NEW u \in Bytes, Spaced(u, s, e)
    PROVE  Split(s, SPACE) \in Seq(Bytes) /\ Len(Split(s, SPACE)) >= 1
           /\ Split(u, SPACE) = Split(s, SPACE) \o <<e>>
<1>1. PICK F : SplitsInto(F, u, SPACE) /\ Split(u, SPACE) = F[1] BY SplitUnrolls
<1>2. PICK H : SplitsInto(H, s, SPACE) /\ Split(s, SPACE) = H[1] BY SplitUnrolls
<1>3. 1 \in 1 .. Len(s) + 1
  <2>1. Len(s) \in Nat BY DEF Bytes
  <2> QED BY <2>1
<1>4. MoreFields(F, H, s, e) BY <1>1, <1>2, FieldsMore
<1>5. F[1] = H[1] \o <<e>> BY <1>3, <1>4 DEF MoreFields
<1>6. H[1] \in Seq(Bytes) /\ Len(H[1]) >= 1 BY <1>2, <1>3, SplitTyped
<1> QED BY <1>1, <1>2, <1>5, <1>6

-----------------------------------------------------------------------------
(* The loop of sendNamesReply.                                             *)

Listing == [sent : Seq(Bytes), names : Bytes]

LEMMA NextEntryTyped ==
    ASSUME NEW v \in Listing, NEW e \in Bytes
    PROVE  NextEntry(v, e) \in Listing
<1>1. v.sent \in Seq(Bytes) /\ v.names \in Bytes BY DEF Listing
<1>2. CASE Full(v.names, e)
  <2>1. Append(v.sent, v.names) \in Seq(Bytes) BY <1>1, AppendProperties
  <2> QED BY <1>2, <2>1 DEF NextEntry, Listing
<1>3. CASE ~Full(v.names, e)
  <2>1. PICK c \in Bytes : c = <<SPACE>>
    <3>1. <<SPACE>> \in Bytes BY DEF Bytes, Char, SPACE
    <3> QED BY <3>1
  <2>2. v.names \o <<SPACE>> \in Bytes BY <1>1, <2>1, ConcatProperties DEF Bytes
  <2>3. <<>> \in Bytes BY EmptySeq DEF Bytes
  <2>4. PICK h \in Bytes : h = IF v.names = <<>> THEN <<>> ELSE v.names \o <<SPACE>>
    BY <2>2, <2>3
  <2>5. h \o e \in Bytes BY ConcatProperties DEF Bytes
  <2>6. NextEntry(v, e) = [v EXCEPT !.names = h \o e] BY <1>3, <2>4 DEF NextEntry
  <2> QED BY <1>1, <2>5, <2>6 DEF Listing
<1> QED BY <1>2, <1>3

Blank == [sent |-> <<>>, names |-> <<>>]

\* A is the loop of sendNamesReply over the entries.
Visits(A, entries) ==
    A[0] = Blank /\ \A n \in 1 .. Len(entries) : A[n] = NextEntry(A[n - 1], entries[n])

LEMMA VisitUnrolls ==
    ASSUME NEW entries \in Seq(Bytes)
    PROVE  \E A : /\ \A n \in 0 .. Len(entries) : A[n] \in Listing
                  /\ Visits(A, entries) /\ Visit(entries) = A[Len(entries)]
<1> DEFINE N == Len(entries)
           G == [q \in Listing \X (1 .. N) |-> NextEntry(q[1], entries[q[2]])]
           After == CHOOSE A : A = [n \in 0 .. N |->
                        IF n = 0 THEN [sent |-> <<>>, names |-> <<>>]
                        ELSE NextEntry(A[n - 1], entries[n])]
<1>1. N \in Nat /\ \A n \in 1 .. N : entries[n] \in Bytes OBVIOUS
<1>2. Blank \in Listing
  <2>1. <<>> \in Bytes /\ <<>> \in Seq(Bytes) BY EmptySeq DEF Bytes
  <2> QED BY <2>1 DEF Blank, Listing
<1>3. G \in [Listing \X (1 .. N) -> Listing]
  <2>1. \A v \in Listing, n \in 1 .. N : NextEntry(v, entries[n]) \in Listing
    BY <1>1, NextEntryTyped
  <2> QED BY <2>1
<1>4. \A v \in Listing, n \in 1 .. N : G[<<v, n>>] = NextEntry(v, entries[n]) OBVIOUS
<1>5. Visit(entries) = After[N] BY DEF Visit
<1> HIDE DEF G, N
<1>6. PICK f \in [0 .. N -> Listing] : Follows(f, N, Blank, G)
  <2> DEFINE b == Blank
             V == Listing
  <2>1. b \in V /\ G \in [V \X (1 .. N) -> V] BY <1>2, <1>3
  <2> HIDE DEF V, b
  <2>2. \E f \in [0 .. N -> V] : Follows(f, N, b, G) BY <2>1, <1>1, RecursionExists
  <2> QED BY <2>2 DEF V, b
<1>7. \A n \in 0 .. N : f[n] = IF n = 0 THEN [sent |-> <<>>, names |-> <<>>]
                               ELSE NextEntry(f[n - 1], entries[n])
  <2> TAKE n \in 0 .. N
  <2>1. CASE n = 0 BY <2>1, <1>6 DEF Follows, Blank
  <2>2. CASE n # 0
    <3>1. n \in 1 .. N /\ n - 1 \in 0 .. N BY <1>1, <2>2
    <3>2. f[n - 1] \in Listing BY <3>1, <1>6
    <3>3. f[n] = G[<<f[n - 1], n>>] BY <3>1, <1>6 DEF Follows
    <3> QED BY <2>2, <3>1, <3>2, <3>3, <1>4
  <2> QED BY <2>1, <2>2
<1>8. After = [n \in 0 .. N |-> IF n = 0 THEN [sent |-> <<>>, names |-> <<>>]
                                ELSE NextEntry(After[n - 1], entries[n])]
  <2>1. f = [n \in 0 .. N |-> IF n = 0 THEN [sent |-> <<>>, names |-> <<>>]
                              ELSE NextEntry(f[n - 1], entries[n])]
    BY <1>6, <1>7
  <2> QED BY <2>1 DEF N
<1> HIDE DEF After
<1>9. \A n \in 0 .. N : After[n] = IF n = 0 THEN [sent |-> <<>>, names |-> <<>>]
                                   ELSE NextEntry(After[n - 1], entries[n])
  BY <1>8, Zenon
<1>10. After[0] = Blank
  <2>1. 0 \in 0 .. N BY <1>1
  <2> QED BY <2>1, <1>9, Zenon DEF Blank
<1>11. \A n \in 1 .. N : After[n] = NextEntry(After[n - 1], entries[n])
  <2> TAKE n \in 1 .. N
  <2>1. n \in 0 .. N /\ n # 0 BY <1>1
  <2> QED BY <2>1, <1>9, Zenon
<1> DEFINE S == {n \in 0 .. N : After[n] \in Listing}
<1>12. \A n \in 0 .. N : n \in S
  <2>1. 0 \in S BY <1>1, <1>2, <1>10
  <2>2. ASSUME NEW n \in 0 .. N - 1, n \in S PROVE n + 1 \in S
    <3>1. n + 1 \in 1 .. N /\ n + 1 \in 0 .. N /\ (n + 1) - 1 = n BY <1>1
    <3>2. After[n] \in Listing BY <2>2
    <3>3. After[n + 1] = NextEntry(After[n], entries[n + 1]) BY <3>1, <1>11
    <3>4. After[n + 1] \in Listing BY <3>1, <3>2, <3>3, <1>1, NextEntryTyped
    <3> QED BY <3>1, <3>4
  <2> HIDE DEF S
  <2> QED BY <2>1, <2>2, <1>1, BoundedInduction
<1>13. Visits(After, entries) BY <1>10, <1>11 DEF Visits, N
<1> QED BY <1>5, <1>12, <1>13 DEF N

\* L collects the names of the lines.
Lists(L, lines) ==
    L[0] = <<>> /\ \A n \in 1 .. Len(lines) : L[n] = L[n - 1] \o Split(lines[n], SPACE)

LEMMA SplitIsTyped == ASSUME NEW s \in Bytes PROVE Split(s, SPACE) \in Seq(Bytes)
<1>1. PICK H : SplitsInto(H, s, SPACE) /\ Split(s, SPACE) = H[1] BY SplitUnrolls
<1>2. 1 \in 1 .. Len(s) + 1
  <2>1. Len(s) \in Nat BY DEF Bytes
  <2> QED BY <2>1
<1> QED BY <1>1, <1>2, SplitTyped

LEMMA NamesInUnrolls ==
    ASSUME NEW lines \in Seq(Bytes)
    PROVE  \E L : /\ \A n \in 0 .. Len(lines) : L[n] \in Seq(Bytes)
                  /\ Lists(L, lines) /\ NamesIn(lines) = L[Len(lines)]
<1> DEFINE N == Len(lines)
           V == Seq(Bytes)
           none == <<>>
           G == [q \in V \X (1 .. N) |-> q[1] \o Split(lines[q[2]], SPACE)]
           L == CHOOSE L : L = [n \in 0 .. N |->
                    IF n = 0 THEN <<>> ELSE L[n - 1] \o Split(lines[n], SPACE)]
<1>1. N \in Nat /\ \A n \in 1 .. N : Split(lines[n], SPACE) \in V
  <2>1. N \in Nat /\ \A n \in 1 .. N : lines[n] \in Bytes OBVIOUS
  <2> QED BY <2>1, SplitIsTyped
<1>2. none \in V BY EmptySeq
<1>3. \A v \in V, n \in 1 .. N : v \o Split(lines[n], SPACE) \in V BY <1>1, ConcatProperties
<1>4. G \in [V \X (1 .. N) -> V] BY <1>3
<1>5. \A v \in V, n \in 1 .. N : G[<<v, n>>] = v \o Split(lines[n], SPACE) OBVIOUS
<1>6. NamesIn(lines) = L[N] BY DEF NamesIn
<1> HIDE DEF G, N, V, none
<1>7. PICK f \in [0 .. N -> V] : Follows(f, N, none, G)
  BY <1>1, <1>2, <1>4, RecursionExists
<1>8. \A n \in 0 .. N : f[n] = IF n = 0 THEN <<>> ELSE f[n - 1] \o Split(lines[n], SPACE)
  <2> TAKE n \in 0 .. N
  <2>1. CASE n = 0 BY <2>1, <1>7 DEF Follows, none
  <2>2. CASE n # 0
    <3>1. n \in 1 .. N /\ n - 1 \in 0 .. N BY <1>1, <2>2
    <3>2. f[n - 1] \in V BY <3>1, <1>7
    <3>3. f[n] = G[<<f[n - 1], n>>] BY <3>1, <1>7 DEF Follows
    <3> QED BY <2>2, <3>1, <3>2, <3>3, <1>5
  <2> QED BY <2>1, <2>2
<1>9. L = [n \in 0 .. N |-> IF n = 0 THEN <<>> ELSE L[n - 1] \o Split(lines[n], SPACE)]
  <2>1. f = [n \in 0 .. N |-> IF n = 0 THEN <<>> ELSE f[n - 1] \o Split(lines[n], SPACE)]
    BY <1>7, <1>8
  <2> QED BY <2>1 DEF N
<1> HIDE DEF L
<1>10. \A n \in 0 .. N : L[n] = IF n = 0 THEN <<>> ELSE L[n - 1] \o Split(lines[n], SPACE)
  BY <1>9, Zenon
<1>11. L[0] = <<>>
  <2>1. 0 \in 0 .. N BY <1>1
  <2> QED BY <2>1, <1>10, Zenon
<1>12. \A n \in 1 .. N : L[n] = L[n - 1] \o Split(lines[n], SPACE)
  <2> TAKE n \in 1 .. N
  <2>1. n \in 0 .. N /\ n # 0 BY <1>1
  <2> QED BY <2>1, <1>10, Zenon
<1> DEFINE S == {n \in 0 .. N : L[n] \in V}
<1>13. \A n \in 0 .. N : n \in S
  <2>1. 0 \in S BY <1>1, <1>2, <1>11 DEF none
  <2>2. ASSUME NEW n \in 0 .. N - 1, n \in S PROVE n + 1 \in S
    <3>1. n + 1 \in 1 .. N /\ n + 1 \in 0 .. N /\ (n + 1) - 1 = n BY <1>1
    <3>2. L[n] \in V BY <2>2
    <3>3. L[n + 1] = L[n] \o Split(lines[n + 1], SPACE) BY <3>1, <1>12
    <3>4. L[n + 1] \in V BY <3>1, <3>2, <3>3, <1>3
    <3> QED BY <3>1, <3>4
  <2> HIDE DEF S
  <2> QED BY <2>1, <2>2, <1>1, BoundedInduction
<1>14. Lists(L, lines) BY <1>11, <1>12 DEF Lists, N
<1> QED BY <1>6, <1>13, <1>14 DEF N, V


LEMMA NamesInNothing == NamesIn(<<>>) = <<>>
<1>1. PICK lines \in Seq(Bytes) : lines = <<>> BY EmptySeq
<1>2. Len(lines) = 0 BY <1>1
<1> QED BY <1>1, <1>2, NamesInUnrolls DEF Lists

\* t is the lines and then w.
Ends(t, lines, w) ==
    /\ t \in Seq(Bytes) /\ Len(t) = Len(lines) + 1 /\ t[Len(lines) + 1] = w
    /\ \A i \in 1 .. Len(lines) : t[i] = lines[i]

LEMMA Ending ==
    ASSUME NEW lines \in Seq(Bytes), NEW w \in Bytes
    PROVE  Ends(Append(lines, w), lines, w)
BY AppendProperties DEF Ends

LEMMA NamesInMore ==
    ASSUME NEW lines \in Seq(Bytes), NEW w \in Bytes, NEW t, Ends(t, lines, w)
    PROVE  /\ NamesIn(lines) \in Seq(Bytes)
           /\ NamesIn(t) = NamesIn(lines) \o Split(w, SPACE)
<1>1. PICK N \in Nat : N = Len(lines) OBVIOUS
<1>2. /\ t \in Seq(Bytes) /\ Len(t) = N + 1 /\ t[N + 1] = w
      /\ \A i \in 1 .. N : t[i] = lines[i]
  BY <1>1 DEF Ends
<1>3. PICK A : /\ \A n \in 0 .. N : A[n] \in Seq(Bytes)
               /\ A[0] = <<>> /\ \A n \in 1 .. N : A[n] = A[n - 1] \o Split(lines[n], SPACE)
               /\ NamesIn(lines) = A[N]
  BY <1>1, NamesInUnrolls DEF Lists
<1>4. PICK B : /\ B[0] = <<>>
               /\ \A n \in 1 .. N + 1 : B[n] = B[n - 1] \o Split(t[n], SPACE)
               /\ NamesIn(t) = B[N + 1]
  BY <1>2, NamesInUnrolls DEF Lists
<1> DEFINE S == {n \in 0 .. N : A[n] = B[n]}
<1>5. \A n \in 0 .. N : n \in S
  <2>1. 0 \in S BY <1>3, <1>4
  <2>2. ASSUME NEW n \in 0 .. N - 1, n \in S PROVE n + 1 \in S
    <3>1. n + 1 \in 1 .. N /\ n + 1 \in 1 .. N + 1 /\ n + 1 \in 0 .. N /\ (n + 1) - 1 = n OBVIOUS
    <3>2. A[n + 1] = A[n] \o Split(lines[n + 1], SPACE) BY <3>1, <1>3
    <3>3. B[n + 1] = B[n] \o Split(t[n + 1], SPACE) BY <3>1, <1>4
    <3>4. t[n + 1] = lines[n + 1] BY <3>1, <1>2
    <3> QED BY <2>2, <3>1, <3>2, <3>3, <3>4
  <2> HIDE DEF S
  <2> QED BY <2>1, <2>2, BoundedInduction
<1>6. N \in 0 .. N OBVIOUS
<1>7. A[N] = B[N] BY <1>5, <1>6
<1>8. B[N + 1] = B[N] \o Split(w, SPACE)
  <2>1. N + 1 \in 1 .. N + 1 /\ (N + 1) - 1 = N OBVIOUS
  <2> QED BY <2>1, <1>2, <1>4
<1> QED BY <1>3, <1>4, <1>6, <1>7, <1>8

Fits(line) == HeadLen + Len(line) <= MAX_PAYLOAD_LEN

\* The first name of line had no room in the line before it.
Tight(before, line) ==
    HeadLen + Len(before) + 1 + Len(Head(Split(line, SPACE))) > MAX_PAYLOAD_LEN

Packed(lines) ==
    /\ \A i \in 1 .. Len(lines) : Fits(lines[i])
    /\ \A i \in 2 .. Len(lines) : Tight(lines[i - 1], lines[i])

\* line can follow the lines.
ComesNext(lines, line) == Len(lines) # 0 => Tight(lines[Len(lines)], line)

LEMMA PackedMore ==
    ASSUME NEW lines \in Seq(Bytes), NEW w \in Bytes, NEW t, Ends(t, lines, w),
           Packed(lines), Fits(w), ComesNext(lines, w)
    PROVE  Packed(t)
<1>1. PICK N \in Nat : N = Len(lines) OBVIOUS
<1>2. Len(t) = N + 1 /\ t[N + 1] = w /\ \A i \in 1 .. N : t[i] = lines[i]
  BY <1>1 DEF Ends
<1>3. \A i \in 1 .. N + 1 : Fits(t[i])
  <2> TAKE i \in 1 .. N + 1
  <2>1. CASE i = N + 1 BY <2>1, <1>2
  <2>2. CASE i # N + 1
    <3>1. i \in 1 .. N BY <2>2
    <3> QED BY <3>1, <1>1, <1>2 DEF Packed
  <2> QED BY <2>1, <2>2
<1>4. \A i \in 2 .. N + 1 : Tight(t[i - 1], t[i])
  <2> TAKE i \in 2 .. N + 1
  <2>1. CASE i = N + 1
    <3>1. N \in 1 .. N /\ i - 1 = N /\ N # 0 BY <2>1
    <3> QED BY <2>1, <3>1, <1>1, <1>2 DEF ComesNext
  <2>2. CASE i # N + 1
    <3>1. i \in 2 .. N /\ i \in 1 .. N /\ i - 1 \in 1 .. N BY <2>2
    <3> QED BY <3>1, <1>1, <1>2 DEF Packed
  <2> QED BY <2>1, <2>2
<1> QED BY <1>2, <1>3, <1>4 DEF Packed

\* What the loop has after k entries: the lines sent and the line being filled.
Listed(v, entries, k) ==
    /\ v \in Listing /\ Len(v.names) >= 1
    /\ Packed(v.sent) /\ Fits(v.names) /\ ComesNext(v.sent, v.names)
    /\ NamesIn(v.sent) \o Split(v.names, SPACE) = SubSeq(entries, 1, k)

LEMMA FirstEntry ==
    ASSUME NEW entries \in Seq(Bytes), Len(entries) >= 1, IsWord(entries[1])
    PROVE  Listed(NextEntry(Blank, entries[1]), entries, 1)
<1>1. PICK e \in Bytes : e = entries[1] OBVIOUS
<1>2. Len(e) >= 1 /\ Fits(e) /\ \A i \in 1 .. Len(e) : e[i] # SPACE
  BY <1>1 DEF IsWord, Fits
<1>3. <<>> \o e = e BY ConcatEmptySeq DEF Bytes
<1>4. ~Full(<<>>, e) BY DEF Full
<1>5. NextEntry(Blank, e) = [Blank EXCEPT !.names = <<>> \o e]
  <2>1. Blank.names = <<>> BY DEF Blank
  <2> QED BY <2>1, <1>4 DEF NextEntry
<1>6. PICK v : v = NextEntry(Blank, e) OBVIOUS
<1>7. v = [sent |-> <<>>, names |-> e] BY <1>3, <1>5, <1>6 DEF Blank
<1>8. PICK none \in Seq(Bytes) : none = <<>> /\ Len(none) = 0 BY EmptySeq
<1>9. v \in Listing /\ v.sent = none /\ v.names = e BY <1>7, <1>8 DEF Listing
<1>10. Packed(none) BY <1>8 DEF Packed
<1>11. ComesNext(none, e) BY <1>8 DEF ComesNext
<1>12. NamesIn(none) = none BY <1>8, NamesInNothing
<1>13. PICK one \in Seq(Bytes) : one = <<e>>
  <2>1. <<e>> \in Seq(Bytes) OBVIOUS
  <2> QED BY <2>1
<1>14. Split(e, SPACE) = one BY <1>2, <1>13, SplitNothing
<1>15. none \o one = one BY <1>8, ConcatEmptySeq
<1>16. SubSeq(entries, 1, 1) = one
  <2>1. 1 \in 1 .. Len(entries) OBVIOUS
  <2>2. SubSeq(entries, 1, 1) = SubSeq(entries, 1, 1 - 1) \o <<entries[1]>>
    BY <2>1, SubSeqRecursiveSecond
  <2>3. SubSeq(entries, 1, 1 - 1) = <<>> BY SubSeqEmpty
  <2> QED BY <2>2, <2>3, <1>1, <1>8, <1>13, <1>15
<1>17. Listed(v, entries, 1)
  BY <1>2, <1>9, <1>10, <1>11, <1>12, <1>14, <1>15, <1>16 DEF Listed
<1> QED BY <1>1, <1>6, <1>17

LEMMA Regrouping ==
    ASSUME NEW a \in Seq(Bytes), NEW b \in Seq(Bytes), NEW c \in Seq(Bytes)
    PROVE  (a \o b) \o c = a \o (b \o c)
BY ConcatAssociative

LEMMA FurtherEntry ==
    ASSUME NEW entries \in Seq(Bytes), NEW k \in 1 .. Len(entries) - 1,
           IsWord(entries[k + 1]), NEW v, Listed(v, entries, k)
    PROVE  Listed(NextEntry(v, entries[k + 1]), entries, k + 1)
<1>1. k + 1 \in 1 .. Len(entries) /\ (k + 1) - 1 = k OBVIOUS
<1>2. PICK e \in Bytes : e = entries[k + 1] BY <1>1
<1>3. Len(e) >= 1 /\ Fits(e) /\ \A i \in 1 .. Len(e) : e[i] # SPACE
  BY <1>2 DEF IsWord, Fits
<1>4. PICK sent \in Seq(Bytes), names \in Bytes :
          v = [sent |-> sent, names |-> names] /\ v.sent = sent /\ v.names = names
  BY DEF Listed, Listing
<1>5. /\ Len(names) >= 1 /\ Packed(sent) /\ Fits(names) /\ ComesNext(sent, names)
      /\ NamesIn(sent) \o Split(names, SPACE) = SubSeq(entries, 1, k)
  BY <1>4 DEF Listed
<1>6. PICK t : t = Append(sent, names) /\ Ends(t, sent, names) BY Ending
<1>7. PICK a \in Seq(Bytes) : a = NamesIn(sent) BY <1>6, NamesInMore
<1>8. PICK u \in Bytes : u = (names \o <<SPACE>>) \o e /\ Spaced(u, names, e)
  BY Spacing DEF Spaced
<1>9. PICK b \in Seq(Bytes) : b = Split(names, SPACE) /\ Len(b) >= 1
  BY <1>3, <1>8, SplitMore
<1>10. PICK one \in Seq(Bytes) : one = <<e>>
  <2>1. <<e>> \in Seq(Bytes) OBVIOUS
  <2> QED BY <2>1
<1>11. Split(u, SPACE) = b \o one BY <1>3, <1>8, <1>9, <1>10, SplitMore
<1>12. Split(e, SPACE) = one BY <1>3, <1>10, SplitNothing
<1>13. (a \o b) \o one = SubSeq(entries, 1, k + 1)
  <2>1. SubSeq(entries, 1, k + 1) = SubSeq(entries, 1, (k + 1) - 1) \o <<entries[k + 1]>>
    BY <1>1, SubSeqRecursiveSecond
  <2> QED BY <2>1, <1>1, <1>2, <1>5, <1>7, <1>9, <1>10
<1>14. names # <<>> BY <1>5
<1>15. PICK n \in Nat : n = Len(names) BY DEF Bytes
<1>16. PICK m \in Nat : m = Len(e) BY DEF Bytes
<1>17. HeadLen \in Nat /\ MAX_PAYLOAD_LEN \in Nat BY TextAssumption
<1>18. CASE Full(names, e)
  <2>1. NextEntry(v, e) = [sent |-> t, names |-> e] BY <1>4, <1>6, <1>18 DEF NextEntry
  <2>2. PICK w : w = NextEntry(v, e) OBVIOUS
  <2>3. t \in Seq(Bytes) /\ Len(t) = Len(sent) + 1 /\ t[Len(sent) + 1] = names
    BY <1>6 DEF Ends
  <2>4. w \in Listing /\ w.sent = t /\ w.names = e BY <2>1, <2>2, <2>3 DEF Listing
  <2>5. Packed(t) BY <1>5, <1>6, PackedMore
  <2>6. Head(one) = e BY <1>10 DEF Head
  <2>7. Tight(names, e) BY <1>12, <1>18, <2>6 DEF Tight, Full
  <2>8. t[Len(t)] = names BY <2>3
  <2>9. ComesNext(t, e) BY <2>7, <2>8 DEF ComesNext
  <2>10. NamesIn(t) = a \o b BY <1>6, <1>7, <1>9, NamesInMore
  <2>11. Listed(w, entries, k + 1)
    BY <1>3, <1>12, <1>13, <2>4, <2>5, <2>9, <2>10 DEF Listed
  <2> QED BY <1>2, <2>2, <2>11
<1>19. CASE ~Full(names, e)
  <2>1. NextEntry(v, e) = [sent |-> sent, names |-> u]
    BY <1>4, <1>8, <1>14, <1>19 DEF NextEntry
  <2>2. PICK w : w = NextEntry(v, e) OBVIOUS
  <2>3. w \in Listing /\ w.sent = sent /\ w.names = u BY <2>1, <2>2 DEF Listing
  <2>4. Len(u) = n + 1 + m BY <1>8, <1>15, <1>16 DEF Spaced
  <2>5. ~(HeadLen + n + 1 + m > MAX_PAYLOAD_LEN) BY <1>14, <1>15, <1>16, <1>19 DEF Full
  <2>6. Len(u) >= 1 /\ Fits(u) BY <1>17, <2>4, <2>5 DEF Fits
  <2>7. Head(b \o one) = Head(b)
    <3>1. b # <<>> BY <1>9
    <3>2. Append(b, e) = b \o one BY <1>10, AppendIsConcat
    <3>3. Head(Append(b, e)) = Head(b) BY <3>1, HeadTailAppend
    <3> QED BY <3>2, <3>3
  <2>8. Head(Split(u, SPACE)) = Head(Split(names, SPACE)) BY <1>9, <1>11, <2>7
  <2>9. ComesNext(sent, u) BY <1>5, <2>8 DEF ComesNext, Tight
  <2>10. (a \o b) \o one = a \o (b \o one) BY Regrouping
  <2>11. NamesIn(sent) \o Split(u, SPACE) = SubSeq(entries, 1, k + 1)
    BY <1>7, <1>11, <1>13, <2>10
  <2>12. Listed(w, entries, k + 1)
    BY <1>5, <2>3, <2>6, <2>9, <2>11 DEF Listed
  <2> QED BY <1>2, <2>2, <2>12
<1> QED BY <1>18, <1>19

LEMMA AllListed ==
    ASSUME NEW entries \in Seq(Bytes), Len(entries) >= 1,
           \A i \in 1 .. Len(entries) : IsWord(entries[i])
    PROVE  Listed(Visit(entries), entries, Len(entries))
<1>1. PICK N \in Nat : N = Len(entries) - 1
  <2>1. PICK m \in Nat : m = Len(entries) OBVIOUS
  <2>2. m - 1 \in Nat BY <2>1
  <2> QED BY <2>1, <2>2
<1>2. PICK A : Visits(A, entries) /\ Visit(entries) = A[Len(entries)] BY VisitUnrolls
<1>3. A[0] = Blank /\ \A n \in 1 .. N + 1 : A[n] = NextEntry(A[n - 1], entries[n])
  BY <1>1, <1>2 DEF Visits
<1> DEFINE S == {n \in 0 .. N : Listed(A[n + 1], entries, n + 1)}
<1>4. \A n \in 0 .. N : n \in S
  <2>1. 0 \in S
    <3>1. 1 \in 1 .. N + 1 /\ 1 - 1 = 0 /\ 1 \in 1 .. Len(entries) BY <1>1
    <3>2. A[1] = NextEntry(Blank, entries[1]) BY <3>1, <1>3
    <3>3. Listed(A[1], entries, 1) BY <3>1, <3>2, FirstEntry
    <3>4. 0 + 1 = 1 OBVIOUS
    <3> QED BY <3>3, <3>4
  <2>2. ASSUME NEW n \in 0 .. N - 1, n \in S PROVE n + 1 \in S
    <3>1. PICK k \in 1 .. Len(entries) - 1 : k = n + 1 BY <1>1
    <3>2. k + 1 \in 1 .. N + 1 /\ (k + 1) - 1 = k /\ k + 1 \in 1 .. Len(entries) BY <1>1, <3>1
    <3>3. Listed(A[k], entries, k) BY <2>2, <3>1
    <3>4. A[k + 1] = NextEntry(A[k], entries[k + 1]) BY <3>2, <1>3
    <3>5. IsWord(entries[k + 1]) BY <3>2
    <3>6. Listed(A[k + 1], entries, k + 1) BY <3>3, <3>4, <3>5, FurtherEntry
    <3>7. n + 1 \in 0 .. N OBVIOUS
    <3> QED BY <3>1, <3>6, <3>7
  <2> HIDE DEF S
  <2> QED BY <2>1, <2>2, BoundedInduction
<1>5. N \in 0 .. N /\ N + 1 = Len(entries) BY <1>1
<1> QED BY <1>2, <1>4, <1>5

\* However the members are ordered, the 353 lines of sendNamesReply name each one
\* once and whole, no line outgrows what sendToClient sends, and a line is ended
\* only for a name it has no room for.
THEOREM MembersAreListed == Spec => []NamesReplyIsWhole
<1>1. TInv => NamesReplyIsWhole
  <2> SUFFICES ASSUME TInv PROVE NamesReplyIsWhole OBVIOUS
  <2>1. text \in Bytes BY DEF TInv
  <2>2. PICK F : SplitsInto(F, text, COMMA) /\ Split(text, COMMA) = F[1]
    BY <2>1, SplitUnrolls
  <2>3. 1 \in 1 .. Len(text) + 1
    <3>1. Len(text) \in Nat BY <2>1 DEF Bytes
    <3> QED BY <3>1
  <2>4. PICK entries \in Seq(Bytes) : entries = Split(text, COMMA) /\ Len(entries) >= 1
    BY <2>1, <2>2, <2>3, SplitTyped
  <2>5. PICK v : v = Visit(entries) OBVIOUS
  <2>6. PICK lines : lines = NamesLines(entries) OBVIOUS
  <2>7. ASSUME \A i \in DOMAIN entries : IsEntry(entries[i])
        PROVE  NamesIn(lines) = entries /\ Packed(lines) /\ DOMAIN lines = 1 .. Len(lines)
    <3>1. \A i \in 1 .. Len(entries) : IsWord(entries[i])
      <4>1. DOMAIN entries = 1 .. Len(entries) /\ \A i \in 1 .. Len(entries) : entries[i] \in Bytes
        OBVIOUS
      <4> QED BY <2>7, <4>1, EntryIsWord
    <3>2. Listed(v, entries, Len(entries)) BY <2>4, <2>5, <3>1, AllListed
    <3>3. PICK sent \in Seq(Bytes), names \in Bytes : v.sent = sent /\ v.names = names
      BY <3>2 DEF Listed, Listing
    <3>4. /\ Len(names) >= 1 /\ Packed(sent) /\ Fits(names) /\ ComesNext(sent, names)
          /\ NamesIn(sent) \o Split(names, SPACE) = SubSeq(entries, 1, Len(entries))
      BY <3>2, <3>3 DEF Listed
    <3>5. names # <<>> BY <3>4
    <3>6. lines = Append(sent, names) BY <2>5, <2>6, <3>3, <3>5 DEF NamesLines
    <3>7. Ends(lines, sent, names) BY <3>6, Ending
    <3>8. Packed(lines) BY <3>4, <3>7, PackedMore
    <3>9. NamesIn(lines) = NamesIn(sent) \o Split(names, SPACE) BY <3>7, NamesInMore
    <3>10. SubSeq(entries, 1, Len(entries)) = entries BY SubSeqFull
    <3>11. DOMAIN lines = 1 .. Len(lines)
      <4>1. lines \in Seq(Bytes) BY <3>7 DEF Ends
      <4> QED BY <4>1
    <3> QED BY <3>4, <3>8, <3>9, <3>10, <3>11
  <2> QED BY <2>4, <2>6, <2>7 DEF NamesReplyIsWhole, Packed, Fits, Tight
<1> QED BY <1>1, Invariance, PTL


-----------------------------------------------------------------------------
(* The grammar.                                                            *)

\* A word starts at i.
IsStart(line, i) ==
    i \in 1 .. Len(line) /\ line[i] # SPACE /\ (i = 1 \/ line[i - 1] = SPACE)

\* A word is known by where it starts: it goes on to the next space.
LEMMA StretchFacts ==
    ASSUME NEW line \in Bytes, NEW w \in Stretches(line)
    PROVE  /\ w[1] \in 1 .. Len(line) /\ w[2] \in 1 .. Len(line) /\ w = <<w[1], w[2]>>
           /\ IsStart(line, w[1]) /\ w[2] = Find(line, SPACE, w[1]) - 1
<1>1. PICK n \in Nat : n = Len(line) BY DEF Bytes
<1>2. DOMAIN line = 1 .. n BY <1>1 DEF Bytes
<1>3. PICK a \in 1 .. n, b \in 1 .. n :
          /\ w = <<a, b>> /\ a <= b /\ \A k \in a .. b : line[k] # SPACE
          /\ a = 1 \/ line[a - 1] = SPACE
          /\ b = n \/ line[b + 1] = SPACE
  BY <1>1, <1>2 DEF Stretches
<1>4. IsStart(line, a)
  <2>1. a \in a .. b BY <1>3
  <2> QED BY <2>1, <1>1, <1>3 DEF IsStart
<1>5. a \in 1 .. Len(line) + 1 BY <1>1
<1>6. PICK p \in a .. Len(line) + 1 : p = b + 1 BY <1>1, <1>3
<1>7. p <= Len(line) => line[p] = SPACE BY <1>1, <1>3, <1>6
<1>8. \A j \in a .. p - 1 : line[j] # SPACE
  <2>1. p - 1 = b BY <1>6
  <2> QED BY <2>1, <1>3
<1>9. Find(line, SPACE, a) = p BY <1>5, <1>7, <1>8, FindIs
<1>10. b = Find(line, SPACE, a) - 1 BY <1>6, <1>9
<1> QED BY <1>1, <1>3, <1>4, <1>10

LEMMA StretchAt ==
    ASSUME NEW line \in Bytes, NEW i, IsStart(line, i)
    PROVE  <<i, Find(line, SPACE, i) - 1>> \in Stretches(line)
<1>1. PICK n \in Nat : n = Len(line) BY DEF Bytes
<1>2. DOMAIN line = 1 .. n BY <1>1 DEF Bytes
<1>3. i \in 1 .. n /\ line[i] # SPACE /\ (i = 1 \/ line[i - 1] = SPACE)
  BY <1>1 DEF IsStart
<1>4. i \in 1 .. Len(line) + 1 BY <1>1, <1>3
<1>5. PICK p \in i .. n + 1 : /\ p = Find(line, SPACE, i) /\ (p <= n => line[p] = SPACE)
                              /\ \A j \in i .. p - 1 : line[j] # SPACE
  BY <1>1, <1>4, FindFacts
<1>6. p # i BY <1>1, <1>3, <1>5
<1>7. PICK b \in 1 .. n : b = p - 1 /\ i <= b
  <2>1. p - 1 \in 1 .. n /\ i <= p - 1 BY <1>3, <1>5, <1>6
  <2> QED BY <2>1
<1>8. b + 1 = p /\ (b = n \/ p <= n) BY <1>5, <1>7
<1>9. b = Len(line) \/ line[b + 1] = SPACE BY <1>1, <1>5, <1>8
<1>10. \A k \in i .. b : line[k] # SPACE BY <1>5, <1>7
<1>11. PICK w : w = <<i, b>> OBVIOUS
<1>12. w \in (DOMAIN line) \X (DOMAIN line) /\ w[1] = i /\ w[2] = b BY <1>2, <1>3, <1>7, <1>11
<1>13. w \in Stretches(line) BY <1>3, <1>7, <1>9, <1>10, <1>12 DEF Stretches
<1> QED BY <1>5, <1>7, <1>11, <1>13

\* The words that start up to n.
WordsUpTo(line, n) == {w \in Stretches(line) : w[1] <= n}

Ordered(words, S) == words \in Seq(S) /\ InOrder(words, S)

LEMMA OneMoreWord ==
    ASSUME NEW line \in Bytes, NEW n \in 0 .. Len(line) - 1,
           NEW words, Ordered(words, WordsUpTo(line, n))
    PROVE  \E more : Ordered(more, WordsUpTo(line, n + 1))
<1>1. PICK N \in Nat : N = Len(line) BY DEF Bytes
<1>2. PICK S : S = WordsUpTo(line, n) OBVIOUS
<1>3. PICK T : T = WordsUpTo(line, n + 1) OBVIOUS
<1>4. /\ \A w \in S : w[1] \in 1 .. N /\ w[1] <= n
      /\ \A w \in T : w[1] \in 1 .. N /\ w[1] <= n + 1
  BY <1>1, <1>2, <1>3, StretchFacts DEF WordsUpTo
<1>5. PICK m \in Nat : /\ m = Len(words) /\ DOMAIN words = 1 .. m /\ words \in Seq(S)
                       /\ \A i \in 1 .. m : words[i] \in S
                       /\ \A w \in S : \E i \in 1 .. m : words[i] = w
                       /\ \A i, j \in 1 .. m : i < j => words[i][1] < words[j][1]
  <2>1. words \in Seq(S) /\ InOrder(words, S) BY <1>2 DEF Ordered
  <2>2. /\ Len(words) \in Nat /\ DOMAIN words = 1 .. Len(words)
        /\ \A i \in 1 .. Len(words) : words[i] \in S
    BY <2>1
  <2> QED BY <2>1, <2>2 DEF InOrder
<1>6. \A w \in S : w \in T BY <1>1, <1>2, <1>3, <1>4 DEF WordsUpTo
<1>7. \A w \in T : w[1] # n + 1 => w \in S
  <2> SUFFICES ASSUME NEW w \in T, w[1] # n + 1 PROVE w \in S OBVIOUS
  <2>1. w[1] \in 1 .. N /\ w[1] <= n + 1 BY <1>4
  <2>2. PICK a \in 1 .. N : a = w[1] BY <2>1
  <2>3. n \in Nat BY <1>1
  <2>4. a <= n BY <2>1, <2>2, <2>3
  <2> QED BY <2>2, <2>4, <1>2, <1>3 DEF WordsUpTo
<1>8. CASE \E w \in T : w[1] = n + 1
  <2>1. PICK v \in T : v[1] = n + 1 BY <1>8
  <2>2. \A w \in T : w[1] = n + 1 => w = v
    <3> SUFFICES ASSUME NEW w \in T, w[1] = n + 1 PROVE w = v OBVIOUS
    <3>1. w \in Stretches(line) /\ v \in Stretches(line) BY <1>3 DEF WordsUpTo
    <3>2. /\ w = <<w[1], w[2]>> /\ w[2] = Find(line, SPACE, w[1]) - 1
          /\ v = <<v[1], v[2]>> /\ v[2] = Find(line, SPACE, v[1]) - 1
      BY <3>1, StretchFacts
    <3> QED BY <3>2, <2>1
  <2>3. words \in Seq(T) BY <1>5, <1>6
  <2>4. PICK more : more = Append(words, v) OBVIOUS
  <2>5. /\ more \in Seq(T) /\ Len(more) = m + 1 /\ more[m + 1] = v
        /\ \A i \in 1 .. m : more[i] = words[i]
    BY <2>3, <2>4, <1>5, AppendProperties
  <2>6. DOMAIN more = 1 .. m + 1 BY <2>5
  <2>7. \A w \in T : \E i \in 1 .. m + 1 : more[i] = w
    <3> TAKE w \in T
    <3>1. CASE w[1] = n + 1
      <4>1. m + 1 \in 1 .. m + 1 OBVIOUS
      <4> QED BY <4>1, <3>1, <2>2, <2>5
    <3>2. CASE w[1] # n + 1
      <4>1. PICK i \in 1 .. m : words[i] = w BY <3>2, <1>5, <1>7
      <4>2. i \in 1 .. m + 1 OBVIOUS
      <4> QED BY <4>1, <4>2, <2>5
    <3> QED BY <3>1, <3>2
  <2>8. \A i, j \in 1 .. m + 1 : i < j => more[i][1] < more[j][1]
    <3> SUFFICES ASSUME NEW i \in 1 .. m + 1, NEW j \in 1 .. m + 1, i < j
                 PROVE  more[i][1] < more[j][1]
      OBVIOUS
    <3>1. i \in 1 .. m /\ more[i] = words[i] /\ words[i] \in S
      <4>1. i \in 1 .. m OBVIOUS
      <4> QED BY <4>1, <1>5, <2>5
    <3>2. CASE j = m + 1
      <4>1. PICK a \in 1 .. N : a = words[i][1] /\ a <= n BY <3>1, <1>4
      <4>2. a < n + 1 BY <4>1, <1>1
      <4> QED BY <3>1, <3>2, <4>1, <4>2, <2>1, <2>5
    <3>3. CASE j # m + 1
      <4>1. j \in 1 .. m BY <3>3
      <4> QED BY <4>1, <3>1, <1>5, <2>5
    <3> QED BY <3>2, <3>3
  <2>9. InOrder(more, T) BY <2>6, <2>7, <2>8 DEF InOrder
  <2> QED BY <2>5, <2>9, <1>3 DEF Ordered
<1>9. CASE ~\E w \in T : w[1] = n + 1
  <2>1. S = T BY <1>6, <1>7, <1>9
  <2> QED BY <2>1, <1>2, <1>3
<1> QED BY <1>8, <1>9

LEMMA OrderExists ==
    ASSUME NEW line \in Bytes
    PROVE  \E words : Ordered(words, Stretches(line))
<1>1. PICK N \in Nat : N = Len(line) BY DEF Bytes
<1> DEFINE S == {n \in 0 .. N : \E words : Ordered(words, WordsUpTo(line, n))}
<1>2. 0 \in S
  <2>1. WordsUpTo(line, 0) = {}
    <3>1. \A w \in Stretches(line) : w[1] \in 1 .. N BY <1>1, StretchFacts
    <3>2. \A w \in Stretches(line) : ~(w[1] <= 0) BY <3>1
    <3> QED BY <3>2 DEF WordsUpTo
  <2>2. PICK words : words = <<>> OBVIOUS
  <2>3. words \in Seq({}) /\ DOMAIN words = {} BY <2>2, EmptySeq
  <2>4. Ordered(words, {}) BY <2>3 DEF Ordered, InOrder
  <2> QED BY <2>1, <2>4
<1>3. ASSUME NEW n \in 0 .. N - 1, n \in S PROVE n + 1 \in S
  <2>1. n \in 0 .. Len(line) - 1 /\ n + 1 \in 0 .. N BY <1>1
  <2>2. PICK words : Ordered(words, WordsUpTo(line, n)) BY <1>3
  <2>3. \E more : Ordered(more, WordsUpTo(line, n + 1)) BY <2>1, <2>2, OneMoreWord
  <2> QED BY <2>1, <2>3
<1> HIDE DEF S
<1>4. \A n \in 0 .. N : n \in S BY <1>2, <1>3, BoundedInduction
<1>5. N \in S BY <1>4
<1>6. WordsUpTo(line, N) = Stretches(line)
  <2>1. \A w \in Stretches(line) : w[1] \in 1 .. N BY <1>1, StretchFacts
  <2>2. \A w \in Stretches(line) : w[1] <= N BY <2>1
  <2> QED BY <2>2 DEF WordsUpTo
<1> QED BY <1>5, <1>6 DEF S

LEMMA WordsAreOrdered ==
    ASSUME NEW line \in Bytes
    PROVE  Ordered(Words(line), Stretches(line))
<1>1. PICK S : S = Stretches(line) OBVIOUS
<1>2. PICK words : words \in Seq(S) /\ InOrder(words, S) BY <1>1, OrderExists DEF Ordered
<1>3. PICK m \in Nat : /\ m = Len(words) /\ DOMAIN words = 1 .. m
                       /\ words \in [1 .. m -> S]
  BY <1>2
<1>4. \A w \in S : w[1] \in 1 .. Len(line) BY <1>1, StretchFacts
<1>5. words \in Injection(1 .. m, S)
  <2>1. \A i, j \in 1 .. m : words[i] = words[j] => i = j
    <3> SUFFICES ASSUME NEW i \in 1 .. m, NEW j \in 1 .. m, words[i] = words[j], i # j
                 PROVE  FALSE
      OBVIOUS
    <3>1. i < j \/ j < i OBVIOUS
    <3>2. words[i][1] < words[j][1] \/ words[j][1] < words[i][1] BY <3>1, <1>2, <1>3 DEF InOrder
    <3>3. PICK a \in 1 .. Len(line) : a = words[i][1] /\ a = words[j][1] BY <1>3, <1>4
    <3>4. a \in Int OBVIOUS
    <3>5. ~(a < a) BY <3>4
    <3> QED BY <3>2, <3>3, <3>5
  <2> QED BY <2>1, <1>3 DEF Injection, IsInjective
<1>6. words \in Surjection(1 .. m, S)
  BY <1>2, <1>3 DEF Surjection, InOrder
<1>7. ExistsBijection(1 .. m, S) BY <1>5, <1>6 DEF ExistsBijection, Bijection
<1>8. IsFiniteSet(1 .. m) /\ Cardinality(1 .. m) = m BY FS_Interval
<1>9. Cardinality(S) = m BY <1>7, <1>8, FS_Bijection
<1>10. \E x \in [1 .. Cardinality(S) -> S] : InOrder(x, S) BY <1>2, <1>3, <1>9
<1>11. PICK x : x = CHOOSE y \in [1 .. Cardinality(S) -> S] : InOrder(y, S) OBVIOUS
<1>12. x \in [1 .. Cardinality(S) -> S] /\ InOrder(x, S) BY <1>10, <1>11
<1>13. x \in Seq(S)
  <2>1. x \in [1 .. m -> S] BY <1>9, <1>12
  <2> QED BY <2>1, SeqDef
<1>14. x = Words(line) BY <1>1, <1>11 DEF Words
<1> QED BY <1>1, <1>12, <1>13, <1>14 DEF Ordered


StartsOne(ws, i) == \E k \in 1 .. Len(ws) : ws[k][1] = i

LEMMA OrderedFacts ==
    ASSUME NEW line \in Bytes, NEW ws, Ordered(ws, Stretches(line))
    PROVE  /\ ws \in Seq(Stretches(line)) /\ Len(ws) \in Nat
           /\ \A k \in 1 .. Len(ws) : /\ ws[k] \in Stretches(line)
                                      /\ ws[k][1] \in 1 .. Len(line)
                                      /\ IsStart(line, ws[k][1])
           /\ \A i : IsStart(line, i) => StartsOne(ws, i)
           /\ \A i, j \in 1 .. Len(ws) : i < j => ws[i][1] < ws[j][1]
<1>1. PICK S : S = Stretches(line) OBVIOUS
<1>2. ws \in Seq(S) /\ InOrder(ws, S) BY <1>1 DEF Ordered
<1>3. /\ Len(ws) \in Nat /\ DOMAIN ws = 1 .. Len(ws)
      /\ \A k \in 1 .. Len(ws) : ws[k] \in S
  BY <1>2
<1>4. \A w \in S : w[1] \in 1 .. Len(line) /\ IsStart(line, w[1]) BY <1>1, StretchFacts
<1>5. \A i : IsStart(line, i) => StartsOne(ws, i)
  <2> SUFFICES ASSUME NEW i, IsStart(line, i) PROVE StartsOne(ws, i) OBVIOUS
  <2>1. PICK w \in S : w = <<i, Find(line, SPACE, i) - 1>> BY <1>1, StretchAt
  <2>2. PICK k \in 1 .. Len(ws) : ws[k] = w BY <1>2, <1>3 DEF InOrder
  <2>3. w[1] = i BY <2>1
  <2> QED BY <2>2, <2>3 DEF StartsOne
<1>6. \A i, j \in 1 .. Len(ws) : i < j => ws[i][1] < ws[j][1] BY <1>2, <1>3 DEF InOrder
<1> QED BY <1>1, <1>2, <1>3, <1>4, <1>5, <1>6

\* Where word k starts; after the last one, the end of the line.
Start(line, ws, k) == IF k <= Len(ws) THEN ws[k][1] ELSE Len(line) + 1

\* The words before k start before p, the others do not.
Splits(ws, p, k) ==
    /\ \A j \in 1 .. Len(ws) : j < k => ws[j][1] < p
    /\ \A j \in 1 .. Len(ws) : j >= k => ws[j][1] >= p

\* Skipping spaces leads to the next word.
LEMMA SkipToWord ==
    ASSUME NEW line \in Bytes, NEW ws, Ordered(ws, Stretches(line)),
           NEW p \in 1 .. Len(line) + 1, p = 1 \/ (p <= Len(line) => line[p] = SPACE),
           NEW k \in 1 .. Len(ws) + 1, Splits(ws, p, k)
    PROVE  SkipSpaces(line, p) = Start(line, ws, k)
<1>1. PICK n \in Nat : n = Len(line) BY DEF Bytes
<1>2. PICK m \in Nat : m = Len(ws) BY OrderedFacts
<1>3. /\ \A j \in 1 .. m : ws[j][1] \in 1 .. n /\ IsStart(line, ws[j][1])
      /\ \A i : IsStart(line, i) => \E j \in 1 .. m : ws[j][1] = i
      /\ \A i, j \in 1 .. m : i < j => ws[i][1] < ws[j][1]
  <2>1. /\ \A j \in 1 .. m : ws[j][1] \in 1 .. n /\ IsStart(line, ws[j][1])
        /\ \A i, j \in 1 .. m : i < j => ws[i][1] < ws[j][1]
    BY <1>1, <1>2, OrderedFacts
  <2>2. \A i : IsStart(line, i) => StartsOne(ws, i) BY OrderedFacts
  <2> QED BY <2>1, <2>2, <1>2 DEF StartsOne
<1>4. /\ \A j \in 1 .. m : j < k => ws[j][1] < p
      /\ \A j \in 1 .. m : j >= k => ws[j][1] >= p
  BY <1>2 DEF Splits
<1>5. PICK q \in p .. n + 1 : /\ q = SkipSpaces(line, p) /\ (q <= n => line[q] # SPACE)
                              /\ \A j \in p .. q - 1 : line[j] = SPACE
  BY <1>1, SkipFacts
<1>6. k \in 1 .. m + 1 /\ p \in 1 .. n + 1 BY <1>1, <1>2
\* No word starts between p and q.
<1>7. \A j \in 1 .. m : j >= k => ws[j][1] >= q
  <2> SUFFICES ASSUME NEW j \in 1 .. m, j >= k, ~(ws[j][1] >= q) PROVE FALSE OBVIOUS
  <2>1. PICK a \in 1 .. n : a = ws[j][1] /\ IsStart(line, a) BY <1>3
  <2>2. a >= p BY <2>1, <1>4
  <2>3. a \in p .. q - 1 BY <2>1, <2>2, <1>5, <1>6
  <2>4. line[a] = SPACE BY <2>3, <1>5
  <2> QED BY <2>1, <2>4 DEF IsStart
<1>8. CASE q <= n
  <2>1. IsStart(line, q)
    <3>1. q \in 1 .. n /\ line[q] # SPACE BY <1>5, <1>6, <1>8
    <3>2. CASE q = p
      <4>1. p <= Len(line) BY <3>2, <1>1, <1>8
      <4>2. p = 1 BY <3>1, <3>2, <4>1
      <4> QED BY <3>1, <3>2, <4>2, <1>1 DEF IsStart
    <3>3. CASE q # p
      <4>1. q - 1 \in p .. q - 1 BY <3>3, <1>5, <1>6
      <4>2. line[q - 1] = SPACE BY <4>1, <1>5
      <4> QED BY <3>1, <4>2, <1>1 DEF IsStart
    <3> QED BY <3>2, <3>3
  <2>2. PICK j \in 1 .. m : ws[j][1] = q BY <2>1, <1>3
  <2>3. j >= k
    <3> SUFFICES ASSUME ~(j >= k) PROVE FALSE OBVIOUS
    <3>1. j < k BY <1>6
    <3>2. q < p BY <3>1, <2>2, <1>4
    <3> QED BY <3>2, <1>5, <1>6
  <2>4. ~(k < j)
    <3> SUFFICES ASSUME k < j PROVE FALSE OBVIOUS
    <3>1. k \in 1 .. m BY <1>6
    <3>2. PICK a \in 1 .. n : a = ws[k][1] BY <3>1, <1>3
    <3>3. a < q BY <3>1, <3>2, <2>2, <1>3
    <3>4. a >= q BY <3>1, <3>2, <1>7
    <3> QED BY <3>3, <3>4, <1>5
  <2>5. j = k BY <2>3, <2>4, <1>6
  <2>6. k <= Len(ws) BY <2>5, <1>2
  <2> QED BY <2>2, <2>5, <2>6, <1>5 DEF Start
<1>9. CASE ~(q <= n)
  <2>1. q = n + 1 BY <1>5, <1>9
  <2>2. ~(k <= m)
    <3> SUFFICES ASSUME k <= m PROVE FALSE OBVIOUS
    <3>1. k \in 1 .. m BY <1>6
    <3>2. PICK a \in 1 .. n : a = ws[k][1] BY <3>1, <1>3
    <3>3. a >= q BY <3>1, <3>2, <1>7
    <3> QED BY <3>2, <3>3, <2>1
  <2>3. ~(k <= Len(ws)) BY <2>2, <1>2
  <2> QED BY <2>1, <2>3, <1>1, <1>5 DEF Start
<1> QED BY <1>8, <1>9

LEMMA NextIsNext ==
    ASSUME NEW line \in Bytes, NEW ws, Ordered(ws, Stretches(line)), NEW k \in 1 .. Len(ws)
    PROVE  NextWord(line, ws[k][1]) = Start(line, ws, k + 1)
<1>1. PICK n \in Nat : n = Len(line) BY DEF Bytes
<1>2. PICK m \in Nat : m = Len(ws) BY OrderedFacts
<1>3. /\ \A j \in 1 .. m : ws[j][1] \in 1 .. n /\ IsStart(line, ws[j][1])
      /\ \A i, j \in 1 .. m : i < j => ws[i][1] < ws[j][1]
  BY <1>1, <1>2, OrderedFacts
<1>4. k \in 1 .. m /\ k + 1 \in 1 .. Len(ws) + 1 BY <1>2
<1>5. PICK a \in 1 .. n : a = ws[k][1] /\ line[a] # SPACE BY <1>3, <1>4 DEF IsStart
<1>6. a \in 1 .. Len(line) + 1 BY <1>1
<1>7. PICK p \in a .. n + 1 : /\ p = Find(line, SPACE, a) /\ (p <= n => line[p] = SPACE)
                              /\ \A j \in a .. p - 1 : line[j] # SPACE
  BY <1>1, <1>6, FindFacts
<1>8. p > a
  <2>1. p # a BY <1>5, <1>7
  <2> QED BY <2>1, <1>7
<1>9. \A j \in 1 .. m : j < k + 1 => ws[j][1] < p
  <2> SUFFICES ASSUME NEW j \in 1 .. m, j < k + 1 PROVE ws[j][1] < p OBVIOUS
  <2>1. PICK b \in 1 .. n : b = ws[j][1] BY <1>3
  <2>2. CASE j = k BY <2>2, <1>5, <1>8
  <2>3. CASE j # k
    <3>1. j < k BY <2>3, <1>4
    <3>2. b < a BY <3>1, <2>1, <1>3, <1>4, <1>5
    <3>3. b < p BY <3>2, <1>7, <1>8
    <3> QED BY <3>3, <2>1
  <2> QED BY <2>2, <2>3
<1>10. \A j \in 1 .. m : j >= k + 1 => ws[j][1] >= p
  <2> SUFFICES ASSUME NEW j \in 1 .. m, j >= k + 1, ~(ws[j][1] >= p) PROVE FALSE OBVIOUS
  <2>1. PICK b \in 1 .. n : b = ws[j][1] /\ IsStart(line, b) BY <1>3
  <2>2. k < j BY <1>4
  <2>3. a < b BY <2>1, <2>2, <1>3, <1>4, <1>5
  <2>4. b - 1 \in a .. p - 1 /\ b # 1 BY <2>1, <2>3, <1>7
  <2>5. line[b - 1] # SPACE BY <2>4, <1>7
  <2> QED BY <2>1, <2>4, <2>5 DEF IsStart
<1>11. Splits(ws, p, k + 1) BY <1>2, <1>9, <1>10 DEF Splits
<1>12. p \in 1 .. Len(line) + 1 /\ (p <= Len(line) => line[p] = SPACE) BY <1>1, <1>7
<1>13. SkipSpaces(line, p) = Start(line, ws, k + 1) BY <1>4, <1>11, <1>12, SkipToWord
<1> QED BY <1>5, <1>7, <1>13 DEF NextWord


\* What a word is as a parameter.
Piece(line, w) ==
    IF line[w[1]] = COLON THEN From(line, w[1] + 1) ELSE SubSeq(line, w[1], w[2])

LEMMA PieceTyped ==
    ASSUME NEW line \in Bytes, NEW w \in Stretches(line)
    PROVE  Piece(line, w) \in Bytes
<1>1. PICK n \in Nat : n = Len(line) BY DEF Bytes
<1>2. PICK a \in 1 .. n, b \in 1 .. n : a = w[1] /\ b = w[2] BY <1>1, StretchFacts
<1>3. a <= b
  <2>1. w[1] <= w[2] BY DEF Stretches
  <2> QED BY <2>1, <1>2
<1>4. From(line, a + 1) \in Bytes
  <2>1. a + 1 \in 1 .. Len(line) + 1 BY <1>1
  <2> QED BY <2>1, FromFacts
<1>5. SubSeq(line, a, b) \in Bytes
  <2>1. a \in 1 .. Len(line) + 1 /\ b \in a - 1 .. Len(line) BY <1>1, <1>3
  <2> QED BY <2>1, SubSeqFacts DEF Bytes
<1> QED BY <1>2, <1>4, <1>5 DEF Piece

Opening(line, a) == {i \in DOMAIN a : line[a[i][1]] = COLON}

LastParam(line, a) == Min(Opening(line, a) \cup {Len(a)})

\* f is the last parameter.
EndsAt(line, a, f) ==
    /\ f \in 0 .. Len(a) /\ (f = 0 => Len(a) = 0)
    /\ \A i \in 1 .. f - 1 : line[a[i][1]] # COLON
    /\ f < Len(a) => line[a[f][1]] = COLON

LEMMA LastParamFacts ==
    ASSUME NEW line \in Bytes, NEW a \in Seq(Stretches(line))
    PROVE  EndsAt(line, a, LastParam(line, a))
<1>1. PICK m \in Nat : m = Len(a) /\ DOMAIN a = 1 .. m OBVIOUS
<1> DEFINE S == Opening(line, a) \cup {Len(a)}
<1>2. \A i \in S : i \in 0 .. m /\ (i = 0 => m = 0) BY <1>1 DEF Opening
<1>3. S \in SUBSET Nat /\ m \in S
  <2>1. \A i \in S : i \in Nat BY <1>2
  <2> QED BY <2>1, <1>1
<1>4. PICK f : f = Min(S) OBVIOUS
<1>5. f \in S /\ \A i \in S : f <= i
  <2>1. S # {} BY <1>3
  <2> HIDE DEF S
  <2> QED BY <2>1, <1>3, <1>4, MinFacts
<1>6. f \in 0 .. m /\ (f = 0 => m = 0) BY <1>2, <1>5
<1>7. \A i \in 1 .. f - 1 : line[a[i][1]] # COLON
  <2> SUFFICES ASSUME NEW i \in 1 .. f - 1, line[a[i][1]] = COLON PROVE FALSE OBVIOUS
  <2>1. i \in 1 .. m BY <1>6
  <2>2. i \in S BY <2>1, <1>1 DEF Opening
  <2>3. f <= i BY <2>2, <1>5
  <2> QED BY <2>3, <1>6
<1>8. f < m => line[a[f][1]] = COLON
  <2> SUFFICES ASSUME f < m PROVE line[a[f][1]] = COLON OBVIOUS
  <2>1. f # m BY <1>6
  <2> QED BY <2>1, <1>1, <1>5 DEF Opening
<1> QED BY <1>1, <1>4, <1>6, <1>7, <1>8 DEF LastParam, EndsAt

LEMMA OneLastParam ==
    ASSUME NEW line \in Bytes, NEW a \in Seq(Stretches(line)),
           NEW f, EndsAt(line, a, f), NEW g, EndsAt(line, a, g)
    PROVE  f = g
<1>1. PICK m \in Nat : m = Len(a) OBVIOUS
<1>2. /\ f \in 0 .. m /\ (f = 0 => m = 0) /\ (f < m => line[a[f][1]] = COLON)
      /\ \A i \in 1 .. f - 1 : line[a[i][1]] # COLON
      /\ g \in 0 .. m /\ (g = 0 => m = 0) /\ (g < m => line[a[g][1]] = COLON)
      /\ \A i \in 1 .. g - 1 : line[a[i][1]] # COLON
  BY <1>1 DEF EndsAt
<1>3. ~(f < g)
  <2> SUFFICES ASSUME f < g PROVE FALSE OBVIOUS
  <2>1. f \in 1 .. g - 1 /\ f < m BY <1>2
  <2> QED BY <2>1, <1>2
<1>4. ~(g < f)
  <2> SUFFICES ASSUME g < f PROVE FALSE OBVIOUS
  <2>1. g \in 1 .. f - 1 /\ g < m BY <1>2
  <2> QED BY <2>1, <1>2
<1> QED BY <1>2, <1>3, <1>4

\* p has the words of a up to f, each as a parameter.
Pieces(p, line, a, f) ==
    /\ p \in Seq(Bytes) /\ Len(p) = f
    /\ \A i \in 1 .. f : p[i] = Piece(line, a[i])

LEMMA ParametersAre ==
    ASSUME NEW line \in Bytes, NEW a \in Seq(Stretches(line)), NEW f, EndsAt(line, a, f)
    PROVE  Pieces(Parameters(line, a), line, a, f)
<1>1. PICK m \in Nat : m = Len(a) /\ \A i \in 1 .. m : a[i] \in Stretches(line) OBVIOUS
<1>2. f \in 0 .. m BY <1>1 DEF EndsAt
<1>3. LastParam(line, a) = f
  <2>1. PICK g : g = LastParam(line, a) OBVIOUS
  <2>2. EndsAt(line, a, g) BY <2>1, LastParamFacts
  <2>3. g = f BY <2>2, OneLastParam
  <2> QED BY <2>1, <2>3
<1>4. Parameters(line, a) = [i \in 1 .. LastParam(line, a) |-> Piece(line, a[i])]
  BY DEF Parameters, LastParam, Opening, Piece
<1>5. PICK p : p = [i \in 1 .. f |-> Piece(line, a[i])] OBVIOUS
<1>6. p = Parameters(line, a) BY <1>3, <1>4, <1>5
<1>7. \A i \in 1 .. f : Piece(line, a[i]) \in Bytes
  <2>1. \A i \in 1 .. f : i \in 1 .. m BY <1>2
  <2> QED BY <2>1, <1>1, PieceTyped
<1>8. p \in [1 .. f -> Bytes] BY <1>5, <1>7
<1>9. f \in Nat BY <1>2
<1>10. p \in Seq(Bytes) BY <1>8, <1>9, SeqDef
<1>11. Len(p) = f
  <2>1. DOMAIN p = 1 .. f BY <1>8
  <2> QED BY <2>1, <1>9, <1>10, LenProperties
<1>12. \A i \in 1 .. f : p[i] = Piece(line, a[i]) BY <1>5
<1> QED BY <1>6, <1>10, <1>11, <1>12 DEF Pieces


LEMMA ParametersNone ==
    ASSUME NEW line \in Bytes, NEW a \in Seq(Stretches(line)), Len(a) = 0
    PROVE  Parameters(line, a) = <<>>
<1>1. EndsAt(line, a, 0) BY DEF EndsAt
<1>2. PICK p : p = Parameters(line, a) OBVIOUS
<1>3. Pieces(p, line, a, 0) BY <1>1, <1>2, ParametersAre
<1>4. p \in Seq(Bytes) /\ Len(p) = 0 BY <1>3 DEF Pieces
<1> QED BY <1>2, <1>4

LEMMA ParametersMarked ==
    ASSUME NEW line \in Bytes, NEW a \in Seq(Stretches(line)), Len(a) >= 1,
           line[a[1][1]] = COLON
    PROVE  Parameters(line, a) = <<From(line, a[1][1] + 1)>>
<1>1. EndsAt(line, a, 1)
  <2>1. Len(a) \in Nat OBVIOUS
  <2> QED BY <2>1 DEF EndsAt
<1>2. PICK p : p = Parameters(line, a) OBVIOUS
<1>3. Pieces(p, line, a, 1) BY <1>1, <1>2, ParametersAre
<1>4. p \in Seq(Bytes) /\ Len(p) = 1 /\ p[1] = Piece(line, a[1]) BY <1>3 DEF Pieces
<1>5. p = <<p[1]>> BY <1>4
<1>6. Piece(line, a[1]) = From(line, a[1][1] + 1) BY DEF Piece
<1> QED BY <1>2, <1>4, <1>5, <1>6

\* a is a word and then b.
Leads(a, b) == Len(a) = Len(b) + 1 /\ \A i \in 1 .. Len(b) : a[i + 1] = b[i]

LEMMA ParametersMore ==
    ASSUME NEW line \in Bytes, NEW a \in Seq(Stretches(line)), NEW b \in Seq(Stretches(line)),
           Leads(a, b), line[a[1][1]] # COLON
    PROVE  /\ Parameters(line, a) = <<Piece(line, a[1])>> \o Parameters(line, b)
           /\ Parameters(line, b) \in Seq(Bytes)
<1>1. PICK m \in Nat : m = Len(b) OBVIOUS
<1>2. Len(a) = m + 1 /\ \A i \in 1 .. m : a[i + 1] = b[i] BY <1>1 DEF Leads
<1>3. PICK f : f = LastParam(line, b) /\ EndsAt(line, b, f) BY LastParamFacts
<1>4. /\ f \in 0 .. m /\ (f = 0 => m = 0) /\ (f < m => line[b[f][1]] = COLON)
      /\ \A i \in 1 .. f - 1 : line[b[i][1]] # COLON
  BY <1>1, <1>3 DEF EndsAt
<1>5. EndsAt(line, a, f + 1)
  <2>1. f + 1 \in 0 .. Len(a) /\ f + 1 # 0 BY <1>2, <1>4
  <2>2. \A i \in 1 .. (f + 1) - 1 : line[a[i][1]] # COLON
    <3> TAKE i \in 1 .. (f + 1) - 1
    <3>1. CASE i = 1 BY <3>1
    <3>2. CASE i # 1
      <4>1. i - 1 \in 1 .. f - 1 /\ i - 1 \in 1 .. m /\ (i - 1) + 1 = i BY <3>2, <1>4
      <4>2. a[i] = b[i - 1] BY <4>1, <1>2
      <4>3. line[b[i - 1][1]] # COLON BY <4>1, <1>4
      <4> QED BY <4>2, <4>3
    <3> QED BY <3>1, <3>2
  <2>3. f + 1 < Len(a) => line[a[f + 1][1]] = COLON
    <3> SUFFICES ASSUME f + 1 < Len(a) PROVE line[a[f + 1][1]] = COLON OBVIOUS
    <3>1. f < m /\ f \in 1 .. m BY <1>2, <1>4
    <3>2. a[f + 1] = b[f] BY <3>1, <1>2
    <3> QED BY <3>1, <3>2, <1>4
  <2> QED BY <2>1, <2>2, <2>3 DEF EndsAt
<1>6. PICK p : p = Parameters(line, a) OBVIOUS
<1>7. Pieces(p, line, a, f + 1) BY <1>5, <1>6, ParametersAre
<1>8. /\ p \in Seq(Bytes) /\ Len(p) = f + 1
      /\ \A i \in 1 .. f + 1 : p[i] = Piece(line, a[i])
  BY <1>7 DEF Pieces
<1>9. PICK q : q = Parameters(line, b) OBVIOUS
<1>10. Pieces(q, line, b, f) BY <1>3, <1>9, ParametersAre
<1>11. PICK r \in Seq(Bytes) : /\ r = q /\ Len(r) = f
                              /\ \A i \in 1 .. f : r[i] = Piece(line, b[i])
  BY <1>10 DEF Pieces
<1>12. PICK w \in Bytes : w = Piece(line, a[1])
  <2>1. a[1] \in Stretches(line)
    <3>1. 1 \in 1 .. Len(a) BY <1>2
    <3> QED BY <3>1
  <2> QED BY <2>1, PieceTyped
<1>13. PICK one \in Seq(Bytes) : one = <<w>> /\ Len(one) = 1 /\ one[1] = w
  <2>1. <<w>> \in Seq(Bytes) OBVIOUS
  <2> QED BY <2>1
<1>14. PICK u : u = one \o r OBVIOUS
<1>15. /\ u \in Seq(Bytes) /\ Len(u) = Len(one) + Len(r)
       /\ \A i \in 1 .. Len(one) : u[i] = one[i]
       /\ \A i \in 1 .. Len(r) : u[Len(one) + i] = r[i]
  BY <1>14, ConcatFacts
<1>16. Len(u) = f + 1 /\ u[1] = w /\ \A i \in 1 .. f : u[1 + i] = r[i]
  <2>1. 1 \in 1 .. 1 /\ 1 + f = f + 1 BY <1>4
  <2> QED BY <2>1, <1>11, <1>13, <1>15
<1>17. \A i \in 1 .. f + 1 : p[i] = u[i]
  <2> TAKE i \in 1 .. f + 1
  <2>1. CASE i = 1 BY <2>1, <1>8, <1>12, <1>16
  <2>2. CASE i # 1
    <3>1. i - 1 \in 1 .. f /\ i - 1 \in 1 .. m /\ (i - 1) + 1 = i /\ 1 + (i - 1) = i
      BY <2>2, <1>4
    <3>2. p[i] = Piece(line, b[i - 1]) BY <3>1, <1>2, <1>8
    <3>3. u[i] = r[i - 1] BY <3>1, <1>16
    <3> QED BY <3>1, <3>2, <3>3, <1>11
  <2> QED BY <2>1, <2>2
<1>18. p = u BY <1>8, <1>15, <1>16, <1>17, SeqEqual
<1> QED BY <1>6, <1>9, <1>11, <1>12, <1>13, <1>14, <1>18

LEMMA SeqFrom ==
    ASSUME NEW T, NEW s \in Seq(T), NEW k \in 1 .. Len(s) + 1
    PROVE  /\ From(s, k) \in Seq(T) /\ Len(From(s, k)) = Len(s) - k + 1
           /\ \A j \in 1 .. Len(s) - k + 1 : From(s, k)[j] = s[k + j - 1]
<1>1. PICK n \in Nat : n = Len(s) OBVIOUS
<1>2. n \in k - 1 .. Len(s) BY <1>1
<1>3. /\ SubSeq(s, k, n) \in Seq(T) /\ Len(SubSeq(s, k, n)) = n - k + 1
      /\ \A j \in 1 .. n - k + 1 : SubSeq(s, k, n)[j] = s[k + j - 1]
  BY <1>2, SubSeqFacts
<1> QED BY <1>1, <1>3 DEF From

\* From each word on, the scan of parseMessage finds the parameters of the grammar.
LEMMA ScanIsGrammar ==
    ASSUME NEW line \in Bytes, NEW ws, Ordered(ws, Stretches(line)),
           NEW P, ParsesInto(P, line)
    PROVE  \A k \in 1 .. Len(ws) + 1 : P[Start(line, ws, k)] = Parameters(line, From(ws, k))
<1>1. PICK n \in Nat : n = Len(line) BY DEF Bytes
<1>2. PICK m \in Nat : m = Len(ws) BY OrderedFacts
<1>3. PICK W : W = Stretches(line) /\ ws \in Seq(W) BY OrderedFacts
<1>4. \A j \in 1 .. m : ws[j] \in W /\ ws[j][1] \in 1 .. n BY <1>1, <1>2, <1>3, OrderedFacts
<1>5. PICK N \in Nat : N = m + 1 OBVIOUS
<1> DEFINE S == {k \in 1 .. N : P[Start(line, ws, k)] = Parameters(line, From(ws, k))}
<1>6. ASSUME NEW k \in 1 .. N, \A j \in k + 1 .. N : j \in S PROVE k \in S
  <2>1. k \in 1 .. Len(ws) + 1 BY <1>2, <1>5
  <2>2. PICK a : a = From(ws, k) OBVIOUS
  <2>3. /\ a \in Seq(W) /\ Len(a) = m - k + 1
        /\ \A j \in 1 .. m - k + 1 : a[j] = ws[k + j - 1]
    BY <2>1, <2>2, <1>2, <1>3, SeqFrom
  <2>4. CASE k = N
    <3>1. Len(a) = 0 BY <2>3, <2>4, <1>5
    <3>2. Parameters(line, a) = <<>> BY <3>1, <2>3, <1>3, ParametersNone
    <3>3. ~(k <= Len(ws)) BY <2>4, <1>2, <1>5
    <3>4. Start(line, ws, k) = n + 1 BY <3>3, <1>1 DEF Start
    <3>5. n + 1 \in 1 .. Len(line) + 1 /\ n + 1 > Len(line) BY <1>1
    <3>6. P[n + 1] = <<>> BY <3>5 DEF ParsesInto
    <3> QED BY <3>2, <3>4, <3>6, <2>2
  <2>5. CASE k # N
    <3>1. k \in 1 .. m /\ k \in 1 .. Len(ws) /\ k + 1 \in k + 1 .. N /\ k + 1 \in 1 .. Len(ws) + 1
      BY <2>5, <1>2, <1>5
    <3>2. PICK w \in W : w = ws[k] BY <3>1, <1>4
    <3>3. PICK i \in 1 .. n : i = w[1] BY <3>1, <3>2, <1>4
    <3>4. k <= Len(ws) BY <3>1, <1>2
    <3>5. Start(line, ws, k) = i BY <3>2, <3>3, <3>4 DEF Start
    <3>6. i \in 1 .. Len(line) + 1 /\ ~(i > Len(line)) BY <1>1
    <3>7. P[i] = IF line[i] = COLON THEN <<From(line, i + 1)>>
                 ELSE <<Field(line, SPACE, i)>> \o P[NextWord(line, i)]
      BY <3>6 DEF ParsesInto
    <3>8. Len(a) >= 1 /\ a[1] = w
      <4>1. 1 \in 1 .. m - k + 1 /\ k + 1 - 1 = k BY <3>1
      <4> QED BY <4>1, <3>2, <2>3
    <3>9. CASE line[i] = COLON
      <4>1. line[a[1][1]] = COLON BY <3>3, <3>8, <3>9
      <4>2. Parameters(line, a) = <<From(line, a[1][1] + 1)>>
        BY <4>1, <3>8, <2>3, <1>3, ParametersMarked
      <4>3. Parameters(line, a) = <<From(line, i + 1)>> BY <4>2, <3>3, <3>8
      <4> QED BY <4>3, <3>5, <3>7, <3>9, <2>2
    <3>10. CASE line[i] # COLON
      <4>1. PICK b : b = From(ws, k + 1) OBVIOUS
      <4>2. /\ b \in Seq(W) /\ Len(b) = m - (k + 1) + 1
            /\ \A j \in 1 .. m - (k + 1) + 1 : b[j] = ws[(k + 1) + j - 1]
        BY <4>1, <3>1, <1>2, <1>3, SeqFrom
      <4>3. Leads(a, b)
        <5>1. Len(b) = m - k /\ Len(a) = Len(b) + 1 BY <4>2, <2>3, <3>1
        <5>2. \A j \in 1 .. m - k : a[j + 1] = b[j]
          <6> TAKE j \in 1 .. m - k
          <6>1. /\ j + 1 \in 1 .. m - k + 1 /\ j \in 1 .. m - (k + 1) + 1
                /\ k + (j + 1) - 1 = (k + 1) + j - 1
            BY <3>1
          <6> QED BY <6>1, <4>2, <2>3
        <5> QED BY <5>1, <5>2 DEF Leads
      <4>4. line[a[1][1]] # COLON BY <3>3, <3>8, <3>10
      <4>5. Parameters(line, a) = <<Piece(line, a[1])>> \o Parameters(line, b)
        BY <4>3, <4>4, <4>2, <2>3, <1>3, ParametersMore
      <4>6. Piece(line, a[1]) = Field(line, SPACE, i)
        <5>1. Piece(line, w) = SubSeq(line, i, w[2]) BY <3>3, <3>10 DEF Piece
        <5>2. w[2] = Find(line, SPACE, i) - 1 BY <3>2, <3>3, <1>3, StretchFacts
        <5> QED BY <5>1, <5>2, <3>8 DEF Field
      <4>7. NextWord(line, i) = Start(line, ws, k + 1) BY <3>1, <3>2, <3>3, NextIsNext
      <4>8. P[Start(line, ws, k + 1)] = Parameters(line, b) BY <4>1, <3>1, <1>6
      <4> QED BY <4>5, <4>6, <4>7, <4>8, <3>5, <3>7, <3>10, <2>2
    <3> QED BY <3>9, <3>10
  <2> QED BY <2>4, <2>5
<1> HIDE DEF S
<1>7. \A k \in 1 .. N : k \in S BY <1>6, DownwardInduction
<1> QED BY <1>2, <1>5, <1>7 DEF S


LEMMA TailIsFrom ==
    ASSUME NEW T, NEW s \in Seq(T), NEW k \in 1 .. Len(s)
    PROVE  /\ From(s, k) # <<>> /\ Head(From(s, k)) = s[k]
           /\ Tail(From(s, k)) = From(s, k + 1)
<1>1. PICK m \in Nat : m = Len(s) OBVIOUS
<1>2. k \in 1 .. Len(s) + 1 /\ k + 1 \in 1 .. Len(s) + 1 BY <1>1
<1>3. PICK a \in Seq(T) : /\ a = From(s, k) /\ Len(a) = m - k + 1
                          /\ \A j \in 1 .. m - k + 1 : a[j] = s[k + j - 1]
  <2>1. PICK a : a = From(s, k) OBVIOUS
  <2>2. /\ a \in Seq(T) /\ Len(a) = m - k + 1
        /\ \A j \in 1 .. m - k + 1 : a[j] = s[k + j - 1]
    BY <2>1, <1>1, <1>2, SeqFrom
  <2> QED BY <2>1, <2>2
<1>4. PICK b \in Seq(T) : /\ b = From(s, k + 1) /\ Len(b) = m - (k + 1) + 1
                          /\ \A j \in 1 .. m - (k + 1) + 1 : b[j] = s[(k + 1) + j - 1]
  <2>1. PICK b : b = From(s, k + 1) OBVIOUS
  <2>2. /\ b \in Seq(T) /\ Len(b) = m - (k + 1) + 1
        /\ \A j \in 1 .. m - (k + 1) + 1 : b[j] = s[(k + 1) + j - 1]
    BY <2>1, <1>1, <1>2, SeqFrom
  <2> QED BY <2>1, <2>2
<1>5. a # <<>>
  <2>1. Len(a) # 0 BY <1>1, <1>3
  <2> QED BY <2>1
<1>6. a[1] = s[k]
  <2>1. 1 \in 1 .. m - k + 1 /\ k + 1 - 1 = k BY <1>1
  <2> QED BY <2>1, <1>3
<1>7. /\ Tail(a) \in Seq(T) /\ Len(Tail(a)) = Len(a) - 1
      /\ \A i \in 1 .. Len(Tail(a)) : Tail(a)[i] = a[i + 1]
  BY <1>5, HeadTailProperties
<1>8. PICK t \in Seq(T) : /\ t = Tail(a) /\ Len(t) = m - k
                          /\ \A i \in 1 .. m - k : t[i] = a[i + 1]
  <2>1. Len(a) - 1 = m - k BY <1>1, <1>3
  <2> QED BY <2>1, <1>7
<1>9. Len(b) = m - k
  <2>1. k \in 1 .. m BY <1>1
  <2>2. m - (k + 1) + 1 = m - k BY <2>1
  <2> QED BY <2>2, <1>4
<1>10. \A j \in 1 .. m - k : t[j] = b[j]
  <2> TAKE j \in 1 .. m - k
  <2>1. /\ j + 1 \in 1 .. m - k + 1 /\ j \in 1 .. m - (k + 1) + 1
        /\ k + (j + 1) - 1 = (k + 1) + j - 1
    BY <1>1
  <2> QED BY <2>1, <1>3, <1>4, <1>8
<1>11. t = b BY <1>8, <1>9, <1>10, SeqEqual
<1>12. Head(a) = s[k] BY <1>6 DEF Head
<1> QED BY <1>3, <1>4, <1>5, <1>8, <1>11, <1>12

\* What the command of a line is parsed to, if it is word c of them.
CommandAt(line, ws, c) ==
    [command |-> SubSeq(line, Start(line, ws, c), Find(line, SPACE, Start(line, ws, c)) - 1),
     params  |-> ParamsFrom(line, Find(line, SPACE, Start(line, ws, c)))]

LEMMA CommandIsGrammar ==
    ASSUME NEW line \in Bytes, NEW ws, Ordered(ws, Stretches(line)), NEW c \in 1 .. Len(ws)
    PROVE  CommandAt(line, ws, c) = [command |-> SubSeq(line, ws[c][1], ws[c][2]),
                                     params  |-> Parameters(line, From(ws, c + 1))]
<1>1. PICK n \in Nat : n = Len(line) BY DEF Bytes
<1>2. PICK m \in Nat : m = Len(ws) BY OrderedFacts
<1>3. PICK w \in Stretches(line) : w = ws[c] BY OrderedFacts
<1>4. PICK i \in 1 .. n : i = w[1] /\ w[2] = Find(line, SPACE, i) - 1 BY <1>1, StretchFacts
<1>5. c <= Len(ws) /\ c + 1 \in 1 .. Len(ws) + 1 BY <1>2
<1>6. Start(line, ws, c) = i BY <1>3, <1>4, <1>5 DEF Start
<1>7. PICK P : /\ ParsesInto(P, line)
               /\ \A start \in 1 .. Len(line) + 1 :
                      ParamsFrom(line, start) = P[SkipSpaces(line, start)]
  BY ParamsUnroll
<1>8. i \in 1 .. Len(line) + 1 BY <1>1
<1>9. PICK p \in 1 .. Len(line) + 1 : p = Find(line, SPACE, i)
  <2>1. PICK p \in i .. n + 1 : p = Find(line, SPACE, i) BY <1>1, <1>8, FindFacts
  <2>2. p \in 1 .. Len(line) + 1 BY <1>1, <2>1
  <2> QED BY <2>1, <2>2
<1>10. SkipSpaces(line, p) = Start(line, ws, c + 1)
  <2>1. NextWord(line, i) = Start(line, ws, c + 1) BY <1>3, <1>4, NextIsNext
  <2> QED BY <2>1, <1>9 DEF NextWord
<1>11. P[Start(line, ws, c + 1)] = Parameters(line, From(ws, c + 1))
  BY <1>5, <1>7, ScanIsGrammar
<1>12. ParamsFrom(line, p) = Parameters(line, From(ws, c + 1)) BY <1>7, <1>10, <1>11
<1> QED BY <1>3, <1>4, <1>6, <1>9, <1>12 DEF CommandAt

LEMMA NoCommand ==
    ASSUME NEW line \in Bytes, NEW ws, Ordered(ws, Stretches(line)), NEW c \in Nat, c > Len(ws)
    PROVE  CommandAt(line, ws, c) = [command |-> <<>>, params |-> <<>>]
<1>1. PICK n \in Nat : n = Len(line) BY DEF Bytes
<1>2. PICK m \in Nat : m = Len(ws) BY OrderedFacts
<1>3. ~(c <= Len(ws)) BY <1>2
<1>4. PICK e \in 1 .. Len(line) + 1 : e = n + 1 BY <1>1
<1>5. Start(line, ws, c) = e BY <1>1, <1>3, <1>4 DEF Start
<1>6. Find(line, SPACE, e) = e
  <2>1. e \in e .. Len(line) + 1 /\ ~(e <= Len(line)) /\ e .. e - 1 = {} BY <1>1, <1>4
  <2> QED BY <2>1, FindIs
<1>7. SkipSpaces(line, e) = e
  <2>1. e \in e .. Len(line) + 1 /\ ~(e <= Len(line)) /\ e .. e - 1 = {} BY <1>1, <1>4
  <2> QED BY <2>1, SkipIs
<1>8. SubSeq(line, e, e - 1) = <<>>
  <2>1. e \in Int /\ e - 1 \in Int /\ e - 1 < e BY <1>1, <1>4
  <2> QED BY <2>1, SubSeqEmpty
<1>9. PICK P : /\ ParsesInto(P, line)
               /\ \A start \in 1 .. Len(line) + 1 :
                      ParamsFrom(line, start) = P[SkipSpaces(line, start)]
  BY ParamsUnroll
<1>10. e > Len(line) BY <1>1, <1>4
<1>11. P[e] = <<>> BY <1>9, <1>10 DEF ParsesInto
<1>12. ParamsFrom(line, e) = <<>> BY <1>7, <1>9, <1>11
<1> QED BY <1>5, <1>6, <1>8, <1>12 DEF CommandAt


\* parseMessage reads every line as RFC 1459 has it, wherever its spaces and colons
\* are: the scan with string::find stops at the words the grammar speaks of.
THEOREM ParsingIsByGrammar == Spec => []ParsesByGrammar
<1>1. TInv => ParsesByGrammar
  <2> SUFFICES ASSUME TInv PROVE ParsesByGrammar OBVIOUS
  <2>1. PICK line \in Bytes : line = text BY DEF TInv
  <2>2. PICK n \in Nat : n = Len(line) BY DEF Bytes
  <2>3. PICK ws : ws = Words(line) /\ Ordered(ws, Stretches(line)) BY WordsAreOrdered
  <2>4. PICK W : W = Stretches(line) /\ ws \in Seq(W) BY <2>3, OrderedFacts
  <2>5. PICK m \in Nat : m = Len(ws) BY <2>3, OrderedFacts
  <2>6. From(ws, 1) = ws BY <2>4, SubSeqFull DEF From
  <2>7. 1 \in 1 .. Len(line) + 1 BY <2>2
  <2> DEFINE prefixed == line # <<>> /\ line[1] = COLON
             c == IF prefixed THEN 2 ELSE 1
             words == IF prefixed THEN Tail(ws) ELSE ws
  <2>8. /\ prefixed => m >= 1 /\ ws[1][1] = 1
        /\ SkipSpaces(line, IF prefixed THEN Find(line, SPACE, 1) ELSE 1) = Start(line, ws, c)
        /\ words = From(ws, c) /\ c \in 1 .. m + 1
    <3>1. CASE prefixed
      <4>1. 1 \in 1 .. n
        <5>1. n # 0 BY <3>1, <2>2 DEF Bytes
        <5> QED BY <5>1
      <4>2. IsStart(line, 1) BY <3>1, <4>1, <2>2 DEF IsStart, COLON, SPACE
      <4>3. PICK k \in 1 .. m : ws[k][1] = 1 BY <4>2, <2>3, <2>5, OrderedFacts DEF StartsOne
      <4>4. k = 1
        <5> SUFFICES ASSUME k # 1 PROVE FALSE OBVIOUS
        <5>1. 1 \in 1 .. m /\ 1 < k BY <4>3
        <5>2. /\ ws[1][1] < ws[k][1] /\ ws[1][1] \in 1 .. n
          BY <5>1, <2>2, <2>3, <2>5, OrderedFacts
        <5>3. PICK a \in 1 .. n : a = ws[1][1] BY <5>2
        <5> QED BY <5>2, <5>3, <4>3
      <4>5. 1 \in 1 .. Len(ws) /\ 1 + 1 = 2 BY <4>4, <2>5
      <4>6. NextWord(line, 1) = Start(line, ws, 2) BY <4>3, <4>4, <4>5, <2>3, NextIsNext
      <4>7. Tail(ws) = From(ws, 2) BY <4>5, <2>4, <2>6, TailIsFrom
      <4> QED BY <3>1, <4>3, <4>4, <4>6, <4>7 DEF NextWord
    <3>2. CASE ~prefixed
      <4>1. 1 \in 1 .. Len(ws) + 1 BY <2>5
      <4>2. Splits(ws, 1, 1)
        <5>1. \A j \in 1 .. Len(ws) : ws[j][1] \in 1 .. n BY <2>2, <2>3, OrderedFacts
        <5>2. \A j \in 1 .. Len(ws) : ws[j][1] >= 1 BY <5>1
        <5>3. \A j \in 1 .. Len(ws) : ~(j < 1) BY <2>5
        <5> QED BY <5>2, <5>3 DEF Splits
      <4>3. SkipSpaces(line, 1) = Start(line, ws, 1) BY <4>1, <4>2, <2>3, <2>7, SkipToWord
      <4> QED BY <3>2, <4>3, <2>6
    <3> QED BY <3>1, <3>2
  <2>9. ParseMessage(line) = CommandAt(line, ws, c) BY <2>8 DEF ParseMessage, CommandAt
  <2>10. ByGrammar(line) = IF words = <<>> THEN [command |-> <<>>, params |-> <<>>]
                           ELSE [command |-> SubSeq(line, Head(words)[1], Head(words)[2]),
                                 params  |-> Parameters(line, Tail(words))]
    BY <2>3 DEF ByGrammar
  <2>11. PICK d \in 1 .. m + 1 : d = c /\ words = From(ws, d) BY <2>8
  <2> HIDE DEF words, c, prefixed
  <2>12. CASE d <= m
    <3>1. d \in 1 .. Len(ws) BY <2>5, <2>12
    <3>2. words # <<>> /\ Head(words) = ws[d] /\ Tail(words) = From(ws, d + 1)
      BY <3>1, <2>4, <2>11, TailIsFrom
    <3>3. CommandAt(line, ws, d) = [command |-> SubSeq(line, ws[d][1], ws[d][2]),
                                    params  |-> Parameters(line, From(ws, d + 1))]
      BY <3>1, <2>3, CommandIsGrammar
    <3> QED BY <3>2, <3>3, <2>1, <2>9, <2>10, <2>11 DEF ParsesByGrammar
  <2>13. CASE ~(d <= m)
    <3>1. d \in 1 .. Len(ws) + 1 /\ Len(ws) - d + 1 = 0 /\ d \in Nat /\ d > Len(ws)
      BY <2>5, <2>13
    <3>2. words = <<>>
      <4>1. words \in Seq(W) /\ Len(words) = 0 BY <3>1, <2>4, <2>11, SeqFrom
      <4> QED BY <4>1
    <3>3. CommandAt(line, ws, d) = [command |-> <<>>, params |-> <<>>]
      BY <3>1, <2>3, NoCommand
    <3> QED BY <3>2, <3>3, <2>1, <2>9, <2>10, <2>11 DEF ParsesByGrammar
  <2> QED BY <2>12, <2>13
<1> QED BY <1>1, Invariance, PTL
=============================================================================
