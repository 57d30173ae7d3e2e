----------------------------- MODULE MCModeLine -----------------------------
(* An instance of ModeLine for TLC: texts are strings of Text.             *)
EXTENDS ModeLine, TLC

T == INSTANCE Text WITH
    INT_MAX <- 127, MAX_NICKNAME_LEN <- 4, MAX_CHANNEL_LEN <- 4, MAX_PAYLOAD_LEN <- 9, HeadLen <- 2

\* "b", "B", "0", "5", "05"
lower_b == <<98>>
upper_b == <<66>>
zero    == <<48>>
five    == <<53>>
long5   == <<48, 53>>

EmptyText == <<>>

Single == {upper_b, zero, long5}

\* "" and "b :5"
Odd == {<<>>, <<98, T!SPACE, T!COLON, 53>>}

MCMember == lower_b :> lower_b @@ upper_b :> lower_b
MCNumber == [w \in {t \in Single \cup {five} : T!ParseInt(t).ok} |-> T!ParseInt(w).out]

MCPrinted(n) == T!IntToString(n)

MCSize(text) == Len(text)
MCStart(text, n) == SubSeq(text, 1, IF n < Len(text) THEN n ELSE Len(text))

MCParsed(texts) ==
    LET Joined[n \in 0 .. Len(texts)] ==
            IF n = 0 THEN <<>> ELSE Joined[n - 1] \o <<T!SPACE>> \o texts[n]
    IN  T!ParamsFrom(Joined[Len(texts)], 1)

\* One word is what the parser takes for one, whatever is behind it.
MCPlain ==
    {t \in Single \cup {lower_b, five} \cup Odd :
        T!ParamsFrom(<<T!SPACE>> \o t \o <<T!SPACE>> \o zero, 1) = <<t, zero>>}

\* Up to two parameters, of which the last may be anything.
MCParams ==
    {<<>>, <<upper_b, long5>>} \cup {<<v>> : v \in Single \cup Odd} \cup
        {<<long5, w>> : w \in {upper_b, long5} \cup Odd}
=============================================================================
