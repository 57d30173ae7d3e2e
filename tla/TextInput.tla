------------------------------ MODULE TextInput ------------------------------
(***************************************************************************)
(* Every string up to a length, one character per step, and what the       *)
(* functions of Text must make of it: a reference definition each, written *)
(* from the grammar and not from the scan.                                 *)
(***************************************************************************)
EXTENDS Text

CONSTANT Inputs   \* bound: alphabets, each with the length of its longest string

ASSUME InputsAssumption ==
    \A a \in DOMAIN Inputs : a \subseteq Char /\ Inputs[a] \in Nat

VARIABLES text, alphabet

vars == <<text, alphabet>>

Init == text = <<>> /\ alphabet \in DOMAIN Inputs

Type ==
    /\ Len(text) < Inputs[alphabet]
    /\ \E c \in alphabet : text' = Append(text, c)
    /\ UNCHANGED alphabet

\* A full string gives way to the empty one.
Clear ==
    /\ Len(text) = Inputs[alphabet]
    /\ text' = <<>>
    /\ UNCHANGED alphabet

Next == Type \/ Clear

Spec == Init /\ [][Next]_vars

-----------------------------------------------------------------------------
(* References.                                                             *)

\* The words of a line: its longest stretches without a space, as positions.
Stretches(line) ==
    {w \in (DOMAIN line) \X (DOMAIN line) :
        /\ w[1] <= w[2]
        /\ \A k \in w[1] .. w[2] : line[k] # SPACE
        /\ w[1] = 1 \/ line[w[1] - 1] = SPACE
        /\ w[2] = Len(line) \/ line[w[2] + 1] = SPACE}

\* Every word, in the order of the line.
InOrder(words, S) ==
    /\ \A w \in S : \E i \in DOMAIN words : words[i] = w
    /\ \A i, j \in DOMAIN words : i < j => words[i][1] < words[j][1]

Words(line) ==
    LET S == Stretches(line)
    IN  CHOOSE words \in [1 .. Cardinality(S) -> S] : InOrder(words, S)

\* The words after the command are parameters, up to the first that starts with
\* a colon, which runs to the end of the line.
Parameters(line, words) ==
    LET Opens(i) == line[words[i][1]] = COLON
        last     == Min({i \in DOMAIN words : Opens(i)} \cup {Len(words)})
    IN  [i \in 1 .. last |-> IF Opens(i) THEN From(line, words[i][1] + 1)
                             ELSE SubSeq(line, words[i][1], words[i][2])]

\* RFC 1459: a line that starts with a colon starts with a prefix; the next word
\* is the command.
ByGrammar(line) ==
    LET all   == Words(line)
        words == IF line # <<>> /\ line[1] = COLON THEN Tail(all) ELSE all
    IN  IF words = <<>> THEN [command |-> <<>>, params |-> <<>>]
        ELSE [command |-> SubSeq(line, Head(words)[1], Head(words)[2]),
              params  |-> Parameters(line, Tail(words))]

\* The positional value of a string of digits: the units, the tens, the hundreds.
Value(s) ==
    LET Power[n \in 0 .. Len(s)] == IF n = 0 THEN 1 ELSE 10 * Power[n - 1]
        Low[n \in 0 .. Len(s)] ==
            IF n = 0 THEN 0 ELSE (s[Len(s) - (n - 1)] - 48) * Power[n - 1] + Low[n - 1]
    IN  Low[Len(s)]

Magnitude(s) == IF s # <<>> /\ s[1] \in {43, DASH} THEN Tail(s) ELSE s

\* RFC 1459: {}|^ are the lower case of []\~.
CasePairs == {<<c, c + 32>> : c \in 65 .. 90} \cup {<<91, 123>>, <<92, 124>>, <<93, 125>>, <<126, 94>>}

SameByRfc(c, d) == c = d \/ <<c, d>> \in CasePairs \/ <<d, c>> \in CasePairs

\* The fields with a comma between each two.
Joined(fields) ==
    LET J[i \in 1 .. Len(fields)] ==
            IF i < Len(fields) THEN (fields[i] \o <<COMMA>>) \o J[i + 1] ELSE fields[i]
    IN  J[1]

\* The names in the 353 lines, line after line.
NamesIn(lines) ==
    LET L[n \in 0 .. Len(lines)] ==
            IF n = 0 THEN <<>> ELSE L[n - 1] \o Split(lines[n], SPACE)
    IN  L[Len(lines)]

-----------------------------------------------------------------------------
(* Properties.                                                             *)

\* Whatever spaces and colons a line has, its command and parameters are the ones
\* of the grammar; only the last parameter can be empty, hold a space or start
\* with a colon.
ParsesByGrammar == ParseMessage(text) = ByGrammar(text)

\* What is said reaches its readers as it was said: the line that relays a text,
\* and the numeric that shows it later, parse to the target and that text,
\* whatever colons and spaces it has.  What sendToClient does to a long line is in
\* OutputQueue.
RelayedAsSaid ==
    LET who  == <<120>>
        room == <<HASH, 120>>
        args == TrailingArgs(room, text)
    IN  /\ ParseMessage(FromClient(who, <<84>>, args)) =
                [command |-> <<84>>, params |-> <<room, text>>]
        /\ ParseMessage(Numeric(who, 7, who, args)) =
                [command |-> <<48, 48, 55>>, params |-> <<who, room, text>>]

\* What the server prints of n is read as n, in a mode line and, with its three
\* digits, as the code of a numeric.
ReadsBack(n) ==
    /\ ParseInt(IntToString(n)).ok /\ ParseInt(IntToString(n)).out = n
    /\ n \in 1 .. 999 => /\ Len(FormatCode(n)) = 3
                         /\ ParseInt(FormatCode(n)).out = n

\* A limit is taken exactly when it is a sign and digits of an int; it is then
\* that int, the accumulator never leaves the range of int on the way, and the
\* number is printed as it was read.
NumbersAreExact ==
    LET digits == Magnitude(text)
        n      == ParseInt(text)
    IN  /\ n.ok <=> /\ digits # <<>> /\ ToSet(digits) \subseteq Digit
                    /\ Value(digits) <= INT_MAX
        /\ n.ok => n.out = (IF text[1] = DASH THEN -Value(digits) ELSE Value(digits))
        /\ n.top <= INT_MAX
        /\ n.ok => ReadsBack(n.out)

\* Fields stay aligned: there is one more of them than commas, none holds a
\* comma, and they give the list back.  Key lists depend on it.
SplitInverts ==
    LET fields == Split(text, COMMA)
    IN  /\ Len(fields) = 1 + Cardinality({i \in DOMAIN text : text[i] = COMMA})
        /\ \A i \in DOMAIN fields : COMMA \notin ToSet(fields[i])
        /\ Joined(fields) = text

\* A name that can be entered can be typed: a channel is one parameter and one
\* field of a JOIN; a nickname can stand in a prefix and in a 353 without being
\* read as anything else, and is never taken for a channel; the folded form of
\* either, which is compared and stored, is again valid.
NamesSurviveTheWire ==
    /\ IsValidChannelName(text) =>
        /\ ParseMessage(<<74, SPACE>> \o text).params = <<text>>
        /\ Split(text, COMMA) = <<text>>
        /\ IsValidChannelName(ToIrcLower(text))
    /\ IsValidNickname(text) =>
        /\ text[1] \notin Digit \cup {HASH, COLON, DASH}
        /\ ToSet(text) \cap {SPACE, COMMA, COLON, 33, 64, 126} = {}
        /\ IsValidNickname(ToIrcLower(text))

\* Folding identifies exactly the pairs of RFC 1459, in equalsIgnoreCase and in
\* the keys of the channel table, at every code and nowhere else.
FoldsByRfc ==
    \A c \in alphabet :
        LET other == IF text = <<>> THEN <<>> ELSE Front(text) \o <<c>>
            same  == text = <<>> \/ SameByRfc(Last(text), c)
        IN  /\ EqualsIgnoreCase(text, other) <=> same
            /\ (ToIrcLower(text) = ToIrcLower(other)) <=> same

\* The members of a channel as NAMES visits them: valid nicknames, some with '@'.
IsEntry(s) == IsValidNickname(s) \/ (s # <<>> /\ Head(s) = 64 /\ IsValidNickname(Tail(s)))

\* Every member is named in the 353 lines, once and with its own rank, whatever
\* the order of the set; no line is cut by sendToClient, and none is sent while
\* the next entry still fits.
NamesReplyIsWhole ==
    LET entries == Split(text, COMMA)
        lines   == NamesLines(entries)
    IN  (\A i \in DOMAIN entries : IsEntry(entries[i])) =>
        /\ NamesIn(lines) = entries
        /\ \A i \in DOMAIN lines : HeadLen + Len(lines[i]) <= MAX_PAYLOAD_LEN
        /\ \A i \in 2 .. Len(lines) :
              HeadLen + Len(lines[i - 1]) + 1 + Len(Head(Split(lines[i], SPACE)))
                  > MAX_PAYLOAD_LEN
=============================================================================
