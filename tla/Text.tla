-------------------------------- MODULE Text --------------------------------
(***************************************************************************)
(* The pure functions a line goes through: src/src/Message.cpp,            *)
(* src/src/Utils.cpp, src/src/Replies.cpp and the splitting of the 353     *)
(* reply.  A character is its code, a string is a sequence of codes in     *)
(* 1..255 (framing has removed NUL, CR and LF).  A code above 127 stands   *)
(* for a char that is negative where char is signed: both orders put it    *)
(* outside every range tested here.                                        *)
(***************************************************************************)
EXTENDS Integers, Sequences, SequencesExt, FiniteSetsExt

CONSTANTS
    INT_MAX,             \* the largest int
    MAX_NICKNAME_LEN,
    MAX_CHANNEL_LEN,
    MAX_PAYLOAD_LEN,     \* bytes of a line that sendToClient sends
    HeadLen              \* bytes before the names: ":server 353 nick = #chan :"

\* Every digit is an int, and a 353 line has room for one operator.
ASSUME TextAssumption ==
    /\ INT_MAX \in Nat /\ INT_MAX >= 9
    /\ {MAX_NICKNAME_LEN, MAX_CHANNEL_LEN, MAX_PAYLOAD_LEN, HeadLen} \subseteq Nat
    /\ HeadLen + 1 + MAX_NICKNAME_LEN <= MAX_PAYLOAD_LEN

Char == 1 .. 255

SPACE == 32
COMMA == 44
COLON == 58
HASH  == 35
DASH  == 45

Letter  == (65 .. 90) \cup (97 .. 122)
Digit   == 48 .. 57
Special == (91 .. 96) \cup (123 .. 125)   \* isNickSpecial

\* string::find(c, i): Len(s) + 1 stands for npos, which every caller here
\* replaces by size().
Find(s, c, i) == Min({j \in i .. Len(s) : s[j] = c} \cup {Len(s) + 1})

SkipSpaces(s, i) == Min({j \in i .. Len(s) : s[j] # SPACE} \cup {Len(s) + 1})

From(s, i) == SubSeq(s, i, Len(s))

-----------------------------------------------------------------------------
(* parseMessage.  The prefix is skipped and read by nobody; one that never *)
(* ends leaves an empty command and no parameters.                         *)

\* Mutant: any colon after the command opens the trailing parameter.
ParamsAtAnyColon(line, start) ==
    LET P[i \in 1 .. Len(line) + 1] ==
            LET end == Min({Find(line, SPACE, i), Find(line, COLON, i)})
            IN  IF i > Len(line) THEN <<>>
                ELSE IF line[i] = COLON THEN <<From(line, i + 1)>>
                ELSE <<SubSeq(line, i, end - 1)>> \o P[SkipSpaces(line, end)]
    IN  P[SkipSpaces(line, start)]

\* The parameters from position start on.
ParamsFrom(line, start) ==
    LET P[i \in 1 .. Len(line) + 1] ==
            LET end == Find(line, SPACE, i)
            IN  IF i > Len(line) THEN <<>>
                ELSE IF line[i] = COLON THEN <<From(line, i + 1)>>
                ELSE <<SubSeq(line, i, end - 1)>> \o P[SkipSpaces(line, end)]
    IN  P[SkipSpaces(line, start)]

ParseMessage(line) ==
    LET prefixed == line # <<>> /\ line[1] = COLON
        begin    == SkipSpaces(line, IF prefixed THEN Find(line, SPACE, 1) ELSE 1)
        end      == Find(line, SPACE, begin)
    IN  [command |-> SubSeq(line, begin, end - 1), params |-> ParamsFrom(line, end)]

-----------------------------------------------------------------------------
(* utils.                                                                  *)

\* Mutant: empty fields are dropped.
SplitNonEmpty(s, delim) ==
    LET F[i \in 1 .. Len(s) + 1] ==
            LET pos   == Find(s, delim, i)
                field == IF pos = i THEN <<>> ELSE <<SubSeq(s, i, pos - 1)>>
            IN  IF pos > Len(s) THEN field ELSE field \o F[pos + 1]
    IN  F[1]

Split(s, delim) ==
    LET F[i \in 1 .. Len(s) + 1] ==
            LET pos   == Find(s, delim, i)
                field == <<SubSeq(s, i, pos - 1)>>
            IN  IF pos > Len(s) THEN field ELSE field \o F[pos + 1]
    IN  F[1]

\* Mutant: letters only, as tolower has it.
LowerAscii(c) == IF c \in 65 .. 90 THEN c + 32 ELSE c

ToIrcLowerChar(c) == IF c \in 65 .. 93 THEN c + 32 ELSE IF c = 126 THEN 94 ELSE c

ToIrcLower(s) == [i \in DOMAIN s |-> ToIrcLowerChar(s[i])]

EqualsIgnoreCase(a, b) ==
    Len(a) = Len(b) /\ \A i \in DOMAIN a : ToIrcLowerChar(a[i]) = ToIrcLowerChar(b[i])

\* The outcome of parseInt: out is written only when it succeeds, and top is the
\* largest value the accumulator took.
NotANumber(top) == [ok |-> FALSE, out |-> 0, top |-> top]

\* Mutant: the overflow test is made on the value alone.
RoomForLoosely(value, digit) == value <= INT_MAX \div 10

\* The test before the multiplication.
RoomFor(value, digit) == value <= (INT_MAX - digit) \div 10

\* One character of the loop.
TakeDigit(v, c) ==
    IF ~v.ok \/ c \notin Digit \/ ~RoomFor(v.out, c - 48) THEN NotANumber(v.top)
    ELSE LET next == v.out * 10 + (c - 48) IN [ok |-> TRUE, out |-> next, top |-> next]

\* The loop.
Accumulate(digits) ==
    LET After[n \in 0 .. Len(digits)] ==
            IF n = 0 THEN [ok |-> TRUE, out |-> 0, top |-> 0]
            ELSE TakeDigit(After[n - 1], digits[n])
    IN  After[Len(digits)]

ParseInt(s) ==
    LET signed == s # <<>> /\ s[1] \in {43, DASH}
        digits == IF signed THEN Tail(s) ELSE s
        read   == Accumulate(digits)
    IN  IF digits = <<>> THEN NotANumber(0)
        ELSE IF read.ok /\ s[1] = DASH THEN [read EXCEPT !.out = -@]
        ELSE read

IsValidNickname(s) ==
    /\ Len(s) \in 1 .. MAX_NICKNAME_LEN
    /\ s[1] \in Letter \cup Special
    /\ \A i \in 2 .. Len(s) : s[i] \in Letter \cup Digit \cup Special \cup {DASH}

\* Mutant: a name may hold a comma.
IsValidChannelNameWithComma(s) ==
    /\ Len(s) \in 2 .. MAX_CHANNEL_LEN
    /\ s[1] = HASH
    /\ \A i \in 2 .. Len(s) : s[i] \notin {SPACE, COLON, 0, 7, 10, 13}

IsValidChannelName(s) ==
    /\ Len(s) \in 2 .. MAX_CHANNEL_LEN
    /\ s[1] = HASH
    /\ \A i \in 2 .. Len(s) : s[i] \notin {SPACE, COMMA, COLON, 0, 7, 10, 13}

-----------------------------------------------------------------------------
(* The lines the server writes.                                            *)

\* utils::toString.
IntToString(n) ==
    LET Digits[m \in 0 .. INT_MAX] ==
            (IF m < 10 THEN <<>> ELSE Digits[m \div 10]) \o <<48 + (m % 10)>>
    IN  IF n < 0 THEN <<DASH>> \o Digits[-n] ELSE Digits[n]

FormatCode(code) ==
    LET digits == IntToString(code)
    IN  [i \in 1 .. 3 - Len(digits) |-> 48] \o digits

\* irc::fromClient and irc::numeric add args only if there are any.
WithArgs(line, args) == IF args = <<>> THEN line ELSE line \o <<SPACE>> \o args

FromClient(prefix, command, args) ==
    WithArgs(<<COLON>> \o prefix \o <<SPACE>> \o command, args)

Numeric(server, code, target, args) ==
    WithArgs(<<COLON>> \o server \o <<SPACE>> \o FormatCode(code) \o <<SPACE>> \o target, args)

\* Mutant: the marker of the trailing parameter is left to the text.
BareArgs(target, content) == target \o <<SPACE>> \o content

\* The arguments of a relayed PRIVMSG, PART, KICK or TOPIC and of a 332.
TrailingArgs(target, content) == target \o <<SPACE, COLON>> \o content

-----------------------------------------------------------------------------
(* sendNamesReply.  The members are visited in the order of their          *)
(* addresses, so the entries, "@nick" or "nick", come in any order.        *)

\* Mutant: the joining space is not counted.
FullWithoutSpace(names, entry) ==
    names # <<>> /\ HeadLen + Len(names) + Len(entry) > MAX_PAYLOAD_LEN

\* The test before an entry is appended.
Full(names, entry) ==
    names # <<>> /\ HeadLen + Len(names) + 1 + Len(entry) > MAX_PAYLOAD_LEN

NextEntry(s, entry) ==
    IF Full(s.names, entry) THEN [sent |-> Append(s.sent, s.names), names |-> entry]
    ELSE [s EXCEPT !.names = (IF @ = <<>> THEN <<>> ELSE @ \o <<SPACE>>) \o entry]

\* The loop.
Visit(entries) ==
    LET After[n \in 0 .. Len(entries)] ==
            IF n = 0 THEN [sent |-> <<>>, names |-> <<>>]
            ELSE NextEntry(After[n - 1], entries[n])
    IN  After[Len(entries)]

\* The names of each line sent.
NamesLines(entries) ==
    LET end == Visit(entries)
    IN  IF end.names = <<>> THEN end.sent ELSE Append(end.sent, end.names)
=============================================================================
