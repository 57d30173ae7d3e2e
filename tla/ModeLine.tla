------------------------------ MODULE ModeLine ------------------------------
(***************************************************************************)
(* applyModeChanges, what it tells the channel, and the answer to a query. *)
(* A client reads either line by the server's own rules, letter by letter  *)
(* and word by word, and should end with the modes the server has.  Rank   *)
(* and delivery are in Server.                                             *)
(*                                                                         *)
(* A parameter is a text.  Both lines put texts behind spaces, unmarked,   *)
(* and pass the cut of sendToClient, so what a client reads is what was    *)
(* written only if each text is one word and the line is short enough.     *)
(***************************************************************************)
EXTENDS Integers, Sequences, FiniteSets, Functions

CONSTANTS
    Member,       \* the other members by the spellings of their nicknames: one operator commands
    Number,       \* the numbers utils::parseInt accepts
    Printed(_),   \* utils::toString
    Empty,        \* the empty text
    Plain,        \* texts that are one word: not empty, no space, no colon in front
    Size(_),      \* bytes of a text
    Start(_, _),  \* the first bytes of a text
    Parsed(_),    \* the words parseMessage finds in texts behind a space each
    Params,       \* the parameters of one command: sequences of texts
    Rooms,        \* what prefix, command and channel leave of the 510 bytes of a line
    MaxFlags,     \* bound: letters of one command
    NoKey, NoLimit

ASSUME ModeLineAssumption ==
    /\ MaxFlags \in Nat /\ Rooms \subseteq Nat
    /\ Params \subseteq Seq(UNION {Range(p) : p \in Params})
    /\ Empty \notin Plain
    /\ \A w \in DOMAIN Number :
          /\ Number[w] \in Int
          /\ Printed(Number[w]) \in DOMAIN Number
          /\ Number[Printed(Number[w])] = Number[w]
    \* A member answers to the nickname it is listed under.
    /\ \A nick \in Range(Member) : nick \in DOMAIN Member /\ Member[nick] = nick

VARIABLES
    modes,      \* the modes of the channel and its operators
    view,       \* what a client that knew them before the last command reads from its line
    whole,      \* whether every text of that line was one word, and it was not cut; a
                \* history for the properties
    busy,       \* inside a command
    adding,     \* the sign in force
    rest,       \* parameters not consumed
    done,       \* ModeAccumulator
    count       \* letters of this command

vars == <<modes, view, whole, busy, adding, rest, done, count>>

NoModes == [i |-> FALSE, t |-> FALSE, key |-> NoKey, limit |-> NoLimit, ops |-> {}]
Nothing == [flags |-> <<>>, params |-> <<>>, sign |-> "none"]

Init ==
    /\ modes = NoModes /\ view = NoModes /\ whole = TRUE
    /\ busy = FALSE /\ adding = TRUE /\ rest = <<>> /\ done = Nothing /\ count = 0

-----------------------------------------------------------------------------
(* One flag, for the server and for the reader of a line.                  *)

NeedsParam(flag, add) == flag = "o" \/ (add /\ flag \in {"k", "l"})

\* Whether flag with parameter param changes anything: 441, an absurd limit and an
\* unknown letter do not.  Any text is a key.
Applies(flag, add, param) ==
    \/ flag \in {"i", "t", "k"}
    \/ flag = "l" /\ (add => param \in DOMAIN Number /\ Number[param] > 0)
    \/ flag = "o" /\ param \in DOMAIN Member

\* The modes m after a flag that applies.
Applied(m, flag, add, param) ==
    CASE flag = "i" -> [m EXCEPT !.i = add]
      [] flag = "t" -> [m EXCEPT !.t = add]
      [] flag = "k" -> [m EXCEPT !.key = IF add THEN param ELSE NoKey]
      [] flag = "l" -> [m EXCEPT !.limit = IF add THEN Number[param] ELSE NoLimit]
      [] flag = "o" -> [m EXCEPT !.ops = IF add THEN @ \cup {Member[param]}
                                                ELSE @ \ {Member[param]}]

\* The parameter as it is announced: operators under their own spelling.
Announced(flag, param) == IF flag = "o" THEN Member[param] ELSE param

\* Mutant: the sign is written once.
AddUnderFirstSign(d, add, flag, param) ==
    [flags  |-> IF d.sign = "none" THEN <<IF add THEN "+" ELSE "-", flag>> ELSE Append(d.flags, flag),
     params |-> IF param = Empty THEN d.params ELSE Append(d.params, param),
     sign   |-> "some"]

\* ModeAccumulator::add: a sign when it changes, the letter, and a text that is not
\* empty.
Add(d, add, flag, param) ==
    LET wanted == IF add THEN "+" ELSE "-"
    IN  [flags  |-> d.flags \o (IF d.sign = wanted THEN <<>> ELSE <<wanted>>) \o <<flag>>,
         params |-> IF param = Empty THEN d.params ELSE Append(d.params, param),
         sign   |-> wanted]

-----------------------------------------------------------------------------
(* A line of flags and parameters on its way to a client.                  *)

\* The bytes up to each parameter, as a function of its position.
Bytes(line) ==
    LET B[n \in 0 .. Len(line.params)] ==
            IF n = 0 THEN Len(line.flags) ELSE B[n - 1] + 1 + Size(line.params[n])
    IN  B

Fits(line, room) == Bytes(line)[Len(line.params)] <= room

\* sendToClient: what is beyond the room is cut off, be it in the middle of a text.
Cut(line, room) ==
    IF Fits(line, room) THEN line
    ELSE LET left(n) == room - Bytes(line)[n - 1]
         IN  [flags  |-> SubSeq(line.flags, 1, IF left(1) < 0 THEN room ELSE Len(line.flags)),
              params |-> [n \in {k \in DOMAIN line.params : left(k) > 0} |->
                             Start(line.params[n], left(n) - 1)]]

\* The words a client finds behind the flags: Parsed has the rest of the line from the
\* first text that is no single word.
WordsOf(texts) ==
    IF Range(texts) \subseteq Plain THEN texts
    ELSE LET odd == CHOOSE n \in DOMAIN texts :
                        texts[n] \notin Plain /\ \A k \in 1 .. n - 1 : texts[k] \in Plain
         IN  SubSeq(texts, 1, odd - 1) \o Parsed(SubSeq(texts, odd, Len(texts)))

\* A client takes one letter, by what ARCHITECTURE.md says of MODE: every nickname
\* in a line is a member's own.
ReadFlag(s, flag) ==
    LET needs == flag = "o" \/ (s.add /\ flag \in {"k", "l"})
        param == IF needs THEN Head(s.words) ELSE Empty
        after == IF needs THEN Tail(s.words) ELSE s.words
    IN  IF flag \in {"+", "-"} THEN [s EXCEPT !.add = flag = "+"]
        ELSE IF needs /\ s.words = <<>> THEN s
        ELSE IF flag = "o" /\ param \notin Range(Member) THEN [s EXCEPT !.words = after]
        ELSE IF ~Applies(flag, s.add, param) THEN [s EXCEPT !.words = after]
        ELSE [s EXCEPT !.words = after, !.modes = Applied(s.modes, flag, s.add, param)]

\* What the reader s has made of the flags at the end.
Read(s, flags) ==
    LET After[n \in 0 .. Len(flags)] ==
            IF n = 0 THEN s ELSE ReadFlag(After[n - 1], flags[n])
    IN  After[Len(flags)]

Replay(m, flags, words) ==
    Read([modes |-> m, add |-> TRUE, words |-> words], flags).modes

\* What a client that believes in the modes m believes after a line.
Heard(m, line, room) ==
    LET got == Cut(line, room) IN Replay(m, got.flags, WordsOf(got.params))

-----------------------------------------------------------------------------
(* The command.                                                            *)

Begin ==
    /\ ~busy
    /\ busy' = TRUE /\ adding' = TRUE /\ done' = Nothing /\ count' = 0
    /\ rest' \in Params
    /\ view' = modes /\ whole' = TRUE
    /\ UNCHANGED modes

Sign(add) ==
    /\ busy
    /\ adding # add
    /\ adding' = add
    /\ UNCHANGED <<modes, view, whole, busy, rest, done, count>>

Flag(flag) ==
    /\ busy /\ count < MaxFlags
    /\ count' = count + 1
    /\ IF NeedsParam(flag, adding) /\ rest = <<>>
       THEN UNCHANGED <<modes, whole, rest, done>>
       ELSE LET needs == NeedsParam(flag, adding)
                param == IF needs THEN Head(rest) ELSE Empty
            IN  /\ rest' = IF needs THEN Tail(rest) ELSE rest
                /\ IF Applies(flag, adding, param)
                   THEN /\ modes' = Applied(modes, flag, adding, param)
                        /\ done' = Add(done, adding, flag, Announced(flag, param))
                        /\ whole' = (whole /\ (needs => Announced(flag, param) \in Plain))
                   ELSE UNCHANGED <<modes, whole, done>>
    /\ UNCHANGED <<view, busy, adding>>

\* The announcement, if anything was applied.
End(room) ==
    /\ busy
    /\ busy' = FALSE
    /\ view' = IF done.flags = <<>> THEN view ELSE Heard(view, done, room)
    /\ whole' = (whole /\ Fits(done, room))
    /\ adding' = TRUE /\ rest' = <<>> /\ done' = Nothing /\ count' = 0
    /\ UNCHANGED modes

Next ==
    \/ Begin
    \/ \E add \in BOOLEAN : Sign(add)
    \/ \E flag \in {"i", "t", "k", "l", "o", "z"} : Flag(flag)
    \/ \E room \in Rooms : End(room)

Spec == Init /\ [][Next]_vars

-----------------------------------------------------------------------------
(* The answer to a query (324): Channel::modeString(true).                 *)

LimitTexts(m) == IF m.limit = NoLimit THEN <<>> ELSE <<Printed(m.limit)>>

KeyTexts(m) == IF m.key = NoKey THEN <<>> ELSE <<m.key>>

\* Mutant: the limit before the key.
ModeTextsSwapped(m) == LimitTexts(m) \o KeyTexts(m)

\* Its parameters.
ModeTexts(m) == KeyTexts(m) \o LimitTexts(m)

\* Its flags.
ModeFlagsOf(m) ==
    <<"+">> \o (IF m.i THEN <<"i">> ELSE <<>>) \o (IF m.t THEN <<"t">> ELSE <<>>)
            \o (IF m.key = NoKey THEN <<>> ELSE <<"k">>)
            \o (IF m.limit = NoLimit THEN <<>> ELSE <<"l">>)

ModeString(m) == [flags |-> ModeFlagsOf(m), params |-> ModeTexts(m)]

-----------------------------------------------------------------------------

\* A client that knew the modes of the channel knows them after the next command,
\* whatever of it was refused, ignored or unknown, unless a key that was announced
\* is no single word or the line was cut.  (The comment at CommandsChannel.cpp:732
\* has no such exception; the code does.)
AnnouncementsReplay == ~busy /\ whole => view = modes

\* The answer to MODE #channel gives a member the modes of the channel, unless the
\* key is no single word or the line is cut.
QueryReplays ==
    ~busy => \A room \in Rooms :
        Range(ModeTexts(modes)) \subseteq Plain /\ Fits(ModeString(modes), room) =>
            Heard(NoModes, ModeString(modes), room) = [modes EXCEPT !.ops = {}]
=============================================================================
