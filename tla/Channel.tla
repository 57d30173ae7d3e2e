------------------------------ MODULE Channel ------------------------------
(***************************************************************************)
(* One channel of the server (src/src/Channel.cpp): a record of sets and   *)
(* modes that the handlers read and update.  The class keeps three sets of *)
(* non-owning Client pointers; a pointer is the descriptor of the client   *)
(* it points to, because one Client object exists per descriptor.          *)
(*                                                                         *)
(* The class stores what it is told and decides nothing, so everything     *)
(* here is a constant-level operator on records.  _hasKey/_key are one     *)
(* field with the value NoKey for "no key", _hasUserLimit/_userLimit one   *)
(* field with the value NoLimit: the class always writes both together.    *)
(***************************************************************************)
EXTENDS Naturals, FiniteSets

CONSTANTS
    Fds,        \* descriptors a client can have, in poll order
    Names,      \* channel names as clients spell them
    Topics, EmptyTopic,
    Keys, NoKey, EmptyKey,  \* EmptyKey is the empty string, a legal parameter
    Limits      \* the positive integers a client offers to MODE +l

NoLimit == 0

ASSUME ChannelAssumption ==
    /\ Fds \subseteq Nat \ {0} /\ IsFiniteSet(Fds)
    /\ EmptyTopic \in Topics
    /\ NoKey \notin Keys
    /\ EmptyKey \in Keys
    /\ Limits \subseteq Nat \ {NoLimit}

Channels ==
    [name: Names, topic: Topics,
     members: SUBSET Fds, operators: SUBSET Fds, invited: SUBSET Fds,
     inviteOnly: BOOLEAN, topicRestricted: BOOLEAN,
     key: Keys \cup {NoKey}, limit: Limits \cup {NoLimit}]

NewChannel(n) ==
    [name |-> n, topic |-> EmptyTopic,
     members |-> {}, operators |-> {}, invited |-> {},
     inviteOnly |-> FALSE, topicRestricted |-> FALSE,
     key |-> NoKey, limit |-> NoLimit]

AddMember(ch, c)      == [ch EXCEPT !.members = @ \cup {c}]
RemoveMember(ch, c)   == [ch EXCEPT !.members = @ \ {c}]
IsEmpty(ch)           == ch.members = {}

AddOperator(ch, c)    == [ch EXCEPT !.operators = @ \cup {c}]
RemoveOperator(ch, c) == [ch EXCEPT !.operators = @ \ {c}]

AddInvite(ch, c)      == [ch EXCEPT !.invited = @ \cup {c}]
\* Mutant: the invitation is not spent.
KeepInvite(ch, c)     == ch
RemoveInvite(ch, c)   == [ch EXCEPT !.invited = @ \ {c}]

SetTopic(ch, t)           == [ch EXCEPT !.topic = t]
SetInviteOnly(ch, v)      == [ch EXCEPT !.inviteOnly = v]
SetTopicRestricted(ch, v) == [ch EXCEPT !.topicRestricted = v]
SetKey(ch, k)             == [ch EXCEPT !.key = k]
ClearKey(ch)              == [ch EXCEPT !.key = NoKey]
SetUserLimit(ch, l)       == [ch EXCEPT !.limit = l]
ClearUserLimit(ch)        == [ch EXCEPT !.limit = NoLimit]

\* The gates an existing channel puts in front of a JOIN, in the order the
\* code asks them: +i, then +k, then +l.  `key' is EmptyKey when none is typed.
GatesWithOneSeatTooMany(ch, c, key) ==   \* mutant: > for >=
    /\ ch.inviteOnly => c \in ch.invited
    /\ ch.key # NoKey => key = ch.key
    /\ ch.limit # NoLimit => Cardinality(ch.members) <= ch.limit

PassesModeGates(ch, c, key) ==
    /\ ch.inviteOnly => c \in ch.invited
    /\ ch.key # NoKey => key = ch.key
    /\ ch.limit # NoLimit => Cardinality(ch.members) < ch.limit
=============================================================================
