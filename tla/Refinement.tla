----------------------------- MODULE Refinement -----------------------------
(***************************************************************************)
(* Server implements NickRegistry, and each of its channels a Room.        *)
(* `observed' is any key of the channel table: being a constant, it stands *)
(* for every channel at once.                                              *)
(***************************************************************************)
EXTENDS Server

CONSTANTS observed, NoRoom

ASSUME RefinementAssumption ==
    /\ observed \in ChannelKeys
    /\ \A people, operators, guests \in SUBSET Fds, closed \in BOOLEAN :
        NoRoom # [people |-> people, operators |-> operators,
                  guests |-> guests, closed |-> closed]

\* The nicknames findClientByNick answers for, each with the client it returns.
HeldNames ==
    {[who |-> c, name |-> Lower[nick[c]]] : c \in {d \in clients \ dying : nick[d] # NoNick}}

\* A channel without its name, topic, key and limit.
RoomView(ch) ==
    [people |-> ch.members, operators |-> ch.operators,
     guests |-> ch.invited, closed |-> ch.inviteOnly]

ObservedRoom ==
    IF observed \in DOMAIN channels THEN RoomView(channels[observed]) ELSE NoRoom

Registry == INSTANCE NickRegistry
    WITH People <- Fds, FoldedNames <- {Lower[n] : n \in Nicks}, held <- HeldNames

TheRoom == INSTANCE Room WITH People <- Fds, room <- ObservedRoom

\* Names pass from holder to holder only through a release: the lookup over
\* live clients makes a registry with one holder per folded name, and a mark
\* (disconnectClient) releases the name in the step in which it is set.
ImplementsNickRegistry == Registry!Spec

\* A channel is a room: whatever commands run between mark and reap, whatever
\* overflows, every step on it opens, enters, leaves, invites, regulates or
\* loses people, and it ends exactly when the last one goes.
ImplementsRoom == TheRoom!Spec
=============================================================================
