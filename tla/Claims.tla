------------------------------- MODULE Claims -------------------------------
(***************************************************************************)
(* What the documents and comments of the repository say of the server and *)
(* the code does not do.  Each is the property of one run that TLC refutes.*)
(***************************************************************************)
EXTENDS Server

\* src/Server.cpp:341 "A client already marked for disconnection has
\* effectively released its nickname".  findMemberByNick does not skip marked
\* members, so between mark and reap a nickname can name two members.
MemberNickUnambiguous ==
    \A k \in DOMAIN channels, n \in Nicks :
        Cardinality(MembersNamed(channels[k], n)) <= 1

\* src/ServerChannels.cpp:158 "A channel whose last member just left stops
\* existing [...] rejoining it a fresh channel whose creator is the operator
\* again."  While everyone in the channel is marked but not yet reaped, a JOIN
\* enters the old channel, as an ordinary member.
SuccessorIsOperator ==
    [][\A k \in Surviving : \A c \in channels'[k].members \ channels[k].members :
        channels[k].members \subseteq dying => c \in channels'[k].operators]_vars
=============================================================================
