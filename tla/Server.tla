------------------------------- MODULE Server -------------------------------
(***************************************************************************)
(* The server of src/src/Server.cpp with the handlers that change state:   *)
(* the client registry, registration, channels, and the deferred           *)
(* disconnect, at the granularity of one command per step.                 *)
(*                                                                         *)
(* The process is single-threaded.  An iteration of Server::run starts at  *)
(* the listening socket (turn = 0, at most one Accept), then visits the    *)
(* polled descriptors in ascending order (Turn), executes the lines the    *)
(* client of that descriptor sent (one action per command), and ends in    *)
(* Reap, which deletes the clients marked on the way.  What makes this     *)
(* hard is the time between mark and Reap: a marked client is still a      *)
(* member of its channels while other clients' commands run.               *)
(*                                                                         *)
(* Any message may overflow its recipient's output queue, which marks that *)
(* recipient and sends its QUIT to its peers, whose queues may overflow in *)
(* turn.  Overflows (module Delivery) gives the clients one send can mark; *)
(* module Relay has the same in steps.                                     *)
(*                                                                         *)
(* JOIN and PART lists are runs of single-channel commands: the loop over  *)
(* a list tests isDisconnecting before each entry exactly as the loop over *)
(* lines does.  Every refusal and every query is one numeric to the sender *)
(* and nothing else: the action Reply.                                     *)
(***************************************************************************)
EXTENDS Channel, Delivery

CONSTANTS
    Nicks, NoNick,   \* valid nicknames, and the nickname of a client with none
    Lower,           \* utils::toIrcLower on nicknames and channel names
    NoChannel,       \* not the key of a channel
    Slow,            \* descriptors whose output queue may overflow
    ModeFlags        \* mode letters clients use

VARIABLES
    clients,         \* the keys of Server::_clients
    hasPass, hasUser, welcomed,   \* flags of Client, as sets of clients
    nick,            \* Client::_nickname; _hasNick is nick # NoNick
    dying,           \* clients with Client::_disconnecting
    channels,        \* Server::_channels: folded name -> channel
    turn,            \* the descriptor being handled, 0 at the listening socket
    fresh,           \* the client accepted in this iteration, not polled yet
    editing,         \* the channel whose MODE string is being applied
    applied          \* that string has changed something so far

registration == <<hasPass, hasUser, welcomed, nick>>
loop         == <<clients, turn, fresh>>
modeRun      == <<editing, applied>>
vars == <<registration, loop, modeRun, dying, channels>>

ChannelKeys == {Lower[n] : n \in Names}

ASSUME ServerAssumption ==
    /\ NoNick \notin Nicks
    /\ NoChannel \notin ChannelKeys
    /\ Slow \subseteq Fds
    /\ ModeFlags \subseteq {"i", "t", "k", "l", "o"}

-----------------------------------------------------------------------------
(* Lookups.                                                                *)

Registered == {c \in clients : c \in hasPass /\ c \in hasUser /\ nick[c] # NoNick}

\* Mutant: nicknames compared byte by byte.
HoldersOfSpelling(n) == {c \in clients \ dying : nick[c] = n}

\* Clients that findClientByNick(n) can return: a marked one never is.
HoldersOf(n) == {c \in clients \ dying : nick[c] # NoNick /\ Lower[nick[c]] = Lower[n]}

\* Members that findMemberByNick(ch, n) can return: the set is ordered by
\* address, so any of them; a marked one is.
MembersNamed(ch, n) == {m \in ch.members : nick[m] # NoNick /\ Lower[nick[m]] = Lower[n]}

\* The key of the channel a client means by n.
FindAsTyped(n) == n   \* mutant: no normalisation
Find(n)   == Lower[n]
Exists(n) == Find(n) \in DOMAIN channels

Put(k, ch) == [j \in DOMAIN channels \cup {k} |-> IF j = k THEN ch ELSE channels[j]]
Remove(k)  == [j \in DOMAIN channels \ {k} |-> channels[j]]

-----------------------------------------------------------------------------
(* Sending.                                                                *)

CanOverflow == Slow \cap clients

\* A line goes to R while the memberships are those of chans.
Send(R, chans) ==
    \E D \in Overflows(R, chans, CanOverflow \ dying) : dying' = dying \cup D

\* Server::disconnectClient(c): marked first, then QUIT to the peers, then ERROR.
DisconnectClient(c) ==
    \E D \in Overflows(IF c \in Registered THEN Peers(c, channels) ELSE {},
                       channels, CanOverflow \ (dying \cup {c})) :
        dying' = dying \cup {c} \cup D

-----------------------------------------------------------------------------
(* The poll loop.                                                          *)

Init ==
    /\ clients = {} /\ hasPass = {} /\ hasUser = {} /\ welcomed = {}
    /\ nick = [c \in Fds |-> NoNick]
    /\ dying = {}
    /\ channels = [k \in {} |-> {}]
    /\ turn = 0 /\ fresh = 0
    /\ editing = NoChannel /\ applied = FALSE

\* accept() returns the lowest free descriptor; the new client is not in this
\* iteration's poll set.
Accept(c) ==
    /\ turn = 0 /\ fresh = 0
    /\ c \in Fds \ clients
    /\ \A d \in Fds \ clients : c <= d
    /\ clients' = clients \cup {c}
    /\ fresh' = c
    /\ UNCHANGED <<registration, turn, modeRun, dying, channels>>

Turn(c) ==
    /\ editing = NoChannel
    /\ c \in clients \ {fresh}
    /\ c \notin dying
    /\ turn < c
    /\ turn' = c
    /\ UNCHANGED <<registration, clients, fresh, modeRun, dying, channels>>

\* Server::sweepChannels for each client of gone.
RemoveMembersOnly(ch, gone) ==   \* mutant: invitations are forgotten
    [ch EXCEPT !.members = @ \ gone, !.operators = @ \ gone]

RemoveClients(ch, gone) ==
    [ch EXCEPT !.members = @ \ gone, !.operators = @ \ gone, !.invited = @ \ gone]

Sweep(gone) ==
    [k \in {j \in DOMAIN channels : ~IsEmpty(RemoveClients(channels[j], gone))} |->
        RemoveClients(channels[k], gone)]

\* The clients the loop of reapDisconnected deletes.
ReapedUpToTheFirstLive == {c \in dying : \A d \in clients \ dying : c < d}   \* mutant
Reaped == dying

\* End of the iteration: the marked clients are swept, closed and deleted.
Reap ==
    /\ editing = NoChannel
    /\ clients' = clients \ Reaped
    /\ hasPass' = hasPass \ Reaped
    /\ hasUser' = hasUser \ Reaped
    /\ welcomed' = welcomed \ Reaped
    /\ nick' = [c \in Fds |-> IF c \in Reaped THEN NoNick ELSE nick[c]]
    /\ channels' = Sweep(Reaped)
    /\ dying' = dying \ Reaped
    /\ turn' = 0 /\ fresh' = 0
    /\ UNCHANGED modeRun

\* Mutant: the loop drains the buffer of a client that has just quit.
LineAfterQuit(c) == editing = NoChannel /\ turn = c /\ c \in clients

\* The guard of the drain loop: no line of a marked client is executed.
Line(c) ==
    /\ editing = NoChannel
    /\ turn = c
    /\ c \in clients \ dying

\* The registration gate of handleLine.
Command(c) == Line(c) /\ c \in Registered

\* A line answered with numerics to its sender only: PING, CAP, the
\* queries, 421, 451 and every other refusal of every handler.
Reply(c) ==
    /\ Line(c)
    /\ Send({c}, channels)
    /\ UNCHANGED <<registration, loop, modeRun, channels>>

\* QUIT, end of stream, a socket error, a hangup, or a line that never ends.
Disconnect(c) ==
    /\ Line(c)
    /\ DisconnectClient(c)
    /\ UNCHANGED <<registration, loop, modeRun, channels>>

-----------------------------------------------------------------------------
(* Registration.                                                           *)

Pass(c) ==
    /\ Line(c) /\ c \notin Registered
    /\ hasPass' = hasPass \cup {c}
    /\ UNCHANGED <<hasUser, welcomed, nick, loop, modeRun, dying, channels>>

\* 464, then the connection is dropped; there are no peers to tell.
PassMismatch(c) ==
    /\ Line(c) /\ c \notin Registered
    /\ DisconnectClient(c)
    /\ UNCHANGED <<registration, loop, modeRun, channels>>

\* Mutant: asked before the handler has stored what it received.
CompleteRegistrationTooEarly(c) ==
    IF c \in Registered /\ c \notin welcomed
    THEN welcomed' = welcomed \cup {c} /\ Send({c}, channels)
    ELSE UNCHANGED <<welcomed, dying>>

\* Read after the handler's own assignments, as the call in the code is.
CompleteRegistrationIfReady(c) ==
    IF c \in Registered' /\ c \notin welcomed
    THEN welcomed' = welcomed \cup {c} /\ Send({c}, channels)
    ELSE UNCHANGED <<welcomed, dying>>

Nick(c, n) ==
    /\ Line(c)
    /\ c \in hasPass
    /\ HoldersOf(n) \subseteq {c}
    /\ nick' = [nick EXCEPT ![c] = n]
    /\ UNCHANGED <<hasPass, hasUser, loop, modeRun, channels>>
    /\ IF c \in Registered
       THEN Send(Peers(c, channels) \cup {c}, channels) /\ UNCHANGED welcomed
       ELSE CompleteRegistrationIfReady(c)

User(c) ==
    /\ Line(c) /\ c \notin Registered
    /\ c \in hasPass
    /\ hasUser' = hasUser \cup {c}
    /\ UNCHANGED <<hasPass, nick, loop, modeRun, channels>>
    /\ CompleteRegistrationIfReady(c)

-----------------------------------------------------------------------------
(* Channel commands.                                                       *)

JoinExisting(c, n, key) ==
    LET k  == Find(n)
        ch == channels[k]
    IN  /\ Command(c) /\ Exists(n)
        /\ c \notin ch.members
        /\ PassesModeGates(ch, c, key)
        /\ channels' = Put(k, RemoveInvite(AddMember(ch, c), c))
        /\ Send(channels'[k].members, channels')
        /\ UNCHANGED <<registration, loop, modeRun>>

\* Mutant: the creator is an ordinary member.
JoinNewAsMember(c, n) ==
    /\ Command(c) /\ ~Exists(n)
    /\ channels' = Put(Find(n), AddMember(NewChannel(n), c))
    /\ Send({c}, channels')
    /\ UNCHANGED <<registration, loop, modeRun>>

JoinNew(c, n) ==
    /\ Command(c) /\ ~Exists(n)
    /\ channels' = Put(Find(n), AddOperator(AddMember(NewChannel(n), c), c))
    /\ Send({c}, channels')
    /\ UNCHANGED <<registration, loop, modeRun>>

LeaveKeepingRank(k, m) ==   \* mutant: the operator set is forgotten
    LET ch == RemoveMember(channels[k], m)
    IN  channels' = IF IsEmpty(ch) THEN Remove(k) ELSE Put(k, ch)

\* Member m stops being one, and the channel dies with its last member.
Leave(k, m) ==
    LET ch == RemoveOperator(RemoveMember(channels[k], m), m)
    IN  channels' = IF IsEmpty(ch) THEN Remove(k) ELSE Put(k, ch)

\* The line goes out before the removal, to the leaver too.
Part(c, n) ==
    /\ Command(c) /\ Exists(n)
    /\ c \in channels[Find(n)].members
    /\ Leave(Find(n), c)
    /\ Send(channels[Find(n)].members, channels)
    /\ UNCHANGED <<registration, loop, modeRun>>

\* Mutant: any member may kick.
KickByMember(c, n, victim) ==
    LET ch == channels[Find(n)]
    IN  /\ Command(c) /\ Exists(n)
        /\ c \in ch.members
        /\ \E who \in Nicks :
            \E m \in MembersNamed(ch, who) :
                m = victim /\ Leave(Find(n), m)
        /\ Send(ch.members, channels)
        /\ UNCHANGED <<registration, loop, modeRun>>

Kick(c, n, victim) ==
    LET ch == channels[Find(n)]
    IN  /\ Command(c) /\ Exists(n)
        /\ c \in ch.members
        /\ c \in ch.operators
        /\ \E who \in Nicks :
            \E m \in MembersNamed(ch, who) :
                m = victim /\ Leave(Find(n), m)
        /\ Send(ch.members, channels)
        /\ UNCHANGED <<registration, loop, modeRun>>

PrivmsgChannel(c, n) ==
    /\ Command(c) /\ Exists(n)
    /\ c \in channels[Find(n)].members
    /\ Send(channels[Find(n)].members \ {c}, channels)
    /\ UNCHANGED <<registration, loop, modeRun, channels>>

PrivmsgUser(c, n) ==
    /\ Command(c)
    /\ \E t \in HoldersOf(n) : Send({t}, channels)
    /\ UNCHANGED <<registration, loop, modeRun, channels>>

Topic(c, n, t) ==
    LET ch == channels[Find(n)]
    IN  /\ Command(c) /\ Exists(n)
        /\ c \in ch.members
        /\ ch.topicRestricted => c \in ch.operators
        /\ channels' = Put(Find(n), SetTopic(ch, t))
        /\ Send(ch.members, channels)
        /\ UNCHANGED <<registration, loop, modeRun>>

\* Any member may invite unless the channel is +i.
Invite(c, n, who) ==
    LET ch == channels[Find(n)]
    IN  /\ Command(c) /\ Exists(n)
        /\ c \in ch.members
        /\ ch.inviteOnly => c \in ch.operators
        /\ \E t \in HoldersOf(who) :
            /\ t \notin ch.members
            /\ channels' = Put(Find(n), AddInvite(ch, t))
            /\ Send({c, t}, channels)
        /\ UNCHANGED <<registration, loop, modeRun>>

-----------------------------------------------------------------------------
(* MODE: privilege is checked once, then the flags of the string are       *)
(* applied one by one, whatever they do to the sender meanwhile.           *)

\* Mutant: any member may change modes.
ModeBeginByMember(c, n) ==
    /\ Command(c) /\ Exists(n)
    /\ c \in channels[Find(n)].members
    /\ editing' = Find(n) /\ applied' = FALSE
    /\ UNCHANGED <<registration, loop, dying, channels>>

ModeBegin(c, n) ==
    /\ Command(c) /\ Exists(n)
    /\ c \in channels[Find(n)].operators
    /\ editing' = Find(n) /\ applied' = FALSE
    /\ UNCHANGED <<registration, loop, dying, channels>>

\* The flag f takes effect and leaves the channel as ch.
Apply(f, ch) ==
    /\ f \in ModeFlags
    /\ channels' = Put(editing, ch) /\ applied' = TRUE
    /\ UNCHANGED <<registration, loop, editing, dying>>

ModeI(v) == editing # NoChannel /\ Apply("i", SetInviteOnly(channels[editing], v))
ModeT(v) == editing # NoChannel /\ Apply("t", SetTopicRestricted(channels[editing], v))

ModeAddKey(key)   == editing # NoChannel /\ Apply("k", SetKey(channels[editing], key))
ModeClearKey      == editing # NoChannel /\ Apply("k", ClearKey(channels[editing]))
ModeAddLimit(lim) == editing # NoChannel /\ Apply("l", SetUserLimit(channels[editing], lim))
ModeClearLimit    == editing # NoChannel /\ Apply("l", ClearUserLimit(channels[editing]))

ModeO(adding, who) ==
    /\ editing # NoChannel
    /\ \E m \in MembersNamed(channels[editing], who) :
        Apply("o", IF adding THEN AddOperator(channels[editing], m)
                             ELSE RemoveOperator(channels[editing], m))

\* Mutant: an overflow sweeps at once instead of marking.
ModeRefusedSweepingAtOnce ==
    /\ editing # NoChannel
    /\ Send({turn}, channels)
    /\ channels' = Sweep(dying')
    /\ UNCHANGED <<registration, loop, modeRun>>

\* 441, 461 or 472 for one flag; the string goes on.
ModeRefused ==
    /\ editing # NoChannel
    /\ Send({turn}, channels)
    /\ UNCHANGED <<registration, loop, modeRun, channels>>

\* What was applied, if anything, is announced to the channel.
ModeEnd ==
    /\ editing # NoChannel
    /\ IF applied THEN Send(channels[editing].members, channels) ELSE UNCHANGED dying
    /\ editing' = NoChannel /\ applied' = FALSE
    /\ UNCHANGED <<registration, loop, channels>>

-----------------------------------------------------------------------------
Next ==
    \/ Reap
    \/ \E c \in Fds :
        \/ Accept(c) \/ Turn(c)
        \/ Reply(c) \/ Disconnect(c)
        \/ Pass(c) \/ PassMismatch(c) \/ User(c)
        \/ \E n \in Nicks : Nick(c, n) \/ PrivmsgUser(c, n)
        \/ \E n \in Names :
            \/ \E key \in Keys : JoinExisting(c, n, key)
            \/ JoinNew(c, n)
            \/ Part(c, n)
            \/ \E victim \in Fds : Kick(c, n, victim)
            \/ PrivmsgChannel(c, n)
            \/ \E t \in Topics : Topic(c, n, t)
            \/ \E who \in Nicks : Invite(c, n, who)
            \/ ModeBegin(c, n)
    \/ \E v \in BOOLEAN : ModeI(v) \/ ModeT(v)
    \/ \E key \in Keys : ModeAddKey(key)
    \/ ModeClearKey
    \/ \E lim \in Limits : ModeAddLimit(lim)
    \/ ModeClearLimit
    \/ \E adding \in BOOLEAN, who \in Nicks : ModeO(adding, who)
    \/ ModeRefused
    \/ ModeEnd

Spec == Init /\ [][Next]_vars

\* A MODE string has finitely many flags, and one turn executes at most the
\* lines of one 4096-byte read plus the buffer, so every iteration ends.
FairSpec == Spec /\ WF_vars(ModeEnd) /\ SF_vars(Reap)

-----------------------------------------------------------------------------
(* Invariants.                                                             *)

\* Every variable keeps its type; the channel table is keyed by folded names.
TypeOK ==
    /\ clients \subseteq Fds
    /\ hasPass \subseteq clients /\ hasUser \subseteq clients
    /\ welcomed \subseteq clients /\ dying \subseteq clients
    /\ nick \in [Fds -> Nicks \cup {NoNick}]
    /\ DOMAIN channels \subseteq ChannelKeys
    /\ \A k \in DOMAIN channels : channels[k] \in Channels
    /\ turn \in Fds \cup {0} /\ fresh \in Fds \cup {0}
    /\ editing \in ChannelKeys \cup {NoChannel}
    /\ applied \in BOOLEAN

\* No channel holds a pointer to a client that has been deleted, not even
\* among its invitations (sweepChannels runs before delete).
NoDanglingPointers ==
    \A k \in DOMAIN channels :
        channels[k].members \cup channels[k].operators \cup channels[k].invited
            \subseteq clients

\* An operator is a member: MODE, KICK and PART each keep the two separate
\* sets of Channel together, and MODE relies on it (it never asks isMember).
OperatorsAreMembers ==
    \A k \in DOMAIN channels : channels[k].operators \subseteq channels[k].members

\* Only registered clients are in channels: the gate of handleLine is enough
\* to keep nameless clients out of every broadcast and every member list.
MembersAreRegistered ==
    \A k \in DOMAIN channels : channels[k].members \subseteq Registered

\* An invitation is for someone outside: JOIN spends it and INVITE refuses a
\* member, so nobody carries an old invitation past a later KICK.
InviteesAreOutside ==
    \A k \in DOMAIN channels : channels[k].members \cap channels[k].invited = {}

\* A channel dies with its last member, by PART, KICK or the sweep alike.
NoEmptyChannel == \A k \in DOMAIN channels : ~IsEmpty(channels[k])

\* Two clients that are not being dropped never hold the same nickname, in
\* whatever case they spell it.
NickUnique ==
    \A c, d \in clients \ dying :
        /\ nick[c] # NoNick /\ nick[d] # NoNick
        /\ Lower[nick[c]] = Lower[nick[d]]
        => c = d

\* The welcome burst has gone out to exactly the registered clients, in
\* whatever order PASS, NICK and USER came.
WelcomedOnRegistration == welcomed = Registered

\* Nobody holds a nickname or a user name without having given the password.
PasswordFirst ==
    \A c \in Fds : c \in hasUser \/ nick[c] # NoNick => c \in hasPass

\* The key a channel is stored under is the folding of the name it displays,
\* so no two channels differ only in case.
KeyedByFoldedName == \A k \in DOMAIN channels : Lower[channels[k].name] = k

\* The Channel& that a MODE string works on stays in the table through every
\* send of the loop.
EditedChannelExists == editing # NoChannel => editing \in DOMAIN channels

\* findClientByNick, the registration flags and the password agree about every
\* client, in whatever order PASS, NICK and USER of several clients come, and
\* whoever is dropped and whose descriptor is reused in between.
RegistryIsSound == NickUnique /\ PasswordFirst /\ WelcomedOnRegistration

\* The three sets of a channel stay consistent with each other and with the
\* registry on every way in and out: JOIN, PART, KICK, MODE, INVITE and the sweep.
RolesAreConsistent == OperatorsAreMembers /\ MembersAreRegistered /\ InviteesAreOutside

\* The table holds each channel once, under its folded name, for as long as it
\* has a member, and for as long as a MODE string works on it.
TableIsSound == KeyedByFoldedName /\ NoEmptyChannel /\ EditedChannelExists

-----------------------------------------------------------------------------
(* Action properties.  Each is the box of a step formula, which the proofs  *)
(* use without the box.                                                     *)

\* Channels that exist before and after a step.
Surviving == DOMAIN channels \cap DOMAIN channels'

PrivilegeStep ==
    \A k \in Surviving :
      /\ ~(channels'[k].operators \subseteq channels[k].operators) => editing = k
      /\ editing' = k /\ editing # k => turn \in channels[k].operators \ dying

\* Operator status in an existing channel is only ever gained inside a MODE
\* string that an operator, not being dropped, began: a channel that has lost
\* its last operator stays without one (decision D20).
PrivilegeComesFromAnOperator == [][PrivilegeStep]_vars

Modes(ch) == <<ch.inviteOnly, ch.topicRestricted, ch.key, ch.limit>>

SettingsStep ==
    \A k \in Surviving :
      /\ Modes(channels'[k]) # Modes(channels[k]) => editing = k
      /\ channels'[k].topic # channels[k].topic =>
          /\ turn \in channels[k].members \ dying
          /\ channels[k].topicRestricted => turn \in channels[k].operators

\* The modes of a channel, its key and its limit with them, change only inside
\* a MODE string for that channel; its topic is changed by a live member, by an
\* operator under +t.  Nobody's joining, leaving or deletion changes either.
SettingsChangeByRight == [][SettingsStep]_vars

\* Nothing about a channel changes but by someone entitled to change it, also
\* when the one who began a MODE string loses its rank, or is marked, before the
\* string ends.
ChangesComeByRight == [][PrivilegeStep /\ SettingsStep]_vars

InviteStep ==
    \A k \in Surviving : \A c \in channels[k].invited \ channels'[k].invited :
      c \in channels'[k].members \/ c \notin clients'

\* An invitation outlives everything but the entry it is for, the deletion of
\* the invitee and the end of the channel: NICK, a refused JOIN, -i, and the
\* departure of whoever gave it leave it alone.
InviteSurvives == [][InviteStep]_vars

EntryStep ==
    \A k \in Surviving : \A c \in channels'[k].members \ channels[k].members :
      /\ channels[k].inviteOnly => c \in channels[k].invited
      /\ channels[k].limit # NoLimit =>
          Cardinality(channels'[k].members) <= channels[k].limit

\* Whoever enters an existing channel had an invitation if it was +i, and
\* found a seat under the limit.
EntryRespectsModes == [][EntryStep]_vars

\* The door of a channel: +i and +l hold against every entry, and what opens
\* it, an invitation, is good until it is used.
DoorIsKept == [][EntryStep /\ InviteStep]_vars

MarkedStep ==
    \A c \in dying :
      \/ c \notin clients'
      \/ /\ c \in dying' /\ nick'[c] = nick[c]
         /\ \A k \in DOMAIN channels' :
              c \in channels'[k].members \cup channels'[k].invited =>
                  /\ k \in DOMAIN channels
                  /\ c \in channels[k].members \cup channels[k].invited

\* A mark is never withdrawn, and until Reap deletes it a marked client enters
\* no channel, receives no invitation and keeps its nickname.
MarkedClientsTakeNoPart == [][MarkedStep]_vars

MembershipStep ==
    \A k \in DOMAIN channels : \A m \in channels[k].members :
      \/ m \notin clients'
      \/ k \in DOMAIN channels' /\ m \in channels'[k].members
      \/ turn \in {m} \cup channels[k].operators

\* A membership ends only by the member's own command, by a KICK of an
\* operator of that channel, or by the deletion of the client.
MembershipEndsByRight == [][MembershipStep]_vars

FreshStep ==
    \A k \in DOMAIN channels' \ DOMAIN channels :
      /\ channels'[k].members = {turn} /\ channels'[k].operators = {turn}
      /\ channels'[k].invited = {}
      /\ channels'[k].topic = EmptyTopic /\ channels'[k].key = NoKey
      /\ channels'[k].limit = NoLimit
      /\ ~channels'[k].inviteOnly /\ ~channels'[k].topicRestricted

\* A channel comes into being with one member, who operates it, and with no
\* trace of an earlier channel of that name.
ChannelsStartFresh == [][FreshStep]_vars

\* A client marked for disconnection is eventually deleted.
MarkedClientsAreReaped == \A c \in Fds : c \in dying ~> c \notin clients
=============================================================================
