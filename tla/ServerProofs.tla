---------------------------- MODULE ServerProofs ----------------------------
(***************************************************************************)
(* Proofs about Server for any number of clients, nicknames, channels,     *)
(* keys and limits.                                                        *)
(*                                                                         *)
(* IInv is inductive.  It is split in two: RegistryInv speaks of the       *)
(* clients alone and TableInv of the channel table.  Most actions touch    *)
(* one of the two, and a send touches neither except by marking clients.   *)
(***************************************************************************)
EXTENDS Refinement, FiniteSetTheorems, TLAPS

RegistryInv ==
    /\ clients \subseteq Fds
    /\ hasPass \subseteq clients /\ hasUser \subseteq clients
    /\ welcomed \subseteq clients /\ dying \subseteq clients
    /\ nick \in [Fds -> Nicks \cup {NoNick}]
    /\ turn \in Fds \cup {0} /\ fresh \in Fds \cup {0}
    /\ NickUnique /\ WelcomedOnRegistration /\ PasswordFirst

\* What every channel of the table satisfies, given the registered clients
\* and all clients.
WellFormed(ch, reg, all) ==
    /\ ch \in Channels
    /\ ch.members # {} /\ ch.members \subseteq reg
    /\ ch.operators \subseteq ch.members
    /\ ch.invited \subseteq all
    /\ ch.members \cap ch.invited = {}

TableInv ==
    /\ \A k \in DOMAIN channels :
        /\ k \in ChannelKeys
        /\ Lower[channels[k].name] = k
        /\ WellFormed(channels[k], Registered, clients)
    /\ editing \in ChannelKeys \cup {NoChannel}
    /\ applied \in BOOLEAN
    /\ EditedChannelExists

IInv == RegistryInv /\ TableInv

-----------------------------------------------------------------------------
(* The operators of Channel.                                               *)

LEMMA NewChannelIsBlank ==
    ASSUME NEW n \in Names
    PROVE  /\ NewChannel(n) \in Channels
           /\ NewChannel(n).members = {} /\ NewChannel(n).operators = {}
           /\ NewChannel(n).invited = {} /\ NewChannel(n).name = n
BY ChannelAssumption DEF NewChannel, Channels

\* Entering with the invitation spent.
LEMMA EnteringWellFormed ==
    ASSUME NEW reg, NEW all, reg \subseteq all, reg \subseteq Fds,
           NEW ch, WellFormed(ch, reg, all), NEW c \in reg
    PROVE  /\ WellFormed(RemoveInvite(AddMember(ch, c), c), reg, all)
           /\ RemoveInvite(AddMember(ch, c), c).name = ch.name
BY DEF WellFormed, RemoveInvite, AddMember, Channels

LEMMA CreatingWellFormed ==
    ASSUME NEW reg, NEW all, reg \subseteq Fds,
           NEW n \in Names, NEW c \in reg
    PROVE  /\ WellFormed(AddOperator(AddMember(NewChannel(n), c), c), reg, all)
           /\ AddOperator(AddMember(NewChannel(n), c), c).name = n
<1> DEFINE blank == NewChannel(n)
           alone == AddMember(blank, c)
<1>1. /\ blank \in Channels /\ blank.members = {}
      /\ blank.operators = {} /\ blank.invited = {} /\ blank.name = n
  BY NewChannelIsBlank
<1> HIDE DEF blank
<1>2. /\ alone \in Channels /\ alone.members = {c}
      /\ alone.operators = {} /\ alone.invited = {} /\ alone.name = n
  BY <1>1 DEF AddMember, Channels
<1> HIDE DEF alone
<1>3. WellFormed(AddOperator(alone, c), reg, all) /\ AddOperator(alone, c).name = n
  BY <1>2 DEF WellFormed, AddOperator, Channels
<1>4. QED
  BY <1>3 DEF alone, blank

LEMMA LeavingWellFormed ==
    ASSUME NEW reg, NEW all,
           NEW ch, WellFormed(ch, reg, all), NEW m,
           ~IsEmpty(RemoveOperator(RemoveMember(ch, m), m))
    PROVE  /\ WellFormed(RemoveOperator(RemoveMember(ch, m), m), reg, all)
           /\ RemoveOperator(RemoveMember(ch, m), m).name = ch.name
BY DEF WellFormed, RemoveOperator, RemoveMember, IsEmpty, Channels

LEMMA InvitingWellFormed ==
    ASSUME NEW reg, NEW all, all \subseteq Fds,
           NEW ch, WellFormed(ch, reg, all), NEW t \in all, t \notin ch.members
    PROVE  /\ WellFormed(AddInvite(ch, t), reg, all)
           /\ AddInvite(ch, t).name = ch.name
BY DEF WellFormed, AddInvite, Channels

LEMMA RankingWellFormed ==
    ASSUME NEW reg, NEW all,
           NEW ch, WellFormed(ch, reg, all), NEW m \in ch.members
    PROVE  /\ WellFormed(AddOperator(ch, m), reg, all)
           /\ AddOperator(ch, m).name = ch.name
           /\ WellFormed(RemoveOperator(ch, m), reg, all)
           /\ RemoveOperator(ch, m).name = ch.name
BY DEF WellFormed, AddOperator, RemoveOperator, Channels

LEMMA TopicWellFormed ==
    ASSUME NEW reg, NEW all, NEW ch, WellFormed(ch, reg, all), NEW t \in Topics
    PROVE  WellFormed(SetTopic(ch, t), reg, all) /\ SetTopic(ch, t).name = ch.name
BY DEF WellFormed, SetTopic, Channels

LEMMA FlagsWellFormed ==
    ASSUME NEW reg, NEW all, NEW ch, WellFormed(ch, reg, all), NEW v \in BOOLEAN
    PROVE  /\ WellFormed(SetInviteOnly(ch, v), reg, all)
           /\ SetInviteOnly(ch, v).name = ch.name
           /\ WellFormed(SetTopicRestricted(ch, v), reg, all)
           /\ SetTopicRestricted(ch, v).name = ch.name
BY DEF WellFormed, SetInviteOnly, SetTopicRestricted, Channels

LEMMA KeyWellFormed ==
    ASSUME NEW reg, NEW all, NEW ch, WellFormed(ch, reg, all), NEW key \in Keys
    PROVE  /\ WellFormed(SetKey(ch, key), reg, all) /\ SetKey(ch, key).name = ch.name
           /\ WellFormed(ClearKey(ch), reg, all) /\ ClearKey(ch).name = ch.name
BY DEF WellFormed, SetKey, ClearKey, Channels

LEMMA LimitWellFormed ==
    ASSUME NEW reg, NEW all, NEW ch, WellFormed(ch, reg, all)
    PROVE  /\ WellFormed(ClearUserLimit(ch), reg, all)
           /\ ClearUserLimit(ch).name = ch.name
           /\ \A l \in Limits : /\ WellFormed(SetUserLimit(ch, l), reg, all)
                                /\ SetUserLimit(ch, l).name = ch.name
BY DEF WellFormed, SetUserLimit, ClearUserLimit, Channels

-----------------------------------------------------------------------------
(* Sending and the channel table.                                          *)

\* A send only marks clients.
LEMMA SendMarks ==
    ASSUME NEW R, NEW chans, dying \subseteq clients, Send(R, chans)
    PROVE  dying \subseteq dying' /\ dying' \subseteq clients
BY DEF Send, Overflows, CanOverflow

LEMMA DisconnectMarks ==
    ASSUME NEW c \in clients, dying \subseteq clients, DisconnectClient(c)
    PROVE  dying \subseteq dying' /\ dying' \subseteq clients
BY DEF DisconnectClient, Overflows, CanOverflow

\* Marking clients and moving on in the loop leaves the registry correct.
LEMMA RegistryKept ==
    ASSUME RegistryInv, UNCHANGED <<clients, hasPass, hasUser, welcomed, nick>>,
           dying \subseteq dying', dying' \subseteq clients,
           turn' \in Fds \cup {0}, fresh' \in Fds \cup {0}
    PROVE  RegistryInv' /\ Registered' = Registered
BY DEF RegistryInv, NickUnique, WelcomedOnRegistration, PasswordFirst, Registered

\* The table stays correct when the clients in it stay registered.
LEMMA TableKept ==
    ASSUME TableInv, UNCHANGED channels, clients \subseteq clients',
           Registered \subseteq Registered',
           UNCHANGED modeRun
    PROVE  TableInv'
BY DEF TableInv, WellFormed, EditedChannelExists, modeRun

\* Storing a well-formed channel under the folding of its name.
LEMMA TablePut ==
    ASSUME TableInv, UNCHANGED <<clients, editing>>, Registered' = Registered,
           applied' \in BOOLEAN,
           NEW k \in ChannelKeys, NEW ch, channels' = Put(k, ch),
           Lower[ch.name] = k, WellFormed(ch, Registered, clients)
    PROVE  TableInv'
BY DEF TableInv, EditedChannelExists, Put

LEMMA TableRemove ==
    ASSUME TableInv, UNCHANGED <<clients, modeRun>>, Registered' = Registered,
           editing = NoChannel,
           NEW k, channels' = Remove(k)
    PROVE  TableInv'
BY DEF TableInv, EditedChannelExists, Remove, modeRun
-----------------------------------------------------------------------------
(* The actions, one lemma for each group with the same effect.             *)

LEMMA Found ==
    ASSUME IInv, NEW n \in Names, Exists(n)
    PROVE  /\ Find(n) \in ChannelKeys
           /\ Lower[channels[Find(n)].name] = Find(n)
           /\ WellFormed(channels[Find(n)], Registered, clients)
BY DEF IInv, TableInv, Exists, Find

LEMMA RegisteredAreClients ==
    ASSUME IInv
    PROVE  Registered \subseteq clients /\ Registered \subseteq Fds /\ clients \subseteq Fds
           /\ dying \subseteq clients
BY DEF IInv, RegistryInv, Registered

LEMMA InitIInv == Init => IInv
BY ServerAssumption
   DEF Init, IInv, RegistryInv, TableInv, NickUnique, WelcomedOnRegistration,
       PasswordFirst, EditedChannelExists, Registered

LEMMA StutterKeeps == ASSUME IInv, UNCHANGED vars PROVE IInv'
<1>1. RegistryInv' /\ Registered' = Registered
  BY RegistryKept DEF IInv, vars, registration, loop, RegistryInv
<1>2. QED
  BY <1>1, TableKept DEF IInv, vars, loop, modeRun

LEMMA AcceptKeeps == ASSUME IInv, NEW c \in Fds, Accept(c) PROVE IInv'
<1>1. c \notin clients /\ clients' = clients \cup {c} /\ c \in Fds /\ fresh' = c
      /\ UNCHANGED <<hasPass, hasUser, welcomed, nick, turn, dying, channels, modeRun>>
  BY DEF Accept, registration
<1>2. nick[c] = NoNick /\ c \notin hasPass
  BY <1>1 DEF IInv, RegistryInv, PasswordFirst
<1>3. Registered' = Registered
  BY <1>1, <1>2 DEF Registered
<1>4. NickUnique' /\ PasswordFirst' /\ WelcomedOnRegistration'
  BY <1>1, <1>2, <1>3
     DEF IInv, RegistryInv, NickUnique, PasswordFirst, WelcomedOnRegistration
<1>5. RegistryInv'
  BY <1>1, <1>4 DEF IInv, RegistryInv
<1>6. TableInv'
  BY <1>1, <1>3, TableKept DEF IInv
<1>7. QED
  BY <1>5, <1>6 DEF IInv

LEMMA TurnKeeps == ASSUME IInv, NEW c \in Fds, Turn(c) PROVE IInv'
<1>1. RegistryInv' /\ Registered' = Registered
  BY RegistryKept DEF Turn, IInv, RegistryInv, registration
<1>2. QED
  BY <1>1, TableKept DEF Turn, IInv

LEMMA SweepWellFormed ==
    ASSUME NEW reg, NEW all, NEW gone,
           NEW ch, WellFormed(ch, reg, all), ~IsEmpty(RemoveClients(ch, gone))
    PROVE  /\ WellFormed(RemoveClients(ch, gone), reg \ gone, all \ gone)
           /\ RemoveClients(ch, gone).name = ch.name
BY DEF WellFormed, Channels, RemoveClients, IsEmpty

LEMMA ReapKeeps == ASSUME IInv, Reap PROVE IInv'
<1> USE DEF Reaped
<1>1. Registered' = Registered \ dying
  BY DEF Reap, IInv, RegistryInv, Registered
<1>2. NickUnique' /\ PasswordFirst' /\ WelcomedOnRegistration'
  BY <1>1 DEF Reap, IInv, RegistryInv, NickUnique, PasswordFirst, WelcomedOnRegistration
<1>3. RegistryInv'
  BY <1>2 DEF Reap, IInv, RegistryInv
<1>4. ASSUME NEW k \in DOMAIN channels'
      PROVE  /\ k \in ChannelKeys
             /\ Lower[channels'[k].name] = k
             /\ WellFormed(channels'[k], Registered', clients')
  <2>1. k \in DOMAIN channels /\ ~IsEmpty(RemoveClients(channels[k], dying))
    BY <1>4 DEF Reap, Sweep
  <2>2. channels'[k] = RemoveClients(channels[k], dying)
    BY <1>4 DEF Reap, Sweep
  <2>3. k \in ChannelKeys /\ Lower[channels[k].name] = k
        /\ WellFormed(channels[k], Registered, clients)
    BY <2>1 DEF IInv, TableInv
  <2>4. WellFormed(channels'[k], Registered \ dying, clients \ dying)
        /\ channels'[k].name = channels[k].name
    BY <2>1, <2>2, <2>3, SweepWellFormed
  <2>5. clients' = clients \ dying
    BY DEF Reap
  <2>6. QED
    BY <1>1, <2>3, <2>4, <2>5
<1>5. editing' = NoChannel /\ applied' = applied /\ editing = NoChannel
  BY DEF Reap, modeRun
<1>6. TableInv'
  BY <1>4, <1>5 DEF IInv, TableInv, EditedChannelExists
<1>7. QED
  BY <1>3, <1>6 DEF IInv

\* Lines that only send: nothing but marks changes.
LEMMA OnlySendingKeeps ==
    ASSUME IInv, UNCHANGED <<registration, loop, modeRun, channels>>,
           dying \subseteq dying', dying' \subseteq clients
    PROVE  IInv'
<1>1. RegistryInv' /\ Registered' = Registered
  BY RegistryKept DEF IInv, RegistryInv, registration, loop
<1>2. QED
  BY <1>1, TableKept DEF IInv, loop

LEMMA SendingLinesKeep ==
    ASSUME IInv, NEW c \in Fds,
           \/ Reply(c) \/ Disconnect(c) \/ PassMismatch(c)
           \/ \E n \in Nicks : PrivmsgUser(c, n)
           \/ \E n \in Names : PrivmsgChannel(c, n)
    PROVE  IInv'
<1>1. /\ UNCHANGED <<registration, loop, modeRun, channels>>
      /\ \/ \E R : Send(R, channels)
         \/ c \in clients /\ DisconnectClient(c)
  BY DEF Reply, Disconnect, PassMismatch, PrivmsgUser, PrivmsgChannel, Line
<1>2. dying \subseteq dying' /\ dying' \subseteq clients
  BY <1>1, SendMarks, DisconnectMarks, RegisteredAreClients
<1>3. QED
  BY <1>1, <1>2, OnlySendingKeeps

LEMMA PassKeeps == ASSUME IInv, NEW c \in Fds, Pass(c) PROVE IInv'
<1>1. c \in clients /\ c \notin Registered
      /\ hasPass' = hasPass \cup {c}
      /\ UNCHANGED <<hasUser, welcomed, nick, loop, modeRun, dying, channels>>
  BY DEF Pass, Line
<1>2. Registered' = Registered
  \* Without the password c had neither a user name nor a nickname.
  BY <1>1 DEF Registered, IInv, RegistryInv, PasswordFirst, loop
<1>3. RegistryInv'
  BY <1>1, <1>2
     DEF IInv, RegistryInv, NickUnique, PasswordFirst, WelcomedOnRegistration, loop
<1>4. QED
  BY <1>1, <1>2, <1>3, TableKept DEF IInv, loop

\* The client whose last missing flag has just been set is welcomed.
LEMMA CompletionWelcomes ==
    ASSUME IInv, NEW c \in clients, c \notin Registered,
           UNCHANGED clients,
           Registered' \subseteq Registered \cup {c}, Registered \subseteq Registered',
           CompleteRegistrationIfReady(c)
    PROVE  /\ WelcomedOnRegistration' /\ welcomed' \subseteq clients
           /\ dying \subseteq dying' /\ dying' \subseteq clients
<1>1. welcomed = Registered
  BY DEF IInv, RegistryInv, WelcomedOnRegistration
<1>2. CASE c \in Registered'
  <2>1. welcomed' = welcomed \cup {c} /\ Send({c}, channels)
    BY <1>1, <1>2 DEF CompleteRegistrationIfReady
  <2>2. QED
    BY <1>1, <1>2, <2>1, SendMarks, RegisteredAreClients DEF WelcomedOnRegistration
<1>3. CASE c \notin Registered'
  <2>1. UNCHANGED <<welcomed, dying>>
    BY <1>3 DEF CompleteRegistrationIfReady
  <2>2. QED
    BY <1>1, <1>3, <2>1, RegisteredAreClients DEF WelcomedOnRegistration
<1>4. QED
  BY <1>2, <1>3

LEMMA UserKeeps == ASSUME IInv, NEW c \in Fds, User(c) PROVE IInv'
<1>1. c \in clients /\ c \in hasPass /\ c \notin Registered
      /\ hasUser' = hasUser \cup {c}
      /\ UNCHANGED <<hasPass, nick, loop, modeRun, channels>>
      /\ CompleteRegistrationIfReady(c)
  BY DEF User, Line
<1>2. Registered' \subseteq Registered \cup {c} /\ Registered \subseteq Registered'
  BY <1>1 DEF Registered, loop
<1>3. /\ WelcomedOnRegistration' /\ welcomed' \subseteq clients
      /\ dying \subseteq dying' /\ dying' \subseteq clients
  BY <1>1, <1>2, CompletionWelcomes DEF loop
<1>4. NickUnique' /\ PasswordFirst'
  BY <1>1, <1>3 DEF IInv, RegistryInv, NickUnique, PasswordFirst, loop
<1>5. RegistryInv'
  BY <1>1, <1>3, <1>4 DEF IInv, RegistryInv, loop
<1>6. QED
  BY <1>1, <1>2, <1>5, TableKept DEF IInv, loop

LEMMA NickKeeps == ASSUME IInv, NEW c \in Fds, NEW n \in Nicks, Nick(c, n) PROVE IInv'
<1>1. c \in clients \ dying /\ c \in hasPass /\ HoldersOf(n) \subseteq {c}
      /\ nick' = [nick EXCEPT ![c] = n]
      /\ UNCHANGED <<hasPass, hasUser, loop, modeRun, channels>>
  BY DEF Nick, Line
<1>2. nick' \in [Fds -> Nicks \cup {NoNick}] /\ nick'[c] = n /\ n # NoNick
      /\ \A d \in Fds \ {c} : nick'[d] = nick[d]
  BY <1>1, ServerAssumption DEF IInv, RegistryInv
<1>3. Registered' \subseteq Registered \cup {c} /\ Registered \subseteq Registered'
  BY <1>1, <1>2, RegisteredAreClients DEF Registered, loop
<1>4. /\ WelcomedOnRegistration' /\ welcomed' \subseteq clients
      /\ dying \subseteq dying' /\ dying' \subseteq clients
  <2>1. CASE c \in Registered
    <3>1. Send(Peers(c, channels) \cup {c}, channels) /\ UNCHANGED welcomed
      BY <2>1 DEF Nick
    <3>2. QED
      BY <1>3, <2>1, <3>1, SendMarks, RegisteredAreClients
         DEF IInv, RegistryInv, WelcomedOnRegistration
  <2>2. CASE c \notin Registered
    BY <1>1, <1>3, <2>2, CompletionWelcomes DEF Nick, loop
  <2>3. QED
    BY <2>1, <2>2
<1>5. NickUnique'
  <2> SUFFICES ASSUME NEW d \in clients \ dying, NEW e \in clients \ dying,
                      nick'[d] # NoNick, nick'[e] # NoNick,
                      Lower[nick'[d]] = Lower[nick'[e]]
               PROVE  d = e
    BY <1>1, <1>4 DEF NickUnique, loop
  <2>1. d \in Fds /\ e \in Fds
    BY RegisteredAreClients
  <2>2. CASE d = c /\ e # c
    BY <1>1, <1>2, <2>1, <2>2 DEF HoldersOf
  <2>3. CASE d # c /\ e = c
    BY <1>1, <1>2, <2>1, <2>3 DEF HoldersOf
  <2>4. CASE d # c /\ e # c
    BY <1>2, <2>1, <2>4 DEF IInv, RegistryInv, NickUnique
  <2>5. QED
    BY <2>2, <2>3, <2>4
<1>6. PasswordFirst'
  BY <1>1, <1>2 DEF IInv, RegistryInv, PasswordFirst
<1>7. RegistryInv'
  BY <1>1, <1>2, <1>4, <1>5, <1>6 DEF IInv, RegistryInv, loop
<1>8. QED
  BY <1>1, <1>3, <1>7, TableKept DEF IInv, loop

\* Lines that store one channel and send.
LEMMA StoringKeeps ==
    ASSUME IInv, UNCHANGED <<registration, loop, editing>>, applied' \in BOOLEAN,
           dying \subseteq dying', dying' \subseteq clients,
           NEW k \in ChannelKeys, NEW ch, channels' = Put(k, ch),
           Lower[ch.name] = k, WellFormed(ch, Registered, clients)
    PROVE  IInv'
<1>1. RegistryInv' /\ Registered' = Registered
  BY RegistryKept DEF IInv, RegistryInv, registration, loop
<1>2. QED
  BY <1>1, TablePut DEF IInv, loop

LEMMA JoinExistingKeeps ==
    ASSUME IInv, NEW c \in Fds, NEW n \in Names, NEW key \in Keys, JoinExisting(c, n, key)
    PROVE  IInv'
<1> DEFINE ch == channels[Find(n)]
           entered == RemoveInvite(AddMember(ch, c), c)
<1>1. /\ Command(c) /\ Exists(n)
      /\ channels' = Put(Find(n), entered)
      /\ UNCHANGED <<registration, loop, modeRun>>
      /\ \E R : Send(R, channels')
  BY DEF JoinExisting
<1>2. dying \subseteq dying' /\ dying' \subseteq clients
  BY <1>1, SendMarks, RegisteredAreClients
<1>3. c \in Registered
  BY <1>1 DEF Command
<1>4. WellFormed(entered, Registered, clients) /\ entered.name = ch.name
  <2>1. WellFormed(ch, Registered, clients)
    BY <1>1, Found
  <2> HIDE DEF ch
  <2>2. QED
    BY <1>3, <2>1, RegisteredAreClients, EnteringWellFormed
<1>5. applied' \in BOOLEAN
  BY <1>1 DEF IInv, TableInv, modeRun
<1> HIDE DEF entered
<1>6. QED
  BY <1>1, <1>2, <1>4, <1>5, Found, StoringKeeps DEF modeRun

LEMMA JoinNewKeeps ==
    ASSUME IInv, NEW c \in Fds, NEW n \in Names, JoinNew(c, n)
    PROVE  IInv'
<1> DEFINE created == AddOperator(AddMember(NewChannel(n), c), c)
<1>1. /\ Command(c)
      /\ channels' = Put(Find(n), created)
      /\ UNCHANGED <<registration, loop, modeRun>>
      /\ \E R : Send(R, channels')
  BY DEF JoinNew
<1>2. dying \subseteq dying' /\ dying' \subseteq clients
  BY <1>1, SendMarks, RegisteredAreClients
<1>3. WellFormed(created, Registered, clients) /\ created.name = n
  BY <1>1, RegisteredAreClients, CreatingWellFormed DEF Command
<1>4. applied' \in BOOLEAN
  BY <1>1 DEF IInv, TableInv, modeRun
<1>5. Find(n) \in ChannelKeys /\ Find(n) = Lower[n]
  BY DEF Find, ChannelKeys
<1> HIDE DEF created
<1>6. QED
  BY <1>1, <1>2, <1>3, <1>4, <1>5, StoringKeeps DEF modeRun

\* PART and KICK.
LEMMA LeavingKeeps ==
    ASSUME IInv, editing = NoChannel, UNCHANGED <<registration, loop, modeRun>>,
           dying \subseteq dying', dying' \subseteq clients,
           NEW n \in Names, Exists(n), NEW m, Leave(Find(n), m)
    PROVE  IInv'
<1> DEFINE left == RemoveOperator(RemoveMember(channels[Find(n)], m), m)
<1>1. channels' = IF IsEmpty(left) THEN Remove(Find(n)) ELSE Put(Find(n), left)
  BY DEF Leave
<1>2. RegistryInv' /\ Registered' = Registered
  BY RegistryKept DEF IInv, RegistryInv, registration, loop
<1>3. CASE IsEmpty(left)
  BY <1>1, <1>2, <1>3, TableRemove DEF IInv, loop
<1>4. CASE ~IsEmpty(left)
  <2>1. WellFormed(left, Registered, clients) /\ left.name = channels[Find(n)].name
    BY <1>4, Found, LeavingWellFormed
  <2>2. applied' \in BOOLEAN
    BY DEF IInv, TableInv, modeRun
  <2> HIDE DEF left
  <2>3. QED
    BY <1>1, <1>4, <2>1, <2>2, Found, StoringKeeps DEF modeRun
<1>5. QED
  BY <1>3, <1>4

LEMMA PartKickKeep ==
    ASSUME IInv, NEW c \in Fds, NEW n \in Names,
           Part(c, n) \/ \E victim \in Fds : Kick(c, n, victim)
    PROVE  IInv'
<1>1. /\ Exists(n) /\ editing = NoChannel
      /\ UNCHANGED <<registration, loop, modeRun>>
      /\ \E m : Leave(Find(n), m)
      /\ \E R : Send(R, channels)
  BY DEF Part, Kick, Command, Line
<1>2. dying \subseteq dying' /\ dying' \subseteq clients
  BY <1>1, SendMarks, RegisteredAreClients
<1>3. QED
  BY <1>1, <1>2, LeavingKeeps

LEMMA TopicKeeps ==
    ASSUME IInv, NEW c \in Fds, NEW n \in Names, NEW t \in Topics, Topic(c, n, t)
    PROVE  IInv'
<1> DEFINE ch == SetTopic(channels[Find(n)], t)
<1>1. /\ Exists(n) /\ channels' = Put(Find(n), ch)
      /\ UNCHANGED <<registration, loop, modeRun>>
      /\ \E R : Send(R, channels)
  BY DEF Topic
<1>2. dying \subseteq dying' /\ dying' \subseteq clients
  BY <1>1, SendMarks, RegisteredAreClients
<1>3. WellFormed(ch, Registered, clients) /\ ch.name = channels[Find(n)].name
  <2>1. WellFormed(channels[Find(n)], Registered, clients)
    BY <1>1, Found
  <2>2. QED
    BY <2>1, TopicWellFormed
<1>4. applied' \in BOOLEAN
  BY <1>1 DEF IInv, TableInv, modeRun
<1> HIDE DEF ch
<1>5. QED
  BY <1>1, <1>2, <1>3, <1>4, Found, StoringKeeps DEF modeRun

LEMMA InviteKeeps ==
    ASSUME IInv, NEW c \in Fds, NEW n \in Names, NEW who \in Nicks, Invite(c, n, who)
    PROVE  IInv'
<1>1. PICK t \in HoldersOf(who) :
        /\ t \notin channels[Find(n)].members
        /\ channels' = Put(Find(n), AddInvite(channels[Find(n)], t))
        /\ Send({c, t}, channels)
  BY DEF Invite
<1> DEFINE ch == AddInvite(channels[Find(n)], t)
<1>2. Exists(n) /\ UNCHANGED <<registration, loop, modeRun>>
  BY DEF Invite
<1>3. dying \subseteq dying' /\ dying' \subseteq clients
  BY <1>1, SendMarks, RegisteredAreClients
<1>4. WellFormed(ch, Registered, clients) /\ ch.name = channels[Find(n)].name
  BY <1>1, <1>2, Found, InvitingWellFormed, RegisteredAreClients DEF HoldersOf
<1>5. applied' \in BOOLEAN
  BY <1>2 DEF IInv, TableInv, modeRun
<1>6. channels' = Put(Find(n), ch)
  BY <1>1
<1> HIDE DEF ch
<1>7. QED
  BY <1>2, <1>3, <1>4, <1>5, <1>6, Found, StoringKeeps DEF modeRun

-----------------------------------------------------------------------------
(* The MODE string.                                                        *)

LEMMA Edited ==
    ASSUME IInv, editing # NoChannel
    PROVE  /\ editing \in ChannelKeys
           /\ Lower[channels[editing].name] = editing
           /\ WellFormed(channels[editing], Registered, clients)
BY DEF IInv, TableInv, EditedChannelExists

\* A flag that leaves the channel well-formed and under its name.
LEMMA ApplyKeeps ==
    ASSUME IInv, editing # NoChannel, NEW f, NEW ch, Apply(f, ch),
           ch.name = channels[editing].name, WellFormed(ch, Registered, clients)
    PROVE  IInv'
<1>1. /\ channels' = Put(editing, ch) /\ applied' = TRUE
      /\ UNCHANGED <<registration, loop, editing, dying>>
  BY DEF Apply
<1>2. dying \subseteq dying' /\ dying' \subseteq clients
  BY <1>1, RegisteredAreClients
<1>3. QED
  BY <1>1, <1>2, Edited, StoringKeeps

LEMMA ModeFlagsKeep ==
    ASSUME IInv,
           \/ \E v \in BOOLEAN : ModeI(v) \/ ModeT(v)
           \/ \E key \in Keys : ModeAddKey(key)
           \/ ModeClearKey
           \/ \E lim \in Limits : ModeAddLimit(lim)
           \/ ModeClearLimit
    PROVE  IInv'
<1> DEFINE ch == channels[editing]
<1>1. editing # NoChannel
  BY DEF ModeI, ModeT, ModeAddKey, ModeClearKey, ModeAddLimit, ModeClearLimit
<1>2. WellFormed(ch, Registered, clients)
  BY <1>1, Edited
<1>3. ASSUME NEW v \in BOOLEAN, ModeI(v) PROVE IInv'
  BY <1>1, <1>2, <1>3, FlagsWellFormed, ApplyKeeps DEF ModeI
<1>4. ASSUME NEW v \in BOOLEAN, ModeT(v) PROVE IInv'
  BY <1>1, <1>2, <1>4, FlagsWellFormed, ApplyKeeps DEF ModeT
<1>5. ASSUME NEW key \in Keys, ModeAddKey(key) PROVE IInv'
  BY <1>1, <1>2, <1>5, KeyWellFormed, ApplyKeeps DEF ModeAddKey
<1>6. CASE ModeClearKey
  BY <1>1, <1>2, <1>6, KeyWellFormed, ChannelAssumption, ApplyKeeps DEF ModeClearKey
<1>7. ASSUME NEW lim \in Limits, ModeAddLimit(lim) PROVE IInv'
  BY <1>1, <1>2, <1>7, LimitWellFormed, ApplyKeeps DEF ModeAddLimit
<1>8. CASE ModeClearLimit
  BY <1>1, <1>2, <1>8, LimitWellFormed, ApplyKeeps DEF ModeClearLimit
<1>9. QED
  BY <1>3, <1>4, <1>5, <1>6, <1>7, <1>8

LEMMA ModeOKeeps ==
    ASSUME IInv, NEW adding \in BOOLEAN, NEW who \in Nicks, ModeO(adding, who)
    PROVE  IInv'
<1>1. editing # NoChannel
  BY DEF ModeO
<1>2. PICK m \in MembersNamed(channels[editing], who) :
        Apply("o", IF adding THEN AddOperator(channels[editing], m)
                             ELSE RemoveOperator(channels[editing], m))
  BY DEF ModeO
<1>3. WellFormed(channels[editing], Registered, clients)
      /\ m \in channels[editing].members
  BY <1>1, <1>2, Edited DEF MembersNamed
<1>4. CASE adding
  BY <1>1, <1>2, <1>3, <1>4, RankingWellFormed, ApplyKeeps
<1>5. CASE ~adding
  BY <1>1, <1>2, <1>3, <1>5, RankingWellFormed, ApplyKeeps
<1>6. QED
  BY <1>4, <1>5

LEMMA ModeBeginKeeps ==
    ASSUME IInv, NEW c \in Fds, NEW n \in Names, ModeBegin(c, n)
    PROVE  IInv'
<1>1. /\ Exists(n) /\ editing' = Find(n) /\ applied' = FALSE
      /\ UNCHANGED <<registration, loop, dying, channels>>
  BY DEF ModeBegin
<1>2. RegistryInv' /\ Registered' = Registered
  BY <1>1, RegistryKept, RegisteredAreClients DEF IInv, RegistryInv, registration, loop
<1>3. TableInv'
  BY <1>1, <1>2, Found DEF IInv, TableInv, EditedChannelExists, Exists, loop
<1>4. QED
  BY <1>2, <1>3 DEF IInv

LEMMA ModeReplyKeeps == ASSUME IInv, ModeRefused \/ ModeEnd PROVE IInv'
<1>1. dying \subseteq dying' /\ dying' \subseteq clients
  BY SendMarks, RegisteredAreClients DEF ModeRefused, ModeEnd
<1>2. CASE ModeRefused
  BY <1>1, <1>2, OnlySendingKeeps DEF ModeRefused
<1>3. CASE ModeEnd
  <2>1. RegistryInv' /\ Registered' = Registered
    BY <1>1, <1>3, RegistryKept DEF ModeEnd, IInv, RegistryInv, registration, loop
  <2>2. TableInv'
    BY <1>3, <2>1 DEF ModeEnd, IInv, TableInv, EditedChannelExists, loop
  <2>3. QED
    BY <2>1, <2>2 DEF IInv
<1>4. QED
  BY <1>2, <1>3

-----------------------------------------------------------------------------
(* The theorems.                                                           *)

LEMMA NextKeepsIInv == IInv /\ [Next]_vars => IInv'
<1> SUFFICES ASSUME IInv, [Next]_vars PROVE IInv'
  OBVIOUS
<1>1. CASE UNCHANGED vars
  BY <1>1, StutterKeeps
<1>2. CASE Reap
  BY <1>2, ReapKeeps
<1>3. ASSUME NEW c \in Fds, Accept(c) \/ Turn(c) PROVE IInv'
  BY <1>3, AcceptKeeps, TurnKeeps
<1>4. ASSUME NEW c \in Fds,
             \/ Reply(c) \/ Disconnect(c) \/ PassMismatch(c)
             \/ \E n \in Nicks : PrivmsgUser(c, n)
             \/ \E n \in Names : PrivmsgChannel(c, n)
      PROVE  IInv'
  BY <1>4, SendingLinesKeep
<1>5. ASSUME NEW c \in Fds, Pass(c) \/ User(c) \/ \E n \in Nicks : Nick(c, n)
      PROVE  IInv'
  BY <1>5, PassKeeps, UserKeeps, NickKeeps
<1>6. ASSUME NEW c \in Fds, NEW n \in Names,
             \/ \E key \in Keys : JoinExisting(c, n, key)
             \/ JoinNew(c, n)
             \/ Part(c, n) \/ \E victim \in Fds : Kick(c, n, victim)
             \/ \E t \in Topics : Topic(c, n, t)
             \/ \E who \in Nicks : Invite(c, n, who)
             \/ ModeBegin(c, n)
      PROVE  IInv'
  BY <1>6, JoinExistingKeeps, JoinNewKeeps, PartKickKeep, TopicKeeps, InviteKeeps,
     ModeBeginKeeps
<1>7. CASE \/ \E v \in BOOLEAN : ModeI(v) \/ ModeT(v)
           \/ \E key \in Keys : ModeAddKey(key)
           \/ ModeClearKey
           \/ \E lim \in Limits : ModeAddLimit(lim)
           \/ ModeClearLimit
  BY <1>7, ModeFlagsKeep
<1>8. CASE \E adding \in BOOLEAN, who \in Nicks : ModeO(adding, who)
  BY <1>8, ModeOKeeps
<1>9. CASE ModeRefused \/ ModeEnd
  BY <1>9, ModeReplyKeeps
<1>10. QED
  BY <1>1, <1>2, <1>3, <1>4, <1>5, <1>6, <1>7, <1>8, <1>9 DEF Next

\* The inductive invariant holds in every reachable state.
THEOREM InductiveInvariant == Spec => []IInv
BY InitIInv, NextKeepsIInv, PTL DEF Spec

\* The variables keep their types (all of Server's state).
THEOREM TypeCorrect == Spec => []TypeOK
<1>1. IInv => TypeOK
  BY DEF IInv, RegistryInv, TableInv, WellFormed, TypeOK
<1>2. QED
  BY <1>1, InductiveInvariant, PTL

\* Whatever clients do and whoever is dropped, live nicknames stay distinct
\* under case folding (findClientByNick, cmdNick).
THEOREM NicknamesAreUnique == Spec => []NickUnique
<1>1. IInv => NickUnique
  BY DEF IInv, RegistryInv
<1>2. QED
  BY <1>1, InductiveInvariant, PTL

\* No channel ever refers to a deleted client (sweepChannels before delete).
THEOREM PointersStayValid == Spec => []NoDanglingPointers
<1>1. IInv => NoDanglingPointers
  BY DEF IInv, TableInv, WellFormed, NoDanglingPointers, Registered
<1>2. QED
  BY <1>1, InductiveInvariant, PTL

\* Only registered clients are in channels (the gate of handleLine).
THEOREM MembersStayRegistered == Spec => []MembersAreRegistered
<1>1. IInv => MembersAreRegistered
  BY DEF IInv, TableInv, WellFormed, MembersAreRegistered
<1>2. QED
  BY <1>1, InductiveInvariant, PTL

\* Every operator of a channel is one of its members (PART, KICK, MODE, sweep).
THEOREM OperatorsStayMembers == Spec => []OperatorsAreMembers
<1>1. IInv => OperatorsAreMembers
  BY DEF IInv, TableInv, WellFormed, OperatorsAreMembers
<1>2. QED
  BY <1>1, InductiveInvariant, PTL

\* Nobody inside a channel carries an invitation to it (JOIN, INVITE).
THEOREM InvitationsAreForOutsiders == Spec => []InviteesAreOutside
<1>1. IInv => InviteesAreOutside
  BY DEF IInv, TableInv, WellFormed, InviteesAreOutside
<1>2. QED
  BY <1>1, InductiveInvariant, PTL

\* A channel ends with its last member (PART, KICK, sweepChannels).
THEOREM ChannelsEndWithTheirMembers == Spec => []NoEmptyChannel
<1>1. IInv => NoEmptyChannel
  BY DEF IInv, TableInv, WellFormed, NoEmptyChannel, IsEmpty
<1>2. QED
  BY <1>1, InductiveInvariant, PTL

\* The table holds each channel under its folded name (getOrCreateChannel,
\* removeChannel), so that no two channels differ only in case.
THEOREM ChannelKeysAreFolded == Spec => []KeyedByFoldedName
<1>1. IInv => KeyedByFoldedName
  BY DEF IInv, TableInv, KeyedByFoldedName
<1>2. QED
  BY <1>1, InductiveInvariant, PTL

\* The password precedes every name (cmdNick, cmdUser).
THEOREM PasswordComesFirst == Spec => []PasswordFirst
<1>1. IInv => PasswordFirst
  BY DEF IInv, RegistryInv
<1>2. QED
  BY <1>1, InductiveInvariant, PTL

\* The welcome goes to exactly the clients that completed registration, in
\* whatever order their flags came (completeRegistrationIfReady).
THEOREM WelcomeIsOnRegistration == Spec => []WelcomedOnRegistration
<1>1. IInv => WelcomedOnRegistration
  BY DEF IInv, RegistryInv
<1>2. QED
  BY <1>1, InductiveInvariant, PTL

\* The channel a MODE string works on cannot go away under it.
THEOREM EditedChannelStays == Spec => []EditedChannelExists
<1>1. IInv => EditedChannelExists
  BY DEF IInv, TableInv
<1>2. QED
  BY <1>1, InductiveInvariant, PTL

\* The registry is sound, for any number of clients and any reuse of descriptors.
THEOREM RegistryStaysSound == Spec => []RegistryIsSound
BY NicknamesAreUnique, PasswordComesFirst, WelcomeIsOnRegistration, PTL DEF RegistryIsSound

\* Members, operators and invitees stay consistent on every way in and out.
THEOREM RolesStayConsistent == Spec => []RolesAreConsistent
BY OperatorsStayMembers, MembersStayRegistered, InvitationsAreForOutsiders, PTL
   DEF RolesAreConsistent

\* The channel table is sound, also in the middle of a MODE string.
THEOREM TableStaysSound == Spec => []TableIsSound
BY ChannelKeysAreFolded, ChannelsEndWithTheirMembers, EditedChannelStays, PTL
   DEF TableIsSound

-----------------------------------------------------------------------------
(* What one step can do to one channel.                                    *)

\* turn enters the existing channel k.
Enters(k) ==
    /\ Command(turn)
    /\ turn \notin channels[k].members
    /\ \E key \in Keys : PassesModeGates(channels[k], turn, key)
    /\ channels'[k] = RemoveInvite(AddMember(channels[k], turn), turn)

\* A member of k goes, by its own command or an operator's; k may end.
Goes(k) ==
    \E m \in channels[k].members :
        /\ turn \in {m} \cup channels[k].operators
        /\ LET left == RemoveOperator(RemoveMember(channels[k], m), m)
           IN  IF k \in DOMAIN channels' THEN channels'[k] = left ELSE IsEmpty(left)

\* A client that is not being dropped is invited to k.
GetsInvitee(k) ==
    \E t \in clients \ dying : channels'[k] = AddInvite(channels[k], t)

\* Topic or modes of k change; ranks and modes only if k is being edited.
IsTuned(k) ==
    /\ channels'[k].members = channels[k].members
    /\ channels'[k].invited = channels[k].invited
    /\ \/ /\ editing = k
          /\ channels'[k].topic = channels[k].topic
       \/ /\ channels'[k].operators = channels[k].operators
          /\ Modes(channels'[k]) = Modes(channels[k])
          /\ turn \in channels[k].members \ dying
          /\ channels[k].topicRestricted => turn \in channels[k].operators

\* Channel k is swept at the end of an iteration; it may end.
IsSwept(k) ==
    /\ clients' = clients \ dying
    /\ LET left == RemoveClients(channels[k], dying)
       IN  IF k \in DOMAIN channels' THEN channels'[k] = left ELSE IsEmpty(left)

\* What a step does to a channel that exists before it.
Fate(k) ==
    \/ IsSwept(k)
    \/ /\ clients \subseteq clients'
       /\ \/ k \in DOMAIN channels' /\ channels'[k] = channels[k]
          \/ k \in DOMAIN channels' /\ (Enters(k) \/ GetsInvitee(k) \/ IsTuned(k))
          \/ Goes(k)

\* What a step does to a channel that exists only after it.
Birth(k) ==
    /\ turn \in clients \ dying /\ clients' = clients
    /\ \E n \in Names :
        channels'[k] = AddOperator(AddMember(NewChannel(n), turn), turn)

Fates ==
    /\ \A k \in DOMAIN channels : Fate(k)
    /\ \A k \in DOMAIN channels' \ DOMAIN channels : Birth(k)

LEMMA PutFates ==
    ASSUME NEW k, NEW ch, channels' = Put(k, ch), clients' = clients,
           k \in DOMAIN channels => Fate(k),
           k \notin DOMAIN channels => Birth(k)
    PROVE  Fates
<1>1. DOMAIN channels' = DOMAIN channels \cup {k}
      /\ \A j \in DOMAIN channels \ {k} : channels'[j] = channels[j]
  BY DEF Put
<1>2. QED
  BY <1>1 DEF Fates, Fate

LEMMA PutOne ==
    ASSUME NEW k, NEW ch, channels' = Put(k, ch)
    PROVE  k \in DOMAIN channels' /\ channels'[k] = ch
BY DEF Put

LEMMA LeaveFates ==
    ASSUME NEW k \in DOMAIN channels, NEW m \in channels[k].members, Leave(k, m),
           turn \in {m} \cup channels[k].operators, clients' = clients
    PROVE  Fates
<1> DEFINE left == RemoveOperator(RemoveMember(channels[k], m), m)
<1>1. CASE IsEmpty(left)
  <2>1. channels' = Remove(k)
    BY <1>1 DEF Leave
  <2>2. DOMAIN channels' = DOMAIN channels \ {k}
        /\ \A j \in DOMAIN channels \ {k} : channels'[j] = channels[j]
    BY <2>1 DEF Remove
  <2>3. QED
    BY <1>1, <2>2 DEF Fates, Fate, Goes
<1>2. CASE ~IsEmpty(left)
  <2>1. channels' = Put(k, left)
    BY <1>2 DEF Leave
  <2>2. Goes(k)
    BY <2>1, PutOne DEF Goes
  <2>3. QED
    BY <2>1, <2>2, PutFates DEF Fate
<1>3. QED
  BY <1>1, <1>2

LEMMA SameFates == ASSUME UNCHANGED <<channels, clients>> PROVE Fates
BY DEF Fates, Fate

LEMMA ReapFates == ASSUME Reap PROVE Fates
<1>1. clients' = clients \ dying /\ channels' = Sweep(dying)
  BY DEF Reap, Reaped
<1>2. \A k \in DOMAIN channels : IsSwept(k)
  BY <1>1 DEF IsSwept, Sweep
<1>3. DOMAIN channels' \subseteq DOMAIN channels
  BY <1>1 DEF Sweep
<1>4. QED
  BY <1>2, <1>3 DEF Fates, Fate

LEMMA JoinFates ==
    ASSUME NEW c \in Fds, NEW n \in Names,
           JoinNew(c, n) \/ \E key \in Keys : JoinExisting(c, n, key)
    PROVE  Fates
<1>1. c = turn /\ turn \in clients \ dying /\ Command(turn) /\ clients' = clients
  BY DEF JoinNew, JoinExisting, Command, Line, loop
<1>2. CASE JoinNew(c, n)
  <2>1. /\ Find(n) \notin DOMAIN channels
        /\ channels' = Put(Find(n), AddOperator(AddMember(NewChannel(n), turn), turn))
    BY <1>1, <1>2 DEF JoinNew, Exists
  <2>2. Birth(Find(n))
    BY <1>1, <2>1, PutOne DEF Birth
  <2>3. QED
    BY <1>1, <2>1, <2>2, PutFates
<1>3. CASE \E key \in Keys : JoinExisting(c, n, key)
  <2>1. PICK key \in Keys : JoinExisting(c, n, key)
    BY <1>3
  <2>2. /\ Find(n) \in DOMAIN channels
        /\ turn \notin channels[Find(n)].members
        /\ PassesModeGates(channels[Find(n)], turn, key)
        /\ channels' = Put(Find(n), RemoveInvite(AddMember(channels[Find(n)], turn), turn))
    BY <1>1, <2>1 DEF JoinExisting, Exists
  <2>3. Enters(Find(n)) /\ Find(n) \in DOMAIN channels'
    BY <1>1, <2>2, PutOne DEF Enters
  <2>4. QED
    BY <1>1, <2>2, <2>3, PutFates DEF Fate
<1>4. QED
  BY <1>2, <1>3

LEMMA LeavingFates ==
    ASSUME NEW c \in Fds, NEW n \in Names,
           Part(c, n) \/ \E victim \in Fds : Kick(c, n, victim)
    PROVE  Fates
<1>1. /\ Find(n) \in DOMAIN channels /\ clients' = clients
      /\ \E m \in channels[Find(n)].members :
            Leave(Find(n), m) /\ turn \in {m} \cup channels[Find(n)].operators
  BY DEF Part, Kick, Command, Line, Exists, MembersNamed, loop
<1>2. QED
  BY <1>1, LeaveFates

LEMMA InviteFates ==
    ASSUME NEW c \in Fds, NEW n \in Names, NEW who \in Nicks, Invite(c, n, who)
    PROVE  Fates
<1>1. PICK t \in clients \ dying : channels' = Put(Find(n), AddInvite(channels[Find(n)], t))
  BY DEF Invite, HoldersOf
<1>2. Find(n) \in DOMAIN channels /\ clients' = clients
  BY DEF Invite, Exists, loop
<1>3. GetsInvitee(Find(n)) /\ Find(n) \in DOMAIN channels'
  BY <1>1, PutOne DEF GetsInvitee
<1>4. QED
  BY <1>1, <1>2, <1>3, PutFates DEF Fate

LEMMA TopicFates ==
    ASSUME IInv, NEW c \in Fds, NEW n \in Names, NEW t \in Topics, Topic(c, n, t)
    PROVE  Fates
<1>1. /\ Exists(n) /\ Find(n) \in DOMAIN channels /\ clients' = clients
      /\ turn \in channels[Find(n)].members \ dying
      /\ channels[Find(n)].topicRestricted => turn \in channels[Find(n)].operators
      /\ channels' = Put(Find(n), SetTopic(channels[Find(n)], t))
  BY DEF Topic, Command, Line, Exists, loop
<1>2. channels[Find(n)] \in Channels
  BY <1>1, Found DEF WellFormed
<1>3. IsTuned(Find(n)) /\ Find(n) \in DOMAIN channels'
  BY <1>1, <1>2, PutOne DEF IsTuned, Modes, SetTopic, Channels
<1>4. QED
  BY <1>1, <1>3, PutFates DEF Fate

LEMMA ModeFates ==
    ASSUME IInv, editing # NoChannel,
           NEW f, NEW ch, Apply(f, ch),
           ch.members = channels[editing].members, ch.invited = channels[editing].invited,
           ch.topic = channels[editing].topic
    PROVE  Fates
<1>1. /\ editing \in DOMAIN channels /\ clients' = clients
      /\ channels' = Put(editing, ch)
  BY DEF Apply, IInv, TableInv, EditedChannelExists, loop
<1>2. IsTuned(editing) /\ editing \in DOMAIN channels'
  BY <1>1, PutOne DEF IsTuned
<1>3. QED
  BY <1>1, <1>2, PutFates DEF Fate

LEMMA ModeStringFates ==
    ASSUME IInv,
           \/ \E v \in BOOLEAN : ModeI(v) \/ ModeT(v)
           \/ \E key \in Keys : ModeAddKey(key)
           \/ ModeClearKey
           \/ \E lim \in Limits : ModeAddLimit(lim)
           \/ ModeClearLimit
           \/ \E adding \in BOOLEAN, who \in Nicks : ModeO(adding, who)
    PROVE  Fates
<1>1. editing # NoChannel
  BY DEF ModeI, ModeT, ModeAddKey, ModeClearKey, ModeAddLimit, ModeClearLimit, ModeO
<1>2. channels[editing] \in Channels
  BY <1>1, Edited DEF WellFormed
<1> DEFINE Change(f, ch) == /\ Apply(f, ch)
                             /\ ch.members = channels[editing].members
                             /\ ch.invited = channels[editing].invited
                             /\ ch.topic = channels[editing].topic
           Changes == \E f, ch : Change(f, ch)
<1>3. Changes
  <2>1. ASSUME NEW v \in BOOLEAN, ModeI(v) \/ ModeT(v) PROVE Changes
    BY <1>2, <2>1 DEF ModeI, ModeT, SetInviteOnly, SetTopicRestricted, Channels
  <2>2. ASSUME NEW key \in Keys, ModeAddKey(key) PROVE Changes
    BY <1>2, <2>2 DEF ModeAddKey, SetKey, Channels
  <2>3. CASE ModeClearKey
    BY <1>2, <2>3 DEF ModeClearKey, ClearKey, Channels
  <2>4. ASSUME NEW lim \in Limits, ModeAddLimit(lim) PROVE Changes
    BY <1>2, <2>4 DEF ModeAddLimit, SetUserLimit, Channels
  <2>5. CASE ModeClearLimit
    BY <1>2, <2>5 DEF ModeClearLimit, ClearUserLimit, Channels
  <2>6. ASSUME NEW adding \in BOOLEAN, NEW who \in Nicks, ModeO(adding, who) PROVE Changes
    BY <1>2, <2>6 DEF ModeO, AddOperator, RemoveOperator, Channels
  <2>7. QED
    BY <2>1, <2>2, <2>3, <2>4, <2>5, <2>6
<1>4. QED
  BY <1>1, <1>3, ModeFates

LEMMA NextFates == ASSUME IInv, [Next]_vars PROVE Fates
<1>1. CASE UNCHANGED vars
  BY <1>1, SameFates DEF vars, loop
<1>2. CASE Reap
  BY <1>2, ReapFates
<1>3. ASSUME NEW c \in Fds, Accept(c) PROVE Fates
  <2>1. \A k \in DOMAIN channels : channels'[k] = channels[k]
    BY <1>3 DEF Accept
  <2>2. QED
    BY <1>3, <2>1 DEF Accept, Fates, Fate
<1>4. ASSUME NEW c \in Fds,
             \/ Turn(c) \/ Reply(c) \/ Disconnect(c) \/ Pass(c) \/ PassMismatch(c) \/ User(c)
             \/ \E n \in Nicks : Nick(c, n) \/ PrivmsgUser(c, n)
             \/ \E n \in Names : PrivmsgChannel(c, n) \/ ModeBegin(c, n)
      PROVE  Fates
  BY <1>4, SameFates
     DEF Turn, Reply, Disconnect, Pass, PassMismatch, User, Nick, PrivmsgUser,
         PrivmsgChannel, ModeBegin, loop
<1>5. ASSUME NEW c \in Fds, NEW n \in Names,
             \/ JoinNew(c, n) \/ \E key \in Keys : JoinExisting(c, n, key)
             \/ Part(c, n) \/ \E victim \in Fds : Kick(c, n, victim)
             \/ \E t \in Topics : Topic(c, n, t)
             \/ \E who \in Nicks : Invite(c, n, who)
      PROVE  Fates
  BY <1>5, JoinFates, LeavingFates, TopicFates, InviteFates
<1>6. CASE \/ \E v \in BOOLEAN : ModeI(v) \/ ModeT(v)
           \/ \E key \in Keys : ModeAddKey(key)
           \/ ModeClearKey
           \/ \E lim \in Limits : ModeAddLimit(lim)
           \/ ModeClearLimit
           \/ \E adding \in BOOLEAN, who \in Nicks : ModeO(adding, who)
  BY <1>6, ModeStringFates
<1>7. CASE ModeRefused \/ ModeEnd
  BY <1>7, SameFates DEF ModeRefused, ModeEnd, loop
<1>8. QED
  BY <1>1, <1>2, <1>3, <1>4, <1>5, <1>6, <1>7 DEF Next

-----------------------------------------------------------------------------
(* Action properties.                                                      *)

LEMMA EditingStarts ==
    ASSUME [Next]_vars, editing' # editing, editing' # NoChannel
    PROVE  \E c \in Fds, n \in Names : ModeBegin(c, n)
<1>1. ~Reap /\ ~(UNCHANGED vars)
  BY DEF Reap, vars, modeRun
<1>2. ASSUME NEW c \in Fds,
             \/ Accept(c) \/ Turn(c) \/ Reply(c) \/ Disconnect(c)
             \/ Pass(c) \/ PassMismatch(c) \/ User(c)
             \/ \E n \in Nicks : Nick(c, n) \/ PrivmsgUser(c, n)
      PROVE  FALSE
  BY <1>2 DEF Accept, Turn, Reply, Disconnect, Pass, PassMismatch, User, Nick, PrivmsgUser,
              modeRun
<1>3. ASSUME NEW c \in Fds, NEW n \in Names,
             \/ JoinNew(c, n) \/ \E key \in Keys : JoinExisting(c, n, key)
             \/ Part(c, n) \/ \E victim \in Fds : Kick(c, n, victim)
             \/ PrivmsgChannel(c, n)
             \/ \E t \in Topics : Topic(c, n, t)
             \/ \E who \in Nicks : Invite(c, n, who)
      PROVE  FALSE
  BY <1>3 DEF JoinNew, JoinExisting, Part, Kick, PrivmsgChannel, Topic, Invite, modeRun
<1>4. ~(\/ \E v \in BOOLEAN : ModeI(v) \/ ModeT(v)
        \/ \E key \in Keys : ModeAddKey(key)
        \/ ModeClearKey
        \/ \E lim \in Limits : ModeAddLimit(lim)
        \/ ModeClearLimit
        \/ \E adding \in BOOLEAN, who \in Nicks : ModeO(adding, who))
  BY DEF ModeI, ModeT, ModeAddKey, ModeClearKey, ModeAddLimit, ModeClearLimit, ModeO, Apply
<1>5. ~ModeRefused /\ ~ModeEnd
  BY DEF ModeRefused, ModeEnd, modeRun
<1>6. QED
  BY <1>1, <1>2, <1>3, <1>4, <1>5 DEF Next

LEMMA SurvivorIsChannel ==
    ASSUME IInv, NEW k \in Surviving
    PROVE  k \in DOMAIN channels /\ k \in DOMAIN channels'
           /\ channels[k] \in Channels /\ k # NoChannel
BY ServerAssumption DEF Surviving, IInv, TableInv, WellFormed

\* Operator status comes from operators, through MODE only; an opless channel
\* stays opless (applyModeChanges, joinOneChannel, decision D20).
THEOREM PrivilegeIsGranted == Spec => PrivilegeComesFromAnOperator
<1>1. ASSUME IInv, [Next]_vars, NEW k \in Surviving
      PROVE  /\ ~(channels'[k].operators \subseteq channels[k].operators) => editing = k
             /\ editing' = k /\ editing # k => turn \in channels[k].operators \ dying
  <2>1. Fate(k) /\ channels[k] \in Channels
        /\ k \in DOMAIN channels /\ k \in DOMAIN channels' /\ k # NoChannel
    BY <1>1, NextFates, SurvivorIsChannel DEF Fates
  <2>2. channels'[k].operators \subseteq channels[k].operators \/ editing = k
    BY <2>1 DEF Fate, IsSwept, Enters, Goes, GetsInvitee, IsTuned, RemoveClients,
                RemoveInvite, AddMember, RemoveOperator, RemoveMember, AddInvite, Channels
  <2>3. ASSUME editing' = k, editing # k PROVE turn \in channels[k].operators \ dying
    <3>1. PICK c \in Fds, n \in Names : ModeBegin(c, n)
      BY <1>1, <2>1, <2>3, EditingStarts
    <3>2. QED
      BY <2>3, <3>1 DEF ModeBegin, Command, Line
  <2>4. QED
    BY <2>2, <2>3
<1>2. IInv /\ [Next]_vars => [PrivilegeStep]_vars
  BY <1>1 DEF PrivilegeStep
<1>3. QED
  BY <1>2, InductiveInvariant, PTL DEF Spec, PrivilegeComesFromAnOperator

\* Modes change inside MODE strings, topics by members, under +t by operators.
THEOREM SettingsAreGuarded == Spec => SettingsChangeByRight
<1>1. ASSUME IInv, [Next]_vars, NEW k \in Surviving
      PROVE  /\ Modes(channels'[k]) # Modes(channels[k]) => editing = k
             /\ channels'[k].topic # channels[k].topic =>
                 /\ turn \in channels[k].members \ dying
                 /\ channels[k].topicRestricted => turn \in channels[k].operators
  <2>1. Fate(k) /\ channels[k] \in Channels
        /\ k \in DOMAIN channels /\ k \in DOMAIN channels'
    BY <1>1, NextFates, SurvivorIsChannel DEF Fates
  <2>2. CASE IsTuned(k)
    BY <2>2 DEF IsTuned
  <2>3. CASE ~IsTuned(k)
    <3>1. Modes(channels'[k]) = Modes(channels[k]) /\ channels'[k].topic = channels[k].topic
      BY <2>1, <2>3
         DEF Fate, IsSwept, Enters, Goes, GetsInvitee, RemoveClients, RemoveInvite,
             AddMember, RemoveOperator, RemoveMember, AddInvite, Modes, Channels
    <3>2. QED
      BY <3>1
  <2>4. QED
    BY <2>2, <2>3
<1>2. IInv /\ [Next]_vars => [SettingsStep]_vars
  BY <1>1 DEF SettingsStep
<1>3. QED
  BY <1>2, InductiveInvariant, PTL DEF Spec, SettingsChangeByRight

\* Rank, modes and topic change only at the hand of who may change them.
THEOREM ChangesAreGuarded == Spec => ChangesComeByRight
<1>1. [PrivilegeStep]_vars /\ [SettingsStep]_vars => [PrivilegeStep /\ SettingsStep]_vars
  OBVIOUS
<1>2. QED
  BY <1>1, PrivilegeIsGranted, SettingsAreGuarded, PTL
     DEF PrivilegeComesFromAnOperator, SettingsChangeByRight, ChangesComeByRight

\* An invitation is lost only by entering or by deletion of the invitee.
THEOREM InvitationsLast == Spec => InviteSurvives
<1>1. ASSUME IInv, [Next]_vars, NEW k \in Surviving,
             NEW c \in channels[k].invited \ channels'[k].invited
      PROVE  c \in channels'[k].members \/ c \notin clients'
  <2>1. Fate(k) /\ channels[k] \in Channels
        /\ k \in DOMAIN channels /\ k \in DOMAIN channels'
    BY <1>1, NextFates, SurvivorIsChannel DEF Fates
  <2>2. QED
    BY <1>1, <2>1
       DEF Fate, IsSwept, Enters, Goes, GetsInvitee, IsTuned, RemoveClients,
           RemoveInvite, AddMember, RemoveOperator, RemoveMember, AddInvite, Channels
<1>2. IInv /\ [Next]_vars => [InviteStep]_vars
  BY <1>1 DEF InviteStep
<1>3. QED
  BY <1>2, InductiveInvariant, PTL DEF Spec, InviteSurvives

\* +i admits invitees only, and +l never seats more than its limit by a JOIN.
THEOREM EntryIsGated == Spec => EntryRespectsModes
<1>1. ASSUME IInv, [Next]_vars, NEW k \in Surviving,
             NEW c \in channels'[k].members \ channels[k].members
      PROVE  /\ channels[k].inviteOnly => c \in channels[k].invited
             /\ channels[k].limit # NoLimit =>
                    Cardinality(channels'[k].members) <= channels[k].limit
  <2>1. Fate(k) /\ channels[k] \in Channels
        /\ k \in DOMAIN channels /\ k \in DOMAIN channels'
    BY <1>1, NextFates, SurvivorIsChannel DEF Fates
  <2>2. Enters(k)
    BY <1>1, <2>1
       DEF Fate, IsSwept, Goes, GetsInvitee, IsTuned, RemoveClients,
           RemoveOperator, RemoveMember, AddInvite, Channels
  <2>3. c = turn /\ channels'[k].members = channels[k].members \cup {turn}
    BY <1>1, <2>1, <2>2 DEF Enters, RemoveInvite, AddMember, Channels
  <2>4. IsFiniteSet(channels[k].members)
    BY <2>1, ChannelAssumption, FS_Subset DEF Channels
  <2>5. Cardinality(channels'[k].members) = Cardinality(channels[k].members) + 1
        /\ Cardinality(channels[k].members) \in Nat
    BY <2>2, <2>3, <2>4, FS_AddElement, FS_CardinalityType DEF Enters
  <2>6. channels[k].limit \in Nat
    <3>1. channels[k].limit \in Limits \cup {NoLimit}
      BY <2>1 DEF Channels
    <3>2. Limits \subseteq Nat
      BY ChannelAssumption
    <3>3. NoLimit \in Nat
      BY DEF NoLimit
    <3>4. QED
      BY <3>1, <3>2, <3>3
  <2>7. QED
    BY <2>2, <2>3, <2>5, <2>6 DEF Enters, PassesModeGates
<1>2. IInv /\ [Next]_vars => [EntryStep]_vars
  BY <1>1 DEF EntryStep
<1>3. QED
  BY <1>2, InductiveInvariant, PTL DEF Spec, EntryRespectsModes

\* Entry is by the modes of the channel, and an invitation waits for its entry.
THEOREM DoorStaysKept == Spec => DoorIsKept
<1>1. [EntryStep]_vars /\ [InviteStep]_vars => [EntryStep /\ InviteStep]_vars
  OBVIOUS
<1>2. QED
  BY <1>1, EntryIsGated, InvitationsLast, PTL
     DEF EntryRespectsModes, InviteSurvives, DoorIsKept

\* Memberships end by the member, by an operator or by deletion.
THEOREM MembershipIsSafe == Spec => MembershipEndsByRight
<1>1. ASSUME IInv, [Next]_vars, NEW k \in DOMAIN channels, NEW m \in channels[k].members
      PROVE  \/ m \notin clients'
             \/ k \in DOMAIN channels' /\ m \in channels'[k].members
             \/ turn \in {m} \cup channels[k].operators
  <2>1. Fate(k)
    BY <1>1, NextFates DEF Fates
  <2>2. channels[k] \in Channels
    BY <1>1 DEF IInv, TableInv, WellFormed
  <2>3. CASE IsSwept(k)
    <3>1. RemoveClients(channels[k], dying).members = channels[k].members \ dying
      BY <2>2 DEF RemoveClients, Channels
    <3>2. CASE m \in dying
      BY <2>3, <3>2 DEF IsSwept
    <3>3. CASE m \notin dying
      <4>1. m \in RemoveClients(channels[k], dying).members
        BY <1>1, <3>1, <3>3
      <4>2. ~IsEmpty(RemoveClients(channels[k], dying))
        BY <4>1 DEF IsEmpty
      <4>3. QED
        BY <2>3, <4>1, <4>2 DEF IsSwept
    <3>4. QED
      BY <3>2, <3>3
  <2>4. CASE Goes(k)
    <3>1. PICK gone \in channels[k].members :
            /\ turn \in {gone} \cup channels[k].operators
            /\ LET left == RemoveOperator(RemoveMember(channels[k], gone), gone)
               IN  IF k \in DOMAIN channels' THEN channels'[k] = left ELSE IsEmpty(left)
      BY <2>4 DEF Goes
    <3>2. RemoveOperator(RemoveMember(channels[k], gone), gone).members
              = channels[k].members \ {gone}
      BY <2>2 DEF RemoveOperator, RemoveMember, Channels
    <3>3. CASE m = gone
      BY <3>1, <3>3
    <3>4. CASE m # gone
      <4>1. m \in RemoveOperator(RemoveMember(channels[k], gone), gone).members
        BY <1>1, <3>2, <3>4
      <4>2. ~IsEmpty(RemoveOperator(RemoveMember(channels[k], gone), gone))
        BY <4>1 DEF IsEmpty
      <4>3. QED
        BY <3>1, <4>1, <4>2
    <3>5. QED
      BY <3>3, <3>4
  <2>5. CASE k \in DOMAIN channels' /\ channels'[k] = channels[k]
    BY <2>5
  <2>6. CASE k \in DOMAIN channels' /\ (Enters(k) \/ GetsInvitee(k) \/ IsTuned(k))
    BY <2>2, <2>6
       DEF Enters, GetsInvitee, IsTuned, RemoveInvite, AddMember, AddInvite, Channels
  <2>7. QED
    BY <2>1, <2>3, <2>4, <2>5, <2>6 DEF Fate
<1>2. IInv /\ [Next]_vars => [MembershipStep]_vars
  BY <1>1 DEF MembershipStep
<1>3. QED
  BY <1>2, InductiveInvariant, PTL DEF Spec, MembershipEndsByRight

\* A new channel carries nothing over from an earlier one of its name.
THEOREM NewChannelsAreFresh == Spec => ChannelsStartFresh
<1>1. ASSUME IInv, [Next]_vars, NEW k \in DOMAIN channels' \ DOMAIN channels
      PROVE  /\ channels'[k].members = {turn} /\ channels'[k].operators = {turn}
             /\ channels'[k].invited = {}
             /\ channels'[k].topic = EmptyTopic /\ channels'[k].key = NoKey
             /\ channels'[k].limit = NoLimit
             /\ ~channels'[k].inviteOnly /\ ~channels'[k].topicRestricted
  <2>1. PICK n \in Names :
            channels'[k] = AddOperator(AddMember(NewChannel(n), turn), turn)
    BY <1>1, NextFates DEF Fates, Birth
  <2>2. QED
    BY <2>1 DEF AddOperator, AddMember, NewChannel
<1>2. IInv /\ [Next]_vars => [FreshStep]_vars
  BY <1>1 DEF FreshStep
<1>3. QED
  BY <1>2, InductiveInvariant, PTL DEF Spec, ChannelsStartFresh

\* A client marked for disconnection stays marked, under its nickname, until
\* the end of the iteration deletes it.
LEMMA MarksStay ==
    ASSUME IInv, [Next]_vars, NEW m \in dying
    PROVE  m \notin clients' \/ (m \in dying' /\ nick'[m] = nick[m])
<1>0. dying \subseteq clients /\ nick \in [Fds -> Nicks \cup {NoNick}] /\ clients \subseteq Fds
  BY DEF IInv, RegistryInv
<1>1. CASE Reap
  BY <1>1 DEF Reap, Reaped
<1>2. CASE UNCHANGED vars
  BY <1>2 DEF vars, registration
<1>3. ASSUME NEW c \in Fds, NEW n \in Nicks, Nick(c, n)
      PROVE  m \in dying' /\ nick'[m] = nick[m]
  <2>1. c \in clients \ dying /\ nick' = [nick EXCEPT ![c] = n]
    BY <1>3 DEF Nick, Line
  <2>2. (\E R : Send(R, channels)) \/ dying' = dying
    BY <1>3 DEF Nick, CompleteRegistrationIfReady
  <2>3. dying \subseteq dying'
    BY <1>0, <2>2, SendMarks
  <2>4. QED
    BY <1>0, <2>1, <2>3
<1>4. ASSUME NEW c \in Fds, Accept(c) \/ Turn(c) \/ Pass(c)
      PROVE  m \in dying' /\ nick'[m] = nick[m]
  BY <1>4 DEF Accept, Turn, Pass, registration
<1>5. ASSUME NEW c \in Fds,
             \/ Reply(c) \/ Disconnect(c) \/ PassMismatch(c) \/ User(c)
             \/ \E n \in Nicks : PrivmsgUser(c, n)
             \/ \E n \in Names : PrivmsgChannel(c, n)
      PROVE  m \in dying' /\ nick'[m] = nick[m]
  <2>1. nick' = nick
    BY <1>5 DEF Reply, Disconnect, PassMismatch, User, PrivmsgUser, PrivmsgChannel, registration
  <2>2. \/ \E R : Send(R, channels)
        \/ dying' = dying
        \/ c \in clients /\ DisconnectClient(c)
    BY <1>5 DEF Reply, Disconnect, PassMismatch, User, CompleteRegistrationIfReady,
                PrivmsgUser, PrivmsgChannel, Line
  <2>3. dying \subseteq dying'
    BY <1>0, <2>2, SendMarks, DisconnectMarks
  <2>4. QED
    BY <2>1, <2>3
<1>6. ASSUME NEW c \in Fds, NEW n \in Names,
             \/ JoinNew(c, n) \/ \E key \in Keys : JoinExisting(c, n, key)
             \/ Part(c, n) \/ \E victim \in Fds : Kick(c, n, victim)
             \/ \E t \in Topics : Topic(c, n, t)
             \/ \E who \in Nicks : Invite(c, n, who)
             \/ ModeBegin(c, n)
      PROVE  m \in dying' /\ nick'[m] = nick[m]
  <2>1. nick' = nick
    BY <1>6 DEF JoinNew, JoinExisting, Part, Kick, Topic, Invite, ModeBegin, registration
  <2>2. (\E R, chans : Send(R, chans)) \/ dying' = dying
    BY <1>6 DEF JoinNew, JoinExisting, Part, Kick, Topic, Invite, ModeBegin
  <2>3. dying \subseteq dying'
    BY <1>0, <2>2, SendMarks
  <2>4. QED
    BY <2>1, <2>3
<1>7. CASE \/ \E v \in BOOLEAN : ModeI(v) \/ ModeT(v)
           \/ \E key \in Keys : ModeAddKey(key)
           \/ ModeClearKey
           \/ \E lim \in Limits : ModeAddLimit(lim)
           \/ ModeClearLimit
           \/ \E adding \in BOOLEAN, who \in Nicks : ModeO(adding, who)
  BY <1>7 DEF ModeI, ModeT, ModeAddKey, ModeClearKey, ModeAddLimit, ModeClearLimit, ModeO,
              Apply, registration
<1>8. CASE ModeRefused \/ ModeEnd
  <2>1. nick' = nick /\ ((\E R : Send(R, channels)) \/ dying' = dying)
    BY <1>8 DEF ModeRefused, ModeEnd, registration
  <2>2. dying \subseteq dying'
    BY <1>0, <2>1, SendMarks
  <2>3. QED
    BY <2>1, <2>2
<1>9. QED
  BY <1>1, <1>2, <1>3, <1>4, <1>5, <1>6, <1>7, <1>8 DEF Next

\* Between mark and deletion a client enters no channel, is invited nowhere
\* and keeps its nickname (disconnectClient, reapDisconnected).
THEOREM MarkedClientsAreInert == Spec => MarkedClientsTakeNoPart
<1>1. ASSUME IInv, [Next]_vars, NEW m \in dying
      PROVE  \/ m \notin clients'
             \/ /\ m \in dying' /\ nick'[m] = nick[m]
                /\ \A k \in DOMAIN channels' :
                     m \in channels'[k].members \cup channels'[k].invited =>
                         /\ k \in DOMAIN channels
                         /\ m \in channels[k].members \cup channels[k].invited
  <2>1. SUFFICES ASSUME m \in clients',
                        NEW k \in DOMAIN channels',
                        m \in channels'[k].members \cup channels'[k].invited
                 PROVE  /\ k \in DOMAIN channels
                        /\ m \in channels[k].members \cup channels[k].invited
    BY <1>1, MarksStay
  <2>2. CASE k \notin DOMAIN channels
    <3>1. turn # m /\ \E n \in Names :
              channels'[k] = AddOperator(AddMember(NewChannel(n), turn), turn)
      BY <1>1, <2>2, NextFates DEF Fates, Birth
    <3>2. QED
      BY <2>1, <3>1 DEF AddOperator, AddMember, NewChannel
  <2>3. CASE k \in DOMAIN channels
    <3>1. Fate(k) /\ channels[k] \in Channels
      BY <1>1, <2>3, NextFates DEF Fates, IInv, TableInv, WellFormed
    <3>2. ~IsSwept(k)
      BY <1>1, <2>1 DEF IsSwept
    <3>3. CASE Enters(k)
      BY <1>1, <2>1, <2>3, <3>1, <3>3
         DEF Enters, Command, Line, RemoveInvite, AddMember, Channels
    <3>4. CASE Goes(k)
      BY <2>1, <2>3, <3>1, <3>4 DEF Goes, RemoveOperator, RemoveMember, Channels
    <3>5. CASE GetsInvitee(k)
      BY <1>1, <2>1, <2>3, <3>1, <3>5 DEF GetsInvitee, AddInvite, Channels
    <3>6. CASE channels'[k] = channels[k] \/ IsTuned(k)
      BY <2>1, <2>3, <3>6 DEF IsTuned
    <3>7. QED
      BY <3>1, <3>2, <3>3, <3>4, <3>5, <3>6 DEF Fate
  <2>4. QED
    BY <2>2, <2>3
<1>2. IInv /\ [Next]_vars => [MarkedStep]_vars
  BY <1>1 DEF MarkedStep
<1>3. QED
  BY <1>2, InductiveInvariant, PTL DEF Spec, MarkedClientsTakeNoPart

(***************************************************************************)
(* Server implements NickRegistry and, for every channel, Room.  Both rest *)
(* on the inductive invariant in the states before and after a step.       *)
(***************************************************************************)

-----------------------------------------------------------------------------
(* The nickname registry.                                                  *)

LEMMA QuietSteps ==
    ASSUME IInv, IInv', [Next]_vars
    PROVE  \/ Reap
           \/ \E c \in Fds : Accept(c)
           \/ \E c \in Fds, n \in Nicks : Nick(c, n)
           \/ UNCHANGED <<clients, nick>>
<1>1. CASE UNCHANGED vars
  BY <1>1 DEF vars, registration, loop
<1>2. ASSUME NEW c \in Fds,
             \/ Turn(c) \/ Reply(c) \/ Disconnect(c) \/ Pass(c) \/ PassMismatch(c) \/ User(c)
             \/ \E n \in Nicks : PrivmsgUser(c, n)
      PROVE  UNCHANGED <<clients, nick>>
  BY <1>2 DEF Turn, Reply, Disconnect, Pass, PassMismatch, User, PrivmsgUser, registration, loop
<1>3. ASSUME NEW c \in Fds, NEW n \in Names,
             \/ JoinNew(c, n) \/ \E key \in Keys : JoinExisting(c, n, key)
             \/ Part(c, n) \/ \E victim \in Fds : Kick(c, n, victim)
             \/ PrivmsgChannel(c, n)
             \/ \E t \in Topics : Topic(c, n, t)
             \/ \E who \in Nicks : Invite(c, n, who)
             \/ ModeBegin(c, n)
      PROVE  UNCHANGED <<clients, nick>>
  BY <1>3 DEF JoinNew, JoinExisting, Part, Kick, PrivmsgChannel, Topic, Invite, ModeBegin,
              registration, loop
<1>4. CASE \/ \E v \in BOOLEAN : ModeI(v) \/ ModeT(v)
           \/ \E key \in Keys : ModeAddKey(key)
           \/ ModeClearKey
           \/ \E lim \in Limits : ModeAddLimit(lim)
           \/ ModeClearLimit
           \/ \E adding \in BOOLEAN, who \in Nicks : ModeO(adding, who)
  BY <1>4 DEF ModeI, ModeT, ModeAddKey, ModeClearKey, ModeAddLimit, ModeClearLimit, ModeO,
              Apply, registration, loop
<1>5. CASE ModeRefused \/ ModeEnd
  BY <1>5 DEF ModeRefused, ModeEnd, registration, loop
<1>6. QED
  BY <1>1, <1>2, <1>3, <1>4, <1>5 DEF Next

\* Where neither a client nor a nickname comes, names are only released.
LEMMA QuietStepsRelease ==
    ASSUME IInv, IInv', [Next]_vars, UNCHANGED <<clients, nick>>
    PROVE  Registry!Release(dying')
<1>1. dying \subseteq clients
  BY DEF IInv, RegistryInv
<1>2. dying \subseteq dying'
  BY <1>1, MarksStay
<1>3. HeldNames' = {h \in HeldNames : h.who \notin dying'}
  BY <1>2 DEF HeldNames
<1>4. QED
  BY <1>3 DEF Registry!Release, Registry!Without

LEMMA NickClaims ==
    ASSUME IInv, IInv', NEW c \in Fds, NEW n \in Nicks, Nick(c, n)
    PROVE  Registry!Claim(c, Lower[n], dying')
<1>1. /\ c \in clients \ dying /\ HoldersOf(n) \subseteq {c}
      /\ nick' = [nick EXCEPT ![c] = n] /\ clients' = clients
  BY DEF Nick, Line, loop
<1>2. nick \in [Fds -> Nicks \cup {NoNick}] /\ clients \subseteq Fds /\ dying \subseteq clients
  BY DEF IInv, RegistryInv
<1>3. dying \subseteq dying'
  <2>1. (\E R : Send(R, channels)) \/ dying' = dying
    BY DEF Nick, CompleteRegistrationIfReady
  <2>2. QED
    BY <1>2, <2>1, SendMarks
<1>4. n # NoNick
  BY ServerAssumption
<1>5. \A h \in HeldNames : h.name = Lower[n] => h.who = c
  BY <1>1 DEF HeldNames, HoldersOf
<1>6. nick'[c] = n /\ \A d \in Fds \ {c} : nick'[d] = nick[d]
  BY <1>1, <1>2
<1> DEFINE kept == {h \in HeldNames : h.who \notin {c}}
           mine == [who |-> c, name |-> Lower[n]]
<1>7. ASSUME NEW h \in HeldNames'
      PROVE  h \in kept \cup {mine} /\ h.who \notin dying'
  <2>1. PICK d \in clients \ dying' :
            nick'[d] # NoNick /\ h = [who |-> d, name |-> Lower[nick'[d]]]
    BY <1>1, <1>7 DEF HeldNames
  <2>2. CASE d = c
    BY <1>6, <2>1, <2>2
  <2>3. CASE d # c
    <3>1. nick'[d] = nick[d] /\ d \in clients \ dying
      BY <1>2, <1>3, <1>6, <2>1, <2>3
    <3>2. h \in HeldNames
      BY <2>1, <3>1 DEF HeldNames
    <3>3. QED
      BY <2>1, <2>3, <3>2
  <2>4. QED
    BY <2>2, <2>3
<1>8. ASSUME NEW h \in kept \cup {mine}, h.who \notin dying'
      PROVE  h \in HeldNames'
  <2>1. CASE h = mine
    BY <1>1, <1>4, <1>6, <1>8, <2>1 DEF HeldNames
  <2>2. CASE h \in kept
    <3>1. PICK d \in clients \ dying :
              nick[d] # NoNick /\ h = [who |-> d, name |-> Lower[nick[d]]]
      BY <2>2 DEF HeldNames
    <3>2. d # c /\ d \notin dying' /\ nick'[d] = nick[d]
      BY <1>2, <1>6, <1>8, <2>2, <3>1
    <3>3. QED
      BY <1>1, <3>1, <3>2 DEF HeldNames
  <2>3. QED
    BY <1>8, <2>1, <2>2
<1>9. HeldNames' = {h \in kept \cup {mine} : h.who \notin dying'}
  BY <1>7, <1>8
<1>10. QED
  BY <1>5, <1>9 DEF Registry!Claim, Registry!Without

LEMMA RegistryStep ==
    ASSUME IInv, IInv', [Next]_vars
    PROVE  [Registry!Next]_HeldNames
<1>1. dying' \subseteq Fds
  BY DEF IInv, RegistryInv
<1>2. CASE Reap
  <2>1. clients' \ dying' = clients \ dying /\ \A c \in clients \ dying : nick'[c] = nick[c]
    BY <1>2 DEF Reap, Reaped, IInv, RegistryInv
  <2>2. HeldNames' = HeldNames
    BY <2>1 DEF HeldNames
  <2>3. QED
    BY <2>2
<1>3. ASSUME NEW c \in Fds, Accept(c) PROVE HeldNames' = HeldNames
  <2>1. nick' = nick /\ dying' = dying /\ clients' = clients \cup {c} /\ nick[c] = NoNick
    BY <1>3 DEF Accept, registration, IInv, RegistryInv, PasswordFirst
  <2>2. QED
    BY <2>1 DEF HeldNames
<1>4. ASSUME NEW c \in Fds, NEW n \in Nicks, Nick(c, n) PROVE Registry!Next
  <2>1. Registry!Claim(c, Lower[n], dying')
    BY <1>4, NickClaims
  <2>2. QED
    BY <1>1, <2>1 DEF Registry!Next
<1>5. CASE UNCHANGED <<clients, nick>>
  <2>1. Registry!Release(dying')
    BY <1>5, QuietStepsRelease
  <2>2. QED
    BY <1>1, <2>1 DEF Registry!Next
<1>6. QED
  BY <1>2, <1>3, <1>4, <1>5, QuietSteps

\* The server's nicknames behave as a registry in which a name passes from one
\* holder to the next only through a release (cmdNick, findClientByNick).
THEOREM NicknamesAreARegistry == Spec => ImplementsNickRegistry
<1>1. Init => Registry!Init
  BY DEF Init, Registry!Init, HeldNames
<1>2. IInv /\ IInv' /\ [Next]_vars => [Registry!Next]_HeldNames
  BY RegistryStep
<1>3. QED
  BY <1>1, <1>2, InductiveInvariant, PTL DEF Spec, ImplementsNickRegistry, Registry!Spec

-----------------------------------------------------------------------------
(* A room for every channel.                                               *)

LEMMA RoomsExist ==
    ASSUME IInv, observed \in DOMAIN channels
    PROVE  /\ ObservedRoom = RoomView(channels[observed])
           /\ ObservedRoom # NoRoom
           /\ WellFormed(channels[observed], Registered, clients)
           /\ channels[observed].members \subseteq Fds
<1>1. WellFormed(channels[observed], Registered, clients)
  BY DEF IInv, TableInv
<1>2. channels[observed].members \in SUBSET Fds /\ channels[observed].operators \in SUBSET Fds
      /\ channels[observed].invited \in SUBSET Fds /\ channels[observed].inviteOnly \in BOOLEAN
  BY <1>1 DEF WellFormed, Channels
<1>3. RoomView(channels[observed]) # NoRoom
  BY <1>2, RefinementAssumption DEF RoomView
<1>4. QED
  BY <1>1, <1>2, <1>3 DEF ObservedRoom

\* The fates are the actions of Room.
LEMMA SweepIsVanishing ==
    ASSUME IInv, IInv', observed \in DOMAIN channels, IsSwept(observed)
    PROVE  TheRoom!Vanish(dying)
<1> DEFINE ch == channels[observed]
           left == RemoveClients(ch, dying)
<1>1. ObservedRoom = RoomView(ch) /\ ObservedRoom # NoRoom /\ ch \in Channels
  BY RoomsExist DEF WellFormed
<1>2. /\ left.members = ch.members \ dying /\ left.operators = ch.operators \ dying
      /\ left.invited = ch.invited \ dying /\ left.inviteOnly = ch.inviteOnly
  BY <1>1 DEF RemoveClients, Channels
<1>3. CASE observed \in DOMAIN channels'
  <2>1. channels'[observed] = left /\ left.members # {}
    BY <1>3 DEF IsSwept, IInv, TableInv, WellFormed
  <2>2. ObservedRoom' = RoomView(left)
    BY <1>3, <2>1 DEF ObservedRoom, RoomView
  <2>3. QED
    BY <1>1, <1>2, <2>1, <2>2 DEF TheRoom!Vanish, TheRoom!Exists, TheRoom!Depart, TheRoom!Held,
                                   RoomView
<1>4. CASE observed \notin DOMAIN channels'
  <2>1. left.members = {}
    BY <1>4 DEF IsSwept, IsEmpty
  <2>2. ObservedRoom' = NoRoom
    BY <1>4 DEF ObservedRoom
  <2>3. QED
    BY <1>1, <1>2, <2>1, <2>2 DEF TheRoom!Vanish, TheRoom!Exists, TheRoom!Depart, TheRoom!Held,
                                   RoomView
<1>5. QED
  BY <1>3, <1>4

LEMMA GoingIsLeaving ==
    ASSUME IInv, IInv', observed \in DOMAIN channels, Goes(observed)
    PROVE  \E p, by \in Fds : TheRoom!Leave(p, by)
<1> DEFINE ch == channels[observed]
<1>1. /\ ObservedRoom = RoomView(ch) /\ ObservedRoom # NoRoom
      /\ ch \in Channels /\ ch.members \subseteq Fds /\ ch.operators \subseteq Fds
  BY RoomsExist DEF WellFormed
<1>2. PICK m \in ch.members :
        /\ turn \in {m} \cup ch.operators
        /\ LET left == RemoveOperator(RemoveMember(ch, m), m)
           IN  IF observed \in DOMAIN channels' THEN channels'[observed] = left ELSE IsEmpty(left)
  BY DEF Goes
<1> DEFINE left == RemoveOperator(RemoveMember(ch, m), m)
<1>3. /\ left.members = ch.members \ {m} /\ left.operators = ch.operators \ {m}
      /\ left.invited = ch.invited /\ left.inviteOnly = ch.inviteOnly
  BY <1>1 DEF RemoveOperator, RemoveMember, Channels
<1>4. m \in Fds /\ turn \in Fds
  BY <1>1, <1>2
<1>5. CASE observed \in DOMAIN channels'
  <2>1. channels'[observed] = left /\ left.members # {}
    BY <1>2, <1>5 DEF IInv, TableInv, WellFormed
  <2>2. ObservedRoom' = RoomView(left)
    BY <1>5, <2>1 DEF ObservedRoom, RoomView
  <2>3. TheRoom!Leave(m, turn)
    BY <1>1, <1>2, <1>3, <2>1, <2>2 DEF TheRoom!Leave, TheRoom!Exists, TheRoom!Depart, TheRoom!Held,
                                   RoomView
  <2>4. QED
    BY <1>4, <2>3
<1>6. CASE observed \notin DOMAIN channels'
  <2>1. left.members = {}
    BY <1>2, <1>6 DEF IsEmpty
  <2>2. ObservedRoom' = NoRoom
    BY <1>6 DEF ObservedRoom
  <2>3. TheRoom!Leave(m, turn)
    BY <1>1, <1>2, <1>3, <2>1, <2>2 DEF TheRoom!Leave, TheRoom!Exists, TheRoom!Depart, TheRoom!Held,
                                   RoomView
  <2>4. QED
    BY <1>4, <2>3
<1>7. QED
  BY <1>5, <1>6

LEMMA EnteringIsEntering ==
    ASSUME IInv, IInv', observed \in DOMAIN channels, observed \in DOMAIN channels',
           Enters(observed)
    PROVE  turn \in Fds /\ TheRoom!Enter(turn)
<1> DEFINE ch == channels[observed]
           entered == RemoveInvite(AddMember(ch, turn), turn)
<1>1. ObservedRoom = RoomView(ch) /\ ObservedRoom # NoRoom /\ ch \in Channels
  BY RoomsExist DEF WellFormed
<1>2. /\ turn \in Fds /\ turn \notin ch.members
      /\ ch.inviteOnly => turn \in ch.invited
      /\ channels'[observed] = entered
  BY RegisteredAreClients DEF Enters, PassesModeGates, Command
<1>3. /\ entered.members = ch.members \cup {turn} /\ entered.operators = ch.operators
      /\ entered.invited = ch.invited \ {turn} /\ entered.inviteOnly = ch.inviteOnly
  BY <1>1 DEF RemoveInvite, AddMember, Channels
<1>4. ObservedRoom' = RoomView(entered)
  BY <1>2 DEF ObservedRoom, RoomView
<1>5. QED
  BY <1>1, <1>2, <1>3, <1>4
     DEF TheRoom!Enter, TheRoom!Exists, TheRoom!Held, RoomView

LEMMA InvitingIsInviting ==
    ASSUME IInv, IInv', observed \in DOMAIN channels, observed \in DOMAIN channels',
           GetsInvitee(observed)
    PROVE  \E p \in Fds : TheRoom!Invite(p)
<1> DEFINE ch == channels[observed]
<1>1. ObservedRoom = RoomView(ch) /\ ObservedRoom # NoRoom /\ ch \in Channels
  BY RoomsExist DEF WellFormed
<1>2. PICK t \in clients \ dying : channels'[observed] = AddInvite(ch, t)
  BY DEF GetsInvitee
<1> DEFINE asked == AddInvite(ch, t)
<1>3. /\ asked.members = ch.members /\ asked.operators = ch.operators
      /\ asked.invited = ch.invited \cup {t} /\ asked.inviteOnly = ch.inviteOnly
  BY <1>1 DEF AddInvite, Channels
<1>4. t \notin ch.members
  \* Otherwise a member would be invited after the step.
  BY <1>2, <1>3 DEF IInv, TableInv, WellFormed
<1>5. ObservedRoom' = RoomView(asked)
  BY <1>2 DEF ObservedRoom, RoomView
<1>6. TheRoom!Invite(t)
  BY <1>1, <1>3, <1>4, <1>5 DEF TheRoom!Invite, TheRoom!Exists, TheRoom!Held, RoomView
<1>7. QED
  BY <1>6, RegisteredAreClients

LEMMA TuningIsRegulating ==
    ASSUME IInv, IInv', observed \in DOMAIN channels, observed \in DOMAIN channels',
           IsTuned(observed)
    PROVE  \E ranks \in SUBSET Fds, shut \in BOOLEAN : TheRoom!Regulate(ranks, shut)
<1> DEFINE ch  == channels[observed]
           new == channels'[observed]
<1>1. ObservedRoom = RoomView(ch) /\ ObservedRoom # NoRoom
  BY RoomsExist
<1>2. ObservedRoom' = RoomView(new)
  BY DEF ObservedRoom, RoomView
<1>3. /\ new.members = ch.members /\ new.invited = ch.invited
      /\ new.operators \subseteq new.members
      /\ new.operators \in SUBSET Fds /\ new.inviteOnly \in BOOLEAN
  BY DEF IsTuned, IInv, TableInv, WellFormed, Channels
<1>4. TheRoom!Regulate(new.operators, new.inviteOnly)
  BY <1>1, <1>2, <1>3 DEF TheRoom!Regulate, TheRoom!Exists, TheRoom!Held, RoomView
<1>5. QED
  BY <1>3, <1>4

LEMMA BirthIsOpening ==
    ASSUME IInv, observed \notin DOMAIN channels, observed \in DOMAIN channels',
           Birth(observed)
    PROVE  turn \in Fds /\ TheRoom!Open(turn)
<1>1. PICK n \in Names :
        channels'[observed] = AddOperator(AddMember(NewChannel(n), turn), turn)
  BY DEF Birth
<1> DEFINE new == AddOperator(AddMember(NewChannel(n), turn), turn)
<1>2. new.members = {turn} /\ new.operators = {turn} /\ new.invited = {} /\ new.inviteOnly = FALSE
  BY DEF AddOperator, AddMember, NewChannel
<1>3. ObservedRoom = NoRoom /\ ObservedRoom' = RoomView(new)
  BY <1>1 DEF ObservedRoom, RoomView
<1>4. turn \in Fds
  BY RegisteredAreClients DEF Birth
<1>5. QED
  BY <1>2, <1>3, <1>4 DEF TheRoom!Open, TheRoom!Exists, TheRoom!Held, RoomView

LEMMA RoomStep ==
    ASSUME IInv, IInv', [Next]_vars
    PROVE  [TheRoom!Next]_ObservedRoom
<1>1. Fates
  BY NextFates
<1>2. dying \in SUBSET Fds
  BY RegisteredAreClients
<1>3. CASE observed \notin DOMAIN channels /\ observed \notin DOMAIN channels'
  BY <1>3 DEF ObservedRoom
<1>4. CASE observed \notin DOMAIN channels /\ observed \in DOMAIN channels'
  BY <1>1, <1>4, BirthIsOpening DEF Fates, TheRoom!Next
<1>5. CASE observed \in DOMAIN channels
  <2>1. Fate(observed)
    BY <1>1, <1>5 DEF Fates
  <2>2. CASE IsSwept(observed)
    BY <1>2, <1>5, <2>2, SweepIsVanishing DEF TheRoom!Next
  <2>3. CASE Goes(observed)
    BY <1>5, <2>3, GoingIsLeaving DEF TheRoom!Next
  <2>4. CASE observed \in DOMAIN channels' /\ channels'[observed] = channels[observed]
    BY <1>5, <2>4 DEF ObservedRoom, RoomView
  <2>5. CASE observed \in DOMAIN channels' /\ Enters(observed)
    BY <1>5, <2>5, EnteringIsEntering DEF TheRoom!Next
  <2>6. CASE observed \in DOMAIN channels' /\ GetsInvitee(observed)
    BY <1>5, <2>6, InvitingIsInviting DEF TheRoom!Next
  <2>7. CASE observed \in DOMAIN channels' /\ IsTuned(observed)
    BY <1>5, <2>7, TuningIsRegulating DEF TheRoom!Next
  <2>8. QED
    BY <2>1, <2>2, <2>3, <2>4, <2>5, <2>6, <2>7 DEF Fate
<1>6. QED
  BY <1>3, <1>4, <1>5

\* Every channel of the server behaves as a Room, with any number of clients
\* and whatever overflows (joinOneChannel, partOneChannel, cmdKick, cmdInvite,
\* applyModeChanges, sweepChannels).
THEOREM ChannelsAreRooms == Spec => ImplementsRoom
<1>1. Init => TheRoom!Init
  BY DEF Init, TheRoom!Init, ObservedRoom
<1>2. IInv /\ IInv' /\ [Next]_vars => [TheRoom!Next]_ObservedRoom
  BY RoomStep
<1>3. QED
  BY <1>1, <1>2, InductiveInvariant, PTL DEF Spec, ImplementsRoom, TheRoom!Spec
=============================================================================
