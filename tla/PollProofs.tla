----------------------------- MODULE PollProofs -----------------------------
(***************************************************************************)
(* Theorems about PollLoop, for any number of descriptors, peers and       *)
(* packets: events reach their owners, nobody marked is polled, and a      *)
(* half-closed connection is read to its end.                              *)
(***************************************************************************)
EXTENDS PollLoop, TLAPS

\* Outside the walk over the poll set nothing of it is left over.
Settled ==
    pc # "serve" => /\ \A fd \in Fds \cup {Listen} : revents[fd] = {}
                    /\ fresh = {}

\* POLLHUP was reported of connections that are broken, and stay so.
HangupsAreResets ==
    \A fd \in Fds : "hup" \in revents[fd] => end[fd] = "rst"

\* Whoever was dropped for its peer's sake has a peer that closed.
PeersAreGone ==
    \A fd \in Fds : cause[fd] = "peer" => end[fd] # "open" /\ (end[fd] = "fin" => in[fd] = 0)

IInv == /\ TypeOK /\ Settled /\ HangupsAreResets /\ PeersAreGone
        /\ EventsReachTheirOwner /\ NobodyMarkedIsPolled

LEMMA InitIInv == Init => IInv
<1> SUFFICES ASSUME Init PROVE IInv OBVIOUS
<1>1. TypeOK BY LoopAssumption DEF Init, TypeOK
<1>2. Settled /\ HangupsAreResets /\ PeersAreGone
  BY DEF Init, Settled, HangupsAreResets, PeersAreGone
<1>3. EventsReachTheirOwner /\ NobodyMarkedIsPolled
  BY DEF Init, EventsReachTheirOwner, NobodyMarkedIsPolled, Marked
<1> QED BY <1>1, <1>2, <1>3 DEF IInv

\* A step of the kernel or of a peer.
LEMMA PeerStep ==
    ASSUME IInv, Peer,
           waiting' \in Nat, in' \in [Fds -> Nat], room' \subseteq Fds,
           end' \in [Fds -> {"open", "fin", "rst"}],
           \A fd \in Fds : end[fd] = "rst" => end'[fd] = "rst",
           \A fd \in Fds : end[fd] # "open" => end'[fd] # "open" /\ in'[fd] = in[fd],
           \A fd \in Fds : end'[fd] = "fin" => end[fd] # "rst"
    PROVE  IInv'
<1>1. TypeOK' BY DEF IInv, TypeOK, Peer, loop, signal, table
<1>2. Settled' BY DEF IInv, Settled, Peer, loop, signal, table
<1>3. HangupsAreResets' BY DEF IInv, HangupsAreResets, Peer, loop, signal, table
<1>4. PeersAreGone'
  <2> SUFFICES ASSUME NEW fd \in Fds, cause'[fd] = "peer"
               PROVE  end'[fd] # "open" /\ (end'[fd] = "fin" => in'[fd] = 0)
    BY DEF PeersAreGone
  <2>1. cause[fd] = "peer" BY DEF Peer, table
  <2>2. end[fd] # "open" /\ (end[fd] = "fin" => in[fd] = 0)
    BY <2>1 DEF IInv, PeersAreGone
  <2>3. end[fd] \in {"open", "fin", "rst"} BY DEF IInv, TypeOK
  <2> QED BY <2>2, <2>3
<1>5. EventsReachTheirOwner' /\ NobodyMarkedIsPolled'
  BY DEF IInv, EventsReachTheirOwner, NobodyMarkedIsPolled, Marked, Peer, loop, signal, table
<1> QED BY <1>1, <1>2, <1>3, <1>4, <1>5 DEF IInv

LEMMA EnvironmentStep == IInv /\ Environment => IInv'
<1> SUFFICES ASSUME IInv, Environment PROVE IInv' OBVIOUS
<1> USE DEF IInv
<1>1. CASE Connect \/ GiveUp
  <2>1. Peer /\ waiting' \in Nat /\ UNCHANGED <<in, room, end>>
    BY <1>1 DEF Connect, GiveUp, TypeOK
  <2> QED BY <2>1, PeerStep DEF TypeOK
<1>2. ASSUME NEW fd \in Fds, Write(fd) PROVE IInv'
  <2>1. in' \in [Fds -> Nat] /\ \A g \in Fds : end[g] # "open" => in'[g] = in[g]
    BY <1>2 DEF Write, TypeOK
  <2>2. Peer /\ UNCHANGED <<waiting, room, end>> BY <1>2 DEF Write
  <2> QED BY <2>1, <2>2, PeerStep DEF TypeOK
<1>3. ASSUME NEW fd \in Fds, Read(fd) PROVE IInv'
  <2>1. Peer /\ room' \subseteq Fds /\ UNCHANGED <<waiting, in, end>>
    BY <1>3 DEF Read, TypeOK
  <2> QED BY <2>1, PeerStep DEF TypeOK
<1>4. ASSUME NEW fd \in Fds, Hangup(fd) PROVE IInv'
  <2>1. Peer /\ UNCHANGED <<waiting, in, room>> BY <1>4 DEF Hangup
  <2>2. /\ end' \in [Fds -> {"open", "fin", "rst"}]
        /\ \A g \in Fds : end[g] = "rst" => end'[g] = "rst"
        /\ \A g \in Fds : end[g] # "open" => end'[g] # "open"
        /\ \A g \in Fds : end'[g] = "fin" => end[g] # "rst"
    BY <1>4 DEF Hangup, TypeOK
  <2> QED BY <2>1, <2>2, PeerStep DEF TypeOK
<1>5. CASE Signal
  <2>1. UNCHANGED <<revents, table, kernel, calm>> /\ shutdown' = TRUE /\ late' \in BOOLEAN
        /\ pc' = IF pc = "poll" THEN "test" ELSE pc
    BY <1>5 DEF Signal, AfterEintr
  <2> QED BY <2>1 DEF TypeOK, Settled, HangupsAreResets, PeersAreGone,
             EventsReachTheirOwner, NobodyMarkedIsPolled, Marked, table, kernel
<1>6. CASE Calm
  BY <1>6 DEF Calm, TypeOK, Settled, HangupsAreResets, PeersAreGone,
     EventsReachTheirOwner, NobodyMarkedIsPolled, Marked, loop, signal, table, kernel
<1> QED BY <1>1, <1>2, <1>3, <1>4, <1>5, <1>6 DEF Environment

\* An event of fd is served: whatever commands mark and queue, events go to the
\* clients they came from.
LEMMA ServeStep ==
    ASSUME IInv, NEW fd \in Fds, NEW event \in {"in", "out", "hup"},
           Current(fd), Served(fd, event), UNCHANGED <<clients, fresh, waiting, end>>,
           cause' \in [Fds -> {"none", "peer", "server"}],
           pending' \subseteq Fds, room' \subseteq Fds, in' \in [Fds -> Nat],
           \A g \in Fds : end[g] = "fin" /\ in[g] = 0 => in'[g] = 0,
           \A g \in Fds : cause'[g] = "peer" /\ cause[g] # "peer" =>
               end[g] = "rst" \/ (end[g] = "fin" /\ in'[g] = 0)
    PROVE  IInv'
<1>1. /\ pc = "serve" /\ pc' = "serve" /\ UNCHANGED <<signal, calm>>
      /\ revents' = [revents EXCEPT ![fd] = @ \ {event}]
  BY DEF Current, Served
<1>2. /\ revents' \in [Fds \cup {Listen} -> SUBSET {"in", "out", "hup"}]
      /\ \A g \in Fds : revents'[g] \subseteq revents[g]
  BY <1>1 DEF IInv, TypeOK
<1>3. TypeOK' BY <1>1, <1>2 DEF IInv, TypeOK, signal
<1>4. Settled' /\ NobodyMarkedIsPolled' BY <1>1 DEF Settled, NobodyMarkedIsPolled
<1>5. HangupsAreResets' BY <1>2 DEF IInv, HangupsAreResets
<1>6. PeersAreGone'
  <2> SUFFICES ASSUME NEW g \in Fds, cause'[g] = "peer"
               PROVE  end[g] # "open" /\ (end[g] = "fin" => in'[g] = 0)
    BY DEF PeersAreGone
  <2>1. CASE cause[g] = "peer" BY <2>1 DEF IInv, PeersAreGone
  <2>2. CASE cause[g] # "peer" BY <2>2
  <2> QED BY <2>1, <2>2
<1>7. EventsReachTheirOwner' BY <1>1, <1>2 DEF IInv, EventsReachTheirOwner
<1> QED BY <1>3, <1>4, <1>5, <1>6, <1>7 DEF IInv

\* disconnectClient: whoever else it marks, only fd for its peer's sake.
LEMMA DropMarks ==
    ASSUME TypeOK, NEW fd \in Fds, Drop(fd)
    PROVE  /\ UNCHANGED clients /\ pending' \subseteq Fds
           /\ cause' \in [Fds -> {"none", "peer", "server"}]
           /\ \A g \in Fds : cause'[g] = "peer" => cause[g] = "peer" \/ g = fd
<1>1. cause \in [Fds -> {"none", "peer", "server"}] /\ clients \subseteq Fds /\ pending \subseteq Fds
  BY DEF TypeOK
<1>2. CASE fd \in Marked BY <1>1, <1>2 DEF Drop
<1>3. CASE fd \notin Marked
  <2>1. PICK M \in SUBSET clients :
            Mark([g \in M \cup {fd} |-> IF g = fd THEN "peer" ELSE "server"])
    BY <1>3 DEF Drop
  <2>2. PICK why : why = [g \in M \cup {fd} |-> IF g = fd THEN "peer" ELSE "server"]
    OBVIOUS
  <2>3. UNCHANGED clients
        /\ cause' = [g \in Fds |-> IF g \in DOMAIN why \ Marked THEN why[g] ELSE cause[g]]
    BY <2>1, <2>2 DEF Mark
  <2>4. \A g \in DOMAIN why : why[g] \in {"peer", "server"} /\ (why[g] = "peer" => g = fd)
    BY <2>2
  <2>5. pending' \subseteq Fds BY <1>1, <1>3 DEF Drop, Queue
  <2>6. cause' \in [Fds -> {"none", "peer", "server"}] BY <1>1, <2>3, <2>4
  <2>7. \A g \in Fds : cause'[g] = "peer" => cause[g] = "peer" \/ g = fd
    BY <1>1, <2>3, <2>4
  <2> QED BY <2>3, <2>5, <2>6, <2>7
<1> QED BY <1>2, <1>3

LEMMA HandleReadableStep ==
    ASSUME IInv, NEW fd \in Fds, HandleReadable(fd) PROVE IInv'
<1>1. /\ Current(fd) /\ Served(fd, "in") /\ UNCHANGED <<fresh, waiting, room, end>>
  BY DEF HandleReadable, OneRecv
<1>2. cause \in [Fds -> {"none", "peer", "server"}] /\ clients \subseteq Fds
      /\ pending \subseteq Fds /\ room \subseteq Fds /\ in \in [Fds -> Nat]
      /\ end \in [Fds -> {"open", "fin", "rst"}]
  BY DEF IInv, TypeOK
<1>3. CASE ReadPacket(fd)
  <2>1. PICK M \in SUBSET clients : Mark([g \in M |-> "server"]) BY <1>3 DEF ReadPacket
  <2>2. UNCHANGED clients /\ cause' = [g \in Fds |-> IF g \in M \ Marked THEN "server" ELSE cause[g]]
    BY <2>1 DEF Mark
  <2>3. pending' \subseteq Fds BY <1>2, <1>3 DEF ReadPacket, Queue
  <2>4. in' = [in EXCEPT ![fd] = @ - 1] /\ in[fd] > 0 BY <1>3 DEF ReadPacket, HasBytes
  <2>5. in' \in [Fds -> Nat] /\ \A g \in Fds : in[g] = 0 => in'[g] = 0 BY <2>4, <1>2
  <2>6. /\ cause' \in [Fds -> {"none", "peer", "server"}]
        /\ \A g \in Fds : cause'[g] = "peer" => cause[g] = "peer"
    BY <2>2, <1>2
  <2> QED BY <1>1, <1>2, <2>2, <2>3, <2>5, <2>6, ServeStep
<1>4. CASE ReadEnd(fd)
  <2>1. in[fd] = 0 /\ in' = in BY <1>2, <1>4 DEF ReadEnd, HasBytes
  <2>2. CASE end[fd] = "open"
    BY <1>1, <1>2, <1>4, <2>1, <2>2, ServeStep DEF ReadEnd
  <2>3. CASE end[fd] # "open" /\ Drop(fd)
    <3>1. /\ UNCHANGED clients /\ pending' \subseteq Fds
          /\ cause' \in [Fds -> {"none", "peer", "server"}]
          /\ \A g \in Fds : cause'[g] = "peer" => cause[g] = "peer" \/ g = fd
      BY <2>3, DropMarks DEF IInv
    <3>2. end[fd] = "rst" \/ end[fd] = "fin" BY <2>3, <1>2
    <3> QED BY <1>1, <1>2, <2>1, <3>1, <3>2, ServeStep
  <2> QED BY <1>4, <2>2, <2>3 DEF ReadEnd
<1>5. CASE UNCHANGED <<clients, cause, pending, in>>
  BY <1>1, <1>2, <1>5, ServeStep
<1> QED BY <1>3, <1>4, <1>5 DEF HandleReadable

\* disconnectClient on a connection that is broken.
LEMMA DropStep ==
    ASSUME IInv, NEW fd \in Fds, NEW event \in {"in", "out", "hup"},
           Current(fd), Served(fd, event), Drop(fd), end[fd] = "rst",
           UNCHANGED <<fresh, waiting, in, room, end>>
    PROVE  IInv'
<1>1. /\ UNCHANGED clients /\ pending' \subseteq Fds
      /\ cause' \in [Fds -> {"none", "peer", "server"}]
      /\ \A g \in Fds : cause'[g] = "peer" => cause[g] = "peer" \/ g = fd
  BY DropMarks DEF IInv
<1>2. room \subseteq Fds /\ in \in [Fds -> Nat] BY DEF IInv, TypeOK
<1> QED BY <1>1, <1>2, ServeStep

LEMMA HandleWritableStep ==
    ASSUME IInv, NEW fd \in Fds, HandleWritable(fd) PROVE IInv'
<1>1. Current(fd) /\ Served(fd, "out") /\ UNCHANGED <<fresh, waiting, in, end>>
  BY DEF HandleWritable
<1>2. cause \in [Fds -> {"none", "peer", "server"}]
      /\ pending \subseteq Fds /\ room \subseteq Fds /\ in \in [Fds -> Nat]
  BY DEF IInv, TypeOK
<1>3. CASE end[fd] = "rst" /\ Drop(fd) /\ UNCHANGED room
  BY <1>1, <1>3, DropStep
<1>4. CASE UNCHANGED <<clients, cause>> /\ pending' \subseteq Fds /\ room' \subseteq Fds
  BY <1>1, <1>2, <1>4, ServeStep
<1>5. \/ end[fd] = "rst" /\ Drop(fd) /\ UNCHANGED room
      \/ UNCHANGED <<clients, cause>> /\ pending' \subseteq Fds /\ room' \subseteq Fds
  BY <1>2 DEF HandleWritable
<1> QED BY <1>3, <1>4, <1>5

LEMMA HandleHangupStep ==
    ASSUME IInv, NEW fd \in Fds, HandleHangup(fd) PROVE IInv'
<1>1. /\ Current(fd) /\ Served(fd, "hup") /\ UNCHANGED <<fresh, waiting, in, room, end>>
      /\ "hup" \in revents[fd]
  BY DEF HandleHangup, kernel
<1>2. end[fd] = "rst" BY <1>1 DEF IInv, HangupsAreResets
<1>3. CASE Drop(fd) BY <1>1, <1>2, <1>3, DropStep
<1>4. CASE UNCHANGED <<clients, cause, pending>>
  BY <1>1, <1>4, ServeStep DEF IInv, TypeOK
<1> QED BY <1>3, <1>4 DEF HandleHangup

LEMMA AcceptStep == IInv /\ Accept => IInv'
<1> SUFFICES ASSUME IInv, Accept PROVE IInv' OBVIOUS
<1>1. /\ pc = "serve" /\ pc' = "serve" /\ UNCHANGED <<shutdown, late, calm>>
      /\ revents' = [revents EXCEPT ![Listen] = @ \ {"in"}]
  BY DEF Accept, Current, Served, signal
<1>2. /\ revents' \in [Fds \cup {Listen} -> SUBSET {"in", "out", "hup"}]
      /\ \A g \in Fds : revents'[g] = revents[g]
  BY <1>1, LoopAssumption DEF IInv, TypeOK
<1>3. Settled' /\ NobodyMarkedIsPolled' BY <1>1 DEF Settled, NobodyMarkedIsPolled
<1>4. CASE UNCHANGED <<table, in, room, end>> /\ waiting' \in Nat
  BY <1>1, <1>2, <1>3, <1>4
     DEF IInv, TypeOK, HangupsAreResets, PeersAreGone, EventsReachTheirOwner, table
<1>5. ASSUME NEW fd \in Fds \ clients,
             clients' = clients \cup {fd}, fresh' = fresh \cup {fd},
             room' = room \cup {fd}, UNCHANGED <<cause, pending, in, end>>,
             waiting' \in Nat
      PROVE  IInv'
  <2>1. TypeOK' BY <1>1, <1>2, <1>5 DEF IInv, TypeOK
  <2>2. HangupsAreResets' /\ PeersAreGone'
    BY <1>2, <1>5 DEF IInv, HangupsAreResets, PeersAreGone
  <2>3. EventsReachTheirOwner'
    <3> SUFFICES ASSUME NEW g \in Fds, revents'[g] # {} PROVE g \in clients' \ fresh'
      BY DEF EventsReachTheirOwner
    <3>1. g \in clients \ fresh BY <1>1, <1>2 DEF IInv, EventsReachTheirOwner
    <3> QED BY <3>1, <1>5
  <2> QED BY <1>3, <2>1, <2>2, <2>3 DEF IInv
<1>6. CASE NothingToAccept
  <2>1. UNCHANGED <<table, kernel>> BY <1>6 DEF Accept
  <2> QED BY <1>4, <2>1 DEF kernel, IInv, TypeOK
<1>7. CASE ~NothingToAccept
  <2>1. waiting' = waiting - 1 /\ waiting # 0 BY <1>7 DEF Accept, NothingToAccept
  <2>2. waiting' \in Nat BY <2>1 DEF IInv, TypeOK
  <2>3. \/ UNCHANGED <<table, in, room, end>>
        \/ \E fd \in Fds \ clients :
              /\ clients' = clients \cup {fd}
              /\ fresh' = fresh \cup {fd}
              /\ room' = room \cup {fd}
              /\ UNCHANGED <<cause, pending, in, end>>
    BY <1>7 DEF Accept
  <2> QED BY <2>2, <2>3, <1>4, <1>5
<1> QED BY <1>6, <1>7

LEMMA PollStep == IInv /\ Poll => IInv'
<1> SUFFICES ASSUME IInv, Poll PROVE IInv' OBVIOUS
<1>1. /\ pc = "poll" /\ pc' = "serve" /\ UNCHANGED <<shutdown, late, table, kernel, calm>>
      /\ revents' = [fd \in DOMAIN revents |-> Ready(fd)]
  BY DEF Poll, signal
<1>2. DOMAIN revents = Fds \cup {Listen} /\ Listen \notin Fds /\ fresh = {}
  BY <1>1, LoopAssumption DEF IInv, TypeOK, Settled
<1>3. /\ \A fd \in Fds \cup {Listen} : Ready(fd) \subseteq {"in", "out", "hup"}
      /\ \A fd \in Fds : Ready(fd) # {} => fd \in clients
      /\ \A fd \in Fds : "hup" \in Ready(fd) => end[fd] = "rst"
  BY <1>2 DEF Ready
<1>4. TypeOK' BY <1>1, <1>2, <1>3 DEF IInv, TypeOK, table, kernel
<1>5. HangupsAreResets' BY <1>1, <1>2, <1>3 DEF HangupsAreResets, kernel
<1>6. EventsReachTheirOwner' BY <1>1, <1>2, <1>3 DEF EventsReachTheirOwner, table
<1>7. PeersAreGone' BY <1>1 DEF IInv, PeersAreGone, table, kernel
<1>8. Settled' /\ NobodyMarkedIsPolled' BY <1>1 DEF Settled, NobodyMarkedIsPolled
<1> QED BY <1>4, <1>5, <1>6, <1>7, <1>8 DEF IInv

LEMMA ReapStep == IInv /\ ReapDisconnected => IInv'
<1> SUFFICES ASSUME IInv, ReapDisconnected PROVE IInv' OBVIOUS
<1>1. /\ pc' = "test" /\ fresh' = {} /\ UNCHANGED <<shutdown, late, revents, waiting, calm>>
      /\ clients' = clients \ Marked /\ pending' = pending \ Marked
      /\ room' = room \ Marked
      /\ cause' = [fd \in Fds |-> IF fd \in Marked THEN "none" ELSE cause[fd]]
      /\ in' = [fd \in Fds |-> IF fd \in Marked THEN 0 ELSE in[fd]]
      /\ end' = [fd \in Fds |-> IF fd \in Marked THEN "open" ELSE end[fd]]
  BY DEF ReapDisconnected, Reaped, signal
<1>2. \A fd \in Fds \cup {Listen} : revents[fd] = {}
  BY DEF ReapDisconnected, IInv, TypeOK
<1>3. TypeOK' BY <1>1 DEF IInv, TypeOK
<1>4. Settled' /\ HangupsAreResets' BY <1>1, <1>2 DEF Settled, HangupsAreResets
<1>5. PeersAreGone' BY <1>1 DEF IInv, PeersAreGone
<1>6. EventsReachTheirOwner' BY <1>1 DEF EventsReachTheirOwner
<1>7. NobodyMarkedIsPolled'
  <2> SUFFICES ASSUME NEW fd \in clients', cause'[fd] # "none" PROVE FALSE
    BY DEF NobodyMarkedIsPolled, Marked
  <2>1. fd \in clients /\ fd \notin Marked /\ fd \in Fds BY <1>1 DEF IInv, TypeOK
  <2>2. cause'[fd] = cause[fd] BY <1>1, <2>1
  <2> QED BY <2>1, <2>2 DEF Marked
<1> QED BY <1>3, <1>4, <1>5, <1>6, <1>7 DEF IInv

LEMMA NextIInv == IInv /\ [Next]_vars => IInv'
<1> SUFFICES ASSUME IInv, [Next]_vars PROVE IInv' OBVIOUS
<1>1. CASE Environment BY <1>1, EnvironmentStep
<1>2. CASE Test \/ BuildPollFds
  <2>1. /\ pc # "serve" /\ pc' \in {"stopped", "build", "poll"}
        /\ UNCHANGED <<shutdown, late, revents, table, kernel, calm>>
    BY <1>2 DEF Test, BuildPollFds, signal
  <2> QED BY <2>1 DEF IInv, TypeOK, Settled, HangupsAreResets, PeersAreGone,
             EventsReachTheirOwner, NobodyMarkedIsPolled, Marked, table, kernel
<1>3. CASE Poll BY <1>3, PollStep
<1>4. CASE Accept BY <1>4, AcceptStep
<1>5. ASSUME NEW fd \in Fds, Serve(fd) PROVE IInv'
  BY <1>5, HandleReadableStep, HandleWritableStep, HandleHangupStep DEF Serve
<1>6. CASE ReapDisconnected BY <1>6, ReapStep
<1>7. CASE UNCHANGED vars
  BY <1>7 DEF vars, loop, signal, table, kernel, IInv, TypeOK, Settled, HangupsAreResets,
              PeersAreGone, EventsReachTheirOwner, NobodyMarkedIsPolled, Marked
<1>8. CASE Rests BY <1>7, <1>8 DEF Rests
<1> QED BY <1>1, <1>2, <1>3, <1>4, <1>5, <1>6, <1>7, <1>8 DEF Next, Run

LEMMA Invariance == Spec => []IInv
BY InitIInv, NextIInv, PTL DEF Spec

\* No event of an iteration is handed to anybody but the client it was reported
\* for (the loop of run, acceptNewClient, reapDisconnected).
THEOREM EventsAreNotMisdelivered == Spec => []EventsReachTheirOwner
<1>1. IInv => EventsReachTheirOwner BY DEF IInv
<1> QED BY <1>1, Invariance, PTL

\* A client that is marked is never polled again (reapDisconnected).
THEOREM MarksAreReaped == Spec => []NobodyMarkedIsPolled
<1>1. IInv => NobodyMarkedIsPolled BY DEF IInv
<1> QED BY <1>1, Invariance, PTL

\* The poll set, the table and the marks stay together.
THEOREM PollSetStaysCurrent == Spec => []PollSetIsCurrent
BY EventsAreNotMisdelivered, MarksAreReaped, PTL DEF PollSetIsCurrent

\* What was sent before a FIN is read before the client is dropped for it
\* (handleReadable).
THEOREM FinIsTheEnd == Spec => []HalfClosedIsReadToTheEnd
<1>1. IInv => HalfClosedIsReadToTheEnd
  BY DEF IInv, PeersAreGone, HalfClosedIsReadToTheEnd, TypeOK
<1> QED BY <1>1, Invariance, PTL
=============================================================================
