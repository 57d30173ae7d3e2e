------------------------------ MODULE PollLoop ------------------------------
(***************************************************************************)
(* Server::run against the kernel: signals, the poll set, accept, recv and *)
(* send, deferred deletion.  What commands do is reduced to whom they mark *)
(* and for whom they queue output.                                         *)
(*                                                                         *)
(* Sockets are the kernel's side of the clients: how many packets wait to  *)
(* be read, whether there is room for more output, and whether the peer    *)
(* has shut its side down (FIN) or the connection is broken (RST).  On     *)
(* Linux a RST leaves what was received readable and reports POLLHUP.      *)
(***************************************************************************)
EXTENDS Naturals, FiniteSets

CONSTANTS
    Fds,        \* descriptors for clients
    MaxPeers,   \* bound: connections at a time, accepted or waiting
    MaxIn       \* bound: packets the kernel holds for a client

Listen == 0     \* _listenFd, the first entry of the poll set

ASSUME LoopAssumption ==
    /\ Fds \subseteq Nat \ {Listen} /\ IsFiniteSet(Fds)
    /\ MaxPeers \in Nat /\ MaxIn \in Nat

VARIABLES
    pc,         \* where run() is; "poll" is inside the system call
    shutdown,   \* g_shutdown
    late,       \* whether it was set between its test and poll(); read by no action
    revents,    \* what is left to serve of this iteration, by descriptor
    clients,    \* the keys of _clients
    fresh,      \* those accepted in this iteration
    cause,      \* why a client is _disconnecting: "peer" if its own connection ended,
                \* "server" for a command or a full queue, or "none"
    pending,    \* clients with hasPendingOutput
    waiting,    \* connections that wait for accept
    in,         \* packets received by the kernel and not read
    room,       \* descriptors whose socket takes more output
    end,        \* what the peer did to its side: "open", "fin" or "rst"
    calm        \* the environment has stopped for good

signal == <<shutdown, late>>
loop   == <<pc, signal, revents>>
table  == <<clients, fresh, cause, pending>>
kernel == <<waiting, in, room, end>>
vars   == <<loop, table, kernel, calm>>

Marked == {fd \in clients : cause[fd] # "none"}

Init ==
    /\ pc = "test" /\ shutdown = FALSE /\ late = FALSE
    /\ revents = [fd \in Fds \cup {Listen} |-> {}]
    /\ clients = {} /\ fresh = {} /\ pending = {}
    /\ cause = [fd \in Fds |-> "none"]
    /\ waiting = 0 /\ room = {}
    /\ in = [fd \in Fds |-> 0]
    /\ end = [fd \in Fds |-> "open"]
    /\ calm = FALSE

-----------------------------------------------------------------------------
(* The environment.                                                        *)

Peer == ~calm /\ UNCHANGED <<loop, table, calm>>

Connect ==
    /\ Peer
    /\ Cardinality(clients) + waiting < MaxPeers
    /\ waiting' = waiting + 1
    /\ UNCHANGED <<in, room, end>>

GiveUp ==
    /\ Peer
    /\ waiting > 0
    /\ waiting' = waiting - 1
    /\ UNCHANGED <<in, room, end>>

Write(fd) ==
    /\ Peer
    /\ fd \in clients /\ end[fd] = "open"
    /\ in[fd] < MaxIn
    /\ in' = [in EXCEPT ![fd] = @ + 1]
    /\ UNCHANGED <<waiting, room, end>>

Read(fd) ==
    /\ Peer
    /\ fd \in clients \ room /\ end[fd] # "rst"
    /\ room' = room \cup {fd}
    /\ UNCHANGED <<waiting, in, end>>

Hangup(fd) ==
    /\ Peer
    /\ fd \in clients
    /\ \/ end[fd] = "open" /\ end' = [end EXCEPT ![fd] = "fin"]
       \/ end[fd] # "rst"  /\ end' = [end EXCEPT ![fd] = "rst"]
    /\ UNCHANGED <<waiting, in, room>>

\* Mutant: poll() is called again.
PollAgain == "poll"

\* Where run() goes on when poll() fails with EINTR.
AfterEintr == "test"

\* SIGINT or SIGTERM: onShutdownSignal.
Signal ==
    /\ ~calm
    /\ ~shutdown
    /\ shutdown' = TRUE
    /\ late' = (pc = "build")
    /\ pc' = IF pc = "poll" THEN AfterEintr ELSE pc
    /\ UNCHANGED <<revents, table, kernel, calm>>

Calm ==
    /\ ~calm
    /\ calm' = TRUE
    /\ UNCHANGED <<loop, table, kernel>>

-----------------------------------------------------------------------------
(* The loop.                                                               *)

\* The condition of the loop, and ~Server when it fails.
Test ==
    /\ pc = "test"
    /\ pc' = IF shutdown THEN "stopped" ELSE "build"
    /\ UNCHANGED <<signal, revents, table, kernel, calm>>

\* Mutant: POLLOUT for everybody.
ArmedAlways == clients

\* buildPollFds: the clients with POLLOUT.
Armed == pending

BuildPollFds ==
    /\ pc = "build"
    /\ pc' = "poll"
    /\ UNCHANGED <<signal, revents, table, kernel, calm>>

\* What poll() would report now.
Ready(fd) ==
    IF fd = Listen THEN {e \in {"in"} : waiting > 0}
    ELSE IF fd \notin clients THEN {}
    ELSE {e \in {"in"}  : in[fd] > 0 \/ end[fd] # "open"} \cup
         {e \in {"out"} : fd \in Armed /\ (fd \in room \/ end[fd] = "rst")} \cup
         {e \in {"hup"} : end[fd] = "rst"}

Asleep == pc = "poll" /\ \A fd \in DOMAIN revents : Ready(fd) = {}

\* poll() returns when something is ready.
Poll ==
    /\ pc = "poll"
    /\ ~Asleep
    /\ revents' = [fd \in DOMAIN revents |-> Ready(fd)]
    /\ pc' = "serve"
    /\ UNCHANGED <<signal, table, kernel, calm>>

\* Mutant: dropped at once.
MarkAndDelete(why) ==
    /\ cause' = [fd \in Fds |-> IF fd \in DOMAIN why \ Marked THEN why[fd] ELSE cause[fd]]
    /\ clients' = clients \ DOMAIN why

\* disconnectClient of each client in the domain of why: the first cause stays;
\* nothing is deleted.
Mark(why) ==
    /\ cause' = [fd \in Fds |-> IF fd \in DOMAIN why \ Marked THEN why[fd] ELSE cause[fd]]
    /\ UNCHANGED clients

\* Clients that get something to write out, on top of old: any.
Queue(old) == \E P \in SUBSET clients : pending' = old \cup P

\* disconnectClient(fd, ...) because its peer is gone.  The QUIT and the ERROR are
\* queued, and clients whose queue is full are marked in turn: any set M.
Drop(fd) ==
    IF fd \in Marked
    THEN UNCHANGED <<clients, cause, pending>>
    ELSE /\ \E M \in SUBSET clients :
               Mark([g \in M \cup {fd} |-> IF g = fd THEN "peer" ELSE "server"])
         /\ Queue(pending)

\* The entry to serve: the first of the poll set with an event left.
Current(fd) ==
    /\ pc = "serve"
    /\ revents[fd] # {}
    /\ \A other \in DOMAIN revents : other < fd => revents[other] = {}

Served(fd, event) ==
    /\ revents' = [revents EXCEPT ![fd] = @ \ {event}]
    /\ UNCHANGED <<pc, signal, calm>>

\* accept() fails.
NothingToAccept == waiting = 0 \/ Fds \subseteq clients

\* acceptNewClient: one connection, on a free descriptor if there is one; a
\* connection whose fcntl() fails is closed.
Accept ==
    /\ Current(Listen)
    /\ Served(Listen, "in")
    /\ IF NothingToAccept
       THEN UNCHANGED <<table, kernel>>
       ELSE /\ waiting' = waiting - 1
            /\ \/ UNCHANGED <<table, in, room, end>>
               \/ \E fd \in Fds \ clients :
                     /\ clients' = clients \cup {fd}
                     /\ fresh' = fresh \cup {fd}
                     /\ room' = room \cup {fd}
                     /\ UNCHANGED <<cause, pending, in, end>>

\* Mutant: recv() until EAGAIN, while the other end keeps writing.
UntilEmpty(fd) ==
    /\ UNCHANGED <<pc, signal, calm>>
    /\ revents' = [revents EXCEPT ![fd] = IF in[fd] > 1 THEN @ ELSE @ \ {"in"}]

\* handleReadable does one recv().
OneRecv(fd) == Served(fd, "in")

\* Mutant: the hangup is acted on before the bytes.
HangupFirst(fd) == in[fd] > 0 /\ end[fd] = "open"

\* recv() returns bytes.
HasBytes(fd) == in[fd] > 0

\* handleReadable reads a packet and runs its lines.
ReadPacket(fd) ==
    /\ fd \in clients \ Marked
    /\ HasBytes(fd)
    /\ in' = [in EXCEPT ![fd] = @ - 1]
    /\ \E M \in SUBSET clients : Mark([g \in M |-> "server"])
    /\ Queue(pending)

\* handleReadable when there is nothing to read: recv() fails or returns 0.
ReadEnd(fd) ==
    /\ fd \in clients \ Marked
    /\ ~HasBytes(fd)
    /\ IF end[fd] = "open" THEN UNCHANGED <<clients, cause, pending>> ELSE Drop(fd)
    /\ UNCHANGED in

HandleReadable(fd) ==
    /\ fd # Listen
    /\ Current(fd) /\ "in" \in revents[fd]
    /\ OneRecv(fd)
    /\ \/ ReadPacket(fd)
       \/ ReadEnd(fd)
       \/ fd \notin clients \ Marked /\ UNCHANGED <<clients, cause, pending, in>>
    /\ UNCHANGED <<fresh, waiting, room, end>>

\* handleWritable, marked or not.
HandleWritable(fd) ==
    /\ fd # Listen
    /\ Current(fd) /\ "in" \notin revents[fd] /\ "out" \in revents[fd]
    /\ Served(fd, "out")
    /\ IF fd \notin clients \cap pending
       THEN UNCHANGED <<clients, cause, pending, room>>
       ELSE \/ end[fd] = "rst" /\ Drop(fd) /\ UNCHANGED room
            \/ /\ end[fd] # "rst" /\ fd \in room
               /\ \/ pending' = pending \ {fd} /\ room' \in {room, room \ {fd}}
                  \/ pending' = pending /\ room' = room \ {fd}
               /\ UNCHANGED <<clients, cause>>
            \/ end[fd] # "rst" /\ fd \notin room /\ UNCHANGED <<clients, cause, pending, room>>
    /\ UNCHANGED <<fresh, waiting, in, end>>

HandleHangup(fd) ==
    /\ fd # Listen
    /\ Current(fd) /\ revents[fd] = {"hup"}
    /\ Served(fd, "hup")
    /\ IF fd \in clients \ Marked THEN Drop(fd) ELSE UNCHANGED <<clients, cause, pending>>
    /\ UNCHANGED <<fresh, kernel>>

\* Whom reapDisconnected deletes.
Reaped == Marked

\* reapDisconnected, when every entry was served.  The descriptors are closed: a
\* later connection on one of them starts afresh.
ReapDisconnected ==
    /\ pc = "serve"
    /\ \A fd \in DOMAIN revents : revents[fd] = {}
    /\ clients' = clients \ Reaped
    /\ pending' = pending \ Reaped
    /\ room' = room \ Reaped
    /\ cause' = [fd \in Fds |-> IF fd \in Reaped THEN "none" ELSE cause[fd]]
    /\ in' = [fd \in Fds |-> IF fd \in Reaped THEN 0 ELSE in[fd]]
    /\ end' = [fd \in Fds |-> IF fd \in Reaped THEN "open" ELSE end[fd]]
    /\ fresh' = {}
    /\ pc' = "test"
    /\ UNCHANGED <<signal, revents, waiting, calm>>

Serve(fd) == HandleReadable(fd) \/ HandleWritable(fd) \/ HandleHangup(fd)

Run == Test \/ BuildPollFds \/ Poll \/ Accept \/ (\E fd \in Fds : Serve(fd)) \/ ReapDisconnected

Environment ==
    \/ Connect \/ GiveUp \/ Signal \/ Calm
    \/ \E fd \in Fds : Write(fd) \/ Read(fd) \/ Hangup(fd)

\* The program has ended, or sleeps and nobody is there to wake it.
Rests == (pc = "stopped" \/ (Asleep /\ calm)) /\ UNCHANGED vars

Next == Run \/ Environment \/ Rests

Spec == Init /\ [][Next]_vars

\* The process is scheduled; the environment does as it pleases.
FairSpec == Spec /\ WF_vars(Run)

-----------------------------------------------------------------------------

TypeOK ==
    /\ pc \in {"test", "build", "poll", "serve", "stopped"}
    /\ shutdown \in BOOLEAN /\ late \in BOOLEAN /\ calm \in BOOLEAN
    /\ revents \in [Fds \cup {Listen} -> SUBSET {"in", "out", "hup"}]
    /\ clients \subseteq Fds /\ fresh \subseteq Fds
    /\ pending \subseteq Fds /\ room \subseteq Fds
    /\ cause \in [Fds -> {"none", "peer", "server"}]
    /\ waiting \in Nat
    /\ in \in [Fds -> Nat] /\ end \in [Fds -> {"open", "fin", "rst"}]

\* While the poll set is walked, every entry with an event left still has the
\* client it was built for: none was deleted, and no connection accepted since
\* has taken over its descriptor (Server.cpp:206).
EventsReachTheirOwner ==
    pc = "serve" => \A fd \in Fds : revents[fd] # {} => fd \in clients \ fresh

\* No marked client is ever polled: they are all deleted at the end of the
\* iteration that marks them.
NobodyMarkedIsPolled == pc # "serve" => Marked = {}

\* What poll() was asked about is what there is to serve: the poll set, the
\* table of clients and the marks never drift apart, within an iteration or from
\* one to the next.
PollSetIsCurrent == EventsReachTheirOwner /\ NobodyMarkedIsPolled

\* A peer that only shut down its side is read to the end before it is dropped
\* for that.
HalfClosedIsReadToTheEnd ==
    \A fd \in clients : cause[fd] = "peer" /\ end[fd] = "fin" => in[fd] = 0

\* When the environment has stopped, the server comes to rest inside poll(), with
\* nothing ready: no event keeps the loop spinning.
ComesToRest == <>calm => <>[](Asleep \/ pc = "stopped")

\* A client with something to read is read again and again, whatever the others
\* send: one recv() for each event, and the next entry.
NobodyStarves ==
    \A fd \in Fds :
        []<>(fd \notin clients \/ in[fd] = 0 \/ pc = "stopped")
            \/ []<><<HandleReadable(fd)>>_vars

\* A signal ends the loop, whatever clients do and however much is queued for
\* them, even when nothing else ever happens.  The exception is a signal that
\* comes between the test of g_shutdown and poll(), which then waits for the next
\* event, and stops after serving it (Server.cpp:179-198).
SignalIsNoticed == (shutdown /\ (~late \/ pc = "serve")) ~> pc = "stopped"
=============================================================================
