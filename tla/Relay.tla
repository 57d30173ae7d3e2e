------------------------------- MODULE Relay -------------------------------
(***************************************************************************)
(* The sends of the server in small steps: sendToClient, the broadcast     *)
(* loops and disconnectClient, which call each other when an output queue  *)
(* is full.  The module is about the inside of a command and about what    *)
(* each client gets to read; commands are reduced to the lines they send.  *)
(*                                                                         *)
(* stack is the call stack: each frame is a loop that still has to send    *)
(* `line' to the clients of `to'.  disconnectClient is two frames: the     *)
(* QUIT to the peers on top, the ERROR to the client itself below.  The    *)
(* loops run over std::set<Client *>, in the order of addresses, hence any *)
(* member of `to' may be next.  Clients are all registered, since only     *)
(* registered ones have peers; there are no new connections.               *)
(***************************************************************************)
EXTENDS Delivery, Naturals, Sequences, FiniteSets

CONSTANTS
    Clients, RoomNames,
    Cap,        \* MAX_OUTPUT_QUEUE, in the units of Size
    Budget      \* bound: commands executed

ASSUME RelayAssumption ==
    /\ IsFiniteSet(Clients)
    /\ Cap \in Nat /\ Budget \in Nat

VARIABLES
    rooms,      \* the channels: their members
    stream,     \* the lines accepted for each client since it connected
    load,       \* the size of its output queue
    marked,     \* clients with _disconnecting
    gone,       \* clients reaped
    reason,     \* _quitReason
    stack,
    call,       \* the outermost send in progress or last done: whom it was to,
                \* and who was marked or gone before it
    witness,    \* the peers each client had when it was marked
    spent       \* commands executed

queues == <<stream, load>>
marks  == <<marked, reason, witness>>
vars == <<rooms, queues, marks, gone, stack, call, spent>>

NoReason == "none"

\* ERROR is the shortest line there is about a client.
Size(line) == IF line.kind = "error" THEN 1 ELSE 2

Line(kind, from, why) == [kind |-> kind, from |-> from, why |-> why]
Frame(line, to)       == [line |-> line, to |-> to]

Alive == Clients \ (marked \cup gone)

Init ==
    /\ rooms \in [RoomNames -> {[members |-> m] : m \in SUBSET Clients}]
    /\ stream = [c \in Clients |-> <<>>]
    /\ load = [c \in Clients |-> 0]
    /\ marked = {} /\ gone = {}
    /\ reason = [c \in Clients |-> NoReason]
    /\ stack = <<>>
    /\ call = [to |-> {}, before |-> {}]
    /\ witness = [c \in Clients |-> {}]
    /\ spent = 0

-----------------------------------------------------------------------------
(* disconnectClient.                                                       *)

\* Mutant: the loop over the channels stops at the first one of c.
QuitToOneRoom(c, why) ==
    Frame(Line("quit", c, why),
          IF \E k \in RoomNames : c \in rooms[k].members
          THEN rooms[CHOOSE k \in RoomNames : c \in rooms[k].members].members \ {c}
          ELSE {})

Quit(c, why)  == Frame(Line("quit", c, why), Peers(c, rooms))
Error(c, why) == Frame(Line("error", c, why), {c})

\* Mutant: the QUIT goes to everybody.
FramesToAll(c, why) ==
    <<Error(c, why), Frame(Line("quit", c, why), Clients \ (gone \cup {c}))>>

\* What disconnectClient(c, why) still has to send once c is marked.
Frames(c, why) == <<Error(c, why), Quit(c, why)>>

MarkDisconnecting(c, why) ==
    /\ marked' = marked \cup {c}
    /\ reason' = [reason EXCEPT ![c] = why]
    /\ witness' = [witness EXCEPT ![c] = Peers(c, rooms)]

-----------------------------------------------------------------------------
(* Commands, run when no send is in progress.                              *)

\* A command of c that ends by sending line to R.
Command(c, line, R) ==
    /\ stack = <<>>
    /\ c \in Alive
    /\ spent < Budget
    /\ spent' = spent + 1
    /\ stack' = <<Frame(line, R)>>
    /\ call' = [to |-> R, before |-> marked \cup gone]

\* PRIVMSG, TOPIC, MODE and the like.
Talk(c, k) ==
    /\ c \in rooms[k].members
    /\ Command(c, Line("talk", c, NoReason), rooms[k].members \ {c})
    /\ UNCHANGED <<rooms, queues, marks, gone>>

Join(c, k) ==
    /\ c \notin rooms[k].members
    /\ rooms' = [rooms EXCEPT ![k].members = @ \cup {c}]
    /\ Command(c, Line("join", c, NoReason), rooms'[k].members)
    /\ UNCHANGED <<queues, marks, gone>>

\* QUIT, end of stream, a socket error.
Leave(c) ==
    /\ stack = <<>>
    /\ c \in Alive
    /\ spent < Budget
    /\ spent' = spent + 1
    /\ MarkDisconnecting(c, "quit")
    /\ stack' = Frames(c, "quit")
    /\ call' = [to |-> Peers(c, rooms), before |-> marked \cup gone \cup {c}]
    /\ UNCHANGED <<rooms, queues, gone>>

-----------------------------------------------------------------------------
(* The steps of a send.                                                    *)

Top  == stack[Len(stack)]
Rest == SubSeq(stack, 1, Len(stack) - 1)
Without(r) == Append(Rest, Frame(Top.line, Top.to \ {r}))

Return ==
    /\ stack # <<>>
    /\ Top.to = {}
    /\ stack' = Rest
    /\ UNCHANGED <<rooms, queues, marks, gone, call, spent>>

Fits(r) == load[r] + Size(Top.line) <= Cap

Deliver(r) ==
    /\ stack # <<>>
    /\ r \in Top.to
    /\ Fits(r)
    /\ stream' = [stream EXCEPT ![r] = Append(@, Top.line)]
    /\ load' = [load EXCEPT ![r] = @ + Size(Top.line)]
    /\ stack' = Without(r)
    /\ UNCHANGED <<rooms, marks, gone, call, spent>>

\* Mutant: a line for a client already marked is tried again.
SkipAgain(r) ==
    /\ stack # <<>>
    /\ r \in Top.to \cap marked
    /\ ~Fits(r)
    /\ UNCHANGED vars

\* Mutant: a later failure replaces the reason of the first.
SkipWithNewReason(r) ==
    /\ stack # <<>>
    /\ r \in Top.to \cap marked
    /\ ~Fits(r)
    /\ reason' = [reason EXCEPT ![r] = "SendQ exceeded"]
    /\ stack' = Without(r)
    /\ UNCHANGED <<rooms, queues, marked, witness, gone, call, spent>>

\* The early return of disconnectClient.
Skip(r) ==
    /\ stack # <<>>
    /\ r \in Top.to \cap marked
    /\ ~Fits(r)
    /\ stack' = Without(r)
    /\ UNCHANGED <<rooms, queues, marks, gone, call, spent>>

\* Mutant: disconnectClient does not test the mark first.
RefuseUnguarded(r) ==
    /\ stack # <<>>
    /\ r \in Top.to
    /\ ~Fits(r)
    /\ MarkDisconnecting(r, "SendQ exceeded")
    /\ stack' = Without(r) \o Frames(r, "SendQ exceeded")
    /\ UNCHANGED <<rooms, queues, gone, call, spent>>

Refuse(r) ==
    /\ stack # <<>>
    /\ r \in Top.to \ marked
    /\ ~Fits(r)
    /\ MarkDisconnecting(r, "SendQ exceeded")
    /\ stack' = Without(r) \o Frames(r, "SendQ exceeded")
    /\ UNCHANGED <<rooms, queues, gone, call, spent>>

SendStep == Return \/ \E r \in Clients : Deliver(r) \/ Skip(r) \/ Refuse(r)

-----------------------------------------------------------------------------
(* The rest of the loop.                                                   *)

\* handleWritable, where the kernel takes the whole queue of c.
Writable(c) ==
    /\ stack = <<>>
    /\ load[c] > 0
    /\ load' = [load EXCEPT ![c] = 0]
    /\ UNCHANGED <<rooms, stream, marks, gone, stack, call, spent>>

\* The marked clients are swept and deleted.  How much of its stream a client
\* still gets is the subject of module OutputQueue.
Reap ==
    /\ stack = <<>>
    /\ marked # {}
    /\ rooms' = [k \in RoomNames |-> [members |-> rooms[k].members \ marked]]
    /\ gone' = gone \cup marked
    /\ marked' = {}
    /\ load' = [c \in Clients |-> IF c \in marked THEN 0 ELSE load[c]]
    /\ call' = [to |-> {}, before |-> {}]
    /\ UNCHANGED <<stream, reason, witness, stack, spent>>

\* Nobody is left, or the bound is reached: nothing more is asked of the server.
Terminating == stack = <<>> /\ (Alive = {} \/ spent = Budget) /\ UNCHANGED vars

Next ==
    \/ SendStep
    \/ \E c \in Clients : Leave(c) \/ Writable(c)
    \/ \E c \in Clients, k \in RoomNames : Talk(c, k) \/ Join(c, k)
    \/ Reap
    \/ Terminating

Spec == Init /\ [][Next]_vars

\* A send does not wait for anything.
FairSpec == Spec /\ WF_vars(SendStep)

-----------------------------------------------------------------------------
(* Properties.                                                             *)

\* Each disconnectClient in progress is for another client, which is marked:
\* the recursion through full queues is no deeper than two frames a client.
UnwindsOnce ==
    /\ \A i, j \in DOMAIN stack :
        /\ stack[i].line.kind = "error" => stack[i].line.from \in marked
        /\ stack[i].line = stack[j].line /\ stack[i].line.kind # "talk" => i = j
    /\ Len(stack) <= 1 + 2 * Cardinality(marked)

LinesOf(p) == {stream[p][i] : i \in DOMAIN stream[p]}

\* Whoever hears of the end of a client hears one reason, in every QUIT and in
\* its own ERROR: the first, however often it fails after that.  An ERROR is
\* for the client it is about.
OneReason ==
    \A p \in Clients : \A line \in LinesOf(p) :
        /\ line.kind \in {"quit", "error"} =>
            line.from \in marked \cup gone /\ line.why = reason[line.from]
        /\ line.kind = "error" => line.from = p

QuitsHeard(p, c) == {i \in DOMAIN stream[p] :
                        stream[p][i].kind = "quit" /\ stream[p][i].from = c}

\* However many channels they share, a client is told of a peer's QUIT at most
\* once, and when the sends are done every peer of that moment that is not
\* being dropped itself has been told.
QuitHeardOnce ==
    \A c, p \in Clients :
        /\ \A i, j \in QuitsHeard(p, c) : i = j
        /\ stack = <<>> /\ c \in marked \cup gone /\ p \in witness[c] \cap Alive =>
            QuitsHeard(p, c) # {}

\* The one-step result that module Server uses contains what the small steps do.
MatchesOverflows ==
    stack = <<>> =>
        marked \ call.before \in Overflows(call.to, rooms, Clients \ call.before)

\* Every command comes back, whatever overflows.
SendsReturn == stack # <<>> ~> stack = <<>>

-----------------------------------------------------------------------------
(* What a comment says and the code does not do.                            *)

\* src/ServerChannels.cpp:91 "NICK and QUIT have to reach everybody who shares
\* AT LEAST ONE channel with the origin".  Whoever joins between mark and reap
\* shares a channel with the marked client and is never told.
EverybodyIsTold ==
    stack = <<>> =>
        \A c \in marked : \A p \in Peers(c, rooms) \cap Alive : QuitsHeard(p, c) # {}
=============================================================================
